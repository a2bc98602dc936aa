------------------------------ MODULE Aggregate ------------------------------
(***************************************************************************)
(* Accepted reports to target weights, or no rebalance                      *)
(* (core/aggregate.py).  A target is kept here as the USD its position      *)
(* moves by, rounded toward zero to the cent: the cent stands for the       *)
(* millionth of the net asset value a weight is kept to.  Confidences are   *)
(* quarters, as config/analysts.json gives them.                            *)
(*                                                                         *)
(* A report is a seat and its calls: a stock, a word and a confidence word. *)
(***************************************************************************)
EXTENDS Reports

Quarters == [low |-> 1, medium |-> 2, high |-> 3]

Direction == [buy |-> 1, hold |-> 0, sell |-> -1]

(* The reports of one kind of seat that call a stock.                       *)
Calling(reports, kind, s) ==
  {r \in reports : Kind[r.seat] = kind /\ \E x \in r.calls : x.stock = s}

(* What a report's seat says of it.  A report names it once.                *)
Contribution(r, s) ==
  LET x == CHOOSE c \in r.calls : c.stock = s
  IN  [seat |-> r.seat, word |-> x.word, quarters |-> Quarters[x.conf]]

Said(reports, kind, s) ==
  {Contribution(r, s) : r \in Calling(reports, kind, s)}

(* What one report adds to the mean of the directions.                      *)
Leaning(r, s) ==
  Direction[Contribution(r, s).word] * Contribution(r, s).quarters

(* The sum the mean of the directions is taken of.                          *)
Directed(reports, s) ==
  LET calling == SetToSeq(Calling(reports, "direction", s))
  IN  Total([k \in DOMAIN calling |-> Leaning(calling[k], s)])

Caution(reports, s) ==
  Max({0} \cup {x.quarters : x \in {y \in Said(reports, "condition", s) :
                                      y.word = "caution"}})

(* |score| of a position limit: the mean direction, less its caution.       *)
Step(reports, s, nav, c) ==
  LET seats == Cardinality(Calling(reports, "direction", s))
  IN  (Max({Directed(reports, s), -Directed(reports, s)})
         * (4 - Caution(reports, s)) * c.weight * nav) \div (1600 * seats)

(* Too few seats, only abstentions, or no limit: every holding is kept.     *)
Rebalances(reports, c) ==
  /\ Quorum(Cardinality(reports), c)
  /\ \E r \in reports : r.calls # {}
  /\ c.weight # Null

(* A raise, a cut, or zero: hold, a score of zero, silence, and caution     *)
(* with no direction call leave a position where it is.                     *)
Target(reports, s, values, nav, c) ==
  IF Directed(reports, s) = 0 THEN 0
  ELSE IF Directed(reports, s) > 0
       THEN RaiseBy(values[s], Step(reports, s, nav, c), nav, c)
       ELSE -CutBy(values[s], Step(reports, s, nav, c))

Aggregated(reports, values, nav, c) ==
  [s \in Stocks |-> IF Rebalances(reports, c)
                    THEN Target(reports, s, values, nav, c) ELSE 0]

=============================================================================
