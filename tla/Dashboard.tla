------------------------------ MODULE Dashboard ------------------------------
(***************************************************************************)
(* The page (run/dashboard.py), as it shows one decision of the runner.     *)
(*                                                                         *)
(* It is read from files alone: the record, the paper book kept beside it,  *)
(* and what the runner kept of each seat.  It never reads the database, so  *)
(* what it says of a decision is true only if those files were kept when    *)
(* there was nothing left to happen.  The real swaps it also lists are      *)
(* LiveLeg's.                                                              *)
(***************************************************************************)
EXTENDS Rebalance

(* A cycle keeps one result of each of its seats, in a file named by it.    *)
ASSUME SeatsAssumption ==
  \A w \in Worlds :
     /\ \A x \in w.offered : x.seat \in DOMAIN Kind
     /\ \A x, y \in w.offered : x.seat = y.seat => x = y

(* dashboard.latest_cycle: a decision is shown once its book is beside it.  *)
Shown == book # Null

(* The paper book: its cash, its positions, and its net asset value.        *)
Overview ==
  [cash |-> book.cash * CashMark, nav |-> book.nav,
   holdings |-> [s \in {t \in Stocks : book.hold[t] > 0} |->
                   book.hold[s] * Mark[s]]]

(* Every seat: whether the record holds its report, and the calls its result*)
(* made, whether or not the decision accepted them.                         *)
Swarm ==
  [seat \in DOMAIN Kind |->
     [status |-> IF \E r \in record.reports : r.seat = seat
                 THEN "reported" ELSE "failed",
      calls  |-> UNION {Calls(x.report) :
                          x \in {y \in Offered : y.seat = seat}}]]

(* A stock's row: each seat's word on it, and the USD its orders move.      *)
DecisionRow(s) ==
  LET said == Said(record.reports, "direction", s)
                \cup Said(record.reports, "condition", s)
  IN  [words |-> [seat \in {x.seat : x \in said} |->
                    (CHOOSE x \in said : x.seat = seat).word],
       move  |-> WorthOf(plan.orders,
                         {i \in Indices : plan.orders[i].stock = s})]

(* An order's card: what became of it, and what decided that.  A buy the    *)
(* floor dropped is said to be the risk agent's.                            *)
RiskCard(i) ==
  [status    |-> IF i \in record.approved THEN "approved" ELSE "vetoed",
   decidedBy |-> IF i \notin Cleared THEN "a gate"
                 ELSE IF i \notin record.approved THEN "the risk agent"
                 ELSE "both"]

(* The counts, and the key the envelope names.                              *)
RecordSection ==
  [reports |-> Cardinality(record.reports), signer |-> record.signer,
   approved |-> Cardinality(record.approved),
   vetoed   |-> Cardinality(Indices \ record.approved)]

-------------------------------------------------------------------------------

(* What the journal's fills gave and took of cash, and of a stock.          *)
FilledOn(side, S) == In({"confirmed"}) \cap Side(plan.orders, side) \cap
                     {i \in Indices : plan.orders[i].stock \in S}
Got(T)  == Total([i \in Indices |-> IF i \in T THEN fill[i] ELSE 0])
Gave(T) == Total([i \in Indices |-> IF i \in T THEN plan.orders[i].sell ELSE 0])

(* Overview, against the journal: opened with what the cycle began with, and*)
(* moved by every fill, by no fill that came later, and by nothing else.    *)
OverviewIsTheLedger ==
  /\ Overview.cash = CashMark * (world.cash + Got(FilledOn("sell", Stocks))
                                            - Gave(FilledOn("buy", Stocks)))
  /\ \A s \in Stocks :
       LET now == world.hold[s] + Got(FilledOn("buy", {s}))
                                - Gave(FilledOn("sell", {s}))
       IN  IF now = 0 THEN s \notin DOMAIN Overview.holdings
           ELSE Overview.holdings[s] = now * Mark[s]

(* Risk, against the orders table: what it calls approved has ended, and    *)
(* was cleared by every gate; what it calls vetoed was never written.       *)
RiskIsTheStore ==
  \A i \in Indices :
     IF RiskCard(i).status = "approved"
     THEN row[i].state \in Final /\ RiskCard(i).decidedBy = "both"
     ELSE row[i].state = "none" /\ fill[i] = 0

(* Decision and Swarm, against each other and the book: a seat's word on a  *)
(* stock is a call of a seat that reported, and no position moved but by an *)
(* order shown, on a stock that some seat called that way.                  *)
SeatsExplainMoves ==
  \A s \in Stocks :
     LET shown == DecisionRow(s)
     IN  /\ \A seat \in DOMAIN shown.words :
              /\ Swarm[seat].status = "reported"
              /\ \E x \in Swarm[seat].calls :
                    x.stock = s /\ x.word = shown.words[seat]
         /\ book.hold[s] # world.hold[s] =>
              /\ shown.move > 0
              /\ \E seat \in DOMAIN shown.words :
                    shown.words[seat] = IF book.hold[s] > world.hold[s]
                                        THEN "buy" ELSE "sell"

(* The page's promise, "every figure comes from an artifact this fund       *)
(* produced" (dashboard.app), taken across its sections: whatever of this   *)
(* decision it shows agrees with the journal, the orders table, the reports *)
(* and a key that was published, through kills, edits and later runs.       *)
PageAgrees ==
  Shown => /\ OverviewIsTheLedger /\ RiskIsTheStore /\ SeatsExplainMoves
           /\ RecordSection.approved + RecordSection.vetoed = Len(plan.orders)
           /\ RecordSection.signer \in
                {PublishedKey(c.keys, Null) : c \in {world.config} \cup world.edits}

=============================================================================
