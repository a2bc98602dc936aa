------------------------------- MODULE Reports -------------------------------
(***************************************************************************)
(* An analyst's report, read and held to the snapshot it names              *)
(* (agents/schema.py), once more by the decision (run/decide.check).        *)
(*                                                                         *)
(* A report is its header, or Null, and its lines below it:                 *)
(*   call     a stock, the symbol it is called by, a word, a confidence;    *)
(*   badcall  a CALL line that cannot be read;                              *)
(*   nocalls  the abstention;                                               *)
(*   figure   what it cites, the figures it claims, the stocks it names;    *)
(*   prose    anything else.                                                *)
(* A citation names a field by its path, or by the end of its path, of a    *)
(* stock or of the call's own, and may assert its value.  A field that      *)
(* holds no number is Null.  Rounding to a claim's digits is left out, and  *)
(* so is the record kept of what was cited loosely, which refuses nothing.  *)
(***************************************************************************)
EXTENDS Gates

CONSTANTS
  Kind,       \* each seat's vocabulary: "direction" or "condition"
  MaxCalls    \* max_calls_per_report

Vocabulary == [direction |-> {"buy", "hold", "sell"},
               condition |-> {"proceed", "caution"}]

Confidences == {"low", "medium", "high"}

(* The fields a `bps` figure, and a figure in millions of dollars, can be.  *)
UnitFields == [bps      |-> {"divergence_bps", "swap_impact_bps"},
               millions |-> {"liquidity_usd"}]

-------------------------------------------------------------------------------
(* The shape: schema.parse *)

IsLine(r, k, kind) == r.lines[k].kind = kind

CallLines(r) == {k \in DOMAIN r.lines : IsLine(r, k, "call")}

Calls(r) == {r.lines[k] : k \in CallLines(r)}

(* The call a figure line stands under: the last CALL line before it, if    *)
(* nothing closed its block.  Elsewhere a figure is prose, and unchecked.   *)
CallOf(r, k) ==
  Max({0} \cup {j \in CallLines(r) :
                  j < k /\ \A i \in j + 1 .. k :
                             r.lines[i].kind \in {"figure", "prose"}})

ShapeHolds(r) ==
  /\ r.header # Null
  /\ \A k \in DOMAIN r.lines : ~IsLine(r, k, "badcall")
  /\ \/ CallLines(r) # {}
     \/ \E k \in DOMAIN r.lines : IsLine(r, k, "nocalls")

-------------------------------------------------------------------------------
(* The snapshot it names *)

NoField == [found |-> FALSE, path |-> << >>, value |-> Null]

FieldAt(fields, path) ==
  [found |-> TRUE, path |-> path, value |-> fields[path]]

(* A field cited by its whole path, unless the line says it is another      *)
(* value; or by the end of it, when exactly one number's path ends so.      *)
Cited(cite, scope, snap) ==
  LET s      == IF cite.stock = Null THEN scope ELSE cite.stock
      fields == IF s \in DOMAIN snap.fields THEN snap.fields[s] ELSE << >>
      ends   == {p \in DOMAIN fields : /\ IsSuffix(cite.path, p)
                                       /\ p[1] # "timeline"
                                       /\ fields[p] # Null}
      holds  == /\ cite.path \in DOMAIN fields
                /\ cite.says \in {Null, fields[cite.path]}
  IN  IF holds THEN FieldAt(fields, cite.path)
      ELSE IF Cardinality(ends) = 1
           THEN FieldAt(fields, CHOOSE p \in ends : TRUE) ELSE NoField

(* Any field for a plain decimal, a field of its unit for the others.       *)
Fits(kind, path) == kind = "plain" \/ Last(path) \in UnitFields[kind]

(* One arithmetic step from two values: their difference, sum or ratio, or  *)
(* the change between them in percent or bps.                               *)
Derived(claim, a, b) ==
  \/ claim \in {a - b, a + b}
  \/ b # 0 /\ claim * b \in {a, (a - b) * 100, (a - b) * 10000}

(* The assets a figure line is about: its call's, and those it names.       *)
About(x, stock, snap) ==
  ({stock} \cup x.names \cup {x.cites[k].stock : k \in DOMAIN x.cites})
    \cap DOMAIN snap.fields

(* The citations of a figure line, resolved; those that name a number.      *)
Resolved(x, stock, snap) ==
  [k \in DOMAIN x.cites |-> Cited(x.cites[k], stock, snap)]

Numbers(at) == {k \in DOMAIN at : at[k].found /\ at[k].value # Null}

(* The figure is a field its line cites, or computed from two of them.      *)
Given(claim, at) ==
  \E k \in Numbers(at) :
     /\ Fits(claim.kind, at[k].path)
     /\ \/ at[k].value = claim.value
        \/ claim.kind = "bps" /\ at[k].value = -claim.value

Computed(claim, at) ==
  /\ claim.kind # "millions"
  /\ \E j, k \in Numbers(at) :
        j # k /\ Derived(claim.value, at[j].value, at[k].value)

(* Or one an asset its line is about holds.                                 *)
Shows(claim, assets, snap) ==
  \E s \in assets : \E p \in DOMAIN snap.fields[s] :
     Fits(claim.kind, p) /\ snap.fields[s][p] = claim.value

(* A line whose citations all resolve, to no one number, computed its       *)
(* figures; a line with a citation that names nothing, or with none, has    *)
(* every figure checked by value.                                           *)
FigureHolds(x, stock, snap) ==
  LET at    == Resolved(x, stock, snap)
      loose == DOMAIN at = {} \/ \E k \in DOMAIN at : ~at[k].found
      inBps == \E k \in Numbers(at) : Fits("bps", at[k].path)
  IN  \/ Numbers(at) = {} /\ ~loose
      \/ \A claim \in x.claims :
            \/ claim.kind = "bps" /\ ~loose /\ ~inBps
            \/ Given(claim, at) \/ Computed(claim, at)
            \/ Shows(claim, About(x, stock, snap), snap)

-------------------------------------------------------------------------------
(* The contract *)

HeaderHolds(offer, snap) ==
  offer.report.header =
    [seat |-> offer.seat, agent |-> offer.agent, snapshot |-> snap.id]

(* A sell may name an asset out of the buy universe: what is held can be    *)
(* sold.                                                                    *)
CallHolds(x, seat, snap) ==
  /\ x.word \in Vocabulary[Kind[seat]] /\ x.conf \in Confidences
  /\ x.stock \in DOMAIN snap.fields /\ x.symbol = x.stock
  /\ x.stock \in snap.tradeable \/ x.word = "sell"

ReportHolds(offer, snap) ==
  LET r == offer.report
  IN  /\ ShapeHolds(r) /\ HeaderHolds(offer, snap)
      /\ Cardinality(CallLines(r)) <= MaxCalls
      /\ \A j, k \in CallLines(r) :
            j # k => r.lines[j].stock # r.lines[k].stock
      /\ \A k \in CallLines(r) : CallHolds(r.lines[k], offer.seat, snap)
      /\ \A k \in DOMAIN r.lines :
            IsLine(r, k, "figure") /\ CallOf(r, k) # 0
              => FigureHolds(r.lines[k], r.lines[CallOf(r, k)].stock, snap)

(* decide.check: only an accepted report counts.                            *)
Checked(offered, snap) ==
  {[seat |-> o.seat, calls |-> Calls(o.report)] :
     o \in {x \in offered : ReportHolds(x, snap)}}

=============================================================================
