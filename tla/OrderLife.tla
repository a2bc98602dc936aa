------------------------------ MODULE OrderLife ------------------------------
(***************************************************************************)
(* What the fund's books promise about one order, whatever crashes and      *)
(* whoever settles it: the order moves as MOVES allows and is never sent a  *)
(* second time, a fill is booked in the very step that confirms the order,  *)
(* gas is booked only in the step that ends a live order, and nothing is    *)
(* booked twice or taken back.  Treasury is shown to implement this.        *)
(***************************************************************************)
EXTENDS Naturals, OrderMoves

CONSTANTS
  Orders,     \* the orders the signed authorities name
  LiveOrders  \* those whose mode is ExecutionMode.LIVE

VARIABLES
  state,  \* the row's state, "none" before it is written
  fills,  \* fill events the journal holds for the order
  fees    \* gas fee events the journal holds for the order

vars == <<state, fills, fees>>

Init ==
  /\ state = [o \in Orders |-> "none"]
  /\ fills = [o \in Orders |-> 0]
  /\ fees  = [o \in Orders |-> 0]

Becomes(o, s) == state' = [state EXCEPT ![o] = s]

Prepare(o) ==
  /\ state[o] = "none"
  /\ Becomes(o, "prepared")
  /\ UNCHANGED <<fills, fees>>

(* A move that books nothing.  MOVES would let an unknown order be sent     *)
(* again; the fund promises less: nothing sends one twice.                  *)
Advance(o) ==
  /\ \E s \in {"refused", "submitted", "unknown"} \cap Moves[state[o]] :
        Becomes(o, s)
  /\ ~(state[o] = "unknown" /\ state'[o] = "submitted")
  /\ UNCHANGED <<fills, fees>>

BookGas(o) ==
  \/ UNCHANGED fees
  \/ o \in LiveOrders /\ fees' = [fees EXCEPT ![o] = 1]

Confirm(o) ==
  /\ "confirmed" \in Moves[state[o]]
  /\ Becomes(o, "confirmed")
  /\ fills' = [fills EXCEPT ![o] = 1]
  /\ BookGas(o)

Fail(o) ==
  /\ "failed" \in Moves[state[o]]
  /\ Becomes(o, "failed")
  /\ BookGas(o)
  /\ UNCHANGED fills

Next == \E o \in Orders : Prepare(o) \/ Advance(o) \/ Confirm(o) \/ Fail(o)

Spec == Init /\ [][Next]_vars

=============================================================================
