----------------------------- MODULE OrderMoves -----------------------------
(***************************************************************************)
(* The states of an order and the moves between them: core/types.OrderState *)
(* and core/orders.MOVES.  "none" is an order no row of the store holds.    *)
(***************************************************************************)

States == {"none", "prepared", "submitted", "unknown",
           "confirmed", "failed", "refused"}

Final == {"confirmed", "failed", "refused"}

(* Written and not final: what startup must settle before a new cycle.     *)
Open == {"prepared", "submitted", "unknown"}

InFlight == {"submitted", "unknown"}

(* MOVES, state by state.  Anything else raises IllegalMove.               *)
Moves == [s \in States |->
            CASE s = "prepared"  -> {"submitted", "refused"}
              [] s = "submitted" -> {"confirmed", "failed", "unknown"}
              [] s = "unknown"   -> {"confirmed", "failed", "submitted"}
              [] OTHER           -> {}]

=============================================================================
