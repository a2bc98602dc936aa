-------------------------------- MODULE Totals --------------------------------
(***************************************************************************)
(* The sum of a list of numbers, as the ledger, the gates, the planner and  *)
(* the aggregator take it.                                                  *)
(***************************************************************************)
EXTENDS Integers, SequencesExt

Plus(x, y) == x + y

Total(amounts) == FoldLeft(Plus, 0, amounts)

=============================================================================
