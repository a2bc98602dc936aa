----------------------------- MODULE MCAnalystPool -----------------------------
(***************************************************************************)
(* Small instances of AnalystPool: every order of the queue, through a pool *)
(* of every width that matters.                                             *)
(***************************************************************************)
EXTENDS AnalystPool, FiniteSets

EachWidth == 1..Cardinality(Seats)

=============================================================================
