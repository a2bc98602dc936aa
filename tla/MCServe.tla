-------------------------------- MODULE MCServe --------------------------------
(***************************************************************************)
(* Small instances of Serve.                                                *)
(***************************************************************************)
EXTENDS Serve, TLC

Symmetry == Permutations(Requests)

=============================================================================
