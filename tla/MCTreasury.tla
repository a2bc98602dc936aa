------------------------------ MODULE MCTreasury ------------------------------
(***************************************************************************)
(* Small instances of Treasury: one paper decision of two orders and two    *)
(* live instructions.  The runners share a host unless a run says otherwise.*)
(***************************************************************************)
EXTENDS Treasury, TLC

CONSTANTS p1, p2, l1, l2, d1, i1, i2, h1

MCAuthorityOf == [o \in Orders |-> CASE o \in {p1, p2} -> d1
                                     [] o = l1 -> i1
                                     [] OTHER  -> i2]

OneHost  == [r \in Runners |-> h1]
Symmetry == Permutations(Runners) \cup Permutations(Treasurers)

=============================================================================
