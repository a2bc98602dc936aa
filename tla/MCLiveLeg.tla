------------------------------ MODULE MCLiveLeg ------------------------------
(***************************************************************************)
(* Instances of LiveLeg: a wallet of a few units, and snapshots with a mark *)
(* of USDG or none.                                                         *)
(***************************************************************************)
EXTENDS LiveLeg

WalletSmall == "usdg" :> 3 @@ "eth" :> 2

MarksTwo ==
  {"usdg" :> 1 @@ "eth" :> 2, "usdg" :> 0 @@ "eth" :> 2}

SlipsBoth == {-1, 1}

=============================================================================
