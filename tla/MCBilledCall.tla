---------------------------- MODULE MCBilledCall ----------------------------
(***************************************************************************)
(* Instances of BilledCall: a remote principal with two calls that do not  *)
(* fit its daily limit together, and a local caller, on one provider with  *)
(* fewer permits than calls.                                               *)
(***************************************************************************)
EXTENDS BilledCall, TLC

CONSTANTS c1, c2, c3, ann, stdio, ark

MCProviders == {ark}
MCLocalOwners == {stdio}

TwoCalls == {c1, c2}
TwoOwners == {ann, stdio}
AnnTwice == c1 :> ann @@ c2 :> ann
AnnAndLocal == c1 :> ann @@ c2 :> stdio
TwoCosts == c1 :> 2 @@ c2 :> 1
TwoArk == c1 :> ark @@ c2 :> ark

ThreeCalls == {c1, c2, c3}
ThreeOwnerOf == c1 :> ann @@ c2 :> ann @@ c3 :> stdio
ThreeCosts == c1 :> 2 @@ c2 :> 1 @@ c3 :> 1
ThreeArk == c1 :> ark @@ c2 :> ark @@ c3 :> ark
=============================================================================
