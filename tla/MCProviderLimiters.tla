------------------------ MODULE MCProviderLimiters ------------------------
(***************************************************************************)
(* Instances of ProviderLimiters: a remote principal with more calls than  *)
(* permits, beside another one and a local caller.                         *)
(***************************************************************************)
EXTENDS ProviderLimiters, TLC

CONSTANTS c1, c2, c3, c4, ann, bob, stdio, ark, tos

MCCalls == {c1, c2, c3, c4}
MCOwners == {ann, bob, stdio}
MCLocalOwners == {stdio}
MCProviders == {ark, tos}
MCOwnerOf == c1 :> ann @@ c2 :> ann @@ c3 :> bob @@ c4 :> stdio
\* three calls on one provider and one on the other
MCProviderOf == c1 :> ark @@ c2 :> ark @@ c3 :> ark @@ c4 :> tos
=============================================================================
