--------------------------- MODULE MCBudgetLedger ---------------------------
(***************************************************************************)
(* Instances of BudgetLedger: two owners, one with two calls that do not   *)
(* fit its daily limit together, so that every interleaving of a SELECT    *)
(* and an INSERT is decisive.                                              *)
(***************************************************************************)
EXTENDS BudgetLedger, TLC

CONSTANTS c1, c2, c3, ann, bob

MCCalls == {c1, c2, c3}
MCOwners == {ann, bob}
MCOwnerOf == c1 :> ann @@ c2 :> ann @@ c3 :> bob
MCCostOf == c1 :> 2 @@ c2 :> 1 @@ c3 :> 2
OneOwnerOf == c1 :> ann @@ c2 :> ann @@ c3 :> ann
MCDailyLimit == 2
MCMaxDay == 2    \* with PruneAge 1 a row of day 0 is pruned on day 2
MCPruneAge == 1
=============================================================================
