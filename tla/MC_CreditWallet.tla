--------------------------- MODULE MC_CreditWallet ---------------------------
(* Values for the constants of CreditWallet.                                *)
EXTENDS CreditWallet, TLC

CONSTANTS free, pro, enterprise

(* A daily plan whose last claim of the month is partial, a monthly plan,   *)
(* and the unlimited plan.                                                  *)
MCPlanCredits ==
    [p \in Plans |-> CASE p = free -> 1 [] p = pro -> 2 [] p = enterprise -> -1]
MCDailyClaim == [p \in Plans |-> IF p = free THEN 2 ELSE 0]
MCClaimCap == [p \in Plans |-> IF p = free THEN 3 ELSE 0]

Symmetry == Permutations(Requests) \cup Permutations(Claimers) \cup Permutations(Replicas)
==============================================================================
