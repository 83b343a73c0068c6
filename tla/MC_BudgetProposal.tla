-------------------------- MODULE MC_BudgetProposal --------------------------
(***************************************************************************)
(* Model-checking instance of BudgetProposal: two accounts (symmetric),    *)
(* argument lengths on both sides of each bound, three proposals.         *)
(***************************************************************************)
EXTENDS BudgetProposal, TLC

CONSTANTS a1, a2

MCAccounts == {a1, a2}
MCSymmetry == Permutations(MCAccounts)
=============================================================================
