------------------------- MODULE MC_GovernmentWallet -------------------------
(***************************************************************************)
(* Model-checking instance of GovernmentWallet: two accounts (symmetric),  *)
(* a 2-bit balance so that two allocations reach the ceiling.              *)
(***************************************************************************)
EXTENDS GovernmentWallet, TLC

CONSTANTS a1, a2

MCAccounts == {a1, a2}
MCSymmetry == Permutations(MCAccounts)
=============================================================================
