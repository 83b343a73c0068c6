----------------------------- MODULE MC_AuditLog -----------------------------
(***************************************************************************)
(* Model-checking instance of AuditLog: two accounts (symmetric), lengths  *)
(* on both sides of each bound, three entries over three blocks.           *)
(***************************************************************************)
EXTENDS AuditLog, TLC

CONSTANTS a1, a2, r1

MCAccounts == {a1, a2}
MCSymmetry == Permutations(MCAccounts)
MCRelated == {r1}
=============================================================================
