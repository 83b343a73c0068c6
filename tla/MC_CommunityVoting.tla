------------------------- MODULE MC_CommunityVoting -------------------------
(***************************************************************************)
(* Model-checking instance of CommunityVoting: proposal ids and accounts   *)
(* are model values (symmetric: the pallet never orders or compares them   *)
(* beyond equality), block numbers are 3-bit so that a duration of 7 wraps *)
(* end_block below start_block, and counters are CountBits wide.           *)
(***************************************************************************)
EXTENDS CommunityVoting, TLC

CONSTANTS p1, p2, v1, v2, v3, v4

MCProposals == {p1, p2}
MCVoters == {v1, v2}
MCSymmetry == Permutations(MCProposals) \cup Permutations(MCVoters)

\* One proposal id and four accounts: enough votes to fill a 2-bit counter.
MCProposal1 == {p1}
MCVoters4 == {v1, v2, v3, v4}
MCSymmetry4 == Permutations(MCVoters4)

\* One proposal id and three accounts: 2-1 majorities, still within 2-bit
\* counters (VotersFit).
MCVoters3 == {v1, v2, v3}
MCSymmetry3 == Permutations(MCVoters3)
=============================================================================
