\* Release build, one proposal id, three accounts within 2-bit counters:
\* the pallet implements the abstract round of VotingRound.
CONSTANTS
    p1 = p1
    p2 = p2
    v1 = v1
    v2 = v2
    v3 = v3
    v4 = v4
    Proposals <- MCProposal1
    Voters <- MCVoters3
    Durations = {0, 1, 2, 7}
    BlockBits = 3
    CountBits = 2
    MaxBlock = 5
    Wrapping = TRUE
SYMMETRY MCSymmetry3
SPECIFICATION Spec
PROPERTY
    RefinesVotingRound
