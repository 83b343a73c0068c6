\* Release build, one proposal, four accounts and 2-bit counters: the
\* u32 counters and the u32 sum yes + no wrap once 2^CountBits votes land.
CONSTANTS
    p1 = p1
    p2 = p2
    v1 = v1
    v2 = v2
    v3 = v3
    v4 = v4
    Proposals <- MCProposal1
    Voters <- MCVoters4
    Durations = {3}
    BlockBits = 3
    CountBits = 2
    MaxBlock = 5
    Wrapping = TRUE
SYMMETRY MCSymmetry4
SPECIFICATION Spec
INVARIANT ResultMatchesBallots
