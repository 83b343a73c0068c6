\* The end_voting benchmark opens a period of duration 0 and calls end_voting
\* in the same block, expecting it to succeed.
CONSTANTS
    p1 = p1
    p2 = p2
    v1 = v1
    v2 = v2
    v3 = v3
    v4 = v4
    Proposals <- MCProposals
    Voters <- MCVoters
    Durations = {0, 1, 7}
    BlockBits = 3
    CountBits = 2
    MaxBlock = 3
    Wrapping = TRUE
SYMMETRY MCSymmetry
SPECIFICATION Spec
INVARIANT EndVotingBenchmarkSucceeds
