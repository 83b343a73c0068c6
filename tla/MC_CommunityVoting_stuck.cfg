\* Build with overflow checks, one proposal id, four accounts and 2-bit
\* counters: two Yes and two No votes make yes + no overflow at end_voting.
CONSTANTS
    p1 = p1
    p2 = p2
    v1 = v1
    v2 = v2
    v3 = v3
    v4 = v4
    Proposals <- MCProposal1
    Voters <- MCVoters4
    Durations = {3}
    BlockBits = 4
    CountBits = 2
    MaxBlock = 5
    Wrapping = FALSE
SPECIFICATION LiveSpec
PROPERTY
    ResolutionReachable
