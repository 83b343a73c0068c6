\* Build with overflow checks, one proposal id, two accounts: counters and
\* yes + no fit, and blocks keep being produced (WF on Tick).
CONSTANTS
    p1 = p1
    p2 = p2
    v1 = v1
    v2 = v2
    v3 = v3
    v4 = v4
    Proposals <- MCProposal1
    Voters <- MCVoters
    Durations = {0, 1, 2, 7}
    BlockBits = 3
    CountBits = 2
    MaxBlock = 4
    Wrapping = FALSE
SPECIFICATION LiveSpec
PROPERTY
    ResolutionReachable
