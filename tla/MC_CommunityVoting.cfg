\* Release build (wrapping arithmetic), two voters: counters cannot
\* overflow, but a duration of 7 wraps the end block.
CONSTANTS
    p1 = p1
    p2 = p2
    v1 = v1
    v2 = v2
    v3 = v3
    v4 = v4
    Proposals <- MCProposals
    Voters <- MCVoters
    Durations = {0, 1, 7}
    BlockBits = 3
    CountBits = 2
    MaxBlock = 3
    Wrapping = TRUE
SYMMETRY MCSymmetry
SPECIFICATION Spec
INVARIANTS
    TypeOK
    TallyMatchesLedger
    
