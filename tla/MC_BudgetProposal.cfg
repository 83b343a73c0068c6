\* Lengths 0, 1, 200, 201 and 0, 100, 101 sit on both sides of the
\* purpose and reason bounds; three proposals give approve/reject races
\* on several ids.
CONSTANTS
    a1 = a1
    a2 = a2
    Accounts <- MCAccounts
    PurposeLens = {0, 1, 200, 201}
    ReasonLens = {0, 100, 101}
    MaxProposals = 3
    MaxBlock = 3
SYMMETRY MCSymmetry
SPECIFICATION Spec
INVARIANTS
    TypeOK
    IdsSequential
PROPERTIES
    DecidedIsFinal
