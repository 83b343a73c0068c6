\* allocate_funds at the ceiling of a 2-bit balance (u128::MAX in the code).
CONSTANTS
    a1 = a1
    a2 = a2
    Accounts <- MCAccounts
    DeptLens = {0, 100, 101}
    Amounts = {0, 1, 3}
    BalanceBits = 2
    MaxAllocations = 3
    MaxBlock = 2
SYMMETRY MCSymmetry
SPECIFICATION Spec
INVARIANT EventsMatchBalance
