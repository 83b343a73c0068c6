\* Department lengths on both sides of the bounds; amounts 0, 1 and the
\* maximum of a 2-bit balance; three allocations reach and pass the ceiling.
CONSTANTS
    a1 = a1
    a2 = a2
    Accounts <- MCAccounts
    DeptLens = {0, 100, 101}
    Amounts = {0, 1, 3}
    BalanceBits = 2
    MaxAllocations = 3
    MaxBlock = 2
SYMMETRY MCSymmetry
SPECIFICATION Spec
INVARIANTS
    TypeOK
    BalanceIsCappedTotal
PROPERTIES
    BalanceNeverDecreases
