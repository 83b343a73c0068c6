\* Activity-type lengths 0, 50, 51 and detail lengths 0, 500, 501 sit on both
\* sides of the bounds; a related proposal id or none; three entries.
CONSTANTS
    a1 = a1
    a2 = a2
    Accounts <- MCAccounts
    TypeLens = {0, 50, 51}
    DetailLens = {0, 500, 501}
    r1 = r1
    RelatedIds <- MCRelated
    MaxEntries = 3
    MaxBlock = 3
SYMMETRY MCSymmetry
SPECIFICATION Spec
INVARIANTS
    TypeOK
PROPERTIES
    AppendOnly
    RefinesActivityJournal
