\* Every filter of a small key, and numbers beyond the last.
CONSTANTS
    KEYWIDTH = 10
    NBANDS = 5
    Ids <- MCAllIds
SPECIFICATION Spec
INVARIANTS
    TypeOK
    FilterFits
    NumberIsRank
CHECK_DEADLOCK FALSE
