\* The 32 filters of asearch.cpp, at the size of the code.
CONSTANTS
    KEYWIDTH = 100
    NBANDS = 33
    Ids <- filters1
SPECIFICATION Spec
INVARIANTS
    ListedFiltersExist
CHECK_DEADLOCK FALSE
