\* Every filter of a small key, energy in every frame and band.
CONSTANTS
    KEYWIDTH = 8
    NBANDS = 5
    nframes = 10
    Images <- MCImages
    Filters <- AllFilters
SPECIFICATION Spec
INVARIANTS
    TypeOK
    IntegralIsSum
    ResponseIsMeasure
    CornersInFrames
CHECK_DEADLOCK FALSE
