\* One file through all stages, written while it may be read.
CONSTANTS
    BLOCKSIZE = 4
    Wavs <- MCWavs
    UINT = 64
    FRAMESIZE = 4
    OVERLAPSAMPLES = 2
    KEYWIDTH = 2
    OFREQ1MULT = 3
    OFREQ2MULT = 2
    OFREQ1LESS = 1
    OFREQ2LESS = 2
    FILTERLEN44 = 6
    FILTERLEN11 = 6
    WORDBYTES = 2
    MaxKeys = 2
SPECIFICATION FairSpec
INVARIANTS
    TypeOK
    SamplesInPlace
    CrashesOnlyOnBadInput
    KeysCoverRecording
    SilentLossIsTotal
    RoundTrip
PROPERTIES
    GenerateEnds
CHECK_DEADLOCK FALSE
