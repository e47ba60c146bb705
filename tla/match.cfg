\* Two threads, up to five positions, perfect, good and bad distances.
CONSTANTS
    KEYS_IN_SEC = 1
    SecNum = 1
    SecDen = 1
    SEC_TO_MATCH = 3
    TAIL_SEC = 1
    SampleSize = 5
    TrackSizes <- MCTrackSizes
    UINT = 64
    Distance <- MCDistance
    Scale = 12
SPECIFICATION FairSpec
INVARIANTS
    TypeOK
    AnswerIsDetermined
    AnswerIsCorroborated
    ReadsInRange
    PerfectCopyIsLost
PROPERTIES
    MatchReturns
CHECK_DEADLOCK FALSE
