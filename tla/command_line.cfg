\* The three experiments on files of every size, up to a third test.
CONSTANTS
    KEYS_IN_SEC = 2
    SecNum = 1
    SecDen = 2
    UINT = 32
    SIZE = 64
    FIRST = 1
    SAMPLE_SEC = 2
    UNUSED = 1
    TAIL_SEC = 2
    DOUBLE_SEC = 1
    SHIFT_SEC = 2
    SKIPPED = 2
    Sizes <- MCSizes
    Seconds <- MCSeconds
    Tryes <- MCTryes
SPECIFICATION Spec
INVARIANTS
    TypeOK
    UndefinedOnlyOnBadSizes
    TestsCoverSample
CHECK_DEADLOCK FALSE
