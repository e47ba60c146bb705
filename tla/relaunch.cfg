\* Two activities: one is created while the threads of the other still run.
CONSTANTS
    Instance = {a1, a2}
    Recorder = {r1, r2, r3}
    Loader = {l1}
    None = None
    Zero = Zero
    NRECSAMPLES = 1
    MinBytes = 1
    IndexFiles <- MCCutShort
    MaxTrackKeys = 2
    MaxDialogs = 1
    MinIndex = 10
    FoundIndex <- MCOneFound
    Duration <- MCOneDuration
    Elapsed <- MCElapsed
SPECIFICATION Spec
SYMMETRY AllSymmetry
INVARIANTS
    MatchingFlagExact
    OrphansAreInterrupted
    DeadNeverPlays
