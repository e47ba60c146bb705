\* The block that fills the buffer does not end with it.
CONSTANTS
    Instance = {a1}
    Recorder = {r1, r2}
    Loader = {l1, l2}
    None = None
    Zero = Zero
    NRECSAMPLES = 3
    MinBytes = 2
    IndexFiles <- MCWholeFile
    MaxTrackKeys = 4
    MaxDialogs = 1
    MinIndex = 10
    FoundIndex <- MCFoundIndex
    Duration <- MCDuration
    Elapsed <- MCElapsed
SPECIFICATION Spec
INVARIANTS
    IndexInRange
