\* Taps may stack a second dialog on the first, and press any button under it; what the user sees.
CONSTANTS
    Instance = {a1}
    Recorder = {r1, r2}
    Loader = {l1, l2}
    None = None
    Zero = Zero
    NRECSAMPLES = 3
    MinBytes = 2
    IndexFiles <- MCIndexFiles
    MaxTrackKeys = 4
    MaxDialogs = 2
    MinIndex = 10
    FoundIndex <- MCFoundIndex
    Duration <- MCDuration
    Elapsed <- MCElapsed
SPECIFICATION Spec
SYMMETRY ThreadSymmetry
INVARIANTS
    OneWorkerPerInstance
    FreshMatch
    AudibleIsStoppable
    SeekInBounds
PROPERTIES
    ImplementsSession
