\* One activity at a time: re-created only once the threads of the old one ended.
CONSTANTS
    Instance = {a1}
    Recorder = {r1, r2}
    Loader = {l1, l2}
    None = None
    Zero = Zero
    NRECSAMPLES = 3
    MinBytes = 2
    IndexFiles <- MCIndexFiles
    MaxTrackKeys = 4
    MaxDialogs = 1
    MinIndex = 10
    FoundIndex <- MCFoundIndex
    Duration <- MCDuration
    Elapsed <- MCElapsed
SPECIFICATION Spec
SYMMETRY ThreadSymmetry
INVARIANTS
    TypeOK
    MatchSeesLoadedIndex
    SearchKeepsPlayer
    OverrunIsBounded
    FpkeysNeverPlayed
