\* Searches, loads and orphans come to their end.
CONSTANTS
    Instance = {a1}
    Recorder = {r1, r2}
    Loader = {l1, l2}
    None = None
    Zero = Zero
    NRECSAMPLES = 2
    MinBytes = 2
    IndexFiles <- MCShortFiles
    MaxTrackKeys = 2
    MaxDialogs = 1
    MinIndex = 10
    FoundIndex <- MCOneFound
    Duration <- MCOneDuration
    Elapsed <- MCElapsed
SPECIFICATION FairSpec
PROPERTIES
    SearchTerminates
    
    OrphansDrain
