SPECIFICATION FairSpec
CONSTANTS
    Addr <- MCAddr
    GroupAddr <- MCGroup
    NullAddr <- MCNull
    Threshold <- MCThreshold
    Frames <- MCFrames
    Channels = {6}
    QuietLimit = 2
    Headers <- MCHeaders
CHECK_DEADLOCK FALSE
INVARIANTS
    TypeOK SignalIsFound CandidatesAreStations ReportedOnce SeenIsReported LabelAgrees OneWarning
    StopCostsOneRead HandleIsCurrent CleanExit
PROPERTIES
    IsRecoverable LossNoticed QuitEnds
