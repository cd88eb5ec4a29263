SPECIFICATION FairSpec
CONSTANTS
    t1 = t1
    t2 = t2
    Thread = {t1, t2}
    First = t1
    SectorsPerTrack = 3
    NumTracks = 2
    RotationTime = 2
    SeekTime = 1
    UserTick = 1
    SystemTick = 1
    TimerTicks = 1
    MaxTime = 10
INVARIANT DiskInv
INVARIANT LatencyExact
INVARIANT ReturnsAfterDone
PROPERTY AccessReturns
