CONSTANTS
    QueueSize <- MCQueueSize
    Interval = 1
    MaxFrames <- MCMaxFrames
    SaveCap = 1
SPECIFICATION FairSpec
INVARIANT TypeOK
INVARIANT StartedWhileRead
INVARIANT OneReader
INVARIANT NoEmptyPop
INVARIANT InOrder
PROPERTY CloseEnds
PROPERTY SavedGetWritten
