CONSTANTS
    QueueSize <- MCQueueSize
    Interval = 2
    MaxFrames <- MCMaxFrames
    SaveCap = 1
SPECIFICATION Spec
INVARIANT SingleRun
