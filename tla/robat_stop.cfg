CONSTANTS
    Motors = {0, 1}
    Interrupt = {1}
    Lines <- MCLines
    RunTime = 3
    Wrap = 5
    QueueCap = 2
    TravelBound = 0
SPECIFICATION Spec
PROPERTY StopIsImmediate
