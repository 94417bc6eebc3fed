CONSTANTS
    Motors = {0, 1}
    Interrupt = {1}
    Lines <- MCRunLines
    RunTime = 1
    Wrap = 2
    QueueCap = 1
    TravelBound = 2
SPECIFICATION Spec
CONSTRAINT OneShaftTurns
INVARIANT SampledPins
INVARIANT CountIsSampledTravel
INVARIANT CountParity
INVARIANT CountNearTruth
