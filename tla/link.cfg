CONSTANTS
    MotorIds <- MCMotorIds
    Requests <- MCRequests
    Faults = {"corruptRequest", "loseRequest", "loseResponse"}
    PosBound = 1
    WireCap = 3
SPECIFICATION LiveSpec
INVARIANT RequestResponse
INVARIANT OneCall
PROPERTY AckMeansDone
PROPERTY ServiceSpec
PROPERTY CallReturnsUnlessLost
