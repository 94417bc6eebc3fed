CONSTANTS
    MotorIds = {0}
    Requests <- MCFewRequests
    Faults = {"corruptRequest", "loseRequest", "loseResponse",
              "corruptResponse", "split"}
    PosBound = 1
    WireCap = 3
SPECIFICATION Spec
INVARIANT TypeOK
INVARIANT UnsetLimitHolds
