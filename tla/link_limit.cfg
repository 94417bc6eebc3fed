CONSTANTS
    MotorIds <- MCMotorIds
    Requests <- MCRequests
    Faults = {}
    PosBound = 1
    WireCap = 2
SPECIFICATION Spec

INVARIANT SetpointWithinLimit
