CONSTANTS
    Motors <- MCMotors
    End <- MCEnd
CONSTRAINT DriftBounded
SPECIFICATION Spec
INVARIANT TypeOK
INVARIANT CountNearTruth
