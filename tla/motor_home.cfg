CONSTANTS
    Motors <- MCMotors
    End <- MCEnd
SPECIFICATION Spec
PROPERTY HomedAtEnd
