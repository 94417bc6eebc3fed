---------------------------- MODULE MCTendonLink ----------------------------
(* TendonLink with two motors, an id no motor has, and a handful of calls: *)
(* angles inside, at and beyond the limits, limits that grow and shrink,   *)
(* a request with too few parameters and an opcode nobody defines.         *)
EXTENDS TendonLink

Req(op, id, arg) == [op |-> op, id |-> id, arg |-> arg, fits |-> TRUE]

MCMotorIds == {0, 1}
MCRequests ==
    { Req(WRITE_ANGLE, 0, -3), Req(WRITE_ANGLE, 0, 1), Req(WRITE_ANGLE, 1, 2),
      Req(SET_MAX_ANGLE, 0, 1), Req(SET_MAX_ANGLE, 0, 2),
      Req(SET_MAX_ANGLE, 1, 2), Req(SET_ZERO_ANGLE, 0, 0),
      Req(READ_ANGLE, 0, 0), Req(READ_ANGLE, 8, 0),
      Req(WRITE_PID, 1, 1), Req(DISABLE_MOTOR, 0, 0), Req(9, 0, 0),
      [Req(WRITE_ANGLE, 1, 1) EXCEPT !.fits = FALSE] }

(* For the split wire: one motor and repeated calls are enough.            *)
MCFewRequests ==
    { Req(WRITE_ANGLE, 0, 1), Req(SET_MAX_ANGLE, 0, 1), Req(READ_ANGLE, 0, 0) }
=============================================================================
