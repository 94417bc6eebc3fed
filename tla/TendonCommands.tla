--------------------------- MODULE TendonCommands ---------------------------
(***************************************************************************)
(* The command set of the tendon controller firmware: which requests the   *)
(* command factory accepts, what an accepted command does to the motor it  *)
(* names, what the response carries, and what the host library makes of a  *)
(* response.  These are pure operators; TendonLink runs them over a serial *)
(* wire and TendonService runs them atomically.                            *)
(***************************************************************************)
EXTENDS Integers, Sequences

CONSTANT MotorIds   \* ids the firmware accepts (0..7: the tendons[] array)

(* Opcodes, ml_tendon_comm_protocol.hpp.  ECHO is left out: see the README. *)
READ_STATUS    == 1
READ_ANGLE     == 2
WRITE_ANGLE    == 3
WRITE_PID      == 4
SET_ZERO_ANGLE == 5
SET_MAX_ANGLE  == 6
DISABLE_MOTOR  == 7
ENABLE_MOTOR   == 8
Opcodes == READ_STATUS .. ENABLE_MOTOR

(* Status codes of a response. *)
COMM_SUCCESS           == 0
COMM_INSTRUCTION_ERROR == 2
COMM_CRC_ERROR         == 3
COMM_ID_ERROR          == 4
COMM_PARAM_ERROR       == 5
Statuses == 0 .. 5

(* A request as it leaves BuildPacket: arg stands for the parameter bytes  *)
(* (an angle, a limit, or the number of a set of PID gains) and fits says  *)
(* whether there are as many of them as the opcode wants.                  *)
Request == [op : Int, id : Int, arg : Int, fits : BOOLEAN]

(* What the firmware keeps of a motor that a command can reach: the        *)
(* setpoint, the symmetric limit on it, the encoder position and the gains.*)
Motor == [goal : Int, limit : Int, pos : Int, gains : Int]
BootMotor == [goal |-> 0, limit |-> 0, pos |-> 0, gains |-> 0]

(* Arduino's constrain(angle, -limit, limit). *)
Constrain(angle, limit) ==
    IF angle < -limit THEN -limit
    ELSE IF angle > limit THEN limit ELSE angle

NeedsParams == {WRITE_ANGLE, WRITE_PID, SET_MAX_ANGLE}

(* The status CommandFactory_CreateCommand returns: the opcode is looked   *)
(* up first, then the id is checked, then the number of parameters.        *)
CreateCommand(r) ==
    IF r.op \notin Opcodes THEN COMM_INSTRUCTION_ERROR
    ELSE IF r.id \notin MotorIds THEN COMM_ID_ERROR
    ELSE IF r.op \in NeedsParams /\ ~r.fits THEN COMM_PARAM_ERROR
    ELSE COMM_SUCCESS

ExecuteUnclamped(ms, r) ==
    IF r.op = WRITE_ANGLE THEN [ms EXCEPT ![r.id].goal = r.arg] ELSE ms

(* The motors after an accepted command's execute function.  Setting the   *)
(* limit leaves the setpoint alone; DISABLE and ENABLE do nothing at all.  *)
Execute(ms, r) ==
    CASE r.op = WRITE_ANGLE ->
            [ms EXCEPT ![r.id].goal = Constrain(r.arg, ms[r.id].limit)]
      [] r.op = SET_ZERO_ANGLE ->
            [ms EXCEPT ![r.id].pos = 0,
                       ![r.id].goal = Constrain(0, ms[r.id].limit)]
      [] r.op = SET_MAX_ANGLE -> [ms EXCEPT ![r.id].limit = r.arg]
      [] r.op = WRITE_PID -> [ms EXCEPT ![r.id].gains = r.arg]
      [] OTHER -> ms

(* READ_STATUS is created with READ_ANGLE's execute function. *)
Params(ms, r) ==
    IF r.op \in {READ_STATUS, READ_ANGLE} THEN <<ms[r.id].pos>> ELSE <<>>

(* handlePacket on a packet that passed validatePacket. *)
Reply(ms, r) ==
    IF CreateCommand(r) = COMM_SUCCESS
    THEN [status |-> COMM_SUCCESS, params |-> Params(ms, r)]
    ELSE [status |-> CreateCommand(r), params |-> <<>>]

Effect(ms, r) ==
    IF CreateCommand(r) = COMM_SUCCESS THEN Execute(ms, r) ELSE ms

(* handlePacket on a packet whose CRC does not match. *)
CrcReply == [status |-> COMM_CRC_ERROR, params |-> <<>>]

(***************************************************************************)
(* How a call of the host library ends.  "done": the method returned;      *)
(* "value": readMotorAngle returned an angle; "none": readMotorAngle got a *)
(* timeout; "raised": an assert, a TypeError or an IndexError; "aborted":  *)
(* the user stopped the program.                                           *)
(***************************************************************************)
Outcome == [kind : {"none", "done", "value", "raised", "aborted"}, val : Int]
Ended(k) == [kind |-> k, val |-> 0]

(* The opcodes TendonController has a method for; any other request goes   *)
(* through SendTxRx, which hands the status back without looking at it.    *)
Methods == {READ_ANGLE, WRITE_ANGLE, WRITE_PID, SET_ZERO_ANGLE, SET_MAX_ANGLE}

HostOutcomeUnchecked(r, reply) ==
    IF r.op # READ_ANGLE THEN Ended("done")
    ELSE IF reply.params = <<>> THEN Ended("raised")
    ELSE [kind |-> "value", val |-> reply.params[1]]
HostOutcomeStatus(r, reply) ==
    IF r.op \in Methods /\ reply.status # COMM_SUCCESS THEN Ended("status")
    ELSE Ended("done")

(* Every method asserts that the status is COMM_SUCCESS, and readMotorAngle*)
(* then indexes the parameters.                                            *)
HostOutcome(r, reply) ==
    IF r.op \notin Methods THEN Ended("done")
    ELSE IF reply.status # COMM_SUCCESS THEN Ended("raised")
    ELSE IF r.op # READ_ANGLE THEN Ended("done")
    ELSE IF reply.params = <<>> THEN Ended("raised")
    ELSE [kind |-> "value", val |-> reply.params[1]]

(* SendTxRx returned -1: readMotorAngle checks for it, the other methods   *)
(* index it.                                                               *)
TimeoutOutcome(r) ==
    IF r.op \in Methods \ {READ_ANGLE} THEN Ended("raised") ELSE Ended("none")
=============================================================================
