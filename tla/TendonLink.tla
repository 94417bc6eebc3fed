----------------------------- MODULE TendonLink -----------------------------
(***************************************************************************)
(* The serial link between the host library (TendonController over         *)
(* TendonHardwareInterface) and the tendon controller firmware             *)
(* (uart_controlled, called once per pass of loop()).                      *)
(*                                                                         *)
(* The host writes a request and blocks in ReadRx until a packet header    *)
(* turns up.  The firmware takes whatever bytes have arrived for one       *)
(* packet, runs it, and writes the response with one byte too many.  There *)
(* are no sequence numbers: the host takes the next packet for its answer. *)
(***************************************************************************)
EXTENDS TendonCommands

CONSTANTS Requests,   \* the calls the host makes
          Faults,     \* what the transport may do, see FaultKinds
          PosBound,   \* bound on |position|, for model checking
          WireCap     \* bound on what is on both wires when a call starts

FaultKinds == {"corruptRequest", "loseRequest", "loseResponse",
               "corruptResponse", "split"}

ASSUME RequestsAssumption == Requests \subseteq Request
ASSUME BoundsAssumption == PosBound \in Nat /\ WireCap \in Nat \ {0}
ASSUME FaultsAssumption == Faults \subseteq FaultKinds

VARIABLES motors,     \* firmware: [MotorIds -> Motor]
          toFw,       \* host -> firmware: sequence of pieces
          toHost,     \* firmware -> host: sequence of packets and stray bytes
          pc,         \* host: "idle", "reading" (ReadRx), "clearing"
          call,       \* host: the request of the current or the last call
          skipped,    \* host: stray bytes shifted out by ReadRx, up to 2
          outcome     \* host: how the last call ended

hostVars == <<pc, call, skipped, outcome>>
vars == <<motors, toFw, toHost, pc, call, skipped, outcome>>

(* A request travels whole, or as two pieces that two polls may see apart. *)
Piece == [req : Requests, part : {"whole", "head", "tail"}, intact : BOOLEAN]
PieceOf(r, part) == [req |-> r, part |-> part, intact |-> TRUE]
Pieces(r) ==
    IF "split" \in Faults
    THEN {<<PieceOf(r, "whole")>>, <<PieceOf(r, "head"), PieceOf(r, "tail")>>}
    ELSE {<<PieceOf(r, "whole")>>}

(* What travels back.  bytes is the number of stray bytes, 2 for many.     *)
Stray(n) == [kind |-> "stray", bytes |-> n]
Packet(reply) == [kind |-> "packet", status |-> reply.status,
                  params |-> reply.params, intact |-> TRUE]
IsPacket(item) == item.kind = "packet"
Item == [kind : {"packet"}, status : Statuses, params : Seq(Int),
         intact : BOOLEAN] \cup [kind : {"stray"}, bytes : 1 .. 2]
Min2(n) == IF n > 2 THEN 2 ELSE n

Init ==
    /\ motors = [m \in MotorIds |-> BootMotor]
    /\ toFw = <<>>
    /\ toHost = <<>>
    /\ pc = "idle"
    /\ call \in Requests
    /\ skipped = 0
    /\ outcome = Ended("none")

-----------------------------------------------------------------------------
(* Host                                                                    *)

(* BuildPacket and SendTx: the request goes out, ReadRx starts.            *)
SendTx ==
    /\ pc = "idle"
    /\ Len(toFw) + Len(toHost) < WireCap
    /\ call' \in Requests
    /\ \E ps \in Pieces(call') : toFw' = toFw \o ps
    /\ pc' = "reading"
    /\ skipped' = 0
    /\ outcome' = Ended("none")
    /\ UNCHANGED <<motors, toHost>>

(* One turn of ReadRx's loop on bytes that are not a header.               *)
SkipStray ==
    /\ pc = "reading"
    /\ toHost # <<>>
    /\ ~IsPacket(Head(toHost))
    /\ toHost' = Tail(toHost)
    /\ skipped' = Min2(skipped + Head(toHost).bytes)
    /\ UNCHANGED <<motors, toFw, pc, call, outcome>>

(* The loop has seen no header for 5 s.  The clock is only looked at when a*)
(* byte arrives after the first two, and that byte is gone: if it was the  *)
(* first byte of a packet the rest of the packet is stray.                 *)
ReadTimeout ==
    /\ pc = "reading"
    /\ skipped = 2
    /\ toHost # <<>>
    /\ toHost' = IF IsPacket(Head(toHost)) THEN <<Stray(2)>> \o Tail(toHost)
                                           ELSE Tail(toHost)
    /\ pc' = "idle"
    /\ skipped' = 0
    /\ outcome' = TimeoutOutcome(call)
    /\ UNCHANGED <<motors, toFw, call>>

(* ReadRx has found a header, read the body, and SendTxRx unpacked it.  A  *)
(* CRC mismatch is printed and the bytes are used all the same.            *)
TakePacket ==
    /\ pc = "reading"
    /\ toHost # <<>>
    /\ IsPacket(Head(toHost))
    /\ toHost' = Tail(toHost)
    /\ pc' = "clearing"
    /\ skipped' = 0
    /\ \/ /\ Head(toHost).intact
          /\ outcome' = HostOutcome(call, Head(toHost))
       \/ /\ ~Head(toHost).intact
          /\ outcome' \in {Ended("raised"), Ended("done")}
                          \cup [kind : {"value"}, val : -PosBound .. PosBound]
          /\ (outcome'.kind = "value") => (call.op = READ_ANGLE)
          /\ (outcome'.kind = "done") => (call.op # READ_ANGLE)
    /\ UNCHANGED <<motors, toFw, call>>

(* reset_input_buffer drops what has arrived by now, and the call returns. *)
ResetInput ==
    /\ pc = "clearing"
    /\ pc' = "idle"
    /\ \E n \in 0 .. Len(toHost) : toHost' = SubSeq(toHost, n + 1, Len(toHost))
    /\ UNCHANGED <<motors, toFw, call, skipped, outcome>>

HostRestartKeepsInput ==
    /\ pc # "idle"
    /\ toFw = <<>>
    /\ pc' = "idle"
    /\ skipped' = 0
    /\ outcome' = Ended("aborted")
    /\ UNCHANGED <<motors, toFw, toHost, call>>

(* The user stops a program that hangs in ReadRx and starts it again, which*)
(* takes far longer than the firmware needs to poll; opening the port      *)
(* clears the input.                                                       *)
HostRestart ==
    /\ pc # "idle"
    /\ toFw = <<>>
    /\ toHost' = <<>>
    /\ pc' = "idle"
    /\ skipped' = 0
    /\ outcome' = Ended("aborted")
    /\ UNCHANGED <<motors, toFw, call>>

-----------------------------------------------------------------------------
(* Firmware                                                                *)

(* Does buff hold a packet that validatePacket accepts, when the first n   *)
(* pieces have arrived?  Whatever follows the first packet is ignored.  A  *)
(* lone head is completed by what an earlier call left on the stack, which *)
(* may or may not be the right bytes.                                      *)
Validates(n) ==
    LET first == Head(toFw)
    IN  CASE first.part = "whole" -> {first.intact}
          [] first.part = "head" /\ n = 1 -> {FALSE, first.intact}
          [] first.part = "head" /\ n > 1 -> {first.intact /\ toFw[2].intact}
          [] OTHER -> {FALSE}

(* Variants with a bug, for the mutation check of the properties.          *)
UartControlledObeysBadCRC ==
    /\ toFw # <<>>
    /\ toFw' = <<>>
    /\ motors' = Effect(motors, Head(toFw).req)
    /\ \E valid \in Validates(Len(toFw)) :
          toHost' = toHost \o
              <<Packet(IF valid THEN Reply(motors, Head(toFw).req)
                                ELSE CrcReply), Stray(1)>>
    /\ UNCHANGED hostVars
UartControlledSilentOnBadCRC ==
    /\ toFw # <<>>
    /\ toFw' = <<>>
    /\ \E valid \in Validates(Len(toFw)) :
          LET r == Head(toFw).req
          IN  IF valid
              THEN /\ motors' = Effect(motors, r)
                   /\ toHost' = toHost \o <<Packet(Reply(motors, r)), Stray(1)>>
              ELSE UNCHANGED <<motors, toHost>>
    /\ UNCHANGED hostVars
UartControlledTwoStrays ==
    /\ toFw # <<>>
    /\ toFw' = <<>>
    /\ \E valid \in Validates(Len(toFw)) :
          LET r == Head(toFw).req
          IN  /\ motors' = IF valid THEN Effect(motors, r) ELSE motors
              /\ toHost' = toHost \o
                    <<Packet(IF valid THEN Reply(motors, r) ELSE CrcReply),
                      Stray(2)>>
    /\ UNCHANGED hostVars

(* One pass of uart_controlled that finds bytes: it reads what is there,   *)
(* handles it as one packet and writes one response, plus a stray byte.    *)
UartControlled ==
    /\ toFw # <<>>
    /\ \E n \in 1 .. Len(toFw) :
          /\ toFw' = SubSeq(toFw, n + 1, Len(toFw))
          /\ \E valid \in Validates(n) :
                LET r == Head(toFw).req
                    reply == IF valid THEN Reply(motors, r) ELSE CrcReply
                IN  /\ motors' = IF valid THEN Effect(motors, r) ELSE motors
                    /\ toHost' = toHost \o <<Packet(reply), Stray(1)>>
    /\ UNCHANGED hostVars

(* The encoder interrupt moves the position: the shaft is turned by the    *)
(* control loop or by hand.                                                *)
Turn(m) ==
    /\ \E d \in {-1, 1} :
          /\ motors[m].pos + d \in -PosBound .. PosBound
          /\ motors' = [motors EXCEPT ![m].pos = @ + d]
    /\ UNCHANGED <<toFw, toHost, pc, call, skipped, outcome>>

(* The board restarts: all it knew is gone, the port goes away, and a host *)
(* that was using it gets an exception.                                    *)
Reboot ==
    /\ motors' = [m \in MotorIds |-> BootMotor]
    /\ toFw' = <<>>
    /\ toHost' = <<>>
    /\ pc' = "idle"
    /\ skipped' = 0
    /\ outcome' = IF pc = "idle" THEN outcome ELSE Ended("raised")
    /\ UNCHANGED call

-----------------------------------------------------------------------------
(* Transport faults, at the reader's end of each wire                      *)

CorruptRequest ==
    /\ "corruptRequest" \in Faults
    /\ toFw # <<>>
    /\ toFw' = <<[Head(toFw) EXCEPT !.intact = FALSE]>> \o Tail(toFw)
    /\ UNCHANGED <<motors, toHost, pc, call, skipped, outcome>>

LoseRequest ==
    /\ "loseRequest" \in Faults
    /\ toFw # <<>>
    /\ toFw' = Tail(toFw)
    /\ UNCHANGED <<motors, toHost, pc, call, skipped, outcome>>

LoseResponse ==
    /\ "loseResponse" \in Faults
    /\ toHost # <<>>
    /\ toHost' = Tail(toHost)
    /\ UNCHANGED <<motors, toFw, pc, call, skipped, outcome>>

(* Damage inside the packet, or to its header.                             *)
CorruptResponse ==
    /\ "corruptResponse" \in Faults
    /\ toHost # <<>>
    /\ IsPacket(Head(toHost))
    /\ \E item \in {[Head(toHost) EXCEPT !.intact = FALSE], Stray(2)} :
          toHost' = <<item>> \o Tail(toHost)
    /\ UNCHANGED <<motors, toFw, pc, call, skipped, outcome>>

-----------------------------------------------------------------------------
Host == SendTx \/ SkipStray \/ ReadTimeout \/ TakePacket \/ ResetInput
        \/ HostRestart
Firmware == UartControlled \/ Reboot \/ \E m \in MotorIds : Turn(m)
Transport == CorruptRequest \/ LoseRequest \/ LoseResponse \/ CorruptResponse
Next == Host \/ Firmware \/ Transport

(* loop() never stops, so a request that arrives is polled; a host blocked *)
(* in a read goes on when bytes arrive.  Nothing obliges the user to call, *)
(* to restart, or the transport to misbehave.                              *)
Fairness == /\ WF_vars(UartControlled)
            /\ WF_vars(SkipStray)
            /\ WF_vars(TakePacket)
            /\ WF_vars(ResetInput)

Spec == Init /\ [][Next]_vars
-----------------------------------------------------------------------------
(* Properties                                                              *)

PacketsIn(s) == {i \in DOMAIN s : IsPacket(s[i])}

(* Types of everything both programs and the wires hold.                   *)
TypeOK ==
    /\ motors \in [MotorIds -> Motor]
    /\ toFw \in Seq(Piece)
    /\ toHost \in Seq(Item)
    /\ pc \in {"idle", "reading", "clearing"}
    /\ call \in Requests
    /\ skipped \in 0 .. 2
    /\ outcome \in Outcome

(* "Every command sent by the host will be followed by a response": at any *)
(* time a reading host has at most one thing under way, its request or the *)
(* response to it, and a host that is not reading has nothing under way.   *)
RequestResponse ==
    /\ Len(toFw) <= 1
    /\ \A i, j \in PacketsIn(toHost) : i = j
    /\ toFw # <<>> => PacketsIn(toHost) = {}
    /\ pc # "reading" => toFw = <<>> /\ PacketsIn(toHost) = {}

(* When a method returns without raising, the firmware has done exactly    *)
(* what it was asked, to the motor it was asked about, clamped to the limit*)
(* of that moment; and an angle that is returned for a valid id has not    *)
(* come from a refused request.                                            *)
Landed(r) ==
    /\ r.id \in MotorIds
    /\ r.op = WRITE_ANGLE =>
          motors[r.id].goal = Constrain(r.arg, motors[r.id].limit)
    /\ r.op = SET_ZERO_ANGLE =>
          motors[r.id].goal = Constrain(0, motors[r.id].limit)
    /\ r.op = SET_MAX_ANGLE => motors[r.id].limit = r.arg
    /\ r.op = WRITE_PID => motors[r.id].gains = r.arg
AckMeansDone ==
    [][(pc = "reading" /\ pc' = "clearing" /\ call.op \in Methods
        /\ outcome'.kind \in {"done", "value"}) => Landed(call)]_vars

(* Why RequestResponse and AckMeansDone hold when nothing splits a request *)
(* and nothing damages a response: the state of the one open call, with the*)
(* stray byte each response leaves behind counted in.  Two stray bytes are *)
(* never followed by another, so ReadRx never comes to look at its clock.  *)
Leftover(s) == Len(s) <= 1 /\ \A i \in 1 .. Len(s) : s[i] = Stray(1)
Requested ==
    /\ Len(toFw) = 1
    /\ toFw[1].req = call /\ toFw[1].part = "whole"
    /\ Leftover(toHost)
    /\ skipped + Len(toHost) <= 1
AnswerAt(i) ==
    /\ toFw = <<>>
    /\ Len(toHost) = i + 1
    /\ skipped + i <= 2
    /\ i = 2 => toHost[1] = Stray(1)
    /\ IsPacket(toHost[i]) /\ toHost[i].intact
    /\ toHost[i + 1] = Stray(1)
    /\ (toHost[i].status = COMM_SUCCESS /\ call.op \in Methods) => Landed(call)
Gone == toFw = <<>> /\ Leftover(toHost) /\ skipped + Len(toHost) <= 2
OneCall ==
    \/ pc # "reading" /\ toFw = <<>> /\ Leftover(toHost)
    \/ pc = "reading" /\ (Requested \/ AnswerAt(1) \/ AnswerAt(2) \/ Gone)

(* A motor whose limit has not been set since the board started cannot be  *)
(* sent anywhere: its setpoint is the position it booted at or was zeroed  *)
(* at.  Holds whatever the transport does.                                 *)
UnsetLimitHolds ==
    \A m \in MotorIds : motors[m].limit = 0 => motors[m].goal = 0

(* The documentation's soft limit: "the input limits provide a way to      *)
(* constrain the motor setpoint angle to a specific range".  Lowering the  *)
(* limit below the present setpoint leaves the setpoint where it is.       *)
SetpointWithinLimit ==
    \A m \in MotorIds : motors[m].goal \in -motors[m].limit .. motors[m].limit

-----------------------------------------------------------------------------
(* The link implements TendonService: the answer the host takes is the     *)
(* answer to its own call, served at most once.                            *)
phaseBar ==
    CASE pc # "reading" -> "idle"
      [] pc = "reading" /\ toFw # <<>> -> "pending"
      [] pc = "reading" /\ toFw = <<>> /\ PacketsIn(toHost) # {} -> "answered"
      [] OTHER -> "lost"
replyBar ==
    IF phaseBar = "answered"
    THEN LET i == CHOOSE i \in PacketsIn(toHost) : TRUE
         IN  [status |-> toHost[i].status, params |-> toHost[i].params]
    ELSE [status |-> COMM_SUCCESS, params |-> <<>>]

Service == INSTANCE TendonService WITH phase <- phaseBar, reply <- replyBar
ServiceSpec == Service!Spec
=============================================================================
