--------------------------- MODULE TendonService ---------------------------
(***************************************************************************)
(* What the tendon link promises its caller.  One call is open at a time.  *)
(* The motor controller serves it at most once, in one step, against the   *)
(* motors as they are at that moment; the caller gets the answer to its    *)
(* own call or nothing.  An answer or a request can be lost, and the caller*)
(* can give up on a call, but not on one that may still be served.         *)
(***************************************************************************)
EXTENDS TendonCommands

CONSTANTS Requests,   \* the calls the host makes
          PosBound    \* bound on |position|, for model checking

VARIABLES motors,     \* [MotorIds -> Motor]
          call,       \* the request of the current or the last call
          phase,      \* of the current call
          reply,      \* the answer on its way, if any
          outcome     \* how the last call ended

vars == <<motors, call, phase, reply, outcome>>

NoReply == [status |-> COMM_SUCCESS, params |-> <<>>]

Init ==
    /\ motors = [m \in MotorIds |-> BootMotor]
    /\ call \in Requests
    /\ phase = "idle"
    /\ reply = NoReply
    /\ outcome = Ended("none")

Invoke ==
    /\ phase = "idle"
    /\ call' \in Requests
    /\ phase' = "pending"
    /\ outcome' = Ended("none")
    /\ UNCHANGED <<motors, reply>>

(* The request reaches the controller: served, or refused as damaged. *)
Serve ==
    /\ phase = "pending"
    /\ phase' = "answered"
    /\ \/ motors' = Effect(motors, call) /\ reply' = Reply(motors, call)
       \/ motors' = motors /\ reply' = CrcReply
    /\ UNCHANGED <<call, outcome>>

Return ==
    /\ phase = "answered"
    /\ phase' = "idle"
    /\ reply' = NoReply
    /\ outcome' = HostOutcome(call, reply)
    /\ UNCHANGED <<motors, call>>

Lose ==
    /\ phase \in {"pending", "answered"}
    /\ phase' = "lost"
    /\ reply' = NoReply
    /\ UNCHANGED <<motors, call, outcome>>

GiveUp ==
    /\ phase # "pending"
    /\ phase' = "idle"
    /\ reply' = NoReply
    /\ outcome' = Ended("aborted")
    /\ UNCHANGED <<motors, call>>

(* The controller restarts and forgets setpoints, limits and positions. *)
Reboot ==
    /\ motors' = [m \in MotorIds |-> BootMotor]
    /\ phase' = "idle"
    /\ reply' = NoReply
    /\ outcome' \in {outcome, Ended("raised")}
    /\ UNCHANGED call

Turn(m) ==
    /\ \E d \in {-1, 1} :
          /\ motors[m].pos + d \in -PosBound .. PosBound
          /\ motors' = [motors EXCEPT ![m].pos = @ + d]
    /\ UNCHANGED <<call, phase, reply, outcome>>

Next == Invoke \/ Serve \/ Return \/ Lose \/ GiveUp \/ Reboot
        \/ \E m \in MotorIds : Turn(m)

Spec == Init /\ [][Next]_vars
=============================================================================
