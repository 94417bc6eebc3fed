---------------------------- MODULE RobatMotors ----------------------------
(***************************************************************************)
(* Robat_MultiMotorControl_v2.ino: one loop that polls quadrature encoders *)
(* and serves serial commands, two motors whose encoders are sampled by    *)
(* interrupts, and a timed run during which the loop does nothing but poll.*)
(* The shafts turn when they like: driven, coasting or pushed by hand.     *)
(***************************************************************************)
EXTENDS Integers, Sequences, FiniteSets

CONSTANTS Motors,      \* motor indices
          Interrupt,   \* those whose encoder is sampled by an interrupt
          Lines,       \* lines the host types
          RunTime,     \* RUN_TIME_MS, in ticks of millis()
          Wrap,        \* millis() counts modulo Wrap
          QueueCap,    \* bound on lines waiting in the serial input
          TravelBound  \* bound on travel, lag and counts, for model checking

(* A line as the parser sees it: its verb, and its motor if it names one.  *)
Line == [verb : {"f", "b", "s", "stop", "reset", "other"}, m : Int]

ASSUME MotorsAssumption == Interrupt \subseteq Motors
ASSUME LinesAssumption == Lines \subseteq Line
ASSUME TimeAssumption ==
    RunTime \in Nat \ {0} /\ Wrap \in Nat /\ Wrap > RunTime
ASSUME BoundsAssumption == QueueCap \in Nat /\ TravelBound \in Nat

VARIABLES phase,         \* where the shaft is in the four-step pin cycle
          pending,       \* interrupt motors with an edge not yet served
          lastEncState,
          encoderCount,
          drive,         \* EN and PH pins: "off", "fwd" or "rev"
          pc,            \* "loop", "reading", "starting" or "running"
          target,        \* motor of the command being executed
          start, clock,  \* millis()
          input          \* lines waiting in the serial input
(* Observers: nothing in the program reads them. *)
VARIABLES travel,        \* how far the shaft has turned since its last reset
          lag,           \* how far it has turned since its last sample
          lagAtReset,    \* what lag was at the last reset
          missed,        \* has it turned two steps without a sample?
          elapsed,       \* ticks since start, saturating
          polled         \* has the run loop come round in this tick?

shaftVars == <<phase, pending, travel, lag, missed>>
encoderVars == <<lastEncState, encoderCount, lagAtReset>>
timeVars == <<start, clock, elapsed, polled>>
vars == <<phase, pending, lastEncState, encoderCount, drive, pc, target, start,
          clock, input, travel, lag, lagAtReset, missed, elapsed, polled>>

-----------------------------------------------------------------------------
(* Encoders                                                                *)

(* The pin pair over one cycle of the shaft, in counting order. *)
PinsAt == [p \in 0 .. 3 |-> <<0, 1, 3, 2>>[p + 1]]
readEncStateSwapped(m) == <<0, 2, 3, 1>>[phase[m] + 1]  \* a mutant
readEncState(m) == PinsAt[phase[m]]

(* A jump of two counts for nothing; the rows are the previous state.      *)
QUAD_TABLE == << 0,  1, -1,  0,
                -1,  0,  0,  1,
                 1,  0,  0, -1,
                 0, -1,  1,  0>>
QuadTransposed(old, new) == QUAD_TABLE[4 * new + old + 1]      \* a mutant
QuadCountsJumps(old, new) ==                                   \* a mutant
    IF old # new /\ QUAD_TABLE[4 * old + new + 1] = 0 THEN 1
    ELSE QUAD_TABLE[4 * old + new + 1]
Quad(old, new) == QUAD_TABLE[4 * old + new + 1]

(* updateEncoder for every motor of S. *)
Sample(S) ==
    /\ encoderCount' = [m \in Motors |->
           IF m \in S
           THEN encoderCount[m] + Quad(lastEncState[m], readEncState(m))
           ELSE encoderCount[m]]
    /\ lastEncState' = [m \in Motors |->
           IF m \in S THEN readEncState(m) ELSE lastEncState[m]]
    /\ lag' = [m \in Motors |-> IF m \in S THEN 0 ELSE lag[m]]

pollEncoders == Sample(Motors \ Interrupt)

ResetForgetsPins(S) ==                                         \* a mutant
    /\ encoderCount' = [m \in Motors |->
           IF m \in S THEN 0 ELSE encoderCount[m]]
    /\ lastEncState' = [m \in Motors |->
           IF m \in S THEN 0 ELSE lastEncState[m]]
    /\ travel' = [m \in Motors |-> IF m \in S THEN 0 ELSE travel[m]]
    /\ lagAtReset' = [m \in Motors |->
           IF m \in S THEN lag[m] ELSE lagAtReset[m]]
    /\ missed' = [m \in Motors |->
           IF m \in S THEN lag[m] \notin -1 .. 1 ELSE missed[m]]
    /\ UNCHANGED <<phase, pending, lag>>

(* resetEncoderCount for every motor of S: the count, and nothing else.    *)
Reset(S) ==
    /\ encoderCount' = [m \in Motors |->
           IF m \in S THEN 0 ELSE encoderCount[m]]
    /\ travel' = [m \in Motors |-> IF m \in S THEN 0 ELSE travel[m]]
    /\ lagAtReset' = [m \in Motors |->
           IF m \in S THEN lag[m] ELSE lagAtReset[m]]
    /\ missed' = [m \in Motors |->
           IF m \in S THEN lag[m] \notin -1 .. 1 ELSE missed[m]]
    /\ UNCHANGED <<phase, pending, lag, lastEncState>>

-----------------------------------------------------------------------------
(* After setup(): the pins have been read and the motors are off.          *)
Init ==
    /\ phase \in [Motors -> 0 .. 3]
    /\ pending = {}
    /\ lastEncState = [m \in Motors |-> readEncState(m)]
    /\ encoderCount = [m \in Motors |-> 0]
    /\ drive = [m \in Motors |-> "off"]
    /\ pc = "loop"
    /\ target \in Motors
    /\ start = 0
    /\ clock \in 0 .. Wrap - 1
    /\ input = <<>>
    /\ travel = [m \in Motors |-> 0]
    /\ lag = [m \in Motors |-> 0]
    /\ lagAtReset = [m \in Motors |-> 0]
    /\ missed = [m \in Motors |-> FALSE]
    /\ elapsed = 0
    /\ polled = FALSE

-----------------------------------------------------------------------------
(* The loop                                                                *)

(* The top of loop(): poll, then look for input. *)
LoopPass ==
    /\ pc = "loop"
    /\ pollEncoders
    /\ pc' = IF input = <<>> THEN "loop" ELSE "reading"
    /\ UNCHANGED <<phase, pending, travel, missed, lagAtReset, drive, target,
                   input>>
    /\ UNCHANGED timeVars

NamesAnyMotor(line) == line.verb \in {"f", "b", "s"}           \* a mutant
NamesMotor(line) == line.verb \in {"f", "b", "s"} /\ line.m \in Motors

(* What a line does once it is read; "loop" is where loop() returns to.    *)
GlobalStop(line) ==
    /\ line.verb = "stop"
    /\ drive' = [m \in Motors |-> "off"]
    /\ pc' = "loop"
    /\ UNCHANGED <<shaftVars, encoderVars, target>>

ResetAll(line) ==
    /\ line.verb = "reset"
    /\ Reset(Motors)
    /\ pc' = "loop"
    /\ UNCHANGED <<drive, target>>

StartRun(line) ==
    /\ NamesMotor(line) /\ line.verb \in {"f", "b"}
    /\ Reset({line.m})
    /\ drive' = [drive EXCEPT ![line.m] = IF line.verb = "f" THEN "fwd"
                                                            ELSE "rev"]
    /\ target' = line.m
    /\ pc' = "starting"

StopMotor(line) ==
    /\ NamesMotor(line) /\ line.verb = "s"
    /\ drive' = [drive EXCEPT ![line.m] = "off"]
    /\ pc' = "loop"
    /\ UNCHANGED <<shaftVars, encoderVars, target>>

(* enc, help, an empty line, or one the parser does not know. *)
PrintOnly(line) ==
    /\ line.verb \notin {"stop", "reset"}
    /\ ~NamesMotor(line)
    /\ pc' = "loop"
    /\ UNCHANGED <<shaftVars, encoderVars, drive, target>>

(* readLine(), which may take up to its timeout, and the dispatch on it.   *)
ReadLine ==
    /\ pc = "reading"
    /\ input # <<>>
    /\ input' = Tail(input)
    /\ \/ GlobalStop(Head(input))
       \/ ResetAll(Head(input))
       \/ StartRun(Head(input))
       \/ StopMotor(Head(input))
       \/ PrintOnly(Head(input))
    /\ UNCHANGED timeVars

(* The messages have been printed, with the motor already driven.          *)
StartTimer ==
    /\ pc = "starting"
    /\ start' = clock
    /\ pc' = "running"
    /\ elapsed' = 0
    /\ polled' = FALSE
    /\ UNCHANGED <<shaftVars, encoderVars, drive, target, clock, input>>

StillBeforeDeadline == clock < (start + RunTime) % Wrap        \* a mutant
StillRunningSigned == clock - start < RunTime                  \* a mutant
(* millis() - start < RUN_TIME_MS, in unsigned arithmetic. *)
StillRunning == (clock - start) % Wrap < RunTime

RunPassLeavesDriven ==                                         \* a mutant
    /\ pc = "running"
    /\ \/ /\ StillRunning
          /\ pollEncoders
          /\ polled' = TRUE
          /\ UNCHANGED <<pc, lagAtReset>>
       \/ /\ ~StillRunning
          /\ pc' = "loop"
          /\ UNCHANGED <<polled, lag, encoderVars>>
    /\ UNCHANGED <<phase, pending, travel, missed, target, start, clock, input,
                   elapsed, drive>>

(* One turn of the run loop, or the way out of it. *)
RunPass ==
    /\ pc = "running"
    /\ \/ /\ StillRunning
          /\ pollEncoders
          /\ polled' = TRUE
          /\ UNCHANGED <<drive, pc, lagAtReset>>
       \/ /\ ~StillRunning
          /\ drive' = [drive EXCEPT ![target] = "off"]
          /\ pc' = "loop"
          /\ UNCHANGED <<polled, lag, encoderVars>>
    /\ UNCHANGED <<phase, pending, travel, missed, target, start, clock, input,
                   elapsed>>

-----------------------------------------------------------------------------
(* Around the loop                                                         *)

(* encISR_M2, encISR_M3 *)
EncISR(m) ==
    /\ m \in pending
    /\ pending' = pending \ {m}
    /\ Sample({m})
    /\ UNCHANGED <<phase, travel, missed, lagAtReset, drive, pc, target, input>>
    /\ UNCHANGED timeVars

(* A shaft turns by one step of the cycle. *)
Turn(m) ==
    /\ \E d \in {-1, 1} :
          /\ travel[m] + d \in -TravelBound .. TravelBound
          /\ lag[m] + d \in -TravelBound .. TravelBound
          /\ encoderCount[m] \in -TravelBound .. TravelBound
          /\ phase' = [phase EXCEPT ![m] = (@ + d) % 4]
          /\ travel' = [travel EXCEPT ![m] = @ + d]
          /\ lag' = [lag EXCEPT ![m] = @ + d]
          /\ missed' = [missed EXCEPT ![m] = @ \/ lag[m] + d \notin -1 .. 1]
    /\ pending' = IF m \in Interrupt THEN pending \cup {m} ELSE pending
    /\ UNCHANGED <<encoderVars, drive, pc, target, input>>
    /\ UNCHANGED timeVars

(* millis() advances.  A turn of the run loop takes a small part of a tick,*)
(* so the loop comes round at least once in each.                          *)
Tick ==
    /\ pc = "running" => polled
    /\ clock' = (clock + 1) % Wrap
    /\ elapsed' = IF pc = "running" /\ elapsed <= RunTime THEN elapsed + 1
                                                          ELSE elapsed
    /\ polled' = FALSE
    /\ UNCHANGED <<shaftVars, encoderVars, drive, pc, target, start, input>>

HostSends ==
    /\ Len(input) < QueueCap
    /\ \E line \in Lines : input' = Append(input, line)
    /\ UNCHANGED <<shaftVars, encoderVars, drive, pc, target>>
    /\ UNCHANGED timeVars

Loop == LoopPass \/ ReadLine \/ StartTimer \/ RunPass
Next == Loop \/ Tick \/ HostSends
        \/ \E m \in Motors : EncISR(m) \/ Turn(m)

(* The processor runs loop() for ever and time passes. *)
Fairness == WF_vars(Loop) /\ WF_vars(Tick)
Spec == Init /\ [][Next]_vars
FairSpec == Spec /\ Fairness
-----------------------------------------------------------------------------
(* Properties                                                              *)

TypeOK ==
    /\ phase \in [Motors -> 0 .. 3]
    /\ pending \subseteq Interrupt
    /\ lastEncState \in [Motors -> 0 .. 3]
    /\ encoderCount \in [Motors -> Int]
    /\ drive \in [Motors -> {"off", "fwd", "rev"}]
    /\ pc \in {"loop", "reading", "starting", "running"}
    /\ target \in Motors
    /\ start \in 0 .. Wrap - 1 /\ clock \in 0 .. Wrap - 1
    /\ input \in Seq(Lines)
    /\ travel \in [Motors -> Int] /\ lag \in [Motors -> Int]
    /\ lagAtReset \in [Motors -> Int] /\ missed \in [Motors -> BOOLEAN]
    /\ elapsed \in 0 .. RunTime + 1 /\ polled \in BOOLEAN

(* No two motors are ever driven together, and none is driven unless its   *)
(* own timed run is under way: nothing is left on when loop() goes back to *)
(* reading commands.                                                       *)
OnlyTargetDriven ==
    \A m \in Motors :
        drive[m] # "off" <=> pc \in {"starting", "running"} /\ m = target

(* A count that has seen every step is off by at most two: one step that   *)
(* had not been sampled when it was reset, and one not sampled yet.        *)
CountNearTruth ==
    \A m \in Motors : ~missed[m] => encoderCount[m] - travel[m] \in -2 .. 2

(* Between them: the count is what was sampled since the reset, plus the   *)
(* step that was waiting at the reset.                                     *)
CountIsSampledTravel ==
    \A m \in Motors :
        ~missed[m] => /\ encoderCount[m] = travel[m] - lag[m] + lagAtReset[m]
                      /\ lag[m] \in -1 .. 1 /\ lagAtReset[m] \in -1 .. 1

(* lastEncState is what the pins were when the motor was last sampled: a   *)
(* reset must leave it alone, or the next sample counts a step that was    *)
(* never made.                                                             *)
SampledPins ==
    \A m \in Motors : lastEncState[m] = PinsAt[(phase[m] - lag[m]) % 4]

(* However many steps are missed, the count stays even or odd with the     *)
(* sampled travel: the table never counts half a cycle as a step.          *)
CountParity ==
    \A m \in Motors :
        (encoderCount[m] - (travel[m] - lag[m] + lagAtReset[m])) % 2 = 0

(* While a run lasts, the unsigned difference the loop tests is the time   *)
(* that has really passed, and the loop has not overlooked its end.        *)
TimerIsElapsed ==
    pc = "running" => /\ elapsed = (clock - start) % Wrap
                      /\ elapsed <= RunTime
                      /\ polled => elapsed < RunTime

(* A run ends after RUN_TIME_MS, no sooner and no later, wherever millis() *)
(* wraps around.                                                           *)
RunLastsRunTime ==
    [][pc = "running" /\ pc' # "running" => elapsed = RunTime]_vars

(* Every motor that is switched on is switched off again. *)
MotorsStop == \A m \in Motors : (drive[m] # "off") ~> (drive[m] = "off")

(* "stop -> Stop all motors immediately": during a timed run, a turn of the*)
(* run loop that comes round with a stop line to read leaves no motor on,  *)
(* so that none is on for longer than the tick in which the line came.  The*)
(* run loop does not look at the serial port.                              *)
StopWaiting == input # <<>> /\ Head(input).verb = "stop"
StopIsImmediate ==
    [][pc = "running" /\ polled' # polled /\ polled' /\ StopWaiting =>
           \A m \in Motors : drive'[m] = "off"]_vars
=============================================================================
