------------------------- MODULE RobatMotorsProofs -------------------------
(***************************************************************************)
(* Theorems about RobatMotors: for any motors, commands, run time and      *)
(* clock width, and any interleaving of interrupts, shafts and loop.       *)
(***************************************************************************)
EXTENDS RobatMotors, SequenceTheorems, TLAPS

-----------------------------------------------------------------------------
(* Encoder arithmetic                                                      *)

LEMMA PinsType == \A p \in 0 .. 3 : PinsAt[p] \in 0 .. 3
  BY DEF PinsAt

(* The table counts a step of the cycle as one, in its direction, and      *)
(* counts nothing for half a cycle.                                        *)
LEMMA QuadStep ==
    ASSUME NEW p \in 0 .. 3, NEW q \in 0 .. 3
    PROVE  /\ Quad(PinsAt[q], PinsAt[p]) \in -1 .. 1
           /\ (p - q) % 4 = 0 => Quad(PinsAt[q], PinsAt[p]) = 0
           /\ (p - q) % 4 = 1 => Quad(PinsAt[q], PinsAt[p]) = 1
           /\ (p - q) % 4 = 2 => Quad(PinsAt[q], PinsAt[p]) = 0
           /\ (p - q) % 4 = 3 => Quad(PinsAt[q], PinsAt[p]) = -1
  <1>1. CASE q = 0
    BY <1>1 DEF Quad, QUAD_TABLE, PinsAt
  <1>2. CASE q = 1
    BY <1>2 DEF Quad, QUAD_TABLE, PinsAt
  <1>3. CASE q = 2
    BY <1>3 DEF Quad, QUAD_TABLE, PinsAt
  <1>4. CASE q = 3
    BY <1>4 DEF Quad, QUAD_TABLE, PinsAt
  <1> QED BY <1>1, <1>2, <1>3, <1>4

(* A sample taken within one step of the last counts that step; one taken  *)
(* later still counts an even or an odd number with it.                    *)
LEMMA QuadOfLag ==
    ASSUME NEW p \in 0 .. 3, NEW l \in Int
    PROVE  /\ Quad(PinsAt[(p - l) % 4], PinsAt[p]) \in -1 .. 1
           /\ l \in -1 .. 1 => Quad(PinsAt[(p - l) % 4], PinsAt[p]) = l
           /\ (Quad(PinsAt[(p - l) % 4], PinsAt[p]) - l) % 2 = 0
  <1> DEFINE q == (p - l) % 4
             c == Quad(PinsAt[q], PinsAt[p])
  <1>1. q \in 0 .. 3
    OBVIOUS
  <1>2. /\ c \in -1 .. 1
        /\ (p - q) % 4 = 0 => c = 0
        /\ (p - q) % 4 = 1 => c = 1
        /\ (p - q) % 4 = 2 => c = 0
        /\ (p - q) % 4 = 3 => c = -1
    BY <1>1, QuadStep
  <1>3. (p - q) % 4 = l % 4
    OBVIOUS
  <1> HIDE DEF c
  <1>4. /\ l \in -1 .. 1 => c = l
        /\ (c - l) % 2 = 0
    BY <1>2, <1>3
  <1> QED BY <1>2, <1>4 DEF c
-----------------------------------------------------------------------------
(* Type correctness                                                        *)

LEMMA SampleType ==
    ASSUME TypeOK, NEW S \in SUBSET Motors, Sample(S)
    PROVE  /\ encoderCount' \in [Motors -> Int]
           /\ lastEncState' \in [Motors -> 0 .. 3]
           /\ lag' \in [Motors -> Int]
  <1>1. ASSUME NEW m \in Motors
        PROVE  readEncState(m) \in 0 .. 3
    BY PinsType DEF readEncState, TypeOK
  <1>2. ASSUME NEW m \in Motors
        PROVE  Quad(lastEncState[m], readEncState(m)) \in Int
    <2>1. lastEncState[m] \in 0 .. 3
      BY DEF TypeOK
    <2>2. \A i \in 1 .. 16 : QUAD_TABLE[i] \in Int
      BY DEF QUAD_TABLE
    <2>3. 4 * lastEncState[m] + readEncState(m) + 1 \in 1 .. 16
      BY <1>1, <2>1
    <2> QED BY <2>2, <2>3 DEF Quad
  <1> QED BY <1>1, <1>2 DEF Sample, TypeOK

LEMMA ResetType ==
    ASSUME TypeOK, NEW S, Reset(S)
    PROVE  /\ encoderCount' \in [Motors -> Int]
           /\ travel' \in [Motors -> Int]
           /\ lagAtReset' \in [Motors -> Int]
           /\ missed' \in [Motors -> BOOLEAN]
           /\ UNCHANGED <<phase, pending, lag, lastEncState>>
  <1>1. /\ encoderCount' \in [Motors -> Int] /\ travel' \in [Motors -> Int]
        /\ lagAtReset' \in [Motors -> Int]
    BY DEF Reset, TypeOK
  <1>2. \A m \in Motors : missed[m] \in BOOLEAN
    BY DEF TypeOK
  <1>3. missed' \in [Motors -> BOOLEAN]
    BY <1>2 DEF Reset
  <1> QED BY <1>1, <1>3 DEF Reset

(* Wrapping arithmetic never leaves the range of millis().                 *)
LEMMA TypeStep == TypeOK /\ [Next]_vars => TypeOK'
  <1> SUFFICES ASSUME TypeOK, [Next]_vars PROVE TypeOK'
    OBVIOUS
  <1> USE MotorsAssumption, TimeAssumption
  <1>1. CASE LoopPass
    <2>1. Sample(Motors \ Interrupt)
      BY <1>1 DEF LoopPass, pollEncoders
    <2>2. /\ encoderCount' \in [Motors -> Int]
          /\ lastEncState' \in [Motors -> 0 .. 3] /\ lag' \in [Motors -> Int]
      BY <2>1, SampleType
    <2> QED BY <1>1, <2>2 DEF LoopPass, timeVars, TypeOK
  <1>2. CASE ReadLine
    <2>1. input' \in Seq(Lines)
      BY <1>2, HeadTailProperties DEF ReadLine, TypeOK
    <2>2. UNCHANGED timeVars
      BY <1>2 DEF ReadLine
    <2> DEFINE line == Head(input)
    <2>3. CASE GlobalStop(line) \/ StopMotor(line) \/ PrintOnly(line)
      BY <2>1, <2>2, <2>3
         DEF GlobalStop, StopMotor, PrintOnly, shaftVars, encoderVars,
             timeVars, TypeOK
    <2>4. CASE ResetAll(line)
      <3>1. Reset(Motors)
        BY <2>4 DEF ResetAll
      <3> QED BY <2>1, <2>2, <2>4, <3>1, ResetType
              DEF ResetAll, timeVars, TypeOK
    <2>5. CASE StartRun(line)
      <3>1. Reset({line.m}) /\ line.m \in Motors
        BY <2>5 DEF StartRun, NamesMotor
      <3>2. /\ encoderCount' \in [Motors -> Int] /\ travel' \in [Motors -> Int]
            /\ lagAtReset' \in [Motors -> Int]
            /\ missed' \in [Motors -> BOOLEAN]
            /\ UNCHANGED <<phase, pending, lag, lastEncState>>
        BY <3>1, ResetType
      <3>3. drive' \in [Motors -> {"off", "fwd", "rev"}]
            /\ pc' = "starting" /\ target' \in Motors
        BY <2>5, <3>1 DEF StartRun, TypeOK
      <3> QED BY <2>1, <2>2, <3>2, <3>3 DEF timeVars, TypeOK
    <2> QED BY <1>2, <2>3, <2>4, <2>5 DEF ReadLine
  <1>3. CASE StartTimer
    <2>1. elapsed' \in 0 .. RunTime + 1 /\ polled' \in BOOLEAN
          /\ start' \in 0 .. Wrap - 1
      <3>1. elapsed' = 0 /\ polled' = FALSE /\ start' = clock
        BY <1>3 DEF StartTimer
      <3>2. elapsed' \in 0 .. RunTime + 1 /\ start' \in 0 .. Wrap - 1
        BY <3>1 DEF TypeOK
      <3> QED BY <3>1, <3>2
    <2> QED BY <1>3, <2>1 DEF StartTimer, shaftVars, encoderVars, TypeOK
  <1>4. CASE RunPass
    <2>1. CASE pollEncoders /\ polled' = TRUE
               /\ UNCHANGED <<drive, pc, lagAtReset>>
      <3>1. /\ encoderCount' \in [Motors -> Int]
            /\ lastEncState' \in [Motors -> 0 .. 3] /\ lag' \in [Motors -> Int]
        BY <2>1, SampleType DEF pollEncoders
      <3> QED BY <1>4, <2>1, <3>1 DEF RunPass, TypeOK
    <2>2. CASE /\ drive' = [drive EXCEPT ![target] = "off"] /\ pc' = "loop"
               /\ UNCHANGED <<polled, lag, encoderVars>>
      BY <1>4, <2>2 DEF RunPass, encoderVars, TypeOK
    <2> QED BY <1>4, <2>1, <2>2 DEF RunPass
  <1>5. ASSUME NEW m \in Motors, EncISR(m) PROVE TypeOK'
    <2>1. /\ encoderCount' \in [Motors -> Int]
          /\ lastEncState' \in [Motors -> 0 .. 3] /\ lag' \in [Motors -> Int]
      BY <1>5, SampleType DEF EncISR
    <2> QED BY <1>5, <2>1 DEF EncISR, timeVars, TypeOK
  <1>6. ASSUME NEW m \in Motors, Turn(m) PROVE TypeOK'
    <2>1. PICK d \in {-1, 1} :
            /\ phase' = [phase EXCEPT ![m] = (@ + d) % 4]
            /\ travel' = [travel EXCEPT ![m] = @ + d]
            /\ lag' = [lag EXCEPT ![m] = @ + d]
            /\ missed' = [missed EXCEPT ![m] = @ \/ lag[m] + d \notin -1 .. 1]
      BY <1>6 DEF Turn
    <2>2. (phase[m] + d) % 4 \in 0 .. 3 /\ travel[m] + d \in Int
          /\ lag[m] + d \in Int
      <3>1. phase[m] \in 0 .. 3 /\ travel[m] \in Int /\ lag[m] \in Int
            /\ d \in Int
        BY DEF TypeOK
      <3>2. (phase[m] + d) % 4 \in 0 .. 3
        BY <3>1
      <3>3. travel[m] + d \in Int /\ lag[m] + d \in Int
        BY <3>1
      <3> QED BY <3>2, <3>3, Zenon
    <2>3. phase' \in [Motors -> 0 .. 3] /\ travel' \in [Motors -> Int]
          /\ lag' \in [Motors -> Int] /\ missed' \in [Motors -> BOOLEAN]
      BY <2>1, <2>2 DEF TypeOK
    <2>4. pending' \subseteq Interrupt
      BY <1>6 DEF Turn, TypeOK
    <2> QED BY <1>6, <2>3, <2>4 DEF Turn, encoderVars, timeVars, TypeOK
  <1>7. CASE Tick
    <2>1. clock' \in 0 .. Wrap - 1
      BY <1>7 DEF Tick, TypeOK
    <2>2. elapsed' \in 0 .. RunTime + 1
      BY <1>7 DEF Tick, TypeOK
    <2> QED BY <1>7, <2>1, <2>2 DEF Tick, shaftVars, encoderVars, TypeOK
  <1>8. CASE HostSends
    <2>1. input' \in Seq(Lines)
      BY <1>8, AppendProperties DEF HostSends, TypeOK
    <2> QED BY <1>8, <2>1
            DEF HostSends, shaftVars, encoderVars, timeVars, TypeOK
  <1>9. CASE UNCHANGED vars
    BY <1>9 DEF vars, TypeOK
  <1> QED BY <1>1, <1>2, <1>3, <1>4, <1>5, <1>6, <1>7, <1>8, <1>9
          DEF Next, Loop

(* Every reachable state is well typed: no command reaches past the motors,*)
(* no sample past the table.                                               *)
THEOREM TypeCorrect == Spec => []TypeOK
  <1>1. Init => TypeOK
    <2> SUFFICES ASSUME Init PROVE TypeOK
      OBVIOUS
    <2>1. lastEncState \in [Motors -> 0 .. 3]
      BY PinsType DEF Init, readEncState
    <2>2. start \in 0 .. Wrap - 1 /\ elapsed \in 0 .. RunTime + 1
      BY TimeAssumption DEF Init
    <2>3. /\ encoderCount \in [Motors -> Int] /\ travel \in [Motors -> Int]
          /\ lag \in [Motors -> Int] /\ lagAtReset \in [Motors -> Int]
      BY DEF Init
    <2>4. missed \in [Motors -> BOOLEAN] /\ polled \in BOOLEAN
          /\ drive \in [Motors -> {"off", "fwd", "rev"}]
      BY DEF Init
    <2> QED BY <2>1, <2>2, <2>3, <2>4 DEF Init, TypeOK
  <1> QED BY <1>1, TypeStep, PTL DEF Spec
-----------------------------------------------------------------------------
(* One driven motor                                                        *)

LEMMA DriveStep == TypeOK /\ OnlyTargetDriven /\ [Next]_vars => OnlyTargetDriven'
  <1> SUFFICES ASSUME TypeOK, OnlyTargetDriven, [Next]_vars
               PROVE  OnlyTargetDriven'
    OBVIOUS
  <1>1. CASE UNCHANGED <<drive, pc, target>>
    BY <1>1 DEF OnlyTargetDriven
  <1>2. CASE LoopPass
    BY <1>2 DEF LoopPass, OnlyTargetDriven
  <1>3. CASE ReadLine
    <2>1. \A m \in Motors : drive[m] = "off"
      BY <1>3 DEF ReadLine, OnlyTargetDriven
    <2> DEFINE line == Head(input)
    <2>2. CASE StartRun(line)
      <3>1. line.m \in Motors /\ target' = line.m /\ pc' = "starting"
        BY <2>2 DEF StartRun, NamesMotor
      <3>2. \A m \in Motors : drive'[m] # "off" <=> m = line.m
        BY <2>1, <2>2, <3>1 DEF StartRun, TypeOK
      <3> QED BY <3>1, <3>2 DEF OnlyTargetDriven
    <2>3. CASE GlobalStop(line) \/ ResetAll(line) \/ StopMotor(line)
               \/ PrintOnly(line)
      <3>1. pc' = "loop" /\ \A m \in Motors : drive'[m] = "off"
        BY <2>1, <2>3 DEF GlobalStop, ResetAll, StopMotor, PrintOnly, TypeOK
      <3> QED BY <3>1 DEF OnlyTargetDriven
    <2> QED BY <1>3, <2>2, <2>3 DEF ReadLine
  <1>4. CASE StartTimer
    BY <1>4 DEF StartTimer, OnlyTargetDriven
  <1>5. CASE RunPass
    <2>1. CASE UNCHANGED <<drive, pc>>
      BY <1>5, <2>1 DEF RunPass, OnlyTargetDriven
    <2>2. CASE drive' = [drive EXCEPT ![target] = "off"] /\ pc' = "loop"
      <3>1. \A m \in Motors : drive'[m] = "off"
        BY <1>5, <2>2 DEF RunPass, OnlyTargetDriven, TypeOK
      <3> QED BY <2>2, <3>1 DEF OnlyTargetDriven
    <2> QED BY <1>5, <2>1, <2>2 DEF RunPass
  <1> QED
    BY <1>1, <1>2, <1>3, <1>4, <1>5
       DEF Next, Loop, EncISR, Turn, Tick, HostSends, vars

(* At most one of the fourteen motors is ever switched on, only for its    *)
(* own timed run, and none is on while the loop reads commands.            *)
THEOREM OnlyTargetDrivenAlways == Spec => []OnlyTargetDriven
  <1>1. Init => OnlyTargetDriven
    BY DEF Init, OnlyTargetDriven
  <1> QED BY <1>1, DriveStep, TypeCorrect, PTL DEF Spec
-----------------------------------------------------------------------------
(* The length of a run                                                     *)

LEMMA ModuloWrap ==
    ASSUME NEW x \in Int, x < Wrap, x >= -Wrap
    PROVE  x % Wrap = IF x < 0 THEN x + Wrap ELSE x
  <1>1. Wrap \in Nat /\ Wrap > 0
    BY TimeAssumption
  <1>2. CASE x >= 0
    BY <1>1, <1>2
  <1>3. CASE x < 0
    BY <1>1, <1>3
  <1> QED BY <1>2, <1>3

(* One tick more on the clock is one more in the unsigned difference, even *)
(* when millis() wraps between the two.                                    *)
LEMMA TickAddsOne ==
    ASSUME NEW c \in 0 .. Wrap - 1, NEW s \in 0 .. Wrap - 1,
           (c - s) % Wrap < RunTime
    PROVE  (((c + 1) % Wrap) - s) % Wrap = ((c - s) % Wrap) + 1
  <1> DEFINE d == (c + 1) % Wrap
  <1>0. Wrap \in Nat /\ RunTime \in Nat /\ RunTime < Wrap
    BY TimeAssumption
  <1>1. (c - s) % Wrap = IF c < s THEN c - s + Wrap ELSE c - s
    BY <1>0, ModuloWrap
  <1>2. CASE c + 1 < Wrap
    <2>1. d = c + 1
      BY <1>0, <1>2
    <2>2. (d - s) % Wrap = IF d < s THEN d - s + Wrap ELSE d - s
      BY <1>0, <1>2, <2>1, ModuloWrap
    <2> QED BY <1>0, <1>1, <1>2, <2>1, <2>2
  <1>3. CASE c + 1 = Wrap
    <2>1. d = 0
      BY <1>0, <1>3
    <2>2. (d - s) % Wrap = IF 0 < s THEN 0 - s + Wrap ELSE 0
      BY <1>0, <2>1, ModuloWrap
    <2> QED BY <1>0, <1>1, <1>3, <2>2
  <1> QED BY <1>0, <1>2, <1>3

LEMMA TimerStep == TypeOK /\ TimerIsElapsed /\ [Next]_vars => TimerIsElapsed'
  <1> SUFFICES ASSUME TypeOK, TimerIsElapsed, [Next]_vars
               PROVE  TimerIsElapsed'
    OBVIOUS
  <1>0. RunTime \in Nat \ {0} /\ Wrap \in Nat /\ Wrap > RunTime
    BY TimeAssumption
  <1>1. CASE pc' # "running"
    BY <1>1 DEF TimerIsElapsed
  <1>2. CASE UNCHANGED <<pc, timeVars>>
    BY <1>2 DEF TimerIsElapsed, timeVars
  <1>3. CASE StartTimer
    <2>1. elapsed' = 0 /\ polled' = FALSE /\ start' = clock /\ clock' = clock
      BY <1>3 DEF StartTimer
    <2>2. (clock' - start') % Wrap = 0
      BY <1>0, <2>1, ModuloWrap DEF TypeOK
    <2> QED BY <1>0, <2>1, <2>2 DEF TimerIsElapsed
  <1>4. CASE RunPass /\ pc' = "running"
    <2>1. (clock - start) % Wrap < RunTime /\ pc = "running"
      BY <1>4 DEF RunPass, StillRunning
    <2>2. UNCHANGED <<clock, start, elapsed>>
      BY <1>4 DEF RunPass
    <2> QED BY <2>1, <2>2 DEF TimerIsElapsed
  <1>5. CASE Tick /\ pc' = "running"
    <2>1. pc = "running" /\ polled /\ polled' = FALSE /\ start' = start
          /\ clock' = (clock + 1) % Wrap
      BY <1>5 DEF Tick
    <2>2. elapsed = (clock - start) % Wrap /\ elapsed < RunTime
      BY <2>1 DEF TimerIsElapsed
    <2>3. elapsed' = elapsed + 1
      BY <1>0, <1>5, <2>1, <2>2 DEF Tick, TypeOK
    <2>4. (clock' - start') % Wrap = elapsed + 1
      BY <2>1, <2>2, TickAddsOne DEF TypeOK
    <2>5. elapsed' <= RunTime
      BY <1>0, <2>2, <2>3 DEF TypeOK
    <2> QED BY <2>1, <2>3, <2>4, <2>5 DEF TimerIsElapsed
  <1>6. LoopPass \/ ReadLine => pc' # "running"
    BY DEF LoopPass, ReadLine, GlobalStop, ResetAll, StartRun, StopMotor,
           PrintOnly
  <1>7. HostSends \/ UNCHANGED vars \/ (\E m \in Motors : EncISR(m) \/ Turn(m))
          => UNCHANGED <<pc, timeVars>>
    BY DEF HostSends, EncISR, Turn, vars, timeVars
  <1> QED BY <1>1, <1>2, <1>3, <1>4, <1>5, <1>6, <1>7 DEF Next, Loop

THEOREM TimerIsElapsedAlways == Spec => []TimerIsElapsed
  <1>1. Init => TimerIsElapsed
    BY DEF Init, TimerIsElapsed
  <1> QED BY <1>1, TimerStep, TypeCorrect, PTL DEF Spec

(* A run lasts RUN_TIME_MS exactly, for any clock width, wherever the      *)
(* clock is when it starts.                                                *)
THEOREM RunLastsRunTimeAlways == Spec => RunLastsRunTime
  <1>1. TypeOK /\ TimerIsElapsed /\ [Next]_vars
          => [pc = "running" /\ pc' # "running" => elapsed = RunTime]_vars
    <2> SUFFICES ASSUME TypeOK, TimerIsElapsed, [Next]_vars, pc = "running",
                        pc' # "running"
                 PROVE  elapsed = RunTime
      OBVIOUS
    <2>1. ~StillRunning
      BY DEF Next, Loop, LoopPass, ReadLine, StartTimer, RunPass, EncISR, Turn,
             Tick, HostSends, vars
    <2>2. elapsed = (clock - start) % Wrap /\ elapsed <= RunTime
      BY DEF TimerIsElapsed
    <2>3. ~(elapsed < RunTime)
      BY <2>1, <2>2 DEF StillRunning
    <2> QED BY <2>2, <2>3, TimeAssumption DEF TypeOK
  <1> QED BY <1>1, TimerIsElapsedAlways, TypeCorrect, PTL
          DEF RunLastsRunTime, Spec
-----------------------------------------------------------------------------
(* Counts                                                                  *)

(* What the count is worth: the three parts hold together or not at all.   *)
Counting == SampledPins /\ CountIsSampledTravel /\ CountParity

(* A step that touches neither encoder nor shaft.                          *)
LEMMA CountingUnchanged ==
    ASSUME Counting, UNCHANGED <<phase, lag, lastEncState, encoderCount, travel,
                                 lagAtReset, missed>>
    PROVE  Counting'
  BY DEF Counting, SampledPins, CountIsSampledTravel, CountParity

LEMMA ParityStep ==
    ASSUME NEW e \in Int, NEW t \in Int, NEW l \in Int, NEW a \in Int,
           NEW c \in Int, (e - (t - l + a)) % 2 = 0, (c - l) % 2 = 0
    PROVE  (e + c - (t - 0 + a)) % 2 = 0
  OBVIOUS

(* Sampling moves the lag into the count.                                  *)
LEMMA CountingSample ==
    ASSUME TypeOK, Counting, NEW S, Sample(S),
           UNCHANGED <<phase, travel, missed, lagAtReset>>
    PROVE  Counting'
  <1>1. ASSUME NEW m \in Motors
        PROVE  /\ lastEncState'[m] = PinsAt[(phase'[m] - lag'[m]) % 4]
               /\ ~missed'[m] =>
                    /\ encoderCount'[m] = travel'[m] - lag'[m] + lagAtReset'[m]
                    /\ lag'[m] \in -1 .. 1 /\ lagAtReset'[m] \in -1 .. 1
               /\ (encoderCount'[m] - (travel'[m] - lag'[m] + lagAtReset'[m]))
                    % 2 = 0
    <2>0. /\ phase[m] \in 0 .. 3 /\ lag[m] \in Int /\ travel[m] \in Int
          /\ lagAtReset[m] \in Int /\ encoderCount[m] \in Int
      BY DEF TypeOK
    <2>1. /\ lastEncState[m] = PinsAt[(phase[m] - lag[m]) % 4]
          /\ ~missed[m] =>
                /\ encoderCount[m] = travel[m] - lag[m] + lagAtReset[m]
                /\ lag[m] \in -1 .. 1 /\ lagAtReset[m] \in -1 .. 1
          /\ (encoderCount[m] - (travel[m] - lag[m] + lagAtReset[m])) % 2 = 0
      BY DEF Counting, SampledPins, CountIsSampledTravel, CountParity
    <2>2. CASE m \notin S
      <3>1. /\ lastEncState'[m] = lastEncState[m] /\ lag'[m] = lag[m]
            /\ encoderCount'[m] = encoderCount[m]
        BY <2>2 DEF Sample
      <3> QED BY <2>1, <3>1
    <2>3. CASE m \in S
      <3> DEFINE c == Quad(PinsAt[(phase[m] - lag[m]) % 4], PinsAt[phase[m]])
      <3>1. /\ lastEncState'[m] = PinsAt[phase[m]] /\ lag'[m] = 0
            /\ encoderCount'[m] = encoderCount[m] + c
        BY <2>1, <2>3 DEF Sample, readEncState
      <3>2. /\ c \in -1 .. 1
            /\ lag[m] \in -1 .. 1 => c = lag[m]
            /\ (c - lag[m]) % 2 = 0
        BY <2>0, QuadOfLag
      <3> HIDE DEF c
      <3>3. (phase'[m] - lag'[m]) % 4 = phase[m]
        BY <2>0, <3>1
      <3>4. ~missed'[m] =>
               /\ encoderCount'[m] = travel'[m] - lag'[m] + lagAtReset'[m]
               /\ lag'[m] \in -1 .. 1 /\ lagAtReset'[m] \in -1 .. 1
        <4>1. /\ travel'[m] = travel[m] /\ missed'[m] = missed[m]
              /\ lagAtReset'[m] = lagAtReset[m]
          OBVIOUS
        <4> SUFFICES ASSUME ~missed[m]
                     PROVE  /\ encoderCount'[m]
                                 = travel'[m] - lag'[m] + lagAtReset'[m]
                            /\ lag'[m] \in -1 .. 1 /\ lagAtReset'[m] \in -1 .. 1
          BY <4>1
        <4>2. encoderCount'[m] = travel[m] - lag[m] + lagAtReset[m] + lag[m]
          BY <2>1, <3>1, <3>2
        <4>3. travel[m] - lag[m] + lagAtReset[m] + lag[m]
                = travel[m] - 0 + lagAtReset[m]
          BY <2>0
        <4> QED BY <2>1, <3>1, <4>1, <4>2, <4>3
      <3>5. (encoderCount'[m] - (travel'[m] - lag'[m] + lagAtReset'[m])) % 2 = 0
        <4>1. c \in Int
          BY <3>2
        <4>2. (encoderCount[m] + c - (travel[m] - 0 + lagAtReset[m])) % 2 = 0
          BY <2>0, <2>1, <3>2, <4>1, ParityStep
        <4>3. /\ encoderCount'[m] = encoderCount[m] + c
              /\ travel'[m] = travel[m] /\ lag'[m] = 0
              /\ lagAtReset'[m] = lagAtReset[m]
          BY <3>1
        <4> QED BY <2>0, <4>1, <4>2, <4>3
      <3> QED BY <3>1, <3>3, <3>4, <3>5
    <2> QED BY <2>2, <2>3
  <1> QED BY <1>1 DEF Counting, SampledPins, CountIsSampledTravel, CountParity

(* A reset keeps the pins, so the step in flight is counted later.         *)
LEMMA CountingReset ==
    ASSUME TypeOK, Counting, NEW S, Reset(S)
    PROVE  Counting'
  <1>1. ASSUME NEW m \in Motors
        PROVE  /\ ~missed'[m] =>
                    /\ encoderCount'[m] = travel'[m] - lag'[m] + lagAtReset'[m]
                    /\ lag'[m] \in -1 .. 1 /\ lagAtReset'[m] \in -1 .. 1
               /\ (encoderCount'[m] - (travel'[m] - lag'[m] + lagAtReset'[m]))
                    % 2 = 0
    <2>0. lag[m] \in Int /\ lag'[m] = lag[m]
      BY DEF TypeOK, Reset
    <2>1. CASE m \in S
      <3>1. /\ encoderCount'[m] = 0 /\ travel'[m] = 0 /\ lagAtReset'[m] = lag[m]
            /\ missed'[m] = (lag[m] \notin -1 .. 1)
        BY <2>1 DEF Reset
      <3>2. 0 = 0 - lag[m] + lag[m]
        BY <2>0
      <3>3. encoderCount'[m] = travel'[m] - lag'[m] + lagAtReset'[m]
        BY <2>0, <3>1, <3>2
      <3>4. (0 - (0 - lag[m] + lag[m])) % 2 = 0
        BY <2>0
      <3> QED BY <2>0, <3>1, <3>3, <3>4
    <2>2. CASE m \notin S
      <3>1. /\ encoderCount'[m] = encoderCount[m] /\ travel'[m] = travel[m]
            /\ lagAtReset'[m] = lagAtReset[m] /\ missed'[m] = missed[m]
        BY <2>2 DEF Reset
      <3> QED BY <2>0, <3>1 DEF Counting, CountIsSampledTravel, CountParity
    <2> QED BY <2>1, <2>2
  <1>2. SampledPins'
    BY DEF Counting, SampledPins, Reset
  <1> QED BY <1>1, <1>2 DEF Counting, CountIsSampledTravel, CountParity

(* A step of a shaft moves the travel and the lag together.                *)
LEMMA CountingTurn ==
    ASSUME TypeOK, Counting, NEW n \in Motors, Turn(n)
    PROVE  Counting'
  <1>1. PICK d \in {-1, 1} :
          /\ phase' = [phase EXCEPT ![n] = (@ + d) % 4]
          /\ travel' = [travel EXCEPT ![n] = @ + d]
          /\ lag' = [lag EXCEPT ![n] = @ + d]
          /\ missed' = [missed EXCEPT ![n] = @ \/ lag[n] + d \notin -1 .. 1]
    BY DEF Turn
  <1>2. UNCHANGED <<lastEncState, encoderCount, lagAtReset>>
    BY DEF Turn, encoderVars
  <1>3. ASSUME NEW m \in Motors
        PROVE  /\ lastEncState'[m] = PinsAt[(phase'[m] - lag'[m]) % 4]
               /\ ~missed'[m] =>
                    /\ encoderCount'[m] = travel'[m] - lag'[m] + lagAtReset'[m]
                    /\ lag'[m] \in -1 .. 1 /\ lagAtReset'[m] \in -1 .. 1
               /\ (encoderCount'[m] - (travel'[m] - lag'[m] + lagAtReset'[m]))
                    % 2 = 0
    <2>0. /\ phase[m] \in 0 .. 3 /\ lag[m] \in Int /\ travel[m] \in Int
          /\ lagAtReset[m] \in Int /\ encoderCount[m] \in Int /\ d \in Int
          /\ missed[m] \in BOOLEAN
      BY DEF TypeOK
    <2>1. /\ lastEncState[m] = PinsAt[(phase[m] - lag[m]) % 4]
          /\ ~missed[m] =>
                /\ encoderCount[m] = travel[m] - lag[m] + lagAtReset[m]
                /\ lag[m] \in -1 .. 1 /\ lagAtReset[m] \in -1 .. 1
          /\ (encoderCount[m] - (travel[m] - lag[m] + lagAtReset[m])) % 2 = 0
      BY DEF Counting, SampledPins, CountIsSampledTravel, CountParity
    <2>2. CASE m # n
      <3>1. /\ phase'[m] = phase[m] /\ travel'[m] = travel[m]
            /\ lag'[m] = lag[m] /\ missed'[m] = missed[m]
        BY <1>1, <2>2 DEF TypeOK
      <3> QED BY <1>2, <2>1, <3>1
    <2>3. CASE m = n
      <3>1. /\ phase'[m] = (phase[m] + d) % 4 /\ travel'[m] = travel[m] + d
            /\ lag'[m] = lag[m] + d
            /\ missed'[m] = (missed[m] \/ lag[m] + d \notin -1 .. 1)
        BY <1>1, <2>3 DEF TypeOK
      <3>2. (phase'[m] - lag'[m]) % 4 = (phase[m] - lag[m]) % 4
        BY <2>0, <3>1
      <3>3. travel'[m] - lag'[m] + lagAtReset'[m]
              = travel[m] - lag[m] + lagAtReset[m]
        BY <1>2, <2>0, <3>1
      <3>4. ~missed'[m] => ~missed[m] /\ lag'[m] \in -1 .. 1
        BY <3>1, <2>0
      <3> QED BY <1>2, <2>1, <3>2, <3>3, <3>4
    <2> QED BY <2>2, <2>3
  <1> QED BY <1>3 DEF Counting, SampledPins, CountIsSampledTravel, CountParity

LEMMA CountingStep == TypeOK /\ Counting /\ [Next]_vars => Counting'
  <1> SUFFICES ASSUME TypeOK, Counting, [Next]_vars PROVE Counting'
    OBVIOUS
  <1>1. CASE LoopPass
    BY <1>1, CountingSample DEF LoopPass, pollEncoders
  <1>2. CASE ReadLine
    <2> DEFINE line == Head(input)
    <2>1. CASE GlobalStop(line) \/ StopMotor(line) \/ PrintOnly(line)
      BY <2>1, CountingUnchanged
         DEF GlobalStop, StopMotor, PrintOnly, shaftVars, encoderVars
    <2>2. CASE ResetAll(line)
      BY <2>2, CountingReset DEF ResetAll
    <2>3. CASE StartRun(line)
      BY <2>3, CountingReset DEF StartRun
    <2> QED BY <1>2, <2>1, <2>2, <2>3 DEF ReadLine
  <1>3. CASE StartTimer \/ Tick \/ HostSends \/ UNCHANGED vars
    BY <1>3, CountingUnchanged
       DEF StartTimer, Tick, HostSends, vars, shaftVars, encoderVars
  <1>4. CASE RunPass
    <2>1. CASE pollEncoders /\ UNCHANGED lagAtReset
      BY <1>4, <2>1, CountingSample DEF RunPass, pollEncoders
    <2>2. CASE UNCHANGED <<lag, encoderVars>>
      BY <1>4, <2>2, CountingUnchanged DEF RunPass, encoderVars
    <2> QED BY <1>4, <2>1, <2>2 DEF RunPass
  <1>5. ASSUME NEW m \in Motors, EncISR(m) PROVE Counting'
    BY <1>5, CountingSample DEF EncISR
  <1>6. ASSUME NEW m \in Motors, Turn(m) PROVE Counting'
    BY <1>6, CountingTurn
  <1> QED BY <1>1, <1>2, <1>3, <1>4, <1>5, <1>6 DEF Next, Loop

(* Polled or interrupt-driven, an encoder that is sampled at least once a  *)
(* step counts what the shaft has turned since its reset; one that is not  *)
(* is wrong by an even number of steps.                                    *)
THEOREM CountingAlways ==
    Spec => [](SampledPins /\ CountIsSampledTravel /\ CountParity)
  <1>1. Init => Counting
    <2> SUFFICES ASSUME Init PROVE Counting
      OBVIOUS
    <2>1. ASSUME NEW m \in Motors
          PROVE  lastEncState[m] = PinsAt[(phase[m] - lag[m]) % 4]
      <3>1. phase[m] \in 0 .. 3 /\ lag[m] = 0
            /\ lastEncState[m] = PinsAt[phase[m]]
        BY DEF Init, readEncState
      <3>2. (phase[m] - lag[m]) % 4 = phase[m]
        BY <3>1
      <3> QED BY <3>1, <3>2
    <2>2. CountIsSampledTravel /\ CountParity
      BY DEF Init, CountIsSampledTravel, CountParity
    <2> QED BY <2>1, <2>2 DEF Counting, SampledPins
  <1>2. Counting => SampledPins /\ CountIsSampledTravel /\ CountParity
    BY DEF Counting
  <1> QED BY <1>1, <1>2, CountingStep, TypeCorrect, PTL DEF Spec

(* The pins that a sample is compared with are those of the shaft at the   *)
(* last sample, also when a reset came between.                            *)
THEOREM SampledPinsAlways == Spec => []SampledPins
  BY CountingAlways, PTL

(* Whatever an encoder misses, its count is wrong by an even number.       *)
THEOREM CountParityAlways == Spec => []CountParity
  BY CountingAlways, PTL

(* A count that has seen every step is off by two at most.                 *)
THEOREM CountNearTruthAlways == Spec => []CountNearTruth
  <1>1. TypeOK /\ CountIsSampledTravel => CountNearTruth
    <2> SUFFICES ASSUME TypeOK, CountIsSampledTravel, NEW m \in Motors,
                        ~missed[m]
                 PROVE  encoderCount[m] - travel[m] \in -2 .. 2
      BY DEF CountNearTruth
    <2>1. /\ lag[m] \in Int /\ travel[m] \in Int /\ lagAtReset[m] \in Int
      BY DEF TypeOK
    <2>2. /\ encoderCount[m] = travel[m] - lag[m] + lagAtReset[m]
          /\ lag[m] \in -1 .. 1 /\ lagAtReset[m] \in -1 .. 1
      BY DEF CountIsSampledTravel
    <2> QED BY <2>1, <2>2
  <1> QED BY <1>1, CountingAlways, TypeCorrect, PTL
=============================================================================
