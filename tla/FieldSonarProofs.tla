-------------------------- MODULE FieldSonarProofs --------------------------
(***************************************************************************)
(* What holds of the field sonar for every number of chunks and calls,     *)
(* whatever the host does and whenever the interrupts come.                *)
(***************************************************************************)
EXTENDS FieldSonar, TLAPS

USE DEF ADC, DAC

(* A token that takes the next one with it is never the last on its way.   *)
Paired == \A k \in 1 .. Len(toFw) :
              toFw[k].op \in {"START_JOB", "GET_CHIRP"} => k < Len(toFw)

(* Where the work of a job is: each ADC channel is running or its flag is  *)
(* set, until the loop takes both flags; and while the chirp is awaited    *)
(* either the DAC runs or its flag is set.                                 *)
Recorded == \A c \in ADC : c \in running <=> c \notin adc_done
JobState ==
    /\ pc = "send" => /\ dstate = "LISTEN" /\ sent < 2 * Chunks
                      /\ running = {} /\ adc_done = {}
    /\ dstate = "IDLE" => running = {} /\ adc_done = {}
    /\ dstate # "IDLE" /\ pc # "send" => Recorded
    /\ dstate = "EMIT" => (DAC \in running <=> ~emit_stop_intflag)
    /\ dstate # "EMIT" => DAC \notin running /\ ~emit_stop_intflag

IInv == TypeOK /\ Paired /\ JobState

LEMMA TokenType == ASSUME NEW op \in {"AMP_START", "AMP_STOP", "START_JOB",
                                      "DO_CHIRP", "DONT_CHIRP", "GET_CHIRP",
                                      "samples"},
                          NEW c \in 0 .. Calls - 1
                   PROVE  [op |-> op, call |-> c] \in Token
BY DEF Token

LEMMA NextCallType == ASSUME call \in 0 .. Calls - 1
                      PROVE  NextCall \in 0 .. Calls - 1
BY CallsAssumption DEF NextCall

LEMMA SilenceType == Silence \in Emission
<1>1. -1 \in -1 .. Calls - 1
  BY CallsAssumption
<1> QED  BY <1>1 DEF Silence, Emission

LEMMA InitInv == Init => IInv
<1> SUFFICES ASSUME Init PROVE IInv
  OBVIOUS
<1> USE DEF Init
<1>1. /\ chirp \in -1 .. Calls - 1 /\ job \in -1 .. Calls - 1
      /\ call \in 0 .. Calls - 1 /\ mine \in 0 .. Calls - 1
      /\ sent \in 0 .. 2 * Chunks
  BY ChunksAssumption, CallsAssumption
<1>2. emission \in Emission
  BY SilenceType
<1>3. toFw \in Seq(Token) /\ toHost \in Seq(Chunk) /\ got \in Seq(Chunk)
  OBVIOUS
<1>4. TypeOK
  BY <1>1, <1>2, <1>3 DEF TypeOK
<1>5. Paired
  BY DEF Paired
<1> QED  BY <1>4, <1>5 DEF IInv, JobState

LEMMA SwitchInv == ASSUME IInv, Switch PROVE IInv'
<1> USE DEF IInv, TypeOK, JobState, Recorded, flags, dmaVars,
            hostVars, wires, observers
<1>0. Paired'
  BY DEF Paired, Switch
<1>1. CASE StartJob
  <2>1. CASE do_emit_chirp
    <3>1. emission' = [kind |-> IF DAC \in early THEN "cut" ELSE "whole",
                       chirp |-> chirp]
      BY <1>1, <2>1 DEF StartJob
    <3>2. (IF DAC \in early THEN "cut" ELSE "whole")
            \in {"none", "whole", "cut", "torn"}
      OBVIOUS
    <3>3. emission' \in Emission
      BY <3>1, <3>2 DEF Emission
    <3>4. emit_stop_intflag' = FALSE
      BY <1>1, <2>1 DEF StartJob
    <3>5. running' = {0, 1, 2}
      BY <1>1, <2>1 DEF StartJob
    <3> QED  BY <1>0, <1>1, <3>3, <3>4, <3>5 DEF Switch, StartJob
  <2>2. CASE ~do_emit_chirp
    <3>1. emission' \in Emission
      BY <1>1, <2>2, SilenceType DEF StartJob
    <3>2. emit_stop_intflag' = TRUE
      BY <1>1, <2>2 DEF StartJob
    <3>3. running' = {0, 1}
      BY <1>1, <2>2 DEF StartJob
    <3>4. /\ pc' = "serial" /\ dstate' = "EMIT" /\ adc_done' = {}
          /\ DAC \notin running' /\ running' \subseteq ADC \cup {DAC}
      BY <1>1, <3>3 DEF StartJob
    <3>5. JobState'
      BY <3>2, <3>3, <3>4
    <3>6. TypeOK'
      <4>1. emit_start_intflag' = FALSE /\ clean' \subseteq ADC
        BY <1>1 DEF StartJob
      <4>2. /\ UNCHANGED <<wait_stop_intflag, adc_done, sent, timerOn, early>>
            /\ UNCHANGED <<do_emit_chirp, chirp, job>>
            /\ UNCHANGED <<wires, hostVars>>
        BY <1>1 DEF Switch, StartJob
      <4> QED  BY <4>1, <4>2, <3>1, <3>2, <3>4
    <3> QED  BY <1>0, <3>5, <3>6
  <2> QED  BY <2>1, <2>2
<1>2. CASE EmitOver
  BY <1>0, <1>2 DEF Switch, EmitOver
<1>3. CASE WaitOver
  BY <1>0, <1>3 DEF Switch, WaitOver
<1>4. CASE StartSending
  BY <1>0, <1>4, ChunksAssumption DEF Switch, StartSending, BothRecorded
<1>5. CASE NothingToDo
  BY <1>0, <1>5 DEF Switch, NothingToDo
<1> QED  BY <1>1, <1>2, <1>3, <1>4, <1>5 DEF Switch

(* The chunk that SendChunk writes is one of the 2 * Chunks of this job.   *)
LEMMA NextChunkType == ASSUME TypeOK, sent < 2 * Chunks
                       PROVE  NextChunk \in Chunk
<1> USE ChunksAssumption DEF TypeOK
<1>1. sent \div Chunks \in ADC
  BY SMT
<1>2. sent % Chunks \in 0 .. Chunks - 1
  BY SMT
<1>3. (sent % Chunks) + 1 \in 1 .. Chunks
  BY <1>2
<1>4. (sent \div Chunks \in clean \ running) \in BOOLEAN
  OBVIOUS
<1> QED  BY <1>1, <1>3, <1>4 DEF NextChunk, Chunk

LEMMA SendChunkInv == ASSUME IInv, SendChunk PROVE IInv'
<1> USE DEF IInv, TypeOK, JobState, Recorded, flags, dmaVars,
            hostVars, observers
<1>0. Paired'
  BY DEF Paired, SendChunk
<1>1. NextChunk \in Chunk
  BY NextChunkType DEF SendChunk
<1>2. toHost' \in Seq(Chunk)
  BY <1>1 DEF SendChunk
<1>3. sent' \in 0 .. 2 * Chunks
  BY ChunksAssumption DEF SendChunk
<1>4. CASE sent' = 2 * Chunks
  <2>1. pc' = "serial" /\ dstate' = "IDLE"
    BY <1>4 DEF SendChunk
  <2> QED  BY <1>0, <1>2, <1>3, <2>1 DEF SendChunk
<1>5. CASE sent' # 2 * Chunks
  <2>1. pc' = "send" /\ dstate' = dstate /\ sent' < 2 * Chunks
    BY <1>3, <1>5, ChunksAssumption DEF SendChunk
  <2> QED  BY <1>0, <1>2, <1>3, <2>1 DEF SendChunk
<1> QED  BY <1>4, <1>5

(* What is left of the way to the firmware when a token, or a token and    *)
(* its parameter, has been taken.                                          *)
LEMMA TailPaired == ASSUME toFw \in Seq(Token), toFw # <<>>, Paired,
                           toFw' = Tail(toFw)
                    PROVE  toFw' \in Seq(Token) /\ Paired'
<1>1. toFw' \in Seq(Token) /\ Len(toFw') = Len(toFw) - 1
  OBVIOUS
<1>2. ASSUME NEW k \in 1 .. Len(toFw'),
             toFw'[k].op \in {"START_JOB", "GET_CHIRP"}
      PROVE  k < Len(toFw')
  <2>1. toFw'[k] = toFw[k + 1] /\ k + 1 \in 1 .. Len(toFw)
    BY <1>1
  <2>2. k + 1 < Len(toFw)
    BY <1>2, <2>1 DEF Paired
  <2> QED  BY <1>1, <2>2
<1> QED  BY <1>1, <1>2 DEF Paired

LEMMA TailTailPaired == ASSUME toFw \in Seq(Token), Len(toFw) >= 2, Paired,
                               toFw' = Tail(Tail(toFw))
                        PROVE  toFw' \in Seq(Token) /\ Paired'
<1>1. Tail(toFw) \in Seq(Token) /\ Len(Tail(toFw)) = Len(toFw) - 1
  OBVIOUS
<1>2. toFw' \in Seq(Token) /\ Len(toFw') = Len(toFw) - 2
  <2> DEFINE rest == Tail(toFw)
  <2>1. rest \in Seq(Token) /\ Len(rest) >= 1
    BY <1>1
  <2> HIDE DEF rest
  <2>2. Tail(rest) \in Seq(Token) /\ Len(Tail(rest)) = Len(rest) - 1
    BY <2>1
  <2> QED  BY <1>1, <2>2 DEF rest
<1>3. ASSUME NEW k \in 1 .. Len(toFw'),
             toFw'[k].op \in {"START_JOB", "GET_CHIRP"}
      PROVE  k < Len(toFw')
  <2>1. toFw'[k] = Tail(toFw)[k + 1] /\ k + 1 \in 1 .. Len(Tail(toFw))
    BY <1>1, <1>2
  <2>2. Tail(toFw)[k + 1] = toFw[k + 2] /\ k + 2 \in 1 .. Len(toFw)
    BY <1>1, <2>1
  <2>3. k + 2 < Len(toFw)
    BY <1>3, <2>1, <2>2 DEF Paired
  <2> QED  BY <1>2, <2>3
<1> QED  BY <1>2, <1>3 DEF Paired

LEMMA SerialInv == ASSUME IInv, Serial PROVE IInv'
<1> USE DEF IInv, TypeOK, JobState, Recorded, dmaVars, hostVars, observers
<1>1. ASSUME toFw # <<>>
      PROVE  Head(toFw) \in Token /\ Head(toFw) = toFw[1]
  BY <1>1
<1>2. CASE NoCommand
  <2>1. Paired'
    BY <1>2 DEF Paired, NoCommand
  <2> QED  BY <1>2, <2>1 DEF Serial, NoCommand
<1>3. CASE toFw # <<>> /\ AcceptJob
  <2>1. Head(toFw).op = "START_JOB" /\ dstate = "IDLE"
    BY <1>3 DEF AcceptJob, Accepts
  <2>2. Len(toFw) >= 2
    BY <1>1, <1>3, <2>1 DEF Paired
  <2>3. toFw' \in Seq(Token) /\ Paired'
    BY <1>3, <2>2, TailTailPaired DEF AcceptJob
  <2>4. job' \in -1 .. Calls - 1
    BY <1>1, <1>3, CallsAssumption DEF AcceptJob, Token
  <2>5. do_emit_chirp' \in BOOLEAN /\ emit_start_intflag' \in BOOLEAN
    BY <1>3 DEF AcceptJob
  <2> QED  BY <1>3, <2>3, <2>4, <2>5 DEF Serial, AcceptJob
<1>4. CASE toFw # <<>> /\ GetChirp
  <2>1. Len(toFw) >= 2
    BY <1>1, <1>4 DEF Paired, GetChirp
  <2>2. toFw' \in Seq(Token) /\ Paired'
    BY <1>4, <2>1, TailTailPaired DEF GetChirp
  <2>3. chirp' \in -1 .. Calls - 1
    <3>1. toFw[2] \in Token
      BY <2>1
    <3> QED  BY <1>4, <3>1, CallsAssumption DEF GetChirp, Token
  <2>4. emission' \in Emission
    <3>1. [emission EXCEPT !.kind = "torn"] \in Emission
      BY DEF Emission
    <3> QED  BY <1>4, <3>1 DEF GetChirp
  <2> QED  BY <1>4, <2>2, <2>3, <2>4 DEF Serial, GetChirp
<1>5. CASE toFw # <<>> /\ IgnoreByte
  <2>1. toFw' \in Seq(Token) /\ Paired'
    BY <1>5, TailPaired DEF IgnoreByte
  <2> QED  BY <1>5, <2>1 DEF Serial, IgnoreByte
<1> QED  BY <1>2, <1>3, <1>4, <1>5 DEF Serial

LEMMA InterruptsInv == ASSUME IInv, Interrupts PROVE IInv'
<1> USE DEF IInv, TypeOK, JobState, Recorded, flags, hostVars, wires, observers
<1>1. CASE \E c \in ADC : AdcHandler(c)
  <2>1. PICK c \in ADC : AdcHandler(c)
    BY <1>1
  <2>2. Paired'
    BY <2>1 DEF Paired, AdcHandler
  <2> QED  BY <2>1, <2>2 DEF AdcHandler
<1>2. CASE DMAC_2_Handler
  <2>1. Paired'
    BY <1>2 DEF Paired, DMAC_2_Handler
  <2> QED  BY <1>2, <2>1 DEF DMAC_2_Handler
<1>3. CASE TCC2_0_Handler
  <2>1. Paired'
    BY <1>3 DEF Paired, TCC2_0_Handler
  <2> QED  BY <1>3, <2>1 DEF TCC2_0_Handler
<1> QED  BY <1>1, <1>2, <1>3 DEF Interrupts

(* A command whose last token takes no other, written behind the ones that *)
(* are on their way.                                                       *)
LEMMA CommandPaired ==
    ASSUME NEW cmd \in Seq(Token), Len(cmd) > 0,
           \A k \in 1 .. Len(cmd) :
               cmd[k].op \in {"START_JOB", "GET_CHIRP"} => k < Len(cmd),
           toFw \in Seq(Token), Paired, toFw' = toFw \o cmd
    PROVE  toFw' \in Seq(Token) /\ Paired'
<1>1. toFw' \in Seq(Token) /\ Len(toFw') = Len(toFw) + Len(cmd)
  OBVIOUS
<1>2. ASSUME NEW k \in 1 .. Len(toFw'),
             toFw'[k].op \in {"START_JOB", "GET_CHIRP"}
      PROVE  k < Len(toFw')
  <2>1. CASE k <= Len(toFw)
    BY <1>1, <2>1
  <2>2. CASE k > Len(toFw)
    <3>1. k - Len(toFw) \in 1 .. Len(cmd) /\ toFw'[k] = cmd[k - Len(toFw)]
      BY <1>1, <2>2
    <3> QED  BY <1>1, <1>2, <3>1
  <2> QED  BY <2>1, <2>2
<1> QED  BY <1>1, <1>2 DEF Paired

LEMMA HostInv == ASSUME IInv, Host PROVE IInv'
<1> USE DEF IInv, TypeOK, JobState, Recorded, fwVars, flags, dmaVars, observers
<1>0. NextCall \in 0 .. Calls - 1
  BY NextCallType
<1>1. CASE Open
  <2> DEFINE ops == <<"AMP_START", "GET_CHIRP", "samples", "START_JOB",
                      "DONT_CHIRP">>
             cmd == Command(ops)
  <2>1. /\ cmd \in Seq(Token) /\ Len(cmd) = 5
        /\ \A k \in 1 .. 5 : cmd[k].op = ops[k]
    <3>1. cmd = [k \in 1 .. 5 |-> [op |-> ops[k], call |-> NextCall]]
      BY DEF Command
    <3>2. \A k \in 1 .. 5 : [op |-> ops[k], call |-> NextCall] \in Token
      BY <1>0 DEF Token
    <3> HIDE DEF ops
    <3> QED  BY <3>1, <3>2
  <2>2. toFw' = toFw \o cmd
    <3> HIDE DEF cmd
    <3>1. toFw = <<>> /\ toFw' = cmd
      BY <1>1 DEF Open, cmd
    <3> QED  BY <2>1, <3>1
  <2>3. \A k \in 1 .. Len(cmd) :
            cmd[k].op \in {"START_JOB", "GET_CHIRP"} => k < Len(cmd)
    <3> HIDE DEF cmd
    <3> QED  BY <2>1
  <2>4. toFw' \in Seq(Token) /\ Paired'
    <3> HIDE DEF cmd
    <3>2. cmd \in Seq(Token) /\ Len(cmd) > 0
      BY <2>1
    <3>3. toFw \in Seq(Token) /\ Paired
      OBVIOUS
    <3> QED  BY ONLY <2>2, <2>3, <3>2, <3>3, CommandPaired
  <2>5. /\ call' = NextCall /\ mine' = NextCall
        /\ hpc' = "flush" /\ got' = <<>> /\ toHost' = <<>>
    BY <1>1 DEF Open
  <2>6. UNCHANGED <<fwVars, observers>> /\ quick' \in BOOLEAN
    BY <1>1 DEF Open
  <2> HIDE DEF cmd
  <2> QED  BY <1>0, <2>4, <2>5, <2>6
<1>2. CASE next
  <2> DEFINE ops == <<"START_JOB", "DO_CHIRP">>
             cmd == Command(ops)
  <2>1. /\ cmd \in Seq(Token) /\ Len(cmd) = 2
        /\ \A k \in 1 .. 2 : cmd[k].op = ops[k]
    <3>1. cmd = [k \in 1 .. 2 |-> [op |-> ops[k], call |-> NextCall]]
      BY DEF Command
    <3>2. \A k \in 1 .. 2 : [op |-> ops[k], call |-> NextCall] \in Token
      BY <1>0 DEF Token
    <3> HIDE DEF ops
    <3> QED  BY <3>1, <3>2
  <2>2. \A k \in 1 .. Len(cmd) :
            cmd[k].op \in {"START_JOB", "GET_CHIRP"} => k < Len(cmd)
    <3> HIDE DEF cmd
    <3> QED  BY <2>1
  <2>3. toFw' \in Seq(Token) /\ Paired'
    <3>1. toFw' = toFw \o cmd
      BY <1>2 DEF next
    <3> HIDE DEF cmd
    <3>2. cmd \in Seq(Token) /\ Len(cmd) > 0
      BY <2>1
    <3>3. toFw \in Seq(Token) /\ Paired
      OBVIOUS
    <3> QED  BY ONLY <2>2, <3>1, <3>2, <3>3, CommandPaired
  <2>4. /\ call' = NextCall /\ hpc' = "reading" /\ got' = <<>>
        /\ UNCHANGED <<toHost, mine, quick, fwVars, observers>>
    BY <1>2 DEF next
  <2> HIDE DEF cmd
  <2> QED  BY <1>0, <2>3, <2>4
<1>3. CASE Read
  <2>1. toHost' \in Seq(Chunk) /\ Head(toHost) \in Chunk
    BY <1>3 DEF Read
  <2>2. got' \in Seq(Chunk)
    <3>1. Append(got, Head(toHost)) \in Seq(Chunk)
      BY <2>1
    <3>2. got' \in {<<>>, Append(got, Head(toHost))}
      BY <1>3 DEF Read
    <3>3. <<>> \in Seq(Chunk)
      OBVIOUS
    <3> QED  BY ONLY <3>1, <3>2, <3>3
  <2>3. hpc' \in {"flush", "ready", "reading"}
    BY <1>3 DEF Read
  <2>4. Paired'
    BY <1>3 DEF Read, Paired
  <2> QED  BY <1>3, <2>1, <2>2, <2>3, <2>4 DEF Read
<1>4. CASE Close
  <2> DEFINE ops == <<"AMP_STOP">>
             cmd == Command(ops)
  <2>1. /\ cmd \in Seq(Token) /\ Len(cmd) = 1
        /\ cmd[1].op = "AMP_STOP"
    <3>1. cmd = [k \in 1 .. 1 |-> [op |-> ops[k], call |-> NextCall]]
      BY DEF Command
    <3>2. \A k \in 1 .. 1 : [op |-> ops[k], call |-> NextCall] \in Token
      BY <1>0 DEF Token
    <3>3. ops[1] = "AMP_STOP"
      OBVIOUS
    <3> HIDE DEF ops
    <3> QED  BY <3>1, <3>2, <3>3
  <2>2. \A k \in 1 .. Len(cmd) :
            cmd[k].op \in {"START_JOB", "GET_CHIRP"} => k < Len(cmd)
    <3> HIDE DEF cmd
    <3> QED  BY <2>1
  <2>3. toFw' \in Seq(Token) /\ Paired'
    <3>1. toFw' = toFw \o cmd
      BY <1>4 DEF Close
    <3> HIDE DEF cmd
    <3>2. cmd \in Seq(Token) /\ Len(cmd) > 0
      BY <2>1
    <3>3. toFw \in Seq(Token) /\ Paired
      OBVIOUS
    <3> QED  BY ONLY <2>2, <3>1, <3>2, <3>3, CommandPaired
  <2>4. /\ hpc' = "closed" /\ got' = <<>> /\ toHost' = <<>>
        /\ UNCHANGED <<call, mine, quick, fwVars, observers>>
    BY <1>4 DEF Close
  <2> HIDE DEF cmd
  <2> QED  BY <2>3, <2>4
<1>5. CASE Kill
  <2>1. Paired'
    BY <1>5 DEF Kill, Paired
  <2> QED  BY <1>5, <2>1 DEF Kill
<1> QED  BY <1>1, <1>2, <1>3, <1>4, <1>5 DEF Host

LEMMA StutterInv == ASSUME IInv, UNCHANGED vars PROVE IInv'
BY DEF IInv, TypeOK, Paired, JobState, Recorded, vars, flags, dmaVars,
       hostVars, wires, observers

(* The inductive invariant: every reachable state has it.                  *)
LEMMA IInvAlways == Spec => []IInv
<1>1. IInv /\ [Next]_vars => IInv'
  <2> SUFFICES ASSUME IInv, [Next]_vars PROVE IInv'
    OBVIOUS
  <2>1. CASE Switch
    BY <2>1, SwitchInv
  <2>2. CASE SendChunk
    BY <2>2, SendChunkInv
  <2>3. CASE Serial
    BY <2>3, SerialInv
  <2>4. CASE Interrupts
    BY <2>4, InterruptsInv
  <2>5. CASE Host
    BY <2>5, HostInv
  <2>6. CASE UNCHANGED vars
    BY <2>6, StutterInv
  <2> QED  BY <2>1, <2>2, <2>3, <2>4, <2>5, <2>6 DEF Next, Loop
<1> QED  BY InitInv, <1>1, PTL DEF Spec

(* Every variable of firmware, hardware and host keeps its type.           *)
THEOREM TypeCorrect == Spec => []TypeOK
<1>1. IInv => TypeOK
  BY DEF IInv
<1> QED  BY <1>1, IInvAlways, PTL

(* The buffers are at rest whenever the loop sends them: the two ADC flags *)
(* are set exactly once a job, by channels that then stay suspended, and   *)
(* no step back to IDLE leaves a flag or a channel behind for the next job.*)
THEOREM SentBuffersAreStillAlways == Spec => []SentBuffersAreStill
<1>1. IInv => SentBuffersAreStill
  BY DEF IInv, JobState, SentBuffersAreStill
<1> QED  BY <1>1, IInvAlways, PTL
-----------------------------------------------------------------------------
(* What is under way between a host that waited its turn and the firmware: *)
(* a job that is asked for, worked on or finished, or nothing.  The chunks *)
(* received and the chunks on the way are together what was sent of it.    *)

(* No channel has anything left of what it recorded at boot. *)
Flushed == early \cap ADC = {}

(* The j-th chunk of the present call's recording. *)
Own(chunk, j) ==
    /\ chunk.job = call /\ chunk.clean = TRUE
    /\ chunk.ch = (j - 1) \div Chunks /\ chunk.i = ((j - 1) % Chunks) + 1
    /\ chunk.heard.kind \in {"whole", "cut"} /\ chunk.heard.chirp = mine
OwnGot == \A j \in 1 .. Len(got) : Own(got[j], j)
OwnToHost == \A k \in 1 .. Len(toHost) : Own(toHost[k], Len(got) + k)

(* The last two tokens on their way, behind d others, ask for a job. *)
Asks(d) == /\ Len(toFw) = d + 2
           /\ toFw[d + 1].op = "START_JOB" /\ toFw[d + 1].call = call
Loads(d) == toFw[d].op = "GET_CHIRP" /\ toFw[d + 1].call = mine
Asked ==
    /\ Quiet /\ toHost = <<>> /\ got = <<>>
    /\ \/ hpc = "flush" /\ Asks(3) /\ toFw[1].op = "AMP_START" /\ Loads(2)
       \/ hpc = "flush" /\ Asks(2) /\ Loads(1)
       \/ hpc = "flush" /\ Asks(0) /\ chirp = mine
       \/ /\ hpc = "reading" /\ Asks(0) /\ chirp = mine
          /\ toFw[2].op = "DO_CHIRP" /\ Flushed
Working ==
    /\ hpc \in {"flush", "reading"} /\ toFw = <<>> /\ chirp = mine
    /\ ~Quiet /\ job = call
    /\ Len(got) + Len(toHost) = IF pc = "send" THEN sent ELSE 0
    /\ hpc = "reading" =>
          /\ Flushed /\ OwnGot /\ OwnToHost
          /\ dstate = "IDLE" => do_emit_chirp = TRUE
          /\ dstate # "IDLE" => /\ clean = ADC
                                /\ emission.kind \in {"whole", "cut"}
                                /\ emission.chirp = mine
Finished ==
    /\ hpc \in {"flush", "reading"} /\ toFw = <<>> /\ chirp = mine
    /\ Quiet /\ Flushed
    /\ Len(got) + Len(toHost) = 2 * Chunks
    /\ hpc = "reading" => OwnGot /\ OwnToHost
AtRest ==
    /\ hpc = "ready" /\ toFw = <<>> /\ toHost = <<>> /\ chirp = mine
    /\ Quiet /\ Flushed /\ OwnGot
Session == hpc # "closed" /\ ~quick => Asked \/ Working \/ Finished \/ AtRest

(* A job records its channels anew, and is asked for once. *)
OneJob == dstate # "IDLE" => ~emit_start_intflag /\ early \cap ADC \subseteq running

LEMMA OneJobStep == ASSUME IInv, OneJob, [Next]_vars PROVE OneJob'
<1> USE DEF IInv, TypeOK, JobState, OneJob
<1>1. CASE Switch
  BY <1>1 DEF Switch, StartJob, EmitOver, WaitOver, StartSending, NothingToDo,
              flags, dmaVars
<1>2. CASE SendChunk
  BY <1>2 DEF SendChunk, flags, dmaVars
<1>3. CASE Serial
  BY <1>3 DEF Serial, NoCommand, AcceptJob, Accepts, GetChirp, IgnoreByte, dmaVars
<1>4. CASE Interrupts
  BY <1>4 DEF Interrupts, AdcHandler, DMAC_2_Handler, TCC2_0_Handler
<1>5. CASE Host
  BY <1>5 DEF Host, Open, next, Read, Close, Kill, fwVars, flags, dmaVars
<1>6. CASE UNCHANGED vars
  BY <1>6 DEF vars, flags, dmaVars
<1> QED  BY <1>1, <1>2, <1>3, <1>4, <1>5, <1>6 DEF Next, Loop

(* The steps that leave wires and host alone keep what they say. *)
LEMMA SameOwn == ASSUME UNCHANGED <<toHost, got, call, mine>>
                 PROVE  (OwnGot' <=> OwnGot) /\ (OwnToHost' <=> OwnToHost)
BY DEF OwnGot, OwnToHost, Own
LEMMA SameAsks == ASSUME UNCHANGED <<toFw, call, mine>>
                  PROVE  \A d : (Asks(d)' <=> Asks(d)) /\ (Loads(d)' <=> Loads(d))
BY DEF Asks, Loads

LEMMA SwitchSession == ASSUME IInv, OneJob, Session, Switch PROVE Session'
<1> SUFFICES ASSUME hpc # "closed", ~quick
             PROVE  (Asked \/ Working \/ Finished \/ AtRest)'
  BY DEF Session, Switch, hostVars
<1>1. UNCHANGED <<toFw, toHost, hpc, got, call, mine, chirp, do_emit_chirp, job>>
      /\ pc = "switch" /\ pc' \in {"serial", "send"}
  BY DEF Switch, wires, hostVars, StartJob, EmitOver, WaitOver, StartSending,
         NothingToDo, observers
<1>2. (OwnGot' <=> OwnGot) /\ (OwnToHost' <=> OwnToHost)
  BY <1>1, SameOwn
<1>3. Asked \/ Working \/ Finished \/ AtRest
  BY DEF Session
<1>4. CASE StartJob
  <2>1. ~Quiet /\ dstate = "IDLE"
    BY <1>4 DEF StartJob, Quiet
  <2>2. Working
    BY <1>3, <2>1 DEF Asked, Finished, AtRest
  <2>3. dstate' = "EMIT" /\ pc' = "serial" /\ early' = early
    BY <1>4 DEF StartJob
  <2>4. hpc = "reading" => /\ clean' = ADC
                           /\ emission'.kind \in {"whole", "cut"}
                           /\ emission'.chirp = mine
    <3> SUFFICES ASSUME hpc = "reading" PROVE /\ clean' = ADC
                           /\ emission'.kind \in {"whole", "cut"}
                           /\ emission'.chirp = mine
      OBVIOUS
    <3>1. Flushed /\ do_emit_chirp = TRUE /\ chirp = mine
      BY <2>1, <2>2 DEF Working
    <3>2. clean' = ADC
      BY <1>4, <3>1 DEF StartJob, Flushed
    <3>3. emission' = [kind |-> IF DAC \in early THEN "cut" ELSE "whole",
                       chirp |-> mine]
      BY <1>4, <3>1 DEF StartJob
    <3> QED  BY <3>2, <3>3
  <2> QED  BY <1>1, <1>2, <2>2, <2>3, <2>4 DEF Working, Quiet, Flushed
<1>5. CASE EmitOver \/ WaitOver \/ StartSending
  <2>1. /\ dstate # "IDLE" /\ dstate' # "IDLE"
        /\ UNCHANGED <<early, clean, emission>>
        /\ pc' = "send" => sent' = 0
    BY <1>5 DEF EmitOver, WaitOver, StartSending, dmaVars, observers
  <2>2. Working
    BY <1>3, <2>1 DEF Asked, Finished, AtRest, Quiet
  <2>3. Len(got) + Len(toHost) = 0
    BY <1>1, <2>2 DEF Working
  <2>4. Len(got') + Len(toHost') = IF pc' = "send" THEN sent' ELSE 0
    BY <1>1, <2>1, <2>3
  <2> QED  BY <1>1, <1>2, <2>1, <2>2, <2>4 DEF Working, Quiet, Flushed
<1>6. CASE NothingToDo
  <2>1. /\ pc' = "serial"
        /\ UNCHANGED <<dstate, emit_start_intflag, early, clean, emission>>
    BY <1>6 DEF NothingToDo, flags, dmaVars, observers
  <2>2. Quiet' <=> Quiet
    BY <1>1, <2>1 DEF Quiet
  <2>3. Flushed' <=> Flushed
    BY <2>1 DEF Flushed
  <2>4. \A d : (Asks(d)' <=> Asks(d)) /\ (Loads(d)' <=> Loads(d))
    BY <1>1, SameAsks
  <2>5. Asked => Asked'
    BY <1>1, <2>2, <2>3, <2>4 DEF Asked
  <2>6. Working => Working'
    BY <1>1, <1>2, <2>1, <2>2, <2>3 DEF Working
  <2>7. Finished => Finished'
    BY <1>1, <1>2, <2>2, <2>3 DEF Finished
  <2>8. AtRest => AtRest'
    BY <1>1, <1>2, <2>2, <2>3 DEF AtRest
  <2> QED  BY <1>3, <2>5, <2>6, <2>7, <2>8
<1> QED  BY <1>4, <1>5, <1>6 DEF Switch

(* The chunk that is sent is the next one of the call's recording.         *)
LEMMA NextIsOwn ==
    ASSUME TypeOK, running = {}, job = call, clean = ADC, sent < 2 * Chunks,
           emission.kind \in {"whole", "cut"}, emission.chirp = mine
    PROVE  Own(NextChunk, sent + 1)
<1>1. sent \in Nat /\ sent + 1 - 1 = sent
  BY ChunksAssumption DEF TypeOK
<1>2. sent \div Chunks \in ADC
  BY ChunksAssumption, SMT DEF TypeOK
<1>3. (sent \div Chunks \in clean \ running) = TRUE
  BY <1>2
<1>4. NextChunk = [job |-> job, ch |-> sent \div Chunks, i |-> (sent % Chunks) + 1,
                   clean |-> TRUE, heard |-> emission]
  BY <1>3 DEF NextChunk
<1> QED  BY <1>1, <1>4 DEF Own

LEMMA SendChunkSession == ASSUME IInv, OneJob, Session, SendChunk PROVE Session'
<1> SUFFICES ASSUME hpc # "closed", ~quick
             PROVE  (Asked \/ Working \/ Finished \/ AtRest)'
  BY DEF Session, SendChunk, hostVars
<1>1. /\ UNCHANGED <<toFw, hpc, got, call, mine, chirp, do_emit_chirp, job, early,
                     running, clean, emission, emit_start_intflag>>
      /\ pc = "send" /\ sent' = sent + 1 /\ toHost' = Append(toHost, NextChunk)
  BY DEF SendChunk, flags, dmaVars, hostVars, observers
<1>2. /\ dstate = "LISTEN" /\ sent < 2 * Chunks /\ running = {}
      /\ ~emit_start_intflag /\ Flushed
  BY <1>1 DEF IInv, JobState, OneJob, Flushed
<1>3. Working
  BY <1>1 DEF Session, Asked, Finished, AtRest, Quiet
<1>4. /\ sent \in Nat /\ got \in Seq(Chunk) /\ toHost \in Seq(Chunk)
      /\ NextChunk \in Chunk
  BY <1>2, NextChunkType, ChunksAssumption DEF IInv, TypeOK
<1>5. Len(toHost') = Len(toHost) + 1 /\ Len(got) + Len(toHost) = sent
  BY <1>1, <1>3, <1>4 DEF Working
<1>6. Flushed'
  BY <1>1, <1>2 DEF Flushed
<1>7. hpc = "reading" => OwnGot' /\ OwnToHost'
  <2> SUFFICES ASSUME hpc = "reading" PROVE OwnGot' /\ OwnToHost'
    OBVIOUS
  <2>1. OwnGot /\ OwnToHost /\ clean = ADC
        /\ emission.kind \in {"whole", "cut"} /\ emission.chirp = mine /\ job = call
    BY <1>2, <1>3 DEF Working
  <2>2. Own(NextChunk, Len(got) + Len(toHost'))
    <3>1. Own(NextChunk, sent + 1)
      BY <1>2, <2>1, NextIsOwn DEF IInv
    <3>2. Len(got) + Len(toHost') = sent + 1
      BY <1>4, <1>5
    <3> QED  BY <3>1, <3>2
  <2>4. OwnGot'
    BY <1>1, <2>1 DEF OwnGot, Own
  <2>5. ASSUME NEW k \in 1 .. Len(toHost') PROVE Own(toHost'[k], Len(got) + k)
    <3>1. CASE k = Len(toHost')
      <4>1. toHost'[k] = NextChunk
        BY <1>1, <1>4, <1>5, <3>1
      <4> QED  BY <2>2, <3>1, <4>1
    <3>2. CASE k # Len(toHost')
      <4>1. k \in 1 .. Len(toHost) /\ toHost'[k] = toHost[k]
        BY <1>1, <1>4, <1>5, <3>2
      <4> QED  BY <2>1, <4>1 DEF OwnToHost
    <3> QED  BY <3>1, <3>2
  <2>6. OwnToHost'
    BY <1>1, <2>5 DEF OwnToHost, Own
  <2> QED  BY <2>4, <2>6
<1>8. CASE sent' = 2 * Chunks
  <2>1. pc' = "serial" /\ dstate' = "IDLE"
    BY <1>8 DEF SendChunk
  <2>2. Len(got') + Len(toHost') = 2 * Chunks
    BY <1>1, <1>4, <1>5, <1>8
  <2>3. Finished'
    BY <1>1, <1>2, <1>3, <1>6, <1>7, <2>1, <2>2 DEF Finished, Working, Quiet
  <2> QED  BY <2>3
<1>9. CASE sent' # 2 * Chunks
  <2>1. pc' = "send" /\ dstate' = dstate
    BY <1>1, <1>9 DEF SendChunk
  <2>2. Len(got') + Len(toHost') = sent'
    BY <1>1, <1>4, <1>5
  <2>3. Working'
    BY <1>1, <1>2, <1>3, <1>6, <1>7, <2>1, <2>2 DEF Working, Quiet
  <2> QED  BY <2>3
<1> QED  BY <1>8, <1>9

LEMMA TailIs == ASSUME NEW S, NEW s \in Seq(S), s # <<>>
                PROVE  /\ Tail(s) \in Seq(S) /\ Len(Tail(s)) = Len(s) - 1
                       /\ \A k \in 1 .. Len(s) - 1 : Tail(s)[k] = s[k + 1]
OBVIOUS
LEMMA TailTailIs == ASSUME NEW S, NEW s \in Seq(S), Len(s) >= 2
                    PROVE  /\ Tail(Tail(s)) \in Seq(S)
                           /\ Len(Tail(Tail(s))) = Len(s) - 2
                           /\ \A k \in 1 .. Len(s) - 2 :
                                  Tail(Tail(s))[k] = s[k + 2]
<1>1. /\ Tail(s) \in Seq(S) /\ Len(Tail(s)) = Len(s) - 1
      /\ \A k \in 1 .. Len(s) - 1 : Tail(s)[k] = s[k + 1]
  BY TailIs
<1>2. Tail(s) # <<>>
  <2>1. Len(Tail(s)) # 0
    BY <1>1
  <2>2. Len(<<>>) = 0
    OBVIOUS
  <2> QED  BY <2>1, <2>2, Zenon
<1>3. /\ Tail(Tail(s)) \in Seq(S) /\ Len(Tail(Tail(s))) = Len(s) - 2
      /\ \A k \in 1 .. Len(s) - 2 : Tail(Tail(s))[k] = Tail(s)[k + 1]
  <2> DEFINE t == Tail(s)
  <2>1. t \in Seq(S) /\ t # <<>> /\ Len(t) = Len(s) - 1
    BY <1>1, <1>2
  <2> HIDE DEF t
  <2>2. /\ Tail(t) \in Seq(S) /\ Len(Tail(t)) = Len(t) - 1
        /\ \A k \in 1 .. Len(t) - 1 : Tail(t)[k] = t[k + 1]
    BY <2>1, TailIs
  <2>3. Len(s) - 2 = Len(t) - 1
    BY <2>1
  <2> QED  BY <2>2, <2>3 DEF t
<1>4. ASSUME NEW k \in 1 .. Len(s) - 2 PROVE Tail(Tail(s))[k] = s[k + 2]
  BY <1>1, <1>3
<1> QED  BY <1>3, <1>4

LEMMA SerialSession == ASSUME IInv, Session, Serial PROVE Session'
<1> SUFFICES ASSUME hpc # "closed", ~quick
             PROVE  (Asked \/ Working \/ Finished \/ AtRest)'
  BY DEF Session, Serial, hostVars
<1>1. /\ UNCHANGED <<toHost, hpc, got, call, mine, dstate, early>>
      /\ pc = "serial" /\ pc' = "switch"
  BY DEF Serial, dmaVars, hostVars
<1>2. (OwnGot' <=> OwnGot) /\ (OwnToHost' <=> OwnToHost)
  BY <1>1, SameOwn
<1>3. Asked \/ Working \/ Finished \/ AtRest
  BY DEF Session
<1>4. toFw \in Seq(Token) /\ Len(toFw) \in Nat
  BY DEF IInv, TypeOK
<1>5. toFw # <<>> => Asked
  BY <1>3 DEF Working, Finished, AtRest
<1>6. CASE NoCommand
  <2>1. /\ toFw = <<>> /\ toFw' = <<>>
        /\ UNCHANGED <<do_emit_chirp, emit_start_intflag, chirp, job, clean, emission>>
    BY <1>6 DEF NoCommand, observers
  <2>2. ~Asked
    BY <2>1 DEF Asked, Asks
  <2>3. (Quiet' <=> Quiet) /\ (Flushed' <=> Flushed)
    BY <1>1, <2>1 DEF Quiet, Flushed
  <2>4. Working => Working'
    BY <1>1, <1>2, <2>1, <2>3 DEF Working
  <2>5. Finished => Finished'
    BY <1>1, <1>2, <2>1, <2>3 DEF Finished
  <2>6. AtRest => AtRest'
    BY <1>1, <1>2, <2>1, <2>3 DEF AtRest
  <2> QED  BY <1>3, <2>2, <2>4, <2>5, <2>6
<1>7. CASE toFw # <<>> /\ AcceptJob
  <2>1. Accepts(toFw[1])
    BY <1>4, <1>7 DEF AcceptJob
  <2>2. /\ Asked /\ Asks(0) /\ chirp = mine
        /\ hpc = "reading" => toFw[2].op = "DO_CHIRP" /\ Flushed
    BY <1>5, <1>7, <2>1 DEF Asked, Accepts, Loads
  <2>3. Len(toFw) = 2 /\ toFw[1].call = call
    BY <2>2 DEF Asks
  <2>4. toFw' = <<>>
    <3>1. toFw' = Tail(Tail(toFw))
      BY <1>7 DEF AcceptJob
    <3>2. Len(toFw') = 0 /\ toFw' \in Seq(Token)
      BY <1>4, <2>3, <3>1, TailTailIs
    <3> QED  BY <3>2
  <2>8. emit_start_intflag' = TRUE /\ job' = call /\ chirp' = mine
    BY <1>4, <1>7, <2>2, <2>3 DEF AcceptJob
  <2>5. hpc = "reading" => do_emit_chirp' = TRUE /\ Flushed'
    BY <1>1, <1>7, <2>2 DEF AcceptJob, Flushed
  <2>6. dstate' = "IDLE" /\ toHost' = <<>> /\ got' = <<>> /\ hpc \in {"flush", "reading"}
    BY <1>1, <2>2 DEF Asked, Quiet
  <2>7. OwnGot' /\ OwnToHost'
    BY <2>6 DEF OwnGot, OwnToHost
  <2> QED  BY <1>1, <2>4, <2>5, <2>6, <2>7, <2>8 DEF Working, Quiet
<1>8. CASE toFw # <<>> /\ GetChirp
  <2>1. /\ toFw[1].op = "GET_CHIRP" /\ chirp' = toFw[2].call
        /\ toFw' = Tail(Tail(toFw)) /\ emit_start_intflag' = emit_start_intflag
    BY <1>4, <1>8 DEF GetChirp
  <2>2. Asked /\ hpc = "flush" /\ Asks(2) /\ Loads(1)
    BY <1>5, <1>8, <2>1 DEF Asked, Asks
  <2>3. /\ Len(toFw) = 4 /\ toFw[3].op = "START_JOB" /\ toFw[3].call = call
        /\ toFw[2].call = mine
    BY <2>2 DEF Asks, Loads
  <2>4. Len(toFw') = 2 /\ toFw'[1] = toFw[3]
    <3>1. /\ Len(toFw') = Len(toFw) - 2
          /\ \A k \in 1 .. Len(toFw) - 2 : toFw'[k] = toFw[k + 2]
      <4>1. toFw \in Seq(Token) /\ Len(toFw) >= 2
        BY <1>4, <2>3
      <4>2. /\ Len(Tail(Tail(toFw))) = Len(toFw) - 2
            /\ \A k \in 1 .. Len(toFw) - 2 : Tail(Tail(toFw))[k] = toFw[k + 2]
        BY <4>1, TailTailIs, Zenon
      <4> QED  BY <2>1, <4>2, Zenon
    <3>2. Len(toFw) - 2 = 2 /\ 1 \in 1 .. 2 /\ 1 + 2 = 3
      BY <2>3
    <3> QED  BY <3>1, <3>2
  <2>5. Quiet' /\ toHost' = <<>> /\ got' = <<>>
    BY <1>1, <2>1, <2>2 DEF Asked, Quiet
  <2>6. Asks(0)'
    BY <1>1, <2>3, <2>4 DEF Asks
  <2> QED  BY <1>1, <2>1, <2>2, <2>3, <2>5, <2>6 DEF Asked
<1>9. CASE toFw # <<>> /\ IgnoreByte
  <2>1. /\ toFw[1].op # "GET_CHIRP" /\ ~Accepts(toFw[1]) /\ toFw' = Tail(toFw)
        /\ UNCHANGED <<emit_start_intflag, chirp>>
    BY <1>4, <1>9 DEF IgnoreByte
  <2>2. Asked /\ hpc = "flush" /\ Asks(3) /\ Loads(2)
    BY <1>5, <1>9, <2>1 DEF Asked, Asks, Loads, Accepts, Quiet
  <2>3. /\ Len(toFw) = 5 /\ toFw[4].op = "START_JOB" /\ toFw[4].call = call
        /\ toFw[2].op = "GET_CHIRP" /\ toFw[3].call = mine
    BY <2>2 DEF Asks, Loads
  <2>4. /\ Len(toFw') = 4 /\ toFw'[1] = toFw[2] /\ toFw'[2] = toFw[3]
        /\ toFw'[3] = toFw[4]
    <3>1. /\ Len(toFw') = Len(toFw) - 1
          /\ \A k \in 1 .. Len(toFw) - 1 : toFw'[k] = toFw[k + 1]
      BY <1>4, <1>9, <2>1, TailIs
    <3>2. /\ Len(toFw) - 1 = 4 /\ 1 \in 1 .. 4 /\ 2 \in 1 .. 4 /\ 3 \in 1 .. 4
          /\ 1 + 1 = 2 /\ 2 + 1 = 3 /\ 3 + 1 = 4
      BY <2>3
    <3>3. toFw'[1] = toFw[1 + 1] /\ toFw'[2] = toFw[2 + 1] /\ toFw'[3] = toFw[3 + 1]
      BY <3>1, <3>2
    <3> QED  BY <3>1, <3>2, <3>3
  <2>5. Quiet' /\ toHost' = <<>> /\ got' = <<>>
    BY <1>1, <2>1, <2>2 DEF Asked, Quiet
  <2>6. Asks(2)' /\ Loads(1)'
    BY <1>1, <2>3, <2>4 DEF Asks, Loads
  <2> QED  BY <1>1, <2>2, <2>5, <2>6 DEF Asked
<1> QED  BY <1>6, <1>7, <1>8, <1>9 DEF Serial

LEMMA InterruptsSession == ASSUME IInv, OneJob, Session, Interrupts PROVE Session'
<1> SUFFICES ASSUME hpc # "closed", ~quick
             PROVE  (Asked \/ Working \/ Finished \/ AtRest)'
  BY DEF Session, Interrupts, AdcHandler, DMAC_2_Handler, TCC2_0_Handler, hostVars
<1>1. /\ UNCHANGED <<toFw, toHost, hpc, got, call, mine, dstate, pc, sent, chirp,
                     do_emit_chirp, emit_start_intflag, job, clean, emission>>
      /\ early' \subseteq early
  BY DEF Interrupts, AdcHandler, DMAC_2_Handler, TCC2_0_Handler, wires, hostVars,
         observers
<1>2. /\ (OwnGot' <=> OwnGot) /\ (OwnToHost' <=> OwnToHost) /\ (Quiet' <=> Quiet)
      /\ Flushed => Flushed'
  BY <1>1, SameOwn DEF Quiet, Flushed
<1>3. \A d : (Asks(d)' <=> Asks(d)) /\ (Loads(d)' <=> Loads(d))
  BY <1>1, SameAsks
<1>4. Asked => Asked'
  BY <1>1, <1>2, <1>3 DEF Asked
<1>5. Working => Working'
  BY <1>1, <1>2 DEF Working
<1>6. Finished => Finished'
  BY <1>1, <1>2 DEF Finished
<1>7. AtRest => AtRest'
  BY <1>1, <1>2 DEF AtRest
<1> QED  BY <1>4, <1>5, <1>6, <1>7 DEF Session

(* A chunk that is received stays the same one of the recording.           *)
LEMMA ReadOwn == ASSUME toHost \in Seq(Chunk), got \in Seq(Chunk), toHost # <<>>,
                        OwnGot, OwnToHost, UNCHANGED <<call, mine>>,
                        toHost' = Tail(toHost), got' = Append(got, Head(toHost))
                 PROVE  OwnGot' /\ OwnToHost'
<1>1. /\ Len(toHost) >= 1 /\ Len(toHost') = Len(toHost) - 1
      /\ \A k \in 1 .. Len(toHost) - 1 : toHost'[k] = toHost[k + 1]
  BY TailIs
<1>2. Len(got) \in Nat /\ Len(toHost) \in Nat /\ Len(got') = Len(got) + 1
  OBVIOUS
<1>3. ASSUME NEW j \in 1 .. Len(got') PROVE Own(got'[j], j)
  <2>1. CASE j = Len(got) + 1
    <3>1. got'[j] = toHost[1] /\ Own(toHost[1], Len(got) + 1)
      BY <1>1, <1>2, <2>1 DEF OwnToHost
    <3> QED  BY <2>1, <3>1
  <2>2. CASE j # Len(got) + 1
    <3>1. j \in 1 .. Len(got) /\ got'[j] = got[j]
      BY <1>2, <2>2
    <3> QED  BY <3>1 DEF OwnGot
  <2> QED  BY <2>1, <2>2
<1>4. ASSUME NEW k \in 1 .. Len(toHost') PROVE Own(toHost'[k], Len(got') + k)
  <2>1. /\ k + 1 \in 1 .. Len(toHost) /\ k \in 1 .. Len(toHost) - 1
        /\ Len(got') + k = Len(got) + (k + 1)
    BY <1>1, <1>2
  <2>2. toHost'[k] = toHost[k + 1]
    BY <1>1, <2>1
  <2>3. Own(toHost[k + 1], Len(got) + (k + 1))
    BY <2>1 DEF OwnToHost
  <2> QED  BY <2>1, <2>2, <2>3
<1> QED  BY <1>3, <1>4 DEF OwnGot, OwnToHost, Own

LEMMA ReadSession == ASSUME IInv, Session, Read PROVE Session'
<1> SUFFICES ASSUME ~quick PROVE (Asked \/ Working \/ Finished \/ AtRest)'
  BY DEF Session, Read
<1>1. /\ UNCHANGED <<toFw, call, mine, pc, dstate, emit_start_intflag, do_emit_chirp,
                     chirp, sent, early, job, clean, emission>>
      /\ hpc \in {"flush", "reading"} /\ toHost # <<>> /\ toHost' = Tail(toHost)
  BY DEF Read, fwVars, flags, dmaVars, observers
<1>2. (Quiet' <=> Quiet) /\ (Flushed' <=> Flushed)
  BY <1>1 DEF Quiet, Flushed
<1>3. toHost \in Seq(Chunk) /\ got \in Seq(Chunk) /\ Len(toHost) >= 1
      /\ Len(toHost') = Len(toHost) - 1 /\ Len(got) \in Nat /\ Len(toHost) \in Nat
      /\ toHost' \in Seq(Chunk) /\ sent \in Nat
  BY <1>1, TailIs, ChunksAssumption DEF IInv, TypeOK
<1>4. CASE Working
  <2>1. pc = "send" /\ sent < 2 * Chunks /\ Len(got) + Len(toHost) = sent
    BY <1>3, <1>4 DEF Working, IInv, JobState
  <2>2. Len(got) + 1 # 2 * Chunks
    BY <1>3, <2>1, ChunksAssumption
  <2>3. hpc' = hpc /\ got' = Append(got, Head(toHost))
    BY <2>2 DEF Read, HasAll
  <2>4. Len(got') + Len(toHost') = sent
    <3>1. Len(got') = Len(got) + 1
      BY <1>3, <2>3
    <3> QED  BY <1>3, <2>1, <3>1
  <2>5. hpc = "reading" => OwnGot' /\ OwnToHost'
    BY <1>1, <1>3, <1>4, <2>3, ReadOwn DEF Working
  <2> QED  BY <1>1, <1>2, <1>4, <2>1, <2>3, <2>4, <2>5 DEF Working
<1>5. CASE Finished /\ Len(got) + 1 = 2 * Chunks
  <2>1. Len(toHost') = 0
    BY <1>3, <1>5, ChunksAssumption DEF Finished
  <2>2. toHost' = <<>>
    BY <1>3, <2>1
  <2>3. hpc' = "ready"
    BY <1>5 DEF Read, HasAll
  <2>4. OwnGot'
    <3>1. CASE hpc = "flush"
      <4>1. got' = <<>>
        BY <1>5, <3>1 DEF Read, HasAll
      <4> QED  BY <4>1 DEF OwnGot
    <3>2. CASE hpc = "reading"
      <4>1. got' = Append(got, Head(toHost))
        BY <1>5, <3>2 DEF Read, HasAll
      <4> QED  BY <1>1, <1>3, <1>5, <3>2, <4>1, ReadOwn DEF Finished
    <3> QED  BY <1>1, <3>1, <3>2
  <2> QED  BY <1>1, <1>2, <1>5, <2>2, <2>3, <2>4 DEF Finished, AtRest
<1>6. CASE Finished /\ Len(got) + 1 # 2 * Chunks
  <2>1. hpc' = hpc /\ got' = Append(got, Head(toHost))
    BY <1>6 DEF Read, HasAll
  <2>2. Len(got') + Len(toHost') = 2 * Chunks
    BY <1>3, <1>6, <2>1, ChunksAssumption DEF Finished
  <2>3. hpc = "reading" => OwnGot' /\ OwnToHost'
    BY <1>1, <1>3, <1>6, <2>1, ReadOwn DEF Finished
  <2> QED  BY <1>1, <1>2, <1>6, <2>1, <2>2, <2>3 DEF Finished
<1>7. Working \/ Finished
  BY <1>1 DEF Session, Read, Asked, AtRest
<1> QED  BY <1>4, <1>5, <1>6, <1>7

LEMMA HostSession == ASSUME IInv, Session, Host PROVE Session'
<1>1. CASE Open
  <2> SUFFICES ASSUME ~quick' PROVE Asked'
    BY DEF Session
  <2>1. Quiet' /\ toHost' = <<>> /\ got' = <<>> /\ hpc' = "flush"
    BY <1>1 DEF Open, Quiet, fwVars, flags
  <2>2. call' = NextCall /\ mine' = NextCall
    BY <1>1 DEF Open
  <2>3. /\ Len(toFw') = 5 /\ toFw'[1].op = "AMP_START" /\ toFw'[2].op = "GET_CHIRP"
        /\ toFw'[3].call = NextCall /\ toFw'[4].op = "START_JOB"
        /\ toFw'[4].call = NextCall
    BY <1>1 DEF Open, Command
  <2>4. Asks(3)' /\ Loads(2)'
    BY <2>2, <2>3 DEF Asks, Loads
  <2> QED  BY <2>1, <2>3, <2>4 DEF Asked
<1>2. CASE next
  <2> SUFFICES ASSUME ~quick' PROVE Asked'
    BY DEF Session
  <2>1. AtRest
    BY <1>2 DEF next, Session, Asked, Working, Finished
  <2>2. /\ Quiet' /\ Flushed' /\ toHost' = <<>> /\ got' = <<>>
        /\ hpc' = "reading" /\ chirp' = mine'
    BY <1>2, <2>1 DEF next, AtRest, Quiet, Flushed, fwVars, flags, dmaVars
  <2>3. call' = NextCall /\ toFw' = <<>> \o Command(<<"START_JOB", "DO_CHIRP">>)
    BY <1>2, <2>1 DEF next, AtRest
  <2>4. /\ Len(toFw') = 2 /\ toFw'[1].op = "START_JOB" /\ toFw'[1].call = NextCall
        /\ toFw'[2].op = "DO_CHIRP"
    BY <2>3 DEF Command
  <2>5. Asks(0)'
    BY <2>3, <2>4 DEF Asks
  <2> QED  BY <2>2, <2>4, <2>5 DEF Asked
<1>3. CASE Read
  BY <1>3, ReadSession
<1>4. CASE Close \/ Kill
  BY <1>4 DEF Close, Kill, Session
<1> QED  BY <1>1, <1>2, <1>3, <1>4 DEF Host

LEMMA StutterSession == ASSUME Session, UNCHANGED vars PROVE Session'
<1>1. /\ UNCHANGED <<toFw, toHost, hpc, got, call, mine, quick, dstate, pc, sent,
                     chirp, do_emit_chirp, emit_start_intflag, job, clean, emission,
                     early>>
  BY DEF vars, wires, hostVars, observers, flags, dmaVars
<1>2. /\ (OwnGot' <=> OwnGot) /\ (OwnToHost' <=> OwnToHost) /\ (Quiet' <=> Quiet)
      /\ (Flushed' <=> Flushed)
  BY <1>1, SameOwn DEF Quiet, Flushed
<1>3. \A d : (Asks(d)' <=> Asks(d)) /\ (Loads(d)' <=> Loads(d))
  BY <1>1, SameAsks
<1>4. (Asked => Asked') /\ (Working => Working')
  BY <1>1, <1>2, <1>3 DEF Asked, Working
<1>5. (Finished => Finished') /\ (AtRest => AtRest')
  BY <1>1, <1>2 DEF Finished, AtRest
<1> QED  BY <1>1, <1>4, <1>5 DEF Session

LEMMA SessionAlways == Spec => [](OneJob /\ Session)
<1>1. Init => OneJob /\ Session
  BY DEF Init, OneJob, Session
<1>2. IInv /\ OneJob /\ Session /\ [Next]_vars => (OneJob /\ Session)'
  <2> SUFFICES ASSUME IInv, OneJob, Session, [Next]_vars
               PROVE  OneJob' /\ Session'
    OBVIOUS
  <2>1. OneJob'
    BY OneJobStep
  <2>2. Session'
    BY SwitchSession, SendChunkSession, SerialSession, InterruptsSession,
       HostSession, StutterSession DEF Next, Loop
  <2> QED  BY <2>1, <2>2
<1> QED  BY <1>1, <1>2, IInvAlways, PTL DEF Spec

(* What next() returns is its own job, whole, in order, with the chirp this*)
(* host uploaded, for any number of chunks and however many calls, closings*)
(* and kills came before (ml_main.cpp's loop() with run_chirps.py's reads).*)
THEOREM EchoIsOwnAlways == Spec => []EchoIsOwn
<1>1. IInv /\ Session => EchoIsOwn
  <2> SUFFICES ASSUME IInv, Session, hpc \in {"reading", "ready"}, ~quick,
                      NEW j \in DOMAIN got
               PROVE  /\ [x \in {"job", "ch", "i", "clean"} |-> got[j][x]] = OwnFrame(j)
                      /\ got[j].heard.kind \in {"whole", "cut"}
                      /\ got[j].heard.chirp = mine
    BY DEF EchoIsOwn
  <2>1. got \in Seq(Chunk) /\ j \in 1 .. Len(got)
    BY DEF IInv, TypeOK
  <2>2. OwnGot
    <3>1. CASE Asked
      BY <2>1, <3>1 DEF Asked
    <3> QED  BY <3>1 DEF Session, Working, Finished, AtRest
  <2>3. Own(got[j], j)
    BY <2>1, <2>2 DEF OwnGot
  <2>4. [x \in {"job", "ch", "i", "clean"} |-> got[j][x]] = OwnFrame(j)
    <3> DEFINE fields == {"job", "ch", "i", "clean"}
    <3>1. [x \in fields |-> got[j][x]] = [x \in fields |-> OwnFrame(j)[x]]
      <4>1. ASSUME NEW x \in fields PROVE got[j][x] = OwnFrame(j)[x]
        <5>1. /\ got[j].job = OwnFrame(j).job /\ got[j].ch = OwnFrame(j).ch
              /\ got[j].i = OwnFrame(j).i /\ got[j].clean = OwnFrame(j).clean
          BY <2>3 DEF Own, OwnFrame
        <5> QED  BY <5>1
      <4> QED  BY <4>1, Zenon
    <3>2. [x \in fields |-> OwnFrame(j)[x]] = OwnFrame(j)
      BY DEF OwnFrame
    <3> QED  BY <3>1, <3>2
  <2> QED  BY <2>3, <2>4 DEF Own
<1> QED  BY <1>1, IInvAlways, SessionAlways, PTL
-----------------------------------------------------------------------------
(* The service.  What is owed to a host that waited its turn is what       *)
(* Session finds under way.                                                *)

Owes ==
    hpc # "closed" /\ ~quick =>
       /\ Asked \/ Working \/ Finished \/ AtRest
       /\ Asked => hpc # "ready" /\ owedBar = "asked" /\ Quiet
       /\ Working => hpc # "ready" /\ owedBar = "recording" /\ ~Quiet
       /\ Finished => hpc # "ready" /\ owedBar = "recorded" /\ Quiet
       /\ AtRest => hpc = "ready" /\ owedBar = "none" /\ Quiet

LEMMA OwedIs == Session => Owes
<1> SUFFICES ASSUME Session, hpc # "closed", ~quick
             PROVE  /\ Asked \/ Working \/ Finished \/ AtRest
                    /\ Asked => hpc # "ready" /\ owedBar = "asked" /\ Quiet
                    /\ Working => hpc # "ready" /\ owedBar = "recording" /\ ~Quiet
                    /\ Finished => hpc # "ready" /\ owedBar = "recorded" /\ Quiet
                    /\ AtRest => hpc = "ready" /\ owedBar = "none" /\ Quiet
  BY DEF Owes
<1>1. Asked \/ Working \/ Finished \/ AtRest
  BY DEF Session
<1>2. ASSUME Asked PROVE hpc # "ready" /\ owedBar = "asked" /\ Quiet
  <2>1. toFw # <<>>
    <3>1. Len(toFw) # 0
      BY <1>2 DEF Asked, Asks
    <3>2. Len(<<>>) = 0
      OBVIOUS
    <3> QED  BY <3>1, <3>2, Zenon
  <2> QED  BY <1>2, <2>1 DEF Asked, owedBar
<1>3. ASSUME Working PROVE hpc # "ready" /\ owedBar = "recording" /\ ~Quiet
  BY <1>3 DEF Working, owedBar
<1>4. ASSUME Finished PROVE hpc # "ready" /\ owedBar = "recorded" /\ Quiet
  BY <1>4 DEF Finished, owedBar
<1>5. ASSUME AtRest PROVE hpc = "ready" /\ owedBar = "none" /\ Quiet
  BY <1>5 DEF AtRest, owedBar
<1> QED  BY <1>1, <1>2, <1>3, <1>4, <1>5, Zenon

LEMMA NoFrame == [k \in DOMAIN <<>> |-> Seen(<<>>[k])] = <<>>
OBVIOUS

LEMMA ServiceInit == Init => Service!Init
<1> SUFFICES ASSUME Init PROVE Service!Init
  OBVIOUS
<1>1. Quiet /\ hpc = "closed" /\ call = 0 /\ mine = 0
  BY DEF Init, Quiet
<1>2. owedBar = "none" /\ resultBar = <<>> /\ busyBar = FALSE
  BY <1>1 DEF owedBar, resultBar, busyBar
<1> QED  BY <1>1, <1>2 DEF Service!Init

(* A step of the board begins or ends the recording that is owed, or is    *)
(* none of the caller's business.                                          *)
LEMMA BoardService ==
    ASSUME IInv, IInv', Owes, Owes', Loop \/ Interrupts
    PROVE  [Service!Next]_(Service!vars)
<1> USE DEF Service!Next, Service!vars
<1>1. /\ UNCHANGED <<hpc, got, call, mine, quick>>
      /\ toFw = <<>> => toFw' = <<>>
      /\ pc # "send" => UNCHANGED toHost
  BY DEF Loop, Switch, SendChunk, Serial, NoCommand, Interrupts, AdcHandler,
         DMAC_2_Handler, TCC2_0_Handler, hostVars, wires
<1>2. resultBar' = resultBar
  BY <1>1 DEF resultBar, Seen
<1>3. CASE hpc = "closed" \/ quick
  <2>1. owedBar' = owedBar /\ (hpc = "closed" \/ owedBar = "unsure")
    BY <1>1, <1>3 DEF owedBar
  <2>2. busyBar' = busyBar \/ busyBar' = ~busyBar
    BY DEF busyBar
  <2> QED  BY <1>1, <1>2, <2>1, <2>2 DEF Service!LeftOver
<1>4. CASE hpc = "ready" /\ ~quick
  <2>1. Quiet /\ Quiet' /\ owedBar = "none" /\ owedBar' = "none"
    BY <1>1, <1>4 DEF Owes
  <2>2. busyBar' = busyBar
    BY <2>1 DEF busyBar
  <2> QED  BY <1>1, <1>2, <2>1, <2>2
<1>5. CASE hpc \notin {"closed", "ready"} /\ ~quick
  <2>1. /\ Asked \/ Working \/ Finished
        /\ Asked => owedBar = "asked" /\ Quiet
        /\ Working => owedBar = "recording" /\ ~Quiet
        /\ Finished => owedBar = "recorded" /\ Quiet
    BY <1>5 DEF Owes
  <2>2. /\ Asked' \/ Working' \/ Finished'
        /\ Asked' => owedBar' = "asked" /\ Quiet'
        /\ Working' => owedBar' = "recording" /\ ~Quiet'
        /\ Finished' => owedBar' = "recorded" /\ Quiet'
    BY <1>1, <1>5 DEF Owes
  <2>3. /\ Len(got) \in Nat /\ Len(toHost) \in Nat /\ Chunks \in Nat /\ Chunks > 0
        /\ Len(<<>>) = 0 /\ sent' \in Nat /\ (pc' = "send" => sent' < 2 * Chunks)
    BY ChunksAssumption DEF IInv, TypeOK, JobState
  <2>4. CASE Asked
    <3>1. Len(got') + Len(toHost') = 0
      BY <1>1, <2>3, <2>4 DEF Asked, Quiet
    <3>2. ~Finished'
      BY <2>3, <3>1 DEF Finished
    <3>3. CASE Asked'
      <4>1. owedBar' = owedBar /\ busyBar' = busyBar
        BY <2>1, <2>2, <2>4, <3>3 DEF busyBar
      <4> QED  BY <1>1, <1>2, <4>1
    <3>4. CASE Working'
      <4>1. /\ owedBar = "asked" /\ owedBar' = "recording"
            /\ busyBar = FALSE /\ busyBar' = TRUE
        BY <2>1, <2>2, <2>4, <3>4 DEF busyBar
      <4> QED  BY <1>1, <1>2, <4>1 DEF Service!Record
    <3> QED  BY <2>2, <3>2, <3>3, <3>4
  <2>5. CASE Working
    <3>1. toFw = <<>> /\ toFw' = <<>> /\ ~Quiet /\ owedBar = "recording"
      BY <1>1, <2>1, <2>5 DEF Working
    <3>2. owedBar' # "asked"
      BY <3>1 DEF owedBar
    <3>3. CASE owedBar' = "recording" /\ ~Quiet'
      <4>1. owedBar' = owedBar /\ busyBar' = busyBar
        BY <3>1, <3>3 DEF busyBar
      <4> QED  BY <1>1, <1>2, <4>1
    <3>4. CASE owedBar' = "recorded" /\ Quiet'
      <4>1. busyBar' = FALSE
        BY <3>4 DEF busyBar
      <4> QED  BY <1>1, <1>2, <3>1, <3>4, <4>1 DEF Service!Finish
    <3> QED  BY <2>2, <3>2, <3>3, <3>4, Zenon
  <2>6. CASE Finished
    <3>1. toFw = <<>> /\ toFw' = <<>> /\ Quiet /\ owedBar = "recorded"
      BY <1>1, <2>1, <2>6 DEF Finished
    <3>2. owedBar' # "asked"
      BY <3>1 DEF owedBar
    <3>3. Len(got') + Len(toHost') = 2 * Chunks
      BY <1>1, <2>6, <3>1 DEF Finished, Quiet
    <3>4. ~Working'
      BY <2>3, <3>3 DEF Working
    <3>5. owedBar' = "recorded" /\ Quiet'
      BY <2>2, <3>2, <3>4
    <3>6. busyBar' = busyBar
      BY <3>1, <3>5 DEF busyBar
    <3> QED  BY <1>1, <1>2, <3>1, <3>5, <3>6
  <2> QED  BY <2>1, <2>4, <2>5, <2>6
<1> QED  BY <1>3, <1>4, <1>5

LEMMA OwnIsSeen == ASSUME NEW c \in Chunk, NEW j, Own(c, j)
    PROVE  Seen(c) = [job |-> call, ch |-> (j - 1) \div Chunks,
                      i |-> ((j - 1) % Chunks) + 1, clean |-> TRUE,
                      played |-> TRUE, chirp |-> mine]
<1>1. (c.heard.kind \in {"whole", "cut"}) = TRUE
  BY DEF Own
<1> QED  BY <1>1 DEF Own, Seen

LEMMA ReadService ==
    ASSUME IInv, Owes, Owes', Read PROVE  [Service!Next]_(Service!vars)
<1> USE DEF Service!Next, Service!vars
<1>1. /\ hpc \in {"flush", "reading"} /\ toHost # <<>> /\ toHost' = Tail(toHost)
      /\ UNCHANGED <<toFw, call, mine, quick, pc, dstate, emit_start_intflag, sent>>
  BY DEF Read, fwVars, flags
<1>2. (Quiet' <=> Quiet) /\ busyBar' = busyBar /\ resultBar = <<>>
  BY <1>1 DEF Quiet, busyBar, resultBar
<1>3. /\ got \in Seq(Chunk) /\ toHost \in Seq(Chunk) /\ Len(got) \in Nat
      /\ Len(toHost) \in Nat /\ Len(toHost) >= 1 /\ Chunks \in Nat /\ Chunks > 0
      /\ (pc = "send" => sent \in Nat /\ sent < 2 * Chunks)
  BY <1>1, TailIs, ChunksAssumption DEF IInv, TypeOK, JobState
<1>4. CASE ~HasAll(Len(got) + 1)
  <2>1. hpc' = hpc
    BY <1>4 DEF Read
  <2>2. owedBar' = owedBar /\ resultBar' = <<>>
    BY <1>1, <1>2, <2>1 DEF owedBar, resultBar
  <2> QED  BY <1>1, <1>2, <2>1, <2>2
<1>5. CASE HasAll(Len(got) + 1) /\ quick
  <2>1. hpc' = "ready" /\ owedBar = "unsure" /\ owedBar' = "unsure" /\ resultBar' = <<>>
    BY <1>1, <1>5 DEF Read, owedBar, resultBar
  <2> QED  BY <1>1, <1>2, <2>1 DEF Service!ReturnUnsure
<1>6. CASE HasAll(Len(got) + 1) /\ ~quick
  <2>1. hpc' = "ready" /\ owedBar' = "none"
    BY <1>1, <1>6 DEF Read, owedBar
  <2>2. owedBar = "recorded"
    <3>1. Len(got) + Len(toHost) >= 2 * Chunks
      BY <1>3, <1>6 DEF HasAll
    <3>2. ~Working
      BY <1>3, <3>1 DEF Working
    <3>3. ~Asked /\ ~AtRest
      BY <1>1 DEF Asked, AtRest
    <3> QED  BY <1>1, <1>6, <3>2, <3>3 DEF Owes
  <2>3. CASE hpc = "flush"
    <3>1. got' = <<>>
      BY <1>6, <2>3 DEF Read
    <3>2. resultBar' = <<>>
      BY <1>1, <1>6, <2>1, <3>1, NoFrame DEF resultBar, Seen
    <3> QED  BY <1>1, <1>2, <2>1, <2>2, <2>3, <3>2 DEF Service!Return
  <2>4. CASE hpc = "reading"
    <3>1. got' = Append(got, Head(toHost))
      BY <1>6, <2>4 DEF Read
    <3>2. got' \in Seq(Chunk) /\ Len(got') = 2 * Chunks
      BY <1>3, <1>6, <3>1 DEF HasAll
    <3>3. OwnGot'
      BY <1>1, <1>6, <2>1 DEF Owes, AtRest
    <3>4. ASSUME NEW k \in 1 .. 2 * Chunks
          PROVE  Seen(got'[k]) = [job |-> call, ch |-> (k - 1) \div Chunks,
                                  i |-> ((k - 1) % Chunks) + 1, clean |-> TRUE,
                                  played |-> TRUE, chirp |-> mine]
      <4>1. got'[k] \in Chunk /\ Own(got'[k], k)
        BY <1>1, <3>2, <3>3 DEF OwnGot, Own
      <4> QED  BY <4>1, OwnIsSeen
    <3>5. resultBar' = [k \in 1 .. 2 * Chunks |-> Seen(got'[k])]
      BY <1>1, <1>6, <2>1, <3>2 DEF resultBar, Seen
    <3>6. resultBar' = Service!Recording(call, mine)
      BY <3>4, <3>5, Zenon DEF Service!Recording
    <3> QED  BY <1>1, <1>2, <2>1, <2>2, <2>4, <3>6 DEF Service!Return
  <2> QED  BY <1>1, <2>3, <2>4
<1> QED  BY <1>4, <1>5, <1>6

LEMMA WriteIsSome == ASSUME NEW s \in Seq(Token), NEW cmd \in Seq(Token), Len(cmd) > 0
                     PROVE  s \o cmd # <<>>
<1>1. \A t \in Seq(Token) : Len(s \o t) = Len(s) + Len(t)
  OBVIOUS
<1>2. Len(s) \in Nat /\ Len(<<>>) = 0
  OBVIOUS
<1>3. Len(s \o cmd) > 0
  BY <1>1, <1>2
<1>4. Len(s \o cmd) # Len(<<>>)
  BY <1>2, <1>3
<1> QED  BY <1>4, Zenon

LEMMA HostService ==
    ASSUME IInv, Owes, Owes', Host PROVE  [Service!Next]_(Service!vars)
<1> USE DEF Service!Next, Service!vars
<1>1. busyBar' = busyBar
  BY DEF Host, Open, next, Read, Close, Kill, fwVars, flags, Quiet, busyBar
<1>2. CASE Open
  <2>1. /\ hpc = "closed" /\ hpc' = "flush" /\ call' = NextCall /\ mine' = NextCall
        /\ quick' = ~Quiet /\ toFw' # <<>>
    BY <1>2 DEF Open, Command
  <2>2. owedBar' = IF busyBar THEN "unsure" ELSE "asked"
    BY <2>1 DEF owedBar, busyBar
  <2>3. resultBar = <<>> /\ resultBar' = <<>>
    BY <2>1 DEF resultBar
  <2> QED  BY <1>1, <2>1, <2>2, <2>3 DEF Service!Open, Service!NextCall, NextCall
<1>3. CASE next
  <2>1. /\ hpc = "ready" /\ hpc' = "reading" /\ call' = NextCall
        /\ UNCHANGED <<mine, quick>>
        /\ toFw' = toFw \o Command(<<"START_JOB", "DO_CHIRP">>)
    BY <1>3 DEF next
  <2>2. toFw' # <<>>
    <3> DEFINE ops == <<"START_JOB", "DO_CHIRP">>
               cmd == Command(ops)
    <3>1. cmd \in Seq(Token) /\ Len(cmd) = 2
      <4>1. cmd = [k \in 1 .. 2 |-> [op |-> ops[k], call |-> NextCall]]
        BY DEF Command
      <4>2. \A k \in 1 .. 2 : [op |-> ops[k], call |-> NextCall] \in Token
        BY NextCallType DEF Token, IInv, TypeOK
      <4> HIDE DEF ops
      <4> QED  BY <4>1, <4>2
    <3> HIDE DEF cmd
    <3>2. toFw \in Seq(Token) /\ toFw' = toFw \o cmd
      BY <2>1 DEF IInv, TypeOK, cmd
    <3>3. Len(cmd) > 0
      BY <3>1
    <3> QED  BY <3>1, <3>2, <3>3, WriteIsSome, Zenon
  <2>3. owedBar' = IF owedBar = "unsure" THEN "unsure" ELSE "asked"
    BY <2>1, <2>2 DEF owedBar
  <2>4. resultBar' = <<>>
    BY <2>1 DEF resultBar
  <2> QED  BY <1>1, <2>1, <2>3, <2>4 DEF Service!Ask, Service!NextCall, NextCall
<1>4. CASE Read
  BY <1>4, ReadService
<1>5. CASE Close \/ Kill
  <2>1. hpc # "closed" /\ hpc' = "closed" /\ UNCHANGED <<call, mine>>
    BY <1>5 DEF Close, Kill
  <2>2. owedBar' = "none" /\ resultBar' = <<>>
    BY <2>1 DEF owedBar, resultBar
  <2> QED  BY <1>1, <2>1, <2>2 DEF Service!End
<1> QED  BY <1>2, <1>3, <1>4, <1>5 DEF Host

LEMMA StutterService == ASSUME UNCHANGED vars PROVE UNCHANGED Service!vars
<1>1. UNCHANGED <<hpc, call, mine, quick, toFw, got, pc, dstate, emit_start_intflag>>
  BY DEF vars, hostVars, wires, flags
<1> QED  BY <1>1 DEF Service!vars, owedBar, busyBar, resultBar, Seen, Quiet

(* The field sonar keeps SonarService's promise, for any number of chunks  *)
(* and calls: loop(), its interrupts and the reads of run_chirps.py record *)
(* each call once, after it was asked for, and return that recording.      *)
THEOREM ImplementsService == Spec => SonarServiceSpec
<1>1. IInv /\ IInv' /\ Owes /\ Owes' /\ [Next]_vars => [Service!Next]_(Service!vars)
  BY BoardService, HostService, StutterService DEF Next
<1> QED  BY <1>1, ServiceInit, OwedIs, IInvAlways, SessionAlways, PTL
         DEF Spec, SonarServiceSpec, Service!Spec
=============================================================================
