----------------------------- MODULE FieldSonar -----------------------------
(***************************************************************************)
(* The field sonar: the firmware of echo_src (a polled state machine, two  *)
(* ADC channels and a DAC moved by DMA, a one-shot timer) and the program  *)
(* that asks it for one recording at a time, as run_chirps.py and the      *)
(* GUI's SerialDataSource do.  The port is closed and opened again, also   *)
(* by a user who kills the program in the middle of a recording.           *)
(***************************************************************************)
EXTENDS Integers, Sequences

CONSTANTS Chunks,       \* pieces in which a channel is sent
          Calls         \* calls are numbered modulo Calls

ASSUME ChunksAssumption == Chunks \in Nat \ {0}
ASSUME CallsAssumption == Calls \in Nat \ {0}

VARIABLES pc,          \* where loop() is: "switch", "send" or "serial"
          dstate, emit_start_intflag, emit_stop_intflag, wait_stop_intflag,
          adc_done,    \* ADC channels whose done flag is set
          do_emit_chirp,
          chirp,       \* call that uploaded chirp_out_buffer, -1 at boot
          sent         \* chunks of this job written to the port
VARIABLES running,     \* DMA channels that are not suspended
          timerOn,     \* is the wait timer counting?
          early        \* DMA channels that moved samples before setup() ended
VARIABLES toFw, toHost,
          hpc,         \* host: "closed", "flush", "ready" or "reading"
          got,         \* host: the chunks its two reads have received
          call,        \* host: number of the present or last call
          mine         \* host: number of the call that uploaded its chirp
(* Observers: nothing in the programs reads them. *)
VARIABLES quick,       \* was the port opened before a job was over?
          job,         \* call whose START_JOB was accepted last
          clean,       \* ADC channels whose buffer holds nothing older
          emission     \* what the DAC has made of it

flags == <<emit_start_intflag, emit_stop_intflag, wait_stop_intflag, adc_done>>
dmaVars == <<running, timerOn, early>>
hostVars == <<hpc, got, call, mine, quick>>
wires == <<toFw, toHost>>
observers == <<job, clean, emission>>
vars == <<pc, dstate, flags, do_emit_chirp, chirp, sent, dmaVars, wires,
          hostVars, observers>>

ADC == {0, 1}   \* ADC0_DMAC_CHANNEL, ADC1_DMAC_CHANNEL
DAC == 2        \* DAC_DMAC_CHANNEL

(* A byte of a command, or the chirp samples, with the call that sent it.  *)
Token == [op : {"AMP_START", "AMP_STOP", "START_JOB", "DO_CHIRP", "DONT_CHIRP",
                "GET_CHIRP", "samples"}, call : 0 .. Calls - 1]
Emission == [kind : {"none", "whole", "cut", "torn"}, chirp : -1 .. Calls - 1]
Silence == [kind |-> "none", chirp |-> -1]
Chunk == [job : -1 .. Calls - 1, ch : ADC, i : 1 .. Chunks, clean : BOOLEAN,
          heard : Emission]

(* After setup(): each DMA channel has been enabled and then suspended with*)
(* its trigger already running, and the wait timer enabled and stopped.    *)
Init ==
    /\ pc = "switch" /\ dstate = "IDLE"
    /\ emit_start_intflag = FALSE /\ emit_stop_intflag = FALSE
    /\ wait_stop_intflag \in BOOLEAN
    /\ adc_done = {}
    /\ do_emit_chirp = TRUE
    /\ chirp = -1 /\ sent = 0
    /\ running = {} /\ timerOn = FALSE
    /\ early \in SUBSET (ADC \cup {DAC})
    /\ toFw = <<>> /\ toHost = <<>>
    /\ hpc = "closed" /\ got = <<>>
    /\ call = 0 /\ mine = 0
    /\ quick = FALSE /\ job = -1 /\ clean = {} /\ emission = Silence

-----------------------------------------------------------------------------
(* loop(): the switch on dstate                                            *)

StartJobNoStop ==                                              \* a mutant
    /\ dstate = "IDLE" /\ emit_start_intflag
    /\ running' = running \cup ADC \cup (IF do_emit_chirp THEN {DAC} ELSE {})
    /\ emission' = IF ~do_emit_chirp THEN Silence
                   ELSE [kind |-> IF DAC \in early THEN "cut" ELSE "whole",
                         chirp |-> chirp]
    /\ clean' = ADC \ early
    /\ dstate' = "EMIT"
    /\ emit_start_intflag' = FALSE
    /\ pc' = "serial"
    /\ UNCHANGED <<emit_stop_intflag, wait_stop_intflag, adc_done, sent,
                   timerOn, early, job>>

(* IDLE: resume the ADC channels, and the DAC channel or else count its    *)
(* part as done.                                                           *)
StartJob ==
    /\ dstate = "IDLE" /\ emit_start_intflag
    /\ running' = running \cup ADC \cup (IF do_emit_chirp THEN {DAC} ELSE {})
    /\ emit_stop_intflag' = (emit_stop_intflag \/ ~do_emit_chirp)
    /\ emission' = IF ~do_emit_chirp THEN Silence
                   ELSE [kind |-> IF DAC \in early THEN "cut" ELSE "whole",
                         chirp |-> chirp]
    /\ clean' = ADC \ early
    /\ dstate' = "EMIT"
    /\ emit_start_intflag' = FALSE
    /\ pc' = "serial"
    /\ UNCHANGED <<wait_stop_intflag, adc_done, sent, timerOn, early, job>>

EmitOverNoTimer ==                                             \* a mutant
    /\ dstate = "EMIT" /\ emit_stop_intflag
    /\ dstate' = "WAIT"
    /\ emit_stop_intflag' = FALSE
    /\ pc' = "serial"
    /\ UNCHANGED <<emit_start_intflag, wait_stop_intflag, adc_done, sent,
                   running, timerOn, early, observers>>

(* EMIT: the chirp is out; start the wait timer.                           *)
EmitOver ==
    /\ dstate = "EMIT" /\ emit_stop_intflag
    /\ timerOn' = TRUE
    /\ dstate' = "WAIT"
    /\ emit_stop_intflag' = FALSE
    /\ pc' = "serial"
    /\ UNCHANGED <<emit_start_intflag, wait_stop_intflag, adc_done, sent,
                   running, early, observers>>

WaitOver ==
    /\ dstate = "WAIT" /\ wait_stop_intflag
    /\ dstate' = "LISTEN"
    /\ wait_stop_intflag' = FALSE
    /\ pc' = "serial"
    /\ UNCHANGED <<emit_start_intflag, emit_stop_intflag, adc_done, sent,
                   dmaVars, observers>>

EitherRecorded == adc_done # {}                                \* a mutant
BothRecorded == adc_done = ADC

StartSending ==
    /\ dstate = "LISTEN" /\ BothRecorded
    /\ adc_done' = {}
    /\ sent' = 0
    /\ pc' = "send"
    /\ UNCHANGED <<dstate, emit_start_intflag, emit_stop_intflag,
                   wait_stop_intflag, dmaVars, observers>>

NothingToDo ==
    /\ ~ \/ dstate = "IDLE" /\ emit_start_intflag
         \/ dstate = "EMIT" /\ emit_stop_intflag
         \/ dstate = "WAIT" /\ wait_stop_intflag
         \/ dstate = "LISTEN" /\ BothRecorded
    /\ pc' = "serial"
    /\ UNCHANGED <<dstate, flags, sent, dmaVars, observers>>

Switch ==
    /\ pc = "switch"
    /\ StartJob \/ EmitOver \/ WaitOver \/ StartSending \/ NothingToDo
    /\ UNCHANGED <<do_emit_chirp, chirp, wires, hostVars>>

(* Serial.write of one chunk, straight from the buffer the DMA fills; it is*)
(* dropped when nobody has the port open.  After the last one: IDLE.       *)
NextChunkFromZero ==                                           \* a mutant
    LET c == sent \div Chunks
    IN  [job |-> job, ch |-> c, i |-> sent % Chunks,
         clean |-> c \in clean \ running, heard |-> emission]
NextChunk ==
    LET c == sent \div Chunks
    IN  [job |-> job, ch |-> c, i |-> (sent % Chunks) + 1,
         clean |-> c \in clean \ running, heard |-> emission]
SendChunk ==
    /\ pc = "send"
    /\ toHost' = IF hpc = "closed" THEN toHost ELSE Append(toHost, NextChunk)
    /\ sent' = sent + 1
    /\ IF sent' = 2 * Chunks
       THEN pc' = "serial" /\ dstate' = "IDLE"
       ELSE UNCHANGED <<pc, dstate>>
    /\ UNCHANGED <<flags, do_emit_chirp, chirp, dmaVars, toFw, hostVars,
                   observers>>

-----------------------------------------------------------------------------
(* loop(): one serial command                                              *)

Accepts(token) == token.op = "START_JOB" /\ dstate = "IDLE"

AcceptJob ==
    /\ Accepts(Head(toFw))
    /\ do_emit_chirp' = (toFw[2].op = "DO_CHIRP")
    /\ emit_start_intflag' = TRUE
    /\ job' = Head(toFw).call
    /\ toFw' = Tail(Tail(toFw))
    /\ UNCHANGED <<chirp, clean, emission>>

(* readBytes and the copy, also while the DAC is playing the buffer. *)
GetChirp ==
    /\ Head(toFw).op = "GET_CHIRP"
    /\ chirp' = toFw[2].call
    /\ emission' = IF DAC \in running THEN [emission EXCEPT !.kind = "torn"]
                                      ELSE emission
    /\ toFw' = Tail(Tail(toFw))
    /\ UNCHANGED <<do_emit_chirp, emit_start_intflag, job, clean>>

(* AMP_START, AMP_STOP, or a START_JOB outside IDLE: its parameter is the  *)
(* next "command".                                                         *)
IgnoreByte ==
    /\ ~Accepts(Head(toFw)) /\ Head(toFw).op # "GET_CHIRP"
    /\ toFw' = Tail(toFw)
    /\ UNCHANGED <<do_emit_chirp, emit_start_intflag, chirp, observers>>

NoCommand ==
    /\ toFw = <<>>
    /\ UNCHANGED <<toFw, do_emit_chirp, emit_start_intflag, chirp, observers>>

Serial ==
    /\ pc = "serial"
    /\ pc' = "switch"
    /\ NoCommand \/ (toFw # <<>> /\ (AcceptJob \/ GetChirp \/ IgnoreByte))
    /\ UNCHANGED <<dstate, emit_stop_intflag, wait_stop_intflag, adc_done,
                   sent, dmaVars, toHost, hostVars>>

Loop == Switch \/ SendChunk \/ Serial

-----------------------------------------------------------------------------
(* Interrupts                                                              *)

(* DMAC_0_Handler, DMAC_1_Handler: a block is full, the channel suspended. *)
AdcHandler(c) ==
    /\ c \in running
    /\ running' = running \ {c}
    /\ early' = early \ {c}
    /\ adc_done' = adc_done \cup {c}
    /\ UNCHANGED <<pc, dstate, emit_start_intflag, emit_stop_intflag,
                   wait_stop_intflag, do_emit_chirp, chirp, sent, timerOn,
                   wires, hostVars, observers>>

DMAC_2_Handler ==
    /\ DAC \in running
    /\ running' = running \ {DAC}
    /\ early' = early \ {DAC}
    /\ emit_stop_intflag' = TRUE
    /\ UNCHANGED <<pc, dstate, emit_start_intflag, wait_stop_intflag, adc_done,
                   do_emit_chirp, chirp, sent, timerOn, wires, hostVars,
                   observers>>

TCC2_0_Handler ==
    /\ timerOn
    /\ timerOn' = FALSE
    /\ wait_stop_intflag' = TRUE
    /\ UNCHANGED <<pc, dstate, emit_start_intflag, emit_stop_intflag, adc_done,
                   do_emit_chirp, chirp, sent, running, early, wires, hostVars,
                   observers>>

Interrupts == (\E c \in ADC : AdcHandler(c)) \/ DMAC_2_Handler
              \/ TCC2_0_Handler

-----------------------------------------------------------------------------
(* Host                                                                    *)

NextCall == (call + 1) % Calls
Command(ops) == [k \in DOMAIN ops |-> [op |-> ops[k], call |-> NextCall]]
fwVars == <<pc, dstate, flags, do_emit_chirp, chirp, sent, dmaVars>>

(* No job is under way: so it is when a program is started again, which has*)
(* numpy to import first, for a job takes 19 ms.  A program that was just  *)
(* waiting for the port can be quicker.                                    *)
Quiet == dstate = "IDLE" /\ ~emit_start_intflag /\ pc # "send"

OpenUnflushed ==                                               \* a mutant
    /\ hpc = "closed"
    /\ toFw = <<>>
    /\ toFw' = Command(<<"AMP_START", "GET_CHIRP", "samples">>)
    /\ toHost' = <<>>
    /\ hpc' = "ready" /\ got' = <<>>
    /\ call' = NextCall /\ mine' = NextCall /\ quick' = ~Quiet
    /\ UNCHANGED <<fwVars, observers>>

(* The port is opened, which clears its input; the chirp is uploaded, and a*)
(* silent job is asked for, to flush out the ADCs.                         *)
Open ==
    /\ hpc = "closed"
    /\ toFw = <<>>
    /\ toFw' = Command(<<"AMP_START", "GET_CHIRP", "samples",
                         "START_JOB", "DONT_CHIRP">>)
    /\ toHost' = <<>>
    /\ hpc' = "flush" /\ got' = <<>>
    /\ call' = NextCall /\ mine' = NextCall /\ quick' = ~Quiet
    /\ UNCHANGED <<fwVars, observers>>

next ==
    /\ hpc = "ready"
    /\ toFw' = toFw \o Command(<<"START_JOB", "DO_CHIRP">>)
    /\ hpc' = "reading" /\ got' = <<>>
    /\ call' = NextCall
    /\ UNCHANGED <<toHost, mine, quick, fwVars, observers>>

HasAllButOne(n) == n = 2 * Chunks - 1                          \* a mutant
HasAll(n) == n = 2 * Chunks

(* A chunk arrives; the second of the two reads has all it waits for when  *)
(* there are 2 * Chunks.  What the flush job brought is discarded.         *)
Read ==
    /\ hpc \in {"flush", "reading"}
    /\ toHost # <<>>
    /\ toHost' = Tail(toHost)
    /\ IF HasAll(Len(got) + 1)
       THEN /\ hpc' = "ready"
            /\ got' = IF hpc = "flush" THEN <<>> ELSE Append(got, Head(toHost))
       ELSE /\ hpc' = hpc
            /\ got' = Append(got, Head(toHost))
    /\ UNCHANGED <<toFw, call, mine, quick, fwVars, observers>>

Close ==
    /\ hpc = "ready"
    /\ toFw' = toFw \o Command(<<"AMP_STOP">>)
    /\ toHost' = <<>>
    /\ hpc' = "closed" /\ got' = <<>>
    /\ UNCHANGED <<call, mine, quick, fwVars, observers>>

(* The program is killed.  What it has written is still delivered. *)
Kill ==
    /\ hpc # "closed"
    /\ toHost' = <<>>
    /\ hpc' = "closed" /\ got' = <<>>
    /\ UNCHANGED <<toFw, call, mine, quick, fwVars, observers>>

Host == Open \/ next \/ Read \/ Close \/ Kill
-----------------------------------------------------------------------------
Next == Loop \/ Interrupts \/ Host

(* loop() never stops, DMA blocks fill up, the timer runs out, and a host  *)
(* blocked in a read goes on when bytes arrive.                            *)
Fairness == /\ WF_vars(Loop)
            /\ \A c \in ADC : WF_vars(AdcHandler(c))
            /\ WF_vars(DMAC_2_Handler)
            /\ WF_vars(TCC2_0_Handler)
            /\ WF_vars(Read)
Spec == Init /\ [][Next]_vars
FairSpec == Spec /\ Fairness
-----------------------------------------------------------------------------
(* Properties                                                              *)

TypeOK ==
    /\ pc \in {"switch", "send", "serial"}
    /\ dstate \in {"IDLE", "EMIT", "WAIT", "LISTEN"}
    /\ emit_start_intflag \in BOOLEAN /\ emit_stop_intflag \in BOOLEAN
    /\ wait_stop_intflag \in BOOLEAN /\ adc_done \subseteq ADC
    /\ do_emit_chirp \in BOOLEAN /\ chirp \in -1 .. Calls - 1
    /\ sent \in 0 .. 2 * Chunks
    /\ running \subseteq ADC \cup {DAC} /\ timerOn \in BOOLEAN
    /\ early \subseteq ADC \cup {DAC}
    /\ toFw \in Seq(Token) /\ toHost \in Seq(Chunk)
    /\ hpc \in {"closed", "flush", "ready", "reading"} /\ got \in Seq(Chunk)
    /\ call \in 0 .. Calls - 1 /\ mine \in 0 .. Calls - 1
    /\ quick \in BOOLEAN /\ job \in -1 .. Calls - 1 /\ clean \subseteq ADC /\ emission \in Emission

(* A sample buffer is never sent while the DMA is filling it, nor while a  *)
(* chirp is still being played, whatever the host sends and whenever it    *)
(* sends it: the frame is one job's recording.                             *)
SentBuffersAreStill == pc = "send" => running = {}

(* What next() returns is its own job: both channels, complete and in      *)
(* order, nothing recorded before the job began, and in the air the chirp  *)
(* this host uploaded (its beginning may be missing: see the README).  Only*)
(* a program that opened the port during a job may get something else; the *)
(* next one is sound again, whatever that one did.                         *)
OwnFrame(j) == [job |-> call, ch |-> (j - 1) \div Chunks,
                i |-> ((j - 1) % Chunks) + 1, clean |-> TRUE]
EchoIsOwn ==
    hpc \in {"reading", "ready"} /\ ~quick =>
        \A j \in DOMAIN got :
            /\ [x \in {"job", "ch", "i", "clean"} |-> got[j][x]] = OwnFrame(j)
            /\ got[j].heard.kind \in {"whole", "cut"}
            /\ got[j].heard.chirp = mine

(* Every job that is accepted comes to its end: no flag is missed, none is *)
(* waited for twice.                                                       *)
JobEnds == (dstate # "IDLE") ~> (dstate = "IDLE")

(* The host's reads, which have no timeout in run_chirps.py, always end:   *)
(* the firmware never drops the START_JOB of a host that waits its turn.   *)
CallReturns == (hpc \in {"flush", "reading"} /\ ~quick)
                   ~> (hpc \in {"ready", "closed"})
-----------------------------------------------------------------------------
(* The service                                                             *)

busyBar == ~Quiet
owedBar == IF hpc = "closed" THEN "none"
           ELSE IF quick THEN "unsure"
           ELSE IF hpc = "ready" THEN "none"
           ELSE IF toFw # <<>> THEN "asked"
           ELSE IF Quiet THEN "recorded" ELSE "recording"
Seen(chunk) == [job |-> chunk.job, ch |-> chunk.ch, i |-> chunk.i,
                clean |-> chunk.clean,
                played |-> chunk.heard.kind \in {"whole", "cut"},
                chirp |-> chunk.heard.chirp]
resultBar == IF hpc = "ready" /\ ~quick
             THEN [k \in DOMAIN got |-> Seen(got[k])] ELSE <<>>

Service == INSTANCE SonarService
           WITH busy <- busyBar, owed <- owedBar, result <- resultBar

(* Firmware and host together keep what SonarService promises: every call  *)
(* is recorded once, after it is asked for, and next() returns that        *)
(* recording, whole and with this host's chirp; whatever the user kills.   *)
SonarServiceSpec == Service!Spec
=============================================================================
