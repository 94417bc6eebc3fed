---------------------------- MODULE EchoEmitter ----------------------------
(***************************************************************************)
(* The bat robot's emitter: the firmware that holds the chirp to be played *)
(* (echo_main.cpp) and the class that uploads it (bb_emitter.py), joined by*)
(* a serial line on which nothing tells a command byte from a data byte.   *)
(* Uploads break off, both sides time out, and both sides may restart.     *)
(***************************************************************************)
EXTENDS Integers, Sequences

CONSTANTS Chunks,      \* writes in which a chirp is sent
          Uploads      \* bound: uploads made in a behaviour

ASSUME ChunksAssumption == Chunks \in Nat \ {0}
ASSUME UploadsAssumption == Uploads \in Nat \ {0}

VARIABLES fw,          \* firmware: "loop", "len", "data", "crc" or "drain"
          serial_error,
          need,        \* bytes that the data loop has still to read
          held,        \* uploads that chirp_out_buffer is filled from, -1 for
                       \* bytes that were no chirp's
          hpc,         \* host: what the present call waits for, or "idle"
          goal,        \* host: the call, "chirp", "upload" or "max"; "max first"
                       \* is the get_max that an upload makes by itself
          known,       \* host: is max_chirp_length known?
          chirp_uploaded,
          left,        \* host: chunks it has still to write
          up           \* host: number of the present or last upload
VARIABLES toFw, toHost
(* Observers: nothing in the programs reads them. *)
VARIABLES calm,        \* did the call begin with the firmware at rest?
          failed,      \* did the last call end without doing its work?
          fresh        \* has no upload been tried since the last verified one?

fwVars == <<fw, serial_error, need, held>>
hostVars == <<hpc, goal, known, chirp_uploaded, left, up>>
wires == <<toFw, toHost>>
observers == <<calm, failed, fresh>>
vars == <<fwVars, hostVars, wires, observers>>

Commands == {"ACK_REQ", "CHIRP_DATA", "EMIT_CHIRP", "GET_MAX"}
Replies == {"ACK", "ERROR", "TOO_LONG", "MAX"}
Goals == {"chirp", "upload", "max first", "max"}
Waits == {"status", "max", "len", "ack", "sending", "done", "crc", "emitted"}
Up == -1 .. Uploads
Token == [op : Commands \cup Replies \cup {"len", "data", "crc"}, up : Up]
Byte(op) == <<[op |-> op, up |-> -1]>>
Bytes(op, u, k) == [i \in 1 .. k |-> [op |-> op, up |-> u]]
After(s, k) == SubSeq(s, k + 1, Len(s))       \* empty when k exceeds Len(s)

(* The buffer holds the chirp of upload u, all of it and nothing else. *)
Holds(u) == need = 0 /\ held = {u}

Init ==
    /\ fw = "loop" /\ serial_error = FALSE /\ need = 0 /\ held = {}
    /\ hpc = "idle" /\ goal = "max" /\ known = FALSE
    /\ chirp_uploaded = FALSE /\ left = 0 /\ up = 0
    /\ toFw = <<>> /\ toHost = <<>>
    /\ calm = FALSE /\ failed = FALSE /\ fresh = FALSE
-----------------------------------------------------------------------------
(* Firmware: loop()                                                        *)

Say(bytes) == toHost' = toHost \o bytes

(* What the switch takes a byte for: left-over data may have any value.    *)
ReadAs(token) == IF token.op \in Commands THEN {token.op}
                 ELSE Commands \cup {"ACK", "other"}

(* The end of a pass: drain if there was an error, in this pass or the last*)
PassEnds(error) == /\ serial_error' = error
                   /\ fw' = IF error THEN "drain" ELSE "loop"

(* "return" from within a case: the pass after this one drains.            *)
Fail(reply) == /\ Say(Byte(reply))
               /\ serial_error' = TRUE
               /\ fw' = "loop"

Obey(cmd) ==
    \/ cmd = "ACK" /\ PassEnds(serial_error) /\ UNCHANGED toHost
    \/ /\ cmd \in {"ACK_REQ", "EMIT_CHIRP"}
       /\ Say(Byte("ACK"))
       /\ PassEnds(serial_error)
    \/ cmd = "CHIRP_DATA" /\ fw' = "len" /\ UNCHANGED <<serial_error, toHost>>
    \/ /\ cmd \in {"GET_MAX", "other"}
       /\ Say(Byte(IF cmd = "GET_MAX" THEN "MAX" ELSE "ERROR"))
       /\ PassEnds(TRUE)

Command ==
    /\ fw = "loop" /\ toFw # <<>>
    /\ \E cmd \in ReadAs(Head(toFw)) : Obey(cmd)
    /\ toFw' = Tail(toFw)
    /\ UNCHANGED <<need, held>>

NoCommand ==
    /\ fw = "loop" /\ toFw = <<>> /\ serial_error
    /\ fw' = "drain"
    /\ UNCHANGED <<serial_error, need, held, wires>>

(* The buffer is cleared when the length is accepted. *)
Accept(k, from) ==
    /\ Say(Bytes("len", from, 2) \o Byte("ACK"))
    /\ need' = 2 * k
    /\ held' = IF from = -1 THEN {-1} ELSE {}
    /\ fw' = IF k = 0 THEN "crc" ELSE "data"
    /\ UNCHANGED serial_error

Refuse == Fail("TOO_LONG") /\ UNCHANGED <<need, held>>

(* Both length bytes are read when one is there; one that is missing is    *)
(* 0xFF.  Bytes that were no length make some length, or one too long.     *)
IsLength(s) == Len(s) >= 2 /\ s[1].op = "len" /\ s[2].op = "len"
GetLength ==
    /\ fw = "len" /\ toFw # <<>>
    /\ \/ IsLength(toFw) /\ Accept(Chunks, toFw[1].up)
       \/ ~IsLength(toFw) /\ Refuse
       \/ /\ ~IsLength(toFw) /\ Len(toFw) >= 2
          /\ \E k \in {0, 1, Chunks + 1} : Accept(k, -1)
    /\ toFw' = After(toFw, 2)

Sources(s) == { IF s[i].op = "data" THEN s[i].up ELSE -1 : i \in 1 .. 2 }
GetSample ==
    /\ fw = "data" /\ need > 0 /\ Len(toFw) >= 2
    /\ toFw' = After(toFw, 2)
    /\ held' = held \cup Sources(toFw)
    /\ need' = need - 2
    /\ fw' = IF need' = 0 THEN "crc" ELSE "data"
    /\ UNCHANGED <<serial_error, toHost>>

(* Expects ACK_REQ; answers with the CRC of what it holds. *)
SendCrc ==
    /\ fw = "crc" /\ toFw # <<>>
    /\ toFw' = Tail(toFw)
    /\ \/ /\ "ACK_REQ" \in ReadAs(Head(toFw))
          /\ Say(Byte("ACK")
                 \o Bytes("crc", IF \E u \in Up : held = {u}
                                 THEN CHOOSE u \in Up : held = {u} ELSE -1, 4))
          /\ PassEnds(serial_error)
       \/ /\ Head(toFw).op # "ACK_REQ"
          /\ Fail("ERROR")
    /\ UNCHANGED <<need, held>>

(* delay(5), then whatever has arrived is thrown away. *)
Drain == fw = "drain" /\ fw' = "loop" /\ toFw' = <<>> /\ serial_error' = FALSE
         /\ UNCHANGED <<need, held, toHost>>

Starved == \/ fw = "loop" /\ toFw = <<>> /\ ~serial_error
           \/ fw \in {"len", "crc"} /\ toFw = <<>>
           \/ fw = "data" /\ Len(toFw) < 2

Firmware == /\ Command \/ NoCommand \/ GetLength \/ GetSample \/ SendCrc \/ Drain
            /\ UNCHANGED <<hostVars, observers>>

-----------------------------------------------------------------------------
(* Host                                                                    *)

(* What a read waits for: get_cmd one byte, read(2), read(4). *)
Wanted == IF hpc = "len" THEN 2 ELSE IF hpc = "crc" THEN 4 ELSE 1
Reads == hpc \in Waits \ {"sending"}
Take == toHost' = After(toHost, Wanted)
Ask(bytes) == toFw' = toFw \o bytes

(* The call ends: with its work done, or with False, None or an exception. *)
Return(ok) ==
    /\ hpc' = "idle"
    /\ failed' = ~ok

ConnectUncleared ==                                            \* a mutant
    /\ UNCHANGED toHost
    /\ Ask(Byte("ACK_REQ"))
    /\ hpc' = "status"
(* connection_status: closing and opening the port clears its input.       *)
Connect ==
    /\ toHost' = <<>>
    /\ Ask(Byte("ACK_REQ"))
    /\ hpc' = "status"

Rest == fw = "loop" /\ toFw = <<>> /\ ~serial_error
Call ==
    /\ hpc = "idle"
    /\ Connect
    /\ goal' \in {"chirp", "max"} \cup (IF up < Uploads THEN {"upload"} ELSE {})
    /\ calm' = (Rest /\ (goal' = "upload" => known))
    /\ failed' = FALSE
    /\ UNCHANGED <<fwVars, known, chirp_uploaded, left, up, fresh>>

(* The upload proper, with the length of its chirp known to fit. *)
BeginUpload ==
    /\ up' = up + 1
    /\ Ask(Byte("CHIRP_DATA") \o Bytes("len", up', 2))
    /\ left' = Chunks
    /\ fresh' = FALSE
    /\ hpc' = "len"

(* What is written once the firmware has answered.  An upload that does not*)
(* know the maximum has get_max asked for it, which connects once more.    *)
Connected ==
    /\ hpc = "status" /\ toHost # <<>>
    /\ \/ /\ Head(toHost).op # "ACK"
          /\ Take /\ Return(FALSE)
          /\ UNCHANGED <<toFw, goal, up, left, fresh>>
       \/ /\ Head(toHost).op = "ACK"
          /\ goal = "upload" /\ ~known
          /\ goal' = "max first"
          /\ Connect
          /\ UNCHANGED <<up, left, failed, fresh>>
       \/ /\ Head(toHost).op = "ACK"
          /\ goal = "upload" /\ known
          /\ Take /\ BeginUpload
          /\ UNCHANGED <<goal, failed>>
       \/ /\ Head(toHost).op = "ACK"
          /\ goal # "upload"
          /\ Take
          /\ Ask(Byte(IF goal = "chirp" THEN "EMIT_CHIRP" ELSE "GET_MAX"))
          /\ hpc' = IF goal = "chirp" THEN "emitted" ELSE "max"
          /\ UNCHANGED <<goal, up, left, failed, fresh>>
    /\ UNCHANGED <<known, chirp_uploaded>>

(* get_max_chirp_uint16_length, alone or on the way to an upload, which    *)
(* goes on at once, or cannot compare with None.                           *)
GotMax ==
    /\ hpc = "max" /\ toHost # <<>> /\ Take
    /\ known' = (known \/ Head(toHost).op = "MAX")
    /\ IF goal = "max first" /\ known'
       THEN BeginUpload /\ UNCHANGED failed
       ELSE /\ Return(Head(toHost).op = "MAX")
            /\ UNCHANGED <<toFw, up, left, fresh>>
    /\ UNCHANGED <<goal, chirp_uploaded>>

(* The length comes back, or two other bytes that may be the same number,  *)
(* as the lengths of two chirps often are.  If not, one more byte is read. *)
GotLength ==
    /\ hpc = "len" /\ Len(toHost) >= 2
    /\ \/ Take /\ hpc' = "ack" /\ UNCHANGED failed
       \/ /\ toHost[1] # [op |-> "len", up |-> up]
          /\ toHost' = After(toHost, 3) /\ Return(FALSE)
    /\ UNCHANGED <<toFw, goal, known, chirp_uploaded, left, up, fresh>>

GotAck ==
    /\ hpc = "ack" /\ toHost # <<>> /\ Take
    /\ IF Head(toHost).op = "ACK"
       THEN hpc' = "sending" /\ UNCHANGED <<failed, chirp_uploaded>>
       ELSE Return(FALSE) /\ chirp_uploaded' = FALSE
    /\ UNCHANGED <<toFw, goal, known, left, up, fresh>>

OneMoreToSend == left >= 0                                     \* a mutant
MoreToSend == left > 0
SendChunk ==
    /\ hpc = "sending" /\ MoreToSend
    /\ Ask(Bytes("data", up, 2))
    /\ left' = left - 1
    /\ UNCHANGED <<toHost, hpc, goal, known, chirp_uploaded, up, failed, fresh>>

AskForCrc ==
    /\ hpc = "sending" /\ ~MoreToSend
    /\ Ask(Byte("ACK_REQ"))
    /\ hpc' = "done"
    /\ UNCHANGED <<toHost, goal, known, chirp_uploaded, left, up, failed, fresh>>

GotDone ==
    /\ hpc = "done" /\ toHost # <<>> /\ Take
    /\ IF Head(toHost).op = "ACK"
       THEN hpc' = "crc" /\ UNCHANGED <<failed, chirp_uploaded>>
       ELSE Return(FALSE) /\ chirp_uploaded' = FALSE
    /\ UNCHANGED <<toFw, goal, known, left, up, fresh>>

AnyCrc(token) == TRUE                                          \* a mutant
RightCrc(token) == token = [op |-> "crc", up |-> up]
GotCrc ==
    /\ hpc = "crc" /\ Len(toHost) >= 4 /\ Take
    /\ Return(RightCrc(toHost[1]))
    /\ chirp_uploaded' = RightCrc(toHost[1])
    /\ fresh' = RightCrc(toHost[1])
    /\ UNCHANGED <<toFw, goal, known, left, up>>

GotEmitted ==
    /\ hpc = "emitted" /\ toHost # <<>> /\ Take
    /\ Return(Head(toHost).op = "ACK")
    /\ UNCHANGED <<toFw, goal, known, chirp_uploaded, left, up, fresh>>

(* 0.5 s pass: nothing comes from a firmware that waits for more itself.   *)
(* Only where get_cmd finds no ACK is the flag reset; a short read of the  *)
(* length or the CRC ends in an IndexError.                                *)
Hung == Reads /\ Len(toHost) < Wanted /\ Starved
TimedOut ==
    /\ Hung
    /\ toHost' = <<>>
    /\ chirp_uploaded' = (chirp_uploaded /\ hpc \notin {"ack", "done"})
    /\ Return(FALSE)
    /\ UNCHANGED <<toFw, goal, known, left, up, fresh>>

Answered == /\ Connected \/ GotMax \/ GotLength \/ GotAck \/ SendChunk
               \/ AskForCrc \/ GotDone \/ GotCrc \/ GotEmitted
            /\ UNCHANGED <<fwVars, calm>>
NoCrcTimeout == hpc # "crc" /\ TimedOut /\ UNCHANGED <<fwVars, calm>> \* a mutant
GivesUp == TimedOut /\ UNCHANGED <<fwVars, calm>>
-----------------------------------------------------------------------------
(* Time, and what goes wrong                                               *)

(* A mutant: the wait for the ACK_REQ has no limit. *)
FwLateTimeout ==
    /\ fw \in {"len", "data"} /\ Starved
    /\ (hpc = "idle" \/ Hung)
    /\ Fail(IF fw = "len" THEN "TOO_LONG" ELSE "ERROR")
    /\ UNCHANGED <<need, held, toFw, hostVars, observers>>

(* 2 s pass: the host is at rest, or hangs in a read itself. *)
FwTimeout ==
    /\ fw \in {"len", "data", "crc"} /\ Starved
    /\ (hpc = "idle" \/ Hung)
    /\ Fail(IF fw = "len" THEN "TOO_LONG" ELSE "ERROR")
    /\ UNCHANGED <<need, held, toFw, hostVars, observers>>

(* A chirp whose length is no multiple of ten samples: an IndexError in the*)
(* last write.                                                             *)
BreakOff ==
    /\ hpc = "sending" /\ left = 1
    /\ Return(FALSE)
    /\ calm' = FALSE
    /\ UNCHANGED <<fwVars, goal, known, chirp_uploaded, left, up, wires, fresh>>

(* The program is started anew.  That takes longer than the firmware needs *)
(* for what was written.                                                   *)
HostRestart ==
    /\ Starved
    /\ hpc' = "idle" /\ known' = FALSE /\ chirp_uploaded' = FALSE
    /\ toHost' = <<>>
    /\ calm' = FALSE /\ failed' = FALSE /\ fresh' = FALSE
    /\ UNCHANGED <<fwVars, goal, left, up, toFw>>

(* The board is reset, and nobody tells the host. *)
FwRestart ==
    /\ fw' = "loop" /\ serial_error' = FALSE /\ need' = 0 /\ held' = {}
    /\ toFw' = <<>> /\ toHost' = <<>>
    /\ calm' = FALSE /\ fresh' = FALSE
    /\ UNCHANGED <<hostVars, failed>>
-----------------------------------------------------------------------------
Next == Firmware \/ FwTimeout \/ Call \/ Answered \/ GivesUp
        \/ BreakOff \/ HostRestart \/ FwRestart

(* loop() runs for ever, both sides' timeouts run out, a host that has its *)
(* answer goes on.                                                         *)
Fairness == /\ WF_vars(Firmware) /\ WF_vars(FwTimeout)
            /\ WF_vars(Answered) /\ WF_vars(GivesUp)
Spec == Init /\ [][Next]_vars
FairSpec == Spec /\ Fairness
-----------------------------------------------------------------------------
(* Properties                                                              *)

TypeOK ==
    /\ fw \in {"loop", "len", "data", "crc", "drain"}
    /\ serial_error \in BOOLEAN
    /\ need \in 0 .. 2 * (Chunks + 1) /\ held \subseteq Up
    /\ hpc \in Waits \cup {"idle"} /\ goal \in Goals /\ known \in BOOLEAN
    /\ chirp_uploaded \in BOOLEAN
    /\ left \in 0 .. Chunks /\ up \in 0 .. Uploads
    /\ toFw \in Seq(Token) /\ toHost \in Seq(Token)
    /\ calm \in BOOLEAN /\ failed \in BOOLEAN /\ fresh \in BOOLEAN

(* After an upload that was verified, and until another is tried, the      *)
(* buffer holds that chirp and chirp_uploaded says so: no left-over byte of*)
(* an earlier exchange, read as a command, changes it.                     *)
Verified == fresh => chirp_uploaded /\ Holds(up)

(* A call that begins with the firmware at rest does its work: neither     *)
(* side's timeout, nor the firmware's draining, comes between, whatever    *)
(* happened before.                                                        *)
CalmCallsSucceed == calm => ~failed

(* Left alone, the firmware comes back to rest from every broken exchange, *)
(* unless the host begins another call first.                              *)
FwRecovers == (~Rest) ~> (Rest \/ hpc # "idle")

(* Every call of the class returns. *)
CallReturns == (hpc # "idle") ~> (hpc = "idle")
=============================================================================
