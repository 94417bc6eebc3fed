------------------------- MODULE EchoEmitterProofs -------------------------
(***************************************************************************)
(* EchoEmitter for chirps of any length: types, what a call meets that     *)
(* begins with the firmware at rest, and that a chirp the host was told is *)
(* good is the one in the buffer.                                          *)
(***************************************************************************)
EXTENDS EchoEmitter, TLAPS

Ops == Commands \cup Replies \cup {"len", "data", "crc"}
Even == \E j \in 0 .. Chunks + 1 : need = 2 * j

-----------------------------------------------------------------------------
(* Sequences of tokens                                                     *)

LEMMA ByteType == ASSUME NEW op \in Ops PROVE Byte(op) \in Seq(Token)
<1>1. -1 \in Up
  BY UploadsAssumption DEF Up
<1> QED  BY <1>1 DEF Byte, Token, Ops

LEMMA BytesType == ASSUME NEW op \in Ops, NEW u \in Up, NEW k \in Nat
    PROVE  /\ Bytes(op, u, k) \in Seq(Token) /\ Len(Bytes(op, u, k)) = k
           /\ \A i \in 1 .. k : Bytes(op, u, k)[i] = [op |-> op, up |-> u]
<1>1. [op |-> op, up |-> u] \in Token
  BY DEF Token, Ops
<1> QED  BY <1>1 DEF Bytes

LEMMA AfterType == ASSUME NEW s \in Seq(Token), NEW k \in Nat
    PROVE  /\ After(s, k) \in Seq(Token)
           /\ Len(s) >= k => Len(After(s, k)) = Len(s) - k
           /\ \A i \in 1 .. Len(After(s, k)) : After(s, k)[i] = s[i + k]
<1>1. CASE Len(s) >= k
  BY <1>1 DEF After
<1>2. CASE Len(s) < k
  BY <1>2 DEF After
<1> QED  BY <1>1, <1>2

LEMMA EmptySequence == ASSUME NEW s \in Seq(Token), Len(s) = 0 PROVE s = <<>>
OBVIOUS

LEMMA HeadIsFirst == ASSUME NEW s \in Seq(Token), Len(s) >= 1
                     PROVE  s # <<>> /\ Head(s) = s[1]
<1>1. Len(<<>>) = 0
  OBVIOUS
<1>2. s # <<>>
  BY <1>1
<1>3. Head(s) = s[1]
  BY <1>2
<1> QED  BY <1>2, <1>3

LEMMA TailType == ASSUME NEW s \in Seq(Token), s # <<>>
                  PROVE  Tail(s) \in Seq(Token) /\ Len(Tail(s)) = Len(s) - 1
OBVIOUS

LEMMA ConcatType == ASSUME NEW s \in Seq(Token), NEW t \in Seq(Token)
                    PROVE  s \o t \in Seq(Token)
OBVIOUS

LEMMA ConcatAt == ASSUME NEW s \in Seq(Token), NEW t \in Seq(Token)
    PROVE  /\ Len(s \o t) = Len(s) + Len(t)
           /\ \A i \in 1 .. Len(s) + Len(t) :
                 (s \o t)[i] = IF i <= Len(s) THEN s[i] ELSE t[i - Len(s)]
OBVIOUS

(* A call that may come to an upload has a number left for it. *)
Room == hpc \in {"status", "max"} /\ goal \in {"upload", "max first"} => up < Uploads

LEMMA UpType == ASSUME TypeOK
                PROVE  /\ up \in Up \ {-1} /\ up \in Nat
                       /\ up < Uploads => up + 1 \in Up \ {-1} /\ up + 1 \in 0 .. Uploads
BY UploadsAssumption DEF TypeOK, Up

-----------------------------------------------------------------------------
(* Types                                                                   *)

FwType == /\ fw \in {"loop", "len", "data", "crc", "drain"}
          /\ serial_error \in BOOLEAN
          /\ need \in 0 .. 2 * (Chunks + 1) /\ held \subseteq Up
          /\ toFw \in Seq(Token) /\ toHost \in Seq(Token)
          /\ Even

LEMMA PassEndsType == ASSUME NEW error \in BOOLEAN, PassEnds(error)
    PROVE  fw' \in {"loop", "drain"} /\ serial_error' \in BOOLEAN
BY DEF PassEnds

LEMMA FailType == ASSUME TypeOK, NEW reply \in Replies, Fail(reply)
    PROVE  fw' = "loop" /\ serial_error' \in BOOLEAN /\ toHost' \in Seq(Token)
<1>1. toHost' = toHost \o Byte(reply) /\ fw' = "loop" /\ serial_error' = TRUE
  BY DEF Fail, Say
<1> QED  BY <1>1, ByteType, ConcatType DEF Ops, TypeOK

LEMMA CommandType == ASSUME TypeOK, Even, Command PROVE FwType'
<1>1. PICK cmd \in ReadAs(Head(toFw)) : Obey(cmd)
  BY DEF Command
<1>2. toFw' \in Seq(Token) /\ need' = need /\ held' = held
  BY DEF Command, TypeOK
<1>3. fw' \in {"loop", "len", "drain"} /\ serial_error' \in BOOLEAN
      /\ toHost' \in Seq(Token)
  <2>1. CASE cmd = "ACK" /\ PassEnds(serial_error) /\ UNCHANGED toHost
    BY <2>1, PassEndsType DEF TypeOK
  <2>2. CASE cmd \in {"ACK_REQ", "EMIT_CHIRP"} /\ Say(Byte("ACK"))
             /\ PassEnds(serial_error)
    <3>1. Byte("ACK") \in Seq(Token)
      BY ByteType DEF Ops, Replies
    <3>2. toHost' \in Seq(Token)
      BY <2>2, <3>1, ConcatType DEF Say, TypeOK
    <3> QED  BY <2>2, <3>2, PassEndsType DEF TypeOK
  <2>3. CASE cmd = "CHIRP_DATA" /\ fw' = "len" /\ UNCHANGED <<serial_error, toHost>>
    BY <2>3 DEF TypeOK
  <2>4. CASE /\ cmd \in {"GET_MAX", "other"}
             /\ Say(Byte(IF cmd = "GET_MAX" THEN "MAX" ELSE "ERROR"))
             /\ PassEnds(TRUE)
    <3>1. (IF cmd = "GET_MAX" THEN "MAX" ELSE "ERROR") \in Ops
      BY DEF Ops, Replies
    <3>2. Byte(IF cmd = "GET_MAX" THEN "MAX" ELSE "ERROR") \in Seq(Token)
      BY <3>1, ByteType
    <3> QED  BY <2>4, <3>2, PassEndsType, ConcatType DEF TypeOK, Say
  <2> QED  BY <1>1, <2>1, <2>2, <2>3, <2>4 DEF Obey
<1> QED  BY <1>2, <1>3 DEF TypeOK, FwType, Even

LEMMA AcceptType == ASSUME TypeOK, NEW k \in 0 .. Chunks + 1, NEW from \in Up,
                           Accept(k, from)
    PROVE  /\ fw' \in {"crc", "data"} /\ serial_error' = serial_error
           /\ need' \in 0 .. 2 * (Chunks + 1) /\ Even'
           /\ held' \subseteq Up /\ toHost' \in Seq(Token)
<1>1. need' = 2 * k
  BY DEF Accept
<1>2. need' \in 0 .. 2 * (Chunks + 1) /\ Even'
  BY <1>1, ChunksAssumption DEF Even
<1>3. Bytes("len", from, 2) \o Byte("ACK") \in Seq(Token)
  BY ByteType, BytesType, ConcatType DEF Ops, Replies
<1>4. toHost' \in Seq(Token)
  BY <1>3, ConcatType DEF Accept, Say, TypeOK
<1>5. held' \subseteq Up
  BY UploadsAssumption DEF Accept, Up
<1> QED  BY <1>2, <1>4, <1>5 DEF Accept

LEMMA GetLengthType == ASSUME TypeOK, Even, GetLength PROVE FwType'
<1>1. toFw' \in Seq(Token)
  BY AfterType DEF GetLength, TypeOK
<1>2. CASE IsLength(toFw) /\ Accept(Chunks, toFw[1].up)
  <2>1. toFw[1].up \in Up
    <3>1. toFw \in Seq(Token) /\ Len(toFw) >= 2
      BY <1>2 DEF IsLength, TypeOK
    <3>2. toFw[1] \in Token
      BY <3>1
    <3> QED  BY <3>2 DEF Token
  <2> QED  BY <1>1, <1>2, <2>1, AcceptType, ChunksAssumption DEF TypeOK, FwType
<1>3. CASE Refuse
  BY <1>1, <1>3, FailType DEF Refuse, Replies, TypeOK, FwType, Even
<1>4. CASE \E k \in {0, 1, Chunks + 1} : Accept(k, -1)
  <2>1. PICK k \in {0, 1, Chunks + 1} : Accept(k, -1)
    BY <1>4
  <2>2. k \in 0 .. Chunks + 1 /\ -1 \in Up
    BY ChunksAssumption, UploadsAssumption DEF Up
  <2> QED  BY <1>1, <2>1, <2>2, AcceptType DEF TypeOK, FwType
<1> QED  BY <1>2, <1>3, <1>4 DEF GetLength

LEMMA SourcesType == ASSUME NEW s \in Seq(Token), Len(s) >= 2
                     PROVE  Sources(s) \subseteq Up
<1>1. \A i \in 1 .. 2 : s[i] \in Token
  OBVIOUS
<1>2. -1 \in Up
  BY UploadsAssumption DEF Up
<1> QED  BY <1>1, <1>2 DEF Sources, Token

LEMMA GetSampleType == ASSUME TypeOK, Even, GetSample PROVE FwType'
<1>1. toFw' \in Seq(Token) /\ held' \subseteq Up
  <2>1. toFw' = After(toFw, 2) /\ held' = held \cup Sources(toFw)
        /\ Len(toFw) >= 2
    BY DEF GetSample
  <2>2. toFw \in Seq(Token) /\ held \subseteq Up
    BY DEF TypeOK
  <2> QED  BY <2>1, <2>2, AfterType, SourcesType
<1>2. need' \in 0 .. 2 * (Chunks + 1) /\ Even'
  <2>1. PICK j \in 0 .. Chunks + 1 : need = 2 * j
    BY DEF Even
  <2>2. j - 1 \in 0 .. Chunks + 1 /\ need' = 2 * (j - 1)
    BY <2>1, ChunksAssumption DEF GetSample
  <2> QED  BY <2>2, ChunksAssumption DEF Even
<1> QED  BY <1>1, <1>2 DEF GetSample, FwType, TypeOK

LEMMA SendCrcType == ASSUME TypeOK, Even, SendCrc PROVE FwType'
<1>1. toFw' \in Seq(Token) /\ need' = need /\ held' = held
  BY DEF SendCrc, TypeOK
<1> DEFINE u == IF \E v \in Up : held = {v} THEN CHOOSE v \in Up : held = {v} ELSE -1
<1>2. u \in Up
  BY UploadsAssumption DEF Up
<1>3. CASE /\ Say(Byte("ACK") \o Bytes("crc", u, 4))
           /\ PassEnds(serial_error)
  <2> HIDE DEF u
  <2>1. Byte("ACK") \o Bytes("crc", u, 4) \in Seq(Token)
    BY <1>2, ByteType, BytesType, ConcatType DEF Ops, Replies
  <2>2. toHost' \in Seq(Token)
    BY <1>3, <2>1, ConcatType DEF Say, TypeOK
  <2> QED  BY <1>1, <1>3, <2>2, PassEndsType DEF FwType, TypeOK, Even
<1>4. CASE Fail("ERROR")
  BY <1>1, <1>4, FailType DEF Replies, FwType, TypeOK, Even
<1> QED  BY <1>3, <1>4 DEF SendCrc

LEMMA FirmwareType == ASSUME TypeOK, Even, Firmware PROVE TypeOK' /\ Even'
<1>1. ASSUME Drain \/ NoCommand PROVE FwType'
  <2>1. serial_error' \in BOOLEAN
    BY <1>1 DEF Drain, NoCommand, TypeOK
  <2>2. fw' \in {"loop", "drain"} /\ UNCHANGED <<need, held, toHost>>
        /\ toFw' \in {toFw, <<>>}
    BY <1>1 DEF Drain, NoCommand, wires
  <2>3. toFw' \in Seq(Token)
    <3>1. toFw \in Seq(Token) /\ <<>> \in Seq(Token)
      BY DEF TypeOK
    <3> QED  BY <2>2, <3>1
  <2>4. need' = need /\ held' = held /\ toHost' = toHost
    BY <2>2
  <2>5. fw' \in {"loop", "len", "data", "crc", "drain"}
    BY <2>2
  <2>6. need' \in 0 .. 2 * (Chunks + 1) /\ held' \subseteq Up
        /\ toHost' \in Seq(Token)
    BY <2>4 DEF TypeOK
  <2>7. Even'
    BY <2>4 DEF Even
  <2> QED  BY <2>1, <2>3, <2>5, <2>6, <2>7 DEF FwType
<1>2. CASE FwType'
  BY <1>2 DEF FwType, Firmware, TypeOK, hostVars, observers
<1> QED
  BY <1>1, <1>2, CommandType, GetLengthType, GetSampleType, SendCrcType DEF Firmware

HostType == /\ hpc \in Waits \cup {"idle"} /\ goal \in Goals /\ known \in BOOLEAN
            /\ chirp_uploaded \in BOOLEAN
            /\ left \in 0 .. Chunks /\ up \in 0 .. Uploads
            /\ toFw \in Seq(Token) /\ toHost \in Seq(Token)
            /\ failed \in BOOLEAN /\ fresh \in BOOLEAN

LEMMA AskType == ASSUME TypeOK, NEW bytes \in Seq(Token), Ask(bytes)
                 PROVE  toFw' \in Seq(Token)
BY ConcatType DEF Ask, TypeOK

LEMMA TakeType == ASSUME TypeOK, Take PROVE toHost' \in Seq(Token)
<1>1. Wanted \in Nat
  BY DEF Wanted
<1> QED  BY <1>1, AfterType DEF Take, TypeOK

LEMMA ReturnType == ASSUME NEW ok \in BOOLEAN, Return(ok)
                    PROVE  hpc' = "idle" /\ failed' \in BOOLEAN
BY DEF Return

LEMMA ConnectType == ASSUME TypeOK, Connect
    PROVE  hpc' = "status" /\ toFw' \in Seq(Token) /\ toHost' \in Seq(Token)
<1>1. Byte("ACK_REQ") \in Seq(Token)
  BY ByteType DEF Ops, Commands
<1> QED  BY <1>1, AskType DEF Connect

LEMMA BeginUploadType == ASSUME TypeOK, up < Uploads, BeginUpload
    PROVE  /\ up' \in 0 .. Uploads /\ toFw' \in Seq(Token)
           /\ left' \in 0 .. Chunks /\ fresh' \in BOOLEAN /\ hpc' = "len"
<1>1. up' \in 0 .. Uploads /\ up' \in Up
  BY UpType DEF BeginUpload
<1>2. Byte("CHIRP_DATA") \o Bytes("len", up', 2) \in Seq(Token)
  BY <1>1, ByteType, BytesType, ConcatType DEF Ops, Commands
<1>3. toFw' \in Seq(Token)
  BY <1>2, AskType DEF BeginUpload
<1>4. left' \in 0 .. Chunks
  BY ChunksAssumption DEF BeginUpload
<1> QED  BY <1>1, <1>3, <1>4 DEF BeginUpload

LEMMA ConnectedType == ASSUME TypeOK, Room, Connected PROVE HostType'
<1>1. known' \in BOOLEAN /\ chirp_uploaded' \in BOOLEAN
  BY DEF Connected, TypeOK
<1>2. CASE Take /\ Return(FALSE) /\ UNCHANGED <<toFw, goal, up, left, fresh>>
  BY <1>1, <1>2, TakeType, ReturnType DEF HostType, TypeOK
<1>3. CASE goal' = "max first" /\ Connect /\ UNCHANGED <<up, left, failed, fresh>>
  BY <1>1, <1>3, ConnectType DEF HostType, TypeOK, Goals, Waits
<1>4. CASE goal = "upload" /\ Take /\ BeginUpload /\ UNCHANGED <<goal, failed>>
  <2>1. up < Uploads
    BY <1>4 DEF Room, Connected
  <2> QED
    BY <1>1, <1>4, <2>1, TakeType, BeginUploadType DEF HostType, TypeOK, Waits
<1>5. CASE /\ Take
           /\ Ask(Byte(IF goal = "chirp" THEN "EMIT_CHIRP" ELSE "GET_MAX"))
           /\ hpc' = IF goal = "chirp" THEN "emitted" ELSE "max"
           /\ UNCHANGED <<goal, up, left, failed, fresh>>
  <2>1. (IF goal = "chirp" THEN "EMIT_CHIRP" ELSE "GET_MAX") \in Ops
    BY DEF Ops, Commands
  <2>2. toFw' \in Seq(Token)
    BY <1>5, <2>1, ByteType, AskType
  <2>3. hpc' \in Waits
    BY <1>5 DEF Waits
  <2> QED  BY <1>1, <1>5, <2>2, <2>3, TakeType DEF HostType, TypeOK
<1> QED  BY <1>2, <1>3, <1>4, <1>5 DEF Connected

LEMMA GotMaxType == ASSUME TypeOK, Room, GotMax PROVE HostType'
<1>1. known' \in BOOLEAN /\ toHost' \in Seq(Token) /\ goal' \in Goals
      /\ chirp_uploaded' \in BOOLEAN
  BY TakeType DEF GotMax, TypeOK
<1>2. CASE goal = "max first" /\ BeginUpload /\ UNCHANGED failed
  <2>1. up < Uploads
    BY <1>2 DEF Room, GotMax
  <2> QED  BY <1>1, <1>2, <2>1, BeginUploadType DEF HostType, TypeOK, Waits
<1>3. CASE Return(Head(toHost).op = "MAX") /\ UNCHANGED <<toFw, up, left, fresh>>
  BY <1>1, <1>3, ReturnType DEF HostType, TypeOK
<1> QED  BY <1>2, <1>3 DEF GotMax

LEMMA GotLengthType == ASSUME TypeOK, GotLength PROVE HostType'
<1>1. toHost' \in Seq(Token)
  BY TakeType, AfterType DEF GotLength, TypeOK
<1>2. hpc' \in Waits \cup {"idle"} /\ failed' \in BOOLEAN
  BY ReturnType DEF GotLength, TypeOK, Waits
<1> QED  BY <1>1, <1>2 DEF GotLength, HostType, TypeOK

LEMMA GotAckType == ASSUME TypeOK, GotAck \/ GotDone PROVE HostType'
<1>1. toHost' \in Seq(Token)
  BY TakeType DEF GotAck, GotDone
<1>2. hpc' \in Waits \cup {"idle"} /\ failed' \in BOOLEAN
      /\ chirp_uploaded' \in BOOLEAN
  BY ReturnType DEF GotAck, GotDone, TypeOK, Waits
<1> QED  BY <1>1, <1>2 DEF GotAck, GotDone, HostType, TypeOK

LEMMA SendType == ASSUME TypeOK, SendChunk \/ AskForCrc PROVE HostType'
<1>1. Bytes("data", up, 2) \in Seq(Token) /\ Byte("ACK_REQ") \in Seq(Token)
  BY UpType, BytesType, ByteType DEF Ops, Commands
<1>2. toFw' \in Seq(Token)
  BY <1>1, AskType DEF SendChunk, AskForCrc
<1>3. left' \in 0 .. Chunks
  BY ChunksAssumption DEF SendChunk, AskForCrc, MoreToSend, TypeOK
<1> QED  BY <1>2, <1>3 DEF SendChunk, AskForCrc, HostType, TypeOK, Waits

LEMMA GotCrcType == ASSUME TypeOK, GotCrc \/ GotEmitted PROVE HostType'
<1>1. toHost' \in Seq(Token)
  BY TakeType DEF GotCrc, GotEmitted
<1>2. hpc' = "idle" /\ failed' \in BOOLEAN
  BY ReturnType DEF GotCrc, GotEmitted, RightCrc
<1>3. chirp_uploaded' \in BOOLEAN /\ fresh' \in BOOLEAN
  BY DEF GotCrc, GotEmitted, RightCrc, TypeOK
<1> QED  BY <1>1, <1>2, <1>3 DEF GotCrc, GotEmitted, HostType, TypeOK

LEMMA TimedOutType == ASSUME TypeOK, TimedOut PROVE HostType'
<1>1. hpc' = "idle" /\ failed' \in BOOLEAN
  BY ReturnType DEF TimedOut
<1>2. chirp_uploaded' \in BOOLEAN
  BY DEF TimedOut, TypeOK
<1> QED  BY <1>1, <1>2 DEF TimedOut, HostType, TypeOK

LEMMA TypeStep == ASSUME TypeOK, Even, Room, [Next]_vars PROVE TypeOK' /\ Even'
<1>1. CASE Firmware
  BY <1>1, FirmwareType
<1>2. ASSUME HostType', UNCHANGED <<fwVars, calm>> PROVE TypeOK' /\ Even'
  BY <1>2 DEF HostType, TypeOK, Even, fwVars
<1>3. CASE Answered
  BY <1>2, <1>3, ConnectedType, GotMaxType, GotLengthType, GotAckType, SendType,
     GotCrcType DEF Answered
<1>4. CASE GivesUp
  BY <1>2, <1>4, TimedOutType DEF GivesUp
<1>5. CASE FwTimeout
  <2>1. (IF fw = "len" THEN "TOO_LONG" ELSE "ERROR") \in Replies
    BY DEF Replies
  <2>2. fw' = "loop" /\ serial_error' \in BOOLEAN /\ toHost' \in Seq(Token)
    BY <1>5, <2>1, FailType DEF FwTimeout
  <2> QED  BY <1>5, <2>2 DEF FwTimeout, TypeOK, Even, hostVars, observers
<1>6. CASE Call
  <2>1. hpc' = "status" /\ toFw' \in Seq(Token) /\ toHost' \in Seq(Token)
    BY <1>6, ConnectType DEF Call
  <2>2. goal' \in Goals
    BY <1>6 DEF Call, Goals
  <2>3. calm' \in BOOLEAN /\ failed' \in BOOLEAN
    BY <1>6 DEF Call
  <2> QED  BY <1>6, <2>1, <2>2, <2>3 DEF Call, TypeOK, Even, fwVars, Waits
<1>7. CASE BreakOff
  <2>1. hpc' = "idle" /\ failed' \in BOOLEAN /\ calm' \in BOOLEAN
    BY <1>7, ReturnType DEF BreakOff
  <2> QED  BY <1>7, <2>1 DEF BreakOff, TypeOK, Even, fwVars, wires
<1>8. CASE HostRestart
  <2>1. /\ known' \in BOOLEAN /\ chirp_uploaded' \in BOOLEAN /\ calm' \in BOOLEAN
        /\ failed' \in BOOLEAN /\ fresh' \in BOOLEAN
    BY <1>8 DEF HostRestart
  <2>2. hpc' = "idle" /\ toHost' \in Seq(Token)
    BY <1>8 DEF HostRestart
  <2> QED  BY <1>8, <2>1, <2>2 DEF HostRestart, TypeOK, Even, fwVars
<1>9. CASE FwRestart
  <2>1. serial_error' \in BOOLEAN /\ calm' \in BOOLEAN /\ fresh' \in BOOLEAN
    BY <1>9 DEF FwRestart
  <2>2. need' = 0 /\ fw' = "loop" /\ held' = {}
        /\ toFw' \in Seq(Token) /\ toHost' \in Seq(Token)
    BY <1>9 DEF FwRestart
  <2>3. need' \in 0 .. 2 * (Chunks + 1) /\ Even'
    BY <2>2, ChunksAssumption DEF Even
  <2> QED  BY <1>9, <2>1, <2>2, <2>3 DEF FwRestart, TypeOK, hostVars
<1>10. CASE UNCHANGED vars
  BY <1>10 DEF vars, fwVars, hostVars, wires, observers, TypeOK, Even
<1> QED  BY <1>1, <1>3, <1>4, <1>5, <1>6, <1>7, <1>8, <1>9, <1>10 DEF Next

LEMMA RoomStep == ASSUME TypeOK, Room, [Next]_vars PROVE Room'
<1>1. CASE Answered
  BY <1>1 DEF Answered, Connected, Connect, BeginUpload, GotMax, GotLength, GotAck,
              SendChunk, AskForCrc, GotDone, GotCrc, GotEmitted, Return, Room
<1>2. CASE Call
  BY <1>2 DEF Call, Connect, Room
<1>3. CASE GivesUp \/ BreakOff \/ HostRestart
  BY <1>3 DEF GivesUp, TimedOut, BreakOff, HostRestart, Return, Room
<1>4. CASE Firmware \/ FwTimeout \/ FwRestart \/ UNCHANGED vars
  BY <1>4 DEF Firmware, FwTimeout, FwRestart, vars, hostVars, Room
<1> QED  BY <1>1, <1>2, <1>3, <1>4 DEF Next

-----------------------------------------------------------------------------
(* A call that began with the firmware at rest: where both sides are and   *)
(* what is on its way, from wait to wait.                                  *)

One(s, op) == Len(s) = 1 /\ s[1].op = op
Quiet == fw = "loop" /\ ~serial_error
Len2(s) == Len(s) = 2 /\ \A i \in 1 .. 2 : s[i] = [op |-> "len", up |-> up]
Data(s, k) == \A i \in 1 .. 2 * k : s[i] = [op |-> "data", up |-> up]
Filling == /\ fw = IF need = 0 THEN "crc" ELSE "data"
           /\ held \subseteq {up}
           /\ need < 2 * Chunks => held = {up}

AtStatus == /\ hpc = "status" /\ goal \in {"chirp", "upload", "max"}
            /\ goal = "upload" => known
            /\ Quiet
            /\ \/ One(toFw, "ACK_REQ") /\ toHost = <<>>
               \/ toFw = <<>> /\ One(toHost, "ACK")
AtEmitted == /\ hpc = "emitted" /\ Quiet
             /\ \/ One(toFw, "EMIT_CHIRP") /\ toHost = <<>>
                \/ toFw = <<>> /\ One(toHost, "ACK")
AtMax == /\ hpc = "max" /\ goal = "max"
         /\ \/ Quiet /\ One(toFw, "GET_MAX") /\ toHost = <<>>
            \/ fw \in {"loop", "drain"} /\ toFw = <<>> /\ One(toHost, "MAX")
Ready == fw = "data" /\ need = 2 * Chunks /\ held = {} /\ left = Chunks
         /\ ~serial_error /\ toFw = <<>>
AtLen == /\ hpc = "len"
         /\ \/ /\ Quiet /\ left = Chunks /\ toHost = <<>>
               /\ Len(toFw) = 3 /\ toFw[1].op = "CHIRP_DATA" /\ Len2(Tail(toFw))
            \/ /\ fw = "len" /\ ~serial_error /\ left = Chunks
               /\ toHost = <<>> /\ Len2(toFw)
            \/ /\ Ready
               /\ Len(toHost) = 3 /\ toHost[3].op = "ACK"
               /\ toHost[1] = [op |-> "len", up |-> up]
AtAck == hpc = "ack" /\ Ready /\ One(toHost, "ACK")
AtSending == /\ hpc = "sending" /\ ~serial_error /\ toHost = <<>> /\ Filling
             /\ \E k \in Nat : /\ need = 2 * (left + k) /\ Len(toFw) = 2 * k
                               /\ Data(toFw, k)
Queued == /\ ~serial_error /\ toHost = <<>> /\ Filling
          /\ \E k \in Nat : /\ need = 2 * k /\ Len(toFw) = 2 * k + 1
                            /\ Data(toFw, k) /\ toFw[2 * k + 1].op = "ACK_REQ"
Sealed == /\ Quiet /\ toFw = <<>>
          /\ Len(toHost) = 5 /\ toHost[1].op = "ACK"
          /\ toHost[2] = [op |-> "crc", up |-> up]
AtDone == hpc = "done" /\ (Queued \/ Sealed)
AtCrc == /\ hpc = "crc" /\ Quiet /\ toFw = <<>>
         /\ Len(toHost) = 4 /\ toHost[1] = [op |-> "crc", up |-> up]

InCall == AtStatus \/ AtEmitted \/ AtMax \/ AtLen \/ AtAck \/ AtSending \/ AtDone
          \/ AtCrc
Calm == calm => ~failed /\ (hpc = "idle" \/ InCall)

IInv == TypeOK /\ Even /\ Room /\ Calm

-----------------------------------------------------------------------------
(* The firmware's steps in such a call                                     *)

LEMMA QuietStops == ASSUME Quiet, toFw = <<>> PROVE ~Firmware
BY DEF Quiet, Firmware, Command, NoCommand, GetLength, GetSample, SendCrc, Drain

LEMMA SayOne == ASSUME TypeOK, toHost = <<>>, NEW op, Say(Byte(op))
                PROVE  One(toHost', op)
BY DEF Say, Byte, One

LEMMA OneTail == ASSUME TypeOK, NEW op, One(toFw, op)
                 PROVE  /\ toFw # <<>> /\ Tail(toFw) = <<>> /\ Head(toFw).op = op
<1>1. toFw \in Seq(Token) /\ Len(toFw) = 1 /\ toFw # <<>> /\ Head(toFw) = toFw[1]
  <2>1. toFw \in Seq(Token) /\ Len(toFw) = 1
    BY DEF One, TypeOK
  <2> QED  BY <2>1, HeadIsFirst
<1>2. Tail(toFw) \in Seq(Token) /\ Len(Tail(toFw)) = 0
  <2>1. Len(Tail(toFw)) = Len(toFw) - 1 /\ Tail(toFw) \in Seq(Token)
    BY <1>1, TailType
  <2> QED  BY <1>1, <2>1
<1> QED  BY <1>1, <1>2, EmptySequence DEF One

LEMMA Obeyed == ASSUME TypeOK, Quiet, toFw # <<>>, Firmware
    PROVE  /\ Command /\ toFw' = Tail(toFw) /\ need' = need /\ held' = held
           /\ Head(toFw).op \in Commands => Obey(Head(toFw).op)
<1>1. Command
  BY DEF Quiet, Firmware, NoCommand, GetLength, GetSample, SendCrc, Drain
<1>2. PICK cmd \in ReadAs(Head(toFw)) : Obey(cmd)
  BY <1>1 DEF Command
<1>3. Head(toFw).op \in Commands => cmd = Head(toFw).op
  BY DEF ReadAs
<1>4. toFw' = Tail(toFw) /\ need' = need /\ held' = held
  BY <1>1 DEF Command
<1> QED  BY <1>1, <1>2, <1>3, <1>4

LEMMA Acked == ASSUME TypeOK, Quiet, toHost = <<>>, Firmware,
                      NEW op \in {"ACK_REQ", "EMIT_CHIRP"}, One(toFw, op)
               PROVE  Quiet' /\ toFw' = <<>> /\ One(toHost', "ACK")
<1>1. Obey(op) /\ toFw' = <<>>
  BY OneTail, Obeyed DEF Commands
<1>2. Say(Byte("ACK")) /\ PassEnds(serial_error)
  BY <1>1 DEF Obey
<1>3. Quiet'
  BY <1>2 DEF PassEnds, Quiet
<1> QED  BY <1>1, <1>2, <1>3, SayOne

LEMMA MaxSaid == ASSUME TypeOK, Firmware, UNCHANGED <<hpc, goal>>, AtMax PROVE AtMax'
<1>1. CASE Quiet /\ One(toFw, "GET_MAX") /\ toHost = <<>>
  <2>1. Obey("GET_MAX") /\ toFw' = <<>>
    BY <1>1, OneTail, Obeyed DEF Commands
  <2>2. Say(Byte("MAX")) /\ PassEnds(TRUE)
    BY <2>1 DEF Obey
  <2>3. fw' = "drain" /\ One(toHost', "MAX")
    BY <1>1, <2>2, SayOne DEF PassEnds
  <2> QED  BY <2>1, <2>3 DEF AtMax
<1>2. CASE fw \in {"loop", "drain"} /\ toFw = <<>> /\ One(toHost, "MAX")
  <2>1. NoCommand \/ Drain
    BY <1>2 DEF Firmware, Command, GetLength, GetSample, SendCrc
  <2>2. fw' \in {"loop", "drain"} /\ toFw' = <<>> /\ toHost' = toHost
    BY <1>2, <2>1 DEF NoCommand, Drain, wires
  <2> QED  BY <1>2, <2>2 DEF AtMax
<1> QED  BY <1>1, <1>2 DEF AtMax

LEMMA LengthGot == ASSUME TypeOK, Firmware, UNCHANGED hostVars, AtLen PROVE AtLen'
<1>0. hpc' = hpc /\ left' = left /\ up' = up /\ up \in Up /\ up # -1
  BY UpType, UploadsAssumption DEF hostVars, AtLen, TypeOK
<1>1. CASE /\ Quiet /\ left = Chunks /\ toHost = <<>>
           /\ Len(toFw) = 3 /\ toFw[1].op = "CHIRP_DATA" /\ Len2(Tail(toFw))
  <2>1. Obey("CHIRP_DATA") /\ toFw' = Tail(toFw)
    <3>1. toFw # <<>> /\ Head(toFw) = toFw[1]
      <4>1. toFw \in Seq(Token) /\ Len(toFw) >= 1
        BY <1>1 DEF TypeOK
      <4> QED  BY <4>1, HeadIsFirst
    <3> QED  BY <1>1, <3>1, Obeyed DEF Commands
  <2>2. fw' = "len" /\ serial_error' = serial_error /\ toHost' = toHost
    BY <2>1 DEF Obey
  <2>3. Len2(toFw)'
    BY <1>0, <1>1, <2>1 DEF Len2
  <2>4. ~serial_error'
    BY <1>1, <2>2 DEF Quiet
  <2> QED  BY <1>0, <1>1, <2>2, <2>3, <2>4 DEF AtLen
<1>2. CASE fw = "len" /\ ~serial_error /\ left = Chunks /\ toHost = <<>> /\ Len2(toFw)
  <2>1. GetLength
    BY <1>2 DEF Firmware, Command, NoCommand, GetSample, SendCrc, Drain
  <2>2. IsLength(toFw) /\ toFw[1].up = up
    BY <1>2 DEF Len2, IsLength
  <2>3. Accept(Chunks, up) /\ toFw' = After(toFw, 2)
    BY <2>1, <2>2 DEF GetLength
  <2>4. toFw' = <<>>
    <3>1. toFw \in Seq(Token) /\ Len(toFw) = 2
      BY <1>2 DEF TypeOK, Len2
    <3>2. /\ After(toFw, 2) \in Seq(Token)
          /\ Len(After(toFw, 2)) = Len(toFw) - 2
      BY <3>1, AfterType, Len(toFw) >= 2
    <3>3. toFw' \in Seq(Token) /\ Len(toFw') = 0
      BY <2>3, <3>1, <3>2
    <3> QED  BY <3>3, EmptySequence
  <2>5. /\ need' = 2 * Chunks /\ held' = {} /\ fw' = "data"
        /\ serial_error' = serial_error
    BY <1>0, <2>3, ChunksAssumption DEF Accept
  <2>6. Ready'
    BY <1>0, <1>2, <2>4, <2>5 DEF Ready
  <2>7. toHost' = Bytes("len", up, 2) \o Byte("ACK")
    <3>1. Bytes("len", up, 2) \o Byte("ACK") \in Seq(Token)
      BY <1>0, ByteType, BytesType, ConcatType DEF Ops, Replies
    <3> QED  BY <1>2, <2>3, <3>1 DEF Accept, Say
  <2>8. /\ Len(toHost') = 3 /\ toHost'[3].op = "ACK"
        /\ toHost'[1] = [op |-> "len", up |-> up]
    BY <2>7 DEF Bytes, Byte
  <2> QED  BY <1>0, <2>6, <2>8, <1>2 DEF AtLen
<1>3. CASE Ready
  BY <1>3 DEF Ready, Firmware, Command, NoCommand, GetLength, GetSample, SendCrc, Drain
<1> QED  BY <1>1, <1>2, <1>3 DEF AtLen

(* Two data bytes more: true of both states in which the firmware fills.   *)
LEMMA Sampled == ASSUME TypeOK, ~serial_error, Filling, need > 0, Firmware,
                        NEW k \in Nat, k > 0, Len(toFw) >= 2 * k, Data(toFw, k),
                        UNCHANGED up
    PROVE  /\ ~serial_error' /\ toHost' = toHost /\ Filling'
           /\ need' = need - 2 /\ toFw' = After(toFw, 2)
<1>1. fw = "data"
  BY DEF Filling
<1>2. GetSample
  BY <1>1 DEF Firmware, Command, NoCommand, GetLength, SendCrc, Drain
<1>3. Filling'
  <2>1. toFw[1] = [op |-> "data", up |-> up] /\ toFw[2] = [op |-> "data", up |-> up]
    BY DEF Data
  <2>2. Sources(toFw) = {up}
    BY <2>1 DEF Sources
  <2>3. held' = {up} /\ fw' = IF need' = 0 THEN "crc" ELSE "data"
    BY <1>2, <2>2 DEF GetSample, Filling
  <2> QED  BY <2>3 DEF Filling
<1> QED  BY <1>2, <1>3 DEF GetSample

LEMMA DataAfter == ASSUME TypeOK, NEW k \in Nat, k > 0, Data(toFw, k),
                          Len(toFw) >= 2 * k
    PROVE  /\ Len(After(toFw, 2)) = Len(toFw) - 2
           /\ Data(After(toFw, 2), k - 1)
           /\ Len(toFw) = 2 * k + 1 => After(toFw, 2)[2 * (k - 1) + 1] = toFw[2 * k + 1]
<1>1. /\ Len(After(toFw, 2)) = Len(toFw) - 2
      /\ \A i \in 1 .. Len(After(toFw, 2)) : After(toFw, 2)[i] = toFw[i + 2]
  BY AfterType DEF TypeOK
<1>2. \A i \in 1 .. 2 * (k - 1) : i \in 1 .. Len(After(toFw, 2)) /\ i + 2 \in 1 .. 2 * k
  BY <1>1 DEF TypeOK
<1>3. Data(After(toFw, 2), k - 1)
  BY <1>1, <1>2 DEF Data
<1>4. ASSUME Len(toFw) = 2 * k + 1
      PROVE  After(toFw, 2)[2 * (k - 1) + 1] = toFw[2 * k + 1]
  <2>1. 2 * (k - 1) + 1 \in 1 .. Len(After(toFw, 2)) /\ 2 * (k - 1) + 1 + 2 = 2 * k + 1
    BY <1>1, <1>4
  <2> QED  BY <1>1, <2>1
<1> QED  BY <1>1, <1>3, <1>4

LEMMA SendingFed == ASSUME TypeOK, Firmware, UNCHANGED hostVars, AtSending
                    PROVE  AtSending'
<1>1. PICK k \in Nat : need = 2 * (left + k) /\ Len(toFw) = 2 * k /\ Data(toFw, k)
  BY DEF AtSending
<1>2. ~serial_error /\ toHost = <<>> /\ Filling /\ hpc = "sending"
  BY DEF AtSending
<1>3. hpc' = hpc /\ left' = left /\ up' = up /\ left \in Nat
  BY ChunksAssumption DEF hostVars, TypeOK
<1>4. CASE k = 0
  <2>1. toFw = <<>>
    BY <1>1, <1>4, EmptySequence DEF TypeOK
  <2>2. fw \in {"crc", "data"}
    BY <1>2 DEF Filling
  <2> QED  BY <2>1, <2>2 DEF Firmware, Command, NoCommand, GetLength, GetSample,
                             SendCrc, Drain
<1>5. CASE k > 0
  <2>1. need > 0 /\ Len(toFw) >= 2 * k
    BY <1>1, <1>3, <1>5
  <2>2. /\ ~serial_error' /\ toHost' = toHost /\ Filling'
        /\ need' = need - 2 /\ toFw' = After(toFw, 2)
    BY <1>1, <1>2, <1>3, <1>5, <2>1, Sampled
  <2>3. /\ k - 1 \in Nat /\ need' = 2 * (left' + (k - 1))
        /\ Len(toFw') = 2 * (k - 1) /\ Data(toFw', k - 1)
    BY <1>1, <1>3, <1>5, <2>1, <2>2, DataAfter
  <2>4. Data(toFw, k - 1)'
    BY <1>3, <2>3 DEF Data
  <2> QED  BY <1>2, <1>3, <2>2, <2>3, <2>4 DEF AtSending
<1> QED  BY <1>1, <1>4, <1>5

LEMMA CrcSaid == ASSUME TypeOK, Firmware, Filling, need = 0, ~serial_error,
                        toHost = <<>>, One(toFw, "ACK_REQ")
                 PROVE  Sealed'
<1>0. fw = "crc" /\ held = {up} /\ up \in Up
  BY UpType, ChunksAssumption DEF Filling
<1>1. SendCrc
  BY <1>0 DEF Firmware, Command, NoCommand, GetLength, GetSample, Drain
<1>2. Head(toFw).op = "ACK_REQ" /\ toFw' = <<>>
  BY <1>1, OneTail DEF SendCrc
<1>3. (IF \E u \in Up : held = {u} THEN CHOOSE u \in Up : held = {u} ELSE -1) = up
  BY <1>0
<1>4. Say(Byte("ACK") \o Bytes("crc", up, 4)) /\ PassEnds(serial_error)
  BY <1>1, <1>2, <1>3 DEF SendCrc
<1>5. toHost' = Byte("ACK") \o Bytes("crc", up, 4)
  <2>1. Byte("ACK") \o Bytes("crc", up, 4) \in Seq(Token)
    BY <1>0, ByteType, BytesType, ConcatType DEF Ops, Replies
  <2> QED  BY <1>4, <2>1 DEF Say
<1>6. Quiet'
  BY <1>4 DEF PassEnds, Quiet
<1>7. /\ Len(toHost') = 5 /\ toHost'[1].op = "ACK"
      /\ toHost'[2] = [op |-> "crc", up |-> up]
  BY <1>5 DEF Byte, Bytes
<1>8. up' = up
  BY DEF Firmware, hostVars
<1> QED  BY <1>2, <1>6, <1>7, <1>8 DEF Sealed

LEMMA DoneFed == ASSUME TypeOK, Firmware, UNCHANGED hostVars, AtDone PROVE AtDone'
<1>1. hpc' = hpc /\ up' = up /\ hpc = "done"
  BY DEF hostVars, AtDone
<1>2. CASE Sealed
  BY <1>2, QuietStops DEF Sealed
<1>3. CASE Queued
  <2>1. PICK k \in Nat : /\ need = 2 * k /\ Len(toFw) = 2 * k + 1
                         /\ Data(toFw, k) /\ toFw[2 * k + 1].op = "ACK_REQ"
    BY <1>3 DEF Queued
  <2>2. ~serial_error /\ toHost = <<>> /\ Filling
    BY <1>3 DEF Queued
  <2>3. CASE k = 0
    <3>1. One(toFw, "ACK_REQ") /\ need = 0
      BY <2>1, <2>3 DEF One
    <3> QED  BY <1>1, <2>2, <3>1, CrcSaid DEF AtDone
  <2>4. CASE k > 0
    <3>1. need > 0 /\ Len(toFw) >= 2 * k
      BY <2>1, <2>4
    <3>2. /\ ~serial_error' /\ toHost' = toHost /\ Filling'
          /\ need' = need - 2 /\ toFw' = After(toFw, 2)
      BY <1>1, <2>1, <2>2, <2>4, <3>1, Sampled
    <3>3. /\ k - 1 \in Nat /\ need' = 2 * (k - 1)
          /\ Len(toFw') = 2 * (k - 1) + 1 /\ Data(toFw', k - 1)
          /\ toFw'[2 * (k - 1) + 1].op = "ACK_REQ"
      BY <2>1, <2>4, <3>1, <3>2, DataAfter
    <3>4. Data(toFw, k - 1)'
      BY <1>1, <3>3 DEF Data
    <3>5. Queued'
      BY <2>2, <3>2, <3>3, <3>4 DEF Queued
    <3> QED  BY <1>1, <3>5 DEF AtDone
  <2> QED  BY <2>1, <2>3, <2>4
<1> QED  BY <1>2, <1>3 DEF AtDone

LEMMA FirmwareInCall == ASSUME TypeOK, Firmware, InCall PROVE InCall'
<1>0. UNCHANGED hostVars /\ UNCHANGED <<hpc, goal, known, left, up>>
  BY DEF Firmware, hostVars
<1>1. CASE AtStatus \/ AtEmitted
  <2>1. toFw # <<>>
    BY <1>1, QuietStops DEF AtStatus, AtEmitted
  <2>2. Quiet /\ toHost = <<>> /\ \E op \in {"ACK_REQ", "EMIT_CHIRP"} : One(toFw, op)
    BY <1>1, <2>1 DEF AtStatus, AtEmitted
  <2>3. Quiet' /\ toFw' = <<>> /\ One(toHost', "ACK")
    BY <2>2, Acked
  <2> QED  BY <1>0, <1>1, <2>3 DEF AtStatus, AtEmitted, InCall
<1>2. CASE AtMax
  BY <1>0, <1>2, MaxSaid DEF InCall
<1>3. CASE AtLen
  BY <1>0, <1>3, LengthGot DEF InCall
<1>4. CASE AtAck
  BY <1>4 DEF AtAck, Ready, Firmware, Command, NoCommand, GetLength, GetSample,
              SendCrc, Drain
<1>5. CASE AtSending
  BY <1>0, <1>5, SendingFed DEF InCall
<1>6. CASE AtDone
  BY <1>0, <1>6, DoneFed DEF InCall
<1>7. CASE AtCrc
  BY <1>7, QuietStops DEF AtCrc
<1> QED  BY <1>1, <1>2, <1>3, <1>4, <1>5, <1>6, <1>7 DEF InCall

-----------------------------------------------------------------------------
(* The host's steps in such a call                                         *)

LEMMA OneHead == ASSUME TypeOK, NEW op, One(toHost, op)
    PROVE  toHost # <<>> /\ Head(toHost).op = op /\ After(toHost, 1) = <<>>
<1>1. toHost \in Seq(Token) /\ Len(toHost) = 1 /\ Len(toHost) >= 1
  BY DEF One, TypeOK
<1>2. toHost # <<>> /\ Head(toHost) = toHost[1]
  BY <1>1, HeadIsFirst
<1>3. After(toHost, 1) \in Seq(Token) /\ Len(After(toHost, 1)) = Len(toHost) - 1
  BY <1>1, AfterType, Len(toHost) >= 1
<1>4. Len(After(toHost, 1)) = 0
  BY <1>1, <1>3
<1> QED  BY <1>2, <1>3, <1>4, EmptySequence DEF One

LEMMA AskOne == ASSUME toFw = <<>>, NEW op, Ask(Byte(op)) PROVE One(toFw', op)
BY DEF Ask, Byte, One

LEMMA ConnectedInCall ==
    ASSUME TypeOK, Room, InCall, ~failed, Connected, UNCHANGED <<fwVars, calm>>
    PROVE  ~failed' /\ InCall'
<1>1. AtStatus
  BY DEF InCall, Connected, AtEmitted, AtMax, AtLen, AtAck, AtSending, AtDone, AtCrc
<1>2. Quiet /\ toFw = <<>> /\ One(toHost, "ACK") /\ goal \in {"chirp", "upload", "max"}
      /\ (goal = "upload" => known)
  BY <1>1 DEF AtStatus, Connected
<1>3. Head(toHost).op = "ACK" /\ After(toHost, 1) = <<>>
  BY <1>2, OneHead
<1>4. Wanted = 1
  BY DEF Wanted, Connected
<1>5. Quiet'
  BY <1>2 DEF Quiet, fwVars
<1>6. CASE goal = "upload" /\ Take /\ BeginUpload /\ UNCHANGED <<goal, failed>>
  <2>1. toHost' = <<>>
    BY <1>3, <1>4, <1>6 DEF Take
  <2>2. toFw' = Byte("CHIRP_DATA") \o Bytes("len", up', 2)
    <3>1. up' \in Up
      BY <1>6, UpType DEF Room, Connected, BeginUpload
    <3>2. Byte("CHIRP_DATA") \o Bytes("len", up', 2) \in Seq(Token)
      BY <3>1, ByteType, BytesType, ConcatType DEF Ops, Commands
    <3> QED  BY <1>2, <1>6, <3>2 DEF BeginUpload, Ask
  <2>3. Len(toFw') = 3 /\ toFw'[1].op = "CHIRP_DATA" /\ Len2(Tail(toFw))'
    BY <2>2 DEF Byte, Bytes, Len2
  <2>4. hpc' = "len" /\ left' = Chunks
    BY <1>6 DEF BeginUpload
  <2>5. AtLen'
    BY <1>5, <2>1, <2>3, <2>4 DEF AtLen
  <2> QED  BY <1>6, <2>5 DEF InCall
<1>7. CASE /\ goal # "upload" /\ Take
           /\ Ask(Byte(IF goal = "chirp" THEN "EMIT_CHIRP" ELSE "GET_MAX"))
           /\ hpc' = IF goal = "chirp" THEN "emitted" ELSE "max"
           /\ UNCHANGED <<goal, up, left, failed, fresh>>
  <2>1. toHost' = <<>>
    BY <1>3, <1>4, <1>7 DEF Take
  <2>2. CASE goal = "chirp"
    <3>1. One(toFw', "EMIT_CHIRP")
      BY <1>2, <1>7, <2>2, AskOne
    <3> QED  BY <1>5, <1>7, <2>1, <2>2, <3>1 DEF AtEmitted, InCall
  <2>3. CASE goal = "max"
    <3>1. One(toFw', "GET_MAX")
      BY <1>2, <1>7, <2>3, AskOne
    <3> QED  BY <1>5, <1>7, <2>1, <2>3, <3>1 DEF AtMax, InCall
  <2> QED  BY <1>2, <1>7, <2>2, <2>3
<1> QED  BY <1>2, <1>3, <1>6, <1>7 DEF Connected

LEMMA Done == ASSUME Return(TRUE) PROVE ~failed' /\ hpc' = "idle"
BY DEF Return

LEMMA GotMaxInCall == ASSUME TypeOK, InCall, GotMax PROVE ~failed' /\ hpc' = "idle"
<1>1. AtMax
  BY DEF InCall, GotMax, AtStatus, AtEmitted, AtLen, AtAck, AtSending, AtDone, AtCrc
<1>2. One(toHost, "MAX") /\ goal = "max"
  BY <1>1 DEF AtMax, GotMax
<1>3. Head(toHost).op = "MAX"
  BY <1>2, OneHead
<1>4. Return(Head(toHost).op = "MAX")
  BY <1>2 DEF GotMax
<1> QED  BY <1>3, <1>4 DEF Return

LEMMA GotLengthInCall ==
    ASSUME TypeOK, InCall, ~failed, GotLength, UNCHANGED <<fwVars, calm>>
    PROVE  ~failed' /\ InCall'
<1>1. AtLen
  BY DEF InCall, GotLength, AtStatus, AtEmitted, AtMax, AtAck, AtSending, AtDone, AtCrc
<1>2. CASE toHost = <<>>
  BY <1>2 DEF GotLength
<1>3. CASE Ready /\ Len(toHost) = 3 /\ toHost[3].op = "ACK"
           /\ toHost[1] = [op |-> "len", up |-> up]
  <2>1. Take /\ hpc' = "ack" /\ UNCHANGED <<failed, toFw, left, up>>
    BY <1>3 DEF GotLength
  <2>2. Wanted = 2 /\ toHost' = After(toHost, 2)
    BY <2>1 DEF Wanted, Take, GotLength
  <2>3. toHost \in Seq(Token) /\ Len(toHost) >= 2
    BY <1>3 DEF TypeOK
  <2>4. Len(toHost') = Len(toHost) - 2
        /\ \A i \in 1 .. Len(toHost') : toHost'[i] = toHost[i + 2]
    BY <2>2, <2>3, AfterType
  <2>5. One(toHost', "ACK")
    BY <1>3, <2>4 DEF One
  <2>6. Ready'
    BY <1>3, <2>1 DEF Ready, fwVars
  <2> QED  BY <2>1, <2>5, <2>6 DEF AtAck, InCall
<1> QED  BY <1>1, <1>2, <1>3 DEF AtLen

LEMMA GotAckInCall ==
    ASSUME TypeOK, InCall, ~failed, GotAck, UNCHANGED <<fwVars, calm>>
    PROVE  ~failed' /\ InCall'
<1>1. Ready /\ One(toHost, "ACK")
  BY DEF InCall, GotAck, AtStatus, AtEmitted, AtMax, AtLen, AtAck, AtSending, AtDone,
         AtCrc
<1>2. Head(toHost).op = "ACK" /\ After(toHost, 1) = <<>> /\ Wanted = 1
  BY <1>1, OneHead DEF Wanted, GotAck
<1>3. hpc' = "sending" /\ failed' = failed /\ toHost' = <<>>
      /\ UNCHANGED <<toFw, left, up>>
  BY <1>2 DEF GotAck, Take
<1>4. need' = 2 * (left' + 0) /\ Len(toFw') = 2 * 0 /\ ~serial_error' /\ 0 \in Nat
  BY <1>1, <1>3, ChunksAssumption DEF Ready, fwVars
<1>5. Filling'
  BY <1>1, ChunksAssumption DEF Ready, Filling, fwVars
<1>6. Data(toFw, 0)'
  BY DEF Data
<1> QED  BY <1>3, <1>4, <1>5, <1>6 DEF AtSending, InCall

LEMMA SendingInCall ==
    ASSUME TypeOK, InCall, ~failed, SendChunk \/ AskForCrc, UNCHANGED <<fwVars, calm>>
    PROVE  ~failed' /\ InCall'
<1>1. AtSending
  BY DEF InCall, SendChunk, AskForCrc, AtStatus, AtEmitted, AtMax, AtLen, AtAck, AtDone,
         AtCrc
<1>2. PICK k \in Nat : need = 2 * (left + k) /\ Len(toFw) = 2 * k /\ Data(toFw, k)
  BY <1>1 DEF AtSending
<1>3. toFw \in Seq(Token) /\ left \in Nat /\ up \in Up
  BY UpType, ChunksAssumption DEF TypeOK
<1>4. ~serial_error' /\ Filling' /\ toHost' = <<>> /\ failed' = failed /\ up' = up
      /\ need' = need
  BY <1>1 DEF AtSending, Filling, SendChunk, AskForCrc, fwVars
<1>5. CASE SendChunk
  <2>1. toFw' = toFw \o Bytes("data", up, 2) /\ left' = left - 1 /\ left' \in Nat
        /\ hpc' = "sending"
    BY <1>3, <1>5 DEF SendChunk, Ask, MoreToSend
  <2>2. /\ Bytes("data", up, 2) \in Seq(Token) /\ Len(Bytes("data", up, 2)) = 2
        /\ \A i \in 1 .. 2 : Bytes("data", up, 2)[i] = [op |-> "data", up |-> up]
    BY <1>3, BytesType DEF Ops
  <2>3. /\ Len(toFw') = 2 * (k + 1)
        /\ \A i \in 1 .. 2 * (k + 1) :
              toFw'[i] = IF i <= 2 * k THEN toFw[i]
                         ELSE Bytes("data", up, 2)[i - 2 * k]
    <3> DEFINE b == Bytes("data", up, 2)
    <3>1. /\ Len(toFw \o b) = Len(toFw) + Len(b)
          /\ \A i \in 1 .. Len(toFw) + Len(b) :
                (toFw \o b)[i] = IF i <= Len(toFw) THEN toFw[i] ELSE b[i - Len(toFw)]
      BY <1>3, <2>2, ConcatAt
    <3>0. Len(b) = 2
      BY <2>2
    <3> HIDE DEF b
    <3>2. Len(toFw) + Len(b) = 2 * (k + 1)
      BY <1>2, <3>0
    <3>3. /\ Len(toFw') = 2 * (k + 1)
          /\ \A i \in 1 .. 2 * (k + 1) :
                toFw'[i] = IF i <= 2 * k THEN toFw[i] ELSE b[i - 2 * k]
      BY <1>2, <2>1, <3>1, <3>2 DEF b
    <3> QED  BY <3>3 DEF b
  <2>4. Data(toFw, k + 1)'
    <3> SUFFICES ASSUME NEW i \in 1 .. 2 * (k + 1)
                 PROVE  toFw'[i] = [op |-> "data", up |-> up]
      BY <1>4 DEF Data
    <3>1. CASE i <= 2 * k
      BY <1>2, <2>3, <3>1 DEF Data
    <3>2. CASE i > 2 * k
      <4>1. i - 2 * k \in 1 .. 2
        BY <3>2
      <4> QED  BY <2>2, <2>3, <3>2, <4>1
    <3> QED  BY <3>1, <3>2
  <2>5. need' = 2 * (left' + (k + 1)) /\ k + 1 \in Nat
    BY <1>2, <1>3, <1>4, <2>1
  <2>6. AtSending'
    BY <1>4, <2>1, <2>3, <2>4, <2>5 DEF AtSending
  <2> QED  BY <1>4, <2>6 DEF InCall
<1>6. CASE AskForCrc
  <2>1. toFw' = toFw \o Byte("ACK_REQ") /\ left = 0 /\ hpc' = "done"
    BY <1>3, <1>6 DEF AskForCrc, Ask, MoreToSend
  <2>2. Byte("ACK_REQ") \in Seq(Token) /\ Len(Byte("ACK_REQ")) = 1
        /\ Byte("ACK_REQ")[1].op = "ACK_REQ"
    BY ByteType DEF Byte, Ops, Commands
  <2>3. /\ Len(toFw') = 2 * k + 1
        /\ \A i \in 1 .. 2 * k : toFw'[i] = toFw[i]
        /\ toFw'[2 * k + 1] = Byte("ACK_REQ")[1]
    <3> DEFINE b == Byte("ACK_REQ")
    <3>1. /\ Len(toFw \o b) = Len(toFw) + Len(b)
          /\ \A i \in 1 .. Len(toFw) + Len(b) :
                (toFw \o b)[i] = IF i <= Len(toFw) THEN toFw[i] ELSE b[i - Len(toFw)]
      BY <1>3, <2>2, ConcatAt
    <3>0. Len(b) = 1
      BY <2>2
    <3> HIDE DEF b
    <3>2. Len(toFw) + Len(b) = 2 * k + 1 /\ 2 * k + 1 - 2 * k = 1
      BY <1>2, <3>0
    <3>3. /\ Len(toFw') = 2 * k + 1
          /\ \A i \in 1 .. 2 * k + 1 :
                toFw'[i] = IF i <= 2 * k THEN toFw[i] ELSE b[i - 2 * k]
      BY <1>2, <2>1, <3>1, <3>2 DEF b
    <3>4. toFw'[2 * k + 1] = b[1] /\ \A i \in 1 .. 2 * k : toFw'[i] = toFw[i]
      BY <3>2, <3>3
    <3> QED  BY <3>3, <3>4 DEF b
  <2>4. Data(toFw, k)' /\ toFw'[2 * k + 1].op = "ACK_REQ"
    BY <1>2, <1>4, <2>2, <2>3 DEF Data
  <2>5. need' = 2 * k
    BY <1>2, <1>4, <2>1
  <2>6. Queued'
    BY <1>4, <2>3, <2>4, <2>5 DEF Queued
  <2> QED  BY <1>4, <2>1, <2>6 DEF AtDone, InCall
<1> QED  BY <1>5, <1>6

LEMMA GotDoneInCall ==
    ASSUME TypeOK, InCall, ~failed, GotDone, UNCHANGED <<fwVars, calm>>
    PROVE  ~failed' /\ InCall'
<1>1. AtDone /\ toHost # <<>>
  BY DEF InCall, GotDone, AtStatus, AtEmitted, AtMax, AtLen, AtAck, AtSending, AtCrc
<1>2. Sealed
  BY <1>1 DEF AtDone, Queued
<1>3. toHost \in Seq(Token) /\ Len(toHost) = 5 /\ Head(toHost) = toHost[1]
  BY <1>1, <1>2 DEF Sealed, TypeOK
<1>4. hpc' = "crc" /\ failed' = failed /\ toHost' = After(toHost, 1)
      /\ toFw' = toFw /\ up' = up
  BY <1>2, <1>3 DEF GotDone, Sealed, Take, Wanted
<1>5. Len(toHost') = Len(toHost) - 1
      /\ \A i \in 1 .. Len(toHost') : toHost'[i] = toHost[i + 1]
  BY <1>3, <1>4, AfterType, Len(toHost) >= 1
<1>6. Len(toHost') = 4 /\ toHost'[1] = [op |-> "crc", up |-> up']
  BY <1>2, <1>3, <1>4, <1>5 DEF Sealed
<1>7. Quiet' /\ toFw' = <<>>
  BY <1>2, <1>4 DEF Sealed, Quiet, fwVars
<1> QED  BY <1>4, <1>6, <1>7 DEF AtCrc, InCall

LEMMA EndInCall == ASSUME TypeOK, InCall, GotCrc \/ GotEmitted
                   PROVE  ~failed' /\ hpc' = "idle"
<1>1. CASE GotCrc
  <2>1. AtCrc
    BY <1>1 DEF InCall, GotCrc, AtStatus, AtEmitted, AtMax, AtLen, AtAck, AtSending,
                AtDone
  <2>2. RightCrc(toHost[1])
    BY <2>1 DEF AtCrc, RightCrc
  <2> QED  BY <1>1, <2>2 DEF GotCrc, Return
<1>2. CASE GotEmitted
  <2>1. AtEmitted /\ toHost # <<>>
    BY <1>2 DEF InCall, GotEmitted, AtStatus, AtCrc, AtMax, AtLen, AtAck, AtSending,
                AtDone
  <2>2. Head(toHost).op = "ACK"
    BY <2>1, OneHead DEF AtEmitted
  <2> QED  BY <1>2, <2>2 DEF GotEmitted, Return
<1> QED  BY <1>1, <1>2

(* Neither side's timeout runs out in such a call. *)
LEMMA NeverHung == ASSUME TypeOK, InCall PROVE ~Hung
<1>1. ASSUME NEW op, One(toFw, op), fw = "loop" PROVE ~Starved
  BY <1>1, OneTail DEF Starved
<1>2. \A op : One(toHost, op) => Len(toHost) = 1
  BY DEF One
<1>3. CASE AtStatus \/ AtEmitted \/ AtMax
  BY <1>1, <1>2, <1>3 DEF AtStatus, AtEmitted, AtMax, Hung, Wanted, Quiet
<1>4. CASE AtLen
  <2>1. toFw = <<>> => Len(toFw) = 0
    OBVIOUS
  <2>2. Len(toHost) # 3 => Len(toFw) \in {2, 3} /\ fw \in {"loop", "len"}
    BY <1>4 DEF AtLen, Len2, Quiet
  <2> QED  BY <1>4, <2>1, <2>2 DEF AtLen, Hung, Wanted, Starved
<1>5. CASE AtAck \/ AtCrc
  <2>1. Len(toHost) >= Wanted
    <3>1. CASE AtAck
      BY <1>2, <3>1 DEF AtAck, Wanted
    <3>2. CASE AtCrc
      BY <3>2 DEF AtCrc, Wanted
    <3> QED  BY <1>5, <3>1, <3>2
  <2>2. Wanted \in Nat /\ Len(toHost) \in Nat
    BY DEF Wanted, TypeOK
  <2> QED  BY <2>1, <2>2 DEF Hung
<1>6. CASE AtSending
  BY <1>6 DEF AtSending, Hung, Reads
<1>7. CASE AtDone /\ Sealed
  BY <1>7 DEF AtDone, Sealed, Hung, Wanted
<1>8. CASE AtDone /\ Queued
  <2>1. PICK k \in Nat : need = 2 * k /\ Len(toFw) = 2 * k + 1
    BY <1>8 DEF Queued
  <2>2. CASE k = 0
    <3>1. fw = "crc" /\ toFw # <<>>
      BY <1>8, <2>1, <2>2 DEF Queued, Filling
    <3> QED  BY <3>1 DEF Hung, Starved
  <2>3. CASE k > 0
    <3>1. fw = "data" /\ Len(toFw) >= 2
      BY <1>8, <2>1, <2>3 DEF Queued, Filling
    <3> QED  BY <3>1 DEF Hung, Starved
  <2> QED  BY <2>1, <2>2, <2>3
<1> QED  BY <1>3, <1>4, <1>5, <1>6, <1>7, <1>8 DEF InCall, AtDone

LEMMA Begins == ASSUME TypeOK, Call PROVE Calm'
<1> SUFFICES ASSUME calm' PROVE ~failed' /\ InCall'
  BY DEF Calm
<1>1. Rest /\ (goal' = "upload" => known) /\ ~failed'
      /\ goal' \in {"chirp", "upload", "max"} /\ known' = known
  BY DEF Call
<1>2. toHost' = <<>> /\ hpc' = "status" /\ Ask(Byte("ACK_REQ"))
  BY DEF Call, Connect
<1>3. Quiet' /\ toFw = <<>>
  BY <1>1 DEF Call, Rest, Quiet, fwVars
<1>4. One(toFw', "ACK_REQ")
  BY <1>2, <1>3, AskOne
<1> QED  BY <1>1, <1>2, <1>3, <1>4 DEF AtStatus, InCall

LEMMA CalmStep == ASSUME TypeOK, Room, Calm, [Next]_vars PROVE Calm'
<1>0. ASSUME InCall PROVE hpc # "idle"
  BY <1>0 DEF InCall, AtStatus, AtEmitted, AtMax, AtLen, AtAck, AtSending, AtDone, AtCrc
<1>1. CASE Firmware
  <2>1. hpc' = hpc /\ calm' = calm /\ failed' = failed
    BY <1>1 DEF Firmware, hostVars, observers
  <2> QED  BY <1>1, <2>1, FirmwareInCall DEF Calm
<1>2. CASE Answered
  <2>1. hpc # "idle" /\ calm' = calm /\ UNCHANGED <<fwVars, calm>>
    BY <1>2 DEF Answered, Connected, GotMax, GotLength, GotAck, SendChunk, AskForCrc,
                GotDone, GotCrc, GotEmitted
  <2> SUFFICES ASSUME calm, ~failed, InCall PROVE ~failed' /\ (hpc' = "idle" \/ InCall')
    BY <2>1 DEF Calm
  <2> QED
    BY <1>2, <2>1, ConnectedInCall, GotMaxInCall, GotLengthInCall, GotAckInCall,
       SendingInCall, GotDoneInCall, EndInCall DEF Answered
<1>3. CASE GivesUp
  <2>1. hpc # "idle" /\ calm' = calm /\ Hung
    BY <1>3 DEF GivesUp, TimedOut, Hung, Reads, Waits
  <2> QED  BY <2>1, NeverHung DEF Calm
<1>4. CASE FwTimeout
  <2>1. hpc' = hpc /\ calm' = calm /\ failed' = failed /\ (hpc = "idle" \/ Hung)
    BY <1>4 DEF FwTimeout, hostVars, observers
  <2> QED  BY <1>0, <2>1, NeverHung DEF Calm
<1>5. CASE Call
  BY <1>5, Begins
<1>6. CASE BreakOff \/ HostRestart \/ FwRestart
  BY <1>6 DEF BreakOff, HostRestart, FwRestart, Calm
<1>7. CASE UNCHANGED vars
  <2>1. InCall => InCall'
    BY <1>7 DEF vars, fwVars, hostVars, wires, observers, InCall, AtStatus, AtEmitted,
          AtMax, AtLen, AtAck, AtSending, AtDone, AtCrc, Quiet, Ready, Queued, Sealed,
          Filling, Len2, Data
  <2> QED  BY <1>7, <2>1 DEF vars, hostVars, observers, Calm
<1> QED  BY <1>1, <1>2, <1>3, <1>4, <1>5, <1>6, <1>7 DEF Next

-----------------------------------------------------------------------------
LEMMA InitInv == Init => IInv
<1> SUFFICES ASSUME Init PROVE IInv
  OBVIOUS
<1>1. need = 0 /\ left = 0 /\ up = 0 /\ held = {}
  BY DEF Init
<1>2. /\ need \in 0 .. 2 * (Chunks + 1) /\ left \in 0 .. Chunks
      /\ up \in 0 .. Uploads /\ Even
  BY <1>1, ChunksAssumption, UploadsAssumption DEF Even
<1>3. /\ serial_error \in BOOLEAN /\ known \in BOOLEAN /\ chirp_uploaded \in BOOLEAN
      /\ calm \in BOOLEAN /\ failed \in BOOLEAN /\ fresh \in BOOLEAN
  BY DEF Init
<1>4. toFw \in Seq(Token) /\ toHost \in Seq(Token)
  BY DEF Init
<1>5. fw = "loop" /\ hpc = "idle" /\ goal \in Goals /\ ~calm
  BY DEF Init, Goals
<1>6. TypeOK
  BY <1>1, <1>2, <1>3, <1>4, <1>5 DEF TypeOK
<1> QED  BY <1>2, <1>5, <1>6 DEF IInv, Room, Calm

LEMMA InvAlways == Spec => []IInv
<1>1. Init => IInv
  BY InitInv
<1>2. IInv /\ [Next]_vars => IInv'
  BY TypeStep, RoomStep, CalmStep DEF IInv
<1> QED  BY <1>1, <1>2, PTL DEF Spec

(* The variables keep their types, for chirps of any length: no left-over  *)
(* byte takes the firmware's data loop past its buffer.                    *)
THEOREM TypeCorrect == Spec => []TypeOK
<1>1. IInv => TypeOK
  BY DEF IInv
<1> QED  BY <1>1, InvAlways, PTL

(* A call that begins with the firmware at rest does its work, for chirps  *)
(* of any length.                                                          *)
THEOREM CalmCallsSucceedAlways == Spec => []CalmCallsSucceed
<1>1. IInv => CalmCallsSucceed
  BY DEF IInv, Calm, CalmCallsSucceed
<1> QED  BY <1>1, InvAlways, PTL
-----------------------------------------------------------------------------
(* What the CRC vouches for.  The data of the present upload was written   *)
(* once and in order: it is somewhere on the line in one piece, with what  *)
(* followed it behind.  When a buffer holds that data alone, no more of it *)
(* can be left than the firmware still wants.                              *)

Mine(token) == token = [op |-> "data", up |-> up]
Plain(token) == token.op \in {"ACK_REQ", "EMIT_CHIRP", "GET_MAX"}
Behind(token) == Mine(token) \/ (Plain(token) /\ hpc # "sending")

(* Everything about is of the present upload or of one before it. *)
Older == /\ \A i \in 1 .. Len(toFw) : toFw[i].up <= up
         /\ \A i \in 1 .. Len(toHost) : toHost[i].up <= up
         /\ \A u \in held : u <= up
(* Until its first chunk is sent there is no data of it. *)
Untouched == /\ hpc \in {"len", "ack"} => left = Chunks
             /\ left = Chunks => /\ up \notin held
                                 /\ \A i \in 1 .. Len(toFw) : ~Mine(toFw[i])
Piece == \A i, j \in 1 .. Len(toFw) :
            i <= j /\ Mine(toFw[i]) =>
               /\ i < j => Behind(toFw[j])
               /\ Mine(toFw[j]) => j - i + 1 + 2 * left <= 2 * Chunks
Met == up \in held => \A i \in 1 .. Len(toFw) : Behind(toFw[i])
Wants == /\ fw = "data" => need > 0 /\ (held = {} => need = 2 * Chunks)
         /\ fw = "crc" => need = 0
         /\ held = {up} => /\ 2 * left <= need
                           /\ \A i \in 1 .. Len(toFw) :
                                 Mine(toFw[i]) => i + 2 * left <= need
(* The buffer is the upload's, and nothing on the line can change that. *)
Kept == /\ fw \in {"loop", "drain"} /\ Holds(up) /\ left = 0
        /\ \A i \in 1 .. Len(toFw) : Plain(toFw[i])
Vouched == \E i \in 1 .. Len(toHost) : toHost[i] = [op |-> "crc", up |-> up]
Faithful == /\ fresh \/ Vouched => Kept
            /\ fresh => /\ chirp_uploaded
                        /\ hpc \notin {"len", "ack", "sending", "done", "crc"}

VInv == Older /\ Untouched /\ Piece /\ Met /\ Wants /\ Faithful

(* The line after the firmware has taken k tokens, or drained it. *)
Shifted(k) == \A i \in 1 .. Len(toFw') : i + k \in 1 .. Len(toFw) /\ toFw'[i] = toFw[i + k]
(* The answers after the host has taken some, or cleared them. *)
Fewer == \A i \in 1 .. Len(toHost') : \E j \in 1 .. Len(toHost) : toHost'[i] = toHost[j]

LEMMA LensAreNat == ASSUME TypeOK
    PROVE  /\ Len(toFw) \in Nat /\ Len(toHost) \in Nat /\ left \in Nat /\ up \in Nat
           /\ need \in Nat /\ Chunks \in Nat /\ Chunks > 0 /\ left <= Chunks
BY ChunksAssumption DEF TypeOK

LEMMA AfterShifts == ASSUME TypeOK, NEW k \in Nat, toFw' = After(toFw, k)
                     PROVE  Shifted(k)
<1>1. toFw \in Seq(Token) /\ Len(toFw) \in Nat
  BY DEF TypeOK
<1>2. CASE Len(toFw) >= k
  <2>1. /\ Len(toFw') = Len(toFw) - k
        /\ \A i \in 1 .. Len(toFw') : toFw'[i] = toFw[i + k]
    BY <1>1, <1>2, AfterType
  <2> QED  BY <1>1, <1>2, <2>1 DEF Shifted
<1>3. CASE Len(toFw) < k
  <2>1. Len(toFw') = 0
    BY <1>1, <1>3 DEF After
  <2> QED  BY <2>1 DEF Shifted
<1> QED  BY <1>1, <1>2, <1>3

LEMMA TailShifts == ASSUME TypeOK, toFw # <<>>, toFw' = Tail(toFw) PROVE Shifted(1)
<1>1. toFw \in Seq(Token) /\ Len(toFw) \in Nat
  BY DEF TypeOK
<1>2. Len(toFw') = Len(toFw) - 1 /\ \A i \in 1 .. Len(toFw') : toFw'[i] = toFw[i + 1]
  BY <1>1
<1> QED  BY <1>1, <1>2 DEF Shifted

LEMMA FewerAfter == ASSUME TypeOK, NEW k \in Nat, toHost' = After(toHost, k) PROVE Fewer
<1>1. toHost \in Seq(Token) /\ Len(toHost) \in Nat
  BY DEF TypeOK
<1>2. CASE Len(toHost) >= k
  <2>1. /\ Len(toHost') = Len(toHost) - k
        /\ \A i \in 1 .. Len(toHost') : toHost'[i] = toHost[i + k]
    BY <1>1, <1>2, AfterType
  <2>2. ASSUME NEW i \in 1 .. Len(toHost')
        PROVE  \E j \in 1 .. Len(toHost) : toHost'[i] = toHost[j]
    <3>1. i + k \in 1 .. Len(toHost) /\ toHost'[i] = toHost[i + k]
      BY <1>1, <1>2, <2>1
    <3> QED  BY <3>1
  <2> QED  BY <2>2 DEF Fewer
<1>3. CASE Len(toHost) < k
  <2>1. Len(toHost') = 0
    BY <1>1, <1>3 DEF After
  <2> QED  BY <2>1 DEF Fewer
<1> QED  BY <1>1, <1>2, <1>3

LEMMA TakeFewer == ASSUME TypeOK, Take PROVE Fewer
<1>1. Wanted \in Nat
  BY DEF Wanted
<1> QED  BY <1>1, FewerAfter DEF Take

(* Taking tokens keeps what is said of the ones that are left. *)
LEMMA PieceShifts == ASSUME TypeOK, NEW k \in Nat, Shifted(k), UNCHANGED <<hpc, left, up>>
    PROVE  /\ Piece => Piece'
           /\ (\A i \in 1 .. Len(toFw) : Behind(toFw[i]))
                 => (\A i \in 1 .. Len(toFw) : Behind(toFw[i]))'
           /\ (\A i \in 1 .. Len(toFw) : ~Mine(toFw[i]))
                 => (\A i \in 1 .. Len(toFw) : ~Mine(toFw[i]))'
           /\ (\A i \in 1 .. Len(toFw) : Plain(toFw[i]))
                 => (\A i \in 1 .. Len(toFw) : Plain(toFw[i]))'
           /\ (\A i \in 1 .. Len(toFw) : toFw[i].up <= up)
                 => (\A i \in 1 .. Len(toFw) : toFw[i].up <= up)'
<1>1. ASSUME NEW i \in 1 .. Len(toFw')
      PROVE  i + k \in 1 .. Len(toFw) /\ toFw'[i] = toFw[i + k]
  BY DEF Shifted
<1>2. ASSUME Piece PROVE Piece'
  <2> SUFFICES ASSUME NEW i \in 1 .. Len(toFw'), NEW j \in 1 .. Len(toFw'),
                      i <= j, Mine(toFw[i])'
               PROVE  /\ i < j => Behind(toFw[j])'
                      /\ Mine(toFw[j])' => j - i + 1 + 2 * left' <= 2 * Chunks
    BY DEF Piece
  <2>1. /\ i + k \in 1 .. Len(toFw) /\ j + k \in 1 .. Len(toFw) /\ i + k <= j + k
        /\ toFw'[i] = toFw[i + k] /\ toFw'[j] = toFw[j + k]
    BY <1>1
  <2>2. /\ Mine(toFw[i + k])
        /\ (j + k) - (i + k) = j - i /\ (i < j => i + k < j + k)
    BY <2>1, LensAreNat DEF Mine
  <2>3. /\ i + k < j + k => Behind(toFw[j + k])
        /\ Mine(toFw[j + k]) => (j + k) - (i + k) + 1 + 2 * left <= 2 * Chunks
    BY <1>2, <2>1, <2>2 DEF Piece
  <2>4. (Behind(toFw[j])' <=> Behind(toFw[j + k])) /\ (Mine(toFw[j])' <=> Mine(toFw[j + k]))
    BY <2>1 DEF Behind, Mine, Plain
  <2> QED  BY <2>2, <2>3, <2>4
<1> QED  BY <1>1, <1>2 DEF Behind, Mine, Plain

LEMMA OlderSays == ASSUME TypeOK, Older, NEW t \in Seq(Token), toHost' = toHost \o t,
                          \A i \in 1 .. Len(t) : t[i].up <= up, UNCHANGED up
                   PROVE  (\A i \in 1 .. Len(toHost) : toHost[i].up <= up)'
<1>1. toHost \in Seq(Token)
  BY DEF TypeOK
<1>2. ASSUME NEW i \in 1 .. Len(toHost') PROVE toHost'[i].up <= up
  <2>1. /\ i \in 1 .. Len(toHost) + Len(t)
        /\ toHost'[i] = IF i <= Len(toHost) THEN toHost[i] ELSE t[i - Len(toHost)]
    BY <1>1, ConcatAt
  <2>2. CASE i <= Len(toHost)
    BY <1>1, <2>1, <2>2 DEF Older
  <2>3. CASE i > Len(toHost)
    <3>1. i - Len(toHost) \in 1 .. Len(t) /\ toHost'[i] = t[i - Len(toHost)]
      BY <1>1, <2>1, <2>3
    <3> QED  BY <3>1
  <2> QED  BY <1>1, <2>2, <2>3
<1> QED  BY <1>2

LEMMA VouchedSays == ASSUME TypeOK, NEW t \in Seq(Token), toHost' = toHost \o t,
                            UNCHANGED up, Vouched'
    PROVE  Vouched \/ \E i \in 1 .. Len(t) : t[i] = [op |-> "crc", up |-> up]
<1>1. toHost \in Seq(Token)
  BY DEF TypeOK
<1>2. PICK i \in 1 .. Len(toHost') : toHost'[i] = [op |-> "crc", up |-> up]
  BY DEF Vouched
<1>3. /\ i \in 1 .. Len(toHost) + Len(t)
      /\ toHost'[i] = IF i <= Len(toHost) THEN toHost[i] ELSE t[i - Len(toHost)]
  BY <1>1, ConcatAt
<1>4. CASE i <= Len(toHost)
  BY <1>1, <1>2, <1>3, <1>4 DEF Vouched
<1>5. CASE i > Len(toHost)
  <2>1. i - Len(toHost) \in 1 .. Len(t)
    BY <1>1, <1>3, <1>5
  <2> QED  BY <1>1, <1>2, <1>3, <1>5, <2>1
<1> QED  BY <1>1, <1>4, <1>5

(* A step of the firmware that leaves the buffer alone and answers at most *)
(* one byte.                                                               *)
LEMMA BufferAlone ==
    ASSUME TypeOK, VInv, NEW k \in Nat, Shifted(k), UNCHANGED <<hostVars, fresh, need, held>>,
           fw' \notin {"data", "crc"}, Kept => Kept',
           \/ UNCHANGED toHost
           \/ \E op \in Replies : toHost' = toHost \o Byte(op)
    PROVE  VInv'
<1>1. UNCHANGED <<hpc, left, up, chirp_uploaded, fresh, need, held>>
  BY DEF hostVars
<1>2. /\ Piece'
      /\ (\A i \in 1 .. Len(toFw) : Behind(toFw[i]))
            => (\A i \in 1 .. Len(toFw) : Behind(toFw[i]))'
      /\ (\A i \in 1 .. Len(toFw) : ~Mine(toFw[i]))
            => (\A i \in 1 .. Len(toFw) : ~Mine(toFw[i]))'
      /\ (\A i \in 1 .. Len(toFw) : toFw[i].up <= up)
            => (\A i \in 1 .. Len(toFw) : toFw[i].up <= up)'
  BY <1>1, PieceShifts DEF VInv
<1>3. (\A i \in 1 .. Len(toHost) : toHost[i].up <= up)' /\ (Vouched' => Vouched)
  <2>1. CASE UNCHANGED toHost
    BY <1>1, <2>1 DEF VInv, Older, Vouched
  <2>2. ASSUME NEW op \in Replies, toHost' = toHost \o Byte(op)
        PROVE  (\A i \in 1 .. Len(toHost) : toHost[i].up <= up)' /\ (Vouched' => Vouched)
    <3>1. /\ Byte(op) \in Seq(Token) /\ Len(Byte(op)) = 1
          /\ Byte(op)[1] = [op |-> op, up |-> -1] /\ op # "crc"
      BY <2>2, ByteType DEF Ops, Byte, Replies
    <3>2. \A i \in 1 .. Len(Byte(op)) : Byte(op)[i].up <= up /\ Byte(op)[i].op # "crc"
      BY <3>1, LensAreNat
    <3>3. (\A i \in 1 .. Len(toHost) : toHost[i].up <= up)'
      BY <1>1, <2>2, <3>1, <3>2, OlderSays DEF VInv
    <3>4. Vouched' => Vouched
      BY <1>1, <2>2, <3>1, <3>2, VouchedSays
    <3> QED  BY <3>3, <3>4
  <2> QED  BY <2>1, <2>2
<1>4. Older' /\ Untouched' /\ Met'
  BY <1>1, <1>2, <1>3 DEF VInv, Older, Untouched, Met
<1>5. Wants'
  <2> SUFFICES ASSUME held = {up}
               PROVE  /\ 2 * left <= need
                      /\ \A i \in 1 .. Len(toFw') : Mine(toFw[i])' => i + 2 * left <= need
    BY <1>1 DEF Wants
  <2>1. ASSUME NEW i \in 1 .. Len(toFw'), Mine(toFw[i])' PROVE i + 2 * left <= need
    <3>1. i + k \in 1 .. Len(toFw) /\ toFw'[i] = toFw[i + k]
      BY DEF Shifted
    <3>2. Mine(toFw[i + k])
      BY <1>1, <2>1, <3>1 DEF Mine
    <3>3. i + k + 2 * left <= need
      BY <3>1, <3>2 DEF VInv, Wants
    <3> QED  BY <3>3, LensAreNat
  <2> QED  BY <2>1 DEF VInv, Wants
<1>6. Faithful'
  BY <1>1, <1>3 DEF VInv, Faithful
<1> QED  BY <1>2, <1>4, <1>5, <1>6 DEF VInv

LEMMA CommandVouches == ASSUME TypeOK, VInv, Command, UNCHANGED <<hostVars, observers>>
                        PROVE  VInv'
<1>1. PICK cmd \in ReadAs(Head(toFw)) : Obey(cmd)
  BY DEF Command
<1>2. toFw # <<>> /\ toFw' = Tail(toFw) /\ need' = need /\ held' = held /\ Shifted(1)
  BY TailShifts DEF Command
<1>3. /\ fw' \in {"loop", "drain", "len"}
      /\ fw' = "len" => cmd = "CHIRP_DATA"
      /\ \/ UNCHANGED toHost
         \/ \E op \in Replies : toHost' = toHost \o Byte(op)
  BY <1>1 DEF Obey, PassEnds, Say, Replies
<1>4. ASSUME Kept PROVE Kept'
  <2>1. Plain(Head(toFw))
    <3>1. toFw \in Seq(Token) /\ Len(toFw) >= 1
      BY <1>2 DEF TypeOK
    <3>2. Head(toFw) = toFw[1] /\ 1 \in 1 .. Len(toFw)
      BY <3>1, HeadIsFirst
    <3> QED  BY <1>4, <3>2 DEF Kept
  <2>2. cmd # "CHIRP_DATA"
    BY <2>1 DEF Plain, ReadAs, Commands
  <2>3. (\A i \in 1 .. Len(toFw) : Plain(toFw[i]))'
    BY <1>2, <1>4, PieceShifts DEF hostVars, Kept
  <2> QED  BY <1>2, <1>3, <1>4, <2>2, <2>3 DEF Kept, Holds, hostVars
<1> QED  BY <1>2, <1>3, <1>4, BufferAlone DEF observers

LEMMA DrainVouches == ASSUME TypeOK, VInv, NoCommand \/ Drain, UNCHANGED <<hostVars, observers>>
                      PROVE  VInv'
<1>1. /\ UNCHANGED <<need, held, toHost>> /\ fw' \in {"loop", "drain"}
      /\ toFw' = toFw \/ toFw' = <<>>
  BY DEF NoCommand, Drain, wires
<1>2. Shifted(0)
  <2>1. CASE toFw' = toFw
    BY <2>1, LensAreNat DEF Shifted
  <2>2. CASE toFw' = <<>>
    BY <2>2 DEF Shifted
  <2> QED  BY <1>1, <2>1, <2>2
<1>3. Kept => Kept'
  BY <1>1, <1>2, PieceShifts DEF Kept, Holds, hostVars
<1> QED  BY <1>1, <1>2, <1>3, BufferAlone DEF observers

LEMMA FwTimeoutVouches == ASSUME TypeOK, VInv, FwTimeout PROVE VInv'
<1>1. /\ UNCHANGED <<need, held, toFw, hostVars, fresh>> /\ fw' = "loop" /\ ~Kept
      /\ \E op \in Replies : toHost' = toHost \o Byte(op)
  BY DEF FwTimeout, Fail, Say, Replies, observers, Kept
<1>2. Shifted(0)
  BY <1>1, LensAreNat DEF Shifted
<1> QED  BY <1>1, <1>2, BufferAlone

LEMMA ByteIs == ASSUME NEW op \in Ops
    PROVE  /\ Byte(op) \in Seq(Token) /\ Len(Byte(op)) = 1
           /\ Byte(op)[1] = [op |-> op, up |-> -1]
<1>1. Byte(op) \in Seq(Token)
  BY ByteType
<1> QED  BY <1>1 DEF Byte

LEMMA LengthReply == ASSUME NEW from \in Up
    PROVE  \E t \in Seq(Token) :
             /\ t = Bytes("len", from, 2) \o Byte("ACK")
             /\ \A i \in 1 .. Len(t) : t[i].up \in {from, -1} /\ t[i].op # "crc"
<1> DEFINE a == Bytes("len", from, 2)
           b == Byte("ACK")
<1>1. /\ a \in Seq(Token) /\ Len(a) = 2
      /\ \A i \in 1 .. 2 : a[i] = [op |-> "len", up |-> from]
  BY BytesType DEF Ops
<1>2. b \in Seq(Token) /\ Len(b) = 1 /\ b[1] = [op |-> "ACK", up |-> -1]
  BY ByteIs DEF Ops, Replies
<1> HIDE DEF a, b
<1>3. a \o b \in Seq(Token) /\ Len(a \o b) = 3
      /\ \A i \in 1 .. 3 : (a \o b)[i] = IF i <= 2 THEN a[i] ELSE b[i - 2]
  BY <1>1, <1>2, ConcatType, ConcatAt
<1>4. ASSUME NEW i \in 1 .. 3
      PROVE  (a \o b)[i].up \in {from, -1} /\ (a \o b)[i].op # "crc"
  <2>1. CASE i <= 2
    <3>1. (a \o b)[i] = [op |-> "len", up |-> from]
      BY <1>1, <1>3, <2>1
    <3> QED  BY <3>1
  <2>2. CASE i > 2
    <3>1. i - 2 = 1 /\ (a \o b)[i] = b[1]
      BY <1>3, <2>2
    <3> QED  BY <1>2, <3>1
  <2>3. i <= 2 \/ i > 2
    OBVIOUS
  <2> QED  BY <2>1, <2>2, <2>3, Zenon
<1>5. /\ a \o b = Bytes("len", from, 2) \o Byte("ACK")
      /\ \A i \in 1 .. Len(a \o b) :
            (a \o b)[i].up \in {from, -1} /\ (a \o b)[i].op # "crc"
  BY <1>3, <1>4 DEF a, b
<1> QED  BY <1>3, <1>5

LEMMA GetLengthVouches == ASSUME TypeOK, VInv, GetLength, UNCHANGED <<hostVars, observers>>
                          PROVE  VInv'
<1>0. Shifted(2) /\ ~Kept
  BY AfterShifts DEF GetLength, Kept
<1>1. CASE Refuse
  <2>1. /\ UNCHANGED <<need, held>> /\ fw' = "loop"
        /\ \E op \in Replies : toHost' = toHost \o Byte(op)
    BY <1>1 DEF Refuse, Fail, Say, Replies
  <2> QED  BY <1>0, <2>1, BufferAlone DEF observers
<1>2. ASSUME NEW k \in Nat, NEW from \in Up, Accept(k, from), from <= up,
             from = -1 \/ k = Chunks
      PROVE  VInv'
  <2>1. UNCHANGED <<hpc, left, up, chirp_uploaded, fresh>>
    BY DEF hostVars, observers
  <2>2. /\ need' = 2 * k /\ up \notin held' /\ held' \subseteq {-1}
        /\ fw' = (IF k = 0 THEN "crc" ELSE "data") /\ (held' = {} => k = Chunks)
    BY <1>2, LensAreNat DEF Accept
  <2>3. /\ Piece'
        /\ (\A i \in 1 .. Len(toFw) : ~Mine(toFw[i]))
              => (\A i \in 1 .. Len(toFw) : ~Mine(toFw[i]))'
        /\ (\A i \in 1 .. Len(toFw) : toFw[i].up <= up)
              => (\A i \in 1 .. Len(toFw) : toFw[i].up <= up)'
    BY <1>0, <2>1, PieceShifts DEF VInv
  <2>4. PICK t \in Seq(Token) : /\ t = Bytes("len", from, 2) \o Byte("ACK")
                                /\ \A i \in 1 .. Len(t) : t[i].up <= up /\ t[i].op # "crc"
    <3>1. -1 <= up
      BY LensAreNat
    <3> QED  BY <1>2, <3>1, LengthReply
  <2>5. toHost' = toHost \o t
    BY <1>2, <2>4 DEF Accept, Say
  <2>6. (\A i \in 1 .. Len(toHost) : toHost[i].up <= up)'
    BY <2>1, <2>4, <2>5, OlderSays DEF VInv
  <2>7. ~Vouched' /\ ~fresh'
    <3>1. ~Vouched /\ ~fresh
      BY <1>0 DEF VInv, Faithful
    <3>2. ASSUME NEW i \in 1 .. Len(t), t[i] = [op |-> "crc", up |-> up] PROVE FALSE
      <4>1. t[i].op = "crc"
        BY <3>2
      <4> QED  BY <2>4, <4>1
    <3> QED  BY <2>1, <2>4, <2>5, <3>1, <3>2, VouchedSays
  <2>8. Older'
    <3>1. \A u \in held' : u <= up
      BY <2>2, LensAreNat
    <3> QED  BY <2>1, <2>3, <2>6, <3>1 DEF VInv, Older
  <2>9. Untouched' /\ Met'
    BY <2>1, <2>2, <2>3 DEF VInv, Untouched, Met
  <2>10. Wants'
    BY <2>1, <2>2, LensAreNat DEF Wants
  <2> QED  BY <2>3, <2>7, <2>8, <2>9, <2>10 DEF VInv, Faithful
<1>3. CASE IsLength(toFw) /\ Accept(Chunks, toFw[1].up)
  <2>1. toFw[1] \in Token /\ 1 \in 1 .. Len(toFw)
    BY <1>3, LensAreNat DEF IsLength, TypeOK
  <2>2. toFw[1].up \in Up /\ toFw[1].up <= up
    BY <2>1 DEF Token, VInv, Older
  <2> QED  BY <1>2, <1>3, <2>2, LensAreNat
<1>4. ASSUME NEW k \in {0, 1, Chunks + 1}, Accept(k, -1) PROVE VInv'
  <2>1. -1 \in Up /\ -1 <= up /\ k \in Nat
    BY LensAreNat, UploadsAssumption DEF Up
  <2> QED  BY <1>2, <1>4, <2>1
<1> QED  BY <1>1, <1>3, <1>4 DEF GetLength

LEMMA GetSampleVouches == ASSUME TypeOK, TypeOK', VInv, GetSample,
                                 UNCHANGED <<hostVars, observers>>
                          PROVE  VInv'
<1>1. /\ UNCHANGED <<hpc, left, up, chirp_uploaded, fresh, toHost>>
      /\ fw = "data" /\ need > 0 /\ need' = need - 2 /\ held' = held \cup Sources(toFw)
      /\ fw' = (IF need' = 0 THEN "crc" ELSE "data") /\ ~Kept
  BY DEF GetSample, hostVars, observers, Kept
<1>2. Shifted(2)
  BY AfterShifts DEF GetSample
<1>3. /\ 1 \in 1 .. Len(toFw) /\ 2 \in 1 .. Len(toFw)
      /\ toFw[1] \in Token /\ toFw[2] \in Token
  BY LensAreNat DEF GetSample, TypeOK
<1>4. /\ Piece'
      /\ (\A i \in 1 .. Len(toFw) : Behind(toFw[i]))
            => (\A i \in 1 .. Len(toFw) : Behind(toFw[i]))'
      /\ (\A i \in 1 .. Len(toFw) : ~Mine(toFw[i]))
            => (\A i \in 1 .. Len(toFw) : ~Mine(toFw[i]))'
      /\ (\A i \in 1 .. Len(toFw) : toFw[i].up <= up)
            => (\A i \in 1 .. Len(toFw) : toFw[i].up <= up)'
  BY <1>1, <1>2, PieceShifts DEF VInv
<1>5. \A n \in 1 .. 2 : Mine(toFw[n]) <=> toFw[n].op = "data" /\ toFw[n].up = up
  BY <1>3 DEF Mine, Token
<1>6. ASSUME up \in Sources(toFw) PROVE Mine(toFw[1]) \/ Mine(toFw[2])
  BY <1>5, <1>6, LensAreNat DEF Sources
<1>7. Older'
  <2>1. \A u \in Sources(toFw) : u <= up
    BY <1>3, LensAreNat DEF Sources, VInv, Older
  <2> QED  BY <1>1, <1>4, <2>1 DEF VInv, Older
<1>8. Untouched'
  <2>1. left = Chunks => up \notin Sources(toFw)
    BY <1>3, <1>6 DEF VInv, Untouched
  <2> QED  BY <1>1, <1>4, <2>1 DEF VInv, Untouched
<1>9. Met'
  <2> SUFFICES ASSUME up \in held' PROVE (\A i \in 1 .. Len(toFw) : Behind(toFw[i]))'
    BY <1>1 DEF Met
  <2>1. CASE up \in held
    BY <1>4, <2>1 DEF VInv, Met
  <2>2. CASE up \in Sources(toFw)
    <3>1. PICK n \in 1 .. 2 : Mine(toFw[n])
      BY <1>6, <2>2
    <3>2. \A j \in 1 .. Len(toFw) : n < j => Behind(toFw[j])
      BY <1>3, <3>1 DEF VInv, Piece
    <3>3. ASSUME NEW i \in 1 .. Len(toFw') PROVE Behind(toFw[i])'
      <4>1. i + 2 \in 1 .. Len(toFw) /\ toFw'[i] = toFw[i + 2] /\ n < i + 2
        BY <1>2 DEF Shifted
      <4>2. Behind(toFw[i + 2])
        BY <3>2, <4>1
      <4> QED  BY <1>1, <4>1, <4>2 DEF Behind, Mine, Plain
    <3> QED  BY <3>3
  <2> QED  BY <1>1, <2>1, <2>2
<1>10. Wants'
  <2>1. (fw' = "data" => need' > 0) /\ (fw' = "crc" => need' = 0)
    BY <1>1 DEF TypeOK
  <2>2. held' # {}
    BY <1>1 DEF Sources
  <2> SUFFICES ASSUME held' = {up}
               PROVE  /\ 2 * left <= need'
                      /\ \A i \in 1 .. Len(toFw') : Mine(toFw[i])' => i + 2 * left <= need'
    BY <1>1, <2>1, <2>2 DEF Wants
  <2>3. Sources(toFw) \subseteq {up} /\ (held = {} \/ held = {up})
    BY <1>1
  <2>4. Mine(toFw[1]) /\ Mine(toFw[2])
    <3>1. \A n \in 1 .. 2 : (IF toFw[n].op = "data" THEN toFw[n].up ELSE -1) = up
      BY <2>3 DEF Sources
    <3>2. \A n \in 1 .. 2 : toFw[n].op = "data" /\ toFw[n].up = up
      BY <3>1, LensAreNat
    <3> QED  BY <1>5, <3>2
  <2>5. /\ \A i \in 1 .. Len(toFw) : Mine(toFw[i]) => i + 2 * left <= need
        /\ 2 + 2 * left <= need
    <3>1. CASE held = {up}
      BY <1>3, <2>4, <3>1 DEF VInv, Wants
    <3>2. CASE held = {}
      <4>1. need = 2 * Chunks
        BY <1>1, <3>2 DEF VInv, Wants
      <4>2. ASSUME NEW i \in 1 .. Len(toFw), Mine(toFw[i]) PROVE i + 2 * left <= need
        <5>1. i - 1 + 1 + 2 * left <= 2 * Chunks
          BY <1>3, <2>4, <4>2 DEF VInv, Piece
        <5> QED  BY <4>1, <5>1, LensAreNat
      <4> QED  BY <1>3, <2>4, <4>2
    <3> QED  BY <2>3, <3>1, <3>2
  <2>6. ASSUME NEW i \in 1 .. Len(toFw'), Mine(toFw[i])' PROVE i + 2 * left <= need'
    <3>1. i + 2 \in 1 .. Len(toFw) /\ toFw'[i] = toFw[i + 2]
      BY <1>2 DEF Shifted
    <3>2. Mine(toFw[i + 2])
      BY <1>1, <2>6, <3>1 DEF Mine
    <3>3. i + 2 + 2 * left <= need
      BY <2>5, <3>1, <3>2
    <3> QED  BY <1>1, <3>3, LensAreNat
  <2> QED  BY <1>1, <2>5, <2>6, LensAreNat
<1>11. Faithful'
  BY <1>1 DEF VInv, Faithful, Vouched
<1> QED  BY <1>4, <1>7, <1>8, <1>9, <1>10, <1>11 DEF VInv

(* The CRC that is sent is the upload's only when the buffer is.           *)
LEMMA CrcReply == ASSUME NEW u \in Up
    PROVE  \E t \in Seq(Token) :
             /\ t = Byte("ACK") \o Bytes("crc", u, 4)
             /\ \A i \in 1 .. Len(t) : /\ t[i].up \in {u, -1}
                                       /\ t[i].op = "crc" => t[i].up = u
<1> DEFINE a == Byte("ACK")
           b == Bytes("crc", u, 4)
<1>1. a \in Seq(Token) /\ Len(a) = 1 /\ a[1] = [op |-> "ACK", up |-> -1]
  BY ByteIs DEF Ops, Replies
<1>2. /\ b \in Seq(Token) /\ Len(b) = 4
      /\ \A i \in 1 .. 4 : b[i] = [op |-> "crc", up |-> u]
  BY BytesType DEF Ops
<1> HIDE DEF a, b
<1>3. a \o b \in Seq(Token) /\ Len(a \o b) = 5
      /\ \A i \in 1 .. 5 : (a \o b)[i] = IF i <= 1 THEN a[i] ELSE b[i - 1]
  <2>1. a \in Seq(Token) /\ b \in Seq(Token) /\ Len(a) = 1 /\ Len(b) = 4
    BY <1>1, <1>2
  <2>2. Len(a) + Len(b) = 5
    BY <2>1
  <2>3. a \o b \in Seq(Token)
    BY <2>1, ConcatType
  <2>4. /\ Len(a \o b) = Len(a) + Len(b)
        /\ \A i \in 1 .. Len(a) + Len(b) :
              (a \o b)[i] = IF i <= Len(a) THEN a[i] ELSE b[i - Len(a)]
    BY <2>1, ConcatAt
  <2> QED  BY <2>1, <2>2, <2>3, <2>4
<1>4. ASSUME NEW i \in 1 .. 5
      PROVE  /\ (a \o b)[i].up \in {u, -1}
             /\ (a \o b)[i].op = "crc" => (a \o b)[i].up = u
  <2>1. CASE i <= 1
    <3>1. i = 1 /\ (a \o b)[i] = a[1]
      BY <1>3, <2>1
    <3> QED  BY <1>1, <3>1
  <2>2. CASE i > 1
    <3>1. i - 1 \in 1 .. 4 /\ (a \o b)[i] = b[i - 1]
      BY <1>3, <2>2
    <3>2. (a \o b)[i] = [op |-> "crc", up |-> u]
      BY <1>2, <3>1
    <3> QED  BY <3>2
  <2>3. i <= 1 \/ i > 1
    OBVIOUS
  <2> QED  BY <2>1, <2>2, <2>3, Zenon
<1>5. /\ a \o b = Byte("ACK") \o Bytes("crc", u, 4)
      /\ \A i \in 1 .. Len(a \o b) : /\ (a \o b)[i].up \in {u, -1}
                                     /\ (a \o b)[i].op = "crc" => (a \o b)[i].up = u
  BY <1>3, <1>4 DEF a, b
<1> QED  BY <1>3, <1>5

LEMMA SendCrcVouches == ASSUME TypeOK, VInv, SendCrc, UNCHANGED <<hostVars, observers>>
                        PROVE  VInv'
<1>1. /\ UNCHANGED <<hpc, left, up, chirp_uploaded, fresh, need, held>>
      /\ fw = "crc" /\ need = 0 /\ toFw # <<>> /\ ~Kept /\ Shifted(1)
  BY TailShifts DEF SendCrc, hostVars, observers, Kept, VInv, Wants
<1>2. CASE Fail("ERROR")
  <2>1. fw' = "loop" /\ \E op \in Replies : toHost' = toHost \o Byte(op)
    BY <1>2 DEF Fail, Say, Replies
  <2> QED  BY <1>1, <2>1, BufferAlone DEF hostVars, observers
<1> DEFINE u == IF \E v \in Up : held = {v} THEN CHOOSE v \in Up : held = {v} ELSE -1
<1>3. CASE Say(Byte("ACK") \o Bytes("crc", u, 4)) /\ PassEnds(serial_error)
  <2>1. u \in Up /\ u <= up /\ (u = up => held = {up})
    <3>1. CASE \E v \in Up : held = {v}
      <4>1. u \in Up /\ held = {u}
        BY <3>1
      <4> QED  BY <4>1 DEF VInv, Older
    <3>2. CASE ~\E v \in Up : held = {v}
      BY <3>2, LensAreNat, UploadsAssumption DEF Up
    <3> QED  BY <3>1, <3>2
  <2> HIDE DEF u
  <2>2. PICK t \in Seq(Token) : /\ t = Byte("ACK") \o Bytes("crc", u, 4)
                                /\ \A i \in 1 .. Len(t) :
                                      /\ t[i].up \in {u, -1}
                                      /\ t[i].op = "crc" => t[i].up = u
    BY <2>1, CrcReply
  <2>3. toHost' = toHost \o t
    BY <1>3, <2>2 DEF Say
  <2>4. (\A i \in 1 .. Len(toHost) : toHost[i].up <= up)'
    <3>1. -1 <= up
      BY LensAreNat
    <3>2. \A i \in 1 .. Len(t) : t[i].up <= up
      BY <2>1, <2>2, <3>1
    <3> QED  BY <1>1, <2>3, <3>2, OlderSays DEF VInv
  <2>5. Vouched' => held = {up}
    <3> SUFFICES ASSUME Vouched' PROVE held = {up}
      OBVIOUS
    <3>1. ~Vouched
      BY <1>1 DEF VInv, Faithful
    <3>2. PICK i \in 1 .. Len(t) : t[i] = [op |-> "crc", up |-> up]
      BY <1>1, <2>3, <3>1, VouchedSays
    <3>3. t[i].op = "crc" /\ t[i].up = up
      BY <3>2
    <3> QED  BY <2>1, <2>2, <3>3
  <2>6. /\ Piece'
        /\ (\A i \in 1 .. Len(toFw) : Behind(toFw[i]))
              => (\A i \in 1 .. Len(toFw) : Behind(toFw[i]))'
        /\ (\A i \in 1 .. Len(toFw) : ~Mine(toFw[i]))
              => (\A i \in 1 .. Len(toFw) : ~Mine(toFw[i]))'
        /\ (\A i \in 1 .. Len(toFw) : Plain(toFw[i]))
              => (\A i \in 1 .. Len(toFw) : Plain(toFw[i]))'
        /\ (\A i \in 1 .. Len(toFw) : toFw[i].up <= up)
              => (\A i \in 1 .. Len(toFw) : toFw[i].up <= up)'
    BY <1>1, PieceShifts DEF VInv
  <2>7. fw' \in {"loop", "drain"}
    BY <1>3 DEF PassEnds
  <2>8. held = {up} => left = 0 /\ \A i \in 1 .. Len(toFw) : Plain(toFw[i]) /\ ~Mine(toFw[i])
    <3> SUFFICES ASSUME held = {up}
                 PROVE  left = 0 /\ \A i \in 1 .. Len(toFw) : Plain(toFw[i]) /\ ~Mine(toFw[i])
      OBVIOUS
    <3>1. left = 0
      BY <1>1, LensAreNat DEF VInv, Wants
    <3>2. ASSUME NEW i \in 1 .. Len(toFw) PROVE ~Mine(toFw[i])
      BY <1>1, <3>1, LensAreNat DEF VInv, Wants
    <3> QED  BY <3>1, <3>2 DEF VInv, Met, Behind
  <2>9. Vouched' => Kept'
    BY <1>1, <2>5, <2>6, <2>7, <2>8 DEF Kept, Holds
  <2>10. Older' /\ Untouched' /\ Met'
    BY <1>1, <2>4, <2>6 DEF VInv, Older, Untouched, Met
  <2>11. Wants'
    BY <1>1, <2>6, <2>7, <2>8, LensAreNat DEF Wants
  <2>12. Faithful'
    BY <1>1, <2>9 DEF VInv, Faithful
  <2> QED  BY <2>6, <2>10, <2>11, <2>12 DEF VInv
<1> QED  BY <1>2, <1>3 DEF SendCrc

(* Of the host's steps.  It may verify an upload only on a CRC that vouches*)
(* for it.                                                                 *)
Verifies == fresh => /\ chirp_uploaded
                     /\ hpc \notin {"len", "ack", "sending", "done", "crc"}

LEMMA AnswersFewer == ASSUME TypeOK, Older, Fewer, UNCHANGED up
    PROVE  (\A i \in 1 .. Len(toHost) : toHost[i].up <= up)' /\ (Vouched' => Vouched)
<1>1. ASSUME NEW i \in 1 .. Len(toHost')
      PROVE  toHost'[i].up <= up /\ (toHost'[i] = [op |-> "crc", up |-> up] => Vouched)
  <2>1. PICK j \in 1 .. Len(toHost) : toHost'[i] = toHost[j]
    BY DEF Fewer
  <2> QED  BY <2>1 DEF Older, Vouched
<1> QED  BY <1>1 DEF Vouched

(* The host reads, or ends its call. *)
LEMMA HostReads ==
    ASSUME TypeOK, VInv, UNCHANGED <<fwVars, toFw, up, left>>, Fewer,
           hpc' = "sending" => hpc = "sending" \/ left = Chunks,
           hpc' \in {"len", "ack"} => hpc \in {"len", "ack"},
           fresh' => Kept, Verifies'
    PROVE  VInv'
<1>1. UNCHANGED <<fw, need, held, toFw, up, left>>
  BY DEF fwVars
<1>2. (\A i \in 1 .. Len(toHost) : toHost[i].up <= up)' /\ (Vouched' => Vouched)
  BY AnswersFewer DEF VInv
<1>3. Older' /\ Untouched' /\ Wants'
  BY <1>1, <1>2 DEF VInv, Older, Untouched, Wants, Mine
<1>4. Piece' /\ Met'
  <2>1. CASE left = Chunks
    <3>1. up \notin held /\ \A i \in 1 .. Len(toFw') : ~Mine(toFw[i])'
      BY <1>1, <2>1 DEF VInv, Untouched, Mine
    <3> QED  BY <1>1, <3>1 DEF Piece, Met
  <2>2. CASE left # Chunks
    <3>1. \A i \in 1 .. Len(toFw) : /\ Behind(toFw[i]) => Behind(toFw[i])'
                                    /\ Mine(toFw[i])' <=> Mine(toFw[i])
      BY <1>1, <2>2 DEF Behind, Mine, Plain
    <3> QED  BY <1>1, <3>1 DEF VInv, Piece, Met
  <2> QED  BY <2>1, <2>2
<1>5. Kept => Kept'
  BY <1>1 DEF Kept, Holds, Plain
<1>6. Faithful'
  BY <1>2, <1>5 DEF VInv, Faithful, Verifies
<1> QED  BY <1>3, <1>4, <1>6 DEF VInv

(* The host writes a command that leaves the buffer as it is. *)
LEMMA HostAsks ==
    ASSUME TypeOK, VInv, UNCHANGED <<fwVars, up, left>>, Fewer,
           NEW op \in {"ACK_REQ", "EMIT_CHIRP", "GET_MAX"}, Ask(Byte(op)),
           hpc' \notin {"sending", "len", "ack"}, fresh' => Kept, Verifies'
    PROVE  VInv'
<1>1. UNCHANGED <<fw, need, held, up, left>>
  BY DEF fwVars
<1>2. (\A i \in 1 .. Len(toHost) : toHost[i].up <= up)' /\ (Vouched' => Vouched)
  BY AnswersFewer DEF VInv
<1> DEFINE n == Len(toFw)
<1>3. n \in Nat /\ up \in Nat /\ -1 <= up
  BY LensAreNat
<1>4. Len(toFw') = n + 1 /\ \A i \in 1 .. n : toFw'[i] = toFw[i]
  <2>1. toFw \in Seq(Token) /\ Byte(op) \in Seq(Token) /\ Len(Byte(op)) = 1
    BY ByteIs DEF TypeOK, Ops, Commands
  <2> QED  BY <2>1, <1>3, ConcatAt DEF Ask
<1>5. toFw'[n + 1] = [op |-> op, up |-> -1]
  <2>1. /\ toFw \in Seq(Token) /\ Byte(op) \in Seq(Token) /\ Len(Byte(op)) = 1
        /\ Byte(op)[1] = [op |-> op, up |-> -1]
    BY ByteIs DEF TypeOK, Ops, Commands
  <2>2. /\ n + 1 \in 1 .. Len(toFw) + Len(Byte(op))
        /\ ~(n + 1 <= Len(toFw)) /\ (n + 1) - Len(toFw) = 1
    BY <2>1, <1>3
  <2> QED  BY <2>1, <2>2, ConcatAt DEF Ask
<1> HIDE DEF n
<1>6. ASSUME NEW i \in 1 .. Len(toFw')
      PROVE  i \in 1 .. n \/ (i = n + 1 /\ toFw'[i] = [op |-> op, up |-> -1])
  BY <1>3, <1>4, <1>5
<1>7. ASSUME NEW i \in 1 .. Len(toFw')
      PROVE  /\ toFw'[i].up <= up
             /\ Mine(toFw[i])' => i \in 1 .. n /\ Mine(toFw[i])
             /\ (i \in 1 .. n => Behind(toFw[i])) => Behind(toFw[i])'
             /\ (i \in 1 .. n => Plain(toFw[i])) => Plain(toFw[i])'
  <2>1. CASE i \in 1 .. n
    BY <1>1, <1>4, <2>1 DEF VInv, Older, Mine, Plain, Behind, n
  <2>2. CASE i = n + 1 /\ toFw'[i] = [op |-> op, up |-> -1] /\ i \notin 1 .. n
    <3>1. /\ toFw'[i].up = -1 /\ toFw'[i].op = op /\ ~Mine(toFw[i])'
          /\ Plain(toFw[i])' /\ Behind(toFw[i])'
      BY <2>2 DEF Mine, Plain, Behind
    <3> QED  BY <1>3, <3>1
  <2> QED  BY <1>6, <2>1, <2>2
<1>8. Older' /\ Untouched' /\ Met'
  BY <1>1, <1>2, <1>7 DEF VInv, Older, Untouched, Met, n
<1>9. Piece'
  <2> SUFFICES ASSUME NEW i \in 1 .. Len(toFw'), NEW j \in 1 .. Len(toFw'),
                      i <= j, Mine(toFw[i])'
               PROVE  /\ i < j => Behind(toFw[j])'
                      /\ Mine(toFw[j])' => j - i + 1 + 2 * left' <= 2 * Chunks
    BY DEF Piece
  <2>1. i \in 1 .. n /\ Mine(toFw[i])
    BY <1>7
  <2>2. ASSUME i < j PROVE Behind(toFw[j])'
    <3>1. j \in 1 .. n => Behind(toFw[j])
      BY <2>1, <2>2 DEF VInv, Piece, n
    <3> QED  BY <1>7, <3>1
  <2>3. ASSUME Mine(toFw[j])' PROVE j - i + 1 + 2 * left' <= 2 * Chunks
    <3>1. j \in 1 .. n /\ Mine(toFw[j])
      BY <1>7, <2>3
    <3> QED  BY <1>1, <2>1, <3>1 DEF VInv, Piece, n
  <2> QED  BY <2>2, <2>3
<1>10. Wants'
  BY <1>1, <1>7 DEF VInv, Wants, n
<1>11. Kept => Kept'
  BY <1>1, <1>7 DEF Kept, Holds, n
<1>12. Faithful'
  BY <1>2, <1>11 DEF VInv, Faithful, Verifies
<1> QED  BY <1>8, <1>9, <1>10, <1>12 DEF VInv

LEMMA SendChunkVouches == ASSUME TypeOK, VInv, SendChunk, UNCHANGED fwVars PROVE VInv'
<1> DEFINE n == Len(toFw)
           b == Bytes("data", up, 2)
<1>1. /\ UNCHANGED <<fw, need, held, toHost, hpc, up, chirp_uploaded, fresh>>
      /\ hpc = "sending" /\ left > 0 /\ left' = left - 1 /\ toFw' = toFw \o b
  BY DEF SendChunk, MoreToSend, Ask, fwVars
<1>2. /\ n \in Nat /\ up \in Nat /\ left \in Nat /\ left' \in Nat /\ left <= Chunks
      /\ Chunks \in Nat /\ need \in Nat
  BY <1>1, LensAreNat
<1>3. toFw \in Seq(Token) /\ b \in Seq(Token) /\ Len(b) = 2
      /\ \A i \in 1 .. 2 : b[i] = [op |-> "data", up |-> up]
  BY UpType, BytesType DEF TypeOK, Ops
<1> HIDE DEF b
<1>4. Len(toFw') = n + 2 /\ \A i \in 1 .. n : toFw'[i] = toFw[i]
  <2>1. /\ Len(toFw') = Len(toFw) + Len(b)
        /\ \A i \in 1 .. Len(toFw) + Len(b) :
              toFw'[i] = IF i <= Len(toFw) THEN toFw[i] ELSE b[i - Len(toFw)]
    BY <1>1, <1>3, ConcatAt
  <2>2. Len(b) = 2
    BY <1>3
  <2> QED  BY <1>2, <2>1, <2>2
<1>5. ASSUME NEW i \in n + 1 .. n + 2 PROVE toFw'[i] = [op |-> "data", up |-> up]
  <2>1. /\ i \in 1 .. Len(toFw) + Len(b) /\ ~(i <= Len(toFw))
        /\ i - Len(toFw) \in 1 .. 2
    BY <1>2, <1>3
  <2>2. toFw'[i] = b[i - Len(toFw)]
    BY <1>1, <1>3, <2>1, ConcatAt
  <2> QED  BY <1>3, <2>1, <2>2
<1> HIDE DEF n
<1>6. ASSUME NEW i \in 1 .. Len(toFw') PROVE i \in Int /\ (i \in 1 .. n \/ i \in n + 1 .. n + 2)
  BY <1>2, <1>4
<1>7. ASSUME NEW i \in 1 .. Len(toFw')
      PROVE  /\ toFw'[i].up <= up
             /\ i \in 1 .. n => /\ Mine(toFw[i])' <=> Mine(toFw[i])
                                /\ Behind(toFw[i]) => Behind(toFw[i])'
             /\ i \in n + 1 .. n + 2 => Mine(toFw[i])' /\ Behind(toFw[i])'
  <2>1. CASE i \in 1 .. n
    <3>1. toFw'[i] = toFw[i] /\ i \notin n + 1 .. n + 2
      BY <1>2, <1>4, <2>1
    <3> QED  BY <1>1, <2>1, <3>1 DEF VInv, Older, Mine, Plain, Behind, n
  <2>2. CASE i \in n + 1 .. n + 2
    <3>1. toFw'[i] = [op |-> "data", up |-> up] /\ i \notin 1 .. n
      BY <1>2, <1>5, <2>2
    <3>2. toFw'[i].up = up /\ Mine(toFw[i])' /\ Behind(toFw[i])'
      BY <1>1, <3>1 DEF Mine, Behind
    <3> QED  BY <1>2, <3>1, <3>2
  <2> QED  BY <1>6, <2>1, <2>2
<1>8. Older'
  BY <1>1, <1>7 DEF VInv, Older
<1>9. Untouched'
  <2>1. left' # Chunks /\ hpc' \notin {"len", "ack"}
    BY <1>1, <1>2
  <2> QED  BY <2>1 DEF Untouched
<1>10. Piece'
  <2> SUFFICES ASSUME NEW i \in 1 .. Len(toFw'), NEW j \in 1 .. Len(toFw'),
                      i <= j, Mine(toFw[i])'
               PROVE  /\ i < j => Behind(toFw[j])'
                      /\ Mine(toFw[j])' => j - i + 1 + 2 * left' <= 2 * Chunks
    BY DEF Piece
  <2>1. CASE j \in 1 .. n
    <3>1. i \in 1 .. n /\ Mine(toFw[i]) /\ (Mine(toFw[j])' <=> Mine(toFw[j]))
          /\ (Behind(toFw[j]) => Behind(toFw[j])')
      <4>1. i \in 1 .. n
        BY <1>2, <1>6, <2>1
      <4> QED  BY <1>7, <2>1, <4>1
    <3>2. /\ i < j => Behind(toFw[j])
          /\ Mine(toFw[j]) => j - i + 1 + 2 * left <= 2 * Chunks
      BY <2>1, <3>1 DEF VInv, Piece, n
    <3>3. j - i + 1 + 2 * left <= 2 * Chunks => j - i + 1 + 2 * left' <= 2 * Chunks
      BY <1>1, <1>2, <1>6
    <3> QED  BY <3>1, <3>2, <3>3
  <2>2. CASE j \in n + 1 .. n + 2
    <3>1. Behind(toFw[j])'
      BY <1>7, <2>2
    <3>2. j - i + 1 + 2 * left' <= 2 * Chunks
      <4>1. CASE i \in n + 1 .. n + 2
        BY <1>1, <1>2, <2>2, <4>1
      <4>2. CASE i \in 1 .. n
        <5>1. Mine(toFw[i]) /\ n \in 1 .. n /\ i <= n
          BY <1>2, <1>7, <4>2
        <5>2. Mine(toFw[n])
          BY <1>1, <4>2, <5>1 DEF VInv, Piece, n, Behind
        <5>3. n - i + 1 + 2 * left <= 2 * Chunks
          BY <4>2, <5>1, <5>2 DEF VInv, Piece, n
        <5> QED  BY <1>1, <1>2, <2>2, <4>2, <5>3
      <4> QED  BY <1>6, <4>1, <4>2
    <3> QED  BY <3>1, <3>2
  <2> QED  BY <1>6, <2>1, <2>2
<1>11. up \in held => \A i \in 1 .. Len(toFw) : Mine(toFw[i])
  BY <1>1 DEF VInv, Met, Behind
<1>12. Met'
  <2> SUFFICES ASSUME up \in held, NEW i \in 1 .. Len(toFw') PROVE Behind(toFw[i])'
    BY <1>1 DEF Met
  <2>1. i \in 1 .. n => Behind(toFw[i])
    BY <1>11 DEF Behind, n
  <2> QED  BY <1>6, <1>7, <2>1
<1>13. Wants'
  <2> SUFFICES ASSUME held = {up}
               PROVE  /\ 2 * left' <= need
                      /\ \A i \in 1 .. Len(toFw') : Mine(toFw[i])' => i + 2 * left' <= need
    BY <1>1 DEF VInv, Wants
  <2>1. 2 * left <= need
    BY DEF VInv, Wants
  <2>2. ASSUME NEW i \in 1 .. Len(toFw') PROVE i + 2 * left' <= need
    <3>1. CASE i \in 1 .. n
      <4>1. i + 2 * left <= need
        BY <1>11, <3>1 DEF VInv, Wants, n
      <4> QED  BY <1>1, <1>2, <3>1, <4>1
    <3>2. CASE i \in n + 1 .. n + 2
      <4>1. CASE n = 0
        BY <1>1, <1>2, <2>1, <3>2, <4>1
      <4>2. CASE n > 0
        <5>1. n \in 1 .. n
          BY <1>2, <4>2
        <5>2. n + 2 * left <= need
          BY <1>11, <5>1 DEF VInv, Wants, n
        <5>3. i + 2 * left' <= n + 2 * left
          BY <1>1, <1>2, <3>2
        <5>4. /\ i + 2 * left' \in Int /\ n + 2 * left \in Int /\ need \in Int
          BY <1>2, <1>6
        <5> QED  BY <5>2, <5>3, <5>4
      <4>3. n = 0 \/ n > 0
        BY <1>2
      <4> QED  BY <4>1, <4>2, <4>3, Zenon
    <3> QED  BY <1>6, <3>1, <3>2
  <2> QED  BY <1>1, <1>2, <2>1, <2>2
<1>14. Faithful'
  <2>1. ~fresh /\ ~Vouched
    BY <1>1, <1>2 DEF VInv, Faithful, Kept
  <2> QED  BY <1>1, <2>1 DEF Faithful, Vouched
<1> QED  BY <1>8, <1>9, <1>10, <1>12, <1>13, <1>14 DEF VInv

(* A new upload: nothing that is about can be taken for it. *)
LEMMA BeginUploadVouches ==
    ASSUME TypeOK, up < Uploads, VInv, BeginUpload, Fewer, UNCHANGED fwVars PROVE VInv'
<1> DEFINE n == Len(toFw)
           a == Byte("CHIRP_DATA")
           b == Bytes("len", up', 2)
<1>1. /\ UNCHANGED <<fw, need, held>> /\ up' = up + 1 /\ left' = Chunks
      /\ ~fresh' /\ hpc' = "len" /\ toFw' = toFw \o (a \o b)
  BY DEF BeginUpload, Ask, fwVars
<1>2. n \in Nat /\ up \in Nat /\ up' \in Up /\ up' \in Nat /\ up < up'
  BY <1>1, LensAreNat, UpType
<1>3. a \in Seq(Token) /\ Len(a) = 1 /\ a[1] = [op |-> "CHIRP_DATA", up |-> -1]
  BY ByteIs DEF Ops, Commands
<1>4. b \in Seq(Token) /\ Len(b) = 2 /\ \A i \in 1 .. 2 : b[i] = [op |-> "len", up |-> up']
  BY <1>2, BytesType DEF Ops
<1> HIDE DEF a, b
<1>5. a \o b \in Seq(Token) /\ Len(a \o b) = 3
      /\ \A i \in 1 .. 3 : (a \o b)[i] = IF i <= 1 THEN a[i] ELSE b[i - 1]
  <2>1. Len(a) = 1 /\ Len(a) + Len(b) = 3
    BY <1>3, <1>4
  <2>2. a \o b \in Seq(Token)
    BY <1>3, <1>4, ConcatType
  <2>3. /\ Len(a \o b) = Len(a) + Len(b)
        /\ \A i \in 1 .. Len(a) + Len(b) :
              (a \o b)[i] = IF i <= Len(a) THEN a[i] ELSE b[i - Len(a)]
    BY <1>3, <1>4, ConcatAt
  <2> QED  BY <2>1, <2>2, <2>3
<1>6. ASSUME NEW i \in 1 .. 3
      PROVE  (a \o b)[i].up \in {up', -1} /\ (a \o b)[i].op # "data"
  <2>1. CASE i <= 1
    <3>1. i = 1 /\ (a \o b)[i] = a[1]
      BY <1>5, <2>1
    <3> QED  BY <1>3, <3>1
  <2>2. CASE i > 1
    <3>1. i - 1 \in 1 .. 2 /\ (a \o b)[i] = b[i - 1]
      BY <1>5, <2>2
    <3>2. (a \o b)[i] = [op |-> "len", up |-> up']
      BY <1>4, <3>1
    <3> QED  BY <3>2
  <2>3. i <= 1 \/ i > 1
    OBVIOUS
  <2> QED  BY <2>1, <2>2, <2>3, Zenon
<1>7. ASSUME NEW i \in 1 .. Len(toFw')
      PROVE  toFw'[i].up <= up' /\ ~Mine(toFw[i])'
  <2>1. /\ toFw \in Seq(Token) /\ i \in 1 .. n + 3
        /\ toFw'[i] = IF i <= n THEN toFw[i] ELSE (a \o b)[i - n]
    BY <1>1, <1>2, <1>5, ConcatAt DEF TypeOK
  <2>2. CASE i <= n
    <3>1. i \in 1 .. n /\ toFw'[i] = toFw[i]
      BY <1>2, <2>1, <2>2
    <3>2. toFw[i].up <= up /\ toFw[i] \in Token
      BY <2>1, <3>1 DEF VInv, Older
    <3>3. toFw[i].up \in Int
      BY <3>2 DEF Token, Up
    <3>4. toFw[i].up <= up' /\ toFw[i].up # up'
      BY <1>2, <3>2, <3>3
    <3> QED  BY <3>1, <3>4 DEF Mine
  <2>3. CASE i > n
    <3>1. i - n \in 1 .. 3 /\ toFw'[i] = (a \o b)[i - n]
      <4>1. i - n \in 1 .. 3 /\ ~(i <= n)
        BY <1>2, <2>1, <2>3
      <4> QED  BY <2>1, <4>1
    <3>2. toFw'[i].up \in {up', -1} /\ toFw'[i].op # "data"
      BY <1>6, <3>1
    <3>3. toFw'[i].up <= up'
      BY <1>2, <3>2
    <3> QED  BY <3>2, <3>3 DEF Mine
  <2>4. i <= n \/ i > n
    BY <1>2
  <2> QED  BY <2>2, <2>3, <2>4
<1>8. (\A i \in 1 .. Len(toHost) : toHost[i].up <= up)' /\ ~Vouched'
  <2>1. ASSUME NEW i \in 1 .. Len(toHost') PROVE toHost'[i].up <= up' /\ toHost'[i].up # up'
    <3>1. PICK j \in 1 .. Len(toHost) : toHost'[i] = toHost[j]
      BY DEF Fewer
    <3>2. toHost[j] \in Token /\ toHost[j].up <= up
      BY DEF VInv, Older, TypeOK
    <3>3. toHost[j].up \in Int
      BY <3>2 DEF Token, Up
    <3>4. toHost[j].up <= up' /\ toHost[j].up # up'
      BY <1>2, <3>2, <3>3
    <3> QED  BY <3>1, <3>4
  <2> QED  BY <2>1 DEF Vouched
<1>9. up' \notin held /\ \A u \in held : u <= up'
  <2>1. \A u \in held : u \in Int /\ u <= up
    BY DEF VInv, Older, TypeOK, Up
  <2> QED  BY <1>2, <2>1
<1>10. Older' /\ Untouched' /\ Piece' /\ Met'
  BY <1>1, <1>7, <1>8, <1>9 DEF Older, Untouched, Piece, Met
<1>11. Wants'
  BY <1>1, <1>9 DEF VInv, Wants
<1>12. Faithful'
  BY <1>1, <1>8 DEF Faithful
<1> QED  BY <1>10, <1>11, <1>12 DEF VInv

LEMMA AnsweredVouches == ASSUME TypeOK, Room, VInv, Answered PROVE VInv'
<1>0. UNCHANGED fwVars
  BY DEF Answered
<1>1. fresh => Kept
  BY DEF VInv, Faithful
<1>2. toHost' = <<>> \/ toHost' = toHost => Fewer
  BY LensAreNat DEF Fewer
<1>3. CASE Connected
  <2>1. fresh => chirp_uploaded
    BY DEF VInv, Faithful
  <2>2. CASE /\ Take /\ Return(FALSE) /\ UNCHANGED <<toFw, goal, up, left, fresh>>
    <3>1. hpc' = "idle" /\ chirp_uploaded' = chirp_uploaded
      BY <1>3, <2>2 DEF Return, Connected
    <3> QED  BY <1>0, <1>1, <2>1, <2>2, <3>1, TakeFewer, HostReads DEF Verifies
  <2>3. CASE Connect /\ UNCHANGED <<up, left, failed, fresh>>
    <3>1. /\ hpc' = "status" /\ chirp_uploaded' = chirp_uploaded /\ Fewer
          /\ Ask(Byte("ACK_REQ"))
      BY <1>2, <1>3, <2>3 DEF Connect, Connected
    <3> QED  BY <1>0, <1>1, <2>1, <2>3, <3>1, HostAsks DEF Verifies
  <2>4. CASE Take /\ BeginUpload /\ goal = "upload"
    <3>1. up < Uploads
      BY <1>3, <2>4 DEF Connected, Room
    <3> QED  BY <1>0, <2>4, <3>1, TakeFewer, BeginUploadVouches
  <2>5. CASE /\ Take /\ Ask(Byte(IF goal = "chirp" THEN "EMIT_CHIRP" ELSE "GET_MAX"))
             /\ hpc' = (IF goal = "chirp" THEN "emitted" ELSE "max")
             /\ UNCHANGED <<goal, up, left, failed, fresh>>
    <3>1. chirp_uploaded' = chirp_uploaded
      BY <1>3 DEF Connected
    <3>2. hpc' \in {"emitted", "max"}
      BY <2>5
    <3>3. (IF goal = "chirp" THEN "EMIT_CHIRP" ELSE "GET_MAX")
             \in {"ACK_REQ", "EMIT_CHIRP", "GET_MAX"}
      OBVIOUS
    <3> QED  BY <1>0, <1>1, <2>1, <2>5, <3>1, <3>2, <3>3, TakeFewer, HostAsks DEF Verifies
  <2> QED  BY <1>3, <2>2, <2>3, <2>4, <2>5 DEF Connected
<1>4. CASE GotMax
  <2>1. Take /\ chirp_uploaded' = chirp_uploaded /\ (fresh => chirp_uploaded) /\ hpc = "max"
    BY <1>4 DEF GotMax, VInv, Faithful
  <2>2. CASE goal = "max first" /\ BeginUpload
    <3>1. up < Uploads
      BY <2>1, <2>2 DEF Room
    <3> QED  BY <1>0, <2>1, <2>2, <3>1, TakeFewer, BeginUploadVouches
  <2>3. CASE hpc' = "idle" /\ UNCHANGED <<toFw, up, left, fresh>>
    BY <1>0, <1>1, <2>1, <2>3, TakeFewer, HostReads DEF Verifies
  <2> QED  BY <1>4, <2>2, <2>3 DEF GotMax, Return
<1>5. CASE GotLength
  <2>1. /\ UNCHANGED <<toFw, chirp_uploaded, left, up, fresh>> /\ hpc = "len"
        /\ hpc' \in {"ack", "idle"} /\ ~fresh
    BY <1>5 DEF GotLength, Return, VInv, Faithful
  <2>2. Fewer
    BY <1>5, TakeFewer, FewerAfter DEF GotLength
  <2> QED  BY <1>0, <2>1, <2>2, HostReads DEF Verifies
<1>6. CASE GotAck
  <2>1. /\ UNCHANGED <<toFw, left, up, fresh>> /\ hpc = "ack" /\ left = Chunks
        /\ hpc' \in {"sending", "idle"} /\ ~fresh /\ Take
    BY <1>6 DEF GotAck, Return, VInv, Faithful, Untouched
  <2> QED  BY <1>0, <2>1, TakeFewer, HostReads DEF Verifies
<1>7. CASE SendChunk
  BY <1>0, <1>7, SendChunkVouches
<1>8. CASE AskForCrc
  <2>1. /\ UNCHANGED <<toHost, left, up, fresh>> /\ hpc' = "done" /\ ~fresh
        /\ Ask(Byte("ACK_REQ"))
    BY <1>8 DEF AskForCrc, VInv, Faithful
  <2> QED  BY <1>0, <1>2, <2>1, HostAsks DEF Verifies
<1>9. CASE GotDone
  <2>1. /\ UNCHANGED <<toFw, left, up, fresh>> /\ hpc' \in {"crc", "idle"} /\ ~fresh /\ Take
    BY <1>9 DEF GotDone, Return, VInv, Faithful
  <2> QED  BY <1>0, <2>1, TakeFewer, HostReads DEF Verifies
<1>10. CASE GotCrc
  <2>1. /\ UNCHANGED <<toFw, left, up>> /\ hpc' = "idle" /\ Take
        /\ chirp_uploaded' = fresh' /\ (fresh' => RightCrc(toHost[1]))
    BY <1>10 DEF GotCrc, Return
  <2>2. fresh' => Kept
    <3>1. 1 \in 1 .. Len(toHost)
      BY <1>10, LensAreNat DEF GotCrc
    <3>2. RightCrc(toHost[1]) => Vouched
      BY <3>1 DEF RightCrc, Vouched
    <3> QED  BY <2>1, <3>2 DEF VInv, Faithful
  <2> QED  BY <1>0, <2>1, <2>2, TakeFewer, HostReads DEF Verifies
<1>11. CASE GotEmitted
  <2>1. /\ UNCHANGED <<toFw, chirp_uploaded, left, up, fresh>> /\ hpc' = "idle" /\ Take
        /\ (fresh => chirp_uploaded)
    BY <1>11 DEF GotEmitted, Return, VInv, Faithful
  <2> QED  BY <1>0, <1>1, <2>1, TakeFewer, HostReads DEF Verifies
<1> QED  BY <1>3, <1>4, <1>5, <1>6, <1>7, <1>8, <1>9, <1>10, <1>11 DEF Answered

LEMMA VouchedStep == ASSUME IInv, TypeOK', VInv, [Next]_vars PROVE VInv'
<1>0. TypeOK /\ Room /\ (fresh => Kept /\ Verifies)
      /\ (toHost' = <<>> \/ toHost' = toHost => Fewer)
  BY LensAreNat DEF IInv, VInv, Faithful, Verifies, Fewer
<1>1. CASE Firmware
  BY <1>0, <1>1, CommandVouches, DrainVouches, GetLengthVouches, GetSampleVouches,
     SendCrcVouches DEF Firmware
<1>2. CASE FwTimeout
  BY <1>0, <1>2, FwTimeoutVouches
<1>3. CASE Call
  <2>1. /\ UNCHANGED <<fwVars, chirp_uploaded, left, up, fresh>> /\ toHost' = <<>>
        /\ Ask(Byte("ACK_REQ")) /\ hpc' = "status"
    BY <1>3 DEF Call, Connect
  <2> QED  BY <1>0, <2>1, HostAsks DEF Verifies
<1>4. CASE Answered
  BY <1>0, <1>4, AnsweredVouches
<1>5. CASE GivesUp
  <2>1. /\ UNCHANGED <<fwVars, toFw, left, up, fresh>> /\ hpc' = "idle" /\ toHost' = <<>>
        /\ chirp_uploaded' = (chirp_uploaded /\ hpc \notin {"ack", "done"})
    BY <1>5 DEF GivesUp, TimedOut, Return
  <2> QED  BY <1>0, <2>1, HostReads DEF Verifies
<1>6. CASE BreakOff
  <2>1. /\ UNCHANGED <<fwVars, toFw, toHost, left, up, fresh>> /\ hpc' = "idle" /\ hpc = "sending"
    BY <1>6 DEF BreakOff, Return, wires
  <2> QED  BY <1>0, <2>1, HostReads DEF Verifies
<1>7. CASE HostRestart
  <2>1. /\ UNCHANGED <<fwVars, toFw, left, up>> /\ hpc' = "idle" /\ toHost' = <<>> /\ ~fresh'
    BY <1>7 DEF HostRestart
  <2> QED  BY <1>0, <2>1, HostReads DEF Verifies
<1>8. CASE FwRestart
  <2>1. /\ UNCHANGED <<hpc, left, up>> /\ toFw' = <<>> /\ toHost' = <<>> /\ ~fresh'
        /\ held' = {} /\ fw' = "loop" /\ Len(toFw') = 0 /\ Len(toHost') = 0
    BY <1>8 DEF FwRestart, hostVars
  <2>2. Older' /\ Piece' /\ Met' /\ Wants' /\ Faithful'
    BY <2>1 DEF Older, Piece, Met, Wants, Faithful, Vouched
  <2>3. Untouched'
    BY <2>1 DEF VInv, Untouched
  <2> QED  BY <2>2, <2>3 DEF VInv
<1>9. CASE UNCHANGED vars
  <2>1. UNCHANGED <<fwVars, toFw, toHost, hpc, chirp_uploaded, left, up, fresh>>
    BY <1>9 DEF vars, hostVars, wires, observers
  <2> QED  BY <1>0, <2>1, HostReads DEF Verifies
<1> QED  BY <1>1, <1>2, <1>3, <1>4, <1>5, <1>6, <1>7, <1>8, <1>9 DEF Next

LEMMA InitVouched == Init => VInv
<1> SUFFICES ASSUME Init PROVE VInv
  OBVIOUS
<1>1. /\ toFw = <<>> /\ toHost = <<>> /\ Len(toFw) = 0 /\ Len(toHost) = 0 /\ held = {}
      /\ fw = "loop" /\ ~fresh /\ hpc = "idle"
  BY DEF Init
<1> QED  BY <1>1 DEF VInv, Older, Untouched, Piece, Met, Wants, Faithful, Vouched

LEMMA VouchedAlways == Spec => []VInv
<1>1. IInv => TypeOK
  BY DEF IInv
<1>2. IInv /\ VInv /\ TypeOK' /\ [Next]_vars => VInv'
  BY VouchedStep
<1> QED  BY <1>1, <1>2, InitVouched, InvAlways, PTL DEF Spec

(* An upload that the CRC has verified is in the buffer, all of it and     *)
(* nothing else, and chirp_uploaded says so, until another is tried: for   *)
(* chirps of any length, over any number of uploads, broken or not.        *)
THEOREM VerifiedAlways == Spec => []Verified
<1>1. VInv => Verified
  BY DEF VInv, Faithful, Kept, Verified
<1> QED  BY <1>1, VouchedAlways, PTL
=============================================================================
