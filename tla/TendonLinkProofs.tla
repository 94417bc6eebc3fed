-------------------------- MODULE TendonLinkProofs --------------------------
(***************************************************************************)
(* Theorems about TendonLink, for every set of motors, every set of calls  *)
(* and wires of any length.                                                *)
(***************************************************************************)
EXTENDS TendonLink, SequenceTheorems, TLAPS

-----------------------------------------------------------------------------
(* Facts about the command set                                             *)

(* An accepted command leaves every motor well formed. *)
LEMMA EffectType ==
    ASSUME NEW ms \in [MotorIds -> Motor], NEW r \in Request
    PROVE  Effect(ms, r) \in [MotorIds -> Motor]
  <1>1. CASE CreateCommand(r) # COMM_SUCCESS
    BY <1>1 DEF Effect
  <1>2. CASE CreateCommand(r) = COMM_SUCCESS
    <2>1. r.id \in MotorIds
      BY <1>2 DEF CreateCommand, COMM_SUCCESS, COMM_ID_ERROR,
                  COMM_INSTRUCTION_ERROR
    <2>2. ms[r.id] \in Motor /\ r.arg \in Int
      BY <2>1 DEF Request
    <2>3. /\ Constrain(r.arg, ms[r.id].limit) \in Int
          /\ Constrain(0, ms[r.id].limit) \in Int
      BY <2>2 DEF Constrain, Motor
    <2>4. Execute(ms, r) \in [MotorIds -> Motor]
      BY <2>1, <2>2, <2>3
         DEF Execute, Motor, WRITE_ANGLE, SET_ZERO_ANGLE, SET_MAX_ANGLE,
             WRITE_PID
    <2> QED BY <1>2, <2>4 DEF Effect
  <1> QED BY <1>1, <1>2

(* Every request gets a well-formed reply, whatever is wrong with it. *)
LEMMA ReplyType ==
    ASSUME NEW ms \in [MotorIds -> Motor], NEW r \in Request
    PROVE  Reply(ms, r) \in [status : Statuses, params : Seq(Int)]
  <1>1. CreateCommand(r) \in Statuses
    BY DEF CreateCommand, Statuses, COMM_SUCCESS, COMM_ID_ERROR,
           COMM_INSTRUCTION_ERROR, COMM_PARAM_ERROR
  <1>2. CASE CreateCommand(r) # COMM_SUCCESS
    BY <1>1, <1>2 DEF Reply
  <1>3. CASE CreateCommand(r) = COMM_SUCCESS
    <2>1. r.id \in MotorIds
      BY <1>3 DEF CreateCommand, COMM_SUCCESS, COMM_ID_ERROR,
                  COMM_INSTRUCTION_ERROR
    <2>2. ms[r.id].pos \in Int
      BY <2>1 DEF Motor
    <2>3. Params(ms, r) \in Seq(Int)
      BY <2>2 DEF Params
    <2> QED BY <1>3, <2>3, <1>1 DEF Reply
  <1> QED BY <1>2, <1>3

LEMMA CrcReplyType == CrcReply \in [status : Statuses, params : Seq(Int)]
  BY DEF CrcReply, Statuses, COMM_CRC_ERROR

(* Whatever well-formed reply the host gets, its call ends in one of the   *)
(* five ways.                                                              *)
LEMMA HostOutcomeType ==
    ASSUME NEW r \in Request,
           NEW p, p.status \in Statuses, p.params \in Seq(Int)
    PROVE  HostOutcome(r, p) \in Outcome
  <1>1. p.params # <<>> => p.params[1] \in Int
    OBVIOUS
  <1> QED BY <1>1 DEF HostOutcome, Outcome, Ended

LEMMA EndedType ==
    ASSUME NEW k \in {"none", "done", "value", "raised", "aborted"}
    PROVE  Ended(k) \in Outcome
  BY DEF Ended, Outcome

LEMMA TimeoutOutcomeType ==
    ASSUME NEW r \in Request PROVE TimeoutOutcome(r) \in Outcome
  BY EndedType DEF TimeoutOutcome

LEMMA BootType == [m \in MotorIds |-> BootMotor] \in [MotorIds -> Motor]
  BY DEF BootMotor, Motor
-----------------------------------------------------------------------------
(* Type correctness                                                        *)

(* Dropping the first items of a sequence leaves a sequence. *)
LEMMA DropType ==
    ASSUME NEW S, NEW s \in Seq(S), NEW n \in 0 .. Len(s)
    PROVE  SubSeq(s, n + 1, Len(s)) \in Seq(S)
  BY SubSeqProperties

LEMMA ReplaceHeadType ==
    ASSUME NEW S, NEW s \in Seq(S), s # <<>>, NEW x \in S
    PROVE  <<x>> \o Tail(s) \in Seq(S)
  BY HeadTailProperties, ConcatProperties

LEMMA PacketType ==
    ASSUME NEW rep \in [status : Statuses, params : Seq(Int)]
    PROVE  Packet(rep) \in Item
  BY DEF Packet, Item

LEMMA StrayType == ASSUME NEW n \in 1 .. 2 PROVE Stray(n) \in Item
  BY DEF Stray, Item

LEMMA PiecesType ==
    ASSUME NEW r \in Requests, NEW ps \in Pieces(r) PROVE ps \in Seq(Piece)
  <1>1. \A part \in {"whole", "head", "tail"} : PieceOf(r, part) \in Piece
    BY DEF PieceOf, Piece
  <1>2. /\ <<PieceOf(r, "whole")>> \in Seq(Piece)
        /\ <<PieceOf(r, "head"), PieceOf(r, "tail")>> \in Seq(Piece)
    BY <1>1
  <1> QED BY <1>2 DEF Pieces

LEMMA DamagedType ==
    ASSUME NEW p \in Piece PROVE [p EXCEPT !.intact = FALSE] \in Piece
  BY DEF Piece

LEMMA MovedType ==
    ASSUME NEW x \in Motor, NEW d \in Int
    PROVE  [x EXCEPT !.pos = @ + d] \in Motor
  BY DEF Motor

(* The firmware never hands back a packet, nor keeps a motor, that is ill  *)
(* formed, whatever requests arrive and whatever the wires do to them.     *)
LEMMA TypeStep == TypeOK /\ [Next]_vars => TypeOK'
  <1> SUFFICES ASSUME TypeOK, [Next]_vars PROVE TypeOK'
    OBVIOUS
  <1>1. CASE SendTx
    <2> SUFFICES ASSUME NEW ps \in Pieces(call'), toFw' = toFw \o ps
                 PROVE  TypeOK'
      BY <1>1 DEF SendTx
    <2>1. call' \in Requests
      BY <1>1 DEF SendTx
    <2>2. ps \in Seq(Piece)
      BY <2>1, PiecesType
    <2>3. toFw' \in Seq(Piece)
      BY <2>2, ConcatProperties DEF TypeOK
    <2> QED BY <1>1, <2>1, <2>3, EndedType DEF SendTx, TypeOK
  <1>2. CASE SkipStray
    <2>1. Head(toHost) \in Item /\ Tail(toHost) \in Seq(Item)
      BY <1>2, HeadTailProperties DEF SkipStray, TypeOK
    <2>2. Head(toHost).bytes \in 1 .. 2
      BY <1>2, <2>1 DEF SkipStray, IsPacket, Item
    <2>3. skipped' \in 0 .. 2
      BY <1>2, <2>2 DEF SkipStray, TypeOK, Min2
    <2> QED BY <1>2, <2>1, <2>3 DEF SkipStray, TypeOK
  <1>3. CASE ReadTimeout
    <2>1. toHost' \in Seq(Item)
      BY <1>3, HeadTailProperties, StrayType, ReplaceHeadType
         DEF ReadTimeout, TypeOK
    <2>2. outcome' \in Outcome
      BY <1>3, TimeoutOutcomeType, RequestsAssumption DEF ReadTimeout, TypeOK
    <2> QED BY <1>3, <2>1, <2>2 DEF ReadTimeout, TypeOK
  <1>4. CASE TakePacket
    <2>1. Head(toHost) \in Item /\ Tail(toHost) \in Seq(Item)
      BY <1>4, HeadTailProperties DEF TakePacket, TypeOK
    <2>2. Head(toHost).status \in Statuses /\ Head(toHost).params \in Seq(Int)
      BY <1>4, <2>1 DEF TakePacket, IsPacket, Item
    <2>3. HostOutcome(call, Head(toHost)) \in Outcome
      BY <2>2, HostOutcomeType, RequestsAssumption DEF TypeOK
    <2>4. outcome' \in Outcome
      BY <1>4, <2>3, EndedType, BoundsAssumption
         DEF TakePacket, Outcome
    <2> QED BY <1>4, <2>1, <2>4 DEF TakePacket, TypeOK
  <1>5. CASE ResetInput
    BY <1>5, DropType DEF ResetInput, TypeOK
  <1>6. CASE HostRestart
    BY <1>6, EndedType DEF HostRestart, TypeOK
  <1>7. CASE UartControlled
    <2> SUFFICES ASSUME NEW n \in 1 .. Len(toFw), NEW valid \in Validates(n),
                        toFw' = SubSeq(toFw, n + 1, Len(toFw)),
                        motors' = IF valid THEN Effect(motors, Head(toFw).req)
                                  ELSE motors,
                        toHost' = toHost \o
                            <<Packet(IF valid THEN Reply(motors, Head(toFw).req)
                                     ELSE CrcReply), Stray(1)>>
                 PROVE  TypeOK'
      BY <1>7 DEF UartControlled
    <2>1. Head(toFw) \in Piece
      BY <1>7, HeadTailProperties DEF UartControlled, TypeOK
    <2>2. Head(toFw).req \in Request
      BY <2>1, RequestsAssumption DEF Piece
    <2>3. motors' \in [MotorIds -> Motor]
      BY <2>2, EffectType DEF TypeOK
    <2>4. toFw' \in Seq(Piece)
      BY DropType DEF TypeOK
    <2>5. Packet(IF valid THEN Reply(motors, Head(toFw).req) ELSE CrcReply)
            \in Item
      BY <2>2, ReplyType, CrcReplyType, PacketType DEF TypeOK
    <2>6. toHost' \in Seq(Item)
      BY <2>5, StrayType, ConcatProperties DEF TypeOK
    <2> QED BY <1>7, <2>3, <2>4, <2>6 DEF UartControlled, hostVars, TypeOK
  <1>8. CASE Reboot
    BY <1>8, BootType, EndedType DEF Reboot, TypeOK
  <1>9. ASSUME NEW m \in MotorIds, Turn(m) PROVE TypeOK'
    <2>1. PICK d \in {-1, 1} : motors' = [motors EXCEPT ![m].pos = @ + d]
      BY <1>9 DEF Turn
    <2>2. motors[m] \in Motor
      BY DEF TypeOK
    <2>3. [motors[m] EXCEPT !.pos = @ + d] \in Motor
      BY <2>2, MovedType
    <2>4. motors' \in [MotorIds -> Motor]
      BY <2>1, <2>3 DEF TypeOK
    <2> QED BY <1>9, <2>4 DEF Turn, TypeOK
  <1>10. CASE CorruptRequest
    <2>1. [Head(toFw) EXCEPT !.intact = FALSE] \in Piece
      BY <1>10, HeadTailProperties, DamagedType DEF CorruptRequest, TypeOK
    <2> QED BY <1>10, <2>1, ReplaceHeadType DEF CorruptRequest, TypeOK
  <1>11. CASE LoseRequest
    BY <1>11, HeadTailProperties DEF LoseRequest, TypeOK
  <1>12. CASE LoseResponse
    BY <1>12, HeadTailProperties DEF LoseResponse, TypeOK
  <1>13. CASE CorruptResponse
    <2>1. Head(toHost) \in Item
      BY <1>13, HeadTailProperties DEF CorruptResponse, TypeOK
    <2>2. [Head(toHost) EXCEPT !.intact = FALSE] \in Item
      BY <1>13, <2>1 DEF CorruptResponse, IsPacket, Item
    <2>3. PICK item \in {[Head(toHost) EXCEPT !.intact = FALSE], Stray(2)} :
               toHost' = <<item>> \o Tail(toHost)
      BY <1>13 DEF CorruptResponse
    <2>4. item \in Item
      <3>1. CASE item = Stray(2)
        BY <3>1, StrayType
      <3>2. CASE item = [Head(toHost) EXCEPT !.intact = FALSE]
        BY <2>2, <3>2
      <3> QED BY <2>3, <3>1, <3>2
    <2>5. toHost' \in Seq(Item)
      BY <1>13, <2>3, <2>4, ReplaceHeadType DEF CorruptResponse, TypeOK
    <2> QED BY <1>13, <2>5 DEF CorruptResponse, TypeOK
  <1>14. CASE UNCHANGED vars
    BY <1>14 DEF vars, TypeOK
  <1> QED BY <1>1, <1>2, <1>3, <1>4, <1>5, <1>6, <1>7, <1>8, <1>9, <1>10,
             <1>11, <1>12, <1>13, <1>14
          DEF Next, Host, Firmware, Transport

(* Every reachable state is well typed, with any faults on the wires. *)
THEOREM TypeCorrect == Spec => []TypeOK
  <1>1. Init => TypeOK
    BY BootType, EndedType DEF Init, TypeOK
  <1> QED BY <1>1, TypeStep, PTL DEF Spec
-----------------------------------------------------------------------------
(* The limit a motor boots with                                            *)

NoZeroLimit == \A r \in Requests : r.op = SET_MAX_ANGLE => r.arg # 0

LEMMA ConstrainToZero ==
    ASSUME NEW a \in Int, NEW limit \in Int, limit = 0
    PROVE  Constrain(a, limit) = 0
  <1>1. \A n \in Int : -n = 0 - n
    OBVIOUS
  <1>2. -limit = 0
    <2>1. 0 - limit = 0
      OBVIOUS
    <2> QED BY <1>1, <2>1, Zenon
  <1> QED BY <1>2 DEF Constrain

LEMMA EffectKeepsUnsetLimit ==
    ASSUME NEW ms \in [MotorIds -> Motor], NEW r \in Request,
           r.op = SET_MAX_ANGLE => r.arg # 0,
           \A m \in MotorIds : ms[m].limit = 0 => ms[m].goal = 0
    PROVE  \A m \in MotorIds :
              Effect(ms, r)[m].limit = 0 => Effect(ms, r)[m].goal = 0
  <1>1. CASE CreateCommand(r) # COMM_SUCCESS
    BY <1>1 DEF Effect
  <1>2. CASE CreateCommand(r) = COMM_SUCCESS
    <2>1. r.id \in MotorIds
      BY <1>2 DEF CreateCommand, COMM_SUCCESS, COMM_ID_ERROR,
                  COMM_INSTRUCTION_ERROR
    <2>2. ms[r.id] \in Motor /\ r.arg \in Int
      BY <2>1 DEF Request
    <2>3. ms[r.id].limit = 0 => /\ Constrain(r.arg, ms[r.id].limit) = 0
                                /\ Constrain(0, ms[r.id].limit) = 0
      BY <2>2, ConstrainToZero DEF Motor
    <2>4. \A m \in MotorIds :
            Execute(ms, r)[m].limit = 0 => Execute(ms, r)[m].goal = 0
      BY <2>1, <2>2, <2>3
         DEF Execute, Motor, WRITE_ANGLE, SET_ZERO_ANGLE, SET_MAX_ANGLE,
             WRITE_PID
    <2> QED BY <1>2, <2>4 DEF Effect
  <1> QED BY <1>1, <1>2

(* Until a limit is set, no request, lost, split or damaged as it may be,  *)
(* moves the setpoint away from zero; setting a limit of zero is the one   *)
(* call that could leave a setpoint behind, and is assumed not to be made. *)
THEOREM UnsetLimitHoldsAlways ==
    ASSUME NoZeroLimit PROVE Spec => []UnsetLimitHolds
  <1>1. Init => UnsetLimitHolds
    BY DEF Init, UnsetLimitHolds, BootMotor
  <1>2. TypeOK /\ UnsetLimitHolds /\ [Next]_vars => UnsetLimitHolds'
    <2> SUFFICES ASSUME TypeOK, UnsetLimitHolds, [Next]_vars
                 PROVE  UnsetLimitHolds'
      OBVIOUS
    <2>1. CASE motors' = motors
      BY <2>1 DEF UnsetLimitHolds
    <2>2. CASE UartControlled
      <3>1. Head(toFw).req \in Requests
        <4>1. Head(toFw) \in Piece
          BY <2>2, HeadTailProperties DEF UartControlled, TypeOK
        <4> QED BY <4>1 DEF Piece
      <3>2. motors' = Effect(motors, Head(toFw).req) \/ motors' = motors
        BY <2>2 DEF UartControlled
      <3>3. \A m \in MotorIds :
              Effect(motors, Head(toFw).req)[m].limit = 0
                => Effect(motors, Head(toFw).req)[m].goal = 0
        BY <3>1, EffectKeepsUnsetLimit, RequestsAssumption
           DEF TypeOK, UnsetLimitHolds, NoZeroLimit
      <3> QED BY <3>2, <3>3 DEF UnsetLimitHolds
    <2>3. CASE Reboot
      BY <2>3 DEF Reboot, UnsetLimitHolds, BootMotor
    <2>4. ASSUME NEW m \in MotorIds, Turn(m) PROVE UnsetLimitHolds'
      BY <2>4 DEF Turn, UnsetLimitHolds, TypeOK, Motor
    <2> QED
      BY <2>1, <2>2, <2>3, <2>4
         DEF Next, Host, Firmware, Transport, vars, SendTx, SkipStray,
             ReadTimeout, TakePacket, ResetInput, HostRestart, CorruptRequest,
             LoseRequest, LoseResponse, CorruptResponse
  <1> QED BY <1>1, <1>2, TypeCorrect, PTL DEF Spec
-----------------------------------------------------------------------------
(* One call at a time                                                      *)

(* The transport damages and loses requests and loses responses, but       *)
(* delivers a request in one piece and no damaged response.                *)
CleanTransport == "split" \notin Faults /\ "corruptResponse" \notin Faults

(* What an accepted command was asked to do is done. *)
LEMMA EffectLands ==
    ASSUME TypeOK, call' = call, motors' = Effect(motors, call),
           Reply(motors, call).status = COMM_SUCCESS
    PROVE  Landed(call)'
  <1>1. CreateCommand(call) = COMM_SUCCESS
    BY DEF Reply
  <1>2. call.id \in MotorIds
    BY <1>1 DEF CreateCommand, COMM_SUCCESS, COMM_ID_ERROR,
                COMM_INSTRUCTION_ERROR
  <1>3. motors' = Execute(motors, call)
    BY <1>1 DEF Effect
  <1>4. motors[call.id] \in Motor
    BY <1>2 DEF TypeOK
  <1> QED BY <1>2, <1>3, <1>4
          DEF Landed, Execute, Motor, TypeOK, WRITE_ANGLE, SET_ZERO_ANGLE,
              SET_MAX_ANGLE, WRITE_PID

(* Turning a shaft does not undo it. *)
LEMMA TurnKeepsLanded ==
    ASSUME NEW m \in MotorIds, TypeOK, Turn(m), Landed(call)
    PROVE  Landed(call)'
  BY DEF Landed, Turn, TypeOK, Motor

LEMMA StrayIsNoPacket == \A n : ~IsPacket(Stray(n)) /\ Stray(n).bytes = n
  BY DEF IsPacket, Stray

(* Taking the first item off leaves the others, moved up by one. *)
LEMMA TailFacts ==
    ASSUME NEW S, NEW s \in Seq(S), s # <<>>
    PROVE  /\ Head(s) = s[1] /\ Head(s) \in S
           /\ Tail(s) \in Seq(S) /\ Len(Tail(s)) = Len(s) - 1
           /\ \A i \in 1 .. Len(s) - 1 : Tail(s)[i] = s[i + 1]
  BY HeadTailProperties

LEMMA TailOfLeftover ==
    ASSUME NEW s \in Seq(Item), Leftover(s), s # <<>>
    PROVE  Head(s) = Stray(1) /\ Len(Tail(s)) = 0 /\ Leftover(Tail(s))
  <1>1. Len(s) = 1
    <2>1. Len(s) \in Nat \ {0}
      BY EmptySeq
    <2>2. Len(s) <= 1
      BY DEF Leftover
    <2> QED BY <2>1, <2>2
  <1>2. Head(s) = Stray(1) /\ Tail(s) \in Seq(Item) /\ Len(Tail(s)) = 0
    BY <1>1, TailFacts DEF Leftover
  <1> QED BY <1>2 DEF Leftover

(* The answer that comes after a leftover byte moves to the front. *)
LEMMA TailOfAnswer ==
    ASSUME NEW s \in Seq(Item), Len(s) = 3
    PROVE  /\ Head(s) = s[1] /\ Len(Tail(s)) = 2
           /\ Tail(s)[1] = s[2] /\ Tail(s)[2] = s[3]
  <1>1. s # <<>> /\ 1 \in 1 .. Len(s) - 1 /\ 2 \in 1 .. Len(s) - 1
    OBVIOUS
  <1>2. \A i \in 1 .. Len(s) - 1 : Tail(s)[i] = s[i + 1]
    BY <1>1, TailFacts
  <1>3. Tail(s)[1] = s[1 + 1] /\ Tail(s)[2] = s[2 + 1]
    BY <1>1, <1>2
  <1>4. Head(s) = s[1] /\ Len(Tail(s)) = Len(s) - 1
    BY <1>1, TailFacts
  <1> QED BY <1>3, <1>4

LEMMA OneCallStep ==
    ASSUME CleanTransport PROVE TypeOK /\ OneCall /\ [Next]_vars => OneCall'
  <1> SUFFICES ASSUME TypeOK, OneCall, [Next]_vars PROVE OneCall'
    OBVIOUS
  <1>a. /\ toHost \in Seq(Item) /\ toFw \in Seq(Piece) /\ skipped \in 0 .. 2
        /\ call \in Requests
    BY DEF TypeOK
  <1>b. toFw # <<>> => pc = "reading" /\ Requested
    BY DEF OneCall, AnswerAt, Gone
  <1>1. CASE SendTx
    <2>1. toFw = <<>> /\ Leftover(toHost)
      BY <1>1 DEF SendTx, OneCall
    <2>2. toFw' = <<[req |-> call', part |-> "whole", intact |-> TRUE]>>
      BY <1>1, <2>1 DEF SendTx, Pieces, PieceOf, CleanTransport
    <2>3. Requested'
      BY <1>1, <1>a, <2>1, <2>2 DEF SendTx, Requested, Leftover
    <2> QED BY <1>1, <2>3 DEF SendTx, OneCall
  <1>2. CASE SkipStray
    <2>0. toHost # <<>> /\ toHost' = Tail(toHost) /\ ~IsPacket(Head(toHost))
          /\ skipped' = Min2(skipped + Head(toHost).bytes)
          /\ pc = "reading" /\ pc' = "reading"
          /\ UNCHANGED <<motors, toFw, call>>
      BY <1>2 DEF SkipStray
    <2>1. CASE Requested
      <3>1. Head(toHost) = Stray(1) /\ Len(toHost) = 1 /\ Len(toHost') = 0
            /\ Leftover(toHost')
        BY <1>a, <2>0, <2>1, TailFacts, TailOfLeftover
           DEF Requested, Leftover
      <3>2. skipped' = skipped + 1
        BY <1>a, <2>0, <2>1, <3>1, StrayIsNoPacket DEF Min2, Requested
      <3>3. Requested'
        BY <1>a, <2>0, <2>1, <3>1, <3>2 DEF Requested
      <3> QED BY <2>0, <3>3 DEF OneCall
    <2>2. CASE AnswerAt(1)
      BY <1>a, <2>0, <2>2, TailFacts DEF AnswerAt
    <2>3. CASE AnswerAt(2)
      <3>1. skipped' = 1
        BY <1>a, <2>0, <2>3, TailFacts, StrayIsNoPacket DEF AnswerAt, Min2
      <3>2. Len(toHost') = 2 /\ toHost'[1] = toHost[2] /\ toHost'[2] = toHost[3]
        BY <1>a, <2>0, <2>3, TailOfAnswer DEF AnswerAt
      <3>3. Landed(call) => Landed(call)'
        BY <2>0 DEF Landed
      <3>4. AnswerAt(1)'
        <4>1. toFw' = <<>> /\ Len(toHost') = 1 + 1 /\ skipped' + 1 <= 2
          BY <2>0, <2>3, <3>1, <3>2 DEF AnswerAt
        <4>2. /\ IsPacket(toHost'[1]) /\ toHost'[1].intact
              /\ toHost'[1 + 1] = Stray(1)
              /\ toHost'[1].status = COMM_SUCCESS /\ call'.op \in Methods
                    => Landed(call)'
          BY <2>0, <2>3, <3>2, <3>3 DEF AnswerAt
        <4> QED BY <4>1, <4>2 DEF AnswerAt
      <3> QED BY <2>0, <3>4 DEF OneCall
    <2>4. CASE Gone
      <3>1. Head(toHost) = Stray(1) /\ Len(toHost) = 1 /\ Len(toHost') = 0
            /\ Leftover(toHost')
        BY <1>a, <2>0, <2>4, TailFacts, TailOfLeftover DEF Gone, Leftover
      <3>2. skipped' = skipped + 1
        BY <1>a, <2>0, <2>4, <3>1, StrayIsNoPacket DEF Min2, Gone
      <3>3. Gone'
        BY <1>a, <2>0, <2>4, <3>1, <3>2 DEF Gone
      <3> QED BY <2>0, <3>3 DEF OneCall
    <2> QED BY <2>0, <2>1, <2>2, <2>3, <2>4 DEF OneCall
  <1>3. CASE ReadTimeout
    BY <1>3, <1>a DEF ReadTimeout, OneCall, Requested, AnswerAt, Gone
  <1>4. CASE TakePacket
    <2>0. toHost # <<>> /\ toHost' = Tail(toHost) /\ IsPacket(Head(toHost))
          /\ pc = "reading" /\ pc' = "clearing" /\ toFw' = toFw
      BY <1>4 DEF TakePacket
    <2>1. ~Requested /\ ~Gone
      BY <1>a, <2>0, TailOfLeftover, StrayIsNoPacket DEF Requested, Gone
    <2>2. ~AnswerAt(2)
      BY <1>a, <2>0, TailFacts, StrayIsNoPacket DEF AnswerAt
    <2>3. AnswerAt(1)
      BY <2>0, <2>1, <2>2 DEF OneCall
    <2>4. Leftover(toHost')
      BY <1>a, <2>0, <2>3, TailFacts DEF AnswerAt, Leftover
    <2> QED BY <2>0, <2>3, <2>4 DEF AnswerAt, OneCall
  <1>5. CASE ResetInput
    <2>1. Leftover(toHost) /\ toFw = <<>>
      BY <1>5 DEF ResetInput, OneCall
    <2>2. PICK n \in 0 .. Len(toHost) :
               toHost' = SubSeq(toHost, n + 1, Len(toHost))
      BY <1>5 DEF ResetInput
    <2>3. Leftover(toHost')
      BY <1>a, <2>1, <2>2, SubSeqProperties DEF Leftover
    <2> QED BY <1>5, <2>1, <2>3 DEF ResetInput, OneCall
  <1>6. CASE HostRestart
    BY <1>6 DEF HostRestart, OneCall, Leftover
  <1>7. CASE UartControlled
    <2>0. toFw # <<>> /\ Requested /\ pc = "reading"
      BY <1>7, <1>b DEF UartControlled
    <2>1. Head(toFw).req = call /\ Head(toFw).part = "whole" /\ Len(toFw) = 1
      BY <1>a, <2>0, TailFacts DEF Requested
    <2>n. PICK n \in 1 .. Len(toFw) :
            /\ toFw' = SubSeq(toFw, n + 1, Len(toFw))
            /\ \E valid \in Validates(n) :
                  /\ motors' = IF valid THEN Effect(motors, call) ELSE motors
                  /\ toHost' = toHost \o
                       <<Packet(IF valid THEN Reply(motors, call)
                                         ELSE CrcReply), Stray(1)>>
      BY <1>7, <2>1 DEF UartControlled
    <2>2. PICK valid \in Validates(n) :
            /\ toFw' = SubSeq(toFw, n + 1, Len(toFw))
            /\ motors' = IF valid THEN Effect(motors, call) ELSE motors
            /\ toHost' = toHost \o <<Packet(IF valid THEN Reply(motors, call)
                                                     ELSE CrcReply), Stray(1)>>
      BY <2>n
    <2> DEFINE reply == IF valid THEN Reply(motors, call) ELSE CrcReply
    <2>3. toFw' = <<>>
      BY <1>a, <2>1, <2>2, SubSeqProperties
    <2>4. call' = call /\ pc' = "reading" /\ skipped' = skipped
      BY <1>7, <2>0 DEF UartControlled, hostVars
    <2>5. reply \in [status : Statuses, params : Seq(Int)]
      BY <1>a, ReplyType, CrcReplyType, RequestsAssumption DEF TypeOK
    <2>6. reply.status = COMM_SUCCESS => Landed(call)'
      <3> SUFFICES ASSUME reply.status = COMM_SUCCESS PROVE Landed(call)'
        OBVIOUS
      <3>1. valid
        BY DEF CrcReply, COMM_SUCCESS, COMM_CRC_ERROR
      <3> QED BY <3>1, <2>2, <2>4, EffectLands
    <2>7. IsPacket(Packet(reply)) /\ Packet(reply).intact
          /\ Packet(reply).status = reply.status /\ Packet(reply) \in Item
      BY <2>5, PacketType DEF IsPacket, Packet
    <2> HIDE DEF reply
    <2>8. toHost' = toHost \o <<Packet(reply), Stray(1)>>
      BY <2>2 DEF reply
    <2>9. /\ Len(toHost') = Len(toHost) + 2
          /\ \A i \in 1 .. Len(toHost) : toHost'[i] = toHost[i]
          /\ toHost'[Len(toHost) + 1] = Packet(reply)
          /\ toHost'[Len(toHost) + 2] = Stray(1)
      BY <1>a, <2>7, <2>8, StrayType, ConcatProperties
    <2>10. CASE Len(toHost) = 0
      <3>1. AnswerAt(1)'
        BY <1>a, <2>0, <2>3, <2>4, <2>6, <2>7, <2>9, <2>10
           DEF AnswerAt, Requested
      <3> QED BY <2>4, <3>1 DEF OneCall
    <2>11. CASE Len(toHost) = 1
      <3>1. AnswerAt(2)'
        BY <1>a, <2>0, <2>3, <2>4, <2>6, <2>7, <2>9, <2>11
           DEF AnswerAt, Requested, Leftover
      <3> QED BY <2>4, <3>1 DEF OneCall
    <2> QED BY <1>a, <2>0, <2>10, <2>11 DEF Requested, Leftover
  <1>8. CASE Reboot
    BY <1>8 DEF Reboot, OneCall, Leftover
  <1>9. ASSUME NEW m \in MotorIds, Turn(m) PROVE OneCall'
    <2>1. Landed(call) => Landed(call)'
      BY <1>9, TurnKeepsLanded
    <2> QED BY <1>9, <2>1 DEF Turn, OneCall, Requested, AnswerAt, Gone
  <1>10. CASE CorruptRequest
    <2>1. Requested /\ pc = "reading"
      BY <1>10, <1>b DEF CorruptRequest
    <2>2. Head(toFw) = toFw[1] /\ Head(toFw) \in Piece /\ Tail(toFw) = <<>>
      <3>1. Len(Tail(toFw)) = 0 /\ Tail(toFw) \in Seq(Piece)
        BY <1>10, <1>a, <2>1, TailFacts DEF CorruptRequest, Requested
      <3>2. Tail(toFw) = <<>>
        BY <3>1, EmptySeq
      <3> QED BY <1>10, <1>a, <3>2, TailFacts DEF CorruptRequest
    <2>3. toFw' = <<[Head(toFw) EXCEPT !.intact = FALSE]>> \o <<>>
      BY <1>10, <2>2 DEF CorruptRequest
    <2>4. /\ Len(toFw') = 1 /\ toFw'[1].req = Head(toFw).req
          /\ toFw'[1].part = Head(toFw).part
      <3>1. PICK x \in Piece : x = [Head(toFw) EXCEPT !.intact = FALSE]
        BY <2>2, DamagedType
      <3>2. x.req = Head(toFw).req /\ x.part = Head(toFw).part
        BY <2>2, <3>1 DEF Piece
      <3>3. toFw' = <<x>> \o <<>>
        BY <2>3, <3>1
      <3> QED BY <3>2, <3>3
    <2>5. Requested'
      BY <1>10, <2>1, <2>2, <2>4 DEF CorruptRequest, Requested
    <2> QED BY <1>10, <2>1, <2>5 DEF CorruptRequest, OneCall
  <1>11. CASE LoseRequest
    <2>1. Requested /\ pc = "reading"
      BY <1>11, <1>b DEF LoseRequest
    <2>2. toFw' = <<>>
      BY <1>11, <1>a, <2>1, TailFacts DEF LoseRequest, Requested
    <2>3. Gone'
      BY <1>11, <1>a, <2>1, <2>2 DEF LoseRequest, Requested, Gone
    <2> QED BY <1>11, <2>1, <2>3 DEF LoseRequest, OneCall
  <1>12. CASE LoseResponse
    <2>0. toHost # <<>> /\ toHost' = Tail(toHost)
          /\ UNCHANGED <<motors, toFw, pc, call, skipped>>
      BY <1>12 DEF LoseResponse
    <2>1. CASE pc # "reading"
      BY <1>a, <2>0, <2>1, TailOfLeftover DEF OneCall
    <2>2. CASE pc = "reading" /\ Requested
      <3>1. Requested'
        BY <1>a, <2>0, <2>2, TailOfLeftover, TailFacts DEF Requested
      <3> QED BY <2>0, <2>2, <3>1 DEF OneCall
    <2>3. CASE pc = "reading" /\ AnswerAt(1)
      <3>1. Gone'
        BY <1>a, <2>0, <2>3, TailFacts DEF AnswerAt, Gone, Leftover
      <3> QED BY <2>0, <2>3, <3>1 DEF OneCall
    <2>4. CASE pc = "reading" /\ AnswerAt(2)
      <3>1. Len(toHost') = 2 /\ toHost'[1] = toHost[2] /\ toHost'[2] = toHost[3]
        BY <1>a, <2>0, <2>4, TailOfAnswer DEF AnswerAt
      <3>2. Landed(call) => Landed(call)'
        BY <2>0 DEF Landed
      <3>3. AnswerAt(1)'
        <4>1. toFw' = <<>> /\ Len(toHost') = 1 + 1 /\ skipped' + 1 <= 2
          BY <1>a, <2>0, <2>4, <3>1 DEF AnswerAt
        <4>2. /\ IsPacket(toHost'[1]) /\ toHost'[1].intact
              /\ toHost'[1 + 1] = Stray(1)
              /\ toHost'[1].status = COMM_SUCCESS /\ call'.op \in Methods
                    => Landed(call)'
          BY <2>0, <2>4, <3>1, <3>2 DEF AnswerAt
        <4> QED BY <4>1, <4>2 DEF AnswerAt
      <3> QED BY <2>0, <2>4, <3>3 DEF OneCall
    <2>5. CASE pc = "reading" /\ Gone
      <3>1. Gone'
        BY <1>a, <2>0, <2>5, TailOfLeftover, TailFacts DEF Gone
      <3> QED BY <2>0, <2>5, <3>1 DEF OneCall
    <2> QED BY <2>1, <2>2, <2>3, <2>4, <2>5 DEF OneCall
  <1>13. CASE CorruptResponse
    BY <1>13 DEF CorruptResponse, CleanTransport
  <1>14. CASE UNCHANGED vars
    BY <1>14 DEF vars, OneCall, Requested, AnswerAt, Gone, Landed
  <1> QED BY <1>1, <1>2, <1>3, <1>4, <1>5, <1>6, <1>7, <1>8, <1>9, <1>10,
             <1>11, <1>12, <1>13, <1>14
          DEF Next, Host, Firmware, Transport

(* With one call open at a time, the wire never holds a request and an     *)
(* answer, or two answers, and the host never leaves one behind.           *)
LEMMA OneCallAlways ==
    ASSUME CleanTransport PROVE Spec => [](TypeOK /\ OneCall)
  <1>1. Init => OneCall
    BY DEF Init, OneCall, Leftover
  <1> QED BY <1>1, OneCallStep, TypeCorrect, PTL DEF Spec

(* The bytes that can stand in front of an answer: what the responses so   *)
(* far have left behind is one at most between calls, and no answer.       *)
THEOREM OneCallHolds == ASSUME CleanTransport PROVE Spec => []OneCall
  BY OneCallAlways, PTL

LEMMA OneCallImpliesRequestResponse ==
    ASSUME TypeOK, OneCall PROVE RequestResponse
  <1>1. Leftover(toHost) => PacketsIn(toHost) = {}
    BY StrayIsNoPacket DEF Leftover, PacketsIn, TypeOK
  <1>2. ASSUME NEW i \in 1 .. 2, AnswerAt(i) PROVE PacketsIn(toHost) = {i}
    <2>1. DOMAIN toHost = 1 .. i + 1
      BY <1>2, LenProperties DEF AnswerAt, TypeOK
    <2>2. \A j \in 1 .. i + 1 : IsPacket(toHost[j]) <=> j = i
      BY <1>2, StrayIsNoPacket DEF AnswerAt
    <2> QED BY <2>1, <2>2 DEF PacketsIn
  <1>3. CASE pc # "reading"
    BY <1>1, <1>3 DEF OneCall, RequestResponse
  <1>4. CASE pc = "reading" /\ Requested
    BY <1>1, <1>4 DEF Requested, RequestResponse
  <1>5. CASE pc = "reading" /\ (AnswerAt(1) \/ AnswerAt(2))
    <2>1. toFw = <<>>
      BY <1>5 DEF AnswerAt
    <2> QED BY <1>2, <1>5, <2>1 DEF RequestResponse
  <1>6. CASE pc = "reading" /\ Gone
    BY <1>1, <1>6 DEF Gone, RequestResponse
  <1> QED BY <1>3, <1>4, <1>5, <1>6 DEF OneCall

(* The request-response promise of the protocol's documentation, for any   *)
(* motors and calls, though requests are lost and damaged and responses    *)
(* lost, hosts stopped and boards restarted.                               *)
THEOREM RequestResponseAlways ==
    ASSUME CleanTransport PROVE Spec => []RequestResponse
  BY OneCallAlways, OneCallImpliesRequestResponse, PTL

(* A method that returns without raising has been obeyed, to the letter.   *)
THEOREM AckMeansDoneAlways ==
    ASSUME CleanTransport PROVE Spec => AckMeansDone
  <1> DEFINE Ack == (pc = "reading" /\ pc' = "clearing" /\ call.op \in Methods
                     /\ outcome'.kind \in {"done", "value"}) => Landed(call)
  <1>1. TypeOK /\ OneCall /\ [Next]_vars => [Ack]_vars
    <2> SUFFICES ASSUME TypeOK, OneCall, [Next]_vars, pc = "reading",
                        pc' = "clearing", call.op \in Methods,
                        outcome'.kind \in {"done", "value"}
                 PROVE  Landed(call)
      OBVIOUS
    <2>1. TakePacket
      BY DEF Next, Host, Firmware, Transport, vars, SendTx, SkipStray,
             ReadTimeout, ResetInput, HostRestart, UartControlled, hostVars,
             Turn, Reboot, CorruptRequest, LoseRequest, LoseResponse,
             CorruptResponse
    <2>2. AnswerAt(1)
      <3>1. toHost \in Seq(Item) /\ toHost # <<>> /\ IsPacket(Head(toHost))
        BY <2>1 DEF TakePacket, TypeOK
      <3>2. ~Requested /\ ~Gone
        BY <3>1, TailOfLeftover, StrayIsNoPacket DEF Requested, Gone
      <3>3. ~AnswerAt(2)
        BY <3>1, TailFacts, StrayIsNoPacket DEF AnswerAt
      <3> QED BY <3>2, <3>3 DEF OneCall
    <2>3. Head(toHost) = toHost[1]
      BY <2>1, TailFacts DEF TakePacket, TypeOK
    <2>4. outcome' = HostOutcome(call, toHost[1])
      BY <2>1, <2>2, <2>3 DEF TakePacket, AnswerAt
    <2>5. toHost[1].status = COMM_SUCCESS
      BY <2>4 DEF HostOutcome, Ended
    <2> QED BY <2>2, <2>5 DEF AnswerAt
  <1> QED BY <1>1, OneCallAlways, PTL DEF AckMeansDone, Spec
-----------------------------------------------------------------------------
(* The link implements TendonService                                       *)

(* The instance has its own copy of the command set: the same one. *)
LEMMA SameValues ==
    /\ Service!NoReply = [status |-> COMM_SUCCESS, params |-> <<>>]
    /\ Service!CrcReply = CrcReply
    /\ Service!BootMotor = BootMotor
    /\ \A k : Service!Ended(k) = Ended(k)
  BY DEF Service!NoReply, Service!COMM_SUCCESS, COMM_SUCCESS,
         Service!CrcReply, CrcReply, Service!COMM_CRC_ERROR, COMM_CRC_ERROR,
         Service!BootMotor, BootMotor, Service!Ended, Ended

LEMMA SameCommands ==
    ASSUME NEW r PROVE Service!CreateCommand(r) = CreateCommand(r)
  BY Zenon
     DEF Service!CreateCommand, CreateCommand, Service!Opcodes, Opcodes,
         Service!NeedsParams, NeedsParams, Service!COMM_SUCCESS, COMM_SUCCESS,
         Service!COMM_INSTRUCTION_ERROR, COMM_INSTRUCTION_ERROR,
         Service!COMM_ID_ERROR, COMM_ID_ERROR,
         Service!COMM_PARAM_ERROR, COMM_PARAM_ERROR,
         Service!READ_STATUS, READ_STATUS, Service!ENABLE_MOTOR, ENABLE_MOTOR,
         Service!WRITE_ANGLE, WRITE_ANGLE, Service!WRITE_PID, WRITE_PID,
         Service!SET_MAX_ANGLE, SET_MAX_ANGLE

LEMMA SameEffect ==
    ASSUME NEW ms, NEW r PROVE Service!Effect(ms, r) = Effect(ms, r)
  <1>1. Service!Execute(ms, r) = Execute(ms, r)
    BY Zenon
       DEF Service!Execute, Execute, Service!Constrain, Constrain,
           Service!WRITE_ANGLE, WRITE_ANGLE, Service!WRITE_PID, WRITE_PID,
           Service!SET_ZERO_ANGLE, SET_ZERO_ANGLE,
           Service!SET_MAX_ANGLE, SET_MAX_ANGLE
  <1> QED BY <1>1, SameCommands
          DEF Service!Effect, Effect, Service!COMM_SUCCESS, COMM_SUCCESS

LEMMA SameReply ==
    ASSUME NEW ms, NEW r PROVE Service!Reply(ms, r) = Reply(ms, r)
  <1>1. Service!Params(ms, r) = Params(ms, r)
    BY Zenon DEF Service!Params, Params, Service!READ_STATUS, READ_STATUS,
                 Service!READ_ANGLE, READ_ANGLE
  <1> QED BY <1>1, SameCommands
          DEF Service!Reply, Reply, Service!COMM_SUCCESS, COMM_SUCCESS

LEMMA SameHostOutcome ==
    ASSUME NEW r, NEW p
    PROVE  Service!HostOutcome(r, p) = HostOutcome(r, p)
  BY Zenon
     DEF Service!HostOutcome, HostOutcome, Service!Methods, Methods,
         Service!Ended, Ended, Service!COMM_SUCCESS, COMM_SUCCESS,
         Service!READ_ANGLE, READ_ANGLE, Service!WRITE_ANGLE, WRITE_ANGLE,
         Service!WRITE_PID, WRITE_PID, Service!SET_ZERO_ANGLE, SET_ZERO_ANGLE,
         Service!SET_MAX_ANGLE, SET_MAX_ANGLE

(* What the abstract phase and reply are in each shape of a call. *)
LEMMA BarIdle == pc # "reading" => phaseBar = "idle"
  BY DEF phaseBar

LEMMA BarPending == pc = "reading" /\ toFw # <<>> => phaseBar = "pending"
  BY DEF phaseBar

LEMMA BarLost ==
    ASSUME TypeOK, pc = "reading", toFw = <<>>, Leftover(toHost)
    PROVE  phaseBar = "lost"
  <1>1. PacketsIn(toHost) = {}
    BY StrayIsNoPacket DEF Leftover, PacketsIn, TypeOK
  <1> QED BY <1>1 DEF phaseBar

LEMMA BarAnswered ==
    ASSUME TypeOK, pc = "reading", NEW i \in 1 .. 2, AnswerAt(i)
    PROVE  /\ phaseBar = "answered"
           /\ replyBar = [status |-> toHost[i].status,
                          params |-> toHost[i].params]
  <1>1. PacketsIn(toHost) = {i}
    <2>1. DOMAIN toHost = 1 .. i + 1
      BY LenProperties DEF AnswerAt, TypeOK
    <2>2. \A j \in 1 .. i + 1 : IsPacket(toHost[j]) <=> j = i
      BY StrayIsNoPacket DEF AnswerAt
    <2> QED BY <2>1, <2>2 DEF PacketsIn
  <1>2. phaseBar = "answered"
    BY <1>1 DEF phaseBar, AnswerAt
  <1>3. (CHOOSE j \in PacketsIn(toHost) : TRUE) = i
    BY <1>1
  <1> QED BY <1>2, <1>3 DEF replyBar

LEMMA BarLostNext ==
    ASSUME TypeOK', pc' = "reading", toFw' = <<>>, Leftover(toHost')
    PROVE  phaseBar' = "lost"
  <1>1. PacketsIn(toHost') = {}
    BY StrayIsNoPacket DEF Leftover, PacketsIn, TypeOK
  <1> QED BY <1>1 DEF phaseBar

LEMMA BarAnsweredNext ==
    ASSUME TypeOK', pc' = "reading", NEW i \in 1 .. 2, AnswerAt(i)'
    PROVE  /\ phaseBar' = "answered"
           /\ replyBar' = [status |-> toHost'[i].status,
                           params |-> toHost'[i].params]
  <1>1. PacketsIn(toHost') = {i}
    <2>1. DOMAIN toHost' = 1 .. i + 1
      BY LenProperties DEF AnswerAt, TypeOK
    <2>2. \A j \in 1 .. i + 1 : IsPacket(toHost'[j]) <=> j = i
      BY StrayIsNoPacket DEF AnswerAt
    <2> QED BY <2>1, <2>2 DEF PacketsIn
  <1>2. phaseBar' = "answered"
    BY <1>1 DEF phaseBar, AnswerAt
  <1>3. (CHOOSE j \in PacketsIn(toHost') : TRUE) = i
    BY <1>1
  <1> QED BY <1>2, <1>3 DEF replyBar

(* The host's outcome depends on nothing but the status and parameters. *)
LEMMA HostOutcomeOfReply ==
    ASSUME NEW r, NEW p
    PROVE  HostOutcome(r, p)
             = HostOutcome(r, [status |-> p.status, params |-> p.params])
  BY DEF HostOutcome

(* A step that moves no packet and leaves the call open is a stutter. *)
LEMMA ServiceStep ==
    ASSUME CleanTransport
    PROVE  TypeOK /\ OneCall /\ TypeOK' /\ OneCall' /\ [Next]_vars
             => [Service!Next]_(Service!vars)
  <1> SUFFICES ASSUME TypeOK, OneCall, TypeOK', OneCall', [Next]_vars
               PROVE  [Service!Next]_(Service!vars)
    OBVIOUS
  <1> USE DEF Service!Next, Service!vars
  <1>1. CASE SendTx
    <2>1. phaseBar = "idle" /\ phaseBar' = "pending" /\ replyBar' = replyBar
      <3>1. pc' = "reading" /\ toFw' # <<>>
        BY <1>1, ConcatProperties
           DEF SendTx, Pieces, PieceOf, CleanTransport, TypeOK
      <3>2. phaseBar = "idle"
        BY <1>1, BarIdle DEF SendTx
      <3>3. phaseBar' = "pending"
        BY <3>1 DEF phaseBar
      <3> QED BY <3>2, <3>3 DEF replyBar
    <2> QED BY <1>1, <2>1, SameValues DEF SendTx, Service!Invoke
  <1>2. CASE SkipStray
    <2>0. toHost # <<>> /\ toHost' = Tail(toHost) /\ ~IsPacket(Head(toHost))
          /\ pc = "reading" /\ pc' = "reading" /\ toHost \in Seq(Item)
          /\ UNCHANGED <<motors, toFw, call, outcome>>
      BY <1>2 DEF SkipStray, TypeOK
    <2>1. phaseBar' = phaseBar /\ replyBar' = replyBar
      <3>1. CASE Requested
        <4>1. toFw # <<>>
          BY <3>1 DEF Requested
        <4> QED BY <2>0, <4>1 DEF phaseBar, replyBar
      <3>2. CASE AnswerAt(1)
        BY <2>0, <3>2, TailFacts DEF AnswerAt
      <3>3. CASE AnswerAt(2)
        <4>1. Len(toHost') = 2 /\ toHost'[1] = toHost[2] /\ ~Requested'
          BY <2>0, <3>3, TailOfAnswer DEF AnswerAt, Requested
        <4>2. AnswerAt(1)'
          BY <2>0, <3>3, <4>1 DEF OneCall, AnswerAt, Gone, Leftover
        <4> QED BY <2>0, <3>3, <4>1, <4>2, BarAnswered, BarAnsweredNext
      <3>4. CASE Gone
        <4>1. Leftover(toHost') /\ toFw' = <<>>
          BY <2>0, <3>4, TailOfLeftover DEF Gone
        <4> QED BY <2>0, <3>4, <4>1, BarLost, BarLostNext DEF Gone, replyBar
      <3> QED BY <2>0, <3>1, <3>2, <3>3, <3>4 DEF OneCall
    <2> QED BY <2>0, <2>1
  <1>3. CASE ReadTimeout
    BY <1>3 DEF ReadTimeout, OneCall, Requested, AnswerAt, Gone, TypeOK
  <1>4. CASE TakePacket
    <2>1. AnswerAt(1) /\ Head(toHost) = toHost[1]
      <3>1. toHost \in Seq(Item) /\ toHost # <<>> /\ IsPacket(Head(toHost))
        BY <1>4 DEF TakePacket, TypeOK
      <3>2. ~Requested /\ ~Gone
        BY <3>1, TailOfLeftover, StrayIsNoPacket DEF Requested, Gone
      <3>3. ~AnswerAt(2)
        BY <3>1, TailFacts, StrayIsNoPacket DEF AnswerAt
      <3> QED BY <1>4, <3>1, <3>2, <3>3, TailFacts DEF OneCall, TakePacket
    <2>2. phaseBar = "answered" /\ HostOutcome(call, replyBar) = outcome'
      BY <1>4, <2>1, BarAnswered, HostOutcomeOfReply DEF TakePacket, AnswerAt
    <2>3. phaseBar' = "idle" /\ replyBar' = Service!NoReply
      BY <1>4, SameValues DEF TakePacket, phaseBar, replyBar
    <2> QED BY <1>4, <2>2, <2>3, SameHostOutcome DEF TakePacket, Service!Return
  <1>5. CASE ResetInput
    BY <1>5 DEF ResetInput, phaseBar, replyBar
  <1>6. CASE HostRestart
    <2>1. phaseBar # "pending"
      BY <1>6 DEF HostRestart, phaseBar
    <2>2. phaseBar' = "idle" /\ replyBar' = Service!NoReply
      BY <1>6, SameValues DEF HostRestart, phaseBar, replyBar
    <2> QED BY <1>6, <2>1, <2>2, SameValues DEF HostRestart, Service!GiveUp
  <1>7. CASE UartControlled
    <2>0. toFw # <<>> /\ Requested /\ pc = "reading"
      BY <1>7 DEF UartControlled, OneCall, AnswerAt, Gone
    <2>1. Head(toFw).req = call /\ Len(toFw) = 1
      BY <2>0, TailFacts DEF Requested, TypeOK
    <2>2. PICK valid \in BOOLEAN :
            /\ motors' = IF valid THEN Effect(motors, call) ELSE motors
            /\ toHost' = toHost \o <<Packet(IF valid THEN Reply(motors, call)
                                                     ELSE CrcReply), Stray(1)>>
      <3>1. PICK n \in 1 .. Len(toFw) :
              \E valid \in Validates(n) :
                  /\ motors' = IF valid THEN Effect(motors, call) ELSE motors
                  /\ toHost' = toHost \o
                       <<Packet(IF valid THEN Reply(motors, call)
                                         ELSE CrcReply), Stray(1)>>
        BY <1>7, <2>1 DEF UartControlled
      <3>2. Validates(n) \subseteq BOOLEAN
        <4>1. n = 1 /\ Head(toFw) \in Piece
          BY <2>0, <2>1, TailFacts DEF TypeOK
        <4> QED BY <4>1 DEF Validates, Piece
      <3> QED BY <3>1, <3>2
    <2> DEFINE rep == IF valid THEN Reply(motors, call) ELSE CrcReply
    <2>3. rep \in [status : Statuses, params : Seq(Int)]
      BY ReplyType, CrcReplyType, RequestsAssumption DEF TypeOK
    <2>4. rep = [status |-> Packet(rep).status, params |-> Packet(rep).params]
      BY <2>3 DEF Packet
    <2>5. Packet(rep) \in Item /\ toHost \in Seq(Item)
      BY <2>3, PacketType DEF TypeOK
    <2>6. toHost' = toHost \o <<Packet(rep), Stray(1)>>
      BY <2>2
    <2>7. \/ motors' = Effect(motors, call) /\ rep = Reply(motors, call)
          \/ motors' = motors /\ rep = CrcReply
      <3>1. CASE valid
        BY <2>2, <3>1
      <3>2. CASE ~valid
        BY <2>2, <3>2
      <3> QED BY <3>1, <3>2
    <2> HIDE DEF rep
    <2>8. /\ Len(toHost') = Len(toHost) + 2
          /\ toHost'[Len(toHost) + 1] = Packet(rep)
      BY <2>5, <2>6, StrayType, ConcatProperties
    <2>9. pc' = "reading" /\ UNCHANGED <<call, outcome>>
      BY <1>7, <2>0 DEF UartControlled, hostVars
    <2>10. PICK i \in 1 .. 2 : AnswerAt(i)' /\ toHost'[i] = Packet(rep)
      <3>1. Len(toHost) \in Nat /\ Len(toHost) <= 1
        <4>1. Len(toHost) \in Nat
          BY <2>5, LenProperties
        <4> QED BY <2>0, <4>1 DEF Requested, Leftover
      <3>2. ~Requested' /\ ~Gone'
        BY <2>8, <3>1 DEF Requested, Gone, Leftover
      <3>3. AnswerAt(1)' \/ AnswerAt(2)'
        BY <2>9, <3>2 DEF OneCall
      <3>a. /\ AnswerAt(1)' => Len(toHost') = 1 + 1
            /\ AnswerAt(2)' => Len(toHost') = 2 + 1
        BY DEF AnswerAt
      <3>4. AnswerAt(1)' => Len(toHost) = 0
        BY <2>8, <3>1, <3>a
      <3>5. AnswerAt(2)' => Len(toHost) = 1
        BY <2>8, <3>1, <3>a
      <3>6. CASE AnswerAt(1)'
        <4>1. toHost'[1] = Packet(rep)
          BY <2>8, <3>4, <3>6
        <4> QED BY <3>6, <4>1
      <3>7. CASE AnswerAt(2)'
        <4>1. Len(toHost) + 1 = 2
          BY <3>1, <3>5, <3>7
        <4>2. toHost'[2] = Packet(rep)
          BY <2>8, <4>1
        <4> QED BY <3>7, <4>2
      <3> QED BY <3>3, <3>6, <3>7
    <2>11. phaseBar' = "answered" /\ replyBar' = rep
      BY <2>4, <2>9, <2>10, BarAnsweredNext
    <2>12. phaseBar = "pending"
      BY <2>0, BarPending
    <2> QED BY <2>7, <2>9, <2>11, <2>12, SameValues, SameEffect, SameReply
            DEF Service!Serve
  <1>8. CASE Reboot
    <2>1. phaseBar' = "idle" /\ replyBar' = Service!NoReply
      BY <1>8, SameValues DEF Reboot, phaseBar, replyBar
    <2> QED BY <1>8, <2>1, SameValues DEF Reboot, Service!Reboot
  <1>9. ASSUME NEW m \in MotorIds, Turn(m)
        PROVE  [Service!Next]_(Service!vars)
    <2>1. phaseBar' = phaseBar /\ replyBar' = replyBar
      BY <1>9 DEF Turn, phaseBar, replyBar, PacketsIn
    <2> QED BY <1>9, <2>1 DEF Turn, Service!Turn
  <1>10. CASE CorruptRequest
    <2>1. pc = "reading" /\ Requested' /\ toFw # <<>>
      BY <1>10 DEF CorruptRequest, OneCall, Requested, AnswerAt, Gone
    <2>2. toFw' # <<>>
      BY <2>1 DEF Requested
    <2>3. phaseBar' = phaseBar /\ replyBar' = replyBar
      BY <1>10, <2>1, <2>2 DEF CorruptRequest, phaseBar, replyBar
    <2> QED BY <1>10, <2>3 DEF CorruptRequest
  <1>11. CASE LoseRequest
    <2>1. pc = "reading" /\ Requested
      BY <1>11 DEF LoseRequest, OneCall, AnswerAt, Gone
    <2>2. toFw' = <<>> /\ pc' = "reading" /\ Leftover(toHost')
      BY <1>11, <2>1, TailFacts, EmptySeq DEF LoseRequest, Requested, TypeOK
    <2>3. phaseBar = "pending" /\ phaseBar' = "lost"
      BY <1>11, <2>1, <2>2, BarPending, BarLostNext DEF LoseRequest
    <2> QED BY <1>11, <2>3, SameValues DEF LoseRequest, Service!Lose, replyBar
  <1>12. CASE LoseResponse
    <2>0. toHost # <<>> /\ toHost' = Tail(toHost) /\ toHost \in Seq(Item)
          /\ UNCHANGED <<motors, toFw, pc, call, skipped, outcome>>
      BY <1>12 DEF LoseResponse, TypeOK
    <2>1. CASE pc # "reading"
      BY <2>0, <2>1 DEF phaseBar, replyBar
    <2>2. CASE pc = "reading" /\ Requested
      <3>1. toFw # <<>>
        BY <2>2 DEF Requested
      <3> QED BY <2>0, <2>2, <3>1 DEF phaseBar, replyBar
    <2>3. CASE pc = "reading" /\ AnswerAt(1)
      <3>1. Leftover(toHost') /\ toFw' = <<>>
        BY <2>0, <2>3, TailFacts DEF AnswerAt, Leftover
      <3>2. phaseBar = "answered" /\ phaseBar' = "lost"
        BY <2>0, <2>3, <3>1, BarAnswered, BarLostNext
      <3> QED BY <2>0, <3>2, SameValues DEF Service!Lose, replyBar
    <2>4. CASE pc = "reading" /\ AnswerAt(2)
      <3>1. Len(toHost') = 2 /\ toHost'[1] = toHost[2] /\ ~Requested'
        BY <2>0, <2>4, TailOfAnswer DEF AnswerAt, Requested
      <3>2. AnswerAt(1)'
        <4>1. ~Gone' /\ ~AnswerAt(2)'
          BY <3>1 DEF Gone, Leftover, AnswerAt
        <4> QED BY <2>0, <2>4, <3>1, <4>1 DEF OneCall
      <3> QED BY <2>0, <2>4, <3>1, <3>2, BarAnswered, BarAnsweredNext
    <2>5. CASE pc = "reading" /\ Gone
      <3>1. Leftover(toHost') /\ toFw' = <<>>
        BY <2>0, <2>5, TailOfLeftover DEF Gone
      <3> QED BY <2>0, <2>5, <3>1, BarLost, BarLostNext DEF Gone, replyBar
    <2> QED BY <2>1, <2>2, <2>3, <2>4, <2>5 DEF OneCall
  <1>13. CASE CorruptResponse
    BY <1>13 DEF CorruptResponse, CleanTransport
  <1>14. CASE UNCHANGED vars
    BY <1>14 DEF vars, phaseBar, replyBar, PacketsIn
  <1> QED BY <1>1, <1>2, <1>3, <1>4, <1>5, <1>6, <1>7, <1>8, <1>9, <1>10,
             <1>11, <1>12, <1>13, <1>14
          DEF Next, Host, Firmware, Transport

(* The answer a host takes is the answer to its own call, served at most   *)
(* once and against the motors as they were at that moment.                *)
THEOREM ImplementsService ==
    ASSUME CleanTransport PROVE Spec => ServiceSpec
  <1>1. Init => Service!Init
    BY SameValues DEF Init, Service!Init, phaseBar, replyBar
  <1> QED BY <1>1, ServiceStep, OneCallAlways, PTL
          DEF Spec, ServiceSpec, Service!Spec
=============================================================================
