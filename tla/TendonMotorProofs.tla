------------------------- MODULE TendonMotorProofs -------------------------
(***************************************************************************)
(* The encoder counts of TendonMotor, for any number of motors and any     *)
(* distance between the stops.                                             *)
(***************************************************************************)
EXTENDS TendonMotor, TLAPS

(* The pins that the next look is compared with, and how far the count is  *)
(* from the way turned.                                                    *)
Last(m) == IF isr.on /\ isr.motor = m THEN isr.enc ELSE m_lastTicks[m]
Error(m) == Count(m) - (sampled[m] - zeroAt[m])
Known(m) == Last(m) = Pins(sampled[m])

(* Clearing the pins makes the next look wrong by two steps at most; that  *)
(* happens twice when a look comes between the clearing of the ticks and   *)
(* that of the pins.                                                       *)
Near(m) ==
    IF zeroing = {m} THEN Error(m) = 0 \/ (Error(m) \in -2 .. 2 /\ Known(m))
    ELSE Error(m) \in -2 .. 2 \/ (Error(m) \in -4 .. 4 /\ Known(m))
InStep(m) == missed[m] \/ pos[m] - sampled[m] \in {-1, 0, 1}

IInv == /\ TypeOK
        /\ \A m \in Motors : InStep(m)
        /\ \A m \in Motors : missed[m] \/ torn[m] \/ Near(m)
-----------------------------------------------------------------------------
(* The table                                                               *)

LEMMA PinsType == ASSUME NEW p \in Int PROVE Pins(p) \in Encoding
BY DEF Pins, Encoding

(* Between neighbours the table gives the step, whatever the phase.        *)
LEMMA LookupSteps == ASSUME NEW p \in Int, NEW q \in Int, q - p \in {-1, 0, 1}
                     PROVE  Lookup(Pins(p), Pins(q)) = q - p
<1>1. p % 4 \in 0 .. 3 /\ q % 4 \in 0 .. 3
  OBVIOUS
<1>2. CASE q = p
  BY <1>1, <1>2 DEF Pins, Lookup
<1>3. CASE q = p + 1
  <2>1. q % 4 = IF p % 4 = 3 THEN 0 ELSE (p % 4) + 1
    BY <1>3
  <2> QED  BY <1>1, <1>3, <2>1 DEF Pins, Lookup
<1>4. CASE q = p - 1
  <2>1. q % 4 = IF p % 4 = 0 THEN 3 ELSE (p % 4) - 1
    BY <1>4
  <2> QED  BY <1>1, <1>4, <2>1 DEF Pins, Lookup
<1> QED  BY <1>2, <1>3, <1>4

LEMMA LookupSmall == ASSUME NEW a, NEW b PROVE Lookup(a, b) \in {-1, 0, 1}
BY DEF Lookup

-----------------------------------------------------------------------------
LEMMA InitInv == Init => IInv
<1> SUFFICES ASSUME Init PROVE IInv
  OBVIOUS
<1>1. TypeOK
  <2>1. isr = None /\ home = NoHome
    BY DEF Init
  <2>2. zeroing \in SUBSET Motors /\ missed \in [Motors -> BOOLEAN]
        /\ torn \in [Motors -> BOOLEAN]
    BY DEF Init
  <2>3. pos \in [Motors -> 0 .. End] /\ pending \in [Motors -> SUBSET Lines]
        /\ m_currentTicks \in [Motors -> Int]
        /\ m_lastTicks \in [Motors -> Encoding]
        /\ zeroAt \in [Motors -> 0 .. End] /\ sampled \in [Motors -> 0 .. End]
    BY DEF Init, Encoding
  <2> QED  BY <2>1, <2>2, <2>3 DEF TypeOK
<1>2. ASSUME NEW m \in Motors PROVE InStep(m) /\ Near(m)
  <2>1. pos[m] \in Int /\ sampled[m] = pos[m] /\ zeroAt[m] = pos[m]
        /\ m_currentTicks[m] = 0
    BY EndAssumption DEF Init
  <2>2. ~isr.on
    BY DEF Init, None
  <2> QED  BY <2>1, <2>2 DEF InStep, Near, Error, Count
<1> QED  BY <1>1, <1>2 DEF IInv

-----------------------------------------------------------------------------
(* Types                                                                   *)

LEMMA IsrType == ASSUME TypeOK, isr.on
    PROVE  isr.motor \in Motors /\ isr.ticks \in Int /\ isr.enc \in Encoding
<1>1. isr # None
  BY DEF None
<1>2. isr \in [on : {TRUE}, motor : Motors, ticks : Int, enc : Encoding]
  BY <1>1 DEF TypeOK
<1> QED  BY <1>2

LEMMA HomeType == ASSUME TypeOK, home.on
    PROVE  home.motor \in Motors /\ home.curAngle \in Int /\ home.from \in 0 .. End
<1>1. home # NoHome
  BY DEF NoHome
<1>2. home \in [on : {TRUE}, motor : Motors, curAngle : Int, from : 0 .. End]
  BY <1>1 DEF TypeOK
<1> QED  BY <1>2

LEMMA ClearedType == ASSUME TypeOK, NEW m \in Motors, TicksCleared(m)
    PROVE  /\ m_currentTicks' \in [Motors -> Int]
           /\ zeroAt' \in [Motors -> 0 .. End] /\ sampled' \in [Motors -> 0 .. End]
           /\ missed' \in [Motors -> BOOLEAN] /\ torn' \in [Motors -> BOOLEAN]
<1>1. /\ m_currentTicks' \in [Motors -> Int]
      /\ zeroAt' \in [Motors -> 0 .. End] /\ sampled' \in [Motors -> 0 .. End]
  BY DEF TypeOK, TicksCleared
<1>2. missed' \in [Motors -> BOOLEAN]
  BY DEF TypeOK, TicksCleared
<1>3. torn' \in [Motors -> BOOLEAN]
  <2>1. (isr.on /\ isr.motor = m) \in BOOLEAN
    OBVIOUS
  <2> QED  BY <2>1 DEF TypeOK, TicksCleared
<1> QED  BY <1>1, <1>2, <1>3

LEMMA TurnType == ASSUME TypeOK, NEW m \in Motors, Turn(m) PROVE TypeOK'
<1>1. PICK p \in {pos[m] - 1, pos[m] + 1} \cap (0 .. End) :
          /\ pos' = [pos EXCEPT ![m] = p]
          /\ pending' = [pending EXCEPT ![m] = @ \cup {LineOf(pos[m], p)}]
          /\ missed' = [missed EXCEPT ![m] = @ \/ p - sampled[m] \notin {-1, 0, 1}]
  BY DEF Turn
<1>2. LineOf(pos[m], p) \in Lines
  BY DEF LineOf, Lines
<1>3. pos' \in [Motors -> 0 .. End] /\ pending' \in [Motors -> SUBSET Lines]
  BY <1>1, <1>2 DEF TypeOK
<1>4. missed' \in [Motors -> BOOLEAN]
  <2>1. (missed[m] \/ p - sampled[m] \notin {-1, 0, 1}) \in BOOLEAN
    OBVIOUS
  <2> QED  BY <1>1, <2>1 DEF TypeOK
<1> QED  BY <1>3, <1>4 DEF Turn, TypeOK

LEMMA ReadsType == ASSUME TypeOK, NEW m \in Motors, IsrReads(m) PROVE TypeOK'
<1>1. pos[m] \in Int /\ m_currentTicks[m] \in Int
  BY EndAssumption DEF TypeOK
<1>2. Pins(pos[m]) \in Encoding
  BY <1>1, PinsType
<1>3. Lookup(m_lastTicks[m], Pins(pos[m])) \in Int
  BY LookupSmall
<1> DEFINE ticks == m_currentTicks[m] + Lookup(m_lastTicks[m], Pins(pos[m]))
<1>4. ticks \in Int
  BY <1>1, <1>3
<1>5. isr' = [on |-> TRUE, motor |-> m, enc |-> Pins(pos[m]), ticks |-> ticks]
  BY DEF IsrReads
<1> HIDE DEF ticks
<1>6. isr' \in [on : {TRUE}, motor : Motors, ticks : Int, enc : Encoding]
  BY <1>2, <1>4, <1>5
<1>7. pending' \in [Motors -> SUBSET Lines] /\ sampled' \in [Motors -> 0 .. End]
  BY DEF IsrReads, TypeOK
<1> QED  BY <1>6, <1>7 DEF IsrReads, TypeOK

LEMMA DelayType == ASSUME TypeOK, DelayOver PROVE TypeOK'
<1>1. home.motor \in Motors
  BY HomeType DEF DelayOver
<1>2. CASE AtRest
  <2>1. TicksCleared(home.motor) /\ home' = NoHome
        /\ m_lastTicks' = [m_lastTicks EXCEPT ![home.motor] = 0]
    BY <1>2 DEF DelayOver, Reset_Encoder_Zero
  <2>2. m_lastTicks' \in [Motors -> Encoding]
    BY <1>1, <2>1 DEF TypeOK, Encoding
  <2> QED  BY <1>1, <2>1, <2>2, ClearedType DEF DelayOver, TypeOK, shafts
<1>3. CASE ~AtRest
  <2>1. home' = [home EXCEPT !.curAngle = m_currentTicks[home.motor],
                             !.from = pos[home.motor]]
    BY <1>3 DEF DelayOver
  <2>2. home \in [on : {TRUE}, motor : Motors, curAngle : Int, from : 0 .. End]
    <3>1. home # NoHome
      BY DEF NoHome, DelayOver
    <3> QED  BY <3>1 DEF TypeOK
  <2>3. home' \in [on : {TRUE}, motor : Motors, curAngle : Int, from : 0 .. End]
    BY <1>1, <2>1, <2>2 DEF TypeOK
  <2> QED  BY <1>3, <2>3 DEF DelayOver, TypeOK, shafts, observers
<1> QED  BY <1>2, <1>3

LEMMA TypeStep == ASSUME TypeOK, [Next]_vars PROVE TypeOK'
<1>1. CASE IsrStores
  <2>1. isr.motor \in Motors /\ isr.ticks \in Int /\ isr.enc \in Encoding
    BY <1>1, IsrType DEF IsrStores
  <2>2. m_currentTicks' \in [Motors -> Int] /\ m_lastTicks' \in [Motors -> Encoding]
    BY <1>1, <2>1 DEF IsrStores, TypeOK
  <2> QED  BY <1>1, <2>2 DEF IsrStores, TypeOK, shafts, observers
<1>2. CASE DelayOver
  BY <1>2, DelayType
<1>3. ASSUME NEW m \in Motors,
             Turn(m) \/ IsrReads(m) \/ ZeroTicks(m) \/ ZeroPins(m)
             \/ SpiZero(m) \/ SpiHome(m)
      PROVE  TypeOK'
  <2>1. CASE Turn(m)
    BY <2>1, TurnType
  <2>2. CASE IsrReads(m)
    BY <2>2, ReadsType
  <2>3. CASE ZeroTicks(m)
    BY <2>3, ClearedType DEF ZeroTicks, TypeOK, shafts
  <2>4. CASE ZeroPins(m)
    <3>1. m_lastTicks' \in [Motors -> Encoding]
      BY <2>4 DEF ZeroPins, TypeOK, Encoding
    <3> QED  BY <2>4, <3>1 DEF ZeroPins, TypeOK, shafts, observers
  <2>5. CASE SpiZero(m)
    <3>1. m_lastTicks' \in [Motors -> Encoding] /\ TicksCleared(m)
      BY <2>5 DEF SpiZero, Reset_Encoder_Zero, TypeOK, Encoding
    <3> QED  BY <2>5, <3>1, ClearedType DEF SpiZero, TypeOK, shafts
  <2>6. CASE SpiHome(m)
    <3>1. home' \in [on : {TRUE}, motor : Motors, curAngle : Int, from : 0 .. End]
      BY <2>6 DEF SpiHome, TypeOK
    <3> QED  BY <2>6, <3>1 DEF SpiHome, TypeOK, shafts, observers
  <2> QED  BY <1>3, <2>1, <2>2, <2>3, <2>4, <2>5, <2>6
<1>4. CASE UNCHANGED vars
  BY <1>4 DEF vars, shafts, observers, TypeOK
<1> QED  BY <1>1, <1>2, <1>3, <1>4 DEF Next

-----------------------------------------------------------------------------
(* The count                                                               *)

Counted(m) == InStep(m) /\ (missed[m] \/ torn[m] \/ Near(m))

LEMMA Ints == ASSUME TypeOK, NEW m \in Motors
    PROVE  /\ pos[m] \in Int /\ sampled[m] \in Int /\ zeroAt[m] \in Int
           /\ m_currentTicks[m] \in Int /\ m_lastTicks[m] \in Encoding
           /\ Count(m) \in Int
<1>1. isr.on => isr.ticks \in Int
  BY IsrType
<1> QED  BY <1>1, EndAssumption DEF TypeOK, Count

(* What a step leaves alone of a motor keeps its count as good as it was.  *)
LEMMA SameCounted == ASSUME NEW m \in Motors, Counted(m),
                            pos'[m] = pos[m], sampled'[m] = sampled[m],
                            zeroAt'[m] = zeroAt[m],
                            missed[m] => missed'[m], torn[m] => torn'[m],
                            Count(m)' = Count(m), Last(m)' = Last(m),
                            zeroing' = {m} <=> zeroing = {m}
                     PROVE  Counted(m)'
<1>1. InStep(m)'
  BY DEF Counted, InStep
<1>2. Near(m) => Near(m)'
  BY DEF Near, Error, Known
<1> QED  BY <1>1, <1>2 DEF Counted

LEMMA ClearedCounted ==
    ASSUME TypeOK, NEW m \in Motors, TicksCleared(m), UNCHANGED <<pos, isr>>,
           \A k \in Motors : k # m => m_lastTicks'[k] = m_lastTicks[k],
           zeroing' = zeroing \/ (zeroing = {} /\ zeroing' = {m}),
           NEW k \in Motors, Counted(k)
    PROVE  Counted(k)'
<1>1. CASE k = m
  <2>1. /\ pos'[m] = pos[m] /\ sampled'[m] = pos[m] /\ zeroAt'[m] = pos[m]
        /\ m_currentTicks'[m] = 0 /\ pos[m] \in Int
    BY Ints DEF TicksCleared, TypeOK
  <2>2. InStep(m)'
    BY <2>1 DEF InStep
  <2>3. CASE isr.on /\ isr.motor = m
    <3>1. torn'[m]
      BY <2>3 DEF TicksCleared, TypeOK
    <3> QED  BY <1>1, <2>2, <3>1 DEF Counted
  <2>4. CASE ~(isr.on /\ isr.motor = m)
    <3>1. Count(m)' = 0
      BY <2>1, <2>4 DEF Count
    <3>2. Error(m)' = 0
      BY <2>1, <3>1 DEF Error
    <3>3. Near(m)'
      BY <3>2 DEF Near
    <3> QED  BY <1>1, <2>2, <3>3 DEF Counted
  <2> QED  BY <2>3, <2>4
<1>2. CASE k # m
  <2>1. /\ pos'[k] = pos[k] /\ sampled'[k] = sampled[k] /\ zeroAt'[k] = zeroAt[k]
        /\ m_currentTicks'[k] = m_currentTicks[k]
        /\ m_lastTicks'[k] = m_lastTicks[k]
    BY <1>2 DEF TicksCleared, TypeOK
  <2>2. (missed[k] => missed'[k]) /\ (torn[k] => torn'[k])
    BY <1>2 DEF TicksCleared, TypeOK
  <2>3. Count(k)' = Count(k) /\ Last(k)' = Last(k)
    BY <2>1 DEF Count, Last
  <2>4. zeroing' = {k} <=> zeroing = {k}
    BY <1>2
  <2> QED  BY <2>1, <2>2, <2>3, <2>4, SameCounted
<1> QED  BY <1>1, <1>2

LEMMA ReadsCounted == ASSUME TypeOK, NEW m \in Motors, IsrReads(m),
                             NEW k \in Motors, Counted(k)
                      PROVE  Counted(k)'
<1>1. /\ ~isr.on /\ isr'.on /\ isr'.motor = m /\ isr'.enc = Pins(pos[m])
      /\ isr'.ticks = m_currentTicks[m] + Lookup(m_lastTicks[m], Pins(pos[m]))
  BY DEF IsrReads
<1>2. UNCHANGED <<pos, m_currentTicks, m_lastTicks, zeroing, zeroAt, missed, torn>>
  BY DEF IsrReads
<1>3. CASE k = m
  <2> DEFINE step == Lookup(m_lastTicks[m], Pins(pos[m]))
  <2>0. step \in {-1, 0, 1}
    BY LookupSmall
  <2>1. sampled'[m] = pos[m]
    BY DEF IsrReads, TypeOK
  <2>2. InStep(m)'
    BY <1>2, <2>1, Ints DEF InStep
  <2>3. /\ Count(m) = m_currentTicks[m] /\ Count(m)' = m_currentTicks[m] + step
        /\ Last(m) = m_lastTicks[m] /\ Last(m)' = Pins(pos[m])
    BY <1>1 DEF Count, Last
  <2>4. Known(m)'
    BY <2>1, <2>3 DEF Known
  <2>5. ASSUME ~missed[m], ~torn[m]
        PROVE  Near(m)'
    <3> DEFINE d == pos[m] - sampled[m]
    <3>1. Near(m) /\ d \in {-1, 0, 1}
      BY <1>3, <2>5 DEF Counted, InStep
    <3>2. Error(m)' = Error(m) + step - d /\ Error(m) \in Int
      BY <1>2, <2>0, <2>1, <2>3, Ints DEF Error
    <3>3. Known(m) => step = d
      BY <2>3, <3>1, LookupSteps, Ints DEF Known
    <3> HIDE DEF step, d
    <3>4. CASE zeroing = {m}
      <4>1. Error(m) = 0 \/ (Error(m) \in -2 .. 2 /\ step = d)
        BY <3>1, <3>3, <3>4 DEF Near
      <4>2. Error(m)' \in -2 .. 2
        BY <2>0, <3>1, <3>2, <4>1
      <4> QED  BY <1>2, <2>4, <3>4, <4>2 DEF Near
    <3>5. CASE zeroing # {m}
      <4>1. Error(m) \in -2 .. 2 \/ (Error(m) \in -4 .. 4 /\ step = d)
        BY <3>1, <3>3, <3>5 DEF Near
      <4>2. Error(m)' \in -4 .. 4
        BY <2>0, <3>1, <3>2, <4>1
      <4> QED  BY <1>2, <2>4, <3>5, <4>2 DEF Near
    <3> QED  BY <3>4, <3>5
  <2> QED  BY <1>2, <1>3, <2>2, <2>5 DEF Counted
<1>4. CASE k # m
  <2>1. sampled'[k] = sampled[k]
    BY <1>4 DEF IsrReads, TypeOK
  <2>2. Count(k)' = Count(k) /\ Last(k)' = Last(k)
    BY <1>1, <1>2, <1>4 DEF Count, Last
  <2> QED  BY <1>2, <2>1, <2>2, SameCounted
<1> QED  BY <1>3, <1>4

LEMMA TurnCounted == ASSUME TypeOK, NEW m \in Motors, Turn(m),
                            NEW k \in Motors, Counted(k)
                     PROVE  Counted(k)'
<1>1. PICK p \in {pos[m] - 1, pos[m] + 1} \cap (0 .. End) :
          /\ pos' = [pos EXCEPT ![m] = p]
          /\ missed' = [missed EXCEPT ![m] = @ \/ p - sampled[m] \notin {-1, 0, 1}]
  BY DEF Turn
<1>2. UNCHANGED <<m_currentTicks, m_lastTicks, zeroing, isr, zeroAt, sampled, torn>>
  BY DEF Turn
<1>3. Count(k)' = Count(k) /\ Last(k)' = Last(k)
  BY <1>2 DEF Count, Last
<1>4. missed[k] => missed'[k]
  BY <1>1 DEF TypeOK
<1>5. InStep(k)'
  <2>1. CASE k = m
    <3>1. pos'[m] = p
      BY <1>1 DEF TypeOK
    <3>2. missed'[m] \/ p - sampled[m] \in {-1, 0, 1}
      BY <1>1 DEF TypeOK
    <3> QED  BY <1>2, <2>1, <3>1, <3>2 DEF InStep
  <2>2. CASE k # m
    <3>1. pos'[k] = pos[k]
      BY <1>1, <2>2 DEF TypeOK
    <3> QED  BY <1>2, <1>4, <3>1 DEF InStep, Counted
  <2> QED  BY <2>1, <2>2
<1>6. Near(k) => Near(k)'
  BY <1>2, <1>3 DEF Near, Error, Known
<1> QED  BY <1>2, <1>4, <1>5, <1>6 DEF Counted

LEMMA StoresCounted == ASSUME TypeOK, IsrStores, NEW k \in Motors, Counted(k)
                       PROVE  Counted(k)'
<1>1. isr.on /\ isr.motor \in Motors /\ isr' = None /\ ~isr'.on
  BY IsrType DEF IsrStores, None
<1>2. /\ m_currentTicks' = [m_currentTicks EXCEPT ![isr.motor] = isr.ticks]
      /\ m_lastTicks' = [m_lastTicks EXCEPT ![isr.motor] = isr.enc]
      /\ UNCHANGED <<pos, zeroing, zeroAt, sampled, missed, torn>>
  BY DEF IsrStores, shafts, observers
<1>3. Count(k)' = m_currentTicks'[k] /\ Last(k)' = m_lastTicks'[k]
  BY <1>1 DEF Count, Last
<1>4. Count(k)' = Count(k) /\ Last(k)' = Last(k)
  BY <1>1, <1>2, <1>3 DEF Count, Last, TypeOK
<1> QED  BY <1>2, <1>4, SameCounted

LEMMA ZeroPinsCounted == ASSUME TypeOK, NEW m \in Motors, ZeroPins(m),
                                NEW k \in Motors, Counted(k)
                         PROVE  Counted(k)'
<1>1. /\ zeroing = {m} /\ zeroing' = {} /\ ~isr.on
      /\ UNCHANGED <<pos, isr, m_currentTicks, zeroAt, sampled, missed, torn>>
      /\ m_lastTicks' = [m_lastTicks EXCEPT ![m] = 0]
  BY DEF ZeroPins, LoopRuns, shafts, observers
<1>2. Count(k)' = Count(k)
  BY <1>1 DEF Count
<1>3. CASE k = m
  <2>1. Near(m) => Error(m) \in -2 .. 2
    BY <1>1 DEF Near
  <2>2. Error(m)' = Error(m)
    BY <1>1, <1>2, <1>3 DEF Error
  <2>3. Near(m) => Near(m)'
    BY <1>1, <2>1, <2>2 DEF Near
  <2> QED  BY <1>1, <1>3, <2>3 DEF Counted, InStep
<1>4. CASE k # m
  <2>1. Last(k)' = Last(k)
    BY <1>1, <1>4 DEF Last, TypeOK
  <2>2. zeroing' = {k} <=> zeroing = {k}
    BY <1>1, <1>4
  <2> QED  BY <1>1, <1>2, <2>1, <2>2, SameCounted
<1> QED  BY <1>3, <1>4

LEMMA CountedStep == ASSUME TypeOK, [Next]_vars, NEW k \in Motors, Counted(k)
                     PROVE  Counted(k)'
<1>1. ASSUME UNCHANGED <<pos, m_currentTicks, m_lastTicks, isr, zeroing, zeroAt,
                         sampled, missed, torn>>
      PROVE  Counted(k)'
  BY <1>1 DEF Counted, InStep, Near, Error, Known, Count, Last
<1>2. ASSUME NEW m \in Motors, Reset_Encoder_Zero(m),
             UNCHANGED <<shafts, zeroing, isr>>
      PROVE  Counted(k)'
  BY <1>2, ClearedCounted DEF Reset_Encoder_Zero, shafts, TypeOK
<1>3. CASE IsrStores
  BY <1>3, StoresCounted
<1>4. CASE DelayOver
  <2>1. CASE AtRest
    <3>1. home.motor \in Motors
      BY <1>4, HomeType DEF DelayOver
    <3>2. Reset_Encoder_Zero(home.motor) /\ UNCHANGED <<shafts, zeroing, isr>>
      BY <1>4, <2>1 DEF DelayOver
    <3> QED  BY <1>2, <3>1, <3>2
  <2>2. CASE ~AtRest
    BY <1>1, <1>4, <2>2 DEF DelayOver, shafts, observers
  <2> QED  BY <2>1, <2>2
<1>5. ASSUME NEW m \in Motors,
             Turn(m) \/ IsrReads(m) \/ ZeroTicks(m) \/ ZeroPins(m)
             \/ SpiZero(m) \/ SpiHome(m)
      PROVE  Counted(k)'
  <2>1. CASE ZeroTicks(m)
    BY <2>1, ClearedCounted DEF ZeroTicks, shafts
  <2>2. CASE SpiZero(m)
    BY <1>2, <2>2 DEF SpiZero
  <2>3. CASE SpiHome(m)
    BY <1>1, <2>3 DEF SpiHome, shafts, observers
  <2> QED  BY <1>5, <2>1, <2>2, <2>3, TurnCounted, ReadsCounted, ZeroPinsCounted
<1>6. CASE UNCHANGED vars
  BY <1>1, <1>6 DEF vars, shafts, observers
<1> QED  BY <1>3, <1>4, <1>5, <1>6 DEF Next

LEMMA InvAlways == Spec => []IInv
<1>1. Init => IInv
  BY InitInv
<1>2. IInv /\ [Next]_vars => IInv'
  BY TypeStep, CountedStep DEF IInv, Counted
<1> QED  BY <1>1, <1>2, PTL DEF Spec

(* The variables keep their types, whatever interrupts what.               *)
THEOREM TypeCorrect == Spec => []TypeOK
<1>1. IInv => TypeOK
  BY DEF IInv
<1> QED  BY <1>1, InvAlways, PTL

(* A count that lost no step and whose addition no frame cut is within four*)
(* steps of the way turned, for any number of motors and any travel.       *)
THEOREM CountNearTruthAlways == Spec => []CountNearTruth
<1>1. ASSUME IInv PROVE CountNearTruth
  <2> SUFFICES ASSUME NEW m \in Motors, ~missed[m], ~torn[m]
               PROVE  Count(m) - (sampled[m] - zeroAt[m]) \in -4 .. 4
    BY DEF CountNearTruth
  <2>1. Near(m) /\ Error(m) \in Int
    BY <1>1, Ints DEF IInv, Error
  <2>2. Error(m) \in -4 .. 4
    BY <2>1 DEF Near
  <2> QED  BY <2>2 DEF Error
<1> QED  BY <1>1, InvAlways, PTL
=============================================================================
