---------------------------- MODULE TendonMotor ----------------------------
(***************************************************************************)
(* The encoders of the tendon controller board: loop(), which zeroes one on*)
(* request; encoder_ISR, at the lowest priority (ml_encoder.cpp); and      *)
(* DMAC_0_Handler, which runs when an SPI frame is complete and zeroes or  *)
(* homes a motor itself.  Its priority is given in the hardware library:   *)
(* it is let preempt both here, and nothing preempts it but the clock.  A  *)
(* tendon's shaft turns between two stops, driven or pulled.               *)
(***************************************************************************)
EXTENDS Integers

CONSTANTS Motors,
          End          \* steps from one stop of a shaft to the other

ASSUME EndAssumption == End \in Nat

VARIABLES pos,         \* steps of each shaft from its first stop
          pending      \* EIC flags, one for each encoder line
VARIABLES m_currentTicks, m_lastTicks
VARIABLES zeroing,     \* loop(): the motors (none or one) whose ticks are
                       \* cleared and whose pin state is not yet
          isr,         \* encoder_ISR under way, with what it has read
          home         \* Move_To_End under way, with its curAngle and, an
                       \* observer, pos when its delay began
(* Observers: nothing in the program reads them. *)
VARIABLES zeroAt,      \* pos when the ticks were cleared
          sampled,     \* pos when the pins were last read or the ticks cleared
          missed,      \* two steps from sampled since the ticks were cleared?
          torn         \* were the ticks cleared in the middle of an addition?

shafts == <<pos, pending>>
observers == <<zeroAt, sampled, missed, torn>>
vars == <<shafts, m_currentTicks, m_lastTicks, zeroing, isr, home,
          observers>>

None == [on |-> FALSE, motor |-> 0, ticks |-> 0, enc |-> 0]
NoHome == [on |-> FALSE, motor |-> 0, curAngle |-> 0, from |-> 0]
Lines == {"A", "B"}

(* Two pins, a quarter of a cycle apart: (a_phase << 1) | b_phase. *)
Pins(p) == CASE p % 4 = 0 -> 0 [] p % 4 = 1 -> 2 [] p % 4 = 2 -> 3 [] OTHER -> 1
LineOf(p, q) == IF {Pins(p), Pins(q)} \in {{0, 2}, {1, 3}} THEN "A" ELSE "B"

(* What lookup_table[(last << 2) | current] holds. *)
LookupTransposed(last, current) ==                             \* a mutant
    CASE <<last, current>> \in {<<0, 2>>, <<1, 3>>, <<3, 2>>, <<2, 0>>} -> 1
      [] <<last, current>> \in {<<2, 3>>, <<1, 0>>, <<3, 1>>, <<0, 1>>} -> -1
      [] OTHER -> 0
Lookup(last, current) ==
    CASE <<last, current>> \in {<<0, 2>>, <<2, 3>>, <<3, 1>>, <<1, 0>>} -> 1
      [] <<last, current>> \in {<<2, 0>>, <<3, 2>>, <<1, 3>>, <<0, 1>>} -> -1
      [] OTHER -> 0

Init ==
    /\ pos \in [Motors -> 0 .. End]
    /\ pending = [m \in Motors |-> {}]
    /\ m_currentTicks = [m \in Motors |-> 0]
    /\ m_lastTicks = [m \in Motors |-> 0]
    /\ zeroing = {} /\ isr = None /\ home = NoHome
    /\ zeroAt = pos /\ sampled = pos
    /\ missed = [m \in Motors |-> FALSE] /\ torn = [m \in Motors |-> FALSE]
-----------------------------------------------------------------------------
(* A step of a shaft flips one line, whose flag is set in any case. *)
Turn(m) ==
    /\ \E p \in {pos[m] - 1, pos[m] + 1} \cap (0 .. End) :
          /\ pos' = [pos EXCEPT ![m] = p]
          /\ pending' = [pending EXCEPT ![m] = @ \cup {LineOf(pos[m], p)}]
          /\ missed' = [missed EXCEPT ![m] =
                           @ \/ p - sampled[m] \notin {-1, 0, 1}]
    /\ UNCHANGED <<m_currentTicks, m_lastTicks, zeroing, isr, home,
                   zeroAt, sampled, torn>>
-----------------------------------------------------------------------------
(* encoder_ISR                                                             *)

MayInterrupt == ~home.on

(* The flag is cleared, the pins, the last pins and the ticks are read ... *)
IsrReads(m) ==
    /\ MayInterrupt /\ ~isr.on
    /\ \E line \in pending[m] : pending' = [pending EXCEPT ![m] = @ \ {line}]
    /\ isr' = [on |-> TRUE, motor |-> m, enc |-> Pins(pos[m]),
               ticks |-> m_currentTicks[m]
                         + Lookup(m_lastTicks[m], Pins(pos[m]))]
    /\ sampled' = [sampled EXCEPT ![m] = pos[m]]
    /\ UNCHANGED <<pos, m_currentTicks, m_lastTicks, zeroing, home,
                   zeroAt, missed, torn>>

IsrStoresIndex ==                                              \* a mutant
    /\ MayInterrupt /\ isr.on
    /\ m_currentTicks' = [m_currentTicks EXCEPT ![isr.motor] = isr.ticks]
    /\ m_lastTicks' = [m_lastTicks EXCEPT ![isr.motor] = 4 * @ + isr.enc]
    /\ isr' = None
    /\ UNCHANGED <<shafts, zeroing, home, observers>>
(* ... and written. *)
IsrStores ==
    /\ MayInterrupt /\ isr.on
    /\ m_currentTicks' = [m_currentTicks EXCEPT ![isr.motor] = isr.ticks]
    /\ m_lastTicks' = [m_lastTicks EXCEPT ![isr.motor] = isr.enc]
    /\ isr' = None
    /\ UNCHANGED <<shafts, zeroing, home, observers>>
-----------------------------------------------------------------------------
(* loop()                                                                  *)

LoopRuns == ~isr.on /\ ~home.on

(* The ticks count from here. *)
TicksCleared(m) ==
    /\ m_currentTicks' = [m_currentTicks EXCEPT ![m] = 0]
    /\ zeroAt' = [zeroAt EXCEPT ![m] = pos[m]]
    /\ sampled' = [sampled EXCEPT ![m] = pos[m]]
    /\ missed' = [missed EXCEPT ![m] = FALSE]
    /\ torn' = [torn EXCEPT ![m] = isr.on /\ isr.motor = m]

(* SET_ZERO_ANGLE: Reset_Encoder_Zero, with interrupts between its lines.  *)
ZeroTicks(m) ==
    /\ LoopRuns /\ zeroing = {}
    /\ TicksCleared(m)
    /\ zeroing' = {m}
    /\ UNCHANGED <<shafts, m_lastTicks, isr, home>>

ZeroPins(m) ==
    /\ LoopRuns /\ zeroing = {m}
    /\ m_lastTicks' = [m_lastTicks EXCEPT ![m] = 0]
    /\ zeroing' = {}
    /\ UNCHANGED <<shafts, m_currentTicks, isr, home, observers>>
-----------------------------------------------------------------------------
(* DMAC_0_Handler: the first byte of a frame says what to do.              *)

Reset_Encoder_Zero(m) ==
    /\ TicksCleared(m)
    /\ m_lastTicks' = [m_lastTicks EXCEPT ![m] = 0]

SpiZero(m) ==
    /\ ~home.on
    /\ Reset_Encoder_Zero(m)
    /\ UNCHANGED <<shafts, zeroing, isr, home>>

(* Move_To_End up to its first delay(500).  A frame that is complete before*)
(* the handler returns is not looked at: its flag is cleared at the end.   *)
SpiHome(m) ==
    /\ ~home.on
    /\ home' = [on |-> TRUE, motor |-> m, curAngle |-> m_currentTicks[m],
                from |-> pos[m]]
    /\ UNCHANGED <<shafts, m_currentTicks, m_lastTicks, zeroing, isr, observers>>

(* Whether delay() ends in a handler depends on priorities that are not in *)
(* the code; nothing says that it does.                                    *)
AtRest == m_currentTicks[home.motor] = home.curAngle
DelayOver ==
    /\ home.on
    /\ IF AtRest
       THEN /\ Reset_Encoder_Zero(home.motor)
            /\ home' = NoHome
       ELSE /\ home' = [home EXCEPT !.curAngle = m_currentTicks[home.motor],
                                    !.from = pos[home.motor]]
            /\ UNCHANGED <<m_currentTicks, m_lastTicks, observers>>
    /\ UNCHANGED <<shafts, zeroing, isr>>
-----------------------------------------------------------------------------
Next ==
    \/ IsrStores
    \/ DelayOver
    \/ \E m \in Motors : \/ Turn(m) \/ IsrReads(m)
                         \/ ZeroTicks(m) \/ ZeroPins(m)
                         \/ SpiZero(m) \/ SpiHome(m)
Spec == Init /\ [][Next]_vars
-----------------------------------------------------------------------------
(* Properties                                                              *)

Encoding == 0 .. 3
TypeOK ==
    /\ pos \in [Motors -> 0 .. End]
    /\ pending \in [Motors -> SUBSET Lines]
    /\ m_currentTicks \in [Motors -> Int] /\ m_lastTicks \in [Motors -> Encoding]
    /\ zeroing \in SUBSET Motors
    /\ isr \in [on : {TRUE}, motor : Motors, ticks : Int, enc : Encoding]
               \cup {None}
    /\ home \in [on : {TRUE}, motor : Motors, curAngle : Int,
                 from : 0 .. End] \cup {NoHome}
    /\ zeroAt \in [Motors -> 0 .. End] /\ sampled \in [Motors -> 0 .. End]
    /\ missed \in [Motors -> BOOLEAN] /\ torn \in [Motors -> BOOLEAN]

(* A count that lost no step, and whose addition no SPI frame cut, is near *)
(* the way turned between its clearing and the last look at the pins.  It  *)
(* is not exact: clearing forgets the pins too, once with an interrupt     *)
(* between the two.                                                        *)
Count(m) == IF isr.on /\ isr.motor = m THEN isr.ticks ELSE m_currentTicks[m]
CountNearTruth ==
    \A m \in Motors : missed[m] \/ torn[m]
        \/ Count(m) - (sampled[m] - zeroAt[m]) \in -4 .. 4

(* "home a motor": Move_To_End takes the motor to be at its end when the   *)
(* shaft has stood still for a delay, or is at a stop.                     *)
HomedAtEnd ==
    [][home.on /\ ~home'.on => pos[home.motor] \in {home.from, 0, End}]_vars
=============================================================================
