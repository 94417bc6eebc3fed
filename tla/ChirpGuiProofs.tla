--------------------------- MODULE ChirpGuiProofs ---------------------------
(***************************************************************************)
(* What keeps the display program's unlocked sharing safe, for every queue *)
(* size from 3 on, every save interval and every number of frames.         *)
(***************************************************************************)
EXTENDS ChirpGui, TLAPS

(* The lock is held by the worker in its source call and by the GUI in     *)
(* load, and by nobody else.                                               *)
Locked == /\ lock = "W" <=> pc["W"] = "read"
          /\ lock = "G" <=> pc["G"] \in {"boot", "load"}

(* Where the source may be without a start: before the first load is       *)
(* through, inside load, and once the program closes; and where the worker *)
(* cannot be then.                                                         *)
Unstarted == {"boot", "swap", "load", "saver", "closed", "aborted"}
Sourced ==
    /\ started \/ pc["G"] \in Unstarted
    /\ (pc["G"] = "boot" \/ (pc["G"] = "swap" /\ ~started)) =>
          paused /\ running /\ pc["W"] = "check"
    /\ pc["G"] = "join" => ~running
    /\ pc["G"] \in {"close", "saver", "closed"} => ~running /\ pc["W"] # "lock"
    /\ pc["G"] = "aborted" => pc["W"] = "ended"
    /\ pc["W"] = "read" => started

(* A Next click is handled with the worker paused, so that it comes to a   *)
(* source call only from the lock it was waiting for at the click.         *)
Nexting == {"take", "read", "store", "drop", "append"}
Paused ==
    /\ pc["G"] \in Nexting => paused /\ (hasty \/ pc["W"] # "lock")
    /\ pc["G"] \in Nexting \ {"take"} => hasty \/ pc["W"] # "read"

(* While the last source call to end did so during another, that other is  *)
(* still under way, and a frame being stored is the last that was read.    *)
Lapped ==
    overlapped => \A t \in Thread :
                      Storing(t) => pc[Other(t)] = "read" /\ hand[t] = n

(* How short the queue may have become since a store found it full: by the *)
(* pop that was pending then, by that of one tick and, when both threads   *)
(* store, by the other's; but then no tick comes between.                  *)
Filled ==
    /\ ticked => pc["W"] = "drop" \/ pc["G"] = "aborted"
    /\ pc["G"] = "pop" => Len(queue) >= 1
    /\ pc["G"] = "drop" => Len(queue) >= QueueSize - 1
    /\ pc["W"] = "drop" =>
          /\ Len(queue) >= QueueSize - 2
          /\ ~ticked \/ pc["G"] = "pop" => Len(queue) >= QueueSize - 1
          /\ ~ticked /\ pc["G"] = "pop" => Len(queue) >= QueueSize
          /\ overlapped \/ pc["G"] \in {"store", "drop"} =>
                Len(queue) >= QueueSize /\ ~ticked
          /\ pc["G"] = "append" => ~ticked

(* Along the queue, from the last frame popped, each frame may precede all *)
(* behind it; behind them are those being stored, which of two may come in *)
(* either order.                                                           *)
Lined(q, low, high) ==
    /\ \A i \in 1 .. Len(q) : MayPrecede(low, q[i]) /\ q[i] <= high
    /\ \A i, j \in 1 .. Len(q) : i < j => MayPrecede(q[i], q[j])
Ordered ==
    /\ popped <= n
    /\ Lined(queue, popped, n)
    /\ \A t \in Thread : Storing(t) =>
          /\ MayPrecede(popped, hand[t]) /\ hand[t] <= n
          /\ \A i \in 1 .. Len(queue) : MayPrecede(queue[i], hand[t])
          /\ Storing(Other(t)) => MayPrecede(hand[t], hand[Other(t)])
    /\ pc["G"] = "emit" => data = popped \/ MayPrecede(popped, data)

IInv == TypeOK /\ Locked /\ Sourced /\ Paused /\ Lapped /\ Filled /\ Ordered
-----------------------------------------------------------------------------
(* Types                                                                   *)

Rest == <<flags, lock, sourceVars, saveVars, reads, popped, hasty>>

LEMMA ThreadsMove == ASSUME TypeOK, NEW t \in Thread, NEW place,
                            t = "W" => place \in WorkerPlaces,
                            t = "G" => place \in GuiPlaces,
                            At(t, place)
    PROVE  /\ pc' \in [Thread -> WorkerPlaces \cup GuiPlaces]
           /\ pc'["W"] \in WorkerPlaces /\ pc'["G"] \in GuiPlaces
           /\ pc'[t] = place
           /\ \A u \in Thread : u # t => pc'[u] = pc[u]
BY DEF TypeOK, Thread, At

LEMMA ReturnType == ASSUME TypeOK, NEW t \in Thread, Return(t)
    PROVE  /\ pc' \in [Thread -> WorkerPlaces \cup GuiPlaces]
           /\ pc'["W"] \in WorkerPlaces /\ pc'["G"] \in GuiPlaces
           /\ hand' \in [Thread -> Nat] /\ slot' \in {"next", "prev"}
           /\ n' \in Nat /\ overlapped' \in BOOLEAN /\ raced' \subseteq Nat
<1>1. PICK frame \in Returns :
          /\ raced' = IF frame # None /\ Storing(Other(t))
                      THEN raced \cup {frame} ELSE raced
          /\ hand' = [hand EXCEPT ![t] = frame]
          /\ n' = IF frame = None THEN n ELSE frame
          /\ At(t, IF frame = None THEN Onward(t) ELSE "store")
          /\ slot' = IF frame = None THEN NextSlot(t) ELSE slot
  BY DEF Return
<1>2. frame \in Nat
  BY DEF Returns, None, TypeOK
<1>3. /\ t = "W" => (IF frame = None THEN Onward(t) ELSE "store") \in WorkerPlaces
      /\ t = "G" => (IF frame = None THEN Onward(t) ELSE "store") \in GuiPlaces
  BY DEF Onward, WorkerPlaces, GuiPlaces
<1>4. /\ pc' \in [Thread -> WorkerPlaces \cup GuiPlaces]
      /\ pc'["W"] \in WorkerPlaces /\ pc'["G"] \in GuiPlaces
  BY <1>1, <1>3, ThreadsMove
<1>5. overlapped' \in BOOLEAN
  BY DEF Return
<1> QED  BY <1>1, <1>2, <1>4, <1>5 DEF TypeOK, NextSlot

LEMMA StoreType == ASSUME TypeOK, NEW t \in Thread, _storeData(t),
                          pc[t] = "drop" => queue # <<>>
                   PROVE  TypeOK'
<1> USE DEF TypeOK, flags, sourceVars, saveVars, reads
<1>0. UNCHANGED Rest
  BY DEF _storeData, Rest
<1>1. CASE Store(t)
  <2>1. /\ pc' \in [Thread -> WorkerPlaces \cup GuiPlaces]
        /\ pc'["W"] \in WorkerPlaces /\ pc'["G"] \in GuiPlaces
    <3>1. /\ t = "W" => (IF Len(queue) >= QueueSize THEN "drop" ELSE "append")
                            \in WorkerPlaces
          /\ t = "G" => (IF Len(queue) >= QueueSize THEN "drop" ELSE "append")
                            \in GuiPlaces
      BY DEF WorkerPlaces, GuiPlaces
    <3> QED  BY <1>1, <3>1, ThreadsMove DEF Store
  <2>2. data' \in Nat
    BY <1>1 DEF Store
  <2> QED  BY <1>0, <1>1, <2>1, <2>2 DEF Store, Rest
<1>2. CASE Drop(t)
  <2>1. /\ pc' \in [Thread -> WorkerPlaces \cup GuiPlaces]
        /\ pc'["W"] \in WorkerPlaces /\ pc'["G"] \in GuiPlaces
    BY <1>2, ThreadsMove DEF Drop, WorkerPlaces, GuiPlaces
  <2>2. queue' \in Seq(Nat) /\ Len(queue') <= QueueSize
    BY <1>2, QueueAssumption DEF Drop
  <2>3. ticked' \in BOOLEAN
    BY <1>2 DEF Drop
  <2> QED  BY <1>0, <1>2, <2>1, <2>2, <2>3 DEF Drop, Rest
<1>3. CASE AppendFrame(t)
  <2>1. /\ pc' \in [Thread -> WorkerPlaces \cup GuiPlaces]
        /\ pc'["W"] \in WorkerPlaces /\ pc'["G"] \in GuiPlaces
    BY <1>3, ThreadsMove DEF AppendFrame, Onward, WorkerPlaces, GuiPlaces
  <2>2. queue' \in Seq(Nat) /\ Len(queue') <= QueueSize
    BY <1>3, QueueAssumption DEF AppendFrame
  <2>3. hand' \in [Thread -> Nat] /\ slot' \in {"next", "prev"}
    BY <1>3 DEF AppendFrame, NextSlot, None
  <2> QED  BY <1>0, <1>3, <2>1, <2>2, <2>3 DEF AppendFrame, Rest
<1> QED  BY <1>1, <1>2, <1>3 DEF _storeData

LEMMA WorkerType == ASSUME TypeOK, run, pc["W"] = "drop" => queue # <<>>
                    PROVE  TypeOK'
<1> USE DEF TypeOK, flags, sourceVars, saveVars, reads
<1>1. ASSUME NEW place \in WorkerPlaces, At("W", place),
             UNCHANGED <<hand, slot, n, raced>>, lock' \in Thread \cup {"free"},
             UNCHANGED <<flags, sourceVars, queue, data, saveVars, popped,
                         hasty, ticked>>,
             overlapped' \in BOOLEAN
      PROVE  TypeOK'
  <2>1. /\ pc' \in [Thread -> WorkerPlaces \cup GuiPlaces]
        /\ pc'["W"] \in WorkerPlaces /\ pc'["G"] \in GuiPlaces
    BY <1>1, ThreadsMove DEF Thread
  <2> QED  BY <1>1, <2>1
<1>2. CASE _storeData("W")
  BY <1>2, StoreType DEF Thread
<1>3. CASE ~_storeData("W")
  <2>0. UNCHANGED <<flags, sourceVars, queue, data, saveVars, popped, hasty,
                    ticked>>
    BY <1>3 DEF run
  <2>1. CASE PassPause
    BY <1>1, <2>0, <2>1 DEF PassPause, WorkerPlaces
  <2>2. CASE LeaveLoop
    BY <1>1, <2>0, <2>2 DEF LeaveLoop, WorkerPlaces
  <2>3. CASE Enter
    BY <1>1, <2>0, <2>3 DEF Enter, WorkerPlaces, Thread
  <2>4. CASE Leave
    <3>1. Return("W") /\ lock' \in Thread \cup {"free"}
      BY <2>4 DEF Leave
    <3>2. /\ pc' \in [Thread -> WorkerPlaces \cup GuiPlaces]
          /\ pc'["W"] \in WorkerPlaces /\ pc'["G"] \in GuiPlaces
          /\ hand' \in [Thread -> Nat] /\ slot' \in {"next", "prev"}
          /\ n' \in Nat /\ overlapped' \in BOOLEAN /\ raced' \subseteq Nat
      BY <3>1, ReturnType DEF Thread
    <3> QED  BY <2>0, <3>1, <3>2
  <2>5. CASE NextRaises
    BY <1>1, <2>0, <2>5 DEF NextRaises, WorkerPlaces, Thread
  <2> QED  BY <1>3, <2>1, <2>2, <2>3, <2>4, <2>5 DEF run
<1> QED  BY <1>2, <1>3

LEMMA EnqueueType == ASSUME TypeOK, NEW count \in 0 .. Interval, enqueue(count)
                     PROVE  saveQueue' \in Nat /\ counter' \in 0 .. Interval
<1>1. saveQueue' \in Nat
  BY DEF TypeOK, enqueue, Put
<1>2. CASE count = Interval
  <2>1. count % Interval = 0
    BY <1>2, IntervalAssumption
  <2> QED  BY <1>1, <2>1, IntervalAssumption DEF enqueue
<1>3. CASE count # Interval
  BY <1>1, <1>3, IntervalAssumption DEF enqueue
<1> QED  BY <1>2, <1>3

LEMMA ComputeType == ASSUME TypeOK, compute, pc["G"] = "pop" => queue # <<>>
                     PROVE  TypeOK'
<1> USE DEF TypeOK, flags, sourceVars, saveVars, reads
<1>1. ASSUME NEW place \in GuiPlaces, At("G", place)
      PROVE  /\ pc' \in [Thread -> WorkerPlaces \cup GuiPlaces]
             /\ pc'["W"] \in WorkerPlaces /\ pc'["G"] \in GuiPlaces
  BY <1>1, ThreadsMove DEF Thread
<1>2. CASE ComputeBegins
  BY <1>1, <1>2 DEF compute, ComputeBegins, GuiPlaces
<1>3. CASE ComputePops
  <2>1. /\ Head(queue) \in Nat /\ Tail(queue) \in Seq(Nat)
        /\ Len(Tail(queue)) <= QueueSize
    BY <1>3, QueueAssumption DEF ComputePops
  <2> QED  BY <1>1, <1>3, <2>1 DEF compute, ComputePops, GuiPlaces
<1>4. CASE ComputeEmits
  <2>1. /\ pc' \in [Thread -> WorkerPlaces \cup GuiPlaces]
        /\ pc'["W"] \in WorkerPlaces /\ pc'["G"] \in GuiPlaces
    BY <1>1, <1>4 DEF ComputeEmits, GuiPlaces
  <2>2. saveQueue' \in Nat /\ counter' \in 0 .. Interval
    BY <1>4, EnqueueType DEF ComputeEmits
  <2> QED  BY <1>4, <2>1, <2>2 DEF compute, ComputeEmits
<1> QED  BY <1>2, <1>3, <1>4 DEF compute

LEMMA GuiMoves == ASSUME TypeOK, NEW place \in GuiPlaces, At("G", place)
    PROVE  /\ pc' \in [Thread -> WorkerPlaces \cup GuiPlaces]
           /\ pc'["W"] = pc["W"] /\ pc'["G"] = place
           /\ pc'["W"] \in WorkerPlaces /\ pc'["G"] \in GuiPlaces
BY ThreadsMove DEF Thread

LEMMA ClickType == ASSUME TypeOK, Click \/ Handler,
                          UNCHANGED <<queue, data, popped, ticked>>
                   PROVE  TypeOK'
<1> USE DEF TypeOK, flags, sourceVars, saveVars, reads
<1>1. CASE StartPause
  BY <1>1 DEF StartPause
<1>2. CASE Next_clicked
  BY <1>2, GuiMoves DEF Next_clicked, GuiPlaces
<1>3. CASE SaveClicked
  <2>1. saveQueue' \in Nat /\ counter' \in 0 .. Interval
    <3>1. 0 \in 0 .. Interval
      BY IntervalAssumption
    <3> QED  BY <1>3, <3>1, EnqueueType DEF SaveClicked
  <2> QED  BY <1>3, <2>1 DEF SaveClicked
<1>4. CASE LoadClicked
  <2>1. /\ pc' \in [Thread -> WorkerPlaces \cup GuiPlaces]
        /\ pc'["W"] \in WorkerPlaces /\ pc'["G"] \in GuiPlaces
    BY <1>4, GuiMoves DEF LoadClicked, GuiPlaces
  <2>2. saving' \in BOOLEAN /\ target' \in {"serial", "null", "file", "empty"}
    BY <1>4 DEF LoadClicked
  <2> QED  BY <1>4, <2>1, <2>2 DEF LoadClicked
<1>5. CASE CloseClicked
  <2>1. /\ pc' \in [Thread -> WorkerPlaces \cup GuiPlaces]
        /\ pc'["W"] \in WorkerPlaces /\ pc'["G"] \in GuiPlaces
    BY <1>5, GuiMoves DEF CloseClicked, GuiPlaces
  <2>2. running' \in BOOLEAN
    BY <1>5 DEF CloseClicked
  <2> QED  BY <1>5, <2>1, <2>2 DEF CloseClicked
<1>6. CASE Abort
  <2>1. /\ pc' \in [Thread -> WorkerPlaces \cup GuiPlaces]
        /\ pc'["W"] \in WorkerPlaces /\ pc'["G"] \in GuiPlaces
    BY <1>6 DEF Abort, Thread, WorkerPlaces, GuiPlaces
  <2>2. spc' = "ended" /\ lock' \in Thread \cup {"free"} /\ started' \in BOOLEAN
    BY <1>6 DEF Abort
  <2> QED  BY <1>6, <2>1, <2>2 DEF Abort
<1>7. CASE TakeSource
  BY <1>7, GuiMoves DEF TakeSource, GuiPlaces
<1>8. CASE SourceReturns
  <2>1. /\ pc' \in [Thread -> WorkerPlaces \cup GuiPlaces]
        /\ pc'["W"] \in WorkerPlaces /\ pc'["G"] \in GuiPlaces
        /\ hand' \in [Thread -> Nat] /\ slot' \in {"next", "prev"}
        /\ n' \in Nat /\ overlapped' \in BOOLEAN /\ raced' \subseteq Nat
    BY <1>8, ReturnType DEF SourceReturns, Thread
  <2> QED  BY <1>8, <2>1 DEF SourceReturns
<1>9. CASE LoadBegins
  <2>1. /\ pc' \in [Thread -> WorkerPlaces \cup GuiPlaces]
        /\ pc'["W"] \in WorkerPlaces /\ pc'["G"] \in GuiPlaces
    BY <1>9, GuiMoves DEF LoadBegins, GuiPlaces
  <2>2. started' \in BOOLEAN /\ lock' \in Thread \cup {"free"}
    BY <1>9 DEF LoadBegins, Thread
  <2> QED  BY <1>9, <2>1, <2>2 DEF LoadBegins
<1>10. CASE LoadEnds
  BY <1>10, GuiMoves DEF LoadEnds, GuiPlaces, Thread
<1>11. CASE BootFails
  BY <1>11, GuiMoves DEF BootFails, GuiPlaces
<1>12. CASE JoinWorker
  BY <1>12, GuiMoves DEF JoinWorker, GuiPlaces
<1>13. CASE CloseSource
  <2>1. /\ pc' \in [Thread -> WorkerPlaces \cup GuiPlaces]
        /\ pc'["W"] \in WorkerPlaces /\ pc'["G"] \in GuiPlaces
    BY <1>13, GuiMoves DEF CloseSource, GuiPlaces
  <2>2. started' \in BOOLEAN /\ stopping' \in BOOLEAN
    BY <1>13 DEF CloseSource
  <2> QED  BY <1>13, <2>1, <2>2 DEF CloseSource
<1>14. CASE JoinSaver
  BY <1>14, GuiMoves DEF JoinSaver, GuiPlaces
<1> QED
  BY <1>1, <1>2, <1>3, <1>4, <1>5, <1>6, <1>7, <1>8, <1>9, <1>10, <1>11, <1>12, <1>13, <1>14 DEF Click, Handler

LEMMA TypeStep == ASSUME TypeOK, [Next]_vars,
                         \A t \in Thread : pc[t] = "drop" => queue # <<>>,
                         pc["G"] = "pop" => queue # <<>>
                  PROVE  TypeOK'
<1>1. CASE run
  BY <1>1, WorkerType DEF Thread
<1>2. CASE EventLoop
  BY <1>2, ClickType, ComputeType, StoreType DEF EventLoop, Thread
<1>3. CASE Saver
  <2>1. spc' \in {"get", "write", "ended", "failed"} /\ saveQueue' \in Nat
    <3>1. CASE Get
      BY <3>1 DEF Get, TypeOK
    <3>2. CASE GetTimesOut
      BY <3>2 DEF GetTimesOut, TypeOK
    <3>3. CASE Written
      BY <3>3 DEF Written, TypeOK
    <3>4. CASE WriteFails
      BY <3>4 DEF WriteFails, TypeOK
    <3> QED  BY <1>3, <3>1, <3>2, <3>3, <3>4 DEF Saver
  <2> QED  BY <1>3, <2>1 DEF Saver, TypeOK, flags, sourceVars, reads
<1>4. CASE UNCHANGED vars
  BY <1>4 DEF vars, TypeOK, flags, sourceVars, saveVars, reads
<1> QED  BY <1>1, <1>2, <1>3, <1>4 DEF Next, Exited

-----------------------------------------------------------------------------
(* Who holds the lock, and when the source is started                      *)

Control == Locked /\ Sourced /\ Paused

LEMMA GuiStores == ASSUME TypeOK, Control, NEW t \in Thread, _storeData(t)
                   PROVE  Control'
<1> USE DEF TypeOK, Control, Locked, Sourced, Paused, Unstarted, Nexting, flags,
            sourceVars, Onward, At, Thread
<1>1. UNCHANGED <<lock, started, paused, running, hasty>>
  BY DEF _storeData
<1>2. CASE Store(t)
  BY <1>1, <1>2 DEF Store
<1>3. CASE Drop(t)
  BY <1>1, <1>3 DEF Drop
<1>4. CASE AppendFrame(t)
  BY <1>1, <1>4 DEF AppendFrame
<1> QED  BY <1>2, <1>3, <1>4 DEF _storeData

LEMMA WorkerControl == ASSUME TypeOK, Control, run PROVE Control'
<1> USE DEF TypeOK, Control, Locked, Sourced, Paused, Unstarted, Nexting, flags,
            sourceVars, At, Thread
<1>1. CASE _storeData("W")
  BY <1>1, GuiStores
<1>2. CASE ~_storeData("W")
  <2>0. UNCHANGED <<started, paused, running, hasty>>
    BY <1>2 DEF run
  <2>1. CASE PassPause
    BY <2>0, <2>1 DEF PassPause
  <2>2. CASE LeaveLoop
    BY <2>0, <2>2 DEF LeaveLoop
  <2>3. CASE Enter
    BY <2>0, <2>3 DEF Enter
  <2>4. CASE Leave
    BY <2>0, <2>4 DEF Leave, Return, Onward
  <2>5. CASE NextRaises
    BY <2>0, <2>5 DEF NextRaises
  <2> QED  BY <1>2, <2>1, <2>2, <2>3, <2>4, <2>5 DEF run
<1> QED  BY <1>1, <1>2

LEMMA GuiControl == ASSUME TypeOK, Control, Click \/ Handler PROVE Control'
<1> USE DEF TypeOK, Control, Locked, Sourced, Paused, Unstarted, Nexting, flags,
            sourceVars, At, Thread, WorkerPlaces, GuiPlaces
<1>1. CASE StartPause
  BY <1>1 DEF StartPause
<1>2. CASE Next_clicked
  BY <1>2 DEF Next_clicked
<1>3. CASE SaveClicked
  BY <1>3 DEF SaveClicked
<1>4. CASE LoadClicked
  BY <1>4 DEF LoadClicked
<1>5. CASE CloseClicked
  BY <1>5 DEF CloseClicked
<1>6. CASE Abort
  BY <1>6 DEF Abort
<1>7. CASE TakeSource
  BY <1>7 DEF TakeSource
<1>8. CASE SourceReturns
  BY <1>8 DEF SourceReturns, Return, Onward
<1>9. CASE LoadBegins
  BY <1>9 DEF LoadBegins
<1>10. CASE LoadEnds
  BY <1>10 DEF LoadEnds
<1>11. CASE BootFails
  BY <1>11 DEF BootFails
<1>12. CASE JoinWorker
  BY <1>12 DEF JoinWorker
<1>13. CASE CloseSource
  BY <1>13 DEF CloseSource
<1>14. CASE JoinSaver
  BY <1>14 DEF JoinSaver
<1> QED
  BY <1>1, <1>2, <1>3, <1>4, <1>5, <1>6, <1>7, <1>8, <1>9, <1>10, <1>11, <1>12, <1>13, <1>14 DEF Click, Handler

LEMMA ControlStep == ASSUME TypeOK, Control, [Next]_vars PROVE Control'
<1> USE DEF Control, Locked, Sourced, Paused
<1>1. CASE run
  BY <1>1, WorkerControl
<1>2. CASE EventLoop
  <2>1. CASE compute
    BY <1>2, <2>1 DEF compute, ComputeBegins, ComputePops, ComputeEmits, At, TypeOK,
          Thread, Unstarted, Nexting, flags, sourceVars
  <2> QED  BY <1>2, <2>1, GuiControl, GuiStores DEF EventLoop, Thread
<1>3. CASE Saver
  BY <1>3 DEF Saver, flags, sourceVars
<1>4. CASE UNCHANGED vars
  BY <1>4 DEF vars, flags, sourceVars
<1> QED  BY <1>1, <1>2, <1>3, <1>4 DEF Next, Exited

-----------------------------------------------------------------------------
(* Source calls that overlap                                               *)

LEMMA ReturnLapped == ASSUME TypeOK, NEW t \in Thread, Return(t) PROVE Lapped'
<1>1. PICK place : At(t, place)
  BY DEF Return
<1>2. pc'[Other(t)] = pc[Other(t)] /\ t # Other(t) /\ Other(Other(t)) = t
  BY <1>1 DEF At, TypeOK, Thread, Other
<1>3. overlapped' = (pc[Other(t)] = "read")
  BY DEF Return
<1>4. Storing(t)' => hand'[t] = n'
  <2>1. PICK frame \in Returns :
            /\ hand' = [hand EXCEPT ![t] = frame]
            /\ n' = IF frame = None THEN n ELSE frame
            /\ At(t, IF frame = None THEN Onward(t) ELSE "store")
    BY DEF Return
  <2> QED  BY <2>1 DEF At, Onward, Storing, TypeOK
<1>5. ASSUME overlapped', NEW u \in Thread, Storing(u)'
      PROVE  pc'[Other(u)] = "read" /\ hand'[u] = n'
  <2>1. pc'[Other(t)] = "read"
    BY <1>2, <1>3, <1>5
  <2>2. ~Storing(Other(t))'
    BY <2>1 DEF Storing
  <2>3. u = t
    BY <1>5, <2>2 DEF Thread, Other
  <2> QED  BY <1>4, <1>5, <2>1, <2>3
<1> QED  BY <1>5 DEF Lapped

LEMMA LappedStep == ASSUME TypeOK, Lapped, [Next]_vars PROVE Lapped'
<1> USE DEF Lapped, Storing, At, Thread, Other, reads
<1>1. CASE Return("W") \/ Return("G")
  BY <1>1, ReturnLapped
<1>2. CASE \E t \in Thread : _storeData(t)
  BY <1>2 DEF _storeData, Store, Drop, AppendFrame, Onward, TypeOK
<1>3. CASE run /\ ~Leave /\ ~_storeData("W")
  BY <1>3 DEF run, PassPause, LeaveLoop, Enter, NextRaises, TypeOK
<1>4. CASE compute
  BY <1>4 DEF compute, ComputeBegins, ComputePops, ComputeEmits, TypeOK
<1>5. CASE Click \/ (Handler /\ ~SourceReturns)
  <2>1. UNCHANGED <<overlapped, hand, n>>
    BY <1>5 DEF Click, Handler, StartPause, Next_clicked, SaveClicked, LoadClicked,
       CloseClicked, Abort, TakeSource, LoadBegins, LoadEnds, BootFails, JoinWorker,
       CloseSource, JoinSaver
  <2>2. CASE Abort
    BY <2>1, <2>2 DEF Abort
  <2>3. CASE StartPause \/ SaveClicked
    BY <2>1, <2>3 DEF StartPause, SaveClicked
  <2>4. CASE ~Abort /\ ~StartPause /\ ~SaveClicked
    <3>1. pc["G"] # "read" /\ ~Storing("G")
      BY <1>5, <2>4 DEF Click, Handler, Next_clicked, LoadClicked, CloseClicked,
         TakeSource, LoadBegins, LoadEnds, BootFails, JoinWorker, CloseSource, JoinSaver
    <3>2. PICK place : At("G", place) /\ place \notin {"store", "drop", "append"}
      BY <1>5, <2>4 DEF Click, Handler, Next_clicked, LoadClicked, CloseClicked,
         TakeSource, LoadBegins, LoadEnds, BootFails, JoinWorker, CloseSource, JoinSaver
    <3>3. pc'["W"] = pc["W"] /\ pc'["G"] = place
      BY <3>2 DEF TypeOK
    <3> HIDE DEF At
    <3> QED  BY <2>1, <3>1, <3>2, <3>3
  <2> QED  BY <2>2, <2>3, <2>4
<1>6. CASE Saver \/ UNCHANGED vars
  BY <1>6 DEF Saver, vars
<1> QED
  BY <1>1, <1>2, <1>3, <1>4, <1>5, <1>6 DEF Next, run, Leave, EventLoop, Handler,
     SourceReturns, Exited

-----------------------------------------------------------------------------
(* How full the queue is when a thread takes a frame from it               *)

LEMMA StoreFilled == ASSUME TypeOK, Lapped, Filled, NEW t \in Thread,
                            _storeData(t)
                     PROVE  Filled'
<1> USE QueueAssumption DEF Lapped, Filled, Storing, Thread, Other
<1>0. overlapped' = overlapped /\ Len(queue) \in Nat
  BY DEF _storeData, reads, TypeOK
<1>1. CASE Store(t)
  <2>1. /\ UNCHANGED <<queue, ticked>> /\ pc[t] = "store"
        /\ pc'[t] = IF Len(queue) >= QueueSize THEN "drop" ELSE "append"
        /\ \A u \in Thread : u # t => pc'[u] = pc[u]
    BY <1>1 DEF Store, At, TypeOK
  <2>2. CASE t = "W"
    BY <1>0, <2>1, <2>2
  <2>3. CASE t = "G"
    BY <1>0, <2>1, <2>3
  <2> QED  BY <2>2, <2>3
<1>2. CASE Drop(t)
  <2>1. Len(queue) >= 1 /\ Len(queue') = Len(queue) - 1
    BY <1>2 DEF Drop, TypeOK
  <2>2. /\ pc[t] = "drop" /\ pc'[t] = "append"
        /\ ticked' => ticked /\ t = "G"
        /\ t = "G" => ticked' = ticked
        /\ \A u \in Thread : u # t => pc'[u] = pc[u]
    BY <1>2 DEF Drop, At, TypeOK
  <2>3. CASE t = "W"
    BY <1>0, <2>1, <2>2, <2>3
  <2>4. CASE t = "G"
    BY <1>0, <2>1, <2>2, <2>4
  <2> QED  BY <2>3, <2>4
<1>3. CASE AppendFrame(t)
  <2>1. Len(queue') >= 1 /\ Len(queue') >= Len(queue)
    BY <1>3 DEF AppendFrame, TypeOK
  <2>2. /\ pc[t] = "append" /\ pc'[t] = Onward(t) /\ ticked' = ticked
        /\ \A u \in Thread : u # t => pc'[u] = pc[u]
    BY <1>3 DEF AppendFrame, At, TypeOK
  <2>3. Len(queue') \in Nat
    BY <1>3 DEF AppendFrame, TypeOK
  <2>4. CASE t = "W"
    BY <1>0, <2>1, <2>2, <2>3, <2>4 DEF Onward
  <2>5. CASE t = "G"
    BY <1>0, <2>1, <2>2, <2>3, <2>5 DEF Onward
  <2> QED  BY <2>4, <2>5
<1> QED  BY <1>1, <1>2, <1>3 DEF _storeData

LEMMA ComputeFilled == ASSUME TypeOK, Lapped, Filled, compute PROVE Filled'
<1> USE QueueAssumption DEF Lapped, Filled, Storing, Thread, Other
<1>0. overlapped' = overlapped /\ Len(queue) \in Nat
  BY DEF compute, reads, TypeOK
<1>1. CASE ComputeBegins
  <2>1. /\ pc["G"] = "idle" /\ ~(pc["W"] = "drop" /\ ticked)
        /\ ticked' = (pc["W"] = "drop") /\ queue' = queue /\ Len(queue) >= 1
        /\ pc'["W"] = pc["W"] /\ pc'["G"] = "pop"
    BY <1>1 DEF ComputeBegins, At, TypeOK
  <2>2. ~ticked
    BY <2>1
  <2>3. pc["W"] = "drop" => Len(queue) >= QueueSize - 1 /\ ~overlapped
    BY <2>1, <2>2
  <2> QED  BY <1>0, <2>1, <2>2, <2>3
<1>2. CASE ComputePops
  <2>1. Len(queue) >= 1 /\ Len(queue') = Len(queue) - 1
    BY <1>2 DEF ComputePops, TypeOK
  <2>2. /\ pc["G"] = "pop" /\ ticked' = ticked
        /\ pc'["W"] = pc["W"] /\ pc'["G"] = "emit"
    BY <1>2 DEF ComputePops, At, TypeOK
  <2> QED  BY <1>0, <2>1, <2>2
<1>3. CASE ComputeEmits
  <2>1. /\ pc["G"] = "emit" /\ UNCHANGED <<queue, ticked>>
        /\ pc'["W"] = pc["W"] /\ pc'["G"] = "idle"
    BY <1>3 DEF ComputeEmits, At, TypeOK
  <2> QED  BY <1>0, <2>1
<1> QED  BY <1>1, <1>2, <1>3 DEF compute

LEMMA ClickFilled == ASSUME TypeOK, Lapped, Filled, Click \/ Handler,
                            UNCHANGED <<queue, ticked>>
                     PROVE  Filled'
<1> USE QueueAssumption DEF TypeOK, Lapped, Filled, Storing, At, Thread, Onward,
                            Other, reads
<1>1. CASE StartPause
  BY <1>1 DEF StartPause
<1>2. CASE Next_clicked
  BY <1>2 DEF Next_clicked
<1>3. CASE SaveClicked
  BY <1>3 DEF SaveClicked
<1>4. CASE LoadClicked
  BY <1>4 DEF LoadClicked
<1>5. CASE CloseClicked
  BY <1>5 DEF CloseClicked
<1>6. CASE Abort
  BY <1>6 DEF Abort
<1>7. CASE TakeSource
  BY <1>7 DEF TakeSource
<1>8. CASE SourceReturns
  BY <1>8 DEF SourceReturns, Return
<1>9. CASE LoadBegins
  BY <1>9 DEF LoadBegins
<1>10. CASE LoadEnds
  BY <1>10 DEF LoadEnds
<1>11. CASE BootFails
  BY <1>11 DEF BootFails
<1>12. CASE JoinWorker
  BY <1>12 DEF JoinWorker
<1>13. CASE CloseSource
  BY <1>13 DEF CloseSource
<1>14. CASE JoinSaver
  BY <1>14 DEF JoinSaver
<1> QED
  BY <1>1, <1>2, <1>3, <1>4, <1>5, <1>6, <1>7, <1>8, <1>9, <1>10, <1>11, <1>12, <1>13, <1>14 DEF Click, Handler

LEMMA FilledStep == ASSUME TypeOK, Lapped, Filled, [Next]_vars PROVE Filled'
<1>1. CASE run
  <2> USE DEF TypeOK, Lapped, Filled, Storing, At, Thread, Onward, Other, reads
  <2>1. CASE ~_storeData("W")
    <3>0. UNCHANGED <<queue, ticked>>
      BY <1>1, <2>1 DEF run
    <3>1. CASE PassPause
      BY <3>0, <3>1 DEF PassPause
    <3>2. CASE LeaveLoop
      BY <3>0, <3>2 DEF LeaveLoop
    <3>3. CASE Enter
      BY <3>0, <3>3 DEF Enter
    <3>4. CASE Leave
      BY <3>0, <3>4 DEF Leave, Return
    <3>5. CASE NextRaises
      BY <3>0, <3>5 DEF NextRaises
    <3> QED  BY <1>1, <2>1, <3>1, <3>2, <3>3, <3>4, <3>5 DEF run
  <2> QED  BY <2>1, StoreFilled
<1>2. CASE EventLoop
  BY <1>2, ClickFilled, ComputeFilled, StoreFilled DEF EventLoop, Thread
<1>3. CASE Saver
  BY <1>3 DEF Saver, Filled, reads
<1>4. CASE UNCHANGED vars
  BY <1>4 DEF vars, Filled, reads
<1> QED  BY <1>1, <1>2, <1>3, <1>4 DEF Next, Exited

-----------------------------------------------------------------------------
(* The order of the frames                                                 *)

LEMMA LinedTail == ASSUME NEW q \in Seq(Nat), q # <<>>, NEW low \in Nat,
                          NEW high \in Nat, Lined(q, low, high)
    PROVE  /\ Lined(Tail(q), Head(q), high) /\ Lined(Tail(q), low, high)
           /\ Head(q) <= high
           /\ \A i \in 1 .. Len(Tail(q)) : \E j \in 1 .. Len(q) : Tail(q)[i] = q[j]
<1>1. Len(Tail(q)) = Len(q) - 1 /\ Len(q) \in Nat \ {0} /\ Tail(q) \in Seq(Nat)
  OBVIOUS
<1>2. \A i \in 1 .. Len(Tail(q)) :
          Tail(q)[i] = q[i + 1] /\ i + 1 \in 1 .. Len(q) /\ 1 < i + 1
  BY <1>1
<1>3. Head(q) = q[1] /\ 1 \in 1 .. Len(q)
  BY <1>1
<1>4. \A i \in 1 .. Len(Tail(q)) : /\ MayPrecede(Head(q), Tail(q)[i])
                                   /\ MayPrecede(low, Tail(q)[i])
                                   /\ Tail(q)[i] <= high
  BY <1>2, <1>3 DEF Lined
<1>5. \A i, j \in 1 .. Len(Tail(q)) : i < j => MayPrecede(Tail(q)[i], Tail(q)[j])
  <2> SUFFICES ASSUME NEW i \in 1 .. Len(Tail(q)), NEW j \in 1 .. Len(Tail(q)), i < j
               PROVE  MayPrecede(q[i + 1], q[j + 1])
    BY <1>2
  <2>1. i + 1 < j + 1
    BY <1>1
  <2> QED  BY <1>2, <2>1 DEF Lined
<1> QED  BY <1>2, <1>3, <1>4, <1>5 DEF Lined

LEMMA LinedAppend == ASSUME NEW q \in Seq(Nat), NEW low \in Nat, NEW high \in Nat,
                            NEW f \in Nat, MayPrecede(low, f), f <= high,
                            Lined(q, low, high),
                            \A i \in 1 .. Len(q) : MayPrecede(q[i], f)
                     PROVE  Lined(Append(q, f), low, high)
<1> DEFINE a == Append(q, f)
<1>1. Len(a) = Len(q) + 1 /\ Len(q) \in Nat
  OBVIOUS
<1>2. \A i \in 1 .. Len(a) : a[i] = IF i = Len(a) THEN f ELSE q[i]
  BY <1>1
<1> HIDE DEF a
<1>3. \A i \in 1 .. Len(a) : i # Len(a) => i \in 1 .. Len(q)
  BY <1>1
<1>4. \A i \in 1 .. Len(a) : MayPrecede(low, a[i]) /\ a[i] <= high
  BY <1>2, <1>3 DEF Lined
<1>5. \A i, j \in 1 .. Len(a) : i < j => MayPrecede(a[i], a[j])
  <2> SUFFICES ASSUME NEW i \in 1 .. Len(a), NEW j \in 1 .. Len(a), i < j
               PROVE  MayPrecede(a[i], a[j])
    OBVIOUS
  <2>1. i # Len(a)
    BY <1>1
  <2>2. i \in 1 .. Len(q) /\ a[i] = q[i]
    BY <1>2, <1>3, <2>1
  <2>3. CASE j = Len(a)
    BY <1>2, <2>2, <2>3
  <2>4. CASE j # Len(a)
    BY <1>2, <1>3, <2>2, <2>4 DEF Lined
  <2> QED  BY <2>3, <2>4
<1>6. Lined(a, low, high)
  BY <1>4, <1>5 DEF Lined
<1> QED  BY <1>6 DEF a

LEMMA OrderedNext == ASSUME raced' = raced, popped' <= n',
                            Lined(queue', popped', n'),
                            \A t \in Thread : Storing(t)' =>
                                /\ MayPrecede(popped', hand'[t]) /\ hand'[t] <= n'
                                /\ \A i \in 1 .. Len(queue') :
                                      MayPrecede(queue'[i], hand'[t])
                                /\ Storing(Other(t))' =>
                                      MayPrecede(hand'[t], hand'[Other(t)]),
                            pc'["G"] = "emit" =>
                                data' = popped' \/ MayPrecede(popped', data')
                     PROVE  Ordered'
BY DEF Ordered, Lined, MayPrecede, Other

LEMMA StoreOrdered == ASSUME TypeOK, Filled, Ordered, NEW t \in Thread,
                             _storeData(t)
                      PROVE  Ordered'
<1>0. n' = n /\ raced' = raced /\ popped' = popped /\ Storing(t)
      /\ Other(t) \in Thread /\ Other(t) # t /\ Other(Other(t)) = t
  BY DEF _storeData, Store, Drop, AppendFrame, Storing, Other, Thread, reads
<1>1. n \in Nat /\ popped \in Nat /\ queue \in Seq(Nat) /\ data \in Nat
      /\ \A u \in Thread : hand[u] \in Nat
  BY DEF TypeOK
<1>2. /\ MayPrecede(popped, hand[t]) /\ hand[t] <= n
      /\ \A i \in 1 .. Len(queue) : MayPrecede(queue[i], hand[t])
      /\ Lined(queue, popped, n) /\ popped <= n
  BY <1>0 DEF Ordered
<1>3. \A u \in Thread : u # t => Storing(u)' = Storing(u) /\ hand'[u] = hand[u]
  BY <1>0 DEF _storeData, Store, Drop, AppendFrame, Storing, At, TypeOK, Thread
<1>4. pc'["G"] = "emit" => pc["G"] = "emit"
  BY DEF _storeData, Store, Drop, AppendFrame, At, Onward, TypeOK, Thread
<1>5. data' \in {data, hand[t]}
  BY DEF _storeData, Store, Drop, AppendFrame
<1>6. pc'["G"] = "emit" => data' = popped' \/ MayPrecede(popped', data')
  BY <1>0, <1>2, <1>4, <1>5 DEF Ordered
<1>7. ASSUME Lined(queue', popped, n),
             \A u \in Thread : Storing(u)' =>
                 /\ hand'[u] = hand[u] /\ Storing(u)
                 /\ \A i \in 1 .. Len(queue') : MayPrecede(queue'[i], hand[u])
      PROVE  Ordered'
  <2>1. Lined(queue', popped', n')
    BY <1>0, <1>7
  <2>2. ASSUME NEW u \in Thread, Storing(u)'
        PROVE  /\ MayPrecede(popped', hand'[u]) /\ hand'[u] <= n'
               /\ \A i \in 1 .. Len(queue') : MayPrecede(queue'[i], hand'[u])
               /\ Storing(Other(u))' => MayPrecede(hand'[u], hand'[Other(u)])
    <3>1. Storing(u) /\ hand'[u] = hand[u] /\ Other(u) \in Thread
          /\ \A i \in 1 .. Len(queue') : MayPrecede(queue'[i], hand[u])
      BY <1>7, <2>2 DEF Thread, Other
    <3>2. Storing(Other(u))' => Storing(Other(u)) /\ hand'[Other(u)] = hand[Other(u)]
      BY <1>7, <3>1
    <3> QED  BY <1>0, <3>1, <3>2 DEF Ordered
  <2> QED  BY <1>0, <1>2, <1>6, <2>1, <2>2, OrderedNext
<1>8. CASE Store(t)
  <2>1. queue' = queue /\ hand' = hand
    BY <1>8 DEF Store
  <2>2. \A u \in Thread : Storing(u)' => Storing(u)
    BY <1>0, <1>3
  <2> QED  BY <1>2, <1>7, <2>1, <2>2 DEF Ordered
<1>9. CASE Drop(t)
  <2>1. queue # <<>>
    BY <1>9, QueueAssumption DEF Drop, Filled, TypeOK, Thread
  <2>2. queue' = Tail(queue) /\ hand' = hand
    BY <1>9 DEF Drop
  <2>3. Lined(queue', popped, n)
        /\ \A i \in 1 .. Len(queue') : \E j \in 1 .. Len(queue) : queue'[i] = queue[j]
    BY <1>1, <1>2, <2>1, <2>2, LinedTail
  <2>4. \A u \in Thread : Storing(u)' => Storing(u)
    BY <1>0, <1>3
  <2> QED  BY <1>7, <2>2, <2>3, <2>4 DEF Ordered
<1>10. CASE AppendFrame(t)
  <2> DEFINE q == IF Len(queue) = QueueSize THEN Tail(queue) ELSE queue
  <2>1. Lined(q, popped, n) /\ q \in Seq(Nat)
        /\ \A i \in 1 .. Len(q) : \E j \in 1 .. Len(queue) : q[i] = queue[j]
    <3>1. CASE Len(queue) = QueueSize
      <4>1. queue # <<>>
        BY <3>1, QueueAssumption
      <4> QED  BY <1>1, <1>2, <3>1, <4>1, LinedTail
    <3>2. CASE Len(queue) # QueueSize
      BY <1>1, <1>2, <3>2
    <3> QED  BY <3>1, <3>2
  <2>2. queue' = Append(q, hand[t]) /\ hand' = [hand EXCEPT ![t] = None]
        /\ At(t, Onward(t))
    BY <1>10 DEF AppendFrame
  <2> HIDE DEF q
  <2>3. \A i \in 1 .. Len(q) : MayPrecede(q[i], hand[t])
    BY <1>2, <2>1
  <2>4. Lined(queue', popped, n)
    BY <1>1, <1>2, <2>1, <2>2, <2>3, LinedAppend
  <2>5. ASSUME NEW u \in Thread, Storing(u)'
        PROVE  /\ hand'[u] = hand[u] /\ Storing(u)
               /\ \A i \in 1 .. Len(queue') : MayPrecede(queue'[i], hand[u])
    <3>1. u # t
      BY <2>2, <2>5 DEF At, Onward, TypeOK, Storing
    <3>2. u = Other(t) /\ Storing(u) /\ hand'[u] = hand[u]
      BY <1>3, <2>5, <3>1 DEF Thread, Other
    <3>3. MayPrecede(hand[t], hand[u])
          /\ \A i \in 1 .. Len(queue) : MayPrecede(queue[i], hand[u])
      BY <1>0, <3>2 DEF Ordered
    <3>4. \A i \in 1 .. Len(queue') :
              queue'[i] = hand[t] \/ (i \in 1 .. Len(q) /\ queue'[i] = q[i])
      BY <1>1, <2>1, <2>2
    <3> QED  BY <2>1, <3>2, <3>3, <3>4
  <2> QED  BY <1>7, <2>4, <2>5
<1> QED  BY <1>8, <1>9, <1>10 DEF _storeData

LEMMA ComputeOrdered == ASSUME TypeOK, Filled, Ordered, compute PROVE Ordered'
<1>1. n' = n /\ raced' = raced /\ hand' = hand
      /\ \A t \in Thread : Storing(t)' = Storing(t) /\ Other(t) \in Thread
  BY DEF compute, ComputeBegins, ComputePops, ComputeEmits, At, TypeOK, Storing,
         Thread, Other, reads
<1>2. CASE ComputePops
  <2>1. queue # <<>>
    BY <1>2, QueueAssumption DEF ComputePops, Filled, TypeOK
  <2>2. n \in Nat /\ popped \in Nat /\ queue \in Seq(Nat) /\ hand \in [Thread -> Nat]
        /\ Lined(queue, popped, n)
    BY DEF TypeOK, Ordered
  <2>3. /\ queue' = Tail(queue) /\ popped' = Head(queue) /\ data' = Head(queue)
    BY <1>2 DEF ComputePops
  <2>4. /\ Lined(queue', popped', n) /\ popped' <= n
        /\ \A i \in 1 .. Len(queue') : \E j \in 1 .. Len(queue) : queue'[i] = queue[j]
    BY <2>1, <2>2, <2>3, LinedTail
  <2>5. popped' = queue[1] /\ 1 \in 1 .. Len(queue)
    BY <2>1, <2>2, <2>3
  <2>6. ASSUME NEW t \in Thread, Storing(t)
        PROVE  /\ MayPrecede(popped', hand[t]) /\ hand[t] <= n
               /\ \A i \in 1 .. Len(queue') : MayPrecede(queue'[i], hand[t])
               /\ Storing(Other(t)) => MayPrecede(hand[t], hand[Other(t)])
    BY <2>4, <2>5, <2>6 DEF Ordered
  <2>7. \A t \in Thread : Storing(t)' =>
            /\ MayPrecede(popped', hand'[t]) /\ hand'[t] <= n'
            /\ \A i \in 1 .. Len(queue') : MayPrecede(queue'[i], hand'[t])
            /\ Storing(Other(t))' => MayPrecede(hand'[t], hand'[Other(t)])
    BY <1>1, <2>6
  <2>8. Lined(queue', popped', n')
    BY <1>1, <2>4
  <2>9. popped' <= n' /\ data' = popped'
    BY <1>1, <2>3, <2>4
  <2> QED  BY <1>1, <2>7, <2>8, <2>9, OrderedNext
<1>3. CASE ComputeBegins \/ ComputeEmits
  <2>1. UNCHANGED <<queue, data, popped>> /\ pc'["G"] # "emit"
    BY <1>3 DEF ComputeBegins, ComputeEmits, At, TypeOK, Thread
  <2> QED  BY <1>1, <2>1 DEF Ordered, Lined, MayPrecede
<1> QED  BY <1>2, <1>3 DEF compute

LEMMA ReturnOrdered == ASSUME TypeOK, Lapped, Ordered, NEW t \in Thread, Return(t),
                              UNCHANGED <<queue, data, popped>>
                       PROVE  Ordered'
<1>1. PICK frame \in Returns :
          /\ raced' = IF frame # None /\ Storing(Other(t))
                      THEN raced \cup {frame} ELSE raced
          /\ hand' = [hand EXCEPT ![t] = frame]
          /\ n' = IF frame = None THEN n ELSE frame
          /\ At(t, IF frame = None THEN Onward(t) ELSE "store")
  BY DEF Return
<1>2. n \in Nat /\ popped \in Nat /\ queue \in Seq(Nat) /\ hand \in [Thread -> Nat]
      /\ pc \in [Thread -> WorkerPlaces \cup GuiPlaces]
      /\ Lined(queue, popped, n) /\ popped <= n
  BY DEF TypeOK, Ordered
<1>3. frame \in {None, n + 1} /\ n + 1 # None
  BY <1>2 DEF Returns, None
<1>4. pc'["G"] = "emit" => pc["G"] = "emit"
  BY <1>1, <1>2 DEF At, Onward, Thread
<1>5. /\ Other(t) \in Thread /\ Other(t) # t /\ Other(Other(t)) = t
      /\ \A u \in Thread : u = t \/ u = Other(t)
  BY DEF Thread, Other
<1>6. /\ Storing(Other(t))' = Storing(Other(t))
      /\ hand'[Other(t)] = hand[Other(t)] /\ hand'[t] = frame
  BY <1>1, <1>2, <1>5 DEF At, Storing
<1>7. raced \subseteq raced' /\ n <= n' /\ n' \in Nat
  BY <1>1, <1>2, <1>3
<1>8. ASSUME NEW f, NEW g, MayPrecede(f, g) PROVE MayPrecede(f, g)'
  BY <1>7, <1>8 DEF MayPrecede
<1>9. /\ Lined(queue, popped, n)' /\ popped' <= n'
      /\ pc'["G"] = "emit" => data' = popped' \/ MayPrecede(popped, data)'
  BY <1>2, <1>4, <1>7, <1>8 DEF Lined, Ordered, MayPrecede
<1>10. ASSUME NEW u \in Thread, Storing(u)'
       PROVE  /\ MayPrecede(popped, hand[u])' /\ hand'[u] <= n'
              /\ \A i \in 1 .. Len(queue) : MayPrecede(queue[i], hand[u])'
              /\ Storing(Other(u))' => MayPrecede(hand[u], hand[Other(u)])'
  <2>1. ASSUME Storing(t)' PROVE frame = n + 1 /\ n' = frame
    BY <1>1, <1>2, <1>3, <2>1 DEF At, Onward, Storing
  <2>2. ASSUME Storing(t)', Storing(Other(t))
        PROVE  hand[Other(t)] = n /\ frame \in raced'
    BY <1>1, <1>3, <1>5, <2>1, <2>2 DEF Return, Lapped
  <2>3. CASE u = t
    <3>1. \A i \in 1 .. Len(queue) : queue[i] \in Nat /\ queue[i] <= n
      BY <1>2 DEF Lined
    <3>2. frame = n + 1 /\ n' = frame /\ hand'[u] = frame
      BY <1>6, <1>10, <2>1, <2>3
    <3>3. Storing(Other(u))' => hand'[Other(u)] = n /\ frame \in raced'
      BY <1>6, <1>10, <2>2, <2>3
    <3> QED  BY <1>2, <3>1, <3>2, <3>3 DEF MayPrecede
  <2>4. CASE u = Other(t)
    <3>1. /\ Storing(u) /\ hand'[u] = hand[u] /\ hand[u] \in Nat
          /\ MayPrecede(popped, hand[u]) /\ hand[u] <= n
          /\ \A i \in 1 .. Len(queue) : MayPrecede(queue[i], hand[u])
      BY <1>2, <1>6, <1>10, <2>4 DEF Ordered
    <3>2. ASSUME Storing(Other(u))' PROVE MayPrecede(hand[u], hand[Other(u)])'
      BY <1>2, <1>5, <1>6, <2>1, <2>4, <3>1, <3>2 DEF MayPrecede
    <3> QED  BY <1>2, <1>7, <3>1, <3>2 DEF MayPrecede
  <2> QED  BY <1>5, <2>3, <2>4
<1> QED  BY <1>9, <1>10 DEF Ordered

LEMMA QuietOrdered == ASSUME TypeOK, Ordered,
                             UNCHANGED <<queue, data, popped, n, raced, hand>>,
                             pc'["G"] = "emit" => pc["G"] = "emit",
                             \A t \in Thread : Storing(t)' => Storing(t)
                      PROVE  Ordered'
<1>1. \A t \in Thread : Other(t) \in Thread
  BY DEF Thread, Other
<1> QED  BY <1>1 DEF Ordered, Lined, MayPrecede

LEMMA OrderedStep == ASSUME TypeOK, Lapped, Filled, Ordered, [Next]_vars PROVE Ordered'
<1>1. CASE run
  <2>1. CASE PassPause \/ LeaveLoop \/ Enter \/ NextRaises
    <3>1. CASE ~_storeData("W")
      <4>1. UNCHANGED <<queue, data, popped, n, raced, hand>>
        BY <1>1, <2>1, <3>1 DEF run, PassPause, LeaveLoop, Enter, NextRaises, reads
      <4>2. /\ pc'["G"] = "emit" => pc["G"] = "emit"
            /\ \A t \in Thread : Storing(t)' => Storing(t)
        BY <2>1 DEF PassPause, LeaveLoop, Enter, NextRaises, At, TypeOK, Storing,
              Thread
      <4> QED  BY <4>1, <4>2, QuietOrdered
    <3> QED  BY <3>1, StoreOrdered DEF Thread
  <2>2. CASE Leave /\ ~_storeData("W")
    BY <1>1, <2>2, ReturnOrdered DEF run, Leave, Thread
  <2> QED  BY <1>1, <2>1, <2>2, StoreOrdered DEF run, Thread
<1>2. CASE EventLoop
  <2>1. CASE Click \/ Handler
    <3>1. CASE SourceReturns /\ UNCHANGED <<queue, data, popped, ticked>>
      BY <3>1, ReturnOrdered DEF SourceReturns, Thread
    <3>2. CASE ~SourceReturns /\ UNCHANGED <<queue, data, popped, ticked>>
      <4>1. n' = n /\ raced' = raced /\ hand' = hand
        BY <2>1, <3>2 DEF Click, Handler, StartPause, Next_clicked, SaveClicked,
              LoadClicked, CloseClicked, Abort, TakeSource, LoadBegins, LoadEnds,
              BootFails, JoinWorker, CloseSource, JoinSaver, reads
      <4>2. /\ pc'["G"] = "emit" => pc["G"] = "emit"
            /\ \A t \in Thread : Storing(t)' => Storing(t)
        BY <2>1, <3>2 DEF Click, Handler, StartPause, Next_clicked, SaveClicked,
              LoadClicked, CloseClicked, Abort, TakeSource, LoadBegins, LoadEnds,
              BootFails, JoinWorker, CloseSource, JoinSaver, At, TypeOK, Storing,
              Thread
      <4> QED  BY <3>2, <4>1, <4>2, QuietOrdered
    <3> QED  BY <1>2, <3>1, <3>2, ComputeOrdered, StoreOrdered DEF EventLoop, Thread
  <2> QED  BY <1>2, <2>1, ComputeOrdered, StoreOrdered DEF EventLoop, Thread
<1>3. CASE Saver
  BY <1>3, QuietOrdered DEF Saver, Storing, reads
<1>4. CASE UNCHANGED vars
  BY <1>4, QuietOrdered DEF vars, Storing, reads
<1> QED  BY <1>1, <1>2, <1>3, <1>4 DEF Next, Exited

-----------------------------------------------------------------------------
LEMMA InitInv == Init => IInv
<1> SUFFICES ASSUME Init PROVE IInv
  OBVIOUS
<1>1. TypeOK
  <2>1. 0 \in 0 .. Interval
    BY IntervalAssumption
  <2>2. pc \in [Thread -> WorkerPlaces \cup GuiPlaces]
        /\ pc["W"] \in WorkerPlaces /\ pc["G"] \in GuiPlaces
    BY DEF Init, Thread, WorkerPlaces, GuiPlaces
  <2>3. queue \in Seq(Nat) /\ Len(queue) <= QueueSize /\ saveQueue \in Nat
    BY QueueAssumption DEF Init
  <2>4. running \in BOOLEAN /\ paused \in BOOLEAN /\ started \in BOOLEAN
        /\ saving \in BOOLEAN /\ stopping \in BOOLEAN /\ hasty \in BOOLEAN
        /\ ticked \in BOOLEAN /\ overlapped \in BOOLEAN
    BY DEF Init
  <2>5. hand \in [Thread -> Nat] /\ data \in Nat
    BY DEF Init, None
  <2>6. lock \in Thread \cup {"free"} /\ slot \in {"next", "prev"}
    BY DEF Init, Thread
  <2> QED  BY <2>1, <2>2, <2>3, <2>4, <2>5, <2>6 DEF Init, TypeOK
<1>2. Locked /\ Sourced
  BY DEF Init, Locked, Sourced, Unstarted, Thread
<1>3. Paused /\ Lapped /\ Filled
  BY DEF Init, Paused, Nexting, Lapped, Filled, Storing, Thread
<1>4. Ordered
  BY DEF Init, Ordered, Lined, Storing, Thread
<1> QED  BY <1>1, <1>2, <1>3, <1>4 DEF IInv

LEMMA FilledQueue == ASSUME TypeOK, Filled
    PROVE  /\ \A t \in Thread : pc[t] = "drop" => queue # <<>>
           /\ pc["G"] = "pop" => queue # <<>>
BY QueueAssumption DEF TypeOK, Filled, Thread

LEMMA StepInv == ASSUME IInv, [Next]_vars PROVE IInv'
BY TypeStep, ControlStep, LappedStep, FilledStep, OrderedStep, FilledQueue
   DEF IInv, Control

LEMMA InvAlways == Spec => []IInv
<1>1. Init => IInv
  BY InitInv
<1>2. IInv /\ [Next]_vars => IInv'
  BY StepInv
<1> QED  BY <1>1, <1>2, PTL DEF Spec

(* The variables keep their types, and the queue its bound, for every      *)
(* queue size and save interval.                                           *)
THEOREM TypeCorrect == Spec => []TypeOK
<1>1. IInv => TypeOK
  BY DEF IInv
<1> QED  BY <1>1, InvAlways, PTL

(* No source call of either thread meets a source that is not started.     *)
THEOREM StartedWhileReadAlways == Spec => []StartedWhileRead
<1>1. IInv => StartedWhileRead
  BY DEF IInv, Sourced, Unstarted, StartedWhileRead, Thread
<1> QED  BY <1>1, InvAlways, PTL

(* Two source calls at once need a Next in the gap between the worker's    *)
(* pause check and its lock.                                               *)
THEOREM OneReaderAlways == Spec => []OneReader
<1>1. IInv => OneReader
  BY DEF IInv, Paused, Nexting, OneReader
<1> QED  BY <1>1, InvAlways, PTL

(* No popleft, of the timer or of a store, meets an empty queue when the   *)
(* queue holds three frames or more.                                       *)
THEOREM NoEmptyPopAlways == Spec => []NoEmptyPop
<1>1. IInv => NoEmptyPop
  BY FilledQueue DEF IInv, NoEmptyPop
<1> QED  BY <1>1, InvAlways, PTL

(* Frames leave the queue for display in the order they were read in, but  *)
(* for two whose source calls overlapped.                                  *)
THEOREM InOrderAlways == Spec => []InOrder
<1>1. IInv => InOrder
  BY DEF IInv, Ordered, Lined, InOrder
<1> QED  BY <1>1, InvAlways, PTL
=============================================================================
