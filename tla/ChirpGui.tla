------------------------------ MODULE ChirpGui ------------------------------
(***************************************************************************)
(* The field sonar's display program: the GUI thread G, which handles the  *)
(* clicks and a 20 ms timer one at a time, the DataWorker thread W, which  *)
(* reads frames from the present source, and the DataSaver thread, which   *)
(* writes files.  They share the source under a lock, and the frame queue, *)
(* DataManager.data and the worker's flags without one.                    *)
(***************************************************************************)
EXTENDS Integers, Sequences

CONSTANTS QueueSize,   \* frames the display queue holds
          Interval,    \* "Save Cycles": one displayed frame in so many is saved
          MaxFrames,   \* bound: frames read in a behaviour
          SaveCap      \* bound: frames waiting for the saver

ASSUME QueueAssumption == QueueSize \in Nat /\ QueueSize >= 3
ASSUME IntervalAssumption == Interval \in Nat \ {0}
ASSUME BoundAssumption == MaxFrames \in Nat /\ SaveCap \in Nat

VARIABLES pc,          \* where the threads "W" and "G" are
          hand,        \* the frame a thread has read and not yet stored
          slot,        \* the slot of the Next button that G is in
          running, paused,
          lock,        \* "free" or the thread that holds it
          source,      \* "serial", "null", "file", or "empty", a directory
          started,     \* has source been started and not closed?
          target,      \* the source G is about to load
          live         \* DataManager._serial_source
VARIABLES queue, data, \* DataManager.queue and DataManager.data
          saving, counter,
          spc, stopping, \* the saver thread
          saveQueue    \* frames waiting for it: how many
(* Observers: nothing in the program reads them. *)
VARIABLES n,           \* frames read so far; a frame is its number
          overlapped,  \* did the last source call end during another?
          raced,       \* frames that came while the one before was stored
          popped,      \* the last frame that left the queue for display
          hasty,       \* was Next handled between W's pause check and its lock?
          ticked       \* has compute begun while W is about to drop a frame?

sourceVars == <<source, started, target, live>>
flags == <<running, paused>>
saveVars == <<saving, counter, spc, saveQueue, stopping>>
reads == <<n, overlapped, raced>>
vars == <<pc, hand, slot, flags, lock, sourceVars, queue, data, saveVars,
          reads, popped, hasty, ticked>>

Thread == {"W", "G"}
Other(t) == IF t = "W" THEN "G" ELSE "W"
None == 0              \* None or no bytes, both falsy
At(t, place) == pc' = [pc EXCEPT ![t] = place]

(* DataManager.__init__: the worker and the saver run, the worker paused,  *)
(* and the serial source is being started.                                 *)
Init ==
    /\ pc = [t \in Thread |-> IF t = "W" THEN "check" ELSE "boot"]
    /\ hand = [t \in Thread |-> None] /\ slot = "prev"
    /\ running = TRUE /\ paused = TRUE /\ lock = "G"
    /\ source = "serial" /\ started = FALSE
    /\ target = "serial" /\ live = "serial"
    /\ queue = <<>> /\ data = None
    /\ saving = FALSE /\ counter = 0
    /\ spc = "get" /\ saveQueue = 0 /\ stopping = FALSE
    /\ n = 0 /\ overlapped = FALSE /\ raced = {}
    /\ popped = 0 /\ hasty = FALSE /\ ticked = FALSE
-----------------------------------------------------------------------------
(* In either thread: source.next() or prev() returns, _storeData           *)

(* A source has frames, has none, or its serial port times out; it has none*)
(* from the bound on.                                                      *)
Returns == IF source \in {"null", "empty"} \/ n >= MaxFrames THEN {None}
           ELSE IF source = "file" THEN {n + 1} ELSE {n + 1, None}

(* Where a thread goes after its frame: W to the top of its loop, G from   *)
(* the first slot of the Next button to the second, or to its event loop.  *)
Onward(t) == IF t = "W" THEN "check" ELSE IF slot = "next" THEN "take" ELSE "idle"
NextSlot(t) == IF t = "G" THEN "prev" ELSE slot

Storing(t) == pc[t] \in {"store", "drop", "append"}

(* A call takes a job of the sonar, or 0.1 s for a file: a frame that the  *)
(* other thread had when the call began is put away by its end.  One that  *)
(* came during the call need not be.                                       *)
Return(t) ==
    /\ pc[t] = "read"
    /\ Storing(Other(t)) => overlapped
    /\ overlapped' = (pc[Other(t)] = "read")
    /\ \E frame \in Returns :
          /\ raced' = IF frame # None /\ Storing(Other(t))
                      THEN raced \cup {frame} ELSE raced
          /\ hand' = [hand EXCEPT ![t] = frame]
          /\ n' = IF frame = None THEN n ELSE frame
          /\ At(t, IF frame = None THEN Onward(t) ELSE "store")
          /\ slot' = IF frame = None THEN NextSlot(t) ELSE slot

(* self.data = data; if the queue is full ... *)
Store(t) ==
    /\ pc[t] = "store"
    /\ data' = hand[t]
    /\ At(t, IF Len(queue) >= QueueSize THEN "drop" ELSE "append")
    /\ UNCHANGED <<hand, slot, queue, ticked>>

(* ... popleft ... *)
Drop(t) ==
    /\ pc[t] = "drop"
    /\ queue' = Tail(queue)
    /\ At(t, "append")
    /\ ticked' = (ticked /\ t = "G")
    /\ UNCHANGED <<hand, slot, data>>

(* ... and append, which drops the oldest frame of a queue that is full.   *)
AppendFrame(t) ==
    /\ pc[t] = "append"
    /\ queue' = Append(IF Len(queue) = QueueSize THEN Tail(queue) ELSE queue,
                       hand[t])
    /\ hand' = [hand EXCEPT ![t] = None]
    /\ At(t, Onward(t)) /\ slot' = NextSlot(t)
    /\ UNCHANGED <<data, ticked>>

_storeData(t) ==
    /\ Store(t) \/ Drop(t) \/ AppendFrame(t)
    /\ UNCHANGED <<flags, lock, sourceVars, saveVars, reads, popped, hasty>>
-----------------------------------------------------------------------------
(* W: DataWorker.run                                                       *)

PassPause == pc["W"] = "check" /\ running /\ ~paused /\ At("W", "lock")
             /\ UNCHANGED <<hand, slot, lock, reads>>

LeaveLoop == pc["W"] = "check" /\ ~running /\ At("W", "ended")
             /\ UNCHANGED <<hand, slot, lock, reads>>

EnterUnlocked ==                                               \* a mutant
    /\ pc["W"] = "lock"
    /\ At("W", "read")
    /\ UNCHANGED <<hand, slot, lock, reads>>
(* with self._lock: *)
Enter ==
    /\ pc["W"] = "lock"
    /\ lock = "free" /\ lock' = "W"
    /\ At("W", "read")
    /\ UNCHANGED <<hand, slot, reads>>

Leave == Return("W") /\ lock' = "free"

(* An exception (the port is gone, no such file) ends the thread, and      *)
(* nobody is told; the lock is released.                                   *)
NextRaises ==
    /\ pc["W"] = "read" /\ source \in {"serial", "file"}
    /\ overlapped' = (pc["G"] = "read")
    /\ lock' = "free" /\ At("W", "ended")
    /\ UNCHANGED <<hand, slot, n, raced>>

run ==
    \/ /\ PassPause \/ LeaveLoop \/ Enter \/ Leave \/ NextRaises
       /\ UNCHANGED <<flags, sourceVars, queue, data, saveVars, popped, hasty,
                      ticked>>
    \/ _storeData("W")
-----------------------------------------------------------------------------
(* G: the timer, DataManager.compute                                       *)

ComputeUnchecked ==                                            \* a mutant
    /\ pc["G"] = "idle"
    /\ ~(pc["W"] = "drop" /\ ticked)
    /\ At("G", "pop")
    /\ ticked' = (pc["W"] = "drop")
    /\ UNCHANGED <<queue, data, saveQueue, counter, popped>>
(* The timer ticks every 20 ms and a thread waits 5 ms for its turn: there *)
(* is one tick at most while W goes from its length check to its popleft.  *)
ComputeBegins ==
    /\ pc["G"] = "idle"
    /\ ~(pc["W"] = "drop" /\ ticked)
    /\ queue # <<>>
    /\ At("G", "pop")
    /\ ticked' = (pc["W"] = "drop")
    /\ UNCHANGED <<queue, data, saveQueue, counter, popped>>

ComputePopsNewest ==                                           \* a mutant
    /\ pc["G"] = "pop"
    /\ data' = queue[Len(queue)] /\ popped' = queue[Len(queue)]
    /\ queue' = SubSeq(queue, 1, Len(queue) - 1)
    /\ At("G", "emit")
    /\ UNCHANGED <<saveQueue, counter, ticked>>
ComputePops ==
    /\ pc["G"] = "pop"
    /\ data' = Head(queue) /\ popped' = Head(queue)
    /\ queue' = Tail(queue)
    /\ At("G", "emit")
    /\ UNCHANGED <<saveQueue, counter, ticked>>

(* Nobody takes frames from the queue of a saver that has died, and no more*)
(* than the bound are counted there.                                       *)
Put == IF spc = "failed" /\ saveQueue >= SaveCap THEN saveQueue
                                                 ELSE saveQueue + 1

enqueueOnlyCounts(count) ==                             \* a mutant
    /\ saveQueue' = IF count % Interval = 0 THEN Put ELSE saveQueue
    /\ counter' = count + 1
(* DataSaver.enqueue *)
enqueue(count) ==
    /\ saveQueue' = IF count % Interval = 0 THEN Put ELSE saveQueue
    /\ counter' = IF count % Interval = 0 THEN 1 ELSE count + 1

(* dataReady.emit and the saver take what self.data is by now. *)
ComputeEmits ==
    /\ pc["G"] = "emit"
    /\ saveQueue < SaveCap \/ spc = "failed"
    /\ IF saving THEN enqueue(counter)
                 ELSE UNCHANGED <<saveQueue, counter>>
    /\ At("G", "idle")
    /\ UNCHANGED <<queue, data, popped, ticked>>

compute == /\ ComputeBegins \/ ComputePops \/ ComputeEmits
           /\ UNCHANGED <<hand, slot, flags, lock, sourceVars, saving, spc,
                          stopping, reads, hasty>>
-----------------------------------------------------------------------------
(* G: clicks                                                               *)

StartPause ==
    /\ pc["G"] = "idle"
    /\ paused' = ~paused
    /\ UNCHANGED <<pc, hand, slot, running, lock, sourceVars, saveVars, reads, hasty>>

NextUnpaused ==                                                \* a mutant
    /\ pc["G"] = "idle"
    /\ At("G", "take") /\ slot' = "next"
    /\ hasty' = (pc["W"] = "lock")
    /\ UNCHANGED <<hand, flags, lock, sourceVars, saveVars, reads>>
(* The Next button: its slots are DataManager.next and DataManager.prev.   *)
Next_clicked ==
    /\ pc["G"] = "idle" /\ paused
    /\ At("G", "take") /\ slot' = "next"
    /\ hasty' = (pc["W"] = "lock")
    /\ UNCHANGED <<hand, flags, lock, sourceVars, saveVars, reads>>

(* DataWorker.next, prev: the lock is held only while self.source is read. *)
(* A serial source has no prev.                                            *)
TakeSource ==
    /\ pc["G"] = "take" /\ lock = "free"
    /\ At("G", IF slot = "prev" /\ source = "serial" THEN "idle" ELSE "read")
    /\ UNCHANGED <<hand, slot, flags, lock, sourceVars, saveVars, reads, hasty>>

SourceReturns ==
    /\ Return("G")
    /\ UNCHANGED <<flags, lock, sourceVars, saveVars, hasty>>

(* DataManager.save and unsave *)
SaveClicked ==
    /\ pc["G"] = "idle" /\ saveQueue < SaveCap
    /\ saving' = ~saving
    /\ IF saving THEN UNCHANGED <<saveQueue, counter>>
       ELSE IF data = None THEN counter' = 0 /\ UNCHANGED saveQueue
       ELSE enqueue(0)
    /\ UNCHANGED <<pc, hand, slot, flags, lock, sourceVars, spc, stopping, reads,
                   hasty>>

(* DataManager.load and unload, up to the lock *)
LoadClicked ==
    /\ pc["G"] = "idle"
    /\ \/ /\ source \notin {"file", "empty"}
          /\ target' \in {"file", "empty"}
          /\ saving' = FALSE
       \/ /\ source \in {"file", "empty"}
          /\ target' = live
          /\ UNCHANGED saving
    /\ At("G", "swap")
    /\ UNCHANGED <<hand, slot, flags, lock, source, started, live, counter,
                   spc, saveQueue, stopping, reads, hasty>>

(* DataWorker.load: under the lock, the old source is closed and the new   *)
(* one started, which takes two recordings for the serial one.             *)
LoadBegins ==
    /\ pc["G"] = "swap" /\ lock = "free"
    /\ lock' = "G"
    /\ source' = target /\ started' = FALSE
    /\ At("G", "load")
    /\ UNCHANGED <<hand, slot, flags, target, live, saveVars, reads, hasty>>

LoadEnds ==
    /\ pc["G"] \in {"boot", "load"}
    /\ started' = TRUE /\ lock' = "free"
    /\ At("G", "idle")
    /\ UNCHANGED <<hand, slot, flags, source, target, live, saveVars, reads, hasty>>

(* __init__: no sonar; a NullDataSource takes its place. *)
BootFails ==
    /\ pc["G"] = "boot"
    /\ lock' = "free"
    /\ target' = "null" /\ live' = "null"
    /\ At("G", "swap")
    /\ UNCHANGED <<hand, slot, flags, source, started, saveVars, reads, hasty>>

(* An exception in a slot (no such directory, port, file or number) aborts *)
(* the program and its threads.                                            *)
Abort ==
    /\ pc["G"] \in {"idle", "load", "read"}
    /\ pc' = [W |-> "ended", G |-> "aborted"]
    /\ spc' = "ended"
    /\ lock' = "free" /\ started' = FALSE
    /\ UNCHANGED <<hand, slot, flags, source, target, live, saving, counter,
                   saveQueue, stopping, reads, hasty>>

(* DataManager.close, DataWorker.stop: join gives up after 0.5 s, while W  *)
(* is in a source call, then the lock is waited for.                       *)
CloseClicked ==
    /\ pc["G"] = "idle"
    /\ running' = FALSE
    /\ At("G", "join")
    /\ UNCHANGED <<hand, slot, paused, lock, sourceVars, saveVars, reads, hasty>>

JoinWorker ==
    /\ pc["G"] = "join" /\ pc["W"] \in {"ended", "read"}
    /\ At("G", "close")
    /\ UNCHANGED <<hand, slot, flags, lock, sourceVars, saveVars, reads, hasty>>

CloseLeavesSaver ==                                            \* a mutant
    /\ pc["G"] = "close" /\ lock = "free"
    /\ started' = FALSE
    /\ At("G", "saver")
    /\ UNCHANGED <<hand, slot, flags, lock, source, target, live, saveVars, reads,
                   hasty>>
CloseSource ==
    /\ pc["G"] = "close" /\ lock = "free"
    /\ started' = FALSE
    /\ stopping' = TRUE
    /\ At("G", "saver")
    /\ UNCHANGED <<hand, slot, flags, lock, source, target, live, saving,
                   counter, spc, saveQueue, reads, hasty>>

(* (DataSaver._stop hides Thread._stop: up to Python 3.12 this join then   *)
(* raises, after app.exec_, and main ends with a traceback.)               *)
JoinSaver ==
    /\ pc["G"] = "saver" /\ spc \in {"ended", "failed"}
    /\ At("G", "closed")
    /\ UNCHANGED <<hand, slot, flags, lock, sourceVars, saveVars, reads, hasty>>

Click == StartPause \/ Next_clicked \/ SaveClicked \/ LoadClicked \/ CloseClicked
         \/ Abort
Handler == TakeSource \/ SourceReturns \/ LoadBegins \/ LoadEnds \/ BootFails
           \/ JoinWorker \/ CloseSource \/ JoinSaver
EventLoop ==
    \/ (Click \/ Handler) /\ UNCHANGED <<queue, data, popped, ticked>>
    \/ _storeData("G")
    \/ compute
-----------------------------------------------------------------------------
(* DataSaver.run: get has a timeout, and stop is looked at between files.  *)
Get ==
    /\ spc = "get" /\ saveQueue # 0
    /\ saveQueue' = saveQueue - 1
    /\ spc' = "write"

GetTimesOut ==
    /\ spc = "get" /\ saveQueue = 0 /\ stopping
    /\ spc' = "ended"
    /\ UNCHANGED saveQueue

SaverQuitsWhenEmpty ==                                         \* a mutant
    /\ spc = "write"
    /\ spc' = IF stopping \/ saveQueue = 0 THEN "ended" ELSE "get"
    /\ UNCHANGED saveQueue
Written ==
    /\ spc = "write"
    /\ spc' = IF stopping THEN "ended" ELSE "get"
    /\ UNCHANGED saveQueue

(* Only queue.Empty is caught: an OSError of np.save (no such directory,   *)
(* no space) ends the thread, and frames go on being enqueued.             *)
WriteFails ==
    /\ spc = "write"
    /\ spc' = "failed"
    /\ UNCHANGED saveQueue

Saver ==
    /\ Get \/ GetTimesOut \/ Written \/ WriteFails
    /\ UNCHANGED <<pc, hand, slot, flags, lock, sourceVars, queue, data, saving,
                   counter, stopping, reads, popped, hasty, ticked>>
-----------------------------------------------------------------------------
(* The process has exited; a daemon thread goes with it. *)
Exited == pc["G"] \in {"closed", "aborted"} /\ UNCHANGED vars

Next == run \/ EventLoop \/ Saver \/ Exited

(* Threads get their turns, a source call and a file come to an end, and   *)
(* the GUI goes on with what it is doing; nobody has to click.             *)
Fairness == /\ WF_vars(run)
            /\ WF_vars(EventLoop /\ pc["G"] # "idle")
            /\ WF_vars(Saver)
Spec == Init /\ [][Next]_vars
FairSpec == Spec /\ Fairness
-----------------------------------------------------------------------------
(* Properties                                                              *)

WorkerPlaces == {"check", "lock", "read", "store", "drop", "append", "ended"}
GuiPlaces == {"boot", "idle", "swap", "load", "take", "read", "store", "drop",
              "append", "pop", "emit", "join", "close", "saver", "closed",
              "aborted"}
TypeOK ==
    /\ pc \in [Thread -> WorkerPlaces \cup GuiPlaces]
    /\ pc["W"] \in WorkerPlaces /\ pc["G"] \in GuiPlaces
    /\ hand \in [Thread -> Nat] /\ slot \in {"next", "prev"}
    /\ running \in BOOLEAN /\ paused \in BOOLEAN /\ lock \in Thread \cup {"free"}
    /\ source \in {"serial", "null", "file", "empty"} /\ started \in BOOLEAN
    /\ target \in {"serial", "null", "file", "empty"}
    /\ live \in {"serial", "null"}
    /\ queue \in Seq(Nat) /\ Len(queue) <= QueueSize /\ data \in Nat
    /\ saving \in BOOLEAN /\ counter \in 0 .. Interval
    /\ spc \in {"get", "write", "ended", "failed"} /\ saveQueue \in Nat
    /\ stopping \in BOOLEAN
    /\ n \in Nat /\ overlapped \in BOOLEAN /\ raced \subseteq Nat
    /\ popped \in Nat /\ hasty \in BOOLEAN /\ ticked \in BOOLEAN

(* No thread is in a call of a source that is not started yet or already   *)
(* closed, although Next calls it without the lock and stop gives up its   *)
(* join.                                                                   *)
StartedWhileRead == \A t \in Thread : pc[t] = "read" => started

(* The two threads are in a source call together only when Next was        *)
(* handled while the worker, not yet paused, was on its way to the lock.   *)
OneReader == pc["W"] = "read" /\ pc["G"] = "read" => hasty

(* No popleft meets an empty queue: neither compute's, which has seen a    *)
(* frame in it, nor those of the stores, which have seen it full.          *)
NoEmptyPop ==
    pc["G"] = "pop" \/ (\E t \in Thread : pc[t] = "drop") => queue # <<>>

(* Frames leave the queue in the order in which they were read, none twice,*)
(* but for two of source calls that overlapped, the second of which came   *)
(* while the first was stored: those two may be exchanged, and no other    *)
(* comes between.  What is displayed and saved is the frame taken from the *)
(* queue or one stored meanwhile that may follow it.                       *)
MayPrecede(f, g) == f < g \/ (f = g + 1 /\ f \in raced)
InOrder ==
    /\ \A i, j \in 1 .. Len(queue) : i < j => MayPrecede(queue[i], queue[j])
    /\ \A i \in 1 .. Len(queue) : MayPrecede(popped, queue[i])
    /\ pc["G"] = "emit" => data = popped \/ MayPrecede(popped, data)

(* Closing the window ends the program: stop gets the lock, the saver's    *)
(* loop ends, also when the worker or the saver has died of an exception.  *)
CloseEnds == (pc["G"] = "join") ~> (pc["G"] = "closed")

(* Every frame handed to the saver is written, unless a write fails before *)
(* it or the program is closing.                                           *)
SavedGetWritten ==
    (saveQueue # 0) ~> (saveQueue = 0 \/ spc = "failed" \/ stopping
                           \/ pc["G"] = "aborted")

(* "Single run": a click on Next stores one frame; the button's second     *)
(* slot has none to store.                                                 *)
SingleRun == pc["G"] = "store" => slot = "next"
=============================================================================
