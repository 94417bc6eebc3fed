# Formal models of the Robat / Batbot senior design code

TLA+ modules, model-checking configurations and machine-checked proofs for the
firmware and the host programs of this repository. Paths are relative to the
repository's root; `PROJECT.json` maps every definition to the lines it models.

## 1. The system

The repository holds the software of a robotic bat: motor controllers for the
pinnae and wings, sonar boards that emit a chirp and record the echo, and host
programs that talk to them over serial ports.

| Component | State | Operations | Correct when |
|---|---|---|---|
| Tendon command set: `batbot_tendon_controller/lib/comms` | none of its own | look up an opcode, check id and parameters, execute, build a response | a refused request changes nothing |
| Tendon link: `src/main.cpp` and `bb_tendons/*.py` | bytes on both wires, the host's place in `ReadRx` | write a request, poll and serve it, find a header, clear the input | an answer belongs to its call; a method that returns has been obeyed |
| Tendon motor driver: `lib/tendon/TendonMotor.cpp` | ticks, pin phase, goal, limit, PID state | encoder interrupt, zero, goal, limit, calibrate, move to end, control step | ticks follow the shaft; the goal is within the limit |
| Tendon SPI control: `DMAC_0_Handler` in `src/main.cpp` | receive buffer, target angles | zero or home a motor from an interrupt | homing does not disturb the encoders |
| Robat multi-motor controller: `Robat_MultiMotorControl_v2.ino` | counts, last pin states, drive pins, run timer, serial input | poll, interrupt, run forward/back for a time, stop, reset, print | one motor at a time, for the right time; counts follow the shaft |
| Field sonar firmware: `fieldbot/fieldbot/echo_src/src/ml_main.cpp` | state, five flags, buffers, DMA channels, wait timer | start job, emit, wait, listen and send, take a chirp | a frame is one job's recording |
| Field sonar hosts: `run_chirps.py`, `run_chirp.py`, the GUI's `dataSources.py` | place in the read, frames | open and flush, next, close | each call gets its own echo and returns |
| Field sonar GUI: `run_chirp_GUI/src` | source, paused, lock, frame queues | worker loop, next, load, save, stop | one reader per source; frames saved once and in order |
| Batbot emitter: `batbot_sonar/src/echo_main.cpp`, `bb_emitter.py` | chirp buffer, error flag, uploaded flag | upload handshake, emit, ask for the maximum | what is emitted is what was verified |
| Batbot listener: `batbot_sonar/src/main.cpp`, `bb_listener.py` | two DMA buffers, trigger pins | record on trigger, send | no sample sent before it was recorded |
| Pinnae controller: `PinnaeController.py` | limits and angles of each motor | set limits, angles, zero | angles stay within limits |
| Serial framing: `bb_serial/ser_utils.py` | none | escape, pad, unescape | decoding inverts encoding |
| GPS, logging, calibration scripts, REPL, windows | files, plots | I/O | - |

`batbot7/` and the scripts in the root are older copies of the same programs;
`fieldbot/fieldbot/jetson_setup/rtl88_driver` is a vendored network driver; the
`ml_*` hardware libraries are empty submodules and appear only through the way
they are used (a DMA channel is resumed, fills a block and suspends itself).

**Interactions.** Every host program blocks in a serial read until the board
answers. Boards are single loops that interrupts share flags, counts and
buffers with. The USB port delivers a small write in one piece, keeps the order
and is cleared when it is opened. The GUI adds three threads around one source:
worker and GUI thread share it under a lock, which the Next button does not hold
in its source call, and share the frame queue without one.

**What is hard.** No request carries a number, so an answer is told from a stale
one only by when it arrives. Interrupts write what the loop reads. DMA refills a
buffer the loop is sending, and one DMA handler zeroes and homes motors in the
middle of the encoder interrupt. Left-over data bytes of an upload are read as
commands. `millis()` wraps during a run. A user kills a program
that hangs and starts it again while the board is still busy. `PROJECT.json`
lists these hazards at their lines, with the property that covers each.

## 2. Modules

- `TendonCommands` - pure operators: `CreateCommand` (which requests are
  accepted), `Execute` and `Reply` (what they do and return), `HostOutcome` (what
  the library's method makes of a response). An angle is an integer, a set of
  gains a number, and `fits` says whether there are as many parameter bytes as
  the opcode wants. An angle is kept as it is sent: its way through 16 bits is left
  out, and no property is about an angle that does not fit. ECHO is left out: its response is built from fields nothing
  initialises, and nothing on the host sends it.
- `TendonService` - the abstract promise: one call open at a time, served at
  most once in one step, answered or lost.
- `TendonLink` - the wire. `UartControlled` is one pass of `uart_controlled` with
  everything `handlePacket` calls; `SendTx`, `SkipStray`, `ReadTimeout`,
  `TakePacket`, `ResetInput` are the stages of `SendTxRx` and `ReadRx`. The one byte
  too many that each response carries is an item of its own, since it may or may
  not have arrived when the input is cleared. `Reboot`, `HostRestart` and four
  transport faults can happen at any time. The second half of a split request
  that is read on its own does not validate (its third byte is taken for the
  length, and the CRC is then not one); the first half on its own may, if an
  earlier call left the right bytes on the stack. The SPI handler, which zeroes
  and homes motors too, is not part of it: `AckMeansDone` is about a board whose
  only master is the serial one. `TendonMotor` has the handler.
- `RobatMotors` - `LoopPass`, `ReadLine` with one disjunct per branch of `loop()`,
  `StartTimer`, `RunPass`; interrupts, shafts, the clock and the console around it.
  A shaft is a phase in the four-step pin cycle, so that quadrature decoding and
  missed steps are real. A step of the shaft flips one of the two lines, so that one
  between the two `digitalRead`s gives what one before or after both would give, and
  a poll is one action. A line is read whole or, if the second that
  `readStringUntil` waits runs out, as two lines, of which the console may send any
  (`other` for what is no command). `travel`, `lag`, `lagAtReset`, `missed`, `elapsed` and
  `polled` are observers.
- `FieldSonar` - `Switch` is the `switch(dstate)`, `Serial` the command reader
  below it, `SendChunk` one `Serial.write`, interrupts come between any two of
  them, the host opens, reads, closes and is killed. `job`, `clean` and `emission`
  are observers: whose job, whether the buffer holds only its samples, what the
  DAC made of it. A command and its parameter are written together and arrive
  together; an upload is taken whole by `readBytes`.
- `SonarService` - what the field sonar promises a program that waited its turn: a
  call is recorded once, after it is asked for, and returns that recording whole,
  with the chirp this program uploaded. `FieldSonar` implements it: the board is
  `busy` unless it is in IDLE with no job begun and no chunk left to send, what has
  become of a call (`owed`) is read off the wire and the board, and `result` is
  what `next` returned, chunk by chunk. A program that did not wait is "unsure".
- `TendonLinkLive` - `TendonLink` with an observer, `lost`, of what the transport
  has taken from the present call.
- `TendonMotor` - the encoders of the tendon board. `IsrReads` and `IsrStores` are
  the two halves of `encoder_ISR` (the addition is not atomic), `ZeroTicks` and
  `ZeroPins` the two lines of `Reset_Encoder_Zero` that matter when it runs in the
  loop, `SpiZero`, `SpiHome` and `DelayOver` what `DMAC_0_Handler` does. A shaft has two
  stops; `pending` are the interrupt flags of its two lines. `zeroAt`, `sampled`,
  `missed` and `torn` are observers. `TendonLink` has the same motors as a request
  sees them, one whole handler a step.
- `ChirpGui` - the display program. `run` is the worker, `EventLoop` the GUI thread
  (clicks and timer ticks one at a time), `Saver` the third. A frame is the number of
  its reading. Every access of shared state that another thread can come between
  is a step of its own: the pause check and the lock, the length check and the
  `popleft`, the store to `DataManager.data` and the append. An exception ends the
  thread it comes up in: `NextRaises` the worker, `WriteFails` the saver, `Abort` the
  program, since PyQt aborts on one in a slot. `overlapped`, `raced`, `popped`, `hasty`
  and `ticked` are observers; the saver's queue is how many frames are in it. The source is seen
  through what its calls return; `FieldSonar` is the serial one from within.
- `EchoEmitter` - the emitter's firmware and its class. `Command` to `Drain` are the
  stages of one pass of `loop()`, `Connected` to `GotEmitted` what the host does with
  each answer, `FwTimeout` and `TimedOut` both sides' giving up. A chirp is the
  number of its upload, of which a behaviour has at most `Uploads`; `held` is the set of uploads the buffer's samples come from,
  and the CRC tells a buffer with one upload's samples from any other. A data
  byte read as a command may be any command (`ReadAs`).
- `TendonLinkProofs`, `RobatMotorsProofs`, `FieldSonarProofs`, `TendonMotorProofs`,
  `ChirpGuiProofs`, `EchoEmitterProofs` - theorems.
- `MCTendonLink`, `MCRobatMotors`, `MCFieldSonar`, `MCTendonMotor`, `MCChirpGui`,
  `MCEchoEmitter` - values for TLC.

An operator that a comment calls a mutant is a version of the operator below it
with a plausible bug. No specification uses it; it shows that a property can tell
the two apart (`PROJECT.json`, "mutants").

## 3. Runs

| Run | Shows | Bounds |
|---|---|---|
| `link` | `RequestResponse`, `OneCall`, `AckMeansDone`, that the link implements `TendonService`, and `CallReturnsUnlessLost`, when requests are damaged or lost and responses lost | two motors and a bad id; 13 requests that cover every answer of `CreateCommand` and of `Constrain`; `WireCap` 3: a call starts only when at most two items are left over, and by `OneCall` there is never more than one |
| `link_faults` | `TypeOK` and `UnsetLimitHolds` under every fault | one motor, three requests: the faults, not the commands, are the question |
| `link_limit` | violated: `SetpointWithinLimit` | shortest history: set limit, write, lower the limit |
| `robat_control` | `OnlyTargetDriven`, `TimerIsElapsed`, `RunLastsRunTime`, `MotorsStop` | two motors; a line for every branch; `Wrap` 5 and `RunTime` 3, so that most runs cross the wrap; shafts stand still |
| `robat_count` | `SampledPins`, `CountIsSampledTravel`, `CountParity`, `CountNearTruth` | motor 0 polled, motor 1 on an interrupt; in a behaviour one of the two shafts turns (`OneShaftTurns`: encoders share nothing but the loop), up to two steps each way: half a pin cycle and a whole one from stop to stop, so that steps are missed |
| `robat_stop` | violated: `StopIsImmediate`: a turn of the run loop itself, with a stop line there to read, leaves a motor on | as `robat_control` |
| `sonar` | `SentBuffersAreStill`, `EchoIsOwn`, `JobEnds`, `CallReturns`, and that the sonar implements `SonarService`, with a kill and a restart at any moment | two chunks a channel (the code has eight) and calls numbered modulo three: a stale chunk is told from a fresh one |
| `gui` | `StartedWhileRead`, `OneReader`, `NoEmptyPop`, `InOrder`, `CloseEnds`, `SavedGetWritten`, whichever of worker and saver dies of an exception | a queue of three (the code has ten), the least from which the pop of a handler and of a tick leave something; four frames, so that a full queue is dropped from and refilled, by overlapping calls too; every frame saved |
| `gui_single` | violated: `SingleRun` | as `gui`, with every second frame saved |
| `emitter` | `Verified`, `CalmCallsSucceed`, `FwRecovers`, `CallReturns`, with uploads that break off and both sides restarted | chirps of three writes and three uploads in a behaviour, so that parts of two earlier uploads can meet a third |
| `motor` | `CountNearTruth` | one motor, since the encoders share only the processor; five steps between the stops, more than a pin cycle; `DriftBounded` leaves out counts that a lost step or zero has carried further than the way between the stops, of which `CountNearTruth` says nothing |
| `motor_home` | violated: `HomedAtEnd` | as `motor` |

Bounds on data (`PosBound`, `TravelBound`, `QueueCap`, `WireCap`, `MaxFrames`,
`SaveCap`, `Uploads`) are guards of the environment's actions or of the places where data is
made. The proofs hold for every value of them. Deadlock is checked in every run.

**Four disagreements with the code's own words.** `Set_Max_Angle`
(`TendonMotor.cpp:410`) leaves a setpoint outside the new limit, though
`embedded_software.rst:41` says the limits constrain the setpoint. A `stop` typed
during a run waits for its end (`.ino:346`), though the header says
"immediately". The Next button, "Single run" (`connector.py:27`), is wired to `next`
and to `prev`, and on a file source stores two frames, the one at the index and the one after it. "home a motor"
(`main.cpp:379`) waits for ticks that cannot change where it waits, in a handler
that the encoder interrupts cannot preempt: it ends after one delay, wherever the
motor is then, and makes that place zero.

**Preconditions worth knowing.**

- `sonar`: a job takes 19 ms and a Python program takes far longer to start, so the
  port is normally opened with no job under way. The observer `quick` is set when it
  was not, and `EchoIsOwn` and `CallReturns` speak of the other case: a START_JOB
  outside IDLE is dropped (`ml_main.cpp:503`), the end of the old job's frame would be
  taken for the new one's beginning, and an upload would tear a chirp that is being
  played. The first chirp after power-up may lack its first samples ("cut"):
  setup() enables each DMA channel before it suspends it; the flush job clears the
  ADC channels, not the DAC's. `EchoIsOwn` allows it. The flags are modelled as
  memory: `loop()` calls functions the compiler cannot see through, so they are
  read anew although they are not volatile.
- `motor`: `CountNearTruth` excepts a count that missed a step and one whose addition
  an SPI frame's zero cut in two (`torn`): `encoder_ISR` then writes back the sum it
  had begun, and the zero is lost, though `PinnaeController.py:499` says the board
  accepts the angle as its new zero. The priority of the DMA interrupt is given in
  the hardware library, which is not here. It is let preempt the encoder
  interrupt, which only adds behaviours. Whether `delay()` ends in its handler
  depends on such priorities too, of the system clock's interrupt: the model lets
  it end and does not make it, so nothing is claimed about homing returning.
  `HomedAtEnd` is about the homings that do.
- `gui`: a source call takes a job of the sonar, or 0.1 s for a file, so a frame that
  one thread has when the other's call begins is stored before that call returns.
  Of calls that overlap nothing is assumed: worker and GUI may be in `_storeData`
  together and append their two frames in either order. `InOrder` excepts such a
  pair (`raced`), and says that its two are neighbours and nothing else is
  exchanged. A write that fails ends the saver unnoticed, and whatever is enqueued
  after it is never written: `SavedGetWritten` excepts it. Frames are numbers: ones
  misaligned by a read that timed out, and the frame that `save` enqueues and
  `compute` enqueues again, are not told from others. At most one 20 ms tick of
  the timer comes between the worker's length check and its `popleft`; `join(0.5)`
  gives up only while the worker is in a source call. `OneReader` excepts, by the
  observer `hasty`, a Next handled while the worker was between its pause check
  and the lock: two threads then do read one source. Up to Python 3.12
  `DataSaver._stop` hides `Thread._stop`, and the last join of a closing program
  ends in a traceback; nothing is left to do by then.
- `emitter`: `CalmCallsSucceed` is about calls that begin with the firmware at rest
  and, for an upload, with the maximum length known. The answer to
  GET_MAX sets `serial_error`, and the drain 5 ms later swallows whatever an upload
  that had to ask first has sent by then. The last write of a chirp whose length is
  no multiple of ten samples raises an IndexError (`BreakOff`). After a failure
  before the first ACK, `chirp_uploaded` is what an earlier upload made it, so
  `Verified` says when it can be relied on. Nor does it speak of an upload that broke
  off, of which EMIT_CHIRP plays the part that came. `FwRecovers` ends with the next
  call as well: a call that begins while the firmware still waits for data is taken
  for data.

## 4. Fairness

`TendonLinkLive` and `FieldSonar`: `loop()` runs for ever, so `UartControlled` and
`Loop` are weakly fair; a host blocked in a read goes on when bytes arrive; a DMA
block fills up and a started timer runs out. `RobatMotors`: the loop and the clock
advance; `Tick` waits in a run until the loop has come round once in this tick,
since a turn takes microseconds and a tick a millisecond. `EchoEmitter`: the
firmware's loop, its time-outs and the host's. `TendonMotor` has none.
`ChirpGui`: threads get their turns, the GUI goes on with the handler it is in, and a
lock, a source call and a file write come to an end, if only by an exception. Nothing is assumed of
users, shafts, threads' relative speed or faults; nobody has to click, and a
restart never has to happen. `CallReturnsUnlessLost` excludes loss, under which
`ReadRx` does block for ever.

## 5. What is proved

All by TLAPS, for every value of the constants; only named assumptions on
constants are used (`RequestsAssumption`, `TimeAssumption`, `ChunksAssumption` ...).

- `TendonLinkProofs`: `TypeCorrect`, under every fault; `UnsetLimitHoldsAlways`,
  assuming `NoZeroLimit` (no call sets a limit of zero);
  `OneCallHolds`, `RequestResponseAlways`, `AckMeansDoneAlways` and
  `ImplementsService`, assuming
  `CleanTransport` (requests travel whole, responses undamaged; damage to requests
  and any loss are allowed). The inductive invariant is `TypeOK /\ OneCall`:
  `RequestResponse` alone does not say that the answer under way is the answer to
  this call, nor how many stray bytes can precede it. `OneCall` counts them
  together with the ones `ReadRx` has shifted out; that there are never three is
  why its clock is never looked at and no header is cut.
- `RobatMotorsProofs`: `TypeCorrect`, `OnlyTargetDrivenAlways`, `TimerIsElapsedAlways`
  (which relates the wrapped difference to the ticks that passed, and is what
  `RunLastsRunTimeAlways` needs), `CountingAlways` (`SampledPins`,
  `CountIsSampledTravel` and `CountParity` together: each step of the proof is one
  pin transition, by cases on phase and lag), and from it `SampledPinsAlways`,
  `CountParityAlways` and `CountNearTruthAlways`.
- `FieldSonarProofs`: `TypeCorrect`, `SentBuffersAreStillAlways`, `EchoIsOwnAlways` and
  `ImplementsService`.
  The invariant
  `JobState` says where the work of a job is: from IDLE to the sending, each ADC
  channel is either running or its flag is set, never both; the DAC likewise while
  in EMIT; and in IDLE no channel runs and no such flag is left over. `Paired` says
  that a command's parameter is behind it on the wire. For `EchoIsOwn`, `Session` says
  what a host that waited its turn has under way (a job asked for, worked on,
  finished, or none), the chunks received and those on the wire counted together;
  `OneJob` says that each job records its channels anew and is asked for once. The
  refinement rests on `Session` too: `Owes` says which stage of the service each of
  its cases is, and every action moves on by one stage or stutters. It says more
  than `EchoIsOwn`: that `next` returns no frame with a chunk missing, and that a call
  is recorded once.

- `TendonMotorProofs`: `TypeCorrect` and `CountNearTruthAlways`, for any motors and any
  way between the stops. The invariant says how far the count is off and, when it
  is further off than two, that the remembered pins are the shaft's: clearing them
  makes the next look wrong by two at most, and it can happen twice only with a
  look between the two lines of `Reset_Encoder_Zero`.
- `ChirpGuiProofs`: `TypeCorrect`, `StartedWhileReadAlways`, `OneReaderAlways`,
  `NoEmptyPopAlways` and `InOrderAlways`, for any queue of three frames or more. Their
  invariant: `Locked` (who holds the lock), `Sourced` (where the GUI can be while the
  source is not started, and where the worker cannot be then), `Paused` (a Next is
  handled with the worker paused), `Lapped` (while the last source call to end did so
  during another, that other is still under way), `Filled` (how short the queue can
  have become since a store found it full, by one store, two, or a tick) and `Ordered`
  (each frame of the queue may precede all behind it, and the ones being stored, which
  may precede each other). `Ordered` needs `Lapped`: it is why of two frames being
  stored one is the last that was read and the other the one before.
- `EchoEmitterProofs`: `TypeCorrect`, `CalmCallsSucceedAlways` and `VerifiedAlways`, for
  chirps of any length and any number of uploads. `Calm` says, wait by wait, where both sides are and what is on its way in
  a call that began at rest, e.g. while data is sent that what the firmware needs is
  what the host has left plus what is on the wire. `Even` keeps samples whole.
  `Verified` is about all other calls as well, which meet a firmware in any state. Its
  invariant: nothing on the wires or in the buffer is from an upload to come (`Older`,
  for which a new upload needs an unused number, `Room`); until the first piece of an
  upload is sent there is none of it (`Untouched`); behind its data on the wire come only
  more of it or the bytes of later calls (`Piece`, `Met`); a buffer with nothing else in it
  still needs at least what is left to send and on its way, so that one
  that is full has had all of it (`Wants`); and once the right CRC is on its way or was
  received, what is on the wire can neither start nor continue an upload (`Faithful`).

Only model-checked: liveness (`CallReturnsUnlessLost`, `MotorsStop`, `JobEnds`,
`CallReturns`, `CloseEnds`, `SavedGetWritten`, `FwRecovers`), which is
out of TLAPS's reach.

## 6. Order of work

1. `TendonCommands`, `TendonService`, `TendonLink` and `TendonLinkLive`, with proofs.
2. `RobatMotors`, with proofs.
3. `FieldSonar`, with proofs of types, still buffers and own recordings.
4. `ChirpGui`, with proofs of its safety properties.
5. `TendonMotor`, with the bound on the error of its counts as a theorem.
6. `EchoEmitter`, with the proof that a calm call succeeds.
7. `SonarService` and the proof that `FieldSonar` implements it; the proof that the
   emitter plays what was verified.

All of it is done. What would come next: that the emitter and its class implement a
service of their own (upload, emit), which the parts of `Verified`'s invariant
have the states of.

## 7. Not modelled

- **Listener** (`batbot_sonar/src/main.cpp`, `bb_listener.py`): it waits for trigger
  pins without a time-out, which is a promise of hardware and not of the code; the
  rest, two buffers filled by DMA and sent by a loop, is `FieldSonar`'s shape.
- **`PinnaeController`**: sequential checks of angles against limits. Its SPI programs
  send 15 bytes (13 in `TendonControllerSPI-working.py`) to a board whose frame has 17
  (`main.cpp:57`), so its frames do not mean there what they say; `TendonMotor` has
  the board's side, with whole frames.
- **`ser_utils.py`**: pure functions on byte strings, used only by the older
  `simple_sonar.py`, whose board firmware is not among the batbot sources.
- **PID, PWM, calibration**: floating-point control; `CalibrateLimits` and its helpers
  are commented out where they were called. Index 8, which `DMAC_0_Handler` lets
  through to `tendons[8]`, is undefined behaviour that `PinnaeController`'s asserts keep from happening.
- **The end of the 32-byte receive buffer**: the library's own calls never fill it
  (`RequestResponse`).
- **ECHO**: see `TendonCommands`.
- **The playing of the emitter's chirp**, waveform generation, spectrograms, GPS
  parsing, logging, windows and plots: hardware, real-valued or I/O.
- **`batbot7/` and the scripts in the root**: older copies. **`rtl88_driver`**: vendored,
  and most of the repository's lines.
