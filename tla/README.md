# TLA+ verification of Project_Tank's camera and control gateway

This directory holds TLA+ models of the Python gateway that runs on the tank's
Raspberry Pi. The models are checked with TLC, and part of them is proved with
TLAPS. The most complete variant of the code is `src/peter/ultrasonic/web4.py`,
and the models follow its line numbers. The other `web*.py` files repeat the
same frame pipeline, so the frame-slot and capture models hold for them too.

## 1. The system

| Part | Code (web4.py unless noted) | State | Operations |
|---|---|---|---|
| Frame slot | `StreamingOutput` 73-80 | `frame`, a `threading.Condition` | `write` |
| Stream handlers | `do_GET` `/stream.mjpg` 405-424, one server thread per viewer | a local `frame`, the socket | connect, wait, copy, send, send fails |
| Capture loop | `stream_camera` 432-470 | `camera` handle, `error_count` | good read, failed read with release and reopen after more than 10 failures, processing error |
| Serial channel | `send_command_to_arduino` 105-116, `read_serial_data_thread` 120-148 | `ser`, `serial_lock`, `ultrasonic_distance` | write a command, poll a line |
| Command endpoints | `do_GET` `/tank_command`, `/turret_move`, `/set_mouse_pos` 278-382; `web_fixed.py` 117-209 | none (they call the serial channel) | validate, compute pan steps, send, reply |
| Composite-vector link | `src/Guy/peter/web_fixed.py`: reader 80-114, `/tank_command` 190-209, `cleanup_gpio` 317-335, `main` 337-367 | `ser`, `ultrasonic_distance` | reply 200, parse, write the vector; read a line; close without a stop |
| Lifecycle | `main` 494-556, `cleanup_gpio` 473-492 | process phase | open serial, send X, start the reader, open the camera, start the server and the capture thread; on a signal, write X, sleep, close, exit |
| Turret tilt | `MouseControlThread` 151-214 | `current_tilt_angle`, `self.lock` | adjust_tilt, set_pos, run loop, stop |
| Drag-to-aim turret | `src/Peter/web.py` `MouseControlThread` 74-131, `/set_mouse_pos` 220-232, `cleanup_gpio` 320-329 | `x`, `y`, `running`, the two servos | set_pos, run loop (pan and tilt), stop and join |
| LED blink | `src/Peter/web.py` 61-72, 188-207 | blink thread, `blink_stop_event` | start a blink, stop the previous one |
| LED scripts | `src/led/*.py` | GPIO pins | keyboard loop |

How the parts interact:
- The capture thread is the only writer of the frame slot.
- Every viewer's handler thread reads the slot.
- HTTP handler threads and the serial reader share the port under `serial_lock`.
- The signal handler runs in the main thread while all the others keep running until `os._exit`.

The hard behaviours are these:
- The condition variable is used without a predicate, so notifications can be lost.
- Client disconnects are only noticed on the next socket write.
- The camera can fail, and it is reopened only after a run of failures.
- The shutdown write and close do not take the serial lock.
- A single exception ends the telemetry thread.

## 2. Modules

- **FrameSlot.tla**: the slot together with N stream-handler threads. Variables:
  - `frame` is `StreamingOutput.frame`;
  - `pc[r]` is where thread r is in its loop;
  - `got[r]` is its local `frame`;
  - `connected[r]` says whether the viewer's socket is still open.

  Each critical section of the condition's lock is one atomic step: `Write`, `Wait` (register as a waiter), `Reacquire` (return from `wait()` and copy). Socket writes are `SendFrame` and `SendFails`. `Disconnect` is the environment.

  A frame is modelled by its object identity. `write()` stores a new bytes object that no thread references, chosen from `FrameIds \ Live`. Identities are recycled, so a finite `FrameIds` allows unboundedly many publishes.
- **CaptureLoop.tla** extends FrameSlot with the capture thread and the camera. One loop iteration is one step: `ReadOK`, `ReadFails` (which includes the release and reopen) or `ProcessingFails`. `DeviceFails` and `DeviceReturns` are the environment.

  `error_count` saturates at `Threshold + 2`, which loses nothing because the code only compares it with 10. `sinceOpen` is a ghost counter of failed reads since the last good read or successful reopen.
- **SerialChannel.tla**: the port as seen by the microcontroller. Variables:
  - `wire` holds the commands it received;
  - `inbox` holds the lines it sent that are not read yet;
  - `telemetry` is `ultrasonic_distance`;
  - `reader` is the reader thread's state;
  - `main` is the shutdown phase.

  Each `with serial_lock` section is one step: `SendCommand`, `ReaderStep`. `cleanup_gpio` is split into `Signal` (write X without the lock), `ClosePort` and `Exit`, because the other threads run between them.

- **TurretTilt.tla**: web4.py's tilt thread. `AdjustTilt` and `SetPos` are the
  handler calls, each one atomic step under `self.lock`. `StopThread` is `stop()`.
  One iteration of `run()` has four steps, because `self.current_tilt_angle +=`
  runs outside the lock:
  - `RunSnapshot` copies `y` and the angle under the lock;
  - `RunCompute` computes the target and the increment;
  - `RunStore` is the load and store of the `+=`;
  - `RunApply` writes the servo.

  Angles are integers in tenths of a degree. `Gain` rounds the product `* 0.1` toward zero.
- **Blink.tla**: `/gpio_blink` in each of several server threads (`Request`,
  `JoinReturns`, `ClearEvent`, `StartThread`) and each blink thread's loop (`Check`,
  `Off`, `Finish`). `join(timeout=1)` may return while the old thread is still in
  a blink, because a blink lasts as long as the timeout. The model takes that as a
  nondeterministic alternative to the thread's end.
- **TankLink.tla**: `web_fixed.py`'s link. Its handler is not atomic, and each
  stage is a step of the handler's thread:
  - `Receive` sends the 200;
  - `Parse` runs `parse_tank_command` and the early return on `ser is None`;
  - `WriteVector` writes under `serial_lock`.

  A query is abstracted to the drive vector it encodes and whether all five fields
  parse. The telemetry reader is `ReaderStep`, and the shutdown is `Signal`,
  `ClosePort` and `Exit` (the stop write is commented out in this variant).
- **CommandDispatch.tla**: web4.py's three command endpoints, each one atomic step
  (its only shared effect is its serial write), and `send_command_to_arduino`
  (`Forward`). `/tank_command`'s parsing cannot raise, so its only answers are
  200 and 400. `PortFails` is the adapter going away, after which `ser.write`
  raises and the exception is logged. `PanSteps` is `int(x / 32)` clamped to ±10.
  The log records each reply with the command it meant to send. The handler
  tests its conditions in order (no GPIO, a malformed query, a move), so each CASE
  arm includes the negations of the tests before it, and at most one arm applies.
- **ServoAim.tla**: the abstract specification of one drag-controlled axis. It has
  an aim in `-Range..Range`; while active, the axis is moved toward the aim and
  never past it (`Track`); `Retarget` changes the aim; `Halt` stops the axis.
- **MouseServo.tla**: `src/Peter/web.py`'s pan-and-tilt thread. `SetPos` is
  `set_pos`. One loop iteration has two steps, because the lock is released at
  line 107 before the servos are written:
  - `RunCopy` is the `while self.running` test and the locked copy into the locals
    `tx`, `ty`;
  - `RunMove` is the arithmetic on the locals and the servo writes (109-123),
    which no other thread touches.

  `RunEnds`, `Stop` and `Joined` model the loop's exit and `cleanup_gpio`'s `stop()`
  and `join()`. A `set_pos` or a `stop()` can land between `RunCopy` and `RunMove`.
  `PanAxis` and `TiltAxis` are INSTANCEs of ServoAim under this refinement mapping:
  - aim ← the clamped target of the *copied* drag;
  - pos ← the angle;
  - active ← run() has not returned.

  The mapping cannot use the current `self.x` or `running`. With
  aim ← `PanTarget(x)`, TLC finds a move away from the aim: drag to -160, the
  thread copies it, the drag returns to 0, and the servo still moves to -4.5°.
  With active ← `running`, a `stop()` after the copy is followed by one more move.
  Both follow from the design: a drag takes effect on the next iteration, 10 ms
  later, and stop() takes effect at the next `while` test. The spec leaves servo
  smoothing out of scope, so neither is a finding.

Each MC_*.tla module only extends its model with TLC to hold definitions for the .cfg files: symmetry sets, and sets of negative or edge-case inputs that a .cfg cannot write.

## 3. Runs

| Run | Checks | Bounds | Result |
|---|---|---|---|
| frameslot_safety | `DeliversNewFrame`: a thread never takes None or the frame it sent last; `ClientGoneThreadEnds`: a disconnected viewer's thread ends while frames keep coming | 2 threads, 4 frame ids | passes |
| frameslot_missed | `NoMissedFrame`, the spec's waitForNext contract | 2 threads, 4 ids | **violated** |
| capture_reopen | `ReopenOnlyAfterFailureRun`: reopen only after more than 10 consecutive failures; `CaptureRecovers`: once the device works for good, frames flow again | Threshold 10, 1 thread, 3 ids | passes |
| serial_flow | `TelemetryKeepsFlowing`: every line sent while the port is open is read | 3 lines, 3 commands | passes |
| serial_shutdown | `StopIsLastCommand`: after exit, the last command the motors got is X | the same | **violated** |
| tilt_settle | `ServoValueInRange` (the servo is given a value in [-1, 1]) and `TiltSettles` (once requests stop, the servo settles on the drag target) | drags 0, ±240, 3 handler calls | passes |
| blink_idle | `LedOffWhenIdle`: no blink thread running ⇒ LED off | 2 handlers, counts 1-2, 3 threads | passes |
| link_telemetry | `TelemetryNeverMisleads`: never "ERROR", and N/A once the reader died | 2 clients, 2 vectors, 2 lines, 2 requests | passes |
| link_status | `OneStatusPerRequest`: one status line per response | the same | **violated** |
| dispatch_pan | `PanFollowsDrag`: every drag pan is the whole number of 32-px steps in x, signed, capped at 10, never P0 | x in {0, ±31, ±32, ±33, -319, -320, 319, 321, -353}, 3 requests | passes |
| servo_aim | `PanImplementsAim` = `PanAxis!AimSpec` and `TiltImplementsAim` = `TiltAxis!AimSpec`, aimed at the copied drag, fairness included | x in {0, -160, 336}, y in {0, -120, 256}, 2 requests | passes |

The listed runs above are the ones in PROJECT.json. The configurations below are kept beside them.
Each checks one more statement of the spec or of a code comment, and TLC finds each one violated by the code.
Run them with `tlc -workers 2 -config <cfg> MC_<module>`:

| Check | Property | Bounds | Result |
|---|---|---|---|
| serial_garbage (`SerialChannel_garbage.cfg`) | `TelemetryKeepsFlowing`, with a line that is not UTF-8 | as in its module's listed run | **violated** |
| serial_error_sentinel (`SerialChannel_error.cfg`) | `ErrorReadingIsSentinel`: "Dist:ERROR" is never shown as a distance | as in its module's listed run | **violated** |
| tilt_range (`TurretTilt_range.cfg`) | `TiltWithinRange`: the angle stays in ±45 degrees | as in its module's listed run | **violated** |
| tilt_dpad (`TurretTilt_dpad.cfg`) | `DpadTiltPersists`: a D-pad tilt stays put, as adjust_tilt's comment says | as in its module's listed run | **violated** |
| blink_one (`Blink_one.cfg`) | `OneBlinkSequence`: at most one blink thread is in its loop | as in its module's listed run | **violated** |
| link_drain (`TankLink_drain.cfg`) | `DrainStops`: after exit, the motors were last told to stop | as in its module's listed run | **violated** |

Why these bounds are enough:
- Threshold is the code's real value, 10. The saturated counter makes the state space finite without cutting off any behaviour.
- Two stream threads let one thread be sending while the other waits or has just connected when a write happens. Four frame ids cover each thread's frame, the slot's frame and a fresh one, so a write always finds an id no thread holds.
- Three lines and three commands allow a command during the shutdown window and a good line after a bad one.
- The x offsets of dispatch_pan sit on both sides of every step edge (31/32/33), at the cap (319, 320, 321, 353) and on both signs. That is where a floor-for-truncation or off-by-one bug shows.
- The drag offsets of the servo runs include values beyond the video frame (336 > 320, 256 > 240). The clamp therefore matters. Two requests let the target change while the axis is moving.
- Three blink threads with two handlers let a request arrive while an old thread is mid-blink and another handler is between join and start.

Every passing property has a mutant in PROJECT.json, a plausible bug in the mapped code that TLC shows violates it:

| Property | Mutant |
|---|---|
| `DeliversNewFrame` | `WaitOnlyWhenEmpty`, a naive fix of the lost wakeup |
| `ClientGoneThreadEnds` | `SendFailsInLoop`, the try moved inside the loop |
| `ReopenOnlyAfterFailureRun` | `ReadFailsNoReset` |
| `CaptureRecovers` | `ReadFailsReopenOnce` (`== 11`) |
| `TelemetryKeepsFlowing` | `ReaderStepStopsWhenIdle` |
| `ServoValueInRange` | `RunStoreSwapped` |
| `TiltSettles` | `RunApplyNoWrite`, the servo write dropped |
| `LedOffWhenIdle` | `CheckLate`, the stop check after `on()` |
| `TelemetryNeverMisleads` | `ReaderStepKeepsValue`, web4.py's reader that leaves the value alone on an exception |
| `PanFollowsDrag` | `PanStepsFloor`, `x // 32` instead of `int(x / 32)` |
| `PanImplementsAim` | `PanTargetNoClamp`, the clamp dropped |
| `TiltImplementsAim` | `MoveAtThreshold`, the test written `>= 1` |

## 4. Findings

Each violation run shows a real disagreement between the code and the spec. The details and source lines are in PROJECT.json:
- **Lost wakeup (frameslot_missed):** a new viewer, or a thread that was busy sending, waits for the *next* frame even though the slot already holds one it has not sent. With a stalled camera the viewer sees nothing.
- **Reader thread killed (serial_garbage):** one line that is not valid UTF-8 kills the telemetry thread for good, and `/get_distance` keeps serving the last value.
- **Late motion command (serial_shutdown):** a motion command sent during cleanup's 0.1 s sleep reaches the motors after the stop.
- **ERROR shown as a distance (serial_error_sentinel):** `Dist:ERROR` is shown as the distance "ERROR" instead of the unavailable sentinel.

- **Tilt lost update (tilt_range, tilt_dpad):** `run()` copies the angle under the lock and later does `+=` without it. A D-pad press in between is lost, and two presses during the `+=` push the angle past the ±45 degree clamp. Even without the race, the loop steers a D-pad tilt straight back to the drag target, contrary to adjust_tilt's comment.
- **Two blink threads (blink_one):** `join(timeout=1)` times out while the old thread is mid-blink. `clear()` then withdraws the stop request, and both threads blink the same LED.
- **Double status line (link_status):** web_fixed.py answers 200 before parsing. A missing field then raises, and `send_error(500)` writes a second status line; the spec asks for 400.
- **No stop on exit (link_drain):** web_fixed.py's stop write is commented out, so the motors keep the last vector after shutdown.

Not a finding: `send_command_to_arduino` swallows write errors and returns early
when `ser` is None, so the handlers answer 200 for a command that was never sent.
Spec section 4.3 says that a link that was never opened, or a failed write, fails
silently by design, and section 9 keeps that fire-and-forget policy. The model
keeps this behaviour (`Forward`, `Forwarded`) but checks no property against it.

## 5. Fairness

- **Stream threads:** the server threads are preemptive OS threads, so each gets weak fairness on its own steps.
- **Frame production:**
  - In FrameSlot alone, `Write` is weakly fair. This stands for a capture loop with a working camera.
  - CaptureLoop drops that assumption. It assumes weak fairness of the capture thread and *strong* fairness of `ReadOK`: a working device behind a valid handle does not drop frames forever. Dropped frames and device failures can disable `ReadOK` for a while, so weak fairness would not be enough.
- **Serial reader:** it gets weak fairness.
- **Shutdown:** once `cleanup_gpio` has started, it finishes (weak fairness on `ClosePort` and `Exit`).
- **No fairness:** the viewers, the microcontroller, the camera device and the operator's signal are the environment and are not obliged to act.

- **Tilt and mouse threads:** each loop step is weakly fair (daemon threads that run while `running`). The handlers and the operator are the environment.
- **Blink:** blink threads and the handlers' clear and start steps are weakly fair. A join is only *required* to return once its thread has ended (`JoinReturnsWhenDone`); the early return on timeout is allowed, not forced.
- **TankLink:** a handler that has begun is weakly fair in its parse and write steps, and so are the reader and the shutdown steps. CommandDispatch checks only safety and has no fairness.

SerialChannel runs use `CHECK_DEADLOCK FALSE`. This is correct because the process really stops at `os._exit`. TankLink and MouseServo stop at their exit too, CommandDispatch and Blink stop at their request bounds, and TurretTilt once `stop()` has ended the loop, so their runs do the same.

## 6. Proofs

`FrameSlotProofs.tla` proves these theorems for every set of threads and every set of frame identities:
- `TypeCorrect`: `Spec => []TypeOK`.
- `IInvariant`: `Spec => []IInv`, where `IInv == TypeOK /\ WokenSeesNewFrame`.
- `NoDuplicateDelivery`: `Spec => DeliversNewFrame`, the property of the run frameslot_safety.

Why `DeliversNewFrame` needs a strengthening. It is an action property, and it is not implied by typing alone. It needs `WokenSeesNewFrame`: a woken thread finds a frame in the slot that differs from its own. That holds because the only step that wakes waiters, `Write`, also stores a fresh object (lemma `WriteIsFresh`).

How the proof is built:
- The inductive step is proved one action at a time.
- The temporal theorem combines the invariant with the step lemma `StepDeliversNewFrame` by PTL.
- The only assumptions are those of `FrameSlotAssumption` (`None` is not a frame id, and there is at least one thread).

`ServoAim.tla` proves `AimInRange`: for every `Range \in Nat`, an axis that behaves
as `AimSafety` allows stays in `-Range..Range`. The inductive invariant `AimInv`
says that both the aim and the position are in range. It holds because `Track` only
moves toward an aim that is in range.

`MouseServoProofs.tla` proves the refinement for every set of drag inputs allowed
by `MouseAssumption` and for every request bound:
- `MouseInvariant`: `MInv` is invariant. `MInv` is the type invariant plus
  `running = (cpc = "idle")`.
- `PanRefinesAim` and `TiltRefinesAim`: `MouseSafety => PanAxis!AimSafety`, and the
  same for tilt. These are the safety parts of the two properties that servo_aim
  checks, with aim ← the copied target and active ← run() has not returned. The
  proof follows the usual refinement layout:
  - the initial state maps to `AimInit`;
  - each step maps to a ServoAim step or a stutter:
    - `RunCopy` is `Retarget`;
    - a moving `RunMove` is `Track` (lemma `MoveTowardTarget`), and a `RunMove`
      on target is a stutter (lemma `MoveOnTarget`);
    - `RunEnds` is `Halt`;
    - `SetPos`, `Stop` and `Joined` are stutters, because the aim follows the
      copy and not `self.x`, and the axis halts when the loop exits, not when
      `running` is cleared.

  Lemmas `ClampInRange` and `TargetsInRange` show that every target is in range.
- `ServosInRange`: the instantiated `AimInRange` gives both angles in range, so the
  values written to gpiozero are always in [-1, 1].

`TurretTiltProofs.tla` proves, for every set of drag offsets allowed by
`TiltAssumption` and every request bound:
- `TiltInvariant`: `TiltSafety => []TiltIInv`.
- `ServoStaysInRange`: `TiltSafety => []ServoValueInRange`, the invariant of the
  run tilt_settle.

`ServoValueInRange` is not inductive as it stands. `RunStore` adds an increment
computed from the loop's copy `cur` to the value `loaded` that the `+=` read, and
`adjust_tilt` may have changed the attribute in between. `TiltIInv` therefore bounds
every angle the thread or a handler holds by `RaceBound` (55 degrees), not by the
45-degree clamp. It also records where a value that differs from the copy came
from. In `compute` the attribute either equals the copy or was written by
`adjust_tilt`, so it is within the clamp. In `store` the same holds for `loaded`.
From a copy of at most 55 degrees and a target of at most 45, a tenth of the
difference (lemma `GainBetween`) keeps the sum within 55. So the race can carry
the angle past the clamp (the violation run TurretTilt_range shows it), but never
past 55 degrees, and 55/90 < 1. TLC checked `TiltIInv` on a run with three
handler calls before the proof.

`BlinkProofs.tla` proves `LedInvariant` (`BlinkSafety => []LedIInv`) and
`LedOffWhenNoThread` (`BlinkSafety => []LedOffWhenIdle`, the invariant of blink_idle).
`LedIInv` says that the LED is on only while some thread is in `lit`. It also says
that threads numbered above `started` are still unstarted. That second clause is
needed for `StartThread`: the new thread must not be the one that holds the LED on.

`TankLinkProofs.tla` proves `TelemetryInvariant`:
`TankLinkSafety => []TelemetryNeverMisleads`, the invariant of link_telemetry.
The property is inductive as it stands. The proof goes through each reader
outcome (port closed, no line, garbage, a distance, an error reading) and then
the client and shutdown steps.

`DispatchProofs.tla` proves, for every set of drag offsets:
- the lemma `PanStepsSound`: a non-zero `PanSteps(x)` has the sign of x, is at most
  |x|/32, and is short of it by less than one step unless it is capped at 10. This
  is integer arithmetic on truncating division, split on the sign of x;
- `PanInvariant`: `DispatchSafety => []PanIInv`. `PanIInv` says that the wire is a
  sequence of commands and that every command on it is as `PanFollowsDrag` asks.
  The type part is what lets the proof look inside `Append`;
- `PanDragSound`: `DispatchSafety => []PanFollowsDrag`, the invariant of dispatch_pan.

Every step either leaves the wire alone or forwards one command that is as
`PanFollowsDrag` asks (`WireStep` and lemma `ForwardKeeps`). This covers drives,
D-pad pans and drag pans, whether or not the port is open.

`CaptureLoopProofs.tla` proves, for every `Threshold \in Nat` and every frame slot:
- `CountInvariant`: `CaptureSafety => []CountIInv`. `CountIInv` says that
  `errorCount <= sinceOpen`: `error_count` never counts more failures than there
  have been since the last good read or successful reopen;
- `ReopenOnlyAfterFailures`: `CaptureSafety => ReopenOnlyAfterFailureRun`, the
  action property of capture_reopen.

The action property follows from the invariant because the saturating increment
is monotone (lemma `IncMonotone`). The invariant holds because every step that
resets one counter resets both. A failed reopen increments both, and the stream
threads touch neither.

These are checked by TLC only:
- all liveness properties: `ClientGoneThreadEnds`, `CaptureRecovers`,
  `TelemetryKeepsFlowing`, `TiltSettles`, and the fairness half of
  `PanImplementsAim` and `TiltImplementsAim` (the axis settles). TLAPS does not
  reason about fairness or ENABLED;
- the violation runs, which show a counterexample rather than a property.

Every safety property of a passing run is now stated by a theorem.

## 7. Plan for the remaining work

1. **Gateway:** main's start order composed with SerialChannel and CaptureLoop. The property: the first command is X and no command precedes it. It also covers the camera-failure exit path.
2. **Proofs:** type correctness of CaptureLoop, CommandDispatch and TankLink (the
   bounds on pan steps and log entries), for every value of the constants.
3. **Peter/test2/web.py:** blinking inline in the handler thread, so concurrent requests interleave on one LED.

## 8. Not modelled

- Page and text formatting (`/`, `/get_time`, `/get_latency`). They are pure output with no shared state.
- GPIO LEDs and the laser, beyond their role in Blink.
- The standalone `src/led` scripts. They are single-threaded and do not interact with the gateway.
- The JPEG conversion pipeline. Only its success or failure matters to the loop.
- `src/peter/main/web.py`'s MouseControlThread. It is Peter/web.py's class except that `stop()` does not join, so MouseServo covers its loop.
- The Nui streamer and the test variants (`src/Nui`, `src/Peter/test*`) outside their frame and capture loops, which FrameSlot and CaptureLoop cover. Their lifecycles are left out: `exit(0)` in a signal handler and `KeyboardInterrupt`.
