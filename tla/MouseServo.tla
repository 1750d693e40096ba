----------------------------- MODULE MouseServo -----------------------------
(***************************************************************************)
(* The drag-to-aim turret of src/Peter/web.py: MouseControlThread (74-131), *)
(* which the /set_mouse_pos handler (220-232) feeds and cleanup_gpio       *)
(* (320-329) stops.  The same class is in src/peter/main/web.py (123-180), *)
(* where stop() does not join.                                             *)
(*                                                                         *)
(* set_pos writes x and y under self.lock.  One iteration of run() has two *)
(* steps: the `while self.running` test with the locked copy of x and y    *)
(* (104-107), and, after the lock is released, the arithmetic on the       *)
(* thread's locals and the servo writes (109-123).  set_pos and stop() can *)
(* run between the two, so the servos may move toward a target that a     *)
(* newer drag has replaced, or once more after running became False.      *)
(* Only this thread touches the servos, and each servo is written with the *)
(* local angle in the branch that updates it, so pan and tilt stand for    *)
(* both the locals and the servos.  Angles are integers in tenths of a     *)
(* degree; the float step (target - current) * 0.1 is rounded toward zero *)
(* and the test `abs(...) > 1` becomes `> 10`.                             *)
(***************************************************************************)
EXTENDS Integers

CONSTANTS
    Xs,           \* drag x offsets (multiples of 16, so the pan target is exact)
    Ys,           \* drag y offsets (multiples of 8, so the tilt target is exact)
    MaxRequests   \* bound on the /set_mouse_pos requests

ASSUME MouseAssumption ==
    /\ Xs \subseteq Int /\ Ys \subseteq Int
    /\ \A xx \in Xs : xx % 16 = 0
    /\ \A yy \in Ys : yy % 8 = 0
    /\ MaxRequests \in Nat

PanRange == 900     \* PAN_RANGE = 90 degrees
TiltRange == 450    \* TILT_RANGE = 45 degrees
Tol == 10           \* `abs(target - current) > 1` degree

Abs(n) == IF n < 0 THEN -n ELSE n
Clamp(n, b) == IF n > b THEN b ELSE IF n < -b THEN -b ELSE n

(* (target / half video size) * range, clamped: HALF_VIDEO_WIDTH = 320 and *)
(* HALF_VIDEO_HEIGHT = 240.                                                *)
PanTargetNoClamp(xx) == (xx * 45) \div 16
PanTarget(xx) == Clamp((xx * 45) \div 16, PanRange)
TiltTarget(yy) == Clamp((yy * 15) \div 8, TiltRange)

(* (target - current) * 0.1, rounded toward zero to a tenth of a degree.   *)
Gain(d) == IF d >= 0 THEN d \div 10 ELSE -((-d) \div 10)

(* Mutant: the test written `>= 1` degree.                                 *)
MoveAtThreshold(cur, tgt) ==
    IF Abs(tgt - cur) >= Tol THEN cur + Gain(tgt - cur) ELSE cur

(* `if abs(target - current) > 1: current += (target - current) * 0.1`,    *)
(* followed by the servo write.                                            *)
Move(cur, tgt) ==
    IF Abs(tgt - cur) > Tol THEN cur + Gain(tgt - cur) ELSE cur

VARIABLES
    x, y,       \* self.x, self.y
    running,    \* self.running
    tpc,        \* the thread: "loop" (at the while test), "move" (after the copy)
                \* or "ended"
    tx, ty,     \* run()'s locals target_x, target_y
    pan, tilt,  \* current_pan_angle, current_tilt_angle and the servos
    cpc,        \* cleanup_gpio: "idle", "join" (in stop()) or "exited"
    requests    \* /set_mouse_pos requests so far

mouseVars == <<x, y, running, tpc, tx, ty, pan, tilt, cpc, requests>>

MouseTypeOK ==
    /\ x \in Xs \cup {0} /\ y \in Ys \cup {0}
    /\ running \in BOOLEAN
    /\ tpc \in {"loop", "move", "ended"}
    /\ tx \in Xs \cup {0} /\ ty \in Ys \cup {0}
    /\ pan \in Int /\ tilt \in Int
    /\ cpc \in {"idle", "join", "exited"}
    /\ requests \in 0..MaxRequests

(* __init__: x = y = 0, running; run() starts with both angles 0.          *)
MouseInit ==
    /\ x = 0 /\ y = 0
    /\ running = TRUE /\ tpc = "loop"
    /\ tx = 0 /\ ty = 0
    /\ pan = 0 /\ tilt = 0
    /\ cpc = "idle"
    /\ requests = 0

-----------------------------------------------------------------------------
(* /set_mouse_pos?x=..&y=..: int() both, then set_pos under the lock.      *)
SetPos(xx, yy) ==
    /\ cpc # "exited"
    /\ requests < MaxRequests
    /\ x' = xx /\ y' = yy
    /\ requests' = requests + 1
    /\ UNCHANGED <<running, tpc, tx, ty, pan, tilt, cpc>>

(* `while self.running:` holds; under the lock, target_x = self.x and      *)
(* target_y = self.y.                                                      *)
RunCopy ==
    /\ tpc = "loop" /\ running
    /\ tx' = x /\ ty' = y
    /\ tpc' = "move"
    /\ UNCHANGED <<x, y, running, pan, tilt, cpc, requests>>

(* Without the lock: compute both targets from the copy, move each axis a  *)
(* tenth of the way to its target and write its servo; sleep, loop.        *)
RunMove ==
    /\ tpc = "move"
    /\ pan' = Move(pan, PanTarget(tx))
    /\ tilt' = Move(tilt, TiltTarget(ty))
    /\ tpc' = "loop"
    /\ UNCHANGED <<x, y, running, tx, ty, cpc, requests>>

(* The loop sees running = False and run() returns.                        *)
RunEnds ==
    /\ tpc = "loop" /\ ~running
    /\ tpc' = "ended"
    /\ UNCHANGED <<x, y, running, tx, ty, pan, tilt, cpc, requests>>

(* cleanup_gpio on SIGINT/SIGTERM: LEDs off, blink event set, then stop(): *)
(* self.running = False and self.join().                                   *)
Stop ==
    /\ cpc = "idle"
    /\ running' = FALSE /\ cpc' = "join"
    /\ UNCHANGED <<x, y, tpc, tx, ty, pan, tilt, requests>>

(* join() returns once run() has; laser.off(), exit(0).                    *)
Joined ==
    /\ cpc = "join" /\ tpc = "ended"
    /\ cpc' = "exited"
    /\ UNCHANGED <<x, y, running, tpc, tx, ty, pan, tilt, requests>>

MouseNext ==
    \/ \E xx \in Xs, yy \in Ys : SetPos(xx, yy)
    \/ RunCopy \/ RunMove \/ RunEnds \/ Stop \/ Joined

(* The control thread and the main thread, once in cleanup, are scheduled. *)
MouseSpec ==
    /\ MouseInit /\ [][MouseNext]_mouseVars
    /\ WF_mouseVars(RunCopy) /\ WF_mouseVars(RunMove)
    /\ WF_mouseVars(RunEnds) /\ WF_mouseVars(Joined)

-----------------------------------------------------------------------------
(* Each axis is a ServoAim axis whose aim is the target of the drag the    *)
(* thread last copied, and which is driven until run() returns.  The aim   *)
(* is not the target of the current self.x: a set_pos after the copy takes *)
(* effect on the next iteration.  Nor is the axis halted by stop() itself: *)
(* a move already past the `while` test still happens.                     *)
PanAxis == INSTANCE ServoAim
    WITH Range <- PanRange, Tol <- Tol,
         aim <- PanTarget(tx), pos <- pan, active <- tpc # "ended"
TiltAxis == INSTANCE ServoAim
    WITH Range <- TiltRange, Tol <- Tol,
         aim <- TiltTarget(ty), pos <- tilt, active <- tpc # "ended"

(* The pan servo only moves toward the target of the drag it copied, never *)
(* past it and never out of +-90 degrees, stops moving once run() has      *)
(* returned, and settles on the target while the thread runs.              *)
PanImplementsAim == PanAxis!AimSpec

(* The same for the tilt servo and the copied y, within +-45 degrees.      *)
TiltImplementsAim == TiltAxis!AimSpec
=============================================================================
