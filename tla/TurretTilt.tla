----------------------------- MODULE TurretTilt -----------------------------
(***************************************************************************)
(* The tilt servo of src/peter/ultrasonic/web4.py: MouseControlThread      *)
(* (151-214) and the handler calls that drive it, adjust_tilt from         *)
(* /turret_move?dir=U|D (326-331) and set_pos from /set_mouse_pos (374).   *)
(*                                                                         *)
(* The run() loop copies self.y and self.current_tilt_angle under          *)
(* self.lock, then, without the lock, moves the angle 10% of the way to    *)
(* the drag target with `self.current_tilt_angle += ...` (a load and a     *)
(* store of the attribute, between which another thread may run) and       *)
(* writes the servo.  adjust_tilt and set_pos run entirely under the lock, *)
(* so each is one atomic step.                                             *)
(*                                                                         *)
(* Angles are integers in tenths of a degree.  The float product           *)
(* (target - current) * 0.1 is rounded toward zero to a tenth; the code's  *)
(* test `abs(target - current) > 1` (degrees) becomes `> 10`.              *)
(***************************************************************************)
EXTENDS Integers

CONSTANTS
    Ys,           \* mouse y offsets sent to /set_mouse_pos (multiples of 8)
    MaxRequests   \* bound on the handler calls (adjust_tilt, set_pos)

ASSUME TiltAssumption ==
    /\ Ys \subseteq Int /\ 0 \in Ys
    /\ \A yy \in Ys : yy % 8 = 0
    /\ MaxRequests \in Nat

TiltRange == 450       \* self.TILT_RANGE = 45 degrees
DpadDelta == 50        \* TURRET_TILT_DELTA_ANGLE = 5 degrees
ServoLimit == 900      \* tilt_servo.value = angle / 90.0 must lie in [-1, 1]

Abs(n) == IF n < 0 THEN -n ELSE n
Clamp(n, b) == IF n > b THEN b ELSE IF n < -b THEN -b ELSE n

(* target_tilt_angle = (target_y / HALF_VIDEO_HEIGHT) * TILT_RANGE,        *)
(* clamped: with HALF_VIDEO_HEIGHT = 240 this is y * 15 / 8 tenths.        *)
Target(yy) == Clamp((yy * 15) \div 8, TiltRange)

(* (target - current) * 0.1, rounded toward zero to a tenth of a degree.   *)
Gain(d) == IF d >= 0 THEN d \div 10 ELSE -((-d) \div 10)

VARIABLES
    tilt,       \* self.current_tilt_angle
    y,          \* self.y
    servo,      \* the angle last written to tilt_servo
    running,    \* self.running
    rpc,        \* where run() is: "loop", "compute", "store", "apply", "stopped"
    cur,        \* run()'s local current_tilt_angle
    ty,         \* run()'s local target_y
    loaded,     \* the value of self.current_tilt_angle loaded by `+=`
    requests,   \* handler calls so far
    dpadSet,    \* ghost: the last handler call was adjust_tilt
    dpadAngle   \* ghost: the angle that adjust_tilt set

tiltVars == <<tilt, y, servo, running, rpc, cur, ty, loaded, requests,
              dpadSet, dpadAngle>>

TiltTypeOK ==
    /\ tilt \in Int /\ servo \in Int /\ cur \in Int /\ loaded \in Int
    /\ y \in Ys /\ ty \in Ys
    /\ running \in BOOLEAN
    /\ rpc \in {"loop", "compute", "store", "apply", "stopped"}
    /\ requests \in 0..MaxRequests
    /\ dpadSet \in BOOLEAN /\ dpadAngle \in -TiltRange..TiltRange

(* __init__: x = y = 0, current_tilt_angle = 0; the thread is started at   *)
(* import time when GPIO is available.                                     *)
TiltInit ==
    /\ tilt = 0 /\ y = 0 /\ servo = 0
    /\ running = TRUE
    /\ rpc = "loop"
    /\ cur = 0 /\ ty = 0 /\ loaded = 0
    /\ requests = 0
    /\ dpadSet = FALSE /\ dpadAngle = 0

-----------------------------------------------------------------------------
(* adjust_tilt(delta): under the lock, add delta, clamp to the tilt range  *)
(* and write the servo.                                                    *)
AdjustTilt(d) ==
    /\ requests < MaxRequests
    /\ tilt' = Clamp(tilt + d, TiltRange)
    /\ servo' = tilt'
    /\ requests' = requests + 1
    /\ dpadSet' = TRUE /\ dpadAngle' = tilt'
    /\ UNCHANGED <<y, running, rpc, cur, ty, loaded>>

(* set_pos(x, y): under the lock, store the drag position.                 *)
SetPos(yy) ==
    /\ requests < MaxRequests
    /\ y' = yy
    /\ requests' = requests + 1
    /\ dpadSet' = FALSE
    /\ UNCHANGED <<tilt, servo, running, rpc, cur, ty, loaded, dpadAngle>>

(* stop(), called from cleanup_gpio: self.running = False.                 *)
StopThread ==
    /\ running
    /\ running' = FALSE
    /\ UNCHANGED <<tilt, y, servo, rpc, cur, ty, loaded, requests,
                   dpadSet, dpadAngle>>

(* `while self.running:` then, under the lock, target_y = self.y and       *)
(* current_tilt_angle = self.current_tilt_angle.                           *)
RunSnapshot ==
    /\ rpc = "loop"
    /\ IF running
         THEN /\ rpc' = "compute" /\ cur' = tilt /\ ty' = y
         ELSE /\ rpc' = "stopped" /\ UNCHANGED <<cur, ty>>
    /\ UNCHANGED <<tilt, y, servo, running, loaded, requests, dpadSet, dpadAngle>>

(* Without the lock: compute the target; if it is more than 1 degree from  *)
(* the copied angle, `self.current_tilt_angle += ...` loads the attribute; *)
(* otherwise sleep and loop.                                               *)
RunCompute ==
    /\ rpc = "compute"
    /\ IF Abs(Target(ty) - cur) > 10
         THEN rpc' = "store" /\ loaded' = tilt
         ELSE rpc' = "loop" /\ UNCHANGED loaded
    /\ UNCHANGED <<tilt, y, servo, running, cur, ty, requests, dpadSet, dpadAngle>>

(* Mutant: the difference taken the wrong way round, (current - target).   *)
RunStoreSwapped ==
    /\ rpc = "store"
    /\ tilt' = loaded + Gain(cur - Target(ty))
    /\ rpc' = "apply"
    /\ UNCHANGED <<y, servo, running, cur, ty, loaded, requests, dpadSet, dpadAngle>>

(* ... and stores loaded + (target - copied angle) * 0.1.                  *)
RunStore ==
    /\ rpc = "store"
    /\ tilt' = loaded + Gain(Target(ty) - cur)
    /\ rpc' = "apply"
    /\ UNCHANGED <<y, servo, running, cur, ty, loaded, requests, dpadSet, dpadAngle>>

(* Mutant: the servo write left out of the loop.                           *)
RunApplyNoWrite ==
    /\ rpc = "apply"
    /\ rpc' = "loop"
    /\ UNCHANGED <<tilt, y, servo, running, cur, ty, loaded, requests,
                   dpadSet, dpadAngle>>

(* tilt_servo.value = self.current_tilt_angle / 90.0, then sleep and loop. *)
RunApply ==
    /\ rpc = "apply"
    /\ servo' = tilt
    /\ rpc' = "loop"
    /\ UNCHANGED <<tilt, y, running, cur, ty, loaded, requests, dpadSet, dpadAngle>>

Run == RunSnapshot \/ RunCompute \/ RunStore \/ RunApply

TiltNext ==
    \/ \E d \in {DpadDelta, -DpadDelta} : AdjustTilt(d)
    \/ \E yy \in Ys : SetPos(yy)
    \/ StopThread
    \/ Run

(* The daemon thread is scheduled while it runs; handlers and the          *)
(* operator's shutdown are not obliged to act.                             *)
TiltSpec ==
    /\ TiltInit /\ [][TiltNext]_tiltVars
    /\ WF_tiltVars(RunSnapshot) /\ WF_tiltVars(RunCompute)
    /\ WF_tiltVars(RunStore) /\ WF_tiltVars(RunApply)

-----------------------------------------------------------------------------
(* The servo is only ever given a value in [-1, 1]: gpiozero raises        *)
(* otherwise, and run() has no handler, so the tilt thread would die.      *)
(* Both writers clamp or smooth, but run() adds its increment to a value   *)
(* that adjust_tilt may have changed since run() copied it.                *)
ServoValueInRange ==
    Abs(tilt) <= ServoLimit /\ Abs(servo) <= ServoLimit

(* Once the handlers stop calling, the servo settles within 1 degree of    *)
(* the drag target (or the thread has been stopped).                       *)
TiltSettles ==
    <>[](~running \/ Abs(Target(y) - servo) <= 10)

(* The angle never leaves the tilt range [-45, 45] that both writers clamp *)
(* to.                                                                     *)
TiltWithinRange ==
    Abs(tilt) <= TiltRange

(* adjust_tilt's comment: "the run loop will use the new                   *)
(* current_tilt_angle": a D-pad tilt stays where adjust_tilt put it until  *)
(* the next handler call.                                                  *)
DpadTiltPersists ==
    dpadSet => Abs(tilt - dpadAngle) <= 10
=============================================================================
