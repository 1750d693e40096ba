------------------------------ MODULE ServoAim ------------------------------
(***************************************************************************)
(* What a drag-controlled servo axis promises, whatever the loop that      *)
(* drives it: the axis has an aim inside its range, set by the operator's  *)
(* drag; while it is active, a position more than Tol away from the aim    *)
(* is moved toward the aim, never past it, and never by a jump out of the  *)
(* range; once it is halted it does not move again.                        *)
(*                                                                         *)
(* This is the abstract specification that MouseServo implements for the  *)
(* pan and the tilt axis of src/Peter/web.py.                              *)
(***************************************************************************)
EXTENDS Integers, TLAPS

CONSTANTS
    Range,   \* the axis moves in -Range..Range (tenths of a degree)
    Tol      \* positions within Tol of the aim count as on target

VARIABLES
    aim,     \* where the drag asks the axis to point
    pos,     \* where the axis points
    active   \* whether the axis is still being driven

aimVars == <<aim, pos, active>>

Angles == -Range..Range

Dist(a, b) == IF a >= b THEN a - b ELSE b - a

AimTypeOK ==
    /\ aim \in Angles /\ pos \in Int /\ active \in BOOLEAN

AimInit == aim = 0 /\ pos = 0 /\ active = TRUE

(* The operator drags: any aim in range, at any time.                      *)
Retarget ==
    /\ aim' \in Angles
    /\ UNCHANGED <<pos, active>>

(* An off-target axis moves toward the aim without passing it.             *)
Track ==
    /\ active
    /\ Dist(aim, pos) > Tol
    /\ pos' \in IF pos < aim THEN pos + 1 .. aim ELSE aim .. pos - 1
    /\ UNCHANGED <<aim, active>>

(* The axis stops being driven for good.                                   *)
Halt ==
    /\ active
    /\ active' = FALSE
    /\ UNCHANGED <<aim, pos>>

AimNext == Retarget \/ Track \/ Halt

(* The safety part of the promise.                                         *)
AimSafety == AimInit /\ [][AimNext]_aimVars

(* An active axis that is off target keeps moving.                         *)
AimSpec == AimSafety /\ WF_aimVars(Track)

(* The axis never points outside its range.                                *)
PosInRange == pos \in Angles

-----------------------------------------------------------------------------
(* The invariant behind PosInRange: aim and position are both in range.    *)
AimInv == aim \in Angles /\ pos \in Angles

(* Whatever drives the axis, as long as it behaves as AimSafety allows,    *)
(* the position stays inside -Range..Range: Track only moves toward an aim *)
(* that is itself in range.                                                *)
THEOREM AimInRange ==
    ASSUME Range \in Nat
    PROVE  AimSafety => []PosInRange
<1>1. AimInit => AimInv
    BY DEF AimInit, AimInv, Angles
<1>2. AimInv /\ [AimNext]_aimVars => AimInv'
  <2> SUFFICES ASSUME AimInv, [AimNext]_aimVars PROVE AimInv'
      OBVIOUS
  <2>1. CASE Retarget
        BY <2>1 DEF Retarget, AimInv
  <2>2. CASE Track
        BY <2>2 DEF Track, AimInv, Angles
  <2>3. CASE Halt
        BY <2>3 DEF Halt, AimInv
  <2>4. CASE UNCHANGED aimVars
        BY <2>4 DEF aimVars, AimInv
  <2>5. QED
        BY <2>1, <2>2, <2>3, <2>4 DEF AimNext
<1>3. AimInv => PosInRange
    BY DEF AimInv, PosInRange
<1>4. QED
    BY <1>1, <1>2, <1>3, PTL DEF AimSafety
=============================================================================
