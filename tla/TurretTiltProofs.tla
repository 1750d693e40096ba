-------------------------- MODULE TurretTiltProofs --------------------------
(***************************************************************************)
(* Proofs, for every set of drag offsets and every request bound, that the *)
(* tilt servo of web4.py is only ever given a value in [-1, 1], although   *)
(* the unlocked `+=` in run() can push current_tilt_angle past the 45      *)
(* degree clamp (TurretTilt_range.cfg).                                    *)
(***************************************************************************)
EXTENDS TurretTilt, TLAPS

(* The safety part of TiltSpec.                                            *)
TiltSafety == TiltInit /\ [][TiltNext]_tiltVars

(* How far the race can carry the angle: 55 degrees.  A value adjust_tilt  *)
(* stores is clamped to 45; run()'s store adds a tenth of the distance     *)
(* from a copy of at most 55 to a target of at most 45.                    *)
RaceBound == 550

(* The inductive invariant.  Every angle the thread or a handler holds is  *)
(* within RaceBound, and an attribute value that differs from the loop's   *)
(* copy was written by adjust_tilt, hence is within the clamp.             *)
TiltIInv ==
    /\ TiltTypeOK
    /\ Abs(tilt) <= RaceBound /\ Abs(servo) <= RaceBound
    /\ Abs(cur) <= RaceBound /\ Abs(loaded) <= RaceBound
    /\ rpc = "compute" => tilt = cur \/ Abs(tilt) <= TiltRange
    /\ rpc = "store" => loaded = cur \/ Abs(loaded) <= TiltRange

-----------------------------------------------------------------------------
(* A clamped angle is within the bound.                                    *)
LEMMA ClampBound ==
    ASSUME NEW n \in Int, NEW b \in Nat
    PROVE  Clamp(n, b) \in Int /\ Abs(Clamp(n, b)) <= b
BY DEF Clamp, Abs

(* The drag target of run() is an angle within the tilt range.             *)
LEMMA TargetInRange ==
    ASSUME NEW yy \in Int
    PROVE  Target(yy) \in Int /\ Abs(Target(yy)) <= TiltRange
<1>1. (yy * 15) \div 8 \in Int
    OBVIOUS
<1>2. QED
    BY <1>1, ClampBound DEF Target, TiltRange

(* A tenth of d, rounded toward zero, has d's sign and at most a tenth of  *)
(* its size.                                                               *)
LEMMA GainBetween ==
    ASSUME NEW d \in Int
    PROVE  /\ Gain(d) \in Int
           /\ d >= 0 => 0 <= Gain(d) /\ Gain(d) <= d
           /\ d < 0 => d <= Gain(d) /\ Gain(d) <= 0
           /\ Abs(Gain(d)) * 10 <= Abs(d)
BY DEF Gain, Abs

-----------------------------------------------------------------------------
(* TiltIInv holds initially and is kept by every step of the handlers, the *)
(* cleanup and the loop.                                                   *)
THEOREM TiltInvariant == TiltSafety => []TiltIInv
<1> USE DEF TiltIInv, TiltTypeOK, RaceBound, TiltRange
<1>0. Ys \subseteq Int /\ 0 \in Ys /\ MaxRequests \in Nat
    BY TiltAssumption
<1>1. TiltInit => TiltIInv
  <2> SUFFICES ASSUME TiltInit PROVE TiltIInv
      OBVIOUS
  <2>1a. tilt \in Int /\ servo \in Int /\ cur \in Int /\ loaded \in Int
        BY DEF TiltInit
  <2>1b. y \in Ys /\ ty \in Ys
        BY <1>0 DEF TiltInit
  <2>1c. running \in BOOLEAN /\ dpadSet \in BOOLEAN
        BY Zenon DEF TiltInit
  <2>1d. rpc \in {"loop", "compute", "store", "apply", "stopped"}
        BY DEF TiltInit
  <2>1e. requests \in 0..MaxRequests /\ dpadAngle \in -TiltRange..TiltRange
        BY <1>0 DEF TiltInit
  <2>1. TiltTypeOK
        BY <2>1a, <2>1b, <2>1c, <2>1d, <2>1e
  <2>2. Abs(tilt) <= RaceBound /\ Abs(servo) <= RaceBound
        /\ Abs(cur) <= RaceBound /\ Abs(loaded) <= RaceBound
        BY DEF TiltInit, Abs
  <2>3. QED
        BY <2>1, <2>2 DEF TiltInit
<1>2. TiltIInv /\ [TiltNext]_tiltVars => TiltIInv'
  <2> SUFFICES ASSUME TiltIInv, [TiltNext]_tiltVars PROVE TiltIInv'
      OBVIOUS
  <2>1. ASSUME NEW d \in {DpadDelta, -DpadDelta}, AdjustTilt(d) PROVE TiltIInv'
    <3>1. tilt' \in Int /\ Abs(tilt') <= TiltRange
          BY <2>1, ClampBound DEF AdjustTilt, DpadDelta
    <3>2. (running \in BOOLEAN /\ dpadSet \in BOOLEAN)'
          BY <2>1, Zenon DEF AdjustTilt
    <3>3. dpadAngle' \in -TiltRange..TiltRange
          BY <2>1, <3>1 DEF AdjustTilt, Abs
    <3>4. QED
          BY <1>0, <2>1, <3>1, <3>2, <3>3 DEF AdjustTilt, Abs
  <2>2. ASSUME NEW yy \in Ys, SetPos(yy) PROVE TiltIInv'
    <3>1. (running \in BOOLEAN /\ dpadSet \in BOOLEAN)'
          BY <2>2, Zenon DEF SetPos
    <3>2. QED
          BY <1>0, <2>2, <3>1 DEF SetPos
  <2>3. CASE StopThread
    <3>1. (running \in BOOLEAN /\ dpadSet \in BOOLEAN)'
          BY <2>3, Zenon DEF StopThread
    <3>2. QED
          BY <2>3, <3>1 DEF StopThread
  <2>4. CASE RunSnapshot
        BY <2>4 DEF RunSnapshot
  <2>5. CASE RunCompute
        BY <2>5 DEF RunCompute
  <2>6. CASE RunStore
    <3> DEFINE T == Target(ty)
    <3>1. T \in Int /\ Abs(T) <= TiltRange
          BY <1>0, TargetInRange
    <3>2. CASE loaded = cur
      <4>1. tilt' = cur + Gain(T - cur)
            BY <2>6, <3>2 DEF RunStore
      <4>2. Abs(tilt') <= RaceBound /\ tilt' \in Int
            BY <3>1, <4>1, GainBetween DEF Abs
      <4>3. QED
            BY <2>6, <4>2 DEF RunStore
    <3>3. CASE Abs(loaded) <= TiltRange
      <4>1. tilt' = loaded + Gain(T - cur)
            BY <2>6 DEF RunStore
      <4>2. Abs(tilt') <= RaceBound /\ tilt' \in Int
            BY <3>1, <3>3, <4>1, GainBetween DEF Abs
      <4>3. QED
            BY <2>6, <4>2 DEF RunStore
    <3>4. QED
          BY <2>6, <3>2, <3>3 DEF RunStore
  <2>7. CASE RunApply
        BY <2>7 DEF RunApply
  <2>8. CASE UNCHANGED tiltVars
        BY <2>8 DEF tiltVars
  <2>9. QED
        BY <2>1, <2>2, <2>3, <2>4, <2>5, <2>6, <2>7, <2>8 DEF TiltNext, Run
<1>3. QED
    BY <1>1, <1>2, PTL DEF TiltSafety

(* The servo is only ever given a value in [-1, 1], and the angle never    *)
(* leaves +-90 degrees, whatever the handlers do while run() is between   *)
(* its copy and its unlocked `+=` (the run tilt_settle's invariant).       *)
THEOREM ServoStaysInRange == TiltSafety => []ServoValueInRange
<1>1. TiltIInv => ServoValueInRange
    BY DEF TiltIInv, TiltTypeOK, ServoValueInRange, RaceBound, ServoLimit, Abs
<1>2. QED
    BY <1>1, TiltInvariant, PTL
=============================================================================
