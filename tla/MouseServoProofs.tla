-------------------------- MODULE MouseServoProofs --------------------------
(***************************************************************************)
(* Proofs, for every set of drag offsets and every request bound, that the *)
(* mouse-control thread of src/Peter/web.py implements the safety part of  *)
(* ServoAim on each axis, aimed at the drag it last copied, and therefore  *)
(* never drives a servo out of range, even when set_pos or stop() comes    *)
(* between its copy and its servo writes.                                  *)
(***************************************************************************)
EXTENDS MouseServo, TLAPS

(* The safety part of MouseSpec.                                           *)
MouseSafety == MouseInit /\ [][MouseNext]_mouseVars

(* The facts a step needs: the types, and that running is cleared exactly  *)
(* when cleanup_gpio has entered stop().                                   *)
MInv ==
    /\ MouseTypeOK
    /\ running = (cpc = "idle")

-----------------------------------------------------------------------------
(* A clamped target lies in the axis range.                                *)
LEMMA ClampInRange ==
    ASSUME NEW n \in Int, NEW b \in Nat
    PROVE  Clamp(n, b) \in -b..b
BY DEF Clamp

(* One smoothing step of an axis more than 1 degree off target moves it    *)
(* toward the target by at least a tenth of a degree and never past it.    *)
LEMMA MoveTowardTarget ==
    ASSUME NEW cur \in Int, NEW tgt \in Int, Abs(tgt - cur) > Tol
    PROVE  Move(cur, tgt) \in IF cur < tgt THEN cur + 1 .. tgt ELSE tgt .. cur - 1
BY DEF Move, Gain, Abs, Tol

(* Within 1 degree the axis does not move.                                 *)
LEMMA MoveOnTarget ==
    ASSUME NEW cur \in Int, NEW tgt \in Int, ~(Abs(tgt - cur) > Tol)
    PROVE  Move(cur, tgt) = cur
BY DEF Move

(* The drag targets computed by run() lie in the pan and tilt ranges,     *)
(* whatever x and y a client sends.                                        *)
LEMMA TargetsInRange ==
    ASSUME NEW xx \in Int, NEW yy \in Int
    PROVE  /\ PanTarget(xx) \in -PanRange..PanRange
           /\ TiltTarget(yy) \in -TiltRange..TiltRange
<1>1. (xx * 45) \div 16 \in Int /\ (yy * 15) \div 8 \in Int
    OBVIOUS
<1>2. PanRange \in Nat /\ TiltRange \in Nat
    BY DEF PanRange, TiltRange
<1>3. QED
    BY <1>1, <1>2, ClampInRange DEF PanTarget, TiltTarget

-----------------------------------------------------------------------------
(* MInv is an invariant of the thread, the handlers and the cleanup.       *)
THEOREM MouseInvariant == MouseSafety => []MInv
<1>1. MouseInit => MInv
  <2> SUFFICES ASSUME MouseInit PROVE MInv
      OBVIOUS
  <2>1. MouseTypeOK
        BY MouseAssumption DEF MouseInit, MouseTypeOK
  <2>2. running = (cpc = "idle")
        BY DEF MouseInit
  <2>3. QED
        BY <2>1, <2>2 DEF MInv
<1>2. MInv /\ [MouseNext]_mouseVars => MInv'
  <2> SUFFICES ASSUME MInv, [MouseNext]_mouseVars PROVE MInv'
      OBVIOUS
  <2> USE DEF MInv, MouseTypeOK
  <2>1. ASSUME NEW xx \in Xs, NEW yy \in Ys, SetPos(xx, yy) PROVE MInv'
    <3>1. MouseTypeOK'
          BY <2>1, MouseAssumption DEF SetPos
    <3>2. (running = (cpc = "idle"))'
          BY <2>1 DEF SetPos
    <3>3. QED
          BY <3>1, <3>2
  <2>2. CASE RunCopy
        BY <2>2 DEF RunCopy
  <2>3. CASE RunMove
    <3>1. tx \in Int /\ ty \in Int
          BY MouseAssumption
    <3>2. pan' \in Int /\ tilt' \in Int
          BY <2>3, <3>1 DEF RunMove, Move, Gain, PanTarget, TiltTarget, Clamp
    <3>3. QED
          BY <2>3, <3>2 DEF RunMove
  <2>4. CASE RunEnds
        BY <2>4 DEF RunEnds
  <2>5. CASE Stop
        BY <2>5 DEF Stop
  <2>6. CASE Joined
        BY <2>6 DEF Joined
  <2>7. CASE UNCHANGED mouseVars
        BY <2>7 DEF mouseVars
  <2>8. QED
        BY <2>1, <2>2, <2>3, <2>4, <2>5, <2>6, <2>7 DEF MouseNext
<1>3. QED
    BY <1>1, <1>2, PTL DEF MouseSafety

(* The pan axis: the target of the copied drag and the pan servo behave as *)
(* ServoAim allows.                                                        *)
THEOREM PanRefinesAim == MouseSafety => PanAxis!AimSafety
<1>1. MouseInit => PanAxis!AimInit
    BY DEF MouseInit, PanAxis!AimInit, PanTarget, Clamp, PanRange
<1>2. MInv /\ [MouseNext]_mouseVars
        => [PanAxis!AimNext]_<<PanTarget(tx), pan, tpc # "ended">>
  <2> SUFFICES ASSUME MInv, [MouseNext]_mouseVars
               PROVE  [PanAxis!AimNext]_<<PanTarget(tx), pan, tpc # "ended">>
      OBVIOUS
  <2> USE DEF MInv, MouseTypeOK
  <2>0. tx \in Int /\ pan \in Int /\ PanTarget(tx) \in Int
        BY MouseAssumption, TargetsInRange
  <2>1. ASSUME NEW xx \in Xs, NEW yy \in Ys, SetPos(xx, yy)
        PROVE  UNCHANGED <<PanTarget(tx), pan, tpc # "ended">>
        BY <2>1 DEF SetPos
  <2>2. CASE RunCopy
    <3>1. tx' \in Int
          BY <2>2, MouseAssumption DEF RunCopy
    <3>2. QED
          BY <2>2, <3>1, TargetsInRange DEF RunCopy, PanAxis!Retarget,
                                           PanAxis!Angles, PanAxis!AimNext
  <2>3. CASE RunMove
    <3>1. CASE Abs(PanTarget(tx) - pan) > Tol
      <4>1. pan' \in IF pan < PanTarget(tx) THEN pan + 1 .. PanTarget(tx)
                                           ELSE PanTarget(tx) .. pan - 1
            BY <2>0, <2>3, <3>1, MoveTowardTarget DEF RunMove
      <4>2. PanAxis!Dist(PanTarget(tx), pan) > Tol
            BY <2>0, <3>1 DEF PanAxis!Dist, Abs
      <4>3. QED
            BY <2>3, <4>1, <4>2 DEF RunMove, PanAxis!Track, PanAxis!AimNext
    <3>2. CASE ~(Abs(PanTarget(tx) - pan) > Tol)
          BY <2>0, <2>3, <3>2, MoveOnTarget DEF RunMove
    <3>3. QED
          BY <3>1, <3>2
  <2>4. CASE RunEnds
        BY <2>4 DEF RunEnds, PanAxis!Halt, PanAxis!AimNext
  <2>5. CASE Stop \/ Joined \/ UNCHANGED mouseVars
        BY <2>5 DEF Stop, Joined, mouseVars
  <2>6. QED
        BY <2>1, <2>2, <2>3, <2>4, <2>5 DEF MouseNext
<1>3. QED
    BY <1>1, <1>2, MouseInvariant, PTL DEF MouseSafety, PanAxis!AimSafety, PanAxis!aimVars

(* The tilt axis: the target of the copied drag and the tilt servo behave as *)
(* ServoAim allows.                                                        *)
THEOREM TiltRefinesAim == MouseSafety => TiltAxis!AimSafety
<1>1. MouseInit => TiltAxis!AimInit
    BY DEF MouseInit, TiltAxis!AimInit, TiltTarget, Clamp, TiltRange
<1>2. MInv /\ [MouseNext]_mouseVars
        => [TiltAxis!AimNext]_<<TiltTarget(ty), tilt, tpc # "ended">>
  <2> SUFFICES ASSUME MInv, [MouseNext]_mouseVars
               PROVE  [TiltAxis!AimNext]_<<TiltTarget(ty), tilt, tpc # "ended">>
      OBVIOUS
  <2> USE DEF MInv, MouseTypeOK
  <2>0. ty \in Int /\ tilt \in Int /\ TiltTarget(ty) \in Int
        BY MouseAssumption, TargetsInRange
  <2>1. ASSUME NEW xx \in Xs, NEW yy \in Ys, SetPos(xx, yy)
        PROVE  UNCHANGED <<TiltTarget(ty), tilt, tpc # "ended">>
        BY <2>1 DEF SetPos
  <2>2. CASE RunCopy
    <3>1. ty' \in Int
          BY <2>2, MouseAssumption DEF RunCopy
    <3>2. QED
          BY <2>2, <3>1, TargetsInRange DEF RunCopy, TiltAxis!Retarget,
                                           TiltAxis!Angles, TiltAxis!AimNext
  <2>3. CASE RunMove
    <3>1. CASE Abs(TiltTarget(ty) - tilt) > Tol
      <4>1. tilt' \in IF tilt < TiltTarget(ty) THEN tilt + 1 .. TiltTarget(ty)
                                           ELSE TiltTarget(ty) .. tilt - 1
            BY <2>0, <2>3, <3>1, MoveTowardTarget DEF RunMove
      <4>2. TiltAxis!Dist(TiltTarget(ty), tilt) > Tol
            BY <2>0, <3>1 DEF TiltAxis!Dist, Abs
      <4>3. QED
            BY <2>3, <4>1, <4>2 DEF RunMove, TiltAxis!Track, TiltAxis!AimNext
    <3>2. CASE ~(Abs(TiltTarget(ty) - tilt) > Tol)
          BY <2>0, <2>3, <3>2, MoveOnTarget DEF RunMove
    <3>3. QED
          BY <3>1, <3>2
  <2>4. CASE RunEnds
        BY <2>4 DEF RunEnds, TiltAxis!Halt, TiltAxis!AimNext
  <2>5. CASE Stop \/ Joined \/ UNCHANGED mouseVars
        BY <2>5 DEF Stop, Joined, mouseVars
  <2>6. QED
        BY <2>1, <2>2, <2>3, <2>4, <2>5 DEF MouseNext
<1>3. QED
    BY <1>1, <1>2, MouseInvariant, PTL DEF MouseSafety, TiltAxis!AimSafety, TiltAxis!aimVars

(* Hence pan_servo.value and tilt_servo.value, the angles divided by 90,   *)
(* always lie in [-1, 1], the range gpiozero accepts.                      *)
THEOREM ServosInRange ==
    MouseSafety => [](pan \in -PanRange..PanRange /\ tilt \in -TiltRange..TiltRange)
<1>1. MouseSafety => []PanAxis!PosInRange
    BY PanRefinesAim, PanAxis!AimInRange DEF PanRange
<1>2. MouseSafety => []TiltAxis!PosInRange
    BY TiltRefinesAim, TiltAxis!AimInRange DEF TiltRange
<1>3. QED
    BY <1>1, <1>2, PTL DEF PanAxis!PosInRange, TiltAxis!PosInRange,
                           PanAxis!Angles, TiltAxis!Angles
=============================================================================
