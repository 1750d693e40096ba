------------------------- MODULE CaptureLoopProofs -------------------------
(***************************************************************************)
(* Proof, for every threshold and every frame slot, that stream_camera of  *)
(* web4.py releases and reopens the camera only after more than Threshold  *)
(* reads in a row have failed since its last good read or reopen.          *)
(***************************************************************************)
EXTENDS CaptureLoop, TLAPS

(* The safety part of CaptureSpec.                                         *)
CaptureSafety == CaptureInit /\ [][CaptureNext]_allVars

(* The inductive invariant: error_count never counts more failures than    *)
(* there have been since the last good read or successful reopen.  It can *)
(* count fewer only through saturation, never because a reset was missed. *)
CountIInv ==
    /\ errorCount \in 0..Cap
    /\ sinceOpen \in 0..Cap
    /\ errorCount <= sinceOpen

-----------------------------------------------------------------------------
(* The saturating increment keeps the order of counts and stays in range.  *)
LEMMA IncMonotone ==
    ASSUME NEW a \in 0..Cap, NEW b \in 0..Cap, a <= b
    PROVE  Inc(a) \in 0..Cap /\ Inc(b) \in 0..Cap /\ Inc(a) <= Inc(b)
BY CaptureAssumption DEF Inc, Cap

(* CountIInv holds initially and is kept by every loop iteration, by the   *)
(* device's failures and returns, and by the stream threads.               *)
THEOREM CountInvariant == CaptureSafety => []CountIInv
<1>0. Threshold \in Nat
      BY CaptureAssumption
<1>1. CaptureInit => CountIInv
      BY <1>0 DEF CaptureInit, CountIInv, Cap
<1>2. CountIInv /\ [CaptureNext]_allVars => CountIInv'
  <2> SUFFICES ASSUME CountIInv, [CaptureNext]_allVars PROVE CountIInv'
      OBVIOUS
  <2>1. Inc(errorCount) \in 0..Cap /\ Inc(sinceOpen) \in 0..Cap
        /\ Inc(errorCount) <= Inc(sinceOpen)
        BY IncMonotone DEF CountIInv
  <2>2. 0 \in 0..Cap
        BY <1>0 DEF Cap
  <2>3. CASE ReadOK
        BY <2>2, <2>3 DEF ReadOK, CountIInv
  <2>4. CASE ReadFails
    <3>1. CASE device
          BY <2>1, <2>2, <2>4, <3>1 DEF ReadFails, CountIInv
    <3>2. CASE ~device
          BY <2>1, <2>4, <3>2 DEF ReadFails, CountIInv
    <3>3. QED
          BY <3>1, <3>2
  <2>5. CASE ProcessingFails
        BY <2>2, <2>5 DEF ProcessingFails, CountIInv
  <2>6. CASE DeviceFails \/ DeviceReturns
        BY <2>6 DEF DeviceFails, DeviceReturns, CountIInv
  <2>7. CASE \E r \in Readers : Reader(r) /\ UNCHANGED capVars
        BY <2>7 DEF capVars, CountIInv
  <2>8. CASE UNCHANGED allVars
        BY <2>8 DEF allVars, capVars, CountIInv
  <2>9. QED
        BY <2>3, <2>4, <2>5, <2>6, <2>7, <2>8 DEF CaptureNext, CaptureStep
<1>3. QED
      BY <1>1, <1>2, PTL DEF CaptureSafety

(* No failed read reopens the camera unless more than Threshold reads in a *)
(* row have failed since the last good read or successful reopen (the run  *)
(* capture_reopen's action property): the `error_count > 10` test of       *)
(* stream_camera never fires early, whatever the device does.              *)
THEOREM ReopenOnlyAfterFailures == CaptureSafety => ReopenOnlyAfterFailureRun
<1>1. CountIInv => (Inc(errorCount) > Threshold => Inc(sinceOpen) > Threshold)
      BY IncMonotone, CaptureAssumption DEF CountIInv
<1>2. CountIInv /\ [CaptureNext]_allVars
        => [ReadFails /\ Inc(errorCount) > Threshold
              => Inc(sinceOpen) > Threshold]_allVars
      BY <1>1
<1>3. QED
      BY <1>2, CountInvariant, PTL DEF CaptureSafety, ReopenOnlyAfterFailureRun
=============================================================================
