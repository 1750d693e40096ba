---------------------------- MODULE CaptureLoop ----------------------------
(***************************************************************************)
(* The capture thread stream_camera(camera) (src/peter/ultrasonic/web4.py   *)
(* 432-470; identical in every web*.py, and with extra sleeps only in       *)
(* src/Nui/simple_mjpeg_streamer.py 123-186) composed with the frame slot   *)
(* and its stream threads (module FrameSlot).                              *)
(*                                                                         *)
(* One loop iteration is one atomic step: the loop shares nothing with     *)
(* other threads but output.write(), whose effect is FrameSlot's Write.     *)
(* The camera is the environment: the device can stop working, which      *)
(* leaves an open VideoCapture handle broken until it is released and     *)
(* reopened, and can come back.  A read on a valid handle of a working     *)
(* device may still fail once (a dropped frame).                           *)
(***************************************************************************)
EXTENDS FrameSlot

CONSTANTS
    Threshold   \* the 10 of `if error_count > 10`

ASSUME CaptureAssumption == Threshold \in Nat

VARIABLES
    camera,     \* the VideoCapture handle: "valid", "broken" or "unopened"
    device,     \* whether the camera device itself is working
    errorCount, \* error_count
    sinceOpen   \* ghost: failed reads since the last good read or successful reopen

capVars == <<camera, device, errorCount, sinceOpen>>
allVars == <<vars, capVars>>

(* error_count is an unbounded Python int that the code only compares with *)
(* Threshold; every value above Threshold + 1 behaves alike, so counts     *)
(* saturate at Cap without losing any behaviour of the loop.               *)
Cap == Threshold + 2
Inc(n) == IF n < Cap THEN n + 1 ELSE Cap

CaptureTypeOK ==
    /\ TypeOK
    /\ camera \in {"valid", "broken", "unopened"}
    /\ device \in BOOLEAN
    /\ errorCount \in 0..Cap
    /\ sinceOpen \in 0..Cap

(* main() exits unless the camera opened and a test read succeeded, and    *)
(* only then starts the capture thread.                                    *)
CaptureInit ==
    /\ Init
    /\ camera = "valid"
    /\ device = TRUE
    /\ errorCount = 0
    /\ sinceOpen = 0

-----------------------------------------------------------------------------
(* ret is True: error_count = 0, convert, resize, encode, measure latency,  *)
(* output.write(buffer.getvalue()), sleep 1/FRAMERATE.                     *)
ReadOK ==
    /\ camera = "valid"
    /\ device
    /\ errorCount' = 0
    /\ sinceOpen' = 0
    /\ Write
    /\ UNCHANGED <<camera, device>>

(* Mutant: a successful reopen that forgets `error_count = 0`.            *)
ReadFailsNoReset ==
    LET n == Inc(errorCount) IN
    /\ IF n > Threshold
         THEN /\ camera' = IF device THEN "valid" ELSE "unopened"
              /\ errorCount' = n
              /\ sinceOpen' = IF device THEN 0 ELSE Inc(sinceOpen)
         ELSE /\ errorCount' = n
              /\ sinceOpen' = Inc(sinceOpen)
              /\ UNCHANGED camera
    /\ UNCHANGED <<device, vars>>

(* Mutant: `if error_count == 11` instead of `> 10`, so a reopen that      *)
(* failed is never retried.                                                *)
ReadFailsReopenOnce ==
    LET n == Inc(errorCount) IN
    /\ IF n = Threshold + 1
         THEN /\ camera' = IF device THEN "valid" ELSE "unopened"
              /\ errorCount' = IF device THEN 0 ELSE n
              /\ sinceOpen' = IF device THEN 0 ELSE Inc(sinceOpen)
         ELSE /\ errorCount' = n
              /\ sinceOpen' = Inc(sinceOpen)
              /\ UNCHANGED camera
    /\ UNCHANGED <<device, vars>>

(* ret is False: error_count += 1; past the threshold the handle is        *)
(* released and a new VideoCapture opened, which succeeds only if the      *)
(* device works; only a successful reopen resets error_count.  Either way *)
(* the loop continues.                                                     *)
ReadFails ==
    LET n == Inc(errorCount) IN
    /\ IF n > Threshold
         THEN /\ camera' = IF device THEN "valid" ELSE "unopened"
              /\ errorCount' = IF device THEN 0 ELSE n
              /\ sinceOpen' = IF device THEN 0 ELSE Inc(sinceOpen)
         ELSE /\ errorCount' = n
              /\ sinceOpen' = Inc(sinceOpen)
              /\ UNCHANGED camera
    /\ UNCHANGED <<device, vars>>

(* The frame was read (error_count = 0 already done) but converting or     *)
(* encoding it raised: the except clause logs, sleeps 0.1 s and loops.     *)
ProcessingFails ==
    /\ camera = "valid"
    /\ device
    /\ errorCount' = 0
    /\ sinceOpen' = 0
    /\ UNCHANGED <<camera, device, vars>>

CaptureStep == ReadOK \/ ReadFails \/ ProcessingFails

(* Environment: the camera stops working (an open handle stays broken)    *)
(* or starts working again.                                                *)
DeviceFails ==
    /\ device
    /\ device' = FALSE
    /\ camera' = IF camera = "valid" THEN "broken" ELSE camera
    /\ UNCHANGED <<errorCount, sinceOpen, vars>>

DeviceReturns ==
    /\ ~device
    /\ device' = TRUE
    /\ UNCHANGED <<camera, errorCount, sinceOpen, vars>>

CaptureNext ==
    \/ CaptureStep
    \/ DeviceFails \/ DeviceReturns
    \/ \E r \in Readers : Reader(r) /\ UNCHANGED capVars

(* The capture thread keeps iterating; a working device behind a valid     *)
(* handle does not drop every frame forever (strong fairness, since a      *)
(* dropped frame or a device failure can disable ReadOK for a while).      *)
CaptureFairness ==
    /\ WF_allVars(CaptureStep)
    /\ SF_allVars(ReadOK)
    /\ \A r \in Readers :
          /\ WF_allVars(Wait(r) /\ UNCHANGED capVars)
          /\ WF_allVars(Reacquire(r) /\ UNCHANGED capVars)
          /\ WF_allVars(SendFrame(r) /\ UNCHANGED capVars)
          /\ WF_allVars(SendFails(r) /\ UNCHANGED capVars)

CaptureSpec == CaptureInit /\ [][CaptureNext]_allVars /\ CaptureFairness

-----------------------------------------------------------------------------
(* The camera is reopened only after more than Threshold reads in a row    *)
(* have failed since the last good read or the last successful reopen: a  *)
(* few dropped frames never cost a release, a one-second sleep and a       *)
(* reopen (spec section 8: 11 failures then success give one reopen).     *)
ReopenOnlyAfterFailureRun ==
    [][ReadFails /\ Inc(errorCount) > Threshold
         => Inc(sinceOpen) > Threshold]_allVars

(* If the camera device ends up working for good, frames are published     *)
(* again, whatever failures came before: the loop never gives up on the    *)
(* device, and a failed reopen is retried on the next failed read.         *)
CaptureRecovers ==
    (<>[]device) => []<><<ReadOK>>_allVars
=============================================================================
