----------------------------- MODULE FrameSlot -----------------------------
(***************************************************************************)
(* The shared frame slot of the MJPEG gateway and the stream threads that  *)
(* read it (src/peter/ultrasonic/web4.py; the same code is repeated in      *)
(* every web*.py variant and in src/Nui/simple_mjpeg_streamer.py).          *)
(*                                                                         *)
(* StreamingOutput holds one field `frame` (None until the first write)    *)
(* and a threading.Condition.  write(buf) stores buf and calls notify_all  *)
(* under the condition's lock.  Every GET /stream.mjpg runs, in its own    *)
(* server thread, the loop                                                 *)
(*                                                                         *)
(*     while True:                                                         *)
(*         with output.condition:                                          *)
(*             output.condition.wait()                                     *)
(*             frame = output.frame                                        *)
(*         <write boundary, part headers and frame to the socket>          *)
(*                                                                         *)
(* and leaves it only when a socket write raises.  The condition's lock    *)
(* serialises every critical section, so each one is a single atomic step  *)
(* here: entering wait() (acquire, register as waiter, release), the       *)
(* return from wait() (reacquire, copy the frame, release) and write().    *)
(*                                                                         *)
(* A frame is an encoded JPEG bytes object; it is modelled by its identity *)
(* only, a member of FrameIds.  A new bytes object is distinct from every  *)
(* object still referenced (the slot's and each thread's local `frame`),   *)
(* and may reuse the identity of one that is no longer referenced, so a    *)
(* finite FrameIds supports behaviours with unboundedly many publishes.    *)
(***************************************************************************)
EXTENDS Functions

CONSTANTS
    Readers,    \* the stream-handler threads (one per /stream.mjpg client)
    FrameIds,   \* identities of encoded frame objects
    None        \* Python's None, the slot's initial value

ASSUME FrameSlotAssumption ==
    /\ None \notin FrameIds
    /\ Readers # {}

VARIABLES
    frame,      \* StreamingOutput.frame
    pc,         \* where each stream thread is in its loop
    got,        \* each stream thread's local variable `frame`
    connected   \* whether the client of each stream thread still has its socket open

vars == <<frame, pc, got, connected>>

(* Program locations of a stream thread:                                   *)
(*   "idle"     no /stream.mjpg request being served by this thread        *)
(*   "enter"    before `with output.condition: output.condition.wait()`    *)
(*   "waiting"  blocked in wait(), registered as a waiter                  *)
(*   "woken"    notified, waiting to reacquire the condition's lock        *)
(*   "sending"  writing the copied frame to the socket                     *)
(*   "done"     the handler returned (a socket write raised)               *)
PC == {"idle", "enter", "waiting", "woken", "sending", "done"}

(* The frame objects still referenced: the slot's and every thread's.      *)
Live == {frame} \cup Range(got)

TypeOK ==
    /\ frame \in FrameIds \cup {None}
    /\ pc \in [Readers -> PC]
    /\ got \in [Readers -> FrameIds \cup {None}]
    /\ connected \in [Readers -> BOOLEAN]

Init ==
    /\ frame = None
    /\ pc = [r \in Readers |-> "idle"]
    /\ got = [r \in Readers |-> None]
    /\ connected = [r \in Readers |-> FALSE]

-----------------------------------------------------------------------------
(* StreamingOutput.write(buf): store a new frame object and wake every     *)
(* thread blocked in wait().  Threads that are not in wait() at this       *)
(* moment are not told.                                                    *)
Write ==
    /\ \E f \in FrameIds \ Live : frame' = f
    /\ pc' = [r \in Readers |-> IF pc[r] = "waiting" THEN "woken" ELSE pc[r]]
    /\ UNCHANGED <<got, connected>>

(* A client requests /stream.mjpg: a new handler thread (or the slot of a  *)
(* finished one) sends the 200 response and the multipart headers.  Its    *)
(* local `frame` is not yet bound.                                         *)
Connect(r) ==
    /\ pc[r] \in {"idle", "done"}
    /\ pc' = [pc EXCEPT ![r] = "enter"]
    /\ got' = [got EXCEPT ![r] = None]
    /\ connected' = [connected EXCEPT ![r] = TRUE]
    /\ UNCHANGED frame

(* Mutant: a "fix" of the lost wakeup that waits only while the slot is   *)
(* still empty and otherwise takes the current frame at once.              *)
WaitOnlyWhenEmpty(r) ==
    /\ pc[r] = "enter"
    /\ IF frame = None
         THEN /\ pc' = [pc EXCEPT ![r] = "waiting"]
              /\ UNCHANGED got
         ELSE /\ pc' = [pc EXCEPT ![r] = "sending"]
              /\ got' = [got EXCEPT ![r] = frame]
    /\ UNCHANGED <<frame, connected>>

(* with output.condition: output.condition.wait() -- the thread waits      *)
(* unconditionally, whatever the slot holds.                               *)
Wait(r) ==
    /\ pc[r] = "enter"
    /\ pc' = [pc EXCEPT ![r] = "waiting"]
    /\ UNCHANGED <<frame, got, connected>>

(* wait() returns once the lock is reacquired; frame = output.frame; the   *)
(* with block releases the lock.                                           *)
Reacquire(r) ==
    /\ pc[r] = "woken"
    /\ pc' = [pc EXCEPT ![r] = "sending"]
    /\ got' = [got EXCEPT ![r] = frame]
    /\ UNCHANGED <<frame, connected>>

(* The boundary, part headers, frame and CRLF are written; the loop goes   *)
(* round again.                                                            *)
SendFrame(r) ==
    /\ pc[r] = "sending"
    /\ connected[r]
    /\ pc' = [pc EXCEPT ![r] = "enter"]
    /\ UNCHANGED <<frame, got, connected>>

(* Mutant: the try/except placed inside the while loop, so a failed write *)
(* is swallowed and the thread goes back to waiting.                       *)
SendFailsInLoop(r) ==
    /\ pc[r] = "sending"
    /\ ~connected[r]
    /\ pc' = [pc EXCEPT ![r] = "enter"]
    /\ UNCHANGED <<frame, got, connected>>

(* A write to a socket whose peer has gone raises; `except: pass` ends     *)
(* the loop and the handler returns.                                       *)
SendFails(r) ==
    /\ pc[r] = "sending"
    /\ ~connected[r]
    /\ pc' = [pc EXCEPT ![r] = "done"]
    /\ UNCHANGED <<frame, got, connected>>

(* Environment: the viewer closes the page or the network drops.           *)
Disconnect(r) ==
    /\ connected[r]
    /\ connected' = [connected EXCEPT ![r] = FALSE]
    /\ UNCHANGED <<frame, pc, got>>

Reader(r) ==
    \/ Connect(r) \/ Wait(r) \/ Reacquire(r)
    \/ SendFrame(r) \/ SendFails(r) \/ Disconnect(r)

Next == Write \/ \E r \in Readers : Reader(r)

(* Server threads are preemptively scheduled, so each keeps moving while   *)
(* it can.  On its own, the slot is fed by a capture loop whose camera     *)
(* keeps delivering frames (CaptureLoop drops that assumption).            *)
Fairness ==
    /\ WF_vars(Write)
    /\ \A r \in Readers :
          /\ WF_vars(Wait(r)) /\ WF_vars(Reacquire(r))
          /\ WF_vars(SendFrame(r)) /\ WF_vars(SendFails(r))

Spec == Init /\ [][Next]_vars /\ Fairness

-----------------------------------------------------------------------------
(* A thread woken from wait() finds in the slot a frame that is not the    *)
(* one it sent last (and not None): notify_all is only ever called by      *)
(* write(), right after it stored a new frame object.                      *)
WokenSeesNewFrame ==
    \A r \in Readers : pc[r] = "woken" => frame \in FrameIds \ {got[r]}

(* Every frame a stream thread takes out of the slot is a real frame       *)
(* (len(None) would end the stream) and differs from the frame the same   *)
(* thread took before: no viewer is sent the same frame twice in a row.    *)
DeliversNewFrame ==
    [][\A r \in Readers :
         pc'[r] = "sending" /\ pc[r] # "sending"
            => got'[r] \in FrameIds \ {got[r]}]_vars

(* A stream thread whose client has gone eventually returns, given that    *)
(* frames keep being published.  The loop's only exit is a failing socket  *)
(* write, which is only attempted after a new frame arrives.               *)
ClientGoneThreadEnds ==
    \A r \in Readers :
        (pc[r] \in {"enter", "waiting", "woken", "sending"} /\ ~connected[r])
            ~> pc[r] = "done"

(* The contract of spec section 4.1 (waitForNext): a reader blocks only    *)
(* while the slot holds nothing newer than what it last observed.          *)
NoMissedFrame ==
    \A r \in Readers : pc[r] = "waiting" => frame = got[r]
=============================================================================
