-------------------------- MODULE FrameSlotProofs --------------------------
(***************************************************************************)
(* Proofs, for every set of stream threads and frame identities, of the    *)
(* type invariant of FrameSlot and of DeliversNewFrame: a stream thread    *)
(* never takes None or the frame it took last out of the slot.             *)
(*                                                                         *)
(* DeliversNewFrame is not a consequence of TypeOK alone: it needs the     *)
(* state invariant WokenSeesNewFrame, which holds because the only step   *)
(* that wakes a waiter, write(), also stores a frame object that no        *)
(* thread holds.                                                           *)
(***************************************************************************)
EXTENDS FrameSlot, TLAPS

(* The inductive invariant. *)
IInv == TypeOK /\ WokenSeesNewFrame

-----------------------------------------------------------------------------
(* The initial state is well typed. *)
LEMMA InitTypeOK == Init => TypeOK
  BY DEF Init, TypeOK, PC

(* Every step, and every stutter, preserves the type invariant. *)
LEMMA NextTypeOK == TypeOK /\ [Next]_vars => TypeOK'
  <1> SUFFICES ASSUME TypeOK, [Next]_vars PROVE TypeOK'
    OBVIOUS
  <1>1. CASE Write
    BY <1>1 DEF Write, TypeOK, PC
  <1>2. ASSUME NEW r \in Readers, Reader(r) PROVE TypeOK'
    BY <1>2 DEF Reader, Connect, Wait, Reacquire, SendFrame, SendFails,
                Disconnect, TypeOK, PC
  <1>3. CASE UNCHANGED vars
    BY <1>3 DEF vars, TypeOK
  <1>4. QED
    BY <1>1, <1>2, <1>3 DEF Next

(* The type invariant holds in every reachable state of FrameSlot. *)
THEOREM TypeCorrect == Spec => []TypeOK
  BY InitTypeOK, NextTypeOK, PTL DEF Spec

-----------------------------------------------------------------------------
(* A frame stored by write() is held by no thread. *)
LEMMA WriteIsFresh ==
  ASSUME TypeOK, Write
  PROVE  /\ frame' \in FrameIds
         /\ \A r \in Readers : frame' # got[r]
  <1>1. PICK f \in FrameIds \ Live : frame' = f
    BY DEF Write
  <1>2. \A r \in Readers : got[r] \in Live
    BY DEF Live, Range, TypeOK
  <1>3. QED
    BY <1>1, <1>2

LEMMA InitIInv == Init => IInv
  BY DEF Init, IInv, TypeOK, PC, WokenSeesNewFrame

(* Every step preserves WokenSeesNewFrame: one case per action. *)
LEMMA NextIInv == IInv /\ [Next]_vars => IInv'
  <1> SUFFICES ASSUME IInv, [Next]_vars PROVE IInv'
    OBVIOUS
  <1>1. TypeOK'
    BY NextTypeOK DEF IInv
  <1> USE DEF IInv
  <1>2. CASE Write
    <2>1. frame' \in FrameIds /\ \A r \in Readers : frame' # got[r]
      BY <1>2, WriteIsFresh
    <2>2. QED
      BY <1>2, <1>1, <2>1 DEF Write, WokenSeesNewFrame
  <1>3. ASSUME NEW r \in Readers, Connect(r) PROVE IInv'
    BY <1>3, <1>1 DEF Connect, WokenSeesNewFrame, TypeOK
  <1>4. ASSUME NEW r \in Readers, Wait(r) PROVE IInv'
    BY <1>4, <1>1 DEF Wait, WokenSeesNewFrame, TypeOK
  <1>5. ASSUME NEW r \in Readers, Reacquire(r) PROVE IInv'
    BY <1>5, <1>1 DEF Reacquire, WokenSeesNewFrame, TypeOK
  <1>6. ASSUME NEW r \in Readers, SendFrame(r) PROVE IInv'
    BY <1>6, <1>1 DEF SendFrame, WokenSeesNewFrame, TypeOK
  <1>7. ASSUME NEW r \in Readers, SendFails(r) PROVE IInv'
    BY <1>7, <1>1 DEF SendFails, WokenSeesNewFrame, TypeOK
  <1>8. ASSUME NEW r \in Readers, Disconnect(r) PROVE IInv'
    BY <1>8, <1>1 DEF Disconnect, WokenSeesNewFrame, TypeOK
  <1>9. CASE UNCHANGED vars
    BY <1>9, <1>1 DEF vars, WokenSeesNewFrame
  <1>10. QED
    BY <1>2, <1>3, <1>4, <1>5, <1>6, <1>7, <1>8, <1>9 DEF Next, Reader

(* The strengthened invariant holds in every reachable state. *)
THEOREM IInvariant == Spec => []IInv
  BY InitIInv, NextIInv, PTL DEF Spec

-----------------------------------------------------------------------------
(* Under IInv, a step that moves a thread into "sending" hands it a real   *)
(* frame other than the one it held.                                       *)
LEMMA StepDeliversNewFrame ==
  ASSUME IInv, [Next]_vars,
         NEW r \in Readers, pc'[r] = "sending", pc[r] # "sending"
  PROVE  got'[r] \in FrameIds \ {got[r]}
  <1> USE DEF IInv, TypeOK
  <1>1. CASE Write
    BY <1>1 DEF Write
  <1>2. ASSUME NEW s \in Readers, Reacquire(s) PROVE got'[r] \in FrameIds \ {got[r]}
    <2>1. s = r
      BY <1>2 DEF Reacquire
    <2>2. pc[r] = "woken" /\ got'[r] = frame
      BY <1>2, <2>1 DEF Reacquire
    <2>3. QED
      BY <2>2 DEF WokenSeesNewFrame
  <1>3. ASSUME NEW s \in Readers,
               Connect(s) \/ Wait(s) \/ SendFrame(s) \/ SendFails(s) \/ Disconnect(s)
        PROVE got'[r] \in FrameIds \ {got[r]}
    BY <1>3 DEF Connect, Wait, SendFrame, SendFails, Disconnect
  <1>4. CASE UNCHANGED vars
    BY <1>4 DEF vars
  <1>5. QED
    BY <1>1, <1>2, <1>3, <1>4 DEF Next, Reader

(* No stream thread is ever sent None or the same frame twice in a row.    *)
THEOREM NoDuplicateDelivery == Spec => DeliversNewFrame
  <1>1. IInv /\ [Next]_vars
          => [\A r \in Readers :
                 pc'[r] = "sending" /\ pc[r] # "sending"
                    => got'[r] \in FrameIds \ {got[r]}]_vars
    BY StepDeliversNewFrame
  <1>2. QED
    BY <1>1, IInvariant, PTL DEF Spec, DeliversNewFrame
=============================================================================
