---------------------------- MODULE BlinkProofs ----------------------------
(***************************************************************************)
(* Proof, for every set of handlers, counts and request bound, that the    *)
(* blink LED of src/Peter/web.py is off whenever no blink thread runs,     *)
(* even when a timed-out join lets two threads blink at once.              *)
(***************************************************************************)
EXTENDS Blink, TLAPS

(* The safety part of BlinkSpec.                                           *)
BlinkSafety == BlinkInit /\ [][BlinkNext]_blinkVars

BlinkStates == {"unstarted", "check", "lit", "clear", "done"}

(* The inductive invariant: the LED is on only while some thread is        *)
(* between its gpio_led_blink.on() and the matching off().  Threads are    *)
(* numbered in start order, so those after the last started are unstarted. *)
LedIInv ==
    /\ bpc \in [Threads -> BlinkStates]
    /\ started \in Nat
    /\ \A t \in Threads : t > started => bpc[t] = "unstarted"
    /\ led => \E t \in Threads : bpc[t] = "lit"

-----------------------------------------------------------------------------
(* LedIInv holds initially and is kept by every handler and thread step.   *)
THEOREM LedInvariant == BlinkSafety => []LedIInv
<1>1. BlinkInit => LedIInv
  <2> SUFFICES ASSUME BlinkInit PROVE LedIInv
      OBVIOUS
  <2>1. bpc \in [Threads -> BlinkStates] /\ ~led
        BY Zenon DEF BlinkInit, BlinkStates
  <2>2. started \in Nat /\ \A t \in Threads : t > started => bpc[t] = "unstarted"
        BY DEF BlinkInit
  <2>3. QED
        BY <2>1, <2>2 DEF LedIInv
<1>2. LedIInv /\ [BlinkNext]_blinkVars => LedIInv'
  <2> SUFFICES ASSUME LedIInv, [BlinkNext]_blinkVars PROVE LedIInv'
      OBVIOUS
  <2>1. ASSUME NEW h \in Handlers, NEW n \in Counts, Request(h, n) PROVE LedIInv'
        BY <2>1, Zenon DEF Request, LedIInv
  <2>2. ASSUME NEW h \in Handlers, JoinReturns(h) PROVE LedIInv'
        BY <2>2, Zenon DEF JoinReturns, LedIInv
  <2>3. ASSUME NEW h \in Handlers, ClearEvent(h) PROVE LedIInv'
        BY <2>3, Zenon DEF ClearEvent, LedIInv
  <2>4. ASSUME NEW h \in Handlers, StartThread(h) PROVE LedIInv'
    <3> DEFINE n == started + 1
    <3>1. bpc' = [bpc EXCEPT ![n] = "check"] /\ started' = n
          BY <2>4 DEF StartThread
    <3>2. bpc' \in [Threads -> BlinkStates]
          BY <3>1 DEF LedIInv, BlinkStates
    <3>3. \A t \in Threads : t > started' => bpc'[t] = "unstarted"
          BY <3>1 DEF LedIInv, Threads
    <3>4. ASSUME led' PROVE \E t \in Threads : bpc'[t] = "lit"
      <4>1. PICK u \in Threads : bpc[u] = "lit"
            BY <2>4, <3>4, Zenon DEF StartThread, LedIInv
      <4>2. u # n
            BY <4>1 DEF LedIInv, Threads
      <4>3. bpc'[u] = "lit"
            BY <3>1, <4>1, <4>2 DEF LedIInv
      <4>4. QED
            BY <4>3
    <3>5. QED
          BY <3>1, <3>2, <3>3, <3>4 DEF LedIInv
  <2>5. ASSUME NEW t \in Threads, Check(t) PROVE LedIInv'
    <3>1. bpc' \in [Threads -> BlinkStates]
          BY <2>5, Zenon DEF Check, LedIInv, BlinkStates
    <3>2. CASE left[t] = 0 \/ event
          BY <2>5, <3>1, <3>2, Zenon DEF Check, LedIInv
    <3>3. CASE ~(left[t] = 0 \/ event)
          BY <2>5, <3>1, <3>3, Zenon DEF Check, LedIInv
    <3>4. QED
          BY <3>2, <3>3
  <2>6. ASSUME NEW t \in Threads, Off(t) PROVE LedIInv'
        BY <2>6, Zenon DEF Off, LedIInv, BlinkStates
  <2>7. ASSUME NEW t \in Threads, Finish(t) PROVE LedIInv'
    <3>1. bpc' \in [Threads -> BlinkStates]
          BY <2>7, Zenon DEF Finish, LedIInv, BlinkStates
    <3>2. ASSUME led' PROVE \E u \in Threads : bpc'[u] = "lit"
      <4>1. PICK u \in Threads : bpc[u] = "lit"
            BY <2>7, <3>2, Zenon DEF Finish, LedIInv
      <4>2. u # t
            BY <2>7, <4>1 DEF Finish
      <4>3. bpc'[u] = "lit"
            BY <2>7, <4>1, <4>2 DEF Finish, LedIInv
      <4>4. QED
            BY <4>3
    <3>3. started' \in Nat /\ \A u \in Threads : u > started' => bpc'[u] = "unstarted"
          BY <2>7 DEF Finish, LedIInv
    <3>4. QED
          BY <3>1, <3>2, <3>3 DEF LedIInv
  <2>8. CASE UNCHANGED blinkVars
        BY <2>8 DEF blinkVars, LedIInv
  <2>9. QED
        BY <2>1, <2>2, <2>3, <2>4, <2>5, <2>6, <2>7, <2>8 DEF BlinkNext
<1>3. QED
    BY <1>1, <1>2, PTL DEF BlinkSafety

(* Whenever no blink thread is alive the LED is off: every on() is         *)
(* followed by its own off() before the thread can leave its loop (the run *)
(* blink_idle's invariant).                                                *)
THEOREM LedOffWhenNoThread == BlinkSafety => []LedOffWhenIdle
<1>1. LedIInv => LedOffWhenIdle
  <2> SUFFICES ASSUME LedIInv, \A t \in Threads : ~Alive(t) PROVE ~led
      BY DEF LedOffWhenIdle
  <2>1. ASSUME led PROVE FALSE
    <3>1. PICK u \in Threads : bpc[u] = "lit"
          BY <2>1 DEF LedIInv
    <3>2. u # NoThread
          BY DEF Threads, NoThread
    <3>3. Alive(u)
          BY <3>1, <3>2 DEF Alive
    <3>4. QED
          BY <3>3
  <2>2. QED
        BY <2>1
<1>2. QED
    BY <1>1, LedInvariant, PTL
=============================================================================
