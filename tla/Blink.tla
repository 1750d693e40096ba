------------------------------- MODULE Blink -------------------------------
(***************************************************************************)
(* The LED blink feature of src/Peter/web.py (the same code is in          *)
(* src/peter/main/web.py and web4.py): the globals blink_stop_event and    *)
(* current_blink_thread (55-57), the thread body blink_led(count) (61-72)  *)
(* and the /gpio_blink branch of do_GET (188-207), which runs in one       *)
(* server thread per request (ThreadingMixIn).                             *)
(*                                                                         *)
(* A request stops the running blink thread, if any, by setting the event  *)
(* and joining it with a 1 s timeout, clears the event and starts a new    *)
(* thread.  A blink thread checks the event once per blink, and one blink  *)
(* (on, 0.5 s, off, 0.5 s) takes as long as the join timeout, so the join  *)
(* may return before the old thread has ended: the timeout is a            *)
(* nondeterministic alternative to the thread's end.                       *)
(***************************************************************************)
EXTENDS Naturals, FiniteSets

CONSTANTS
    Handlers,   \* server threads serving /gpio_blink
    Counts,     \* values of the count parameter
    MaxBlinks   \* bound on the /gpio_blink requests, hence on the threads started

ASSUME BlinkAssumption ==
    /\ Counts \subseteq Nat
    /\ MaxBlinks \in Nat

Threads == 1..MaxBlinks   \* blink threads, numbered in start order
NoThread == 0             \* current_blink_thread = None

VARIABLES
    led,        \* gpio_led_blink is on
    event,      \* blink_stop_event is set
    current,    \* current_blink_thread
    bpc,        \* where each blink thread is
    left,       \* blinks each blink thread still has to do
    hpc,        \* where each handler is
    hcount,     \* each handler's count
    seen,       \* the thread each handler decided to stop
    started     \* blink threads started so far

blinkVars == <<led, event, current, bpc, left, hpc, hcount, seen, started>>

BlinkTypeOK ==
    /\ led \in BOOLEAN /\ event \in BOOLEAN
    /\ current \in Threads \cup {NoThread}
    /\ bpc \in [Threads -> {"unstarted", "check", "lit", "clear", "done"}]
    /\ left \in [Threads -> Nat]
    /\ hpc \in [Handlers -> {"idle", "join", "clear", "start"}]
    /\ hcount \in [Handlers -> Counts]
    /\ seen \in [Handlers -> Threads \cup {NoThread}]
    /\ started \in 0..MaxBlinks

BlinkInit ==
    /\ led = FALSE /\ event = FALSE
    /\ current = NoThread
    /\ bpc = [t \in Threads |-> "unstarted"]
    /\ left = [t \in Threads |-> 0]
    /\ hpc = [h \in Handlers |-> "idle"]
    /\ hcount \in [Handlers -> Counts]
    /\ seen = [h \in Handlers |-> NoThread]
    /\ started = 0

Alive(t) == t # NoThread /\ bpc[t] \in {"check", "lit", "clear"}

-----------------------------------------------------------------------------
(* count = int(...); if current_blink_thread and it is_alive(): set the    *)
(* event and go on to join it; otherwise go straight to clear().           *)
Request(h, n) ==
    /\ hpc[h] = "idle"
    /\ started + Cardinality({g \in Handlers : hpc[g] # "idle"}) < MaxBlinks
    /\ hcount' = [hcount EXCEPT ![h] = n]
    /\ seen' = [seen EXCEPT ![h] = current]
    /\ IF Alive(current)
         THEN hpc' = [hpc EXCEPT ![h] = "join"] /\ event' = TRUE
         ELSE hpc' = [hpc EXCEPT ![h] = "clear"] /\ UNCHANGED event
    /\ UNCHANGED <<led, current, bpc, left, started>>

(* current_blink_thread.join(timeout=1) returns: the thread has ended, or  *)
(* the second is up while the thread is still in the blink (on, 0.5 s,     *)
(* off, 0.5 s) it was in when the event was set.  A thread between blinks  *)
(* sees the event within 0.5 s and ends before the timeout.                *)
JoinReturns(h) ==
    /\ hpc[h] = "join"
    /\ ~Alive(seen[h]) \/ bpc[seen[h]] = "lit"
    /\ hpc' = [hpc EXCEPT ![h] = "clear"]
    /\ UNCHANGED <<led, event, current, bpc, left, hcount, seen, started>>

(* blink_stop_event.clear()                                                *)
ClearEvent(h) ==
    /\ hpc[h] = "clear"
    /\ event' = FALSE
    /\ hpc' = [hpc EXCEPT ![h] = "start"]
    /\ UNCHANGED <<led, current, bpc, left, hcount, seen, started>>

(* current_blink_thread = Thread(blink_led(count)); start(); reply 200.    *)
StartThread(h) ==
    /\ hpc[h] = "start"
    /\ LET t == started + 1 IN
         /\ bpc' = [bpc EXCEPT ![t] = "check"]
         /\ left' = [left EXCEPT ![t] = hcount[h]]
         /\ current' = t
    /\ started' = started + 1
    /\ hpc' = [hpc EXCEPT ![h] = "idle"]
    /\ UNCHANGED <<led, event, hcount, seen>>

(* Mutant: the stop check placed after gpio_led_blink.on().                *)
CheckLate(t) ==
    /\ bpc[t] = "check"
    /\ IF left[t] = 0
         THEN bpc' = [bpc EXCEPT ![t] = "clear"] /\ UNCHANGED led
         ELSE /\ led' = TRUE
              /\ bpc' = [bpc EXCEPT ![t] = IF event THEN "clear" ELSE "lit"]
    /\ UNCHANGED <<event, current, left, hpc, hcount, seen, started>>

(* Top of `for i in range(count)`: leave the loop when the count is done   *)
(* or the event is set, else turn the LED on and sleep.                    *)
Check(t) ==
    /\ bpc[t] = "check"
    /\ IF left[t] = 0 \/ event
         THEN bpc' = [bpc EXCEPT ![t] = "clear"] /\ UNCHANGED led
         ELSE led' = TRUE /\ bpc' = [bpc EXCEPT ![t] = "lit"]
    /\ UNCHANGED <<event, current, left, hpc, hcount, seen, started>>

(* gpio_led_blink.off(), sleep, next iteration.                            *)
Off(t) ==
    /\ bpc[t] = "lit"
    /\ led' = FALSE
    /\ left' = [left EXCEPT ![t] = @ - 1]
    /\ bpc' = [bpc EXCEPT ![t] = "check"]
    /\ UNCHANGED <<event, current, hpc, hcount, seen, started>>

(* After the loop: blink_stop_event.clear(); the thread ends.              *)
Finish(t) ==
    /\ bpc[t] = "clear"
    /\ event' = FALSE
    /\ bpc' = [bpc EXCEPT ![t] = "done"]
    /\ UNCHANGED <<led, current, left, hpc, hcount, seen, started>>

(* join() only returns early by the timeout while the thread lives.        *)
JoinReturnsWhenDone(h) ==
    JoinReturns(h) /\ ~Alive(seen[h])

BlinkNext ==
    \/ \E h \in Handlers :
          \/ \E n \in Counts : Request(h, n)
          \/ JoinReturns(h) \/ ClearEvent(h) \/ StartThread(h)
    \/ \E t \in Threads : Check(t) \/ Off(t) \/ Finish(t)

(* Server and blink threads are scheduled while they can run; a join      *)
(* returns at the latest when the thread it waits for has ended.           *)
BlinkSpec ==
    /\ BlinkInit /\ [][BlinkNext]_blinkVars
    /\ \A t \in Threads :
          WF_blinkVars(Check(t)) /\ WF_blinkVars(Off(t)) /\ WF_blinkVars(Finish(t))
    /\ \A h \in Handlers :
          WF_blinkVars(JoinReturnsWhenDone(h))
          /\ WF_blinkVars(ClearEvent(h)) /\ WF_blinkVars(StartThread(h))

-----------------------------------------------------------------------------
(* Whenever no blink thread is running, the LED is off: every thread turns *)
(* the LED off after each time it turns it on, even when two threads       *)
(* blink at once or a stop request arrives mid-blink.                      *)
LedOffWhenIdle ==
    (\A t \in Threads : ~Alive(t)) => ~led

(* A new /gpio_blink request replaces the running sequence: at most one    *)
(* blink thread is in its loop at any time ("Stopping previous blink       *)
(* thread..." in do_GET).                                                  *)
OneBlinkSequence ==
    \A t1, t2 \in Threads :
        bpc[t1] \in {"check", "lit"} /\ bpc[t2] \in {"check", "lit"} => t1 = t2
=============================================================================
