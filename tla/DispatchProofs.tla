--------------------------- MODULE DispatchProofs ---------------------------
(***************************************************************************)
(* Proof, for every set of drag offsets and every request bound, that each *)
(* pan command web4.py's /set_mouse_pos sends is the whole number of       *)
(* 32-pixel steps in the drag, with its sign, capped at 10 and never 0.    *)
(***************************************************************************)
EXTENDS CommandDispatch, TLAPS

(* The safety part of DispatchSpec.                                        *)
DispatchSafety == DispatchInit /\ [][DispatchNext]_dispVars

(* What PanFollowsDrag asks of one command on the wire.                    *)
EntryOK(e) ==
    e.kind = "pan" /\ ~e.dpad =>
        LET s == e.steps  x == e.from IN
        /\ s # 0 /\ Sign(s) = Sign(x)
        /\ Abs(s) * XScale <= Abs(x)
        /\ (Abs(s) = MaxSteps \/ (Abs(s) + 1) * XScale > Abs(x))

(* The commands a handler can put on the wire.                            *)
Cmds == {Drive(l) : l \in DriveLetters}
        \cup [kind : {"pan"}, steps : Int, from : Int, dpad : BOOLEAN]

(* The inductive invariant: the wire is a sequence of commands, and every  *)
(* command on it is as PanFollowsDrag asks.                                *)
PanIInv ==
    /\ wire \in Seq(Cmds)
    /\ \A i \in 1..Len(wire) : EntryOK(wire[i])

-----------------------------------------------------------------------------
(* int(x / 32) clamped to [-10, 10]: when it is not zero it has the sign   *)
(* of x, at most |x| / 32 in size and is short of it by less than a step   *)
(* unless it was capped.                                                   *)
LEMMA PanStepsSound ==
    ASSUME NEW x \in Int, PanSteps(x) # 0
    PROVE  LET s == PanSteps(x) IN
           /\ s \in Int /\ s # 0 /\ Sign(s) = Sign(x)
           /\ Abs(s) * XScale <= Abs(x)
           /\ (Abs(s) = MaxSteps \/ (Abs(s) + 1) * XScale > Abs(x))
<1> DEFINE q == Abs(x) \div XScale
<1>1. q \in Nat /\ q * XScale <= Abs(x) /\ Abs(x) < (q + 1) * XScale
      BY DEF Abs, XScale
<1> HIDE DEF q
<1>2. CASE x > 0
  <2>1. Sign(x) = 1 /\ Abs(x) = x
        BY <1>2 DEF Sign, Abs
  <2>2. Sign(x) * q = q
        BY <1>1, <2>1
  <2>3. PanSteps(x) = IF q > MaxSteps THEN MaxSteps ELSE q
        BY <1>1, <2>2 DEF PanSteps, MaxSteps, q
  <2>4. QED
        BY <1>1, <2>1, <2>3 DEF Sign, Abs, MaxSteps, XScale
<1>3. CASE x < 0
  <2>1. Sign(x) = -1 /\ Abs(x) = -x
        BY <1>3 DEF Sign, Abs
  <2>2. Sign(x) * q = -q
        BY <1>1, <2>1
  <2>3. PanSteps(x) = IF -q < -MaxSteps THEN -MaxSteps ELSE -q
        BY <1>1, <2>2 DEF PanSteps, MaxSteps, q
  <2>4. q # 0
        BY <2>3 DEF MaxSteps
  <2>5. PanSteps(x) \in Int /\ PanSteps(x) < 0
        /\ Abs(PanSteps(x)) = IF q > MaxSteps THEN MaxSteps ELSE q
        BY <1>1, <2>3, <2>4 DEF Abs, MaxSteps
  <2>6. QED
        BY <1>1, <2>1, <2>5 DEF Sign, MaxSteps, XScale
<1>4. CASE x = 0
  <2>1. Sign(x) = 0
        BY <1>4 DEF Sign
  <2>2. PanSteps(x) = 0
        BY <1>1, <2>1 DEF PanSteps, MaxSteps, q
  <2>3. QED
        BY <2>2
<1>5. QED
      BY <1>2, <1>3, <1>4
-----------------------------------------------------------------------------
(* send_command_to_arduino appends a command that is as PanFollowsDrag     *)
(* asks, or drops it when the port is not open: either way the wire stays  *)
(* a sequence of such commands.                                            *)
LEMMA ForwardKeeps ==
    ASSUME PanIInv, NEW c \in Cmds, EntryOK(c)
    PROVE  /\ Forward(c) \in Seq(Cmds)
           /\ \A i \in 1..Len(Forward(c)) : EntryOK(Forward(c)[i])
<1>1. CASE ser = "open"
  <2>1. Forward(c) = Append(wire, c)
        BY <1>1 DEF Forward
  <2>2. Append(wire, c) \in Seq(Cmds) /\ Len(Append(wire, c)) = Len(wire) + 1
        BY DEF PanIInv
  <2>3. \A i \in 1..Len(wire) + 1 : Append(wire, c)[i] = IF i = Len(wire) + 1 THEN c ELSE wire[i]
        BY DEF PanIInv
  <2>4. QED
        BY <2>1, <2>2, <2>3 DEF PanIInv
<1>2. CASE ser # "open"
      BY <1>2 DEF Forward, PanIInv
<1>3. QED
      BY <1>1, <1>2

(* A step leaves the wire alone or forwards one such command.             *)
WireStep ==
    wire' = wire \/ \E c \in Cmds : EntryOK(c) /\ wire' = Forward(c)

(* No drive command and no D-pad pan is constrained by PanFollowsDrag.     *)
LEMMA DriveOK ==
    ASSUME NEW l \in DriveLetters
    PROVE  Drive(l) \in Cmds /\ EntryOK(Drive(l))
BY DEF Drive, Cmds, EntryOK

LEMMA PanInCmds ==
    ASSUME NEW s \in Int, NEW f \in Int, NEW b \in BOOLEAN
    PROVE  Pan(s, f, b) \in Cmds
BY DEF Cmds, Pan

LEMMA DpadOK ==
    ASSUME NEW s \in Int
    PROVE  Pan(s, 0, TRUE) \in Cmds /\ EntryOK(Pan(s, 0, TRUE))
<1>1. Pan(s, 0, TRUE) \in Cmds
      BY DEF Cmds, Pan
<1>2. EntryOK(Pan(s, 0, TRUE))
      BY Zenon DEF Pan, EntryOK
<1>3. QED
      BY <1>1, <1>2

(* PanIInv holds initially and is kept by every request and by the port's *)
(* failure.                                                                *)
THEOREM PanInvariant == DispatchSafety => []PanIInv
<1>0. Xs \subseteq Int /\ Malformed \notin Int /\ GpioSupport \in BOOLEAN
      BY DispatchAssumption
<1>1. DispatchInit => PanIInv
  <2> SUFFICES ASSUME DispatchInit PROVE PanIInv
      OBVIOUS
  <2>1. Drive("X") \in Cmds /\ EntryOK(Drive("X"))
        BY DriveOK DEF DriveLetters
  <2>2. QED
        BY <2>1 DEF DispatchInit, PanIInv
<1>2. PanIInv /\ [DispatchNext]_dispVars => PanIInv'
  <2> SUFFICES ASSUME PanIInv, [DispatchNext]_dispVars PROVE PanIInv'
      OBVIOUS
  <2>1. WireStep => PanIInv'
    <3> SUFFICES ASSUME WireStep PROVE PanIInv'
        OBVIOUS
    <3>1. CASE wire' = wire
          BY <3>1 DEF PanIInv
    <3>2. CASE \E c \in Cmds : EntryOK(c) /\ wire' = Forward(c)
      <4>1. PICK c \in Cmds : EntryOK(c) /\ wire' = Forward(c)
            BY <3>2
      <4>2. QED
            BY <4>1, ForwardKeeps DEF PanIInv
    <3>3. QED
          BY <3>1, <3>2 DEF WireStep
  <2>2. ASSUME NEW q \in TankQueries, TankCommand(q) PROVE WireStep
    <3>1. CASE Upper(q) \in DriveLetters
          BY <2>2, <3>1, DriveOK DEF TankCommand, WireStep
    <3>2. CASE Upper(q) \notin DriveLetters
          BY <2>2, <3>2 DEF TankCommand, WireStep
    <3>3. QED
          BY <3>1, <3>2
  <2>3. ASSUME NEW d \in Directions, TurretMove(d) PROVE WireStep
    <3>1. CASE ~GpioSupport
          BY <2>3, <3>1, Zenon DEF TurretMove, WireStep
    <3>4. CASE GpioSupport /\ d = Malformed
          BY <2>3, <3>4, Zenon DEF TurretMove, WireStep
    <3>5. CASE GpioSupport /\ d # Malformed /\ d \notin {"L", "R"}
          BY <2>3, <3>5 DEF TurretMove, WireStep
    <3>2. CASE GpioSupport /\ d # Malformed /\ d \in {"L", "R"}
      <4> DEFINE c == Pan(IF d = "L" THEN -TurretStepDelta ELSE TurretStepDelta, 0, TRUE)
      <4>1. wire' = Forward(c)
            BY <2>3, <3>2 DEF TurretMove
      <4>2. (IF d = "L" THEN -TurretStepDelta ELSE TurretStepDelta) \in Int
            BY DEF TurretStepDelta
      <4>3. c \in Cmds /\ EntryOK(c)
            BY <4>2, DpadOK
      <4>4. QED
            BY <4>1, <4>3 DEF WireStep
    <3>3. QED
          BY <3>1, <3>2, <3>4, <3>5, <1>0
  <2>4. ASSUME NEW x \in Xs \cup {Malformed}, SetMousePos(x) PROVE WireStep
    <3>1. CASE ~GpioSupport
          BY <2>4, <3>1, Zenon DEF SetMousePos, WireStep
    <3>4. CASE GpioSupport /\ x = Malformed
          BY <2>4, <3>4, Zenon DEF SetMousePos, WireStep
    <3>5. CASE GpioSupport /\ x # Malformed /\ PanSteps(x) = 0
          BY <2>4, <3>5 DEF SetMousePos, WireStep
    <3>2. CASE GpioSupport /\ x # Malformed /\ PanSteps(x) # 0
      <4> DEFINE c == Pan(PanSteps(x), x, FALSE)
      <4>1. wire' = Forward(c)
            BY <2>4, <3>2 DEF SetMousePos
      <4>2. x \in Int
            BY <1>0, <3>2
      <4>3. PanSteps(x) \in Int /\ c \in Cmds
            BY <3>2, <4>2, PanStepsSound, PanInCmds
      <4>4. EntryOK(c)
            BY <3>2, <4>2, PanStepsSound DEF EntryOK, Pan
      <4>5. QED
            BY <4>1, <4>3, <4>4 DEF WireStep
    <3>3. QED
          BY <3>1, <3>2, <3>4, <3>5, <1>0
  <2>5. CASE PortFails
        BY <2>5 DEF PortFails, PanIInv
  <2>6. CASE UNCHANGED dispVars
        BY <2>6 DEF dispVars, PanIInv
  <2>7. QED
        BY <2>1, <2>2, <2>3, <2>4, <2>5, <2>6 DEF DispatchNext
<1>3. QED
    BY <1>1, <1>2, PTL DEF DispatchSafety

(* Every pan command a drag sends moves toward the drag by the whole steps *)
(* in it, capped at 10 and never zero, whichever port failures and other   *)
(* requests come between (the run dispatch_pan's invariant).              *)
THEOREM PanDragSound == DispatchSafety => []PanFollowsDrag
<1>1. PanIInv => PanFollowsDrag
      BY DEF PanIInv, EntryOK, PanFollowsDrag
<1>2. QED
    BY <1>1, PanInvariant, PTL
=============================================================================
