--------------------------- MODULE CommandDispatch ---------------------------
(***************************************************************************)
(* The command endpoints of src/peter/ultrasonic/web4.py and the function  *)
(* they forward through: /tank_command (278-289), /turret_move (314-343),  *)
(* /set_mouse_pos (347-381) and send_command_to_arduino (105-116).         *)
(*                                                                         *)
(* A handler's only shared effect is its write under serial_lock, so each  *)
(* request is one atomic step.  The port may fail at any time (the USB     *)
(* adapter unplugged): from then on ser.write raises, and                  *)
(* send_command_to_arduino logs the exception and returns.  A query is     *)
(* abstracted to the value it carries: a letter and whether it was sent in *)
(* lower case, a drag offset, or Malformed (a missing '=' or '&', or a     *)
(* value int() rejects).  The tilt half of /turret_move and                *)
(* /set_mouse_pos is TurretTilt's.                                         *)
(***************************************************************************)
EXTENDS Integers, Sequences

CONSTANTS
    Xs,            \* drag x offsets sent to /set_mouse_pos
    Malformed,     \* a query whose parsing raises
    GpioSupport,   \* GPIO_SUPPORT
    MaxRequests    \* bound on the requests

ASSUME DispatchAssumption ==
    /\ Xs \subseteq Int /\ Malformed \notin Int
    /\ GpioSupport \in BOOLEAN
    /\ MaxRequests \in Nat

DriveLetters == {"W", "A", "S", "D", "X"}
Letters == DriveLetters \cup {"Q"}                 \* "Q": any other letter
TankQueries == [letter : Letters, lower : BOOLEAN]   \* split/upper never raise
Directions == {"L", "R", "U", "D", "N"} \cup {Malformed}   \* "N": no match

TurretStepDelta == 3     \* TURRET_STEP_DELTA
MaxSteps == 10           \* MAX_STEPS_PER_COMMAND
XScale == 32             \* X_SCALE_FACTOR = (640 / 2) / 10

Abs(n) == IF n < 0 THEN -n ELSE n
Sign(n) == IF n > 0 THEN 1 ELSE IF n < 0 THEN -1 ELSE 0

(* command = query.split('=')[-1].upper()                                  *)
Upper(q) == q.letter

(* Mutant: the scaling done with floor division, x // X_SCALE_FACTOR.      *)
PanStepsFloor(x) ==
    LET s == x \div XScale
    IN  IF s > MaxSteps THEN MaxSteps ELSE IF s < -MaxSteps THEN -MaxSteps ELSE s

(* int(x / X_SCALE_FACTOR) (truncation toward zero), then clamped to       *)
(* [-MAX_STEPS_PER_COMMAND, MAX_STEPS_PER_COMMAND].                        *)
PanSteps(x) ==
    LET s == Sign(x) * (Abs(x) \div XScale)
    IN  IF s > MaxSteps THEN MaxSteps ELSE IF s < -MaxSteps THEN -MaxSteps ELSE s

VARIABLES
    ser,        \* the port: "absent" (ser is None), "open" or "failed"
    wire,       \* commands the microcontroller received, in order
    log         \* one record per answered request: the command it asked to
                \* forward (or None), whether that reached the wire, the status

dispVars == <<ser, wire, log>>

NoCmd == [kind |-> "none"]
Drive(l) == [kind |-> "drive", letter |-> l]
(* A pan of s steps, from a drag to offset x or from the D-pad.             *)
Pan(s, x, dpad) == [kind |-> "pan", steps |-> s, from |-> x, dpad |-> dpad]

DispatchTypeOK ==
    /\ ser \in {"absent", "open", "failed"}
    /\ wire \in Seq([kind : {"drive"}, letter : DriveLetters]
                    \cup [kind : {"pan"}, steps : -MaxSteps..MaxSteps,
                          from : Xs \cup {0}, dpad : BOOLEAN])
    /\ log \in Seq([cmd : {NoCmd} \cup {Drive(l) : l \in DriveLetters}
                          \cup {Pan(s, f, b) : s \in -MaxSteps..MaxSteps, f \in Xs \cup {0}, b \in BOOLEAN},
                    sent : BOOLEAN, status : {200, 400, 500, 503}])

(* main(): the port opens, and send_command_to_arduino('X') stops the     *)
(* motors, or ser stays None.                                              *)
DispatchInit ==
    /\ ser \in {"absent", "open"}
    /\ wire = IF ser = "open" THEN <<Drive("X")>> ELSE <<>>
    /\ log = <<>>

(* send_command_to_arduino(c): nothing if ser is None; under serial_lock,  *)
(* ser.write, whose exception is caught and only logged.                   *)
Forward(c) == IF ser = "open" THEN Append(wire, c) ELSE wire
Forwarded == ser = "open"

(* The handler's reply, with the command it meant to send.                 *)
Answer(c, sent, st) == Append(log, [cmd |-> c, sent |-> sent, status |-> st])

-----------------------------------------------------------------------------
(* /tank_command?cmd=<letter>: a drive letter is forwarded and answered    *)
(* 200; anything else is 400.  Neither split('=')[-1] nor upper() can     *)
(* raise, so the except branch's 500 is unreachable.                       *)
TankCommand(q) ==
    /\ Len(log) < MaxRequests
    /\ IF Upper(q) \in DriveLetters
         THEN /\ wire' = Forward(Drive(Upper(q)))
              /\ log' = Answer(Drive(Upper(q)), Forwarded, 200)
         ELSE /\ log' = Answer(NoCmd, FALSE, 400)
              /\ UNCHANGED wire
    /\ UNCHANGED ser

(* /turret_move?dir=L|R|U|D: L and R forward a pan of 3 steps; U and D     *)
(* tilt (TurretTilt); 503 without GPIO; 500 when the query has no '='.     *)
TurretMove(d) ==
    /\ Len(log) < MaxRequests
    /\ CASE ~GpioSupport ->
              log' = Answer(NoCmd, FALSE, 503) /\ UNCHANGED wire
         [] GpioSupport /\ d = Malformed ->
              log' = Answer(NoCmd, FALSE, 500) /\ UNCHANGED wire
         [] GpioSupport /\ d # Malformed /\ d \in {"L", "R"} ->
              LET c == Pan(IF d = "L" THEN -TurretStepDelta ELSE TurretStepDelta, 0, TRUE)
              IN  wire' = Forward(c) /\ log' = Answer(c, Forwarded, 200)
         [] OTHER ->
              log' = Answer(NoCmd, FALSE, 200) /\ UNCHANGED wire
    /\ UNCHANGED ser

(* /set_mouse_pos?x=..&y=..: parse both (500 if either fails); forward    *)
(* P<steps> when the steps are not zero; hand y to the tilt thread; 200.   *)
SetMousePos(x) ==
    /\ Len(log) < MaxRequests
    /\ CASE ~GpioSupport ->
              log' = Answer(NoCmd, FALSE, 503) /\ UNCHANGED wire
         [] GpioSupport /\ x = Malformed ->
              log' = Answer(NoCmd, FALSE, 500) /\ UNCHANGED wire
         [] GpioSupport /\ x # Malformed /\ PanSteps(x) # 0 ->
              LET c == Pan(PanSteps(x), x, FALSE)
              IN  wire' = Forward(c) /\ log' = Answer(c, Forwarded, 200)
         [] OTHER ->
              log' = Answer(NoCmd, FALSE, 200) /\ UNCHANGED wire
    /\ UNCHANGED ser

(* Environment: the serial adapter goes away; later writes raise.          *)
PortFails ==
    /\ ser = "open"
    /\ ser' = "failed"
    /\ UNCHANGED <<wire, log>>

DispatchNext ==
    \/ \E q \in TankQueries : TankCommand(q)
    \/ \E d \in Directions : TurretMove(d)
    \/ \E x \in Xs \cup {Malformed} : SetMousePos(x)
    \/ PortFails

DispatchSpec == DispatchInit /\ [][DispatchNext]_dispVars

-----------------------------------------------------------------------------
(* The stepper never overshoots the drag: every pan command that comes     *)
(* from a drag to offset x moves toward x by at most |x| / 32 steps and at *)
(* most 10, by exactly that many whole steps, and is never P0.            *)
PanFollowsDrag ==
    \A i \in 1..Len(wire) :
        wire[i].kind = "pan" /\ ~wire[i].dpad =>
            LET s == wire[i].steps  x == wire[i].from IN
            /\ s # 0 /\ Sign(s) = Sign(x)
            /\ Abs(s) * XScale <= Abs(x)
            /\ (Abs(s) = MaxSteps \/ (Abs(s) + 1) * XScale > Abs(x))
=============================================================================
