--------------------------- MODULE SerialChannel ---------------------------
(***************************************************************************)
(* The serial link to the microcontroller in src/peter/ultrasonic/web4.py:  *)
(* the global `ser`, the commands written by send_command_to_arduino (105- *)
(* 116) from the HTTP handler threads, the telemetry reader thread         *)
(* read_serial_data_thread (120-148) that stores the last "Dist:" value in *)
(* the global ultrasonic_distance, and the serial part of the signal       *)
(* handler cleanup_gpio (473-492).                                         *)
(*                                                                         *)
(* Every access to the device by a handler or by the reader happens inside *)
(* `with serial_lock:`, so each such critical section is one atomic step.  *)
(* cleanup_gpio writes its stop command and closes the port without the   *)
(* lock, with a 0.1 s sleep between the two, so those are separate steps.  *)
(* The wire is the sequence of commands the microcontroller has received;  *)
(* the inbox is the sequence of lines it has sent and the reader has not   *)
(* consumed yet.                                                           *)
(***************************************************************************)
EXTENDS Sequences, Naturals

CONSTANTS
    Cmds,          \* commands the handlers send ("W", "A", "S", "D", "X", "P<n>")
    Stop,          \* the command "X"
    Readings,      \* payloads of "Dist:<payload>" lines, ErrorReading included
    ErrorReading,  \* the payload "ERROR" (sensor timeout or out of range)
    NA,            \* the initial value "N/A" of ultrasonic_distance
    SendsGarbage,  \* whether the microcontroller may send a line that is not UTF-8
    MaxWire,       \* bound on the commands sent by handlers
    MaxLines       \* bound on the lines the microcontroller sends

ASSUME SerialAssumption ==
    /\ Stop \in Cmds
    /\ ErrorReading \in Readings
    /\ NA \notin Readings
    /\ SendsGarbage \in BOOLEAN
    /\ MaxWire \in Nat /\ MaxLines \in Nat

(* Lines from the microcontroller, by what the reader does with them.      *)
DistLine(v) == [kind |-> "dist", val |-> v]
OtherLine == [kind |-> "other", val |-> NA]
GarbageLine == [kind |-> "garbage", val |-> NA]
Lines ==
    {DistLine(v) : v \in Readings} \cup {OtherLine}
        \cup (IF SendsGarbage THEN {GarbageLine} ELSE {})

VARIABLES
    ser,        \* the global ser: "absent" (None), "open" or "closed"
    wire,       \* commands received by the microcontroller, in order
    inbox,      \* lines sent by the microcontroller, not yet read
    sent,       \* number of lines the microcontroller has sent
    telemetry,  \* ultrasonic_distance
    reader,     \* the reader thread: "none" (never started), "run" or "dead"
    main        \* the process: "running", "draining" (cleanup_gpio before close),
                \* "closing" (port closed, before os._exit) or "exited"

serVars == <<ser, wire, inbox, sent, telemetry, reader, main>>

SerialTypeOK ==
    /\ ser \in {"absent", "open", "closed"}
    /\ wire \in Seq(Cmds)
    /\ inbox \in Seq(Lines)
    /\ sent \in 0..MaxLines
    /\ telemetry \in Readings \cup {NA}
    /\ reader \in {"none", "run", "dead"}
    /\ main \in {"running", "draining", "closing", "exited"}

(* main(): serial.Serial(...) either opens the port or raises, leaving ser *)
(* None.  On success it sends the stop command "X" and starts the reader   *)
(* thread, both before the HTTP server exists.                             *)
SerialInit ==
    /\ ser \in {"absent", "open"}
    /\ wire = IF ser = "open" THEN <<Stop>> ELSE <<>>
    /\ reader = IF ser = "open" THEN "run" ELSE "none"
    /\ inbox = <<>>
    /\ sent = 0
    /\ telemetry = NA
    /\ main = "running"

-----------------------------------------------------------------------------
(* send_command_to_arduino(c), called by a handler for /tank_command,      *)
(* /turret_move or /set_mouse_pos: nothing if ser is None; otherwise       *)
(* ser.write under serial_lock, where a write to a closed port raises and  *)
(* is only logged.  The handler answers 200 in every case.                 *)
SendCommand(c) ==
    /\ main # "exited"
    /\ Len(wire) < MaxWire
    /\ wire' = IF ser = "open" THEN Append(wire, c) ELSE wire
    /\ UNCHANGED <<ser, inbox, sent, telemetry, reader, main>>

(* Mutant: a reader that treats an empty poll (in_waiting == 0) as the end *)
(* of the stream and breaks out of its loop.                               *)
ReaderStepStopsWhenIdle ==
    /\ main # "exited"
    /\ reader = "run"
    /\ \/ /\ ser = "closed"
          /\ reader' = "dead"
          /\ UNCHANGED <<inbox, telemetry>>
       \/ /\ ser = "open"
          /\ inbox = <<>>
          /\ reader' = "dead"
          /\ UNCHANGED <<inbox, telemetry>>
       \/ /\ ser = "open"
          /\ inbox # <<>>
          /\ inbox' = Tail(inbox)
          /\ CASE Head(inbox).kind = "garbage" ->
                    reader' = "dead" /\ UNCHANGED telemetry
               [] Head(inbox).kind = "dist" ->
                    telemetry' = Head(inbox).val /\ UNCHANGED reader
               [] OTHER ->
                    UNCHANGED <<telemetry, reader>>
    /\ UNCHANGED <<ser, wire, sent, main>>

(* One iteration of read_serial_data_thread, under serial_lock:            *)
(*  - ser.in_waiting on a closed port raises: the thread breaks out;       *)
(*  - nothing waiting: release the lock and sleep;                         *)
(*  - a line that is not UTF-8: .decode raises, the thread breaks out;     *)
(*  - "Dist:<v>": ultrasonic_distance = v (the split cannot fail);         *)
(*  - any other line is dropped.                                           *)
ReaderStep ==
    /\ main # "exited"
    /\ reader = "run"
    /\ \/ /\ ser = "closed"
          /\ reader' = "dead"
          /\ UNCHANGED <<inbox, telemetry>>
       \/ /\ ser = "open"
          /\ inbox = <<>>
          /\ UNCHANGED <<inbox, telemetry, reader>>
       \/ /\ ser = "open"
          /\ inbox # <<>>
          /\ inbox' = Tail(inbox)
          /\ CASE Head(inbox).kind = "garbage" ->
                    reader' = "dead" /\ UNCHANGED telemetry
               [] Head(inbox).kind = "dist" ->
                    telemetry' = Head(inbox).val /\ UNCHANGED reader
               [] OTHER ->
                    UNCHANGED <<telemetry, reader>>
    /\ UNCHANGED <<ser, wire, sent, main>>

(* Environment: the microcontroller prints a line.                         *)
ArduinoSends(l) ==
    /\ sent < MaxLines
    /\ ser = "open"
    /\ inbox' = Append(inbox, l)
    /\ sent' = sent + 1
    /\ UNCHANGED <<ser, wire, telemetry, reader, main>>

(* SIGINT or SIGTERM runs cleanup_gpio in the main thread: if the port is  *)
(* open it writes "X" (without serial_lock) and sleeps 0.1 s; otherwise    *)
(* it goes straight to os._exit(0).                                        *)
Signal ==
    /\ main = "running"
    /\ IF ser = "open"
         THEN /\ wire' = Append(wire, Stop)
              /\ main' = "draining"
         ELSE /\ main' = "exited"
              /\ UNCHANGED wire
    /\ UNCHANGED <<ser, inbox, sent, telemetry, reader>>

(* After the sleep: ser.close().  The other threads keep running until    *)
(* the next statement, os._exit(0), ends the process.                      *)
ClosePort ==
    /\ main = "draining"
    /\ ser' = "closed"
    /\ main' = "closing"
    /\ UNCHANGED <<wire, inbox, sent, telemetry, reader>>

Exit ==
    /\ main = "closing"
    /\ main' = "exited"
    /\ UNCHANGED <<ser, wire, inbox, sent, telemetry, reader>>

SerialNext ==
    \/ \E c \in Cmds : SendCommand(c)
    \/ ReaderStep
    \/ \E l \in Lines : ArduinoSends(l)
    \/ Signal \/ ClosePort \/ Exit

(* The reader thread is scheduled while it runs, and cleanup_gpio, once    *)
(* started, finishes its 0.1 s sleep.  Handlers, the microcontroller and   *)
(* the operator's signal are not obliged to act.                           *)
SerialSpec ==
    /\ SerialInit /\ [][SerialNext]_serVars
    /\ WF_serVars(ReaderStep)
    /\ WF_serVars(ClosePort) /\ WF_serVars(Exit)

-----------------------------------------------------------------------------
(* Every line the microcontroller sends while the port is open is          *)
(* eventually read: /get_distance keeps following the sensor for as long   *)
(* as the process runs (spec section 4.3: the receive loop exits only on   *)
(* an unrecoverable read error).                                           *)
TelemetryKeepsFlowing ==
    (ser = "open" /\ main # "exited" /\ inbox # <<>>)
        ~> (inbox = <<>> \/ ser # "open" \/ main = "exited")

(* When the process has drained and exited, the last command the           *)
(* microcontroller received is the stop command (spec section 4.5:         *)
(* Draining sends a stop directive and stops accepting new motion).        *)
StopIsLastCommand ==
    (main = "exited" /\ ser = "closed") => wire[Len(wire)] = Stop

(* A "Dist:ERROR" line maps to the unavailable sentinel (spec section 6),  *)
(* so /get_distance never reports the payload "ERROR" as a distance.       *)
ErrorReadingIsSentinel ==
    telemetry # ErrorReading
=============================================================================
