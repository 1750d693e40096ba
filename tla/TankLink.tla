------------------------------ MODULE TankLink ------------------------------
(***************************************************************************)
(* The serial link of src/Guy/peter/web_fixed.py: /tank_command handlers   *)
(* that send a composite drive vector "FR:..;LR:..;UD:..;TLR:..;FC:..\n"   *)
(* (190-209, parsing by parse_tank_command 117-152), the telemetry reader  *)
(* read_serial_data_thread (80-114) and the serial part of cleanup_gpio    *)
(* (317-335) and main (337-360).                                           *)
(*                                                                         *)
(* A handler is not atomic: it answers 200 first, then parses, then takes  *)
(* serial_lock to write; the server runs one thread per request.  The      *)
(* query is abstracted to the drive vector it asks for and whether         *)
(* parse_tank_command yields all five fields; the reader and the wire are  *)
(* abstracted as in SerialChannel.                                         *)
(***************************************************************************)
EXTENDS Sequences, Naturals

CONSTANTS
    Clients,       \* server threads serving /tank_command
    Vectors,       \* drive vectors a client may ask for
    Zero,          \* the all-zero vector "FR:0;LR:0;UD:0;TLR:0;FC:0" (stop)
    Readings,      \* payloads of "Dist:<payload>" lines, ErrorReading included
    ErrorReading,  \* the payload "ERROR"
    NA,            \* "N/A"
    SendsGarbage,  \* whether the microcontroller may send a line that is not UTF-8
    MaxRequests,   \* bound on the /tank_command requests
    MaxLines       \* bound on the lines the microcontroller sends

ASSUME TankLinkAssumption ==
    /\ Zero \in Vectors
    /\ ErrorReading \in Readings /\ NA \notin Readings
    /\ SendsGarbage \in BOOLEAN
    /\ MaxRequests \in Nat /\ MaxLines \in Nat

(* A query: the vector it encodes and whether every one of FR, LR, UD, TLR *)
(* and FC is present as "KEY:<int>" in cmd (parse_tank_command drops a     *)
(* part without ':' or whose value int() rejects).                         *)
Queries == [vec : Vectors, complete : BOOLEAN]

DistLine(v) == [kind |-> "dist", val |-> v]
Lines ==
    {DistLine(v) : v \in Readings} \cup {[kind |-> "other", val |-> NA]}
        \cup (IF SendsGarbage THEN {[kind |-> "garbage", val |-> NA]} ELSE {})

VARIABLES
    ser, wire, inbox, sent, telemetry, reader, main,
    hpc,        \* where each handler is: "idle", "parse", "write"
    query,      \* each handler's parsed query
    status,     \* the status lines written on each handler's current response
    requests    \* requests so far

linkVars == <<ser, wire, inbox, sent, telemetry, reader, main, hpc, query,
              status, requests>>

TankLinkTypeOK ==
    /\ ser \in {"absent", "open", "closed"}
    /\ wire \in Seq(Vectors)
    /\ inbox \in Seq(Lines) /\ sent \in 0..MaxLines
    /\ telemetry \in Readings \cup {NA}
    /\ reader \in {"none", "run", "dead"}
    /\ main \in {"running", "draining", "closing", "exited"}
    /\ hpc \in [Clients -> {"idle", "parse", "write"}]
    /\ query \in [Clients -> Queries]
    /\ status \in [Clients -> Seq({200, 500})]
    /\ requests \in 0..MaxRequests

(* main(): the port opens or ser stays None; on success the reader thread  *)
(* starts.  The initial stop command is commented out.                     *)
TankLinkInit ==
    /\ ser \in {"absent", "open"}
    /\ wire = <<>>
    /\ reader = IF ser = "open" THEN "run" ELSE "none"
    /\ inbox = <<>> /\ sent = 0 /\ telemetry = NA
    /\ main = "running"
    /\ hpc = [c \in Clients |-> "idle"]
    /\ query \in [Clients -> Queries]
    /\ status = [c \in Clients |-> <<>>]
    /\ requests = 0

-----------------------------------------------------------------------------
(* A GET /tank_command?cmd=...: send_response(200) and end_headers()       *)
(* before anything else.                                                   *)
Receive(c, q) ==
    /\ main # "exited"
    /\ hpc[c] = "idle"
    /\ requests < MaxRequests
    /\ hpc' = [hpc EXCEPT ![c] = "parse"]
    /\ query' = [query EXCEPT ![c] = q]
    /\ status' = [status EXCEPT ![c] = <<200>>]
    /\ requests' = requests + 1
    /\ UNCHANGED <<ser, wire, inbox, sent, telemetry, reader, main>>

(* parse_tank_command; `if ser is None: return`; building command_str     *)
(* reads command_data['FR'] ... ['FC'], and a missing key raises KeyError, *)
(* answered by send_error(500) on the response already sent as 200.       *)
Parse(c) ==
    /\ main # "exited"
    /\ hpc[c] = "parse"
    /\ CASE ser = "absent" ->
              hpc' = [hpc EXCEPT ![c] = "idle"] /\ UNCHANGED status
         [] ~query[c].complete ->
              /\ hpc' = [hpc EXCEPT ![c] = "idle"]
              /\ status' = [status EXCEPT ![c] = Append(@, 500)]
         [] OTHER ->
              hpc' = [hpc EXCEPT ![c] = "write"] /\ UNCHANGED status
    /\ UNCHANGED <<ser, wire, inbox, sent, telemetry, reader, main, query, requests>>

(* with serial_lock: ser.write(...); a closed port raises, answered by     *)
(* send_error(500).                                                        *)
WriteVector(c) ==
    /\ main # "exited"
    /\ hpc[c] = "write"
    /\ hpc' = [hpc EXCEPT ![c] = "idle"]
    /\ IF ser = "open"
         THEN wire' = Append(wire, query[c].vec) /\ UNCHANGED status
         ELSE status' = [status EXCEPT ![c] = Append(@, 500)] /\ UNCHANGED wire
    /\ UNCHANGED <<ser, inbox, sent, telemetry, reader, main, query, requests>>

(* Mutant: the reader's outer except leaves ultrasonic_distance alone, as  *)
(* web4.py does.                                                           *)
ReaderStepKeepsValue ==
    /\ main # "exited"
    /\ reader = "run"
    /\ \/ /\ ser = "closed"
          /\ reader' = "dead" /\ UNCHANGED <<inbox, telemetry>>
       \/ /\ ser = "open" /\ inbox = <<>>
          /\ UNCHANGED <<inbox, telemetry, reader>>
       \/ /\ ser = "open" /\ inbox # <<>>
          /\ inbox' = Tail(inbox)
          /\ CASE Head(inbox).kind = "garbage" ->
                    reader' = "dead" /\ UNCHANGED telemetry
               [] Head(inbox).kind = "dist" ->
                    /\ telemetry' = IF Head(inbox).val = ErrorReading
                                      THEN NA ELSE Head(inbox).val
                    /\ UNCHANGED reader
               [] OTHER -> UNCHANGED <<telemetry, reader>>
    /\ UNCHANGED <<ser, wire, sent, main, hpc, query, status, requests>>

(* One iteration of the reader under serial_lock.  "Dist:ERROR" stores     *)
(* "N/A"; any exception (closed port, a line that is not UTF-8) stores     *)
(* "N/A" and ends the thread.                                              *)
ReaderStep ==
    /\ main # "exited"
    /\ reader = "run"
    /\ \/ /\ ser = "closed"
          /\ reader' = "dead" /\ telemetry' = NA /\ UNCHANGED inbox
       \/ /\ ser = "open" /\ inbox = <<>>
          /\ UNCHANGED <<inbox, telemetry, reader>>
       \/ /\ ser = "open" /\ inbox # <<>>
          /\ inbox' = Tail(inbox)
          /\ CASE Head(inbox).kind = "garbage" ->
                    reader' = "dead" /\ telemetry' = NA
               [] Head(inbox).kind = "dist" ->
                    /\ telemetry' = IF Head(inbox).val = ErrorReading
                                      THEN NA ELSE Head(inbox).val
                    /\ UNCHANGED reader
               [] OTHER -> UNCHANGED <<telemetry, reader>>
    /\ UNCHANGED <<ser, wire, sent, main, hpc, query, status, requests>>

(* Environment: the microcontroller prints a line.                         *)
ArduinoSends(l) ==
    /\ sent < MaxLines /\ ser = "open"
    /\ inbox' = Append(inbox, l) /\ sent' = sent + 1
    /\ UNCHANGED <<ser, wire, telemetry, reader, main, hpc, query, status, requests>>

(* cleanup_gpio: the stop write is commented out; if the port is open it   *)
(* sleeps 0.1 s, closes it, and os._exit(0) follows.                       *)
Signal ==
    /\ main = "running"
    /\ main' = IF ser = "open" THEN "draining" ELSE "exited"
    /\ UNCHANGED <<ser, wire, inbox, sent, telemetry, reader, hpc, query, status, requests>>

ClosePort ==
    /\ main = "draining"
    /\ ser' = "closed" /\ main' = "closing"
    /\ UNCHANGED <<wire, inbox, sent, telemetry, reader, hpc, query, status, requests>>

Exit ==
    /\ main = "closing"
    /\ main' = "exited"
    /\ UNCHANGED <<ser, wire, inbox, sent, telemetry, reader, hpc, query, status, requests>>

TankLinkNext ==
    \/ \E c \in Clients :
          \/ \E q \in Queries : Receive(c, q)
          \/ Parse(c) \/ WriteVector(c)
    \/ ReaderStep
    \/ \E l \in Lines : ArduinoSends(l)
    \/ Signal \/ ClosePort \/ Exit

TankLinkSpec ==
    /\ TankLinkInit /\ [][TankLinkNext]_linkVars
    /\ WF_linkVars(ReaderStep) /\ WF_linkVars(ClosePort) /\ WF_linkVars(Exit)
    /\ \A c \in Clients : WF_linkVars(Parse(c)) /\ WF_linkVars(WriteVector(c))

-----------------------------------------------------------------------------
(* /get_distance never passes off a value the sensor does not stand        *)
(* behind: never the ERROR marker, and "N/A" once the reader thread has    *)
(* ended, whatever line or port failure ended it (spec sections 6, 7).     *)
TelemetryNeverMisleads ==
    /\ telemetry # ErrorReading
    /\ reader = "dead" => telemetry = NA

(* Every request gets one status line (spec section 6: 200 on forwarding,  *)
(* 400 on an unparseable command, 500 on a transmission error).            *)
OneStatusPerRequest ==
    \A c \in Clients : Len(status[c]) <= 1

(* When the process has drained and exited, the motors were last told to   *)
(* stop (spec section 4.5: Draining sends a stop directive).               *)
DrainStops ==
    (main = "exited" /\ ser = "closed" /\ wire # <<>>)
        => wire[Len(wire)] = Zero
=============================================================================
