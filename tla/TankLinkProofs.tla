--------------------------- MODULE TankLinkProofs ---------------------------
(***************************************************************************)
(* Proof, for every set of clients, vectors and readings and every bound,  *)
(* that web_fixed.py's /get_distance value is never the ERROR marker and   *)
(* is "N/A" once the reader thread has died.                               *)
(***************************************************************************)
EXTENDS TankLink, TLAPS

(* The safety part of TankLinkSpec.                                        *)
TankLinkSafety == TankLinkInit /\ [][TankLinkNext]_linkVars

(* "N/A" is not the error payload: it is not a reading at all.             *)
LEMMA NAIsNotError == NA # ErrorReading
BY TankLinkAssumption

(* Only the reader writes ultrasonic_distance, and it writes "N/A" or a    *)
(* payload other than "ERROR"; it only ends after writing "N/A" (the run   *)
(* link_telemetry's invariant).  The property is inductive as it stands.   *)
THEOREM TelemetryInvariant == TankLinkSafety => []TelemetryNeverMisleads
<1> USE DEF TelemetryNeverMisleads
<1>1. TankLinkInit => TelemetryNeverMisleads
    BY NAIsNotError DEF TankLinkInit
<1>2. TelemetryNeverMisleads /\ [TankLinkNext]_linkVars => TelemetryNeverMisleads'
  <2> SUFFICES ASSUME TelemetryNeverMisleads, [TankLinkNext]_linkVars
               PROVE  TelemetryNeverMisleads'
      OBVIOUS
  <2>1. CASE ReaderStep
    <3>1. CASE ser = "closed"
          BY <2>1, <3>1, NAIsNotError DEF ReaderStep
    <3>2. CASE ser = "open" /\ inbox = <<>>
          BY <2>1, <3>2 DEF ReaderStep
    <3>3. CASE ser = "open" /\ inbox # <<>>
      <4> DEFINE l == Head(inbox)
      <4>1. CASE l.kind = "garbage"
            BY <2>1, <3>3, <4>1, NAIsNotError DEF ReaderStep
      <4>2. CASE l.kind # "garbage" /\ l.kind = "dist"
            BY <2>1, <3>3, <4>2, NAIsNotError DEF ReaderStep
      <4>3. CASE l.kind # "garbage" /\ l.kind # "dist"
            BY <2>1, <3>3, <4>3 DEF ReaderStep
      <4>4. QED
            BY <4>1, <4>2, <4>3
    <3>4. QED
          BY <2>1, <3>1, <3>2, <3>3 DEF ReaderStep
  <2>2. ASSUME NEW c \in Clients,
               \/ \E q \in Queries : Receive(c, q)
               \/ Parse(c) \/ WriteVector(c)
        PROVE  TelemetryNeverMisleads'
        BY <2>2 DEF Receive, Parse, WriteVector
  <2>3. ASSUME NEW l \in Lines, ArduinoSends(l) PROVE TelemetryNeverMisleads'
        BY <2>3 DEF ArduinoSends
  <2>4. CASE Signal \/ ClosePort \/ Exit
        BY <2>4 DEF Signal, ClosePort, Exit
  <2>5. CASE UNCHANGED linkVars
        BY <2>5 DEF linkVars
  <2>6. QED
        BY <2>1, <2>2, <2>3, <2>4, <2>5 DEF TankLinkNext
<1>3. QED
    BY <1>1, <1>2, PTL DEF TankLinkSafety
=============================================================================
