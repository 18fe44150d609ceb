--------------------------- MODULE ChargeSession ---------------------------
(***************************************************************************)
(* What the charging state machine promises about its outputs: the order   *)
(* of the phases of a DC charging session, the control pilot state in each *)
(* of them, and that the power relay is closed only while energy is        *)
(* requested and opened before the session goes on to its end.             *)
(***************************************************************************)
VARIABLES phase, pilot, relay

sessionVars == <<phase, pilot, relay>>

Phases == {"Idle", "Handshake", "CableCheck", "PreCharge", "Energy", "Stopping",
           "Opened", "Done", "Failed"}

SessionInit == phase = "Idle" /\ pilot = "B" /\ relay = FALSE

Move(from, to) == phase = from /\ phase' = to

Begin == Move("Idle", "Handshake") /\ UNCHANGED <<pilot, relay>>

\* The charge parameters are agreed: ask for energy with pilot state C.
RequestEnergy == Move("Handshake", "CableCheck") /\ pilot' = "C" /\ UNCHANGED relay

CableIsSafe     == Move("CableCheck", "PreCharge") /\ UNCHANGED <<pilot, relay>>
VoltagesMatch   == Move("PreCharge", "Energy") /\ UNCHANGED <<pilot, relay>>
CloseRelay      == phase = "Energy" /\ relay' = TRUE /\ UNCHANGED <<phase, pilot>>
RequestStop     == Move("Energy", "Stopping") /\ UNCHANGED <<pilot, relay>>
OpenRelay       == Move("Stopping", "Opened") /\ relay' = FALSE /\ UNCHANGED pilot
Finish          == Move("Opened", "Done") /\ pilot' = "B" /\ UNCHANGED relay

\* A failure is noted first; the outputs follow with the reset.
Fail ==
    /\ phase \notin {"Idle", "Done", "Failed"}
    /\ phase' = "Failed"
    /\ UNCHANGED <<pilot, relay>>

Reset ==
    /\ phase # "Idle"
    /\ phase' = "Idle" /\ pilot' = "B" /\ relay' = FALSE

SessionNext ==
    \/ Begin \/ RequestEnergy \/ CableIsSafe \/ VoltagesMatch \/ CloseRelay
    \/ RequestStop \/ OpenRelay \/ Finish \/ Fail \/ Reset

SessionSpec == SessionInit /\ [][SessionNext]_sessionVars

\* What every behaviour of this specification guarantees.
RelayIsSafe ==
    relay => /\ pilot = "C"
             /\ phase \in {"Energy", "Stopping", "Failed"}
=============================================================================
