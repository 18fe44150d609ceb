------------------------- MODULE ChargeSessionProofs ------------------------
(* The abstract session keeps its promise about the relay.                 *)
EXTENDS ChargeSession, TLAPS

\* From the request for energy to the end of the session the pilot is in C.
PilotDuringEnergy ==
    phase \in {"CableCheck", "PreCharge", "Energy", "Stopping", "Opened"} => pilot = "C"

\* The relay of the abstract session is closed only in pilot state C, while
\* energy is requested, while its end is agreed, or until a failure is reset.
THEOREM SessionSafety == SessionSpec => []RelayIsSafe
<1>1. SessionInit => RelayIsSafe /\ PilotDuringEnergy
  BY DEF SessionInit, RelayIsSafe, PilotDuringEnergy
<1>2. ASSUME RelayIsSafe, PilotDuringEnergy, [SessionNext]_sessionVars
      PROVE  (RelayIsSafe /\ PilotDuringEnergy)'
  <2>1. CASE Begin \/ RequestEnergy \/ CableIsSafe \/ VoltagesMatch
    BY <1>2, <2>1
    DEF RelayIsSafe, PilotDuringEnergy, Begin, RequestEnergy, CableIsSafe, VoltagesMatch, Move
  <2>2. CASE CloseRelay \/ RequestStop
    BY <1>2, <2>2 DEF RelayIsSafe, PilotDuringEnergy, CloseRelay, RequestStop, Move
  <2>3. CASE OpenRelay \/ Finish
    BY <1>2, <2>3 DEF RelayIsSafe, PilotDuringEnergy, OpenRelay, Finish, Move
  <2>4. CASE Fail \/ Reset
    BY <1>2, <2>4 DEF RelayIsSafe, PilotDuringEnergy, Fail, Reset
  <2>5. CASE UNCHANGED sessionVars
    BY <1>2, <2>5 DEF RelayIsSafe, PilotDuringEnergy, sessionVars
  <2> QED
    BY <1>2, <2>1, <2>2, <2>3, <2>4, <2>5 DEF SessionNext
<1> QED
  BY <1>1, <1>2, PTL DEF SessionSpec
=============================================================================
