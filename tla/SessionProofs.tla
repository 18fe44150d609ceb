--------------------------- MODULE SessionProofs ---------------------------
(***************************************************************************)
(* The safety properties of Charging and the refinement of ChargeSession,  *)
(* proved for all values of the constants.                                 *)
(*                                                                         *)
(* OutputsInv is the inductive invariant about the outputs.  Besides the   *)
(* position of pilot and relay in each state it counts: before the charging *)
(* loop neither the bulb's delay nor the accumulator has moved, and until  *)
(* the bulb is lit both the accumulator and the time since the last answer *)
(* are behind the bulb's delay.  That is why the loop can neither be ended *)
(* nor time out in the call that closes the relay.                         *)
(***************************************************************************)
EXTENDS ChargingProofs

IdleStates == {"NotYetInitialized", "Connecting"}

BeforeLoop ==
    {"WaitForSupportedApplicationProtocolResponse", "WaitForSessionSetupResponse",
     "WaitForServiceDiscoveryResponse", "WaitForServicePaymentSelectionResponse",
     "WaitForContractAuthenticationResponse", "WaitForChargeParameterDiscoveryResponse",
     "WaitForCableCheckResponse", "WaitForPreChargeResponse"}

PilotCStates ==
    {"WaitForCableCheckResponse", "WaitForPreChargeResponse",
     "WaitForPowerDeliveryResponse", "WaitForCurrentDemandResponse",
     "WaitForWeldingDetectionResponse", "WaitForSessionStopResponse"}

PilotInv ==
    /\ pev_state \in IdleStates => cpState = "B"
    /\ pev_state \in PilotCStates => cpState = "C"

\* The bulb is off and its delay has not started.
BulbAtRest == ~powerRelay /\ ~pev_isBulbOn /\ pev_cyclesLightBulbDelay = 0

BulbInv ==
    /\ pev_state \in IdleStates => BulbAtRest
    /\ pev_state \in BeforeLoop => BulbAtRest /\ soc = SOC_START
    /\ pev_state = "WaitForPowerDeliveryResponse" /\ pev_wasPowerDeliveryRequestedOn
          => BulbAtRest /\ soc = SOC_START
    /\ pev_state = "WaitForCurrentDemandResponse"
          => /\ pev_wasPowerDeliveryRequestedOn
             /\ ~pev_isBulbOn => /\ soc <= SOC_START + pev_cyclesLightBulbDelay
                                 /\ pev_cyclesInState <= pev_cyclesLightBulbDelay

OutputsInv == PilotInv /\ RelayOnlyWhileCharging /\ BulbInv

-----------------------------------------------------------------------------
(* The outputs.                                                            *)

\* The states after which nothing is awaited.
LEMMA OtherStates ==
    /\ "SequenceTimeout" \notin WaitStates /\ "ChargingFinished" \notin WaitStates
    /\ "NotYetInitialized" \notin WaitStates /\ "Connecting" \notin WaitStates
  BY WaitStatesByName

\* A call in the charging loop that lights the bulb stays in the loop.
LEMMA BulbKeepsLoop ==
    ASSUME TypeOK, OutputsInv, stateFunctionWaitForCurrentDemandResponse,
           pev_cyclesLightBulbDelay > BULB_DELAY, ~pev_isBulbOn
    PROVE  /\ pev_state' = "WaitForCurrentDemandResponse"
           /\ UNCHANGED pev_wasPowerDeliveryRequestedOn
  <1>1. /\ pev_state = "WaitForCurrentDemandResponse"
        /\ soc <= SOC_START + BULB_DELAY + 1
        /\ pev_cyclesInState <= BULB_DELAY + 1
    BY PevConstants
    DEF stateFunctionWaitForCurrentDemandResponse, OutputsInv, BulbInv, TypeOK, PevTypeOK
  <1>2. ~IsAccuFull
    BY <1>1, PevConstants, PevAssumption DEF IsAccuFull, TypeOK, PevTypeOK
  <1>3. ~pev_isTooLong
    <2>1. Limit(pev_state) = LIMIT_CURRENT
      BY <1>1 DEF Limit
    <2>2. Cycles <= BULB_DELAY + 2
      BY <1>1, PevConstants DEF Cycles, TypeOK, PevTypeOK
    <2> QED
      BY <2>1, <2>2, CyclesType, PevConstants, PevAssumption DEF pev_isTooLong, TypeOK
  <1> QED
    BY <1>1, <1>2, <1>3
    DEF stateFunctionWaitForCurrentDemandResponse, Wait, StayOrTimeout, Request,
        pev_enterState

\* A state is left only for its successor or for SequenceTimeout.
LEMMA StayMoves == StayOrTimeout => pev_state' \in {pev_state, "SequenceTimeout"}
  BY DEF StayOrTimeout, pev_enterState

\* Asking again keeps the state or gives the session up.
LEMMA AskAgainMoves ==
    ASSUME NEW count, NEW max, NEW req, AskAgain(count, max, req)
    PROVE  pev_state' \in {pev_state, "SequenceTimeout"}
  BY DEF AskAgain, Request, pev_enterState

\* Up to the charging loop the outputs hang on the pilot alone.
LEMMA BeforeLoopMove ==
    ASSUME TypeOK, OutputsInv, pev_state \in BeforeLoop,
           pev_state' \in BeforeLoop \cup {"SequenceTimeout"},
           UNCHANGED <<powerRelay, pev_isBulbOn, pev_cyclesLightBulbDelay, soc>>,
           pev_state' \in PilotCStates => cpState' = "C"
    PROVE  OutputsInv'
  <1>1. BulbAtRest' /\ soc' = SOC_START
    BY DEF OutputsInv, BulbInv, BulbAtRest
  <1>2. PilotInv'
    BY DEF PilotInv, BeforeLoop, IdleStates
  <1>3. BulbInv'
    BY <1>1 DEF BulbInv, BeforeLoop, IdleStates
  <1>4. RelayOnlyWhileCharging'
    BY <1>1 DEF RelayOnlyWhileCharging, BulbAtRest
  <1> QED
    BY <1>2, <1>3, <1>4 DEF OutputsInv

\* Every state function keeps the outputs in their places.
LEMMA OutputsStateFunction ==
    ASSUME TypeOK, OutputsInv, StateFunction PROVE OutputsInv'
  <1>1. CASE stateFunctionConnected
    <2>1. /\ BulbAtRest' /\ soc' = SOC_START
          /\ pev_state' = "WaitForSupportedApplicationProtocolResponse"
      BY <1>1
      DEF stateFunctionConnected, Request, pev_enterState, OutputsInv, BulbInv,
          BulbAtRest, bulbVars, IdleStates
    <2> QED
      BY <2>1
      DEF OutputsInv, PilotInv, BulbInv, BulbAtRest, RelayOnlyWhileCharging, BeforeLoop,
          IdleStates, PilotCStates
  <1>2. CASE stateFunctionWaitForSupportedApplicationProtocolResponse
    BY <1>2, BeforeLoopMove, StayMoves
    DEF stateFunctionWaitForSupportedApplicationProtocolResponse, Request, Wait,
        pev_enterState, BeforeLoop, PilotCStates, bulbVars, energyVars
  <1>3. CASE stateFunctionWaitForSessionSetupResponse
    BY <1>3, BeforeLoopMove, StayMoves
    DEF stateFunctionWaitForSessionSetupResponse, SimpleExchange, Request, Wait,
        pev_enterState, BeforeLoop, PilotCStates, bulbVars, energyVars
  <1>4. CASE stateFunctionWaitForServiceDiscoveryResponse
    BY <1>4, BeforeLoopMove, StayMoves
    DEF stateFunctionWaitForServiceDiscoveryResponse, SimpleExchange, Request, Wait,
        pev_enterState, BeforeLoop, PilotCStates, bulbVars, energyVars
  <1>5. CASE stateFunctionWaitForServicePaymentSelectionResponse
    BY <1>5, BeforeLoopMove, StayMoves
    DEF stateFunctionWaitForServicePaymentSelectionResponse, SimpleExchange, Request, Wait,
        pev_enterState, BeforeLoop, PilotCStates, bulbVars, energyVars
  <1>6. CASE stateFunctionWaitForContractAuthenticationResponse
    <2>1. /\ pev_state = "WaitForContractAuthenticationResponse"
          /\ pev_state' \in {pev_state, "WaitForChargeParameterDiscoveryResponse",
                            "SequenceTimeout"}
      BY <1>6, StayMoves, AskAgainMoves
      DEF stateFunctionWaitForContractAuthenticationResponse, FirstSecond, Request, Wait,
          pev_enterState
    <2>2. UNCHANGED <<powerRelay, pev_isBulbOn, pev_cyclesLightBulbDelay, soc>>
      BY <1>6
      DEF stateFunctionWaitForContractAuthenticationResponse, FirstSecond, bulbVars, energyVars
    <2>3. pev_state' \in PilotCStates => cpState' = "C"
      BY <1>6, <2>1, StayMoves, AskAgainMoves
      DEF stateFunctionWaitForContractAuthenticationResponse, FirstSecond, Wait, energyVars,
          OutputsInv, PilotInv, PilotCStates
    <2> QED
      BY <2>1, <2>2, <2>3, BeforeLoopMove DEF BeforeLoop
  <1>7. CASE stateFunctionWaitForChargeParameterDiscoveryResponse
    <2>1. /\ pev_state = "WaitForChargeParameterDiscoveryResponse"
          /\ pev_state' \in {pev_state, "WaitForCableCheckResponse",
                            "SequenceTimeout"}
      BY <1>7, StayMoves, AskAgainMoves
      DEF stateFunctionWaitForChargeParameterDiscoveryResponse, FirstSecond, Request, Wait,
          pev_enterState
    <2>2. UNCHANGED <<powerRelay, pev_isBulbOn, pev_cyclesLightBulbDelay, soc>>
      BY <1>7
      DEF stateFunctionWaitForChargeParameterDiscoveryResponse, FirstSecond, bulbVars, energyVars
    <2>3. pev_state' \in PilotCStates => cpState' = "C"
      BY <1>7, <2>1, StayMoves, AskAgainMoves
      DEF stateFunctionWaitForChargeParameterDiscoveryResponse, FirstSecond, Wait, energyVars,
          OutputsInv, PilotInv, PilotCStates
    <2> QED
      BY <2>1, <2>2, <2>3, BeforeLoopMove DEF BeforeLoop
  <1>8. CASE stateFunctionWaitForCableCheckResponse
    <2>1. /\ pev_state = "WaitForCableCheckResponse"
          /\ pev_state' \in {pev_state, "WaitForPreChargeResponse",
                            "SequenceTimeout"}
      BY <1>8, StayMoves, AskAgainMoves
      DEF stateFunctionWaitForCableCheckResponse, FirstSecond, Request, Wait,
          pev_enterState
    <2>2. UNCHANGED <<powerRelay, pev_isBulbOn, pev_cyclesLightBulbDelay, soc>>
      BY <1>8
      DEF stateFunctionWaitForCableCheckResponse, FirstSecond, bulbVars, energyVars
    <2>3. pev_state' \in PilotCStates => cpState' = "C"
      BY <1>8, <2>1, StayMoves, AskAgainMoves
      DEF stateFunctionWaitForCableCheckResponse, FirstSecond, Wait, energyVars,
          OutputsInv, PilotInv, PilotCStates
    <2> QED
      BY <2>1, <2>2, <2>3, BeforeLoopMove DEF BeforeLoop
  <1>9. CASE stateFunctionWaitForPreChargeResponse
    <2> DEFINE on == /\ pev_wasPowerDeliveryRequestedOn' = TRUE
                     /\ pev_state' = "WaitForPowerDeliveryResponse"
    <2>1. /\ pev_state = "WaitForPreChargeResponse"
          /\ on \/ pev_state' \in {pev_state, "SequenceTimeout"}
          /\ UNCHANGED <<powerRelay, pev_isBulbOn, pev_cyclesLightBulbDelay, soc, cpState>>
      BY <1>9, StayMoves
      DEF stateFunctionWaitForPreChargeResponse, Request, Wait, pev_enterState, bulbVars
    <2>2. cpState' = "C" /\ BulbAtRest' /\ soc' = SOC_START
      BY <2>1 DEF OutputsInv, PilotInv, BulbInv, BulbAtRest, PilotCStates, BeforeLoop
    <2> QED
      BY <2>1, <2>2
      DEF OutputsInv, PilotInv, RelayOnlyWhileCharging, BulbInv, BulbAtRest, BeforeLoop,
          IdleStates, PilotCStates
  <1>10. CASE stateFunctionWaitForPowerDeliveryResponse
    <2>1. /\ pev_state = "WaitForPowerDeliveryResponse" /\ cpState = "C"
          /\ UNCHANGED <<cpState, pev_wasPowerDeliveryRequestedOn,
                         pev_cyclesLightBulbDelay, soc>>
      BY <1>10
      DEF stateFunctionWaitForPowerDeliveryResponse, energyVars, OutputsInv, PilotInv,
          PilotCStates
    <2>2. CASE /\ pev_wasPowerDeliveryRequestedOn
               /\ pev_enterState("WaitForCurrentDemandResponse")
               /\ UNCHANGED <<powerRelay, pev_isBulbOn>>
      BY <2>1, <2>2, PevConstants
      DEF OutputsInv, PilotInv, RelayOnlyWhileCharging, BulbInv, BulbAtRest, BeforeLoop,
          IdleStates, PilotCStates, pev_enterState
    <2>3. CASE ~powerRelay' /\ pev_enterState("WaitForWeldingDetectionResponse")
      BY <2>1, <2>3
      DEF OutputsInv, PilotInv, RelayOnlyWhileCharging, BulbInv, BeforeLoop, IdleStates,
          PilotCStates, pev_enterState
    <2>4. CASE StayOrTimeout /\ UNCHANGED <<powerRelay, pev_isBulbOn>>
      BY <2>1, <2>4, StayMoves
      DEF OutputsInv, PilotInv, RelayOnlyWhileCharging, BulbInv, BulbAtRest, BeforeLoop,
          IdleStates, PilotCStates
    <2> QED
      BY <1>10, <2>2, <2>3, <2>4
      DEF stateFunctionWaitForPowerDeliveryResponse, Request, Wait
  <1>11. CASE stateFunctionWaitForCurrentDemandResponse
    <2>1. /\ pev_state = "WaitForCurrentDemandResponse" /\ cpState = "C"
          /\ cpState' = "C" /\ pev_wasPowerDeliveryRequestedOn
      BY <1>11
      DEF stateFunctionWaitForCurrentDemandResponse, OutputsInv, PilotInv, BulbInv,
          PilotCStates
    <2>2. \/ /\ pev_state' = "WaitForCurrentDemandResponse"
             /\ UNCHANGED pev_wasPowerDeliveryRequestedOn
          \/ /\ pev_state' = "WaitForPowerDeliveryResponse"
             /\ pev_wasPowerDeliveryRequestedOn' = FALSE
          \/ pev_state' = "SequenceTimeout"
      BY <1>11, <2>1, StayMoves
      DEF stateFunctionWaitForCurrentDemandResponse, Request, Wait, pev_enterState
    <2>3. ASSUME pev_state' = "WaitForCurrentDemandResponse", ~pev_isBulbOn'
          PROVE  /\ soc' <= SOC_START + pev_cyclesLightBulbDelay'
                 /\ pev_cyclesInState' <= pev_cyclesLightBulbDelay'
      <3>1. ~pev_isBulbOn /\ pev_cyclesLightBulbDelay' = pev_cyclesLightBulbDelay + 1
        <4>1. LightBulb
          BY <1>11 DEF stateFunctionWaitForCurrentDemandResponse
        <4>2. pev_cyclesLightBulbDelay' = pev_cyclesLightBulbDelay + 1
          BY <2>3, <4>1 DEF LightBulb
        <4>3. pev_isBulbOn' = pev_isBulbOn
          BY <2>3, <4>1 DEF LightBulb
        <4> QED
          BY <2>3, <4>2, <4>3, Zenon
      <3>2. /\ soc <= SOC_START + pev_cyclesLightBulbDelay
            /\ pev_cyclesInState <= pev_cyclesLightBulbDelay
        BY <2>1, <3>1 DEF OutputsInv, BulbInv
      <3>3. soc' <= soc + 1
        BY <1>11 DEF stateFunctionWaitForCurrentDemandResponse, TypeOK, PevTypeOK
      <3>4. pev_cyclesInState' <= pev_cyclesInState + 1
        <4>1. Cycles <= pev_cyclesInState + 1
          BY DEF Cycles, TypeOK, PevTypeOK
        <4>2. pev_cyclesInState' \in {0, Cycles}
          BY <1>11
          DEF stateFunctionWaitForCurrentDemandResponse, Wait, StayOrTimeout, Request,
              pev_enterState
        <4> QED
          BY <4>1, <4>2 DEF TypeOK, PevTypeOK
      <3>5. /\ soc' \in Int /\ pev_cyclesInState' \in Int
            /\ pev_cyclesLightBulbDelay \in Int /\ soc \in Int
        BY StateFunctionType, PevConstants DEF TypeOK, PevTypeOK
      <3> QED
        BY <3>1, <3>2, <3>3, <3>4, <3>5, PevConstants DEF TypeOK, PevTypeOK
    <2>4. PilotInv' /\ RelayOnlyWhileCharging'
      BY <2>1, <2>2 DEF PilotInv, RelayOnlyWhileCharging, IdleStates, PilotCStates
    <2>5. BulbInv'
      BY <2>1, <2>2, <2>3 DEF BulbInv, IdleStates, BeforeLoop
    <2> QED
      BY <2>4, <2>5 DEF OutputsInv
  <1>12. CASE stateFunctionWaitForWeldingDetectionResponse
    <2>1. /\ pev_state = "WaitForWeldingDetectionResponse"
          /\ pev_state' \in {pev_state, "WaitForSessionStopResponse", "SequenceTimeout"}
          /\ UNCHANGED <<cpState, powerRelay>>
      BY <1>12, StayMoves
      DEF stateFunctionWaitForWeldingDetectionResponse, SimpleExchange, Request, Wait,
          pev_enterState, bulbVars, energyVars
    <2> QED
      BY <2>1
      DEF OutputsInv, PilotInv, RelayOnlyWhileCharging, BulbInv, BeforeLoop, IdleStates,
          PilotCStates
  <1>13. CASE stateFunctionWaitForSessionStopResponse
    <2>1. /\ pev_state = "WaitForSessionStopResponse"
          /\ \/ pev_state' = "ChargingFinished"
             \/ pev_state' \in {pev_state, "SequenceTimeout"} /\ UNCHANGED cpState
          /\ UNCHANGED powerRelay
      BY <1>13, StayMoves
      DEF stateFunctionWaitForSessionStopResponse, pev_enterState, bulbVars
    <2> QED
      BY <2>1
      DEF OutputsInv, PilotInv, RelayOnlyWhileCharging, BulbInv, BeforeLoop, IdleStates,
          PilotCStates
  <1>14. CASE stateFunctionSequenceTimeout
    BY <1>14
    DEF stateFunctionSequenceTimeout, SwitchOff, pev_enterState, OutputsInv, PilotInv,
        RelayOnlyWhileCharging, BulbInv, BulbAtRest, BeforeLoop, IdleStates, PilotCStates
  <1>15. CASE NothingToDo
    <2>1. /\ pev_state \in {"Connecting", "ChargingFinished", "NotYetInitialized"}
          /\ UNCHANGED <<pev_state, cpState, powerRelay, pev_isBulbOn,
                         pev_cyclesLightBulbDelay>>
      BY <1>15 DEF NothingToDo, bulbVars, energyVars
    <2> QED
      BY <2>1
      DEF OutputsInv, PilotInv, RelayOnlyWhileCharging, BulbInv, BulbAtRest, BeforeLoop,
          IdleStates, PilotCStates
  <1> QED
    BY <1>1, <1>2, <1>3, <1>4, <1>5, <1>6, <1>7, <1>8, <1>9, <1>10, <1>11, <1>12,
       <1>13, <1>14, <1>15 DEF StateFunction

\* Only the charging state machine moves the outputs.
LEMMA OutputsStep ==
    ASSUME TypeOK, OutputsInv, [Next]_vars PROVE OutputsInv'
  <1>1. CASE UNCHANGED pevVars
    BY <1>1
    DEF pevVars, energyVars, bulbVars, OutputsInv, PilotInv, RelayOnlyWhileCharging,
        BulbInv, BulbAtRest
  <1>2. CASE LevelLost
    <2>1. CASE pev_enterState("NotYetInitialized") /\ SwitchOff
      BY <2>1
      DEF pev_enterState, SwitchOff, OutputsInv, PilotInv, RelayOnlyWhileCharging,
          BulbInv, BulbAtRest, BeforeLoop, IdleStates, PilotCStates
    <2>2. CASE pev_state = "NotYetInitialized" /\ UNCHANGED <<pev_state, cpState, bulbVars>>
      BY <2>2
      DEF bulbVars, OutputsInv, PilotInv, RelayOnlyWhileCharging, BulbInv, BulbAtRest,
          BeforeLoop, IdleStates, PilotCStates
    <2> QED
      BY <1>2, <2>1, <2>2 DEF LevelLost
  <1>3. CASE StateFunction
    BY <1>3, OutputsStateFunction
  <1> QED
    BY <1>1, <1>2, <1>3
    DEF Next, task30ms, CallConnMgr, CallTcp, CallPev, pevStateMachine_Mainfunction,
        Environment, ReceiveSdpResponse, ReceiveTcp, LinkEvent, vars

\* Relay, pilot, bulb delay and accumulator are where each state expects them.
THEOREM OutputsCorrect == Spec => []OutputsInv
  <1>1. Init => OutputsInv
    BY DEF Init, PevInit, OutputsInv, PilotInv, RelayOnlyWhileCharging, BulbInv,
           BulbAtRest, BeforeLoop, IdleStates, PilotCStates
  <1> QED
    BY <1>1, OutputsStep, TypeCorrect, PTL DEF Spec

\* The relay is closed only in pilot state C and only from the charging loop
\* to its agreed end or to the re-initialisation after a timeout.
THEOREM RelaySafety == Spec => []RelayOnlyWhileCharging
  <1>1. OutputsInv => RelayOnlyWhileCharging
    BY DEF OutputsInv
  <1> QED
    BY <1>1, OutputsCorrect, PTL

\* The call that closes the relay is one that stays in the charging loop.
THEOREM RelayClosesSafely == Spec => RelayClosesOnlyInTheLoop
  <1>1. ASSUME TypeOK, OutputsInv, [Next]_vars, ~powerRelay, powerRelay'
        PROVE  /\ pev_state = "WaitForCurrentDemandResponse"
               /\ pev_state' = "WaitForCurrentDemandResponse"
               /\ pev_wasPowerDeliveryRequestedOn'
    <2>1. StateFunction
      <3>1. ~UNCHANGED pevVars
        BY <1>1 DEF pevVars, bulbVars
      <3>2. ~LevelLost
        BY <1>1 DEF LevelLost, SwitchOff, bulbVars
      <3> QED
        BY <1>1, <3>1, <3>2
        DEF Next, task30ms, CallConnMgr, CallTcp, CallPev, pevStateMachine_Mainfunction,
            Environment, ReceiveSdpResponse, ReceiveTcp, LinkEvent, vars
    <2>2. stateFunctionWaitForCurrentDemandResponse
      BY <1>1, <2>1
      DEF StateFunction, stateFunctionConnected,
          stateFunctionWaitForSupportedApplicationProtocolResponse,
          stateFunctionWaitForSessionSetupResponse,
          stateFunctionWaitForServiceDiscoveryResponse,
          stateFunctionWaitForServicePaymentSelectionResponse,
          stateFunctionWaitForContractAuthenticationResponse,
          stateFunctionWaitForChargeParameterDiscoveryResponse,
          stateFunctionWaitForCableCheckResponse, stateFunctionWaitForPreChargeResponse,
          stateFunctionWaitForPowerDeliveryResponse,
          stateFunctionWaitForWeldingDetectionResponse,
          stateFunctionWaitForSessionStopResponse, stateFunctionSequenceTimeout,
          NothingToDo, SimpleExchange, FirstSecond, SwitchOff, bulbVars
    <2>3. pev_cyclesLightBulbDelay > BULB_DELAY /\ ~pev_isBulbOn
      <3>1. LightBulb
        BY <2>2 DEF stateFunctionWaitForCurrentDemandResponse
      <3> QED
        BY <1>1, <3>1 DEF LightBulb
    <2>4. pev_state = "WaitForCurrentDemandResponse" /\ pev_wasPowerDeliveryRequestedOn
      BY <1>1, <2>2 DEF stateFunctionWaitForCurrentDemandResponse, OutputsInv, BulbInv
    <2> QED
      BY <1>1, <2>2, <2>3, <2>4, BulbKeepsLoop
  <1> QED
    BY <1>1, TypeCorrect, OutputsCorrect, PTL DEF Spec, RelayClosesOnlyInTheLoop

-----------------------------------------------------------------------------
(* The time limits.                                                        *)

WithinLimit == pev_state \in WaitStates => pev_cyclesInState <= Limit(pev_state)

\* A limit is a number, and none is shorter than the first second.
LEMMA LimitType ==
    ASSUME NEW s
    PROVE  /\ Limit(s) \in Nat
           /\ s # "WaitForPreChargeResponse" /\ s # "WaitForCurrentDemandResponse"
                 => MIN_CYCLES <= Limit(s)
  BY PevConstants, PevAssumption DEF Limit

\* Being within the limit is being bounded; the PreCharge delay is the slack.
LEMMA WithinIsBounded == PevTypeOK /\ WithinLimit => WaitIsBounded
  <1> SUFFICES ASSUME PevTypeOK, WithinLimit PROVE WaitIsBounded
    OBVIOUS
  <1>1. CASE pev_state = "WaitForPreChargeResponse"
    <2>1. pev_cyclesInState <= LIMIT_PRECHARGE
      BY <1>1, WaitStatesByName DEF WithinLimit, Limit
    <2> QED
      BY <1>1, <2>1, PevConstants DEF PevTypeOK, WaitIsBounded
  <1> QED
    BY <1>1 DEF WithinLimit, WaitIsBounded

\* A state that is just entered is within its limit.
LEMMA EnterWithin ==
    ASSUME NEW s, pev_enterState(s) PROVE WithinLimit'
  <1>1. pev_cyclesInState' = 0 /\ Limit(pev_state') \in Nat
    BY LimitType DEF pev_enterState
  <1> QED
    BY <1>1 DEF WithinLimit, Limit

\* Staying is allowed only within the limit (pev_isTooLong).
LEMMA StayWithin ==
    ASSUME TypeOK, StayOrTimeout PROVE WithinLimit'
  <1>1. CASE pev_enterState("SequenceTimeout")
    BY <1>1, EnterWithin
  <1>2. CASE ~pev_isTooLong /\ pev_cyclesInState' = Cycles /\ UNCHANGED pev_state
    <2>1. pev_cyclesInState' <= Limit(pev_state)
      BY <1>2, CyclesType, LimitType, PevConstants DEF pev_isTooLong, TypeOK
    <2> QED
      BY <1>2, <2>1 DEF WithinLimit, Limit
  <1> QED
    BY <1>1, <1>2 DEF StayOrTimeout

\* Asking again starts the time of the state anew, or gives up.
LEMMA AskAgainWithin ==
    ASSUME NEW count, NEW max, NEW req, AskAgain(count, max, req) PROVE WithinLimit'
  BY EnterWithin DEF AskAgain, Request

\* The first second of a state lies within its limit.
LEMMA FirstSecondWithin ==
    ASSUME TypeOK, NEW s, FirstSecond(s),
           s # "WaitForPreChargeResponse", s # "WaitForCurrentDemandResponse"
    PROVE  WithinLimit'
  <1>1. pev_cyclesInState' <= Limit(pev_state)
    BY CyclesType, LimitType, PevConstants DEF FirstSecond, TypeOK
  <1> QED
    BY <1>1 DEF FirstSecond, WithinLimit, Limit

\* The time in a waiting state is bounded by its limit, in PreCharge plus one
\* delay: no timeout is missed because the counter wraps.
THEOREM WaitsAreBounded == Spec => []WaitIsBounded
  <1>1. Init => WaitIsBounded
    BY OtherStates DEF Init, PevInit, WaitIsBounded
  <1>2. ASSUME TypeOK, TypeOK', WaitIsBounded, [Next]_vars
        PROVE  WaitIsBounded'
    <2> USE DEF TypeOK
    <2>v. PevTypeOK'
      BY <1>2
    <2>w. WithinLimit' => WaitIsBounded'
      BY <2>v, WithinIsBounded, PTL
    <2>1. CASE UNCHANGED pevVars
      BY <1>2, <2>1 DEF pevVars, WaitIsBounded, Limit
    <2>2. CASE LevelLost
      BY <1>2, <2>2, OtherStates, EnterWithin, <2>w DEF LevelLost, WaitIsBounded
    <2>3. CASE StateFunction
      <3>1. CASE stateFunctionWaitForPreChargeResponse /\ pev_DelayCycles > 0
        <4>1. /\ pev_state = "WaitForPreChargeResponse" /\ UNCHANGED pev_state
              /\ pev_DelayCycles' = pev_DelayCycles - 1 /\ pev_cyclesInState' = Cycles
          BY <3>1, <1>2 DEF stateFunctionWaitForPreChargeResponse, PevTypeOK
        <4>2. pev_cyclesInState + pev_DelayCycles <= LIMIT_PRECHARGE + PRECHARGE_DELAY
          BY <1>2, <4>1, WaitStatesByName DEF WaitIsBounded
        <4>3. pev_cyclesInState' <= pev_cyclesInState + 1
          BY <1>2, <4>1 DEF Cycles, PevTypeOK
        <4> QED
          BY <1>2, <4>1, <4>2, <4>3, PevConstants DEF WaitIsBounded, PevTypeOK
      <3>2. CASE NothingToDo
        BY <3>2, OtherStates DEF NothingToDo, WaitIsBounded
      <3>3. CASE ~(stateFunctionWaitForPreChargeResponse /\ pev_DelayCycles > 0)
                 /\ ~NothingToDo
        BY <1>2, <2>3, <3>3, <2>w, EnterWithin, StayWithin, AskAgainWithin,
           FirstSecondWithin
        DEF StateFunction, stateFunctionConnected,
            stateFunctionWaitForSupportedApplicationProtocolResponse,
            stateFunctionWaitForSessionSetupResponse,
            stateFunctionWaitForServiceDiscoveryResponse,
            stateFunctionWaitForServicePaymentSelectionResponse,
            stateFunctionWaitForContractAuthenticationResponse,
            stateFunctionWaitForChargeParameterDiscoveryResponse,
            stateFunctionWaitForCableCheckResponse,
            stateFunctionWaitForPreChargeResponse,
            stateFunctionWaitForPowerDeliveryResponse,
            stateFunctionWaitForCurrentDemandResponse,
            stateFunctionWaitForWeldingDetectionResponse,
            stateFunctionWaitForSessionStopResponse, stateFunctionSequenceTimeout,
            SimpleExchange, Request, Wait
      <3> QED
        BY <2>3, <3>1, <3>2, <3>3
    <2> QED
      BY <1>2, <2>1, <2>2, <2>3
      DEF Next, task30ms, CallConnMgr, CallTcp, CallPev, pevStateMachine_Mainfunction,
          Environment, ReceiveSdpResponse, ReceiveTcp, LinkEvent, vars
  <1> QED
    BY <1>1, <1>2, TypeCorrect, PTL DEF Spec

-----------------------------------------------------------------------------
(* The relay and the charger's messages.                                   *)

Heard == connMgr_timer["TCP"] > 0 \/ connMgr_timer["Appl"] > 0

\* Between the connection manager and the end of the cycle a level of 80 or
\* more means that the charger has been heard.
TrafficInv ==
    /\ task \in {"tcp", "pev"} /\ connMgr_ConnectionLevel >= 80 => Heard
    /\ RelayNeedsTraffic

\* The charging state machine only ever loads the application timer.
LEMMA TimerAfterPev ==
    ASSUME StateFunction
    PROVE  connMgr_timer' \in {connMgr_timer, ApplOk(connMgr_timer)}
  <1>1. FetchDin => connMgr_timer' \in {connMgr_timer, ApplOk(connMgr_timer)}
    BY DEF FetchDin, Consume
  <1> QED
    BY <1>1
    DEF StateFunction, stateFunctionConnected,
        stateFunctionWaitForSupportedApplicationProtocolResponse,
        stateFunctionWaitForSessionSetupResponse,
        stateFunctionWaitForServiceDiscoveryResponse,
        stateFunctionWaitForServicePaymentSelectionResponse,
        stateFunctionWaitForContractAuthenticationResponse,
        stateFunctionWaitForChargeParameterDiscoveryResponse,
        stateFunctionWaitForCableCheckResponse,
        stateFunctionWaitForPreChargeResponse,
        stateFunctionWaitForPowerDeliveryResponse,
        stateFunctionWaitForCurrentDemandResponse,
        stateFunctionWaitForWeldingDetectionResponse,
        stateFunctionWaitForSessionStopResponse, stateFunctionSequenceTimeout,
        NothingToDo,
        SimpleExchange, FirstSecond, Consume

\* No report shortens the two upper timers.
LEMMA ReportsKeepHeard ==
    ASSUME TypeOK
    PROVE  /\ Heard => SdpOk(connMgr_timer)["TCP"] > 0 \/ SdpOk(connMgr_timer)["Appl"] > 0
           /\ TcpOk(connMgr_timer)["TCP"] > 0
           /\ ApplOk(connMgr_timer)["Appl"] > 0
  BY ChargingAssumption, TimerAssumption
  DEF Heard, SdpOk, TcpOk, ApplOk, Reload, TypeOK, ConnMgrTypeOK

\* Whenever a cycle ends with the relay closed the charger has been heard
\* within the last TIMER_MAX cycles.
THEOREM RelayHearsCharger == Spec => []RelayNeedsTraffic
  <1>1. Init => TrafficInv
    BY DEF Init, PevInit, TrafficInv, RelayNeedsTraffic
  <1>2. ASSUME TypeOK, OutputsInv, TrafficInv, [Next]_vars PROVE TrafficInv'
    <2>1. CASE CallConnMgr
      <3>1. ASSUME connMgr_ConnectionLevel' >= 80 PROVE Heard'
        <4> DEFINE counted == CountDown(connMgr_timer)
        <4>1. connMgr_ConnectionLevel' = LevelOfTimers(counted)
          BY <2>1, <3>1 DEF CallConnMgr, connMgr_Mainfunction
        <4>2. Running(counted, "Appl") \/ Running(counted, "TCP")
          BY <3>1, <4>1 DEF LevelOfTimers
        <4>3. /\ connMgr_timer'["TCP"] = counted["TCP"]
              /\ connMgr_timer'["Appl"] = counted["Appl"]
          BY <2>1, ChargingAssumption
          DEF CallConnMgr, connMgr_Mainfunction, Reload, CountDown
        <4> QED
          BY <4>2, <4>3 DEF Running, Heard
      <3> QED
        BY <2>1, <3>1 DEF CallConnMgr, TrafficInv, RelayNeedsTraffic
    <2>2. CASE CallTcp
      BY <1>2, <2>2
      DEF CallTcp, tcp_Mainfunction, connMgrVars, TrafficInv, RelayNeedsTraffic, Heard
    <2>3. CASE CallPev /\ LevelLost
      <3>1. ~powerRelay'
        BY <1>2, <2>3
        DEF LevelLost, SwitchOff, bulbVars, OutputsInv, BulbInv, BulbAtRest, IdleStates
      <3> QED
        BY <2>3, <3>1 DEF CallPev, TrafficInv, RelayNeedsTraffic
    <2>4. CASE CallPev /\ connMgr_ConnectionLevel >= 80 /\ StateFunction
      <3>1. Heard
        BY <1>2, <2>4 DEF CallPev, TrafficInv
      <3>2. Heard'
        BY <1>2, <2>4, <3>1, TimerAfterPev, ReportsKeepHeard DEF Heard
      <3> QED
        BY <2>4, <3>2 DEF CallPev, TrafficInv, RelayNeedsTraffic, Heard
    <2>5. CASE Environment
      <3>1. Heard => Heard'
        BY <1>2, <2>5, ReportsKeepHeard
        DEF Environment, ReceiveSdpResponse, ReceiveTcp, ReceiveSynAck, EvseAnswers,
            EvseStray, ReceiveData, LinkEvent, EthLinkEvent, Heard
      <3>2. UNCHANGED <<task, connMgr_ConnectionLevel, powerRelay>>
        BY <2>5
        DEF Environment, ReceiveSdpResponse, ReceiveTcp, ReceiveSynAck, EvseAnswers,
            EvseStray, ReceiveData, LinkEvent, EthLinkEvent, pevVars, bulbVars
      <3> QED
        BY <1>2, <3>1, <3>2 DEF TrafficInv, RelayNeedsTraffic, Heard
    <2>6. CASE UNCHANGED vars
      BY <1>2, <2>6
      DEF vars, connMgrVars, pevVars, bulbVars, TrafficInv, RelayNeedsTraffic, Heard
    <2> QED
      BY <1>2, <2>1, <2>2, <2>3, <2>4, <2>5, <2>6
      DEF Next, task30ms, CallPev, pevStateMachine_Mainfunction
  <1>3. TrafficInv => RelayNeedsTraffic
    BY DEF TrafficInv
  <1> QED
    BY <1>1, <1>2, <1>3, TypeCorrect, OutputsCorrect, PTL DEF Spec

-----------------------------------------------------------------------------
(* The receive slot.                                                       *)

LaterStates == WaitStates \ {"WaitForSupportedApplicationProtocolResponse"}

\* Data of a closed connection lies in the slot of a later exchange only in
\* the middle of the cycle that is about to give the session up.
DataInv ==
    Received /\ ~tcp_rxdata.fresh /\ pev_state \in LaterStates
    => task = "pev" /\ connMgr_ConnectionLevel < 80

\* A later exchange is entered with an empty slot, and the state functions
\* put nothing into it.
LEMMA SlotAfterPev ==
    ASSUME TypeOK, StateFunction, pev_state' \in LaterStates
    PROVE  \/ tcp_rxdata' = Nothing
           \/ tcp_rxdata' = tcp_rxdata /\ ~Received
           \/ tcp_rxdata' = tcp_rxdata /\ pev_state \in LaterStates
  <1>1. FetchDin => tcp_rxdata' = Nothing \/ (tcp_rxdata' = tcp_rxdata /\ ~Received)
    BY DEF FetchDin, Consume
  <1>2. pev_state' \notin IdleStates \cup {"ChargingFinished",
                                   "WaitForSupportedApplicationProtocolResponse"}
    BY WaitStatesByName DEF LaterStates, IdleStates
  <1> QED
    BY <1>1, <1>2, WaitStatesByName
    DEF StateFunction, stateFunctionConnected,
        stateFunctionWaitForSupportedApplicationProtocolResponse,
        stateFunctionWaitForSessionSetupResponse,
        stateFunctionWaitForServiceDiscoveryResponse,
        stateFunctionWaitForServicePaymentSelectionResponse,
        stateFunctionWaitForContractAuthenticationResponse,
        stateFunctionWaitForChargeParameterDiscoveryResponse,
        stateFunctionWaitForCableCheckResponse,
        stateFunctionWaitForPreChargeResponse,
        stateFunctionWaitForPowerDeliveryResponse,
        stateFunctionWaitForCurrentDemandResponse,
        stateFunctionWaitForWeldingDetectionResponse,
        stateFunctionWaitForSessionStopResponse, stateFunctionSequenceTimeout,
        NothingToDo,
        SimpleExchange, FirstSecond, Consume, Request, pev_enterState, channelVars,
        LaterStates, IdleStates

\* Unread data beyond the first exchange of a session came over the
\* connection of this session.
THEOREM UnreadDataCurrent == Spec => []UnreadDataIsCurrent
  <1>1. Init => DataInv
    BY OtherStates DEF Init, PevInit, DataInv, LaterStates
  <1>2. ASSUME TypeOK, DataInv, [Next]_vars PROVE DataInv'
    <2>1. CASE CallConnMgr
      BY <1>2, <2>1
      DEF CallConnMgr, DataInv, Received, pevVars, channelVars
    <2>2. CASE CallTcp
      <3>1. CASE Close /\ connMgr_ConnectionLevel < 50
        BY <1>2, <2>2, <3>1
        DEF CallTcp, tcp_Mainfunction, connMgrVars, DataInv, TypeOK, ConnMgrTypeOK, Levels
      <3>2. CASE UNCHANGED tcp_rxdata
        BY <1>2, <2>2, <3>2 DEF CallTcp, DataInv, Received, pevVars
      <3> QED
        BY <2>2, <3>1, <3>2 DEF CallTcp, tcp_Mainfunction, channelVars
    <2>3. CASE CallPev /\ LevelLost
      <3>1. pev_state' = "NotYetInitialized"
        BY <2>3 DEF LevelLost, pev_enterState
      <3> QED
        BY <3>1, OtherStates DEF DataInv, LaterStates
    <2>4. CASE CallPev /\ connMgr_ConnectionLevel >= 80 /\ StateFunction
      <3>1. ~(connMgr_ConnectionLevel < 80)
        BY <1>2, <2>4 DEF TypeOK, ConnMgrTypeOK, Levels
      <3>2. Nothing.kind = "Nothing"
        BY DEF Nothing
      <3> QED
        BY <1>2, <2>4, <3>1, <3>2, SlotAfterPev DEF DataInv, Received
    <2>5. CASE Environment
      <3>1. UNCHANGED <<task, connMgr_ConnectionLevel, pev_state>>
        BY <2>5
        DEF Environment, ReceiveSdpResponse, ReceiveTcp, ReceiveSynAck, EvseAnswers,
            EvseStray, ReceiveData, LinkEvent, EthLinkEvent, pevVars
      <3>2. UNCHANGED tcp_rxdata \/ tcp_rxdata'.fresh
        <4>1. ASSUME NEW kind, ReceiveData(kind) PROVE tcp_rxdata'.fresh
          BY <4>1 DEF ReceiveData
        <4> QED
          BY <2>5, <4>1
          DEF Environment, ReceiveSdpResponse, ReceiveTcp, ReceiveSynAck, EvseAnswers,
              EvseStray, LinkEvent, channelVars
      <3> QED
        BY <1>2, <3>1, <3>2 DEF DataInv, Received
    <2>6. CASE UNCHANGED vars
      BY <1>2, <2>6 DEF vars, connMgrVars, channelVars, pevVars, DataInv, Received
    <2> QED
      BY <1>2, <2>1, <2>2, <2>3, <2>4, <2>5, <2>6
      DEF Next, task30ms, CallPev, pevStateMachine_Mainfunction
  <1>3. DataInv => UnreadDataIsCurrent
    BY DEF DataInv, UnreadDataIsCurrent, LaterStates
  <1> QED
    BY <1>1, <1>2, <1>3, TypeCorrect, PTL DEF Spec

-----------------------------------------------------------------------------
(* The refinement.                                                         *)

\* The phase of each state.
LEMMA PhaseOfState ==
    /\ pev_state \in IdleStates => Phase = "Idle"
    /\ pev_state \in BeforeLoop \ {"WaitForCableCheckResponse", "WaitForPreChargeResponse"}
          => Phase = "Handshake"
    /\ pev_state = "WaitForCableCheckResponse" => Phase = "CableCheck"
    /\ pev_state = "WaitForPreChargeResponse" => Phase = "PreCharge"
    /\ pev_state \in {"WaitForPowerDeliveryResponse", "WaitForCurrentDemandResponse"}
          => Phase = IF pev_wasPowerDeliveryRequestedOn THEN "Energy" ELSE "Stopping"
    /\ pev_state \in {"WaitForWeldingDetectionResponse", "WaitForSessionStopResponse"}
          => Phase = "Opened"
    /\ pev_state = "ChargingFinished" => Phase = "Done"
    /\ pev_state = "SequenceTimeout" => Phase = "Failed"
  BY DEF Phase, IdleStates, BeforeLoop

\* Giving up a session that has begun, without touching the outputs, is Fail.
LEMMA TimeoutIsFail ==
    ASSUME pev_state \in WaitStates, pev_state' = "SequenceTimeout",
           UNCHANGED <<cpState, powerRelay>>
    PROVE  Session!Fail
  <1>1. Phase \notin {"Idle", "Done", "Failed"}
    BY WaitStatesByName, PhaseOfState DEF BeforeLoop
  <1>2. Phase' = "Failed"
    BY DEF Phase
  <1> QED
    BY <1>1, <1>2 DEF Session!Fail

\* A waiting state that sees no answer leaves the session as it is, or fails.
LEMMA NoProgress ==
    ASSUME pev_state \in WaitStates, pev_state' \in {pev_state, "SequenceTimeout"},
           UNCHANGED <<cpState, powerRelay, pev_wasPowerDeliveryRequestedOn>>
    PROVE  [Session!SessionNext]_(Session!sessionVars)
  <1>1. CASE pev_state' = "SequenceTimeout"
    BY <1>1, TimeoutIsFail DEF Session!SessionNext
  <1>2. CASE pev_state' = pev_state
    <2>1. Phase' = Phase
      BY <1>2 DEF Phase
    <2> QED
      BY <2>1 DEF Session!sessionVars
  <1> QED
    BY <1>1, <1>2

\* Within the handshake nothing shows.
LEMMA HandshakeProgress ==
    ASSUME pev_state \in BeforeLoop \ {"WaitForCableCheckResponse",
                                       "WaitForPreChargeResponse"},
           pev_state' \in BeforeLoop \ {"WaitForCableCheckResponse",
                                        "WaitForPreChargeResponse"},
           UNCHANGED <<cpState, powerRelay>>
    PROVE  [Session!SessionNext]_(Session!sessionVars)
  <1>1. Phase = "Handshake" /\ Phase' = "Handshake"
    BY DEF Phase, BeforeLoop
  <1> QED
    BY <1>1 DEF Session!sessionVars

\* Every state function is a step of the abstract session or none.
LEMMA StateFunctionRefines ==
    ASSUME TypeOK, OutputsInv, StateFunction
    PROVE  [Session!SessionNext]_(Session!sessionVars)
  <1> USE WaitStatesByName DEF BeforeLoop
  <1>1. CASE stateFunctionConnected
    <2>1. Phase = "Idle" /\ Phase' = "Handshake" /\ UNCHANGED <<cpState, powerRelay>>
      BY <1>1 DEF stateFunctionConnected, Request, pev_enterState, bulbVars, Phase
    <2> QED
      BY <2>1 DEF Session!SessionNext, Session!Begin, Session!Move
  <1>2. CASE stateFunctionWaitForSupportedApplicationProtocolResponse
    BY <1>2, HandshakeProgress, NoProgress, StayMoves
    DEF stateFunctionWaitForSupportedApplicationProtocolResponse, Request, Wait,
        pev_enterState, bulbVars, energyVars
  <1>3. CASE stateFunctionWaitForSessionSetupResponse
    BY <1>3, HandshakeProgress, NoProgress, StayMoves
    DEF stateFunctionWaitForSessionSetupResponse, SimpleExchange, Request, Wait,
        pev_enterState, bulbVars, energyVars
  <1>4. CASE stateFunctionWaitForServiceDiscoveryResponse
    BY <1>4, HandshakeProgress, NoProgress, StayMoves
    DEF stateFunctionWaitForServiceDiscoveryResponse, SimpleExchange, Request, Wait,
        pev_enterState, bulbVars, energyVars
  <1>5. CASE stateFunctionWaitForServicePaymentSelectionResponse
    BY <1>5, HandshakeProgress, NoProgress, StayMoves
    DEF stateFunctionWaitForServicePaymentSelectionResponse, SimpleExchange, Request,
        Wait, pev_enterState, bulbVars, energyVars
  <1>6. CASE stateFunctionWaitForContractAuthenticationResponse
    <2>1. /\ pev_state = "WaitForContractAuthenticationResponse"
          /\ pev_state' \in {pev_state, "WaitForChargeParameterDiscoveryResponse",
                            "SequenceTimeout"}
          /\ UNCHANGED <<cpState, powerRelay, pev_wasPowerDeliveryRequestedOn>>
      BY <1>6, StayMoves, AskAgainMoves
      DEF stateFunctionWaitForContractAuthenticationResponse, FirstSecond, Request, Wait,
          pev_enterState, bulbVars, energyVars
    <2> QED
      BY <2>1, HandshakeProgress, NoProgress
  <1>7. CASE stateFunctionWaitForChargeParameterDiscoveryResponse
    <2>1. /\ pev_state = "WaitForChargeParameterDiscoveryResponse"
          /\ UNCHANGED <<powerRelay, pev_wasPowerDeliveryRequestedOn>>
          /\ \/ pev_state' \in {pev_state, "SequenceTimeout"} /\ UNCHANGED cpState
             \/ pev_state' = "WaitForCableCheckResponse" /\ cpState' = "C"
      BY <1>7, StayMoves, AskAgainMoves
      DEF stateFunctionWaitForChargeParameterDiscoveryResponse, FirstSecond, Request,
          Wait, pev_enterState, bulbVars, energyVars
    <2>2. CASE pev_state' = "WaitForCableCheckResponse" /\ cpState' = "C"
      <3>1. Phase = "Handshake" /\ Phase' = "CableCheck"
        BY <2>1, <2>2 DEF Phase
      <3> QED
        BY <2>1, <2>2, <3>1 DEF Session!SessionNext, Session!RequestEnergy, Session!Move
    <2> QED
      BY <2>1, <2>2, NoProgress
  <1>8. CASE stateFunctionWaitForCableCheckResponse
    <2>1. /\ pev_state = "WaitForCableCheckResponse"
          /\ pev_state' \in {pev_state, "WaitForPreChargeResponse", "SequenceTimeout"}
          /\ UNCHANGED <<cpState, powerRelay, pev_wasPowerDeliveryRequestedOn>>
      BY <1>8, StayMoves, AskAgainMoves
      DEF stateFunctionWaitForCableCheckResponse, FirstSecond, Request, Wait,
          pev_enterState, bulbVars, energyVars
    <2>2. CASE pev_state' = "WaitForPreChargeResponse"
      <3>1. Phase = "CableCheck" /\ Phase' = "PreCharge"
        BY <2>1, <2>2 DEF Phase
      <3> QED
        BY <2>1, <3>1 DEF Session!SessionNext, Session!CableIsSafe, Session!Move
    <2> QED
      BY <2>1, <2>2, NoProgress
  <1>9. CASE stateFunctionWaitForPreChargeResponse
    <2>1. /\ pev_state = "WaitForPreChargeResponse"
          /\ UNCHANGED <<cpState, powerRelay>>
          /\ \/ /\ pev_state' \in {pev_state, "SequenceTimeout"}
                /\ UNCHANGED pev_wasPowerDeliveryRequestedOn
             \/ /\ pev_state' = "WaitForPowerDeliveryResponse"
                /\ pev_wasPowerDeliveryRequestedOn' = TRUE
      BY <1>9, StayMoves
      DEF stateFunctionWaitForPreChargeResponse, Request, Wait, pev_enterState, bulbVars
    <2>2. CASE /\ pev_state' = "WaitForPowerDeliveryResponse"
               /\ pev_wasPowerDeliveryRequestedOn' = TRUE
      <3>1. Phase = "PreCharge" /\ Phase' = "Energy"
        BY <2>1, <2>2 DEF Phase
      <3> QED
        BY <2>1, <3>1 DEF Session!SessionNext, Session!VoltagesMatch, Session!Move
    <2> QED
      BY <2>1, <2>2, NoProgress
  <1>10. CASE stateFunctionWaitForPowerDeliveryResponse
    <2>1. /\ pev_state = "WaitForPowerDeliveryResponse"
          /\ UNCHANGED <<cpState, pev_wasPowerDeliveryRequestedOn>>
          /\ \/ /\ pev_state' \in {pev_state, "SequenceTimeout"}
                /\ UNCHANGED powerRelay
             \/ /\ pev_wasPowerDeliveryRequestedOn
                /\ pev_state' = "WaitForCurrentDemandResponse" /\ UNCHANGED powerRelay
             \/ /\ ~pev_wasPowerDeliveryRequestedOn
                /\ pev_state' = "WaitForWeldingDetectionResponse" /\ powerRelay' = FALSE
      BY <1>10, StayMoves
      DEF stateFunctionWaitForPowerDeliveryResponse, Request, Wait, pev_enterState,
          energyVars
    <2>2. CASE /\ pev_wasPowerDeliveryRequestedOn
               /\ pev_state' = "WaitForCurrentDemandResponse" /\ UNCHANGED powerRelay
      <3>1. Phase = "Energy" /\ Phase' = "Energy"
        BY <2>1, <2>2 DEF Phase
      <3> QED
        BY <2>1, <2>2, <3>1 DEF Session!sessionVars
    <2>3. CASE /\ ~pev_wasPowerDeliveryRequestedOn
               /\ pev_state' = "WaitForWeldingDetectionResponse" /\ powerRelay' = FALSE
      <3>1. Phase = "Stopping" /\ Phase' = "Opened"
        BY <2>1, <2>3 DEF Phase
      <3> QED
        BY <2>1, <2>3, <3>1 DEF Session!SessionNext, Session!OpenRelay, Session!Move
    <2> QED
      BY <2>1, <2>2, <2>3, NoProgress
  <1>11. CASE stateFunctionWaitForCurrentDemandResponse
    <2>1. /\ pev_state = "WaitForCurrentDemandResponse" /\ pev_wasPowerDeliveryRequestedOn
          /\ UNCHANGED cpState
          /\ \/ /\ pev_state' \in {pev_state, "SequenceTimeout"}
                /\ UNCHANGED pev_wasPowerDeliveryRequestedOn
             \/ /\ pev_state' = "WaitForPowerDeliveryResponse"
                /\ pev_wasPowerDeliveryRequestedOn' = FALSE
      BY <1>11, StayMoves
      DEF stateFunctionWaitForCurrentDemandResponse, Request, Wait, pev_enterState,
          OutputsInv, BulbInv
    <2>2. CASE pev_cyclesLightBulbDelay > BULB_DELAY /\ ~pev_isBulbOn
      <3>1. Phase = "Energy" /\ Phase' = "Energy" /\ powerRelay' = TRUE
        <4>1. LightBulb
          BY <1>11 DEF stateFunctionWaitForCurrentDemandResponse
        <4>2. powerRelay' = TRUE
          <5>1. ~(pev_cyclesLightBulbDelay <= BULB_DELAY)
            BY <2>2, PevConstants DEF TypeOK, PevTypeOK
          <5>2. powerRelay' = IF pev_isBulbOn THEN powerRelay ELSE TRUE
            BY <4>1, <5>1, Zenon DEF LightBulb
          <5> QED
            BY <2>2, <5>2, Zenon
        <4> QED
          BY <1>11, <2>1, <2>2, <4>2, BulbKeepsLoop DEF Phase
      <3> QED
        BY <2>1, <3>1 DEF Session!SessionNext, Session!CloseRelay
    <2>3. CASE ~(pev_cyclesLightBulbDelay > BULB_DELAY /\ ~pev_isBulbOn)
      <3>1. UNCHANGED powerRelay
        BY <1>11, <2>3
        DEF stateFunctionWaitForCurrentDemandResponse, LightBulb
      <3>2. CASE /\ pev_state' = "WaitForPowerDeliveryResponse"
                 /\ pev_wasPowerDeliveryRequestedOn' = FALSE
        <4>1. Phase = "Energy" /\ Phase' = "Stopping"
          BY <2>1, <3>2 DEF Phase
        <4> QED
          BY <2>1, <3>1, <4>1 DEF Session!SessionNext, Session!RequestStop, Session!Move
      <3> QED
        BY <2>1, <3>1, <3>2, NoProgress
    <2> QED
      BY <2>2, <2>3
  <1>12. CASE stateFunctionWaitForWeldingDetectionResponse
    <2>1. /\ pev_state = "WaitForWeldingDetectionResponse"
          /\ pev_state' \in {pev_state, "WaitForSessionStopResponse", "SequenceTimeout"}
          /\ UNCHANGED <<cpState, powerRelay, pev_wasPowerDeliveryRequestedOn>>
      BY <1>12, StayMoves
      DEF stateFunctionWaitForWeldingDetectionResponse, SimpleExchange, Request, Wait,
          pev_enterState, bulbVars, energyVars
    <2>2. CASE pev_state' = "WaitForSessionStopResponse"
      <3>1. Phase = "Opened" /\ Phase' = "Opened"
        BY <2>1, <2>2 DEF Phase
      <3> QED
        BY <2>1, <3>1 DEF Session!sessionVars
    <2> QED
      BY <2>1, <2>2, NoProgress
  <1>13. CASE stateFunctionWaitForSessionStopResponse
    <2>1. /\ pev_state = "WaitForSessionStopResponse"
          /\ UNCHANGED <<powerRelay, pev_wasPowerDeliveryRequestedOn>>
          /\ \/ pev_state' = "ChargingFinished" /\ cpState' = "B"
             \/ pev_state' \in {pev_state, "SequenceTimeout"} /\ UNCHANGED cpState
      BY <1>13, StayMoves
      DEF stateFunctionWaitForSessionStopResponse, pev_enterState, bulbVars
    <2>2. CASE pev_state' = "ChargingFinished" /\ cpState' = "B"
      <3>1. Phase = "Opened" /\ Phase' = "Done"
        BY <2>1, <2>2 DEF Phase
      <3> QED
        BY <2>1, <2>2, <3>1 DEF Session!SessionNext, Session!Finish, Session!Move
    <2> QED
      BY <2>1, <2>2, NoProgress
  <1>14. CASE stateFunctionSequenceTimeout
    <2>1. /\ Phase = "Failed" /\ Phase' = "Idle"
          /\ cpState' = "B" /\ powerRelay' = FALSE
      BY <1>14 DEF stateFunctionSequenceTimeout, pev_enterState, SwitchOff, Phase
    <2> QED
      BY <2>1 DEF Session!SessionNext, Session!Reset
  <1>15. CASE NothingToDo
    <2>1. Phase' = Phase /\ UNCHANGED <<cpState, powerRelay>>
      BY <1>15 DEF NothingToDo, bulbVars, energyVars, Phase
    <2> QED
      BY <2>1 DEF Session!sessionVars
  <1> QED
    BY <1>1, <1>2, <1>3, <1>4, <1>5, <1>6, <1>7, <1>8, <1>9, <1>10, <1>11, <1>12,
       <1>13, <1>14, <1>15 DEF StateFunction

\* The program implements the abstract charging session, whatever the charger
\* sends and whenever the connection breaks.
THEOREM Refinement == Spec => ImplementsSession
  <1>1. Init => Session!SessionInit
    BY DEF Init, PevInit, Session!SessionInit, Phase
  <1>2. ASSUME TypeOK, OutputsInv, [Next]_vars
        PROVE  [Session!SessionNext]_(Session!sessionVars)
    <2>1. CASE UNCHANGED pevVars
      BY <2>1 DEF pevVars, energyVars, bulbVars, Phase, Session!sessionVars
    <2>2. CASE LevelLost
      <3>1. CASE pev_enterState("NotYetInitialized") /\ SwitchOff
        <4>1. Phase' = "Idle" /\ cpState' = "B" /\ powerRelay' = FALSE
          BY <3>1 DEF pev_enterState, SwitchOff, Phase
        <4>2. Phase = "Idle" => cpState = "B" /\ powerRelay = FALSE
          <5>1. Phase = "Idle" => pev_state \in IdleStates
            BY <1>2 DEF Phase, IdleStates
          <5>2. powerRelay \in BOOLEAN
            BY <1>2 DEF TypeOK, PevTypeOK
          <5> QED
            BY <1>2, <5>1, <5>2 DEF OutputsInv, PilotInv, BulbInv, BulbAtRest
        <4> QED
          BY <4>1, <4>2 DEF Session!SessionNext, Session!Reset, Session!sessionVars
      <3>2. CASE /\ pev_state = "NotYetInitialized"
                 /\ UNCHANGED <<pev_state, cpState, bulbVars>>
        <4>1. Phase' = Phase /\ UNCHANGED <<cpState, powerRelay>>
          BY <3>2 DEF Phase, bulbVars
        <4> QED
          BY <4>1 DEF Session!sessionVars
      <3> QED
        BY <2>2, <3>1, <3>2 DEF LevelLost
    <2>3. CASE StateFunction
      BY <1>2, <2>3, StateFunctionRefines
    <2> QED
      BY <1>2, <2>1, <2>2, <2>3
      DEF Next, task30ms, CallConnMgr, CallTcp, CallPev, pevStateMachine_Mainfunction,
          Environment, ReceiveSdpResponse, ReceiveTcp, LinkEvent, vars
  <1> QED
    BY <1>1, <1>2, TypeCorrect, OutputsCorrect, PTL
    DEF Spec, ImplementsSession, Session!SessionSpec
=============================================================================
