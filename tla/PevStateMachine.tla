-------------------------- MODULE PevStateMachine --------------------------
(***************************************************************************)
(* The charging state machine of the car (pevStateMachine.ino) with the    *)
(* outputs it drives (hardwareInterface.ino): the control pilot resistor   *)
(* (state B or C), the power relay and the simulated accumulator.          *)
(*                                                                         *)
(* Every action is one call of pevStateMachine_Mainfunction that ends up   *)
(* in the state function of the same name.                                 *)
(***************************************************************************)
EXTENDS TcpChannel

CONSTANTS
    MIN_CYCLES,         \* 30: "the first second in the state just do nothing"
    LIMIT_DEFAULT,      \* 66      time limits of pev_isTooLong, in cycles
    LIMIT_PARAM,        \* 5*33    ChargeParameterDiscovery
    LIMIT_CABLE,        \* 30*33   CableCheck
    LIMIT_PRECHARGE,    \* 30*33   PreCharge
    LIMIT_POWER,        \* 6*33    PowerDelivery
    LIMIT_CURRENT,      \* 5*33    CurrentDemand
    PRECHARGE_DELAY,    \* 15      between two PreChargeReq
    BULB_DELAY,         \* 33*2    in the charging loop before the bulb is lit
    AUTH_MAX,           \* 120     ContractAuthenticationReq per session
    PARAM_MAX,          \* 20      ChargeParameterDiscoveryReq per session
    CABLE_MAX,          \* 30      repeated CableCheckReq per session
    SOC_START, SOC_FULL, SOC_MAX,  \* 200, 960, 1000: 0.1 % of the accumulator
    CYCLE_WRAP          \* 2^16    pev_cyclesInState is a uint16_t

ASSUME PevAssumption ==
    /\ \A c \in {MIN_CYCLES, LIMIT_DEFAULT, LIMIT_PARAM, LIMIT_CABLE, LIMIT_PRECHARGE,
                 LIMIT_POWER, LIMIT_CURRENT, PRECHARGE_DELAY, BULB_DELAY, AUTH_MAX,
                 PARAM_MAX, CABLE_MAX, SOC_START, SOC_FULL, SOC_MAX, CYCLE_WRAP} : c \in Nat
    /\ 0 < MIN_CYCLES /\ MIN_CYCLES <= LIMIT_DEFAULT
    /\ LIMIT_DEFAULT <= LIMIT_PARAM /\ LIMIT_PARAM <= LIMIT_CABLE
    /\ LIMIT_DEFAULT <= LIMIT_POWER /\ BULB_DELAY + 1 < LIMIT_CURRENT
    /\ 0 < AUTH_MAX /\ 0 < PARAM_MAX /\ 0 < CABLE_MAX
    /\ SOC_START + BULB_DELAY + 1 < SOC_FULL /\ SOC_FULL <= SOC_MAX
    /\ \A limit \in {LIMIT_CABLE, LIMIT_PRECHARGE, LIMIT_POWER, LIMIT_CURRENT} :
          limit + PRECHARGE_DELAY + 1 < CYCLE_WRAP

VARIABLES
    pev_state, pev_cyclesInState, pev_DelayCycles,
    pev_numberOfContractAuthenticationReq,
    pev_numberOfChargeParameterDiscoveryReq,
    pev_numberOfCableCheckReq,
    pev_wasPowerDeliveryRequestedOn,
    pev_isBulbOn, pev_cyclesLightBulbDelay,
    aphsResUsed,  \* aphsDoc.supportedAppProtocolRes_isUsed
    dinDocDec,    \* the message whose Body flags dinDocDec still holds
    cpState,      \* control pilot: "B" or "C"
    powerRelay,   \* is the power relay closed?
    soc           \* hwIf_simulatedSoc_0p1

retryVars == <<pev_numberOfContractAuthenticationReq,
               pev_numberOfChargeParameterDiscoveryReq, pev_numberOfCableCheckReq>>
decoderVars == <<aphsResUsed, dinDocDec>>
bulbVars == <<pev_isBulbOn, pev_cyclesLightBulbDelay, powerRelay>>
energyVars == <<pev_wasPowerDeliveryRequestedOn, soc, cpState>>
pevVars == <<pev_state, pev_cyclesInState, pev_DelayCycles, retryVars, decoderVars,
             bulbVars, energyVars>>

\* The response each waiting state waits for.
Awaited ==
    [WaitForSupportedApplicationProtocolResponse |-> "SupportedAppProtocolRes",
     WaitForSessionSetupResponse                 |-> "SessionSetupRes",
     WaitForServiceDiscoveryResponse             |-> "ServiceDiscoveryRes",
     WaitForServicePaymentSelectionResponse      |-> "ServicePaymentSelectionRes",
     WaitForContractAuthenticationResponse       |-> "ContractAuthenticationRes",
     WaitForChargeParameterDiscoveryResponse     |-> "ChargeParameterDiscoveryRes",
     WaitForCableCheckResponse                   |-> "CableCheckRes",
     WaitForPreChargeResponse                    |-> "PreChargeRes",
     WaitForPowerDeliveryResponse                |-> "PowerDeliveryRes",
     WaitForCurrentDemandResponse                |-> "CurrentDemandRes",
     WaitForWeldingDetectionResponse             |-> "WeldingDetectionRes",
     WaitForSessionStopResponse                  |-> "SessionStopRes"]

WaitStates == DOMAIN Awaited
\* PEV_STATE_Connected is entered and left within one call.
PevStates == WaitStates \cup {"NotYetInitialized", "Connecting", "ChargingFinished",
                              "SequenceTimeout"}

\* What the DIN decoder can find; the first response has a decoder of its own.
DinResponses == Responses \ {"SupportedAppProtocolRes"}
DinMessages == [kind : DinResponses \cup {"Nothing"}, ok : BOOLEAN]

PevTypeOK ==
    /\ pev_state \in PevStates
    /\ pev_cyclesInState \in 0 .. CYCLE_WRAP - 1
    /\ pev_DelayCycles \in 0 .. PRECHARGE_DELAY
    /\ pev_numberOfContractAuthenticationReq \in 0 .. AUTH_MAX
    /\ pev_numberOfChargeParameterDiscoveryReq \in 0 .. PARAM_MAX
    /\ pev_numberOfCableCheckReq \in 0 .. CABLE_MAX + 1
    /\ pev_wasPowerDeliveryRequestedOn \in BOOLEAN
    /\ pev_isBulbOn \in BOOLEAN
    /\ pev_cyclesLightBulbDelay \in 0 .. BULB_DELAY + 1
    /\ aphsResUsed \in BOOLEAN
    /\ dinDocDec \in DinMessages
    /\ cpState \in {"B", "C"}
    /\ powerRelay \in BOOLEAN
    /\ soc \in 0 .. SOC_MAX

PevInit ==
    /\ pev_state = "NotYetInitialized"
    /\ pev_cyclesInState = 0 /\ pev_DelayCycles = 0
    /\ pev_numberOfContractAuthenticationReq = 0
    /\ pev_numberOfChargeParameterDiscoveryReq = 0
    /\ pev_numberOfCableCheckReq = 0
    /\ pev_wasPowerDeliveryRequestedOn = FALSE
    /\ pev_isBulbOn = FALSE /\ pev_cyclesLightBulbDelay = 0
    /\ aphsResUsed = FALSE
    /\ dinDocDec = [kind |-> "Nothing", ok |-> FALSE]
    /\ cpState = "B" /\ powerRelay = FALSE /\ soc = 0

-----------------------------------------------------------------------------
(* What the state functions share.                                         *)

Received == tcp_rxdata.kind # "Nothing"

\* The DIN decoder clears the Body flags only when it gets as far as a Body:
\* any other segment leaves those of the previously decoded message.
DinAfter ==
    IF tcp_rxdata.kind \in DinResponses
    THEN [kind |-> tcp_rxdata.kind, ok |-> tcp_rxdata.ok]
    ELSE dinDocDec

\* The handshake decoder clears its flag once the EXI header is accepted.
AphsAfter ==
    IF tcp_rxdata.kind = "Undecodable" THEN aphsResUsed
    ELSE tcp_rxdata.kind = "SupportedAppProtocolRes"

\* routeDecoderInputData, decoding, and marking the slot as consumed.
ConsumeKeepsData ==  \* mutant: the slot is not marked as consumed
    /\ connMgr_timer' = ApplOk(connMgr_timer)
    /\ UNCHANGED tcp_rxdata

Consume ==
    /\ connMgr_timer' = ApplOk(connMgr_timer)
    /\ tcp_rxdata' = Nothing

FetchDin ==
    \/ Received /\ Consume /\ dinDocDec' = DinAfter /\ UNCHANGED aphsResUsed
    \/ ~Received /\ UNCHANGED <<connMgr_timer, tcp_rxdata, decoderVars>>

\* Has this call received the response its state waits for?
Answered == Received /\ DinAfter.kind = Awaited[pev_state]

pev_enterState(s) ==
    /\ pev_state' = s
    /\ pev_cyclesInState' = 0

\* The counter is incremented, modulo 2^16, before the dispatcher runs.
Cycles == IF pev_cyclesInState = CYCLE_WRAP - 1 THEN 0 ELSE pev_cyclesInState + 1

Limit(s) ==
    CASE s = "WaitForChargeParameterDiscoveryResponse" -> LIMIT_PARAM
      [] s = "WaitForCableCheckResponse"               -> LIMIT_CABLE
      [] s = "WaitForPreChargeResponse"                -> LIMIT_PRECHARGE
      [] s = "WaitForPowerDeliveryResponse"            -> LIMIT_POWER
      [] s = "WaitForCurrentDemandResponse"            -> LIMIT_CURRENT
      [] OTHER                                         -> LIMIT_DEFAULT

pev_isTooLongLate == pev_cyclesInState > Limit(pev_state) + 1  \* mutant: off by two
pev_isTooLong == Cycles > Limit(pev_state)

\* The end of a state function that has not moved on.
StayOrTimeout ==
    \/ pev_isTooLong /\ pev_enterState("SequenceTimeout")
    \/ ~pev_isTooLong /\ pev_cyclesInState' = Cycles /\ UNCHANGED pev_state

Wait == StayOrTimeout /\ UNCHANGED evsePending
Request(req, next) == Transmit(req) /\ pev_enterState(next)

\* A state function that awaits one response and sends one request.
SimpleExchange(s, req, next) ==
    /\ pev_state = s
    /\ FetchDin
    /\ \/ Answered /\ Request(req, next)
       \/ ~Answered /\ Wait
    /\ UNCHANGED <<tcpState, pev_DelayCycles, bulbVars, energyVars>>

\* Three states let the first second pass before they look at anything.
FirstSecond(s) ==
    /\ pev_state = s
    /\ Cycles < MIN_CYCLES
    /\ pev_cyclesInState' = Cycles
    /\ UNCHANGED <<pev_state, pev_DelayCycles, retryVars, decoderVars, bulbVars,
                   energyVars, channelVars, connMgr_timer>>

-----------------------------------------------------------------------------
(* The state functions.                                                    *)

StartWithoutReset ==  \* mutant: the accumulator is not reset
    /\ pev_state = "NotYetInitialized"
    /\ connMgr_ConnectionLevel = 80
    /\ Request("SupportedAppProtocolReq", "WaitForSupportedApplicationProtocolResponse")
    /\ UNCHANGED <<soc, tcpState, tcp_rxdata, connMgr_timer, pev_DelayCycles, retryVars,
                   decoderVars, bulbVars, pev_wasPowerDeliveryRequestedOn, cpState>>

\* Only a level of exactly 80 starts a session.
stateFunctionConnected ==
    /\ pev_state = "NotYetInitialized"
    /\ connMgr_ConnectionLevel = 80
    /\ Request("SupportedAppProtocolReq", "WaitForSupportedApplicationProtocolResponse")
    /\ soc' = SOC_START
    /\ UNCHANGED <<tcpState, tcp_rxdata, connMgr_timer, pev_DelayCycles, retryVars,
                   decoderVars, bulbVars, pev_wasPowerDeliveryRequestedOn, cpState>>

stateFunctionWaitForSupportedApplicationProtocolResponse ==
    /\ pev_state = "WaitForSupportedApplicationProtocolResponse"
    /\ \/ Received /\ Consume /\ aphsResUsed' = AphsAfter /\ UNCHANGED dinDocDec
       \/ ~Received /\ UNCHANGED <<connMgr_timer, tcp_rxdata, decoderVars>>
    /\ \/ /\ Received /\ AphsAfter
          /\ Request("SessionSetupReq", "WaitForSessionSetupResponse")
       \/ ~(Received /\ AphsAfter) /\ Wait
    /\ UNCHANGED <<tcpState, pev_DelayCycles, retryVars, bulbVars, energyVars>>

stateFunctionWaitForSessionSetupResponse ==
    /\ SimpleExchange("WaitForSessionSetupResponse", "ServiceDiscoveryReq",
                      "WaitForServiceDiscoveryResponse")
    /\ UNCHANGED retryVars

stateFunctionWaitForServiceDiscoveryResponse ==
    /\ SimpleExchange("WaitForServiceDiscoveryResponse", "ServicePaymentSelectionReq",
                      "WaitForServicePaymentSelectionResponse")
    /\ UNCHANGED retryVars

stateFunctionWaitForServicePaymentSelectionResponse ==
    /\ SimpleExchange("WaitForServicePaymentSelectionResponse", "ContractAuthenticationReq",
                      "WaitForContractAuthenticationResponse")
    /\ pev_numberOfContractAuthenticationReq' =
          IF Answered THEN 1 ELSE pev_numberOfContractAuthenticationReq
    /\ UNCHANGED <<pev_numberOfChargeParameterDiscoveryReq, pev_numberOfCableCheckReq>>

AskForever(count, max, req) == Request(req, pev_state)  \* mutant: no limit

\* A response that is not final: ask again, at most max times in all.
AskAgain(count, max, req) ==
    IF count >= max
    THEN pev_enterState("SequenceTimeout") /\ UNCHANGED evsePending
    ELSE Request(req, pev_state)

stateFunctionWaitForContractAuthenticationResponse ==
    \/ FirstSecond("WaitForContractAuthenticationResponse")
    \/ /\ pev_state = "WaitForContractAuthenticationResponse"
       /\ Cycles >= MIN_CYCLES
       /\ FetchDin
       /\ \/ /\ Answered /\ DinAfter.ok
             /\ Request("ChargeParameterDiscoveryReq",
                        "WaitForChargeParameterDiscoveryResponse")
             /\ pev_numberOfChargeParameterDiscoveryReq' = 1
             /\ UNCHANGED pev_numberOfContractAuthenticationReq
          \/ /\ Answered /\ ~DinAfter.ok
             /\ AskAgain(pev_numberOfContractAuthenticationReq, AUTH_MAX,
                         "ContractAuthenticationReq")
             /\ pev_numberOfContractAuthenticationReq' =
                   IF pev_numberOfContractAuthenticationReq >= AUTH_MAX
                   THEN pev_numberOfContractAuthenticationReq
                   ELSE pev_numberOfContractAuthenticationReq + 1
             /\ UNCHANGED pev_numberOfChargeParameterDiscoveryReq
          \/ /\ ~Answered /\ Wait
             /\ UNCHANGED <<pev_numberOfContractAuthenticationReq,
                            pev_numberOfChargeParameterDiscoveryReq>>
       /\ UNCHANGED <<tcpState, pev_DelayCycles, pev_numberOfCableCheckReq, bulbVars,
                      energyVars>>

\* The final answer pulls the control pilot to state C.
stateFunctionWaitForChargeParameterDiscoveryResponse ==
    \/ FirstSecond("WaitForChargeParameterDiscoveryResponse")
    \/ /\ pev_state = "WaitForChargeParameterDiscoveryResponse"
       /\ Cycles >= MIN_CYCLES
       /\ FetchDin
       /\ \/ /\ Answered /\ DinAfter.ok
             /\ cpState' = "C"
             /\ Request("CableCheckReq", "WaitForCableCheckResponse")
             /\ pev_numberOfCableCheckReq' = 1
             /\ UNCHANGED pev_numberOfChargeParameterDiscoveryReq
          \/ /\ Answered /\ ~DinAfter.ok
             /\ AskAgain(pev_numberOfChargeParameterDiscoveryReq, PARAM_MAX,
                         "ChargeParameterDiscoveryReq")
             /\ pev_numberOfChargeParameterDiscoveryReq' =
                   IF pev_numberOfChargeParameterDiscoveryReq >= PARAM_MAX
                   THEN pev_numberOfChargeParameterDiscoveryReq
                   ELSE pev_numberOfChargeParameterDiscoveryReq + 1
             /\ UNCHANGED <<cpState, pev_numberOfCableCheckReq>>
          \/ /\ ~Answered /\ Wait
             /\ UNCHANGED <<cpState, pev_numberOfChargeParameterDiscoveryReq,
                            pev_numberOfCableCheckReq>>
       /\ UNCHANGED <<tcpState, pev_DelayCycles, pev_numberOfContractAuthenticationReq,
                      bulbVars, pev_wasPowerDeliveryRequestedOn, soc>>

\* A finished check with a bad result is repeated like an unfinished one.
stateFunctionWaitForCableCheckResponse ==
    \/ FirstSecond("WaitForCableCheckResponse")
    \/ /\ pev_state = "WaitForCableCheckResponse"
       /\ Cycles >= MIN_CYCLES
       /\ FetchDin
       /\ \/ /\ Answered /\ DinAfter.ok
             /\ Request("PreChargeReq", "WaitForPreChargeResponse")
             /\ UNCHANGED pev_numberOfCableCheckReq
          \/ /\ Answered /\ ~DinAfter.ok
             /\ AskAgain(pev_numberOfCableCheckReq, CABLE_MAX + 1, "CableCheckReq")
             /\ pev_numberOfCableCheckReq' =
                   IF pev_numberOfCableCheckReq > CABLE_MAX
                   THEN pev_numberOfCableCheckReq ELSE pev_numberOfCableCheckReq + 1
          \/ ~Answered /\ Wait /\ UNCHANGED pev_numberOfCableCheckReq
       /\ UNCHANGED <<tcpState, pev_DelayCycles, pev_numberOfContractAuthenticationReq,
                      pev_numberOfChargeParameterDiscoveryReq, bulbVars, energyVars>>

\* While pev_DelayCycles runs nothing is read and no timeout is noticed; a
\* repeated PreChargeReq does not restart the time spent in the state.
stateFunctionWaitForPreChargeResponse ==
    /\ pev_state = "WaitForPreChargeResponse"
    /\ \/ /\ pev_DelayCycles > 0
          /\ pev_DelayCycles' = pev_DelayCycles - 1
          /\ pev_cyclesInState' = Cycles
          /\ UNCHANGED <<pev_state, decoderVars, tcp_rxdata, evsePending,
                         connMgr_timer, pev_wasPowerDeliveryRequestedOn>>
       \/ /\ pev_DelayCycles = 0
          /\ FetchDin
          /\ \/ /\ Answered /\ DinAfter.ok
                /\ pev_wasPowerDeliveryRequestedOn' = TRUE
                /\ Request("PowerDeliveryOnReq", "WaitForPowerDeliveryResponse")
                /\ UNCHANGED pev_DelayCycles
             \/ /\ Answered /\ ~DinAfter.ok
                /\ Transmit("PreChargeReq")
                /\ pev_DelayCycles' = PRECHARGE_DELAY
                /\ StayOrTimeout
                /\ UNCHANGED pev_wasPowerDeliveryRequestedOn
             \/ ~Answered /\ Wait
                /\ UNCHANGED <<pev_DelayCycles, pev_wasPowerDeliveryRequestedOn>>
    /\ UNCHANGED <<tcpState, retryVars, bulbVars, soc, cpState>>

\* One state serves both PowerDelivery requests.
stateFunctionWaitForPowerDeliveryResponse ==
    /\ pev_state = "WaitForPowerDeliveryResponse"
    /\ FetchDin
    /\ \/ /\ Answered /\ pev_wasPowerDeliveryRequestedOn
          /\ Request("CurrentDemandReq", "WaitForCurrentDemandResponse")
          /\ UNCHANGED <<powerRelay, pev_isBulbOn>>
       \/ /\ Answered /\ ~pev_wasPowerDeliveryRequestedOn
          /\ powerRelay' = FALSE /\ pev_isBulbOn' = FALSE
          /\ Request("WeldingDetectionReq", "WaitForWeldingDetectionResponse")
       \/ ~Answered /\ Wait /\ UNCHANGED <<powerRelay, pev_isBulbOn>>
    /\ UNCHANGED <<tcpState, pev_DelayCycles, retryVars, pev_cyclesLightBulbDelay,
                   energyVars>>

\* The light-bulb demo closes the relay two seconds into the charging loop;
\* it runs at the end of the call, also of the one that leaves the loop.
LightBulb ==
    \/ /\ pev_cyclesLightBulbDelay <= BULB_DELAY
       /\ pev_cyclesLightBulbDelay' = pev_cyclesLightBulbDelay + 1
       /\ UNCHANGED <<pev_isBulbOn, powerRelay>>
    \/ /\ pev_cyclesLightBulbDelay > BULB_DELAY
       /\ pev_isBulbOn' = TRUE
       /\ powerRelay' = IF pev_isBulbOn THEN powerRelay ELSE TRUE
       /\ UNCHANGED pev_cyclesLightBulbDelay

IsAccuFull == soc >= SOC_FULL

\* pev_isUserStopRequest is never set: only a full accumulator ends the loop.
stateFunctionWaitForCurrentDemandResponse ==
    /\ pev_state = "WaitForCurrentDemandResponse"
    /\ FetchDin
    /\ \/ /\ Answered /\ IsAccuFull
          /\ pev_wasPowerDeliveryRequestedOn' = FALSE
          /\ Request("PowerDeliveryOffReq", "WaitForPowerDeliveryResponse")
          /\ UNCHANGED soc
       \/ /\ Answered /\ ~IsAccuFull
          /\ soc' = IF soc < SOC_MAX THEN soc + 1 ELSE soc
          /\ Request("CurrentDemandReq", "WaitForCurrentDemandResponse")
          /\ UNCHANGED pev_wasPowerDeliveryRequestedOn
       \/ ~Answered /\ Wait /\ UNCHANGED <<pev_wasPowerDeliveryRequestedOn, soc>>
    /\ LightBulb
    /\ UNCHANGED <<tcpState, pev_DelayCycles, retryVars, cpState>>

stateFunctionWaitForWeldingDetectionResponse ==
    /\ SimpleExchange("WaitForWeldingDetectionResponse", "SessionStopReq",
                      "WaitForSessionStopResponse")
    /\ UNCHANGED retryVars

stateFunctionWaitForSessionStopResponse ==
    /\ pev_state = "WaitForSessionStopResponse"
    /\ FetchDin
    /\ \/ /\ Answered
          /\ cpState' = "B"
          /\ pev_enterState("ChargingFinished")
       \/ ~Answered /\ StayOrTimeout /\ UNCHANGED cpState
    /\ UNCHANGED <<tcpState, evsePending, pev_DelayCycles, retryVars, bulbVars,
                   pev_wasPowerDeliveryRequestedOn, soc>>

SwitchOffRelayForgotten ==  \* mutant
    /\ cpState' = "B" /\ UNCHANGED powerRelay
    /\ pev_isBulbOn' = FALSE /\ pev_cyclesLightBulbDelay' = 0

SwitchOffPilotForgotten ==  \* mutant
    /\ UNCHANGED cpState /\ powerRelay' = FALSE
    /\ pev_isBulbOn' = FALSE /\ pev_cyclesLightBulbDelay' = 0

\* Outputs to their safe position.
SwitchOff ==
    /\ cpState' = "B"
    /\ powerRelay' = FALSE
    /\ pev_isBulbOn' = FALSE
    /\ pev_cyclesLightBulbDelay' = 0

\* pevStateMachine_ReInit: drops the connection, but not its level.
stateFunctionSequenceTimeout ==
    /\ pev_state = "SequenceTimeout"
    /\ Close
    /\ SwitchOff
    /\ pev_enterState("Connecting")
    /\ UNCHANGED <<evsePending, connMgr_timer, pev_DelayCycles, retryVars, decoderVars,
                   pev_wasPowerDeliveryRequestedOn, soc>>

\* No state function acts: Connecting has none, ChargingFinished has an
\* empty one, and a level of 100 does not start a session.
NothingToDo ==
    /\ \/ pev_state \in {"Connecting", "ChargingFinished"}
       \/ pev_state = "NotYetInitialized" /\ connMgr_ConnectionLevel # 80
    /\ pev_cyclesInState' = Cycles
    /\ UNCHANGED <<pev_state, pev_DelayCycles, retryVars, decoderVars, bulbVars,
                   energyVars, channelVars, connMgr_timer>>

-----------------------------------------------------------------------------
(* The dispatcher.                                                         *)

\* Without TCP the session is abandoned and the outputs are switched off.
LevelLost ==
    /\ connMgr_ConnectionLevel < 80
    /\ \/ /\ pev_state # "NotYetInitialized"
          /\ pev_enterState("NotYetInitialized")
          /\ SwitchOff
       \/ /\ pev_state = "NotYetInitialized"
          /\ pev_cyclesInState' = Cycles
          /\ UNCHANGED <<pev_state, cpState, bulbVars>>
    /\ UNCHANGED <<channelVars, connMgr_timer, pev_DelayCycles, retryVars, decoderVars,
                   pev_wasPowerDeliveryRequestedOn, soc>>

StateFunction ==
    \/ stateFunctionConnected
    \/ stateFunctionWaitForSupportedApplicationProtocolResponse
    \/ stateFunctionWaitForSessionSetupResponse
    \/ stateFunctionWaitForServiceDiscoveryResponse
    \/ stateFunctionWaitForServicePaymentSelectionResponse
    \/ stateFunctionWaitForContractAuthenticationResponse
    \/ stateFunctionWaitForChargeParameterDiscoveryResponse
    \/ stateFunctionWaitForCableCheckResponse
    \/ stateFunctionWaitForPreChargeResponse
    \/ stateFunctionWaitForPowerDeliveryResponse
    \/ stateFunctionWaitForCurrentDemandResponse
    \/ stateFunctionWaitForWeldingDetectionResponse
    \/ stateFunctionWaitForSessionStopResponse
    \/ stateFunctionSequenceTimeout
    \/ NothingToDo

pevStateMachine_Mainfunction ==
    /\ \/ LevelLost
       \/ connMgr_ConnectionLevel >= 80 /\ StateFunction
    /\ UNCHANGED <<connMgr_ConnectionLevel, isEthLinkUp>>
=============================================================================
