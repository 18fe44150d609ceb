--------------------------- MODULE ChargingProofs ---------------------------
(***************************************************************************)
(* Proofs about Charging, for all values of its constants: the types, the  *)
(* safety invariants, and that the program implements ChargeSession.       *)
(***************************************************************************)
EXTENDS Charging, ConnMgrProofs

-----------------------------------------------------------------------------
(* Facts about the definitions.                                            *)

\* The states in which the car waits for a response, by name.
LEMMA WaitStatesByName ==
    WaitStates = {"WaitForSupportedApplicationProtocolResponse",
                  "WaitForSessionSetupResponse", "WaitForServiceDiscoveryResponse",
                  "WaitForServicePaymentSelectionResponse",
                  "WaitForContractAuthenticationResponse",
                  "WaitForChargeParameterDiscoveryResponse", "WaitForCableCheckResponse",
                  "WaitForPreChargeResponse", "WaitForPowerDeliveryResponse",
                  "WaitForCurrentDemandResponse", "WaitForWeldingDetectionResponse",
                  "WaitForSessionStopResponse"}
  BY DEF WaitStates, Awaited

\* The requests, by name.
LEMMA RequestsByName ==
    Requests = {"SupportedAppProtocolReq", "SessionSetupReq", "ServiceDiscoveryReq",
                "ServicePaymentSelectionReq", "ContractAuthenticationReq",
                "ChargeParameterDiscoveryReq", "CableCheckReq", "PreChargeReq",
                "PowerDeliveryOnReq", "PowerDeliveryOffReq", "CurrentDemandReq",
                "WeldingDetectionReq", "SessionStopReq"}
  BY DEF Requests, ResponseTo

\* A transmitted request keeps the charger's queue well typed.
LEMMA TransmitType ==
    ASSUME evsePending \in Seq(Requests), NEW req \in Requests, Transmit(req)
    PROVE  evsePending' \in Seq(Requests)
  BY DEF Transmit

\* What the decoder leaves is a message that it can decode.
LEMMA DinAfterType ==
    ASSUME PevTypeOK, ChannelTypeOK
    PROVE  DinAfter \in DinMessages
  BY DEF PevTypeOK, ChannelTypeOK, DinAfter, DinMessages, RxContents

\* Closing keeps the contents of the receive slot.
LEMMA CloseType ==
    ASSUME tcp_rxdata \in RxContents, Close
    PROVE  tcpState' = "CLOSED" /\ tcp_rxdata' \in RxContents
  BY DEF Close, RxContents

\* Fetching the received data keeps the decoders and the slot well typed.
LEMMA FetchDinType ==
    ASSUME TypeOK, FetchDin
    PROVE  /\ connMgr_timer' \in [Layers -> 0 .. TIMER_MAX_15s]
           /\ tcp_rxdata' \in RxContents
           /\ dinDocDec' \in DinMessages
           /\ aphsResUsed' \in BOOLEAN
  <1>1. DinAfter \in DinMessages
    BY DinAfterType DEF TypeOK
  <1>2. Nothing \in RxContents
    BY DEF Nothing, RxContents, Kinds
  <1>3. ApplOk(connMgr_timer) \in [Layers -> 0 .. TIMER_MAX_15s]
    BY ReloadType, TimerAssumption DEF ApplOk, TypeOK, ConnMgrTypeOK
  <1> QED
    BY <1>1, <1>2, <1>3
    DEF FetchDin, Consume, TypeOK, ConnMgrTypeOK, ChannelTypeOK, PevTypeOK, decoderVars

\* The constants of the state machine, one by one.
LEMMA PevConstants ==
    /\ MIN_CYCLES \in Nat /\ LIMIT_DEFAULT \in Nat /\ LIMIT_PARAM \in Nat
    /\ LIMIT_CABLE \in Nat /\ LIMIT_PRECHARGE \in Nat /\ LIMIT_POWER \in Nat
    /\ LIMIT_CURRENT \in Nat /\ PRECHARGE_DELAY \in Nat /\ BULB_DELAY \in Nat
    /\ AUTH_MAX \in Nat /\ PARAM_MAX \in Nat /\ CABLE_MAX \in Nat
    /\ SOC_START \in Nat /\ SOC_FULL \in Nat /\ SOC_MAX \in Nat
    /\ CYCLE_WRAP \in Nat \ {0}
  BY PevAssumption

\* The cycle counter stays a 16-bit number.
LEMMA CyclesType ==
    ASSUME PevTypeOK PROVE Cycles \in 0 .. CYCLE_WRAP - 1
  BY PevConstants DEF PevTypeOK, Cycles

\* Entering a state, waiting in it and giving it up are well typed.
LEMMA EnterType ==
    ASSUME NEW s \in PevStates, pev_enterState(s)
    PROVE  pev_state' \in PevStates /\ pev_cyclesInState' \in 0 .. CYCLE_WRAP - 1
  BY PevConstants DEF pev_enterState

\* Waiting on, or giving up, leads to a state and counts a 16-bit number.
LEMMA StayOrTimeoutType ==
    ASSUME PevTypeOK, StayOrTimeout
    PROVE  pev_state' \in PevStates /\ pev_cyclesInState' \in 0 .. CYCLE_WRAP - 1
  <1>1. "SequenceTimeout" \in PevStates
    BY DEF PevStates
  <1> QED
    BY <1>1, EnterType, CyclesType DEF StayOrTimeout, PevTypeOK

\* Sending a request is well typed.
LEMMA RequestType ==
    ASSUME ChannelTypeOK, NEW req \in Requests, NEW s \in PevStates, Request(req, s)
    PROVE  /\ evsePending' \in Seq(Requests)
           /\ pev_state' \in PevStates /\ pev_cyclesInState' \in 0 .. CYCLE_WRAP - 1
  BY TransmitType, EnterType DEF Request, ChannelTypeOK

\* Waiting for the response is well typed.
LEMMA WaitType ==
    ASSUME ChannelTypeOK, PevTypeOK, Wait
    PROVE  /\ evsePending' \in Seq(Requests)
           /\ pev_state' \in PevStates /\ pev_cyclesInState' \in 0 .. CYCLE_WRAP - 1
  BY StayOrTimeoutType DEF Wait, ChannelTypeOK

\* Repeating a request is well typed.
LEMMA AskAgainType ==
    ASSUME ChannelTypeOK, PevTypeOK, NEW req \in Requests, NEW count, NEW max,
           AskAgain(count, max, req)
    PROVE  /\ evsePending' \in Seq(Requests)
           /\ pev_state' \in PevStates /\ pev_cyclesInState' \in 0 .. CYCLE_WRAP - 1
  <1>1. "SequenceTimeout" \in PevStates /\ pev_state \in PevStates
    BY DEF PevStates, PevTypeOK
  <1> QED
    BY <1>1, EnterType, RequestType DEF AskAgain, ChannelTypeOK

-----------------------------------------------------------------------------
(* Type correctness.                                                       *)

\* What a state function leaves well typed besides its own counters.
CoreTypeOK ==
    /\ connMgr_timer \in [Layers -> 0 .. TIMER_MAX_15s]
    /\ tcpState \in {"CLOSED", "SYN_SENT", "ESTABLISHED"}
    /\ tcp_rxdata \in RxContents
    /\ evsePending \in Seq(Requests)
    /\ pev_state \in PevStates
    /\ pev_cyclesInState \in 0 .. CYCLE_WRAP - 1
    /\ aphsResUsed \in BOOLEAN
    /\ dinDocDec \in DinMessages

CounterTypeOK ==
    /\ pev_DelayCycles \in 0 .. PRECHARGE_DELAY
    /\ pev_numberOfContractAuthenticationReq \in 0 .. AUTH_MAX
    /\ pev_numberOfChargeParameterDiscoveryReq \in 0 .. PARAM_MAX
    /\ pev_numberOfCableCheckReq \in 0 .. CABLE_MAX + 1
    /\ pev_cyclesLightBulbDelay \in 0 .. BULB_DELAY + 1
    /\ soc \in 0 .. SOC_MAX

OutputTypeOK ==
    /\ pev_wasPowerDeliveryRequestedOn \in BOOLEAN
    /\ pev_isBulbOn \in BOOLEAN
    /\ cpState \in {"B", "C"}
    /\ powerRelay \in BOOLEAN

\* Every state function is well typed.
LEMMA StateFunctionType ==
    ASSUME TypeOK, StateFunction
    PROVE  /\ connMgr_timer' \in [Layers -> 0 .. TIMER_MAX_15s]
           /\ ChannelTypeOK' /\ PevTypeOK'
  <1> USE DEF TypeOK
  <1>s. WaitStates \subseteq PevStates
    BY DEF PevStates
  <1>n. {"Connecting", "ChargingFinished", "SequenceTimeout"} \subseteq PevStates
    BY DEF PevStates
  <1>c. CoreTypeOK
    BY DEF CoreTypeOK, ConnMgrTypeOK, ChannelTypeOK, PevTypeOK
  <1>k. CounterTypeOK /\ OutputTypeOK
    BY DEF CounterTypeOK, OutputTypeOK, PevTypeOK
  <1>q. CoreTypeOK' /\ CounterTypeOK' /\ OutputTypeOK'
        => /\ connMgr_timer' \in [Layers -> 0 .. TIMER_MAX_15s]
           /\ ChannelTypeOK' /\ PevTypeOK'
    BY DEF CoreTypeOK, CounterTypeOK, OutputTypeOK, ChannelTypeOK, PevTypeOK
  <1>f. FirstSecond(pev_state) => CoreTypeOK'
    BY <1>c, CyclesType DEF FirstSecond, CoreTypeOK, channelVars, decoderVars
  <1>e. ASSUME NEW s, NEW req \in Requests, NEW next \in WaitStates,
               SimpleExchange(s, req, next)
        PROVE  CoreTypeOK'
    BY <1>e, <1>c, <1>s, FetchDinType, RequestType, WaitType
    DEF SimpleExchange, CoreTypeOK
  <1>1. CASE stateFunctionConnected
    BY <1>1, <1>c, <1>s, WaitStatesByName, RequestsByName, RequestType, PevConstants, PevAssumption
    DEF stateFunctionConnected, CoreTypeOK, ChannelTypeOK, PevTypeOK, retryVars,
        decoderVars, bulbVars
  <1>2. CASE stateFunctionWaitForSupportedApplicationProtocolResponse
    <2>1. AphsAfter \in BOOLEAN
      BY DEF AphsAfter, PevTypeOK
    <2>2. /\ connMgr_timer' \in [Layers -> 0 .. TIMER_MAX_15s]
          /\ tcp_rxdata' \in RxContents
          /\ dinDocDec' \in DinMessages /\ aphsResUsed' \in BOOLEAN
      <3>1. Nothing \in RxContents
        BY DEF Nothing, RxContents, Kinds
      <3>2. ApplOk(connMgr_timer) \in [Layers -> 0 .. TIMER_MAX_15s]
        BY ReloadType, TimerAssumption DEF ApplOk, ConnMgrTypeOK
      <3> QED
        BY <1>2, <1>c, <2>1, <3>1, <3>2
        DEF stateFunctionWaitForSupportedApplicationProtocolResponse, Consume,
            CoreTypeOK, decoderVars
    <2>3. /\ evsePending' \in Seq(Requests)
          /\ pev_state' \in PevStates /\ pev_cyclesInState' \in 0 .. CYCLE_WRAP - 1
      BY <1>2, <1>s, WaitStatesByName, RequestsByName, RequestType, WaitType
      DEF stateFunctionWaitForSupportedApplicationProtocolResponse
    <2> QED
      BY <1>2, <2>2, <2>3
      DEF stateFunctionWaitForSupportedApplicationProtocolResponse, ChannelTypeOK,
          PevTypeOK, retryVars, bulbVars, energyVars
  <1>3. CASE stateFunctionWaitForSessionSetupResponse
    BY <1>3, <1>e, WaitStatesByName, RequestsByName
    DEF stateFunctionWaitForSessionSetupResponse, SimpleExchange, CoreTypeOK,
        ChannelTypeOK, PevTypeOK, retryVars, bulbVars, energyVars
  <1>4. CASE stateFunctionWaitForServiceDiscoveryResponse
    BY <1>4, <1>e, WaitStatesByName, RequestsByName
    DEF stateFunctionWaitForServiceDiscoveryResponse, SimpleExchange, CoreTypeOK,
        ChannelTypeOK, PevTypeOK, retryVars, bulbVars, energyVars
  <1>5. CASE stateFunctionWaitForServicePaymentSelectionResponse
    BY <1>5, <1>e, WaitStatesByName, RequestsByName, PevConstants, PevAssumption
    DEF stateFunctionWaitForServicePaymentSelectionResponse, SimpleExchange, CoreTypeOK,
        ChannelTypeOK, PevTypeOK, bulbVars, energyVars
  <1>6. CASE stateFunctionWaitForContractAuthenticationResponse
    <2>1. CASE FirstSecond("WaitForContractAuthenticationResponse")
      BY <1>6, <2>1, <1>f
      DEF FirstSecond, CoreTypeOK, ChannelTypeOK, PevTypeOK, retryVars, decoderVars,
          bulbVars, energyVars, channelVars
    <2>2. CASE ~FirstSecond("WaitForContractAuthenticationResponse")
      <3>1. CoreTypeOK'
        BY <1>6, <2>2, <1>c, <1>s, WaitStatesByName, RequestsByName,
           FetchDinType, RequestType, WaitType, AskAgainType
        DEF stateFunctionWaitForContractAuthenticationResponse, CoreTypeOK
      <3>2. CounterTypeOK'
        BY <1>6, <2>2, <1>k, PevConstants, PevAssumption
        DEF stateFunctionWaitForContractAuthenticationResponse, CounterTypeOK, bulbVars, energyVars
      <3>3. OutputTypeOK'
        BY <1>6, <2>2, <1>k
        DEF stateFunctionWaitForContractAuthenticationResponse, OutputTypeOK, bulbVars, energyVars
      <3> QED
        BY <3>1, <3>2, <3>3, <1>q
    <2> QED
      BY <2>1, <2>2
  <1>7. CASE stateFunctionWaitForChargeParameterDiscoveryResponse
    <2>1. CASE FirstSecond("WaitForChargeParameterDiscoveryResponse")
      BY <1>7, <2>1, <1>f
      DEF FirstSecond, CoreTypeOK, ChannelTypeOK, PevTypeOK, retryVars, decoderVars,
          bulbVars, energyVars, channelVars
    <2>2. CASE ~FirstSecond("WaitForChargeParameterDiscoveryResponse")
      <3>1. CoreTypeOK'
        BY <1>7, <2>2, <1>c, <1>s, WaitStatesByName, RequestsByName,
           FetchDinType, RequestType, WaitType, AskAgainType
        DEF stateFunctionWaitForChargeParameterDiscoveryResponse, CoreTypeOK
      <3>2. CounterTypeOK'
        BY <1>7, <2>2, <1>k, PevConstants, PevAssumption
        DEF stateFunctionWaitForChargeParameterDiscoveryResponse, CounterTypeOK, bulbVars, energyVars
      <3>3. OutputTypeOK'
        BY <1>7, <2>2, <1>k
        DEF stateFunctionWaitForChargeParameterDiscoveryResponse, OutputTypeOK, bulbVars, energyVars
      <3> QED
        BY <3>1, <3>2, <3>3, <1>q
    <2> QED
      BY <2>1, <2>2
  <1>8. CASE stateFunctionWaitForCableCheckResponse
    <2>1. CASE FirstSecond("WaitForCableCheckResponse")
      BY <1>8, <2>1, <1>f
      DEF FirstSecond, CoreTypeOK, ChannelTypeOK, PevTypeOK, retryVars, decoderVars,
          bulbVars, energyVars, channelVars
    <2>2. CASE ~FirstSecond("WaitForCableCheckResponse")
      <3>1. CoreTypeOK'
        BY <1>8, <2>2, <1>c, <1>s, WaitStatesByName, RequestsByName,
           FetchDinType, RequestType, WaitType, AskAgainType
        DEF stateFunctionWaitForCableCheckResponse, CoreTypeOK
      <3>2. CounterTypeOK'
        BY <1>8, <2>2, <1>k, PevConstants, PevAssumption
        DEF stateFunctionWaitForCableCheckResponse, CounterTypeOK, bulbVars, energyVars
      <3>3. OutputTypeOK'
        BY <1>8, <2>2, <1>k
        DEF stateFunctionWaitForCableCheckResponse, OutputTypeOK, bulbVars, energyVars
      <3> QED
        BY <3>1, <3>2, <3>3, <1>q
    <2> QED
      BY <2>1, <2>2
  <1>9. CASE stateFunctionWaitForPreChargeResponse
    <2>1. CoreTypeOK'
      BY <1>9, <1>c, <1>s, <1>n, WaitStatesByName, RequestsByName, CyclesType,
         FetchDinType, RequestType, WaitType, StayOrTimeoutType, EnterType, TransmitType
      DEF stateFunctionWaitForPreChargeResponse, CoreTypeOK, decoderVars, ChannelTypeOK
    <2>2. CounterTypeOK'
      BY <1>9, <1>k, PevConstants, PevAssumption
      DEF stateFunctionWaitForPreChargeResponse, CounterTypeOK, retryVars, bulbVars, energyVars
    <2>3. OutputTypeOK'
      BY <1>9, <1>k
      DEF stateFunctionWaitForPreChargeResponse, OutputTypeOK, bulbVars, energyVars
    <2> QED
      BY <2>1, <2>2, <2>3, <1>q
  <1>10. CASE stateFunctionWaitForPowerDeliveryResponse
    <2>1. CoreTypeOK'
      BY <1>10, <1>c, <1>s, <1>n, WaitStatesByName, RequestsByName, CyclesType,
         FetchDinType, RequestType, WaitType, StayOrTimeoutType, EnterType, TransmitType
      DEF stateFunctionWaitForPowerDeliveryResponse, CoreTypeOK, decoderVars, ChannelTypeOK
    <2>2. CounterTypeOK'
      BY <1>10, <1>k, PevConstants, PevAssumption
      DEF stateFunctionWaitForPowerDeliveryResponse, CounterTypeOK, retryVars, bulbVars, energyVars
    <2>3. OutputTypeOK'
      BY <1>10, <1>k
      DEF stateFunctionWaitForPowerDeliveryResponse, OutputTypeOK, bulbVars, energyVars
    <2> QED
      BY <2>1, <2>2, <2>3, <1>q
  <1>11. CASE stateFunctionWaitForCurrentDemandResponse
    <2>1. CoreTypeOK'
      BY <1>11, <1>c, <1>s, <1>n, WaitStatesByName, RequestsByName, CyclesType,
         FetchDinType, RequestType, WaitType, StayOrTimeoutType, EnterType, TransmitType
      DEF stateFunctionWaitForCurrentDemandResponse, CoreTypeOK, decoderVars, ChannelTypeOK
    <2>2. LightBulb
      BY <1>11 DEF stateFunctionWaitForCurrentDemandResponse
    <2>3. CounterTypeOK'
      <3>1. pev_cyclesLightBulbDelay' \in 0 .. BULB_DELAY + 1
        <4>1. \/ /\ pev_cyclesLightBulbDelay <= BULB_DELAY
                 /\ pev_cyclesLightBulbDelay' = pev_cyclesLightBulbDelay + 1
              \/ pev_cyclesLightBulbDelay' = pev_cyclesLightBulbDelay
          BY <2>2, Zenon DEF LightBulb
        <4> QED
          BY <4>1, <1>k, PevConstants DEF CounterTypeOK
      <3>2. soc' \in 0 .. SOC_MAX
        BY <1>11, <1>k, PevConstants
        DEF stateFunctionWaitForCurrentDemandResponse, CounterTypeOK
      <3> QED
        BY <1>11, <1>k, <3>1, <3>2
        DEF stateFunctionWaitForCurrentDemandResponse, CounterTypeOK, retryVars
    <2>4. OutputTypeOK'
      BY <1>11, <2>2, <1>k
      DEF stateFunctionWaitForCurrentDemandResponse, LightBulb, OutputTypeOK
    <2> QED
      BY <2>1, <2>3, <2>4, <1>q
  <1>12. CASE stateFunctionWaitForWeldingDetectionResponse
    BY <1>12, <1>e, WaitStatesByName, RequestsByName
    DEF stateFunctionWaitForWeldingDetectionResponse, SimpleExchange, CoreTypeOK,
        ChannelTypeOK, PevTypeOK, retryVars, bulbVars, energyVars
  <1>13. CASE stateFunctionWaitForSessionStopResponse
    <2>1. CoreTypeOK'
      BY <1>13, <1>c, <1>s, <1>n, WaitStatesByName, RequestsByName, CyclesType,
         FetchDinType, RequestType, WaitType, StayOrTimeoutType, EnterType, TransmitType
      DEF stateFunctionWaitForSessionStopResponse, CoreTypeOK, decoderVars, ChannelTypeOK
    <2>2. CounterTypeOK'
      BY <1>13, <1>k, PevConstants, PevAssumption
      DEF stateFunctionWaitForSessionStopResponse, CounterTypeOK, retryVars, bulbVars, energyVars
    <2>3. OutputTypeOK'
      BY <1>13, <1>k
      DEF stateFunctionWaitForSessionStopResponse, OutputTypeOK, bulbVars, energyVars
    <2> QED
      BY <2>1, <2>2, <2>3, <1>q
  <1>14. CASE stateFunctionSequenceTimeout
    <2>1. CoreTypeOK'
      BY <1>14, <1>n, <1>c, EnterType
      DEF stateFunctionSequenceTimeout, Close, CoreTypeOK, RxContents, decoderVars
    <2>2. CounterTypeOK'
      BY <1>14, <1>k, PevConstants
      DEF stateFunctionSequenceTimeout, SwitchOff, CounterTypeOK, retryVars
    <2>3. OutputTypeOK'
      BY <1>14, <1>k DEF stateFunctionSequenceTimeout, SwitchOff, OutputTypeOK
    <2> QED
      BY <2>1, <2>2, <2>3, <1>q
  <1>15. CASE NothingToDo
    BY <1>15, CyclesType
    DEF NothingToDo, ConnMgrTypeOK, ChannelTypeOK, PevTypeOK, retryVars, decoderVars,
        bulbVars, energyVars, channelVars
  <1> QED
    BY <1>1, <1>2, <1>3, <1>4, <1>5, <1>6, <1>7, <1>8, <1>9, <1>10, <1>11, <1>12,
       <1>13, <1>14, <1>15 DEF StateFunction

\* Every step keeps the types.
LEMMA TypeStep ==
    ASSUME TypeOK, [Next]_vars PROVE TypeOK'
  <1> USE DEF TypeOK
  <1>1. CASE CallConnMgr
    <2>1. /\ CountDown(connMgr_timer) \in [Layers -> 0 .. TIMER_MAX_15s]
          /\ Reload(CountDown(connMgr_timer), {"EthLink"}, TIMER_MAX)
                \in [Layers -> 0 .. TIMER_MAX_15s]
      BY CountDownType, ReloadType, TimerAssumption DEF ConnMgrTypeOK
    <2>2. ConnMgrTypeOK'
      BY <1>1, <2>1
      DEF CallConnMgr, connMgr_Mainfunction, ConnMgrTypeOK, LevelOfTimers, Levels
    <2> QED
      BY <1>1, <2>2
      DEF CallConnMgr, ChannelTypeOK, PevTypeOK, channelVars, pevVars, retryVars,
          decoderVars, bulbVars, energyVars
  <1>2. CASE CallTcp
    <2>1. ChannelTypeOK'
      <3>1. CASE Close /\ UNCHANGED evsePending
        BY <3>1, CloseType DEF ChannelTypeOK
      <3>2. CASE tcpState' = "SYN_SENT" /\ evsePending' = <<>> /\ UNCHANGED tcp_rxdata
        BY <3>2 DEF ChannelTypeOK
      <3> QED
        BY <1>2, <3>1, <3>2 DEF CallTcp, tcp_Mainfunction, ChannelTypeOK, channelVars
    <2> QED
      BY <1>2, <2>1
      DEF CallTcp, tcp_Mainfunction, ConnMgrTypeOK, PevTypeOK, connMgrVars, pevVars,
          retryVars, decoderVars, bulbVars, energyVars
  <1>3. CASE CallPev
    <2>1. CASE LevelLost
      <3>1. /\ pev_state' \in PevStates
            /\ pev_cyclesInState' \in 0 .. CYCLE_WRAP - 1
        BY <1>3, <2>1, CyclesType, PevConstants
        DEF LevelLost, pev_enterState, PevTypeOK, PevStates
      <3>2. /\ cpState' \in {"B", "C"} /\ powerRelay' \in BOOLEAN
            /\ pev_isBulbOn' \in BOOLEAN
            /\ pev_cyclesLightBulbDelay' \in 0 .. BULB_DELAY + 1
        <4>1. CASE SwitchOff
          <5>1. pev_cyclesLightBulbDelay' \in 0 .. BULB_DELAY + 1
            BY <4>1, PevConstants DEF SwitchOff
          <5> QED
            BY <4>1, <5>1 DEF SwitchOff
        <4>2. CASE UNCHANGED <<cpState, bulbVars>>
          <5>1. /\ cpState' = cpState /\ powerRelay' = powerRelay
                /\ pev_isBulbOn' = pev_isBulbOn
                /\ pev_cyclesLightBulbDelay' = pev_cyclesLightBulbDelay
            BY <4>2 DEF bulbVars
          <5> QED
            BY <5>1 DEF PevTypeOK
        <4> QED
          BY <2>1, <4>1, <4>2 DEF LevelLost
      <3> QED
        BY <1>3, <2>1, <3>1, <3>2
        DEF CallPev, pevStateMachine_Mainfunction, LevelLost, ConnMgrTypeOK,
            ChannelTypeOK, PevTypeOK, channelVars, retryVars, decoderVars
    <2>2. CASE StateFunction
      BY <1>3, <2>2, StateFunctionType
      DEF CallPev, pevStateMachine_Mainfunction, ConnMgrTypeOK
    <2> QED
      BY <1>3, <2>1, <2>2 DEF CallPev, pevStateMachine_Mainfunction
  <1>4. CASE Environment
    <2>1. PevTypeOK' /\ task' \in {"connMgr", "tcp", "pev"}
      BY <1>4
      DEF Environment, ReceiveSdpResponse, ReceiveTcp, LinkEvent, PevTypeOK, pevVars,
          retryVars, decoderVars, bulbVars, energyVars
    <2>2. /\ SdpOk(connMgr_timer) \in [Layers -> 0 .. TIMER_MAX_15s]
          /\ TcpOk(connMgr_timer) \in [Layers -> 0 .. TIMER_MAX_15s]
      BY ReloadType, TimerAssumption DEF SdpOk, TcpOk, ConnMgrTypeOK
    <2>3. CASE ReceiveSdpResponse
      BY <2>1, <2>2, <2>3
      DEF ReceiveSdpResponse, ConnMgrTypeOK, ChannelTypeOK, channelVars
    <2>4. CASE LinkEvent
      BY <2>1, <2>4 DEF LinkEvent, EthLinkEvent, ConnMgrTypeOK, ChannelTypeOK, channelVars
    <2>5. ASSUME NEW kind \in Kinds, ReceiveData(kind)
          PROVE  ConnMgrTypeOK' /\ tcpState' = tcpState /\ tcp_rxdata' \in RxContents
      <3>1. PICK ok \in BOOLEAN : tcp_rxdata' = [kind |-> kind, ok |-> ok, fresh |-> TRUE]
        BY <2>5 DEF ReceiveData
      <3>2. tcp_rxdata' \in RxContents
        BY <3>1 DEF RxContents
      <3> QED
        BY <2>5, <2>2, <3>2 DEF ReceiveData, ConnMgrTypeOK
    <2>6. CASE ReceiveTcp
      <3>1. CASE ReceiveSynAck
        BY <2>1, <2>2, <3>1 DEF ReceiveSynAck, ConnMgrTypeOK, ChannelTypeOK
      <3>2. CASE EvseAnswers
        <4>1. Head(evsePending) \in Requests /\ Tail(evsePending) \in Seq(Requests)
          BY <3>2 DEF EvseAnswers, ChannelTypeOK
        <4>2. ResponseTo[Head(evsePending)] \in Kinds
          BY <4>1 DEF Kinds, Responses
        <4> QED
          BY <2>1, <2>5, <3>2, <4>1, <4>2 DEF EvseAnswers, ChannelTypeOK
      <3>3. CASE EvseStray
        BY <2>1, <2>5, <3>3, ChannelAssumption DEF EvseStray, ChannelTypeOK
      <3> QED
        BY <2>6, <3>1, <3>2, <3>3 DEF ReceiveTcp
    <2> QED
      BY <1>4, <2>3, <2>4, <2>6 DEF Environment
  <1>5. CASE UNCHANGED vars
    BY <1>5
    DEF vars, ConnMgrTypeOK, ChannelTypeOK, PevTypeOK, connMgrVars, channelVars, pevVars,
        retryVars, decoderVars, bulbVars, energyVars
  <1> QED
    BY <1>1, <1>2, <1>3, <1>4, <1>5 DEF Next, task30ms

\* The initial state is well typed.
LEMMA TypeInit == Init => TypeOK
  <1> SUFFICES ASSUME Init PROVE TypeOK
    OBVIOUS
  <1>1. ConnMgrTypeOK
    <2>1. connMgr_timer \in [Layers -> 0 .. TIMER_MAX_15s]
      BY TimerAssumption DEF Init, ConnMgrInit
    <2>2. connMgr_ConnectionLevel \in Levels
      BY DEF Init, ConnMgrInit, Levels
    <2>3. isEthLinkUp \in BOOLEAN
      BY DEF Init, ConnMgrInit
    <2> QED
      BY <2>1, <2>2, <2>3 DEF ConnMgrTypeOK
  <1>2. ChannelTypeOK
    BY DEF Init, ChannelInit, ChannelTypeOK, Nothing, RxContents, Kinds
  <1>3. PevTypeOK
    <2>1. pev_state \in PevStates /\ dinDocDec \in DinMessages
      BY DEF Init, PevInit, PevStates, DinMessages
    <2>2. CounterTypeOK /\ pev_cyclesInState \in 0 .. CYCLE_WRAP - 1
      BY PevConstants DEF Init, PevInit, CounterTypeOK
    <2>3. OutputTypeOK /\ aphsResUsed \in BOOLEAN
      BY DEF Init, PevInit, OutputTypeOK
    <2> QED
      BY <2>1, <2>2, <2>3 DEF PevTypeOK, CounterTypeOK, OutputTypeOK
  <1> QED
    BY <1>1, <1>2, <1>3 DEF Init, TypeOK

\* All variables keep their types: no counter leaves its range, the decoders
\* hold only what they can decode, the queue holds requests.
THEOREM TypeCorrect == Spec => []TypeOK
  BY TypeInit, TypeStep, PTL DEF Spec
=============================================================================
