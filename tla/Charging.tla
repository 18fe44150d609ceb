------------------------------ MODULE Charging ------------------------------
(***************************************************************************)
(* The upper half of the program: connection manager, TCP connection and   *)
(* charging state machine in the order in which task30ms calls them, with  *)
(* the Ethernet receive task running between any two of the calls.         *)
(*                                                                         *)
(* The layers below (modem search, SLAC, SDP) appear only through the SDP  *)
(* report: neither TCP nor the charging state machine tells levels below   *)
(* 50 apart, so Layers keeps the three upper timers.                       *)
(***************************************************************************)
EXTENDS PevStateMachine

CONSTANTS
    LinkMayFail,  \* may the Ethernet link go down once it is up?
    LateSdp       \* may SDP responses arrive after the SDP phase?

ASSUME ChargingAssumption ==
    /\ Layers = {"SDP", "TCP", "Appl"}
    /\ LinkMayFail \in BOOLEAN /\ LateSdp \in BOOLEAN

VARIABLE task  \* the call of task30ms that comes next

vars == <<connMgrVars, channelVars, pevVars, task>>

TypeOK ==
    /\ ConnMgrTypeOK /\ ChannelTypeOK /\ PevTypeOK
    /\ task \in {"connMgr", "tcp", "pev"}

Init ==
    /\ ConnMgrInit /\ ChannelInit /\ PevInit
    /\ task = "connMgr"

-----------------------------------------------------------------------------
(* The main loop.                                                          *)

CallConnMgr ==
    /\ task = "connMgr" /\ task' = "tcp"
    /\ connMgr_Mainfunction
    /\ UNCHANGED <<channelVars, pevVars>>

CallTcp ==
    /\ task = "tcp" /\ task' = "pev"
    /\ tcp_Mainfunction
    /\ UNCHANGED pevVars

CallPev ==
    /\ task = "pev" /\ task' = "connMgr"
    /\ pevStateMachine_Mainfunction

task30ms == CallConnMgr \/ CallTcp \/ CallPev

(* The receive task and the link events, between any two calls.            *)

\* evaluateUdpPayload: an SDP response counts whenever it arrives, normally
\* while the layers below ask for it.
ReceiveSdpResponse ==
    /\ connMgr_ConnectionLevel < 50 \/ LateSdp
    /\ connMgr_timer' = SdpOk(connMgr_timer)
    /\ UNCHANGED <<connMgr_ConnectionLevel, isEthLinkUp, channelVars, pevVars, task>>

ReceiveTcp ==
    /\ ReceiveSynAck \/ EvseAnswers \/ EvseStray
    /\ UNCHANGED <<pevVars, task>>

LinkEvent ==
    /\ \E isUp \in BOOLEAN : (isUp \/ LinkMayFail) /\ EthLinkEvent(isUp)
    /\ UNCHANGED <<channelVars, pevVars, task>>

Environment == ReceiveSdpResponse \/ ReceiveTcp \/ LinkEvent

Next == task30ms \/ Environment

\* Only the main loop is sure to go on: it is called every 30 ms.
Fairness == WF_vars(task30ms)

Spec == Init /\ [][Next]_vars /\ Fairness

-----------------------------------------------------------------------------
(* The session as its outputs show it.                                     *)

Phase ==
    CASE pev_state \in {"NotYetInitialized", "Connecting"}            -> "Idle"
      [] pev_state = "WaitForCableCheckResponse"                      -> "CableCheck"
      [] pev_state = "WaitForPreChargeResponse"                       -> "PreCharge"
      [] pev_state \in {"WaitForPowerDeliveryResponse",
                        "WaitForCurrentDemandResponse"}
            -> IF pev_wasPowerDeliveryRequestedOn THEN "Energy" ELSE "Stopping"
      [] pev_state \in {"WaitForWeldingDetectionResponse",
                        "WaitForSessionStopResponse"}                 -> "Opened"
      [] pev_state = "ChargingFinished"                               -> "Done"
      [] pev_state = "SequenceTimeout"                                -> "Failed"
      [] OTHER                                                        -> "Handshake"

Session == INSTANCE ChargeSession
           WITH phase <- Phase, pilot <- cpState, relay <- powerRelay

\* The program implements the abstract session: whatever the charger sends,
\* and whenever the connection breaks, the phases come in their order, the
\* pilot changes only at the two agreed points and at a reset, and the relay
\* closes only while energy is requested (pevStateMachine.ino:267-832).
ImplementsSession == Session!SessionSpec

-----------------------------------------------------------------------------
(* Safety.                                                                 *)

\* The relay is closed only in pilot state C, in the charging loop, while its
\* end is being agreed, or for the one cycle between a timeout and the
\* re-initialisation (pevStateMachine.ino:596-677, 729-736).
RelayOnlyWhileCharging ==
    powerRelay => /\ cpState = "C"
                  /\ pev_state \in {"WaitForPowerDeliveryResponse",
                                    "WaitForCurrentDemandResponse", "SequenceTimeout"}

\* Whenever a cycle ends with the relay closed, the charger has been heard
\* within the last TIMER_MAX cycles: a silent charger, however it falls
\* silent, opens the relay (connMgr.ino:48-72, pevStateMachine.ino:773-784).
RelayNeedsTraffic ==
    task = "connMgr" /\ powerRelay => connMgr_timer["TCP"] > 0 \/ connMgr_timer["Appl"] > 0

\* The time in a waiting state never outgrows its limit, in PreCharge by no
\* more than one delay between two requests: the 16-bit cycle counter cannot
\* wrap where a timeout depends on it (pevStateMachine.ino:540-594, 745-769).
WaitIsBounded ==
    pev_state \in WaitStates =>
        IF pev_state = "WaitForPreChargeResponse"
        THEN pev_cyclesInState + pev_DelayCycles <= LIMIT_PRECHARGE + PRECHARGE_DELAY
        ELSE pev_cyclesInState <= Limit(pev_state)

\* At the end of a cycle, whatever lies unread in the receive slot beyond the
\* first exchange of a session came over the connection of this session, not
\* over one that is closed already (tcp.ino:93-101, pevStateMachine.ino:283).
UnreadDataIsCurrent ==
    task = "connMgr" /\ Received
      /\ pev_state \in WaitStates \ {"WaitForSupportedApplicationProtocolResponse"}
    => tcp_rxdata.fresh

\* The relay never closes in a call that leaves the charging loop, in
\* particular not after the stop was requested, although the light-bulb
\* timer runs at the end of that very call (pevStateMachine.ino:636-676).
RelayClosesOnlyInTheLoop ==
    [][~powerRelay /\ powerRelay' =>
          /\ pev_state = "WaitForCurrentDemandResponse"
          /\ pev_state' = "WaitForCurrentDemandResponse"
          /\ pev_wasPowerDeliveryRequestedOn']_vars

-----------------------------------------------------------------------------
(* Liveness, from the main loop's fairness alone: the charger and the      *)
(* network owe nothing.                                                    *)

\* Every session comes to an end, even with a charger that answers forever
\* without ever being ready, or that sends only nonsense
\* (pevStateMachine.ino:426, 470, 515, 591, 636, 768).
SessionsEnd ==
    pev_state \in WaitStates ~> pev_state \in {"ChargingFinished", "Connecting",
                                              "NotYetInitialized"}

\* Connecting, which no state function leaves, is left all the same: the
\* closed connection lets the timers run down (pevStateMachine.ino:773-784,
\* 814-824, tcp.ino:85-89).
ConnectingIsLeft ==
    pev_state = "Connecting" ~> pev_state = "NotYetInitialized"

\* A finished session gives way to a new search for a charger once the charger
\* sends nothing but answers: the open connection goes quiet and is forgotten
\* (pevStateMachine.ino:725-727, 773-784).
FinishedIsLeft ==
    <>[][~EvseStray]_vars =>
        (pev_state = "ChargingFinished" ~> pev_state = "NotYetInitialized")

-----------------------------------------------------------------------------
(* What comments in the source say and the program does not do.            *)

\* "CableCheck may need some time. Wait at least 30s"
\* (pevStateMachine.ino:755): while the link is up, an unanswered CableCheck
\* is given up only after that time.
CableCheckWaitsItsTime ==
    [][pev_state = "WaitForCableCheckResponse" /\ isEthLinkUp /\ ~Answered
          /\ pev_state' # pev_state
       => Cycles > LIMIT_CABLE]_vars

\* "it is the correct response" (pevStateMachine.ino:285): a response that
\* moves a session on came over the connection this session is using.
AnswersAreCurrent ==
    [][task = "pev" /\ tcpState = "ESTABLISHED" /\ Received
          /\ pev_state \in WaitStates /\ pev_state' \in WaitStates \ {pev_state}
       => tcp_rxdata.fresh]_vars
=============================================================================
