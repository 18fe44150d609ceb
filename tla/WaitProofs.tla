----------------------------- MODULE WaitProofs -----------------------------
(***************************************************************************)
(* Proofs about Pairing that weigh a wait against a timer of the           *)
(* connection manager.  The modems' restart with the new key is over       *)
(* before SLAC is forgotten: one timer of 15 s, loaded once, against a     *)
(* restart that takes long and rechecks that go on meanwhile.  SDP's tries *)
(* are not used up when the modems are forgotten: one timer of 10 s        *)
(* against 50 tries of half a second.  And SLAC's waits are not too long   *)
(* when its level ends: two timers against 500 cycles.                     *)
(***************************************************************************)
EXTENDS PairingProofs

\* The world of modems that answer, promptly, over a link that stays up.
PromptWorld == ~Lossy /\ LateReplies = {} /\ ~FastReplies /\ ~LinkMayFail

\* The longest restart that the timer outlives: one recheck may have begun just before the modems
\* are up, and another one has to follow (13.3 s with the values of the code).
RestartIsCovered ==
    \A r \in RestartTimes : r + RECHECK_DELAY + 2 * CHECK_CYCLES < TIMER_MAX_15s

-----------------------------------------------------------------------------
(* The restart with the new key: the invariant.                            *)

KeyReplies == {"SlacMatchCnf", "SetKeyCnf", "GetKeyLocal", "GetKeyCharger"}

\* What a call of the sequencer has asked for is answered before the next
\* cycle; the key is exchanged while the modems are up and SLAC waits for it.
AnsweredInTime ==
    /\ task = "finder" \/ (task = "slac" /\ ~inTransmit) => replies \cap KeyReplies = {}
    /\ task = "slac" => "SetKeyCnf" \notin replies
    /\ "SlacMatchCnf" \in replies =>
         /\ restart = 0 /\ SlacIsDue /\ DelayOver
         /\ pevSequenceState = IF inTransmit THEN "DELAY_BEFORE_MATCH"
                                             ELSE "WAITING_FOR_SLAC_MATCH_CNF"

LinkStays == connMgr_ConnectionLevel > 0 => isEthLinkUp

\* Both modems have answered this check, or their answers are in flight.
BothAnswer ==
    numberOfFoundModems + (IF "GetKeyLocal" \in replies THEN 1 ELSE 0)
                        + (IF "GetKeyCharger" \in replies THEN 1 ELSE 0) >= 2

\* From the connection manager's call to SLAC's, the timer is one ahead.
Ahead == IF task \in {"finder", "slac"} THEN 1 ELSE 0

\* Time t of the timer is enough until SLAC has seen the modems.
Enough(t) ==
    /\ restart > 0 => t > restart + RECHECK_DELAY + 2 * CHECK_CYCLES
    /\ pevSequenceState = "WAITING_FOR_RESTART2" =>
         /\ t + Ahead > pevSequenceDelayCycles + CHECK_CYCLES + 1
         /\ inTransmit => restart > 0 \/ BothAnswer
    /\ pevSequenceState = "FIND_MODEMS2" =>
         LET left == CHECK_CYCLES - pevSequenceCyclesInState
         IN  /\ left > 0
             /\ t + Ahead > left + IF BothAnswer THEN 0 ELSE RECHECK_DELAY + CHECK_CYCLES + 1

Restarting ==
    pevSequenceState \in {"WAITING_FOR_RESTART2", "FIND_MODEMS2"} =>
        /\ joined /\ connMgr_ConnectionLevel >= 10
        /\ pevSequenceState = "WAITING_FOR_RESTART2" => pevSequenceDelayCycles <= RECHECK_DELAY
        /\ Enough(IF "SetKeyCnf" \in replies THEN TIMER_MAX_15s ELSE connMgr_timer["Slac"])

RestartInv == DelayInv /\ AnsweredInTime /\ LinkStays /\ Restarting

-----------------------------------------------------------------------------
(* What the steps do to the parts that the invariant is about.             *)

\* SLAC's timer is loaded by its own report, counted down, and left alone by all others.
LEMMA SlacTimer ==
    ASSUME NEW timer \in Timers
    PROVE  /\ timer["Slac"] \in 0 .. TIMER_MAX_15s /\ TIMER_MAX_15s \in Nat
           /\ SlacOk(timer)["Slac"] = TIMER_MAX_15s
           /\ SdpOk(timer)["Slac"] = timer["Slac"] /\ TcpOk(timer)["Slac"] = timer["Slac"]
           /\ \A n : ModemFinderOk(timer, n)["Slac"] = timer["Slac"]
           /\ LET counted == CountDown(timer)
              IN  /\ counted["Slac"] = IF timer["Slac"] > 0 THEN timer["Slac"] - 1 ELSE 0
                  /\ Reload(counted, {"EthLink"}, TIMER_MAX)["Slac"] = counted["Slac"]
                  /\ counted["Slac"] > 0 => LevelOfTimers(counted) >= 10
  <1>1. "Slac" \in Layers /\ TIMER_MAX_15s \in Nat
    BY PairingAssumption, TimerAssumption DEF AllLayers
  <1>2. /\ timer["Slac"] \in 0 .. TIMER_MAX_15s
        /\ SlacOk(timer)["Slac"] = TIMER_MAX_15s
        /\ SdpOk(timer)["Slac"] = timer["Slac"] /\ TcpOk(timer)["Slac"] = timer["Slac"]
    BY <1>1 DEF Timers, SlacOk, SdpOk, TcpOk, Reload
  <1>3. ASSUME NEW n PROVE ModemFinderOk(timer, n)["Slac"] = timer["Slac"]
    BY <1>1 DEF ModemFinderOk, Reload
  <1> DEFINE counted == CountDown(timer)
  <1>4. /\ counted["Slac"] = IF timer["Slac"] > 0 THEN timer["Slac"] - 1 ELSE 0
        /\ Reload(counted, {"EthLink"}, TIMER_MAX)["Slac"] = counted["Slac"]
    BY <1>1 DEF CountDown, Reload
  <1>5. counted["Slac"] > 0 => LevelOfTimers(counted) >= 10
    BY <1>1 DEF LevelOfTimers, Running
  <1> QED
    BY <1>1, <1>2, <1>3, <1>4, <1>5

\* Restarting speaks of nothing that changes here.
LEMMA RestartingKept ==
    ASSUME Restarting,
           UNCHANGED <<pevSequenceState, pevSequenceCyclesInState, pevSequenceDelayCycles,
                       numberOfFoundModems, joined, restart, inTransmit,
                       connMgr_ConnectionLevel>>,
           connMgr_timer'["Slac"] = connMgr_timer["Slac"], Ahead' = Ahead,
           replies' \cap KeyReplies = replies \cap KeyReplies
    PROVE  Restarting'
  <1>1. /\ "SetKeyCnf" \in replies' <=> "SetKeyCnf" \in replies
        /\ "GetKeyLocal" \in replies' <=> "GetKeyLocal" \in replies
        /\ "GetKeyCharger" \in replies' <=> "GetKeyCharger" \in replies
    BY DEF KeyReplies
  <1>2. BothAnswer' <=> BothAnswer
    BY <1>1 DEF BothAnswer
  <1> QED
    BY <1>1, <1>2 DEF Restarting, Enough

\* The types that the steps below need.
LEMMA RestartTypes ==
    ASSUME TypeInv
    PROVE  /\ connMgr_timer \in Timers /\ restart \in Nat /\ numberOfFoundModems \in Nat
           /\ pevSequenceDelayCycles \in Nat /\ pevSequenceCyclesInState \in Nat
           /\ connMgr_ConnectionLevel \in Levels /\ isEthLinkUp \in BOOLEAN
           /\ joined \in BOOLEAN /\ inTransmit \in BOOLEAN
           /\ CHECK_CYCLES \in Nat \ {0} /\ RECHECK_DELAY \in Nat \ {0}
           /\ TIMER_MAX_15s \in Nat
  BY SlacAssumption, TimerAssumption
  DEF TypeInv, TypeOK, ConnMgrTypeOK, ModemsTypeOK, SlacTypeOK, Timers

\* One cycle passes: timer and restart count down together, and the level stays.
LEMMA CycleKeeps ==
    ASSUME PromptWorld, RestartInv, CallConnMgr
    PROVE  /\ AnsweredInTime' /\ LinkStays' /\ Restarting'
           /\ pevSequenceState \in {"WAITING_FOR_RESTART2", "FIND_MODEMS2"}
                => connMgr_ConnectionLevel' >= 10
  <1> USE DEF RestartInv, DelayInv
  <1>1. /\ replies = {} /\ replies' = {} /\ task = "connMgr" /\ task' = "finder"
        /\ connMgr_Mainfunction /\ ModemsTick
        /\ UNCHANGED <<joined, inTransmit, slacVars>>
    BY DEF CallConnMgr, PromptWorld
  <1>2. AnsweredInTime'
    BY <1>1 DEF AnsweredInTime
  <1>3. LinkStays'
    BY <1>1 DEF LinkStays, connMgr_Mainfunction
  <1>4. ASSUME pevSequenceState \in {"WAITING_FOR_RESTART2", "FIND_MODEMS2"}
        PROVE  connMgr_ConnectionLevel' >= 10 /\ Restarting'
    <2> DEFINE t == connMgr_timer["Slac"]
    <2>1. Enough(t) /\ joined /\ connMgr_ConnectionLevel >= 10 /\ isEthLinkUp
      BY <1>1, <1>4, RestartTypes DEF Restarting, LinkStays, Levels
    <2>2. /\ t \in 0 .. TIMER_MAX_15s /\ Ahead = 0 /\ Ahead' = 1
          /\ BothAnswer' <=> BothAnswer
      BY <1>1, SlacTimer, RestartTypes DEF Ahead, BothAnswer, slacVars, slacCounters
    <2>3. t > 1
      <3>1. CASE pevSequenceState = "WAITING_FOR_RESTART2"
        BY <2>1, <2>2, <3>1, RestartTypes DEF Enough
      <3>2. CASE pevSequenceState = "FIND_MODEMS2"
        <4> DEFINE left == CHECK_CYCLES - pevSequenceCyclesInState
        <4>1. left > 0 /\ (t > left \/ t > left + (RECHECK_DELAY + CHECK_CYCLES + 1)) /\ left \in Int
          BY <2>1, <2>2, <3>2, RestartTypes DEF Enough
        <4> QED
          BY <4>1, <2>2, RestartTypes
      <3> QED
        BY <1>4, <3>1, <3>2
    <2>4. connMgr_timer'["Slac"] = t - 1 /\ connMgr_ConnectionLevel' >= 10
      BY <1>1, <2>1, <2>2, <2>3, SlacTimer, RestartTypes DEF connMgr_Mainfunction
    <2>5. restart' = IF restart > 0 THEN restart - 1 ELSE 0
      BY <1>1 DEF ModemsTick
    <2>6. UNCHANGED <<pevSequenceState, pevSequenceDelayCycles, pevSequenceCyclesInState, inTransmit>>
      BY <1>1 DEF slacVars
    <2>7. ~inTransmit
      BY <1>1 DEF TypeInv, TransmitHolds
    <2>8. Enough(t)'
      <3>1. restart > 0 /\ restart' > 0 => t' > restart' + RECHECK_DELAY + 2 * CHECK_CYCLES
        BY <2>1, <2>2, <2>4, <2>5, RestartTypes DEF Enough
      <3>2. CASE pevSequenceState = "WAITING_FOR_RESTART2"
        <4>1. t' + Ahead' = t + Ahead
          BY <2>2, <2>4
        <4> QED
          BY <2>1, <2>5, <2>6, <2>7, <3>1, <3>2, <4>1, RestartTypes DEF Enough
      <3>3. CASE pevSequenceState = "FIND_MODEMS2"
        <4>1. t' + Ahead' = t + Ahead
          BY <2>2, <2>4
        <4> QED
          BY <2>1, <2>2, <2>5, <2>6, <3>1, <3>3, <4>1, RestartTypes DEF Enough
      <3> QED
        BY <1>4, <3>2, <3>3
    <2> QED
      BY <1>1, <1>4, <2>1, <2>4, <2>6, <2>8 DEF Restarting
  <1>5. ASSUME pevSequenceState \notin {"WAITING_FOR_RESTART2", "FIND_MODEMS2"}
        PROVE  Restarting'
    BY <1>1, <1>5 DEF Restarting, slacVars
  <1> QED
    BY <1>2, <1>3, <1>4, <1>5

\* The modem finder has nothing to do with the new key: it asks at level 5 only.
LEMMA FinderKeepsRestart ==
    ASSUME RestartInv, CallModemFinder
    PROVE  AnsweredInTime' /\ LinkStays' /\ Restarting'
  <1> USE DEF RestartInv, DelayInv
  <1>1. /\ UNCHANGED <<slacVars, joined, restart, connMgr_ConnectionLevel, isEthLinkUp>>
        /\ task = "finder" /\ task' = IF inTransmit' THEN "finder" ELSE "slac"
    BY DEF CallModemFinder, modemFinder_Mainfunction, StartSearch, MofiWait, EvaluateSearch,
           EndSearch, MofiIdle, modemVars
  <1>u. UNCHANGED <<pevSequenceState, pevSequenceCyclesInState, pevSequenceDelayCycles,
                    numberOfFoundModems>>
    BY <1>1 DEF slacVars, slacCounters
  <1>2. replies' \cap KeyReplies = replies \cap KeyReplies
    <2>1. CASE StartSearch
      <3>1. IfUp({"GetSwLocal"}) \cup IfJoined({"GetSwCharger"})
              \subseteq {"GetSwLocal", "GetSwCharger"}
        BY DEF IfUp, IfJoined
      <3>2. /\ replies \subseteq replies'
            /\ replies' \subseteq replies \cup {"GetSwLocal", "GetSwCharger"}
        BY <2>1, <3>1 DEF StartSearch, AskModems, Ask
      <3> QED
        BY <3>2 DEF KeyReplies
    <2>2. CASE ~StartSearch
      BY <2>2 DEF CallModemFinder, modemFinder_Mainfunction, MofiWait, EvaluateSearch,
                  EndSearch, MofiIdle, modemVars
    <2> QED
      BY <2>1, <2>2
  <1>3. replies \cap KeyReplies = {}
    BY <1>1 DEF AnsweredInTime
  <1>4. AnsweredInTime'
    BY <1>1, <1>2, <1>3 DEF AnsweredInTime, KeyReplies
  <1>5. LinkStays'
    BY <1>1 DEF LinkStays
  <1>6. ASSUME pevSequenceState \in {"WAITING_FOR_RESTART2", "FIND_MODEMS2"}
        PROVE  Restarting'
    <2>1. connMgr_ConnectionLevel # 5 /\ ~StartSearch
      BY <1>6, RestartTypes DEF Restarting, StartSearch
    <2>2. UNCHANGED inTransmit /\ connMgr_timer'["Slac"] = connMgr_timer["Slac"]
      <3>1. /\ UNCHANGED inTransmit
            /\ \/ UNCHANGED connMgr_timer
               \/ connMgr_timer' = ModemFinderOk(connMgr_timer, numberOfSoftwareVersionResponses)
        BY <2>1 DEF CallModemFinder, modemFinder_Mainfunction, MofiWait, EvaluateSearch,
                    EndSearch, MofiIdle, modemVars
      <3>2. ModemFinderOk(connMgr_timer, numberOfSoftwareVersionResponses)["Slac"]
              = connMgr_timer["Slac"]
        BY SlacTimer, RestartTypes
      <3> QED
        BY <3>1, <3>2
    <2>3. Ahead' = Ahead
      BY <1>1 DEF Ahead
    <2> QED
      BY <1>1, <1>u, <1>2, <2>2, <2>3, RestartingKept
  <1>7. ASSUME pevSequenceState \notin {"WAITING_FOR_RESTART2", "FIND_MODEMS2"}
        PROVE  Restarting'
    BY <1>u, <1>7 DEF Restarting
  <1> QED
    BY <1>4, <1>5, <1>6, <1>7

\* SDP, while SLAC has its turn, and what else leaves SLAC and the modems alone.
LEMMA OthersKeepRestart ==
    ASSUME PromptWorld, RestartInv,
           CallSdp \/ CallUpper \/ UpperReport \/ LinkEvent \/ ChargerEvent \/ UNCHANGED vars
    PROVE  AnsweredInTime' /\ LinkStays' /\ Restarting'
  <1> USE DEF RestartInv, DelayInv
  <1>1. /\ UNCHANGED <<pevSequenceState, pevSequenceCyclesInState, slacCounters, joined, restart,
                       inTransmit, connMgr_ConnectionLevel>>
        /\ isEthLinkUp' \in {isEthLinkUp, TRUE}
        /\ \/ task' = task
           \/ task = "sdp" /\ task' = "upper"
           \/ task = "upper" /\ task' = "connMgr"
    BY DEF PromptWorld, CallSdp, runSdpStateMachine, CallUpper, UpperReport, LinkEvent,
           EthLinkEvent, ChargerEvent, ChargerLeaves, vars, connMgrVars, modemVars, slacVars
  <1>2. replies' \cap KeyReplies = replies \cap KeyReplies
    <2>1. CASE CallSdp
      <3>1. IfJoined({"SdpResponse"}) \subseteq {"SdpResponse"}
        BY DEF IfJoined
      <3>2. replies \subseteq replies' /\ replies' \subseteq replies \cup {"SdpResponse"}
        BY <2>1, <3>1 DEF CallSdp, runSdpStateMachine, SdpNotDue, SdpStart, SdpWait, SdpRequest,
                          Ask
      <3> QED
        BY <3>2 DEF KeyReplies
    <2>2. CASE ~CallSdp
      BY <2>2 DEF CallUpper, UpperReport, LinkEvent, ChargerEvent, ChargerLeaves, vars, modemVars
    <2> QED
      BY <2>1, <2>2
  <1>3. connMgr_timer'["Slac"] = connMgr_timer["Slac"]
    BY SlacTimer, RestartTypes
    DEF CallSdp, runSdpStateMachine, CallUpper, UpperReport, LinkEvent, EthLinkEvent,
        ChargerEvent, ChargerLeaves, vars, connMgrVars
  <1>4. pevSequenceState # "INITIAL" => UNCHANGED pevSequenceDelayCycles
    <2>1. CASE CallSdp
      BY <2>1 DEF SlacIdleUnlessDue, SlacIsDue, CallSdp, runSdpStateMachine, SdpNotDue, SdpStart,
                  SdpWait, SdpRequest
    <2>2. CASE ~CallSdp
      BY <2>2 DEF CallUpper, UpperReport, LinkEvent, ChargerEvent, vars, slacVars
    <2> QED
      BY <2>1, <2>2
  <1>5. AnsweredInTime'
    <2>1. \A r \in KeyReplies : r \in replies' <=> r \in replies
      BY <1>2
    <2>2. "SlacMatchCnf" \in replies => pevSequenceState # "INITIAL"
      BY DEF AnsweredInTime
    <2>3. task' \in {"finder", "slac"} => task' = task
      BY <1>1
    <2>4. "SlacMatchCnf" \in replies' => SlacIsDue' /\ DelayOver'
      BY <1>1, <1>4, <2>1, <2>2 DEF AnsweredInTime, KeyReplies, SlacIsDue, DelayOver
    <2> QED
      BY <1>1, <1>2, <2>1, <2>3, <2>4 DEF AnsweredInTime, KeyReplies
  <1>6. LinkStays'
    <2>1. CASE isEthLinkUp' = TRUE
      BY <2>1 DEF LinkStays
    <2>2. CASE isEthLinkUp' = isEthLinkUp
      BY <1>1, <2>2 DEF LinkStays
    <2> QED
      BY <1>1, <2>1, <2>2
  <1>7. Ahead' = Ahead
    BY <1>1 DEF Ahead
  <1>8. Restarting'
    <2>1. CASE pevSequenceState = "INITIAL"
      BY <1>1, <2>1 DEF Restarting
    <2>2. CASE pevSequenceState # "INITIAL"
      BY <1>1, <1>2, <1>3, <1>4, <1>7, <2>2, RestartingKept DEF slacCounters
    <2> QED
      BY <2>1, <2>2
  <1> QED
    BY <1>5, <1>6, <1>8

\* A call of the sequencer asks for SLAC_MATCH.CNF in one place only.
LEMMA MatchIsAsked ==
    ASSUME TypeInv, CallSlac, "SlacMatchCnf" \in replies', "SlacMatchCnf" \notin replies
    PROVE  /\ SlacIsDue /\ pevSequenceState = "DELAY_BEFORE_MATCH" /\ DelayOver
           /\ restart = 0 /\ inTransmit'
           /\ UNCHANGED <<pevSequenceState, pevSequenceDelayCycles>>
  <1>1. /\ "SlacMatchCnf" \notin IfUp({"SlacParamCnf"})
        /\ "SlacMatchCnf" \notin IfUp({"AttenCharInd"})
        /\ "SlacMatchCnf" \notin IfUp({"GetKeyLocal"}) \cup IfJoined({"GetKeyCharger"})
        /\ "SlacMatchCnf" \in IfUp({"SlacMatchCnf"}) => restart = 0
    BY DEF IfUp, IfJoined
  <1>2. ASSUME NEW expected, Ask(expected) PROVE "SlacMatchCnf" \in expected
    BY <1>2 DEF Ask
  <1>3. /\ ~UNCHANGED replies /\ ~Ask(IfUp({"SlacParamCnf"})) /\ ~Ask(IfUp({"AttenCharInd"}))
        /\ ~Ask(IfUp({"GetKeyLocal"}) \cup IfJoined({"GetKeyCharger"}))
    BY <1>1, <1>2
  <1>4. SlacIsDue /\ DelayBeforeMatch
    BY <1>3 DEF CallSlac, runSlacSequencer, SlacNotDue, SlacInitial, SlacReady,
           WaitForSlacParamCnf, SlacParamCnfReceived, BeforeStartAttenChar, CountDelay, Sounding,
           WaitForAttenCharInd, AttenCharIndReceived, TransmitThen, WaitForSlacMatchCnf,
           WaitForRestart2, FindModems2, AskModems, modemVars
  <1> QED
    BY <1>1, <1>2, <1>3, <1>4 DEF DelayBeforeMatch, CountDelay, TransmitThen, modemVars

\* What a call of the sequencer asks for is under way when the call is over.
LEMMA SlacKeepsAnswers ==
    ASSUME RestartInv, CallSlac PROVE AnsweredInTime'
  <1> USE DEF RestartInv, DelayInv
  <1>1. /\ task = "slac" /\ task' = IF inTransmit' THEN "slac" ELSE "sdp"
        /\ UNCHANGED connMgr_ConnectionLevel
    BY DEF CallSlac, runSlacSequencer
  <1>2. "SetKeyCnf" \notin replies'
    BY <1>1, SlacLeavesCounts DEF AnsweredInTime
  <1>3. ASSUME "SlacMatchCnf" \in replies'
        PROVE  /\ restart' = 0 /\ SlacIsDue' /\ DelayOver'
               /\ pevSequenceState' = IF inTransmit' THEN "DELAY_BEFORE_MATCH"
                                                     ELSE "WAITING_FOR_SLAC_MATCH_CNF"
    <2>1. UNCHANGED restart
      BY DEF CallSlac, runSlacSequencer, SlacNotDue, SlacInitial, SlacReady,
             WaitForSlacParamCnf, SlacParamCnfReceived, BeforeStartAttenChar, CountDelay,
             Sounding, WaitForAttenCharInd, AttenCharIndReceived, DelayBeforeMatch,
             TransmitThen, WaitForSlacMatchCnf, WaitForRestart2, FindModems2, modemVars
    <2>2. CASE "SlacMatchCnf" \notin replies
      BY <1>1, <1>3, <2>1, <2>2, MatchIsAsked DEF SlacIsDue, DelayOver
    <2>3. CASE "SlacMatchCnf" \in replies
      <3>1. /\ inTransmit /\ SlacIsDue /\ DelayOver /\ restart = 0
            /\ pevSequenceState = "DELAY_BEFORE_MATCH"
        BY <1>1, <2>3 DEF AnsweredInTime, KeyReplies
      <3>2. DelayBeforeMatch
        BY <3>1 DEF CallSlac, runSlacSequencer, SlacNotDue, SlacInitial, SlacReady,
               WaitForSlacParamCnf, SlacParamCnfReceived, BeforeStartAttenChar, Sounding,
               WaitForAttenCharInd, AttenCharIndReceived, WaitForSlacMatchCnf,
               WaitForRestart2, FindModems2
      <3> QED
        BY <1>1, <2>1, <3>1, <3>2
        DEF DelayBeforeMatch, CountDelay, TransmitThen, slac_enterState, DelayOver, SlacIsDue
    <2> QED
      BY <2>2, <2>3
  <1> QED
    BY <1>1, <1>2, <1>3 DEF AnsweredInTime

\* A wait for the restart, or an inquiry that begins at its end.
LEMMA RestartCallKeeps ==
    ASSUME PromptWorld, RestartInv, CallSlac, SlacIsDue,
           pevSequenceState = "WAITING_FOR_RESTART2"
    PROVE  Restarting'
  <1> USE DEF RestartInv, DelayInv
  <1> DEFINE t == connMgr_timer["Slac"]
  <1>1. /\ task = "slac" /\ task' = IF inTransmit' THEN "slac" ELSE "sdp"
        /\ UNCHANGED connMgr_ConnectionLevel
        /\ WaitForRestart2
    BY DEF CallSlac, runSlacSequencer, SlacNotDue, SlacInitial, SlacReady,
           WaitForSlacParamCnf, SlacParamCnfReceived, BeforeStartAttenChar, Sounding,
           WaitForAttenCharInd, AttenCharIndReceived, DelayBeforeMatch, WaitForSlacMatchCnf,
           FindModems2
  <1>2. /\ t \in 0 .. TIMER_MAX_15s
        /\ joined /\ connMgr_ConnectionLevel >= 10 /\ Enough(t)
        /\ pevSequenceDelayCycles <= RECHECK_DELAY /\ Ahead = 1
    BY <1>1, SlacTimer, RestartTypes DEF Restarting, AnsweredInTime, Ahead
  <1>3. /\ restart > 0 => t > restart + RECHECK_DELAY + 2 * CHECK_CYCLES
        /\ t + 1 > pevSequenceDelayCycles + CHECK_CYCLES + 1
        /\ inTransmit => restart > 0 \/ BothAnswer
    BY <1>2 DEF Enough
  <1>4. UNCHANGED <<joined, restart, connMgr_timer>> /\ "SetKeyCnf" \notin replies'
    BY <1>1, SlacLeavesCounts DEF WaitForRestart2, CountDelay, modemVars, AnsweredInTime
  <1>g. SUFFICES ASSUME pevSequenceState' \in {"WAITING_FOR_RESTART2", "FIND_MODEMS2"}
                 PROVE  /\ pevSequenceState' = "WAITING_FOR_RESTART2"
                             => pevSequenceDelayCycles' <= RECHECK_DELAY
                        /\ Enough(t)'
    BY <1>1, <1>2, <1>4 DEF Restarting
  <1>5. CASE CountDelay
    <2>1. /\ pevSequenceDelayCycles' = pevSequenceDelayCycles - 1
          /\ UNCHANGED <<pevSequenceState, inTransmit>> /\ ~inTransmit
      BY <1>1, <1>5, RestartTypes
      DEF CountDelay, Stay, modemVars, TypeInv, TransmitHolds, DelayOver
    <2>2. Ahead' = 0
      BY <1>1, <2>1 DEF Ahead
    <2> QED
      BY <1>2, <1>3, <1>4, <2>1, <2>2, RestartTypes DEF Enough
  <1>6. CASE /\ ~inTransmit /\ inTransmit' /\ DelayOver
             /\ numberOfFoundModems' = 0 /\ AskModems("GetKeyLocal", "GetKeyCharger")
             /\ UNCHANGED <<pevSequenceState, pevSequenceDelayCycles>>
    <2>1. restart = 0 => BothAnswer'
      BY <1>2, <1>6 DEF PromptWorld, AskModems, Ask, IfUp, IfJoined, BothAnswer
    <2>2. Ahead' = 1
      BY <1>1, <1>6 DEF Ahead
    <2> QED
      BY <1>2, <1>3, <1>4, <1>6, <2>1, <2>2, RestartTypes DEF Enough
  <1>7. CASE /\ inTransmit /\ ~inTransmit' /\ slac_enterState("FIND_MODEMS2") /\ DelayOver
             /\ UNCHANGED <<numberOfFoundModems, replies>>
    <2>1. /\ pevSequenceState' = "FIND_MODEMS2" /\ pevSequenceCyclesInState' = 0
          /\ Ahead' = 0 /\ (BothAnswer' <=> BothAnswer)
      BY <1>1, <1>7 DEF slac_enterState, Ahead, BothAnswer
    <2>2. t > CHECK_CYCLES /\ CHECK_CYCLES > 0
      BY <1>2, <1>3, <1>7, RestartTypes DEF DelayOver
    <2>3. ~BothAnswer => t > CHECK_CYCLES + (RECHECK_DELAY + CHECK_CYCLES + 1)
      BY <1>2, <1>3, <1>7, RestartTypes
    <2> QED
      BY <1>2, <1>3, <1>4, <2>1, <2>2, <2>3, RestartTypes DEF Enough
  <1> QED
    BY <1>1, <1>5, <1>6, <1>7 DEF WaitForRestart2, TransmitThen

\* A cycle of an inquiry: both modems are counted, or there is time to ask again.
LEMMA InquiryKeeps ==
    ASSUME RestartInv, CallSlac, SlacIsDue, pevSequenceState = "FIND_MODEMS2"
    PROVE  Restarting'
  <1> USE DEF RestartInv, DelayInv
  <1> DEFINE t == connMgr_timer["Slac"]
             left == CHECK_CYCLES - pevSequenceCyclesInState
  <1>1. /\ task = "slac" /\ task' = IF inTransmit' THEN "slac" ELSE "sdp"
        /\ UNCHANGED <<connMgr_ConnectionLevel, modemVars, numberOfFoundModems>>
        /\ FindModems2
    BY DEF CallSlac, runSlacSequencer, SlacNotDue, SlacInitial, SlacReady,
           WaitForSlacParamCnf, SlacParamCnfReceived, BeforeStartAttenChar, Sounding,
           WaitForAttenCharInd, AttenCharIndReceived, DelayBeforeMatch, WaitForSlacMatchCnf,
           WaitForRestart2, FindModems2
  <1>2. ~inTransmit /\ UNCHANGED <<inTransmit, joined, restart, replies>> /\ Ahead' = 0
    BY <1>1 DEF TypeInv, TransmitHolds, modemVars, Ahead
  <1>3. /\ t \in 0 .. TIMER_MAX_15s
        /\ joined /\ connMgr_ConnectionLevel >= 10 /\ Enough(t) /\ Ahead = 1
        /\ replies \cap KeyReplies = {}
    BY <1>1, <1>2, SlacTimer, RestartTypes DEF Restarting, AnsweredInTime, Ahead
  <1>4. /\ restart > 0 => t > restart + RECHECK_DELAY + 2 * CHECK_CYCLES
        /\ left > 0
        /\ BothAnswer => t + 1 > left
        /\ ~BothAnswer => t + 1 > left + (RECHECK_DELAY + CHECK_CYCLES + 1)
    BY <1>3, RestartTypes DEF Enough
  <1>5. BothAnswer <=> isEvseModemFound
    BY <1>3, RestartTypes DEF BothAnswer, KeyReplies, isEvseModemFound
  <1>6. BothAnswer' <=> BothAnswer
    BY <1>1, <1>2 DEF BothAnswer
  <1>g. SUFFICES ASSUME pevSequenceState' \in {"WAITING_FOR_RESTART2", "FIND_MODEMS2"}
                 PROVE  /\ pevSequenceState' = "WAITING_FOR_RESTART2"
                             => pevSequenceDelayCycles' <= RECHECK_DELAY
                        /\ Enough(t)' /\ UNCHANGED connMgr_timer
    BY <1>1, <1>2, <1>3 DEF Restarting, KeyReplies
  <1>7. CASE SlacCycles < CHECK_CYCLES /\ Stay /\ UNCHANGED connMgr_timer
    <2>1. /\ pevSequenceCyclesInState' = pevSequenceCyclesInState + 1
          /\ pevSequenceState' = "FIND_MODEMS2"
          /\ CHECK_CYCLES > pevSequenceCyclesInState + 1
      BY <1>7 DEF Stay, SlacCycles
    <2> QED
      BY <1>2, <1>3, <1>4, <1>6, <1>7, <2>1, RestartTypes DEF Enough
  <1>8. CASE /\ SlacCycles >= CHECK_CYCLES /\ ~isEvseModemFound /\ UNCHANGED connMgr_timer
             /\ slac_enterState("WAITING_FOR_RESTART2")
             /\ pevSequenceDelayCycles' = RECHECK_DELAY
    <2>1. t > RECHECK_DELAY + CHECK_CYCLES + 1
      BY <1>3, <1>4, <1>5, <1>8, RestartTypes
    <2>2. pevSequenceState' = "WAITING_FOR_RESTART2"
      BY <1>8 DEF slac_enterState
    <2> QED
      BY <1>2, <1>3, <1>4, <1>8, <2>1, <2>2, RestartTypes DEF Enough
  <1>9. CASE slac_enterState("INITIAL")
    BY <1>9, <1>g DEF slac_enterState
  <1> QED
    BY <1>1, <1>7, <1>8, <1>9 DEF FindModems2

\* Every call of the sequencer.
LEMMA SlacKeepsRestart ==
    ASSUME PromptWorld, RestartInv, CallSlac
    PROVE  AnsweredInTime' /\ LinkStays' /\ Restarting'
  <1> USE DEF RestartInv, DelayInv
  <1>1. AnsweredInTime'
    BY SlacKeepsAnswers
  <1>2. LinkStays'
    BY DEF CallSlac, runSlacSequencer, LinkStays
  <1>3. CASE ~SlacIsDue
    BY <1>1, <1>2, <1>3, SlacOutOfTurn DEF Restarting
  <1>4. CASE SlacIsDue /\ pevSequenceState \notin {"WAITING_FOR_RESTART2", "FIND_MODEMS2"}
    <2>1. pevSequenceState' \notin {"WAITING_FOR_RESTART2", "FIND_MODEMS2"}
      <3>1. CASE pevSequenceState \in BeforeMatch
        BY <1>4, <3>1, SlacUpToMatch DEF BeforeMatch
      <3>2. CASE pevSequenceState \notin BeforeMatch
        <4>1. DelayBeforeMatch \/ WaitForSlacMatchCnf
          BY <1>4, <3>2
          DEF CallSlac, runSlacSequencer, SlacNotDue, SlacInitial, SlacReady,
              WaitForSlacParamCnf, SlacParamCnfReceived, BeforeStartAttenChar, Sounding,
              WaitForAttenCharInd, AttenCharIndReceived, WaitForRestart2, FindModems2,
              BeforeMatch
        <4> QED
          BY <4>1 DEF DelayBeforeMatch, CountDelay, TransmitThen, WaitForSlacMatchCnf,
                      slac_enterState, Stay
      <3> QED
        BY <3>1, <3>2
    <2> QED
      BY <1>1, <1>2, <2>1 DEF Restarting
  <1>5. CASE SlacIsDue /\ pevSequenceState \in {"WAITING_FOR_RESTART2", "FIND_MODEMS2"}
    BY <1>1, <1>2, <1>5, RestartCallKeeps, InquiryKeeps
  <1> QED
    BY <1>3, <1>4, <1>5

\* The key is set while SLAC waits for it, and the local modem confirms at once.
LEMMA KeyIsSet ==
    ASSUME PromptWorld, RestartIsCovered, RestartInv, evaluateSlacMatchCnf,
           UNCHANGED task, ~inTransmit
    PROVE  AnsweredInTime' /\ Restarting'
  <1> USE DEF RestartInv, DelayInv
  <1>1. /\ "SlacMatchCnf" \in replies /\ restart = 0 /\ SlacIsDue /\ DelayOver
        /\ pevSequenceState = "WAITING_FOR_SLAC_MATCH_CNF"
        /\ task \notin {"finder", "slac"}
    BY DEF evaluateSlacMatchCnf, AnsweredInTime, KeyReplies
  <1>2. /\ replies' = (replies \ {"SlacMatchCnf"}) \cup {"SetKeyCnf"}
        /\ joined' = TRUE /\ restart' \in RestartTimes
        /\ pevSequenceState' = "WAITING_FOR_RESTART2"
        /\ UNCHANGED <<pevSequenceDelayCycles, inTransmit, connMgr_ConnectionLevel>>
    BY <1>1 DEF evaluateSlacMatchCnf, SetKey, PromptWorld, IfUp, slac_enterState, connMgrVars
  <1>3. AnsweredInTime'
    BY <1>1, <1>2 DEF AnsweredInTime
  <1>4. Enough(TIMER_MAX_15s)'
    <2>1. restart' \in Nat /\ restart' + RECHECK_DELAY + 2 * CHECK_CYCLES < TIMER_MAX_15s
      BY <1>2, ModemsAssumption DEF RestartIsCovered
    <2>2. pevSequenceDelayCycles' = 0 /\ ~inTransmit' /\ Ahead' = 0
      BY <1>1, <1>2 DEF DelayOver, Ahead
    <2>3. TIMER_MAX_15s > CHECK_CYCLES + 1
      BY <2>1, RestartTypes
    <2> QED
      BY <1>2, <2>1, <2>2, <2>3, RestartTypes DEF Enough
  <1>5. connMgr_ConnectionLevel' >= 10 /\ pevSequenceDelayCycles' <= RECHECK_DELAY
    BY <1>1, <1>2, RestartTypes DEF SlacIsDue, DelayOver
  <1> QED
    BY <1>2, <1>3, <1>4, <1>5 DEF Restarting

\* Every frame that the receive task evaluates.
LEMMA ReceiveKeepsRestart ==
    ASSUME PromptWorld, RestartIsCovered, RestartInv, Receive
    PROVE  AnsweredInTime' /\ LinkStays' /\ Restarting'
  <1> USE DEF RestartInv, DelayInv
  <1>1. UNCHANGED <<task, connMgr_ConnectionLevel, inTransmit, isEthLinkUp>> /\ ~inTransmit
    BY ReceiveMovesSlac
    DEF PromptWorld, Receive, evaluateGetSwCnf, SlacReceive, ReceiveSdp, evaluateSlacParamCnf,
        evaluateAttenCharInd, evaluateSlacMatchCnf, evaluateSetKeyCnf, evaluateGetKeyCnf,
        connMgrVars
  <1>2. LinkStays' /\ Ahead' = Ahead
    BY <1>1 DEF LinkStays, Ahead
  <1>3. CASE evaluateSlacMatchCnf
    BY <1>1, <1>2, <1>3, KeyIsSet
  <1>4. CASE evaluateSetKeyCnf
    <2>1. /\ "SetKeyCnf" \in replies /\ replies' = replies \ {"SetKeyCnf"}
          /\ connMgr_timer' = SlacOk(connMgr_timer)
          /\ UNCHANGED <<slacVars, joined, restart>>
      BY <1>4 DEF evaluateSetKeyCnf
    <2>2. connMgr_timer'["Slac"] = TIMER_MAX_15s
      BY <2>1, SlacTimer, RestartTypes
    <2>3. BothAnswer' <=> BothAnswer
      BY <2>1 DEF BothAnswer, slacVars, slacCounters
    <2>4. AnsweredInTime'
      BY <1>1, <2>1 DEF AnsweredInTime, SlacIsDue, DelayOver, slacVars
    <2>5. Restarting'
      BY <1>1, <1>2, <2>1, <2>2, <2>3 DEF Restarting, Enough, slacVars
    <2> QED
      BY <1>2, <2>4, <2>5
  <1>5. ASSUME NEW reply \in replies, evaluateGetKeyCnf(reply)
        PROVE  AnsweredInTime' /\ Restarting'
    <2>1. /\ reply \in {"GetKeyLocal", "GetKeyCharger"} /\ replies' = replies \ {reply}
          /\ numberOfFoundModems' = numberOfFoundModems + 1
          /\ UNCHANGED <<pevSequenceState, pevSequenceCyclesInState, pevSequenceDelayCycles,
                         joined, restart, connMgr_timer>>
      BY <1>5 DEF evaluateGetKeyCnf, connMgrVars
    <2>2. AnsweredInTime'
      BY <1>1, <2>1 DEF AnsweredInTime, SlacIsDue, DelayOver
    <2>3. BothAnswer' <=> BothAnswer
      BY <2>1, <1>5, RestartTypes DEF BothAnswer
    <2>4. "SetKeyCnf" \in replies' <=> "SetKeyCnf" \in replies
      BY <2>1
    <2>5. Restarting'
      BY <1>1, <1>2, <2>1, <2>3, <2>4 DEF Restarting, Enough
    <2> QED
      BY <2>2, <2>5
  <1>6. CASE \/ \E reply \in replies : evaluateGetSwCnf(reply) /\ UNCHANGED slacVars
             \/ evaluateSlacParamCnf \/ evaluateAttenCharInd \/ ReceiveSdp
    <2>1. /\ replies' \cap KeyReplies = replies \cap KeyReplies
          /\ UNCHANGED <<numberOfFoundModems, joined, restart>>
          /\ connMgr_timer' \in {connMgr_timer, SdpOk(connMgr_timer)}
          /\ \/ UNCHANGED <<pevSequenceState, pevSequenceDelayCycles,
                            pevSequenceCyclesInState>>
             \/ /\ pevSequenceState
                     \in {"WAITING_FOR_SLAC_PARAM_CNF", "WAIT_FOR_ATTEN_CHAR_IND"}
                /\ pevSequenceState' \in {"SLAC_PARAM_CNF_RECEIVED", "ATTEN_CHAR_IND_RECEIVED"}
      BY <1>6 DEF evaluateGetSwCnf, evaluateSlacParamCnf, evaluateAttenCharInd, ReceiveSdp,
                  slacVars, slacCounters, connMgrVars, slac_enterState, KeyReplies
    <2>2. \A r \in KeyReplies : r \in replies' <=> r \in replies
      BY <2>1
    <2>3. AnsweredInTime'
      BY <1>1, <2>1, <2>2 DEF AnsweredInTime, SlacIsDue, DelayOver, KeyReplies
    <2>4. connMgr_timer'["Slac"] = connMgr_timer["Slac"]
      BY <2>1, SlacTimer, RestartTypes
    <2>5. Restarting'
      <3>1. CASE UNCHANGED <<pevSequenceState, pevSequenceDelayCycles, pevSequenceCyclesInState>>
        BY <1>1, <1>2, <2>1, <2>4, <3>1, RestartingKept
      <3>2. CASE pevSequenceState' \in {"SLAC_PARAM_CNF_RECEIVED", "ATTEN_CHAR_IND_RECEIVED"}
        BY <3>2 DEF Restarting
      <3> QED
        BY <2>1, <3>1, <3>2
    <2> QED
      BY <1>2, <2>3, <2>5
  <1> QED
    BY <1>2, <1>3, <1>4, <1>5, <1>6 DEF Receive, SlacReceive

\* Every step.
LEMMA RestartInvStep ==
    ASSUME PromptWorld, RestartIsCovered, RestartInv, [Next]_vars
    PROVE  RestartInv'
  <1>1. DelayInv'
    BY DelayInvStep DEF RestartInv
  <1> QED
    BY <1>1, CycleKeeps, FinderKeepsRestart, SlacKeepsRestart, OthersKeepRestart,
       ReceiveKeepsRestart
    DEF Next, task30ms, RestartInv

\* While the modems restart, and until SLAC has seen them or has given up on
\* them, the connection manager keeps the level that lets SLAC go on: the one
\* report of 15 s outlasts the restart and the recheck that misses the end of
\* it, in a world of modems that answer in time and restart within the 13.3 s
\* that RestartIsCovered allows (homeplug.ino:685-730, connMgr.ino:99-104).
THEOREM RestartIsOutlived ==
    ASSUME PromptWorld, RestartIsCovered
    PROVE  Spec => SlacSeesThePairing
  <1>1. Init => RestartInv
    <2> SUFFICES ASSUME Init PROVE RestartInv
      OBVIOUS
    <2>1. TypeInv
      BY TypeInvInit
    <2>2. AnsweredInTime /\ LinkStays /\ Restarting
      BY DEF Init, ModemsInit, SlacInit, ConnMgrInit, AnsweredInTime, LinkStays, Restarting
    <2>3. SlacIdleUnlessDue /\ SdpOwnsDelay
      BY DEF Init, SlacIdleUnlessDue, SdpOwnsDelay, SdpInit
    <2> QED
      BY <2>1, <2>2, <2>3 DEF RestartInv, DelayInv
  <1>2. RestartInv /\ [Next]_vars => RestartInv'
    BY RestartInvStep
  <1>3. RestartInv /\ [Next]_vars =>
          [(pevSequenceState \in {"WAITING_FOR_RESTART2", "FIND_MODEMS2"})
             => connMgr_ConnectionLevel' >= 10]_vars
    <2> SUFFICES ASSUME RestartInv, [Next]_vars,
                        pevSequenceState \in {"WAITING_FOR_RESTART2", "FIND_MODEMS2"}
                 PROVE  connMgr_ConnectionLevel' >= 10
      OBVIOUS
    <2>1. CASE CallConnMgr
      BY <2>1, CycleKeeps
    <2>2. CASE ~CallConnMgr
      <3>1. UNCHANGED connMgr_ConnectionLevel
        BY <2>2, ReceiveMovesSlac, SdpLeavesCounts, OthersLeaveSlac
        DEF Next, task30ms, CallModemFinder, modemFinder_Mainfunction, CallSlac,
            runSlacSequencer
      <3> QED
        BY <3>1 DEF RestartInv, Restarting
    <2> QED
      BY <2>1, <2>2
  <1> QED
    BY <1>1, <1>2, <1>3, PTL DEF Spec, SlacSeesThePairing

-----------------------------------------------------------------------------
(* The tries of the SDP client.                                            *)

\* 50 tries of half a second are more than 10 s.
TriesOutlastTheModems == SDP_RETRIES * (SDP_DELAY + 1) >= TIMER_MAX_10s

Remote == connMgr_timer["ModemRemote"]

\* Between the call of the connection manager and that of SDP, the level is
\* that of the timer.
BeforeSdp == task \in {"finder", "slac", "sdp"}

\* The charger's modem is forgotten before it is searched, and found by
\* nobody but SLAC while SDP does not run.
RemoteKnown ==
    /\ Remote <= TIMER_MAX_10s
    /\ BeforeSdp /\ connMgr_ConnectionLevel = 20 => Remote > 0
    /\ task = "finder" /\ connMgr_ConnectionLevel = 5 => Remote = 0
    /\ mofi_state = 1 => Remote = 0

\* A search begins only in the cycle in which SDP is about to stop.
SearchEndsSdp ==
    sdp_state = 1 /\ mofi_state = 1 =>
        task \in {"slac", "sdp"} /\ connMgr_ConnectionLevel = 5

\* The cycles since SDP began.
SdpCycles ==
    (SDP_RETRIES - SdpRepetitionCounter) * (SDP_DELAY + 1) - pevSequenceDelayCycles

\* What SDP has used and what is left of the timer are not more than the whole.
SdpTime ==
    sdp_state = 1 =>
        IF BeforeSdp
        THEN connMgr_ConnectionLevel = 20 => Remote + SdpCycles + 1 <= TIMER_MAX_10s
        ELSE Remote + SdpCycles <= TIMER_MAX_10s

SdpInv == CountInv /\ RemoteKnown /\ SearchEndsSdp /\ SdpTime

\* The timer of the charger's modem is loaded by a report of two modems,
\* counted down, and left alone by all others.
LEMMA RemoteTimer ==
    ASSUME NEW timer \in Timers
    PROVE  /\ timer["ModemRemote"] \in Nat /\ TIMER_MAX_10s \in Nat /\ TIMER_MAX_10s > 0
           /\ SlacOk(timer)["ModemRemote"] = timer["ModemRemote"]
           /\ SdpOk(timer)["ModemRemote"] = timer["ModemRemote"]
           /\ TcpOk(timer)["ModemRemote"] = timer["ModemRemote"]
           /\ \A n : ModemFinderOk(timer, n)["ModemRemote"]
                       \in {timer["ModemRemote"], TIMER_MAX_10s}
           /\ LET counted == CountDown(timer)
              IN  /\ counted["ModemRemote"] =
                       IF timer["ModemRemote"] > 0 THEN timer["ModemRemote"] - 1 ELSE 0
                  /\ Reload(counted, {"EthLink"}, TIMER_MAX)["ModemRemote"]
                       = counted["ModemRemote"]
                  /\ LevelOfTimers(counted) = 20 => counted["ModemRemote"] > 0
                  /\ LevelOfTimers(counted) = 5 => ~(counted["ModemRemote"] > 0)
  <1>1. "ModemRemote" \in Layers /\ TIMER_MAX_10s \in Nat /\ TIMER_MAX_10s > 0
    BY PairingAssumption, TimerAssumption DEF AllLayers
  <1>2. /\ timer["ModemRemote"] \in Nat
        /\ SlacOk(timer)["ModemRemote"] = timer["ModemRemote"]
        /\ SdpOk(timer)["ModemRemote"] = timer["ModemRemote"]
        /\ TcpOk(timer)["ModemRemote"] = timer["ModemRemote"]
    BY <1>1, TimerAssumption DEF Timers, SlacOk, SdpOk, TcpOk, Reload
  <1>3. ASSUME NEW n
        PROVE  ModemFinderOk(timer, n)["ModemRemote"] \in {timer["ModemRemote"], TIMER_MAX_10s}
    BY <1>1 DEF ModemFinderOk, Reload
  <1> DEFINE counted == CountDown(timer)
  <1>4. /\ counted["ModemRemote"] =
             IF timer["ModemRemote"] > 0 THEN timer["ModemRemote"] - 1 ELSE 0
        /\ Reload(counted, {"EthLink"}, TIMER_MAX)["ModemRemote"] = counted["ModemRemote"]
    BY <1>1 DEF CountDown, Reload
  <1>5. /\ LevelOfTimers(counted) = 20 => counted["ModemRemote"] > 0
        /\ LevelOfTimers(counted) = 5 => ~(counted["ModemRemote"] > 0)
    BY <1>1 DEF LevelOfTimers, Running
  <1> QED
    BY <1>1, <1>2, <1>3, <1>4, <1>5

\* What a step does to the timer of the charger's modem.
LEMMA RemoteMoves ==
    ASSUME TypeInv, [Next]_vars
    PROVE  \/ UNCHANGED Remote /\ ~CallConnMgr
           \/ /\ CallConnMgr
              /\ Remote' = IF Remote > 0 THEN Remote - 1 ELSE 0
              /\ connMgr_ConnectionLevel' = 20 => Remote' > 0
              /\ connMgr_ConnectionLevel' = 5 => Remote' = 0
           \/ /\ CallModemFinder /\ mofi_state = 1 /\ mofi_state' = 2 /\ UNCHANGED inTransmit
              /\ Remote' = TIMER_MAX_10s
           \/ /\ CallSlac /\ SlacIsDue /\ pevSequenceState = "FIND_MODEMS2"
              /\ Remote' = TIMER_MAX_10s
  <1>t. connMgr_timer \in Timers
    BY DEF TypeInv, TypeOK, ConnMgrTypeOK, Timers
  <1>1. CASE CallConnMgr
    BY <1>1, <1>t, RemoteTimer DEF CallConnMgr, connMgr_Mainfunction, Remote
  <1>2. CASE CallModemFinder
    <2>1. CASE EvaluateSearch
      BY <1>2, <1>t, <2>1, RemoteTimer DEF EvaluateSearch, Remote, modemVars, CallConnMgr,
                                           CallModemFinder
    <2>2. CASE StartSearch \/ MofiWait \/ EndSearch \/ MofiIdle
      BY <1>2, <2>2 DEF StartSearch, MofiWait, EndSearch, MofiIdle, Remote, CallConnMgr,
                        CallModemFinder
    <2> QED
      BY <1>2, <2>1, <2>2 DEF CallModemFinder, modemFinder_Mainfunction
  <1>3. CASE CallSlac
    <2>1. CASE SlacIsDue /\ FindModems2
      <3>1. connMgr_timer' \in {connMgr_timer, ModemFinderOk(connMgr_timer, 2)}
        BY <2>1 DEF FindModems2
      <3>2. Remote' \in {Remote, TIMER_MAX_10s}
        BY <1>t, <3>1, RemoteTimer DEF Remote
      <3> QED
        BY <1>3, <2>1, <3>2 DEF FindModems2, CallConnMgr, CallSlac
    <2>2. CASE \/ SlacNotDue \/ SlacInitial \/ SlacReady \/ WaitForSlacParamCnf
               \/ SlacParamCnfReceived \/ BeforeStartAttenChar \/ Sounding
               \/ WaitForAttenCharInd \/ AttenCharIndReceived \/ DelayBeforeMatch
               \/ WaitForSlacMatchCnf \/ WaitForRestart2
      <3>1. UNCHANGED connMgr_timer
        BY <2>2 DEF SlacNotDue, SlacInitial, SlacReady, WaitForSlacParamCnf,
               SlacParamCnfReceived, BeforeStartAttenChar, CountDelay, Sounding,
               WaitForAttenCharInd, AttenCharIndReceived, DelayBeforeMatch, TransmitThen,
               WaitForSlacMatchCnf, WaitForRestart2
      <3> QED
        BY <1>3, <3>1 DEF Remote, CallConnMgr, CallSlac
    <2> QED
      BY <1>3, <2>1, <2>2 DEF CallSlac, runSlacSequencer
  <1>4. CASE /\ Receive \/ CallSdp \/ CallUpper \/ UpperReport \/ LinkEvent \/ ChargerEvent
                \/ UNCHANGED vars
             /\ ~CallConnMgr
    <2>1. connMgr_timer' \in {connMgr_timer, SlacOk(connMgr_timer), SdpOk(connMgr_timer),
                              TcpOk(connMgr_timer)}
      BY <1>4
      DEF Receive, evaluateGetSwCnf, SlacReceive, ReceiveSdp, evaluateSlacParamCnf,
          evaluateAttenCharInd, evaluateSlacMatchCnf, evaluateSetKeyCnf, evaluateGetKeyCnf,
          CallSdp, runSdpStateMachine, CallUpper, UpperReport, LinkEvent, EthLinkEvent,
          ChargerEvent, vars, connMgrVars
    <2> QED
      BY <1>4, <1>t, <2>1, RemoteTimer DEF Remote
  <1> QED
    BY <1>1, <1>2, <1>3, <1>4 DEF Next, task30ms

\* The types that the steps below need.
LEMMA SdpTypes ==
    ASSUME TypeInv
    PROVE  /\ Remote \in Nat /\ TIMER_MAX_10s \in Nat /\ TIMER_MAX_10s > 0
           /\ SDP_RETRIES \in Nat /\ SDP_DELAY \in Nat
           /\ SdpRepetitionCounter \in 0 .. SDP_RETRIES /\ pevSequenceDelayCycles \in Nat
           /\ sdp_state \in {0, 1} /\ SdpCycles \in Int
  <1>1. connMgr_timer \in Timers
    BY DEF TypeInv, TypeOK, ConnMgrTypeOK, Timers
  <1>2. /\ SDP_RETRIES \in Nat /\ SDP_DELAY \in Nat
        /\ SdpRepetitionCounter \in 0 .. SDP_RETRIES /\ pevSequenceDelayCycles \in Nat
        /\ sdp_state \in {0, 1}
    BY SdpAssumption DEF TypeInv, TypeOK, SdpTypeOK, SlacTypeOK
  <1> QED
    BY <1>1, <1>2, RemoteTimer DEF Remote, SdpCycles

\* Of the steps, only calls end a phase of the cycle, and only SDP's own
\* moves its state.
LEMMA SdpIsMoved ==
    ASSUME TypeInv, SdpOwnsDelay, [Next]_vars
    PROVE  /\ CallSdp \/ UNCHANGED sdpVars
           /\ CallModemFinder \/ UNCHANGED mofi_state
           /\ CallConnMgr \/ UNCHANGED connMgr_ConnectionLevel
           /\ sdp_state = 1 => CallSdp \/ UNCHANGED pevSequenceDelayCycles
           /\ \/ UNCHANGED task
              \/ CallConnMgr /\ task' = "finder" /\ ~BeforeSdp
              \/ CallModemFinder /\ task = "finder" /\ task' = "slac"
              \/ CallSlac /\ task = "slac" /\ task' = "sdp"
              \/ CallSdp /\ task = "sdp" /\ task' = "upper"
              \/ CallUpper /\ task = "upper" /\ task' = "connMgr"
  <1>1. CASE CallModemFinder
    BY <1>1 DEF CallModemFinder, modemFinder_Mainfunction, slacVars
  <1>2. CASE CallSlac
    <2>1. sdp_state = 1 => pevSequenceState = "INITIAL"
      BY <1>2 DEF SdpOwnsDelay, CallSlac
    <2> QED
      BY <1>2, <2>1, SlacFromInitial DEF CallSlac, runSlacSequencer, mofiVars
  <1>3. CASE CallSdp
    BY <1>3 DEF CallSdp, runSdpStateMachine, mofiVars, connMgrVars
  <1>4. CASE Receive
    <2>1. UNCHANGED sdpVars
      BY <1>4 DEF Receive, ReceiveSdp
    <2> QED
      BY <1>4, <2>1, ReceiveMovesSlac DEF SdpOwnsDelay
  <1>5. CASE CallConnMgr \/ CallUpper \/ UpperReport \/ LinkEvent \/ ChargerEvent
             \/ UNCHANGED vars
    <2>1. UNCHANGED sdpVars
      BY <1>5 DEF CallConnMgr, CallUpper, UpperReport, LinkEvent, ChargerEvent, vars
    <2>2. \/ UNCHANGED task
          \/ CallConnMgr /\ task' = "finder" /\ task = "connMgr"
          \/ CallUpper /\ task = "upper" /\ task' = "connMgr"
      BY <1>5 DEF CallConnMgr, CallUpper, UpperReport, LinkEvent, ChargerEvent, vars
    <2> QED
      BY <1>5, <2>1, <2>2, OthersLeaveSlac DEF mofiVars, BeforeSdp
  <1> QED
    BY <1>1, <1>2, <1>3, <1>4, <1>5 DEF Next, task30ms

\* A search begins at level 5 only, and a search that goes on was begun before.
LEMMA SearchBegins ==
    ASSUME CallModemFinder, mofi_state' = 1
    PROVE  \/ mofi_state = 1
           \/ connMgr_ConnectionLevel = 5 /\ task' = "slac"
  BY DEF CallModemFinder, modemFinder_Mainfunction, StartSearch, MofiWait, EvaluateSearch,
         EndSearch, MofiIdle, mofiVars

\* Every step keeps the timer of the charger's modem in step with searches.
LEMMA RemoteKnownStep ==
    ASSUME SdpInv, [Next]_vars PROVE RemoteKnown'
  <1> USE DEF SdpInv, CountInv, DelayInv
  <1>1. CASE UNCHANGED Remote /\ ~CallConnMgr
    <2>1. BeforeSdp' => BeforeSdp
      BY <1>1, SdpIsMoved DEF BeforeSdp
    <2>2. task' = "finder" => task = "finder"
      BY <1>1, SdpIsMoved
    <2>3. mofi_state' = 1 => Remote = 0
      BY <1>1, SdpIsMoved, SearchBegins DEF RemoteKnown, CallModemFinder
    <2> QED
      BY <1>1, <2>1, <2>2, <2>3, SdpIsMoved DEF RemoteKnown
  <1>2. CASE /\ CallConnMgr
             /\ Remote' = IF Remote > 0 THEN Remote - 1 ELSE 0
             /\ connMgr_ConnectionLevel' = 20 => Remote' > 0
             /\ connMgr_ConnectionLevel' = 5 => Remote' = 0
    <2>1. UNCHANGED mofi_state
      BY <1>2 DEF CallConnMgr, mofiVars
    <2> QED
      BY <1>2, <2>1, SdpTypes DEF RemoteKnown
  <1>3. CASE /\ CallModemFinder /\ mofi_state = 1 /\ mofi_state' = 2 /\ UNCHANGED inTransmit
             /\ Remote' = TIMER_MAX_10s
    <2>1. task' = "slac"
      BY <1>3 DEF CallModemFinder, TypeInv, TransmitHolds
    <2> QED
      BY <1>3, <2>1, SdpTypes DEF RemoteKnown
  <1>4. CASE /\ CallSlac /\ SlacIsDue /\ pevSequenceState = "FIND_MODEMS2"
             /\ Remote' = TIMER_MAX_10s
    <2>1. mofi_state # 1
      BY <1>4 DEF SearchBeforeMatch, SlacWillStop, BeforeMatch
    <2>2. task' # "finder" /\ UNCHANGED mofi_state
      BY <1>4 DEF CallSlac, mofiVars
    <2> QED
      BY <1>4, <2>1, <2>2, SdpTypes DEF RemoteKnown
  <1> QED
    BY <1>1, <1>2, <1>3, <1>4, RemoteMoves

\* A try lasts one cycle more than its delay.
LEMMA OneTryMore ==
    ASSUME NEW n \in Nat, NEW d \in Nat, NEW left \in Nat
    PROVE  (n - (left - 1)) * (d + 1) - d = ((n - left) * (d + 1) - 0) + 1
  OBVIOUS

\* What a call of SDP does at its level: it begins, waits, or asks.
LEMMA SdpCall ==
    ASSUME TypeInv, CallSdp, sdp_state' = 1
    PROVE  /\ connMgr_ConnectionLevel = 20
           /\ SdpCycles' = IF sdp_state = 0 THEN 0 ELSE SdpCycles + 1
  <1>1. /\ connMgr_ConnectionLevel = 20
        /\ SdpStart \/ SdpWait \/ (SdpRequest /\ SdpRepetitionCounter > 0)
    BY DEF CallSdp, runSdpStateMachine, SdpNotDue, SdpStart, SdpWait, SdpRequest
  <1>2. CASE SdpStart
    BY <1>2, SdpTypes DEF SdpStart, SdpCycles
  <1>3. CASE SdpWait
    BY <1>3, SdpTypes DEF SdpWait, SdpCycles, sdpVars
  <1>4. CASE SdpRequest /\ SdpRepetitionCounter > 0
    <2>1. /\ SdpRepetitionCounter' = SdpRepetitionCounter - 1
          /\ pevSequenceDelayCycles = 0 /\ pevSequenceDelayCycles' = SDP_DELAY
          /\ sdp_state = 1
      BY <1>4 DEF SdpRequest
    <2>2. /\ SdpCycles' = (SDP_RETRIES - (SdpRepetitionCounter - 1)) * (SDP_DELAY + 1) - SDP_DELAY
          /\ SdpCycles = (SDP_RETRIES - SdpRepetitionCounter) * (SDP_DELAY + 1) - 0
      BY <2>1 DEF SdpCycles
    <2>3. SdpCycles' = SdpCycles + 1
      BY <2>2, SdpTypes, OneTryMore
    <2> QED
      BY <1>1, <2>1, <2>3
  <1> QED
    BY <1>1, <1>2, <1>3, <1>4

\* Every step keeps SDP within its time.
LEMMA SdpTimeStep ==
    ASSUME SdpInv, [Next]_vars PROVE SearchEndsSdp' /\ SdpTime'
  <1> USE DEF SdpInv, CountInv, DelayInv
  <1>t. /\ CallConnMgr => task = "connMgr"
        /\ CallModemFinder => task = "finder"
        /\ CallSlac => task = "slac"
    BY DEF CallConnMgr, CallModemFinder, CallSlac
  <1>1. CASE CallSdp
    <2>1. /\ task = "sdp" /\ task' = "upper"
          /\ UNCHANGED <<mofi_state, Remote, connMgr_ConnectionLevel>>
      BY <1>1 DEF CallSdp, runSdpStateMachine, mofiVars, connMgrVars, Remote
    <2>2. ASSUME sdp_state' = 1
          PROVE  mofi_state' # 1 /\ Remote + SdpCycles' <= TIMER_MAX_10s
      <3>1. /\ connMgr_ConnectionLevel = 20
            /\ SdpCycles' = IF sdp_state = 0 THEN 0 ELSE SdpCycles + 1
        BY <1>1, <2>2, SdpCall
      <3>2. mofi_state # 1
        BY <2>1, <3>1, SdpTypes DEF RemoteKnown, BeforeSdp
      <3> QED
        BY <2>1, <3>1, <3>2, SdpTypes DEF RemoteKnown, SdpTime, BeforeSdp
    <2> QED
      BY <2>1, <2>2 DEF SearchEndsSdp, SdpTime, BeforeSdp
  <1>2. CASE ~CallSdp /\ sdp_state # 1
    BY <1>2, SdpIsMoved DEF SearchEndsSdp, SdpTime, sdpVars
  <1>3. CASE ~CallSdp /\ sdp_state = 1
    <2>1. UNCHANGED <<sdpVars, pevSequenceDelayCycles, SdpCycles>>
      BY <1>3, SdpIsMoved DEF sdpVars, SdpCycles
    <2>2. SearchEndsSdp'
      <3>1. CASE CallModemFinder
        BY <1>t, <1>3, <2>1, <3>1, SearchBegins, SdpIsMoved DEF SearchEndsSdp, sdpVars
      <3>2. CASE ~CallModemFinder
        BY <1>t, <1>3, <2>1, <3>2, SdpIsMoved DEF SearchEndsSdp, sdpVars
      <3> QED
        BY <3>1, <3>2
    <2>3. CASE CallConnMgr
      BY <1>3, <2>1, <2>2, <2>3, RemoteMoves, SdpTypes, SdpIsMoved
      DEF SdpTime, BeforeSdp, CallConnMgr, CallModemFinder, CallSlac
    <2>4. CASE ~CallConnMgr
      <3>1. UNCHANGED Remote
        BY <1>t, <1>3, <2>4, RemoteMoves DEF SearchEndsSdp, SdpOwnsDelay
      <3>2. (BeforeSdp' <=> BeforeSdp) /\ UNCHANGED connMgr_ConnectionLevel
        BY <1>3, <2>4, SdpIsMoved DEF BeforeSdp
      <3> QED
        BY <1>3, <2>1, <2>2, <3>1, <3>2 DEF SdpTime
    <2> QED
      BY <2>3, <2>4
  <1> QED
    BY <1>1, <1>2, <1>3, SdpTypes

\* SDP asks for the charger's address as long as it is its turn: "Giving up"
\* never happens, because the modems are forgotten before the tries are used
\* up, whatever is lost and however often link and modems come and go.  It
\* takes that nobody finds the modems again while SDP asks: the modem finder
\* searches at level 5 only, and SLAC counts before SDP begins
\* (homeplug.ino:737-779, connMgr.ino:90-97).
THEOREM SdpNeverGivesUp ==
    ASSUME TriesOutlastTheModems
    PROVE  Spec => SdpAsksToTheEnd
  <1>1. Init => SdpInv
    <2> SUFFICES ASSUME Init PROVE SdpInv
      OBVIOUS
    <2>1. CountInv
      BY CountInvInit
    <2>2. RemoteKnown
      <3>1. Remote = 0
        BY PairingAssumption DEF Init, ConnMgrInit, Remote, AllLayers
      <3> QED
        BY <2>1, <3>1, SdpTypes
        DEF Init, ConnMgrInit, MofiInit, RemoteKnown, CountInv, DelayInv
    <2>3. SearchEndsSdp /\ SdpTime
      BY DEF Init, SdpInit, SearchEndsSdp, SdpTime
    <2> QED
      BY <2>1, <2>2, <2>3 DEF SdpInv
  <1>2. SdpInv /\ [Next]_vars => SdpInv'
    BY CountInvStep, RemoteKnownStep, SdpTimeStep DEF SdpInv
  <1>3. SdpInv /\ [Next]_vars =>
          [sdp_state = 1 /\ sdp_state' = 0 => connMgr_ConnectionLevel # 20]_vars
    <2> SUFFICES ASSUME SdpInv, [Next]_vars, sdp_state = 1, sdp_state' = 0,
                        connMgr_ConnectionLevel = 20
                 PROVE  FALSE
      OBVIOUS
    <2>1. TypeInv /\ SdpOwnsDelay
      BY DEF SdpInv, CountInv, DelayInv
    <2>2. CallSdp /\ task = "sdp"
      BY <2>1, SdpIsMoved DEF sdpVars, CallSdp
    <2>3. SdpRepetitionCounter = 0 /\ pevSequenceDelayCycles = 0
      BY <2>1, <2>2, SdpTypes
      DEF CallSdp, runSdpStateMachine, SdpNotDue, SdpStart, SdpWait, SdpRequest, sdpVars
    <2>4. SdpCycles = SDP_RETRIES * (SDP_DELAY + 1)
      BY <2>1, <2>3, SdpTypes DEF SdpCycles
    <2>5. Remote > 0 /\ Remote + SdpCycles + 1 <= TIMER_MAX_10s
      BY <2>2 DEF SdpInv, RemoteKnown, SdpTime, BeforeSdp
    <2> QED
      BY <2>1, <2>4, <2>5, SdpTypes DEF TriesOutlastTheModems
  <1> QED
    BY <1>1, <1>2, <1>3, PTL DEF Spec, SdpAsksToTheEnd

-----------------------------------------------------------------------------
(* SLAC waits no longer than its level lasts.                              *)

\* The timers that keep the level at SLAC's, and a search that may reload one
\* of them, run down before a wait is too long: 15 s, and half a second and
\* 5 s, against the 500 cycles of 30 ms.
WaitsAreLonger == TIMER_MAX_15s <= TOO_LONG /\ TIMER_MAX + MOFI_DELAY < TOO_LONG

\* The charger's key and the local modem's confirmation come within a cycle.
KeyIsPrompt == LateReplies \cap {"SlacMatchCnf", "SetKeyCnf"} = {}

SlacLayers == {"ModemLocal", "Slac"}
SlacWaits  == {"WAIT_FOR_ATTEN_CHAR_IND", "WAITING_FOR_SLAC_MATCH_CNF"}

\* The confirmation that loads SLAC's timer comes before the wait has begun
\* to count, or after it.
KeyInTime ==
    {"SlacMatchCnf", "SetKeyCnf"} \cap replies # {} =>
        \/ task = "slac" /\ inTransmit /\ pevSequenceState = "DELAY_BEFORE_MATCH"
        \/ /\ task \notin {"finder", "slac"}
           /\ \/ pevSequenceState = "WAITING_FOR_SLAC_MATCH_CNF" /\ pevSequenceCyclesInState = 0
              \/ pevSequenceState = "WAITING_FOR_RESTART2"

\* SLAC's level is that of one of its timers.
LevelKnown ==
    task \in {"finder", "slac"} /\ SlacIsDue => \E l \in SlacLayers : connMgr_timer[l] > 0

\* What has been waited and what is left of a timer is not too long, and a
\* search that goes on ends early enough to load its timer.
WaitTime ==
    pevSequenceState \in SlacWaits /\ ~SlacWillStop =>
        /\ \A l \in SlacLayers : connMgr_timer[l] > 0 =>
              connMgr_timer[l] + pevSequenceCyclesInState + Ahead <= TOO_LONG
        /\ mofi_state = 1 =>
              pevSequenceCyclesInState + mofi_stateDelay + (IF task = "slac" THEN 1 ELSE 0)
                <= MOFI_DELAY

WaitInv == TypeInv /\ KeyInTime /\ LevelKnown /\ WaitTime

\* The reports and the count-down, for the timers of SLAC's level.
LEMMA LowTimers ==
    ASSUME NEW timer \in Timers
    PROVE  /\ SlacLayers \subseteq Layers
           /\ \A l \in SlacLayers : timer[l] \in 0 .. TIMER_MAX_15s
           /\ SlacOk(timer)["Slac"] = TIMER_MAX_15s
           /\ SlacOk(timer)["ModemLocal"] = timer["ModemLocal"]
           /\ \A l \in SlacLayers : SdpOk(timer)[l] = timer[l] /\ TcpOk(timer)[l] = timer[l]
           /\ \A n : \A l \in SlacLayers : ModemFinderOk(timer, n)[l] \in {timer[l], TIMER_MAX}
           /\ LET counted == CountDown(timer)
              IN  /\ \A l \in SlacLayers :
                        /\ counted[l] = IF timer[l] > 0 THEN timer[l] - 1 ELSE 0
                        /\ Reload(counted, {"EthLink"}, TIMER_MAX)[l] = counted[l]
                  /\ LevelOfTimers(counted) \in {10, 15} => \E l \in SlacLayers : counted[l] > 0
  <1>1. SlacLayers \subseteq Layers /\ "Slac" \in Layers /\ "ModemLocal" \in Layers
    BY PairingAssumption DEF AllLayers, SlacLayers
  <1>2. /\ \A l \in SlacLayers : timer[l] \in 0 .. TIMER_MAX_15s
        /\ SlacOk(timer)["Slac"] = TIMER_MAX_15s
        /\ SlacOk(timer)["ModemLocal"] = timer["ModemLocal"]
        /\ \A l \in SlacLayers : SdpOk(timer)[l] = timer[l] /\ TcpOk(timer)[l] = timer[l]
    BY <1>1 DEF Timers, SlacOk, SdpOk, TcpOk, Reload, SlacLayers
  <1>3. ASSUME NEW n, NEW l \in SlacLayers
        PROVE  ModemFinderOk(timer, n)[l] \in {timer[l], TIMER_MAX}
    BY <1>1 DEF ModemFinderOk, Reload, SlacLayers
  <1> DEFINE counted == CountDown(timer)
  <1>4. ASSUME NEW l \in SlacLayers
        PROVE  /\ counted[l] = IF timer[l] > 0 THEN timer[l] - 1 ELSE 0
               /\ Reload(counted, {"EthLink"}, TIMER_MAX)[l] = counted[l]
    BY <1>1, <1>4 DEF CountDown, Reload, SlacLayers
  <1>5. LevelOfTimers(counted) \in {10, 15} => \E l \in SlacLayers : counted[l] > 0
    BY <1>1 DEF LevelOfTimers, Running, SlacLayers
  <1> QED
    BY <1>1, <1>2, <1>3, <1>4, <1>5

\* The types that the steps below need.
LEMMA WaitTypes ==
    ASSUME TypeInv
    PROVE  /\ connMgr_timer \in Timers /\ connMgr_ConnectionLevel \in Levels
           /\ \A l \in SlacLayers : connMgr_timer[l] \in 0 .. TIMER_MAX_15s
           /\ TIMER_MAX \in Nat /\ TIMER_MAX > 0 /\ TIMER_MAX_15s \in Nat /\ TIMER_MAX_15s > 0
           /\ TOO_LONG \in Nat /\ MOFI_DELAY \in Nat /\ MISSING_MAX \in Nat \ {0}
           /\ pevSequenceCyclesInState \in Nat /\ mofi_stateDelay \in 0 .. MOFI_DELAY
           /\ inTransmit \in BOOLEAN
  <1>1. connMgr_timer \in Timers
    BY DEF TypeInv, TypeOK, ConnMgrTypeOK, Timers
  <1> QED
    BY <1>1, LowTimers, TimerAssumption, MofiAssumption, SlacAssumption
    DEF TypeInv, TypeOK, ConnMgrTypeOK, MofiTypeOK, SlacTypeOK, ModemsTypeOK

\* What a step does to the timers of SLAC's level.
LEMMA LowTimersMove ==
    ASSUME TypeInv, [Next]_vars
    PROVE  \/ /\ CallConnMgr
              /\ \A l \in SlacLayers :
                    connMgr_timer'[l] = IF connMgr_timer[l] > 0 THEN connMgr_timer[l] - 1 ELSE 0
              /\ SlacIsDue' => \E l \in SlacLayers : connMgr_timer'[l] > 0
           \/ /\ ~CallConnMgr
              /\ \A l \in SlacLayers : connMgr_timer'[l] = connMgr_timer[l]
           \/ /\ CallModemFinder /\ EvaluateSearch
              /\ \A l \in SlacLayers : connMgr_timer'[l] \in {connMgr_timer[l], TIMER_MAX}
           \/ CallSlac /\ SlacIsDue /\ FindModems2
           \/ /\ Receive /\ evaluateSetKeyCnf
              /\ connMgr_timer'["Slac"] = TIMER_MAX_15s
              /\ connMgr_timer'["ModemLocal"] = connMgr_timer["ModemLocal"]
  <1>t. connMgr_timer \in Timers
    BY WaitTypes
  <1>1. CASE CallConnMgr
    <2> DEFINE counted == CountDown(connMgr_timer)
    <2>1. /\ connMgr_ConnectionLevel' = IF isEthLinkUp THEN LevelOfTimers(counted) ELSE 0
          /\ connMgr_timer' \in {counted, Reload(counted, {"EthLink"}, TIMER_MAX)}
      BY <1>1 DEF CallConnMgr, connMgr_Mainfunction
    <2>2. \A l \in SlacLayers : connMgr_timer'[l] = counted[l]
      BY <1>t, <2>1, LowTimers
    <2>3. SlacIsDue' => LevelOfTimers(counted) \in {10, 15}
      BY <2>1 DEF SlacIsDue, LevelOfTimers
    <2> HIDE DEF counted
    <2>4. /\ \A l \in SlacLayers :
                counted[l] = IF connMgr_timer[l] > 0 THEN connMgr_timer[l] - 1 ELSE 0
          /\ LevelOfTimers(counted) \in {10, 15} => \E l \in SlacLayers : counted[l] > 0
      BY <1>t, LowTimers DEF counted
    <2> QED
      BY <1>1, <2>2, <2>3, <2>4
  <1>2. CASE CallModemFinder
    <2>1. CASE EvaluateSearch
      BY <1>2, <1>t, <2>1, LowTimers DEF EvaluateSearch
    <2>2. CASE StartSearch \/ MofiWait \/ EndSearch \/ MofiIdle
      BY <1>2, <2>2 DEF StartSearch, MofiWait, EndSearch, MofiIdle, CallConnMgr, CallModemFinder
    <2> QED
      BY <1>2, <2>1, <2>2 DEF CallModemFinder, modemFinder_Mainfunction
  <1>3. CASE CallSlac
    <2>1. CASE SlacIsDue /\ FindModems2
      BY <1>3, <2>1
    <2>2. CASE \/ SlacNotDue \/ SlacInitial \/ SlacReady \/ WaitForSlacParamCnf
               \/ SlacParamCnfReceived \/ BeforeStartAttenChar \/ Sounding
               \/ WaitForAttenCharInd \/ AttenCharIndReceived \/ DelayBeforeMatch
               \/ WaitForSlacMatchCnf \/ WaitForRestart2
      <3>1. UNCHANGED connMgr_timer
        BY <2>2 DEF SlacNotDue, SlacInitial, SlacReady, WaitForSlacParamCnf,
               SlacParamCnfReceived, BeforeStartAttenChar, CountDelay, Sounding,
               WaitForAttenCharInd, AttenCharIndReceived, DelayBeforeMatch, TransmitThen,
               WaitForSlacMatchCnf, WaitForRestart2
      <3> QED
        BY <1>3, <3>1 DEF CallConnMgr, CallSlac
    <2> QED
      BY <1>3, <2>1, <2>2 DEF CallSlac, runSlacSequencer
  <1>4. CASE Receive /\ evaluateSetKeyCnf
    BY <1>4, <1>t, LowTimers DEF evaluateSetKeyCnf
  <1>5. CASE /\ \/ Receive /\ ~evaluateSetKeyCnf
                \/ CallSdp \/ CallUpper \/ UpperReport \/ LinkEvent \/ ChargerEvent
                \/ UNCHANGED vars
             /\ ~CallConnMgr
    <2>1. connMgr_timer' \in {connMgr_timer, SdpOk(connMgr_timer), TcpOk(connMgr_timer)}
      BY <1>5
      DEF Receive, evaluateGetSwCnf, SlacReceive, ReceiveSdp, evaluateSlacParamCnf,
          evaluateAttenCharInd, evaluateSlacMatchCnf, evaluateGetKeyCnf,
          CallSdp, runSdpStateMachine, CallUpper, UpperReport, LinkEvent, EthLinkEvent,
          ChargerEvent, vars, connMgrVars
    <2> QED
      BY <1>5, <1>t, <2>1, LowTimers
  <1> QED
    BY <1>1, <1>2, <1>3, <1>4, <1>5 DEF Next, task30ms

\* What a call of the sequencer does to a wait: it begins one, or goes on for
\* one cycle; and it asks for the key only in front of its last wait.
LEMMA SlacCallWaits ==
    ASSUME TypeInv, CallSlac
    PROVE  /\ task = "slac" /\ task' = IF inTransmit' THEN "slac" ELSE "sdp"
           /\ UNCHANGED <<mofiVars, connMgr_ConnectionLevel>>
           /\ pevSequenceState' \in SlacWaits =>
                /\ ~inTransmit' /\ SlacIsDue /\ ~FindModems2
                /\ \/ pevSequenceCyclesInState' = 0
                   \/ /\ pevSequenceState \in SlacWaits
                      /\ pevSequenceCyclesInState' = pevSequenceCyclesInState + 1
           /\ "SetKeyCnf" \in replies' => "SetKeyCnf" \in replies
           /\ "SlacMatchCnf" \in replies' =>
                \/ "SlacMatchCnf" \in replies
                \/ pevSequenceState' = "DELAY_BEFORE_MATCH" /\ inTransmit'
           /\ pevSequenceState = "DELAY_BEFORE_MATCH" /\ inTransmit =>
                /\ pevSequenceState' = "WAITING_FOR_SLAC_MATCH_CNF"
                /\ pevSequenceCyclesInState' = 0
                /\ ~inTransmit'
  <1>1. /\ task = "slac" /\ task' = IF inTransmit' THEN "slac" ELSE "sdp"
        /\ UNCHANGED <<mofiVars, connMgr_ConnectionLevel>>
    BY DEF CallSlac, runSlacSequencer
  <1> DEFINE
    Waiting == pevSequenceState' \in SlacWaits =>
                /\ ~inTransmit' /\ SlacIsDue /\ ~FindModems2
                /\ \/ pevSequenceCyclesInState' = 0
                   \/ /\ pevSequenceState \in SlacWaits
                      /\ pevSequenceCyclesInState' = pevSequenceCyclesInState + 1
    Asking == /\ "SetKeyCnf" \in replies' => "SetKeyCnf" \in replies
              /\ "SlacMatchCnf" \in replies' =>
                   \/ "SlacMatchCnf" \in replies
                   \/ pevSequenceState' = "DELAY_BEFORE_MATCH" /\ inTransmit'
    Asked == pevSequenceState = "DELAY_BEFORE_MATCH" /\ inTransmit =>
                /\ pevSequenceState' = "WAITING_FOR_SLAC_MATCH_CNF"
                /\ pevSequenceCyclesInState' = 0
                /\ ~inTransmit'
  <1>2. CASE ~SlacIsDue
    <2>1. ~inTransmit
      BY <1>1, <1>2 DEF TypeInv, TransmitHolds
    <2> QED
      BY <1>1, <1>2, <2>1, SlacOutOfTurn DEF modemVars, SlacWaits
  <1>3. CASE /\ SlacIsDue
             /\ \/ SlacInitial \/ WaitForSlacParamCnf \/ SlacParamCnfReceived
                \/ BeforeStartAttenChar \/ WaitForAttenCharInd \/ AttenCharIndReceived
                \/ WaitForSlacMatchCnf \/ FindModems2
    <2>1. UNCHANGED <<replies, inTransmit>>
      BY <1>3 DEF SlacInitial, WaitForSlacParamCnf, SlacParamCnfReceived, BeforeStartAttenChar,
                  CountDelay, WaitForAttenCharInd, AttenCharIndReceived, WaitForSlacMatchCnf,
                  FindModems2, modemVars
    <2>2. ~inTransmit /\ pevSequenceState # "DELAY_BEFORE_MATCH"
      BY <1>1, <1>3
      DEF SlacInitial, WaitForSlacParamCnf, SlacParamCnfReceived, BeforeStartAttenChar,
          CountDelay, WaitForAttenCharInd, AttenCharIndReceived, WaitForSlacMatchCnf,
          FindModems2, TypeInv, TransmitHolds
    <2>3. pevSequenceState' \in SlacWaits =>
            /\ pevSequenceState \in SlacWaits
            /\ pevSequenceCyclesInState' = pevSequenceCyclesInState + 1
            /\ ~FindModems2
      BY <1>3
      DEF SlacInitial, WaitForSlacParamCnf, SlacParamCnfReceived, BeforeStartAttenChar,
          CountDelay, WaitForAttenCharInd, AttenCharIndReceived, WaitForSlacMatchCnf,
          FindModems2, SlacWaits, slac_enterState, Stay, SlacCycles
    <2> QED
      BY <1>1, <1>3, <2>1, <2>2, <2>3
  <1>4. CASE SlacIsDue /\ (SlacReady \/ Sounding)
    <2>1. UNCHANGED replies \/ Ask(IfUp({"SlacParamCnf"})) \/ Ask(IfUp({"AttenCharInd"}))
      BY <1>4 DEF SlacReady, Sounding, TransmitThen
    <2>2. Asking
      BY <2>1 DEF Ask, IfUp
    <2>3. /\ pevSequenceState \in {"READY_FOR_SLAC", "SOUNDING"}
          /\ pevSequenceState' \in SlacWaits => ~inTransmit' /\ pevSequenceCyclesInState' = 0
      BY <1>4 DEF SlacReady, Sounding, TransmitThen, slac_enterState, Stay, SlacWaits
    <2> QED
      BY <1>1, <1>4, <2>2, <2>3 DEF FindModems2
  <1>5. CASE SlacIsDue /\ DelayBeforeMatch
    <2>1. \/ CountDelay /\ ~inTransmit
          \/ /\ Ask(IfUp({"SlacMatchCnf"})) /\ inTransmit' /\ ~inTransmit
             /\ UNCHANGED pevSequenceState
          \/ /\ inTransmit /\ ~inTransmit' /\ UNCHANGED replies
             /\ slac_enterState("WAITING_FOR_SLAC_MATCH_CNF")
      BY <1>1, <1>5
      DEF DelayBeforeMatch, CountDelay, TransmitThen, TypeInv, TransmitHolds, DelayOver,
          TypeOK, SlacTypeOK
    <2>2. pevSequenceState = "DELAY_BEFORE_MATCH"
      BY <1>5 DEF DelayBeforeMatch
    <2>3. CASE CountDelay /\ ~inTransmit
      BY <1>1, <1>5, <2>2, <2>3 DEF CountDelay, Stay, modemVars, SlacWaits
    <2>4. CASE /\ Ask(IfUp({"SlacMatchCnf"})) /\ inTransmit' /\ ~inTransmit
               /\ UNCHANGED pevSequenceState
      <3>1. Asking
        BY <2>2, <2>4 DEF Ask, IfUp
      <3> QED
        BY <1>1, <2>2, <2>4, <3>1 DEF SlacWaits
    <2>5. CASE /\ inTransmit /\ ~inTransmit' /\ UNCHANGED replies
               /\ slac_enterState("WAITING_FOR_SLAC_MATCH_CNF")
      BY <1>1, <1>5, <2>2, <2>5 DEF slac_enterState, FindModems2
    <2> QED
      BY <2>1, <2>3, <2>4, <2>5
  <1>6. CASE SlacIsDue /\ WaitForRestart2
    <2>1. UNCHANGED replies \/ AskModems("GetKeyLocal", "GetKeyCharger")
      BY <1>6 DEF WaitForRestart2, CountDelay, TransmitThen, modemVars
    <2>2. Asking
      BY <2>1 DEF AskModems, Ask, IfUp, IfJoined
    <2>3. /\ pevSequenceState = "WAITING_FOR_RESTART2"
          /\ pevSequenceState' \in {"WAITING_FOR_RESTART2", "FIND_MODEMS2"}
      BY <1>6 DEF WaitForRestart2, CountDelay, TransmitThen, slac_enterState, Stay
    <2> QED
      BY <1>1, <2>2, <2>3 DEF SlacWaits
  <1> QED
    BY <1>2, <1>3, <1>4, <1>5, <1>6 DEF CallSlac, runSlacSequencer, SlacNotDue

\* What the receive task does to a wait: it ends one, and puts the
\* confirmation of the key in the place of the key.
LEMMA ReceiveWaits ==
    ASSUME TypeInv, Receive
    PROVE  /\ UNCHANGED <<task, connMgr_ConnectionLevel, inTransmit, mofi_state, mofi_stateDelay>>
           /\ pevSequenceState' \in SlacWaits =>
                UNCHANGED <<pevSequenceState, pevSequenceCyclesInState>>
           /\ {"SlacMatchCnf", "SetKeyCnf"} \cap replies' # {} =>
                {"SlacMatchCnf", "SetKeyCnf"} \cap replies # {}
           /\ \/ UNCHANGED <<pevSequenceState, pevSequenceCyclesInState>>
              \/ /\ pevSequenceState = "WAITING_FOR_SLAC_MATCH_CNF"
                 /\ pevSequenceState' = "WAITING_FOR_RESTART2"
              \/ pevSequenceState \in {"WAITING_FOR_SLAC_PARAM_CNF", "WAIT_FOR_ATTEN_CHAR_IND"}
  <1>1. UNCHANGED <<task, connMgr_ConnectionLevel, inTransmit, mofi_state, mofi_stateDelay>>
    BY ReceiveMovesSlac
  <1>2. /\ pevSequenceState' \in SlacWaits =>
             UNCHANGED <<pevSequenceState, pevSequenceCyclesInState>>
        /\ \/ UNCHANGED <<pevSequenceState, pevSequenceCyclesInState>>
           \/ /\ pevSequenceState = "WAITING_FOR_SLAC_MATCH_CNF"
              /\ pevSequenceState' = "WAITING_FOR_RESTART2"
           \/ pevSequenceState \in {"WAITING_FOR_SLAC_PARAM_CNF", "WAIT_FOR_ATTEN_CHAR_IND"}
    BY DEF Receive, evaluateGetSwCnf, SlacReceive, ReceiveSdp, evaluateSlacParamCnf,
           evaluateAttenCharInd, evaluateSlacMatchCnf, evaluateSetKeyCnf, evaluateGetKeyCnf,
           slacVars, slac_enterState, SlacWaits
  <1>3. "SlacMatchCnf" \in replies \/ replies' \subseteq replies
    BY DEF Receive, evaluateGetSwCnf, SlacReceive, ReceiveSdp, evaluateSlacParamCnf,
           evaluateAttenCharInd, evaluateSlacMatchCnf, evaluateSetKeyCnf, evaluateGetKeyCnf
  <1> QED
    BY <1>1, <1>2, <1>3

\* The modem finder, SDP and the rest of the world leave a wait alone.
LEMMA OthersLeaveWaits ==
    ASSUME CallConnMgr \/ CallModemFinder \/ CallSdp \/ CallUpper \/ UpperReport \/ LinkEvent
           \/ ChargerEvent \/ UNCHANGED vars
    PROVE  /\ UNCHANGED <<pevSequenceState, pevSequenceCyclesInState>>
           /\ CallConnMgr \/ UNCHANGED connMgr_ConnectionLevel
           /\ CallModemFinder \/ UNCHANGED <<mofi_state, mofi_stateDelay, inTransmit>>
           /\ {"SlacMatchCnf", "SetKeyCnf"} \cap replies' # {} =>
                {"SlacMatchCnf", "SetKeyCnf"} \cap replies # {}
           /\ \/ CallConnMgr /\ task = "connMgr" /\ task' = "finder"
              \/ CallModemFinder /\ task = "finder"
                 /\ task' = IF inTransmit' THEN "finder" ELSE "slac"
              \/ CallSdp /\ task = "sdp" /\ task' = "upper"
              \/ CallUpper /\ task = "upper" /\ task' = "connMgr"
              \/ UNCHANGED task
  <1>1. CASE CallModemFinder
    <2>1. UNCHANGED replies \/ AskModems("GetSwLocal", "GetSwCharger")
      BY <1>1 DEF CallModemFinder, modemFinder_Mainfunction, StartSearch, MofiWait,
                  EvaluateSearch, EndSearch, MofiIdle, modemVars
    <2>2. {"SlacMatchCnf", "SetKeyCnf"} \cap replies' # {} =>
            {"SlacMatchCnf", "SetKeyCnf"} \cap replies # {}
      BY <2>1 DEF AskModems, Ask, IfUp, IfJoined
    <2> QED
      BY <1>1, <2>2 DEF CallModemFinder, modemFinder_Mainfunction, slacVars
  <1>2. CASE CallSdp
    <2>1. UNCHANGED replies \/ Ask(IfJoined({"SdpResponse"}))
      BY <1>2 DEF CallSdp, runSdpStateMachine, SdpNotDue, SdpStart, SdpWait, SdpRequest
    <2>2. {"SlacMatchCnf", "SetKeyCnf"} \cap replies' # {} =>
            {"SlacMatchCnf", "SetKeyCnf"} \cap replies # {}
      BY <2>1 DEF Ask, IfJoined
    <2> QED
      BY <1>2, <2>2 DEF CallSdp, runSdpStateMachine, mofiVars, connMgrVars
  <1>3. CASE CallConnMgr \/ CallUpper \/ UpperReport \/ LinkEvent \/ ChargerEvent
             \/ UNCHANGED vars
    BY <1>3 DEF CallConnMgr, CallUpper, UpperReport, LinkEvent, ChargerEvent, ChargerLeaves,
         EthLinkEvent, vars, connMgrVars, slacVars, modemVars, mofiVars
  <1> QED
    BY <1>1, <1>2, <1>3

\* Every step keeps the key's confirmation in its place.
LEMMA KeyInTimeStep ==
    ASSUME KeyIsPrompt, WaitInv, [Next]_vars PROVE KeyInTime'
  <1> USE DEF WaitInv
  <1> DEFINE Key == {"SlacMatchCnf", "SetKeyCnf"}
  <1>1. CASE CallSlac
    <2>1. CASE Key \cap replies = {}
      BY <1>1, <2>1, SlacCallWaits DEF KeyInTime
    <2>2. CASE Key \cap replies # {}
      <3>1. inTransmit /\ pevSequenceState = "DELAY_BEFORE_MATCH"
        BY <1>1, <2>2 DEF KeyInTime, CallSlac
      <3> QED
        BY <1>1, <3>1, SlacCallWaits DEF KeyInTime
    <2> QED
      BY <2>1, <2>2
  <1>2. CASE Receive
    <2> SUFFICES ASSUME Key \cap replies # {} PROVE KeyInTime'
      BY <1>2, ReceiveWaits DEF KeyInTime
    <2> QED
      BY <1>2, ReceiveWaits DEF KeyInTime
  <1>3. CASE CallConnMgr
    <2>1. Key \cap replies = {}
      BY <1>3 DEF CallConnMgr, KeyIsPrompt
    <2> QED
      BY <1>3, <2>1, OthersLeaveWaits DEF KeyInTime
  <1>4. CASE CallModemFinder
    <2>1. Key \cap replies = {}
      BY <1>4 DEF CallModemFinder, KeyInTime
    <2> QED
      BY <1>4, <2>1, OthersLeaveWaits DEF KeyInTime
  <1>5. CASE /\ CallSdp \/ CallUpper \/ UpperReport \/ LinkEvent \/ ChargerEvent
                \/ UNCHANGED vars
             /\ ~CallConnMgr /\ ~CallModemFinder
    BY <1>5, OthersLeaveWaits DEF KeyInTime
  <1> QED
    BY <1>1, <1>2, <1>3, <1>4, <1>5 DEF Next, task30ms

\* Every step keeps SLAC's level that of its timers.
LEMMA LevelKnownStep ==
    ASSUME WaitInv, [Next]_vars PROVE LevelKnown'
  <1> USE DEF WaitInv
  <1>1. CASE CallConnMgr
    BY <1>1, LowTimersMove DEF LevelKnown, CallConnMgr, CallModemFinder, CallSlac, Receive,
                               TypeInv
  <1>2. CASE ~CallConnMgr
    <2> SUFFICES ASSUME task' \in {"finder", "slac"}, SlacIsDue'
                 PROVE  \E l \in SlacLayers : connMgr_timer'[l] > 0
      BY DEF LevelKnown
    <2>1. /\ task \in {"finder", "slac"} /\ SlacIsDue
          /\ CallSlac => inTransmit'
      BY <1>2, SlacCallWaits, ReceiveWaits, OthersLeaveWaits DEF Next, task30ms, SlacIsDue
    <2>2. PICK l \in SlacLayers : connMgr_timer[l] > 0
      BY <2>1 DEF LevelKnown
    <2>3. ~(CallSlac /\ SlacIsDue /\ FindModems2)
      BY <2>1 DEF CallSlac, FindModems2, modemVars, TypeInv, TransmitHolds
    <2>4. connMgr_timer'[l] \in {connMgr_timer[l], TIMER_MAX, TIMER_MAX_15s}
      BY <1>2, <2>3, LowTimersMove DEF SlacLayers
    <2> QED
      BY <2>2, <2>4, WaitTypes
  <1> QED
    BY <1>1, <1>2

\* Every step keeps a wait within its time.
LEMMA WaitTimeStep ==
    ASSUME WaitsAreLonger, WaitInv, TypeInv', [Next]_vars PROVE WaitTime'
  <1> USE DEF WaitInv
  <1> DEFINE n == pevSequenceCyclesInState
             TimersEnd(ahead) == \A l \in SlacLayers : connMgr_timer[l] > 0 =>
                                  connMgr_timer[l] + n + ahead <= TOO_LONG
  <1>t. /\ n \in Nat /\ n' \in Nat /\ TOO_LONG \in Nat /\ MOFI_DELAY \in Nat
        /\ TIMER_MAX \in Nat /\ TIMER_MAX_15s \in Nat
        /\ TIMER_MAX_15s <= TOO_LONG /\ TIMER_MAX + MOFI_DELAY < TOO_LONG
        /\ \A l \in SlacLayers : connMgr_timer[l] \in 0 .. TIMER_MAX_15s
        /\ \A l \in SlacLayers : connMgr_timer'[l] \in 0 .. TIMER_MAX_15s
        /\ mofi_stateDelay \in 0 .. MOFI_DELAY /\ mofi_stateDelay' \in 0 .. MOFI_DELAY
    <2>1. \A l \in SlacLayers : connMgr_timer'[l] \in 0 .. TIMER_MAX_15s
      BY LowTimers DEF TypeInv, TypeOK, ConnMgrTypeOK, Timers
    <2>2. n' \in Nat /\ mofi_stateDelay' \in 0 .. MOFI_DELAY
      BY DEF TypeInv, TypeOK, MofiTypeOK, SlacTypeOK
    <2> QED
      BY <2>1, <2>2, WaitTypes DEF WaitsAreLonger
  <1> SUFFICES ASSUME pevSequenceState' \in SlacWaits, ~SlacWillStop'
               PROVE  /\ TimersEnd(Ahead)'
                      /\ mofi_state' = 1 =>
                            n' + mofi_stateDelay' + (IF task' = "slac" THEN 1 ELSE 0)
                              <= MOFI_DELAY
    BY DEF WaitTime
  <1> DEFINE Waited ==
        /\ pevSequenceState \in SlacWaits
        /\ \A l \in SlacLayers : connMgr_timer[l] > 0 =>
              connMgr_timer[l] + n + Ahead <= TOO_LONG
        /\ mofi_state = 1 =>
              n + mofi_stateDelay + (IF task = "slac" THEN 1 ELSE 0) <= MOFI_DELAY
  <1>1. CASE CallSlac
    <2>1. /\ task = "slac" /\ task' = "sdp" /\ SlacIsDue
          /\ UNCHANGED <<mofi_state, mofi_stateDelay>>
          /\ n' = 0 \/ (pevSequenceState \in SlacWaits /\ n' = n + 1)
          /\ \A l \in SlacLayers : connMgr_timer'[l] = connMgr_timer[l]
      BY <1>1, SlacCallWaits, LowTimersMove
      DEF mofiVars, CallSlac, CallConnMgr, CallModemFinder, Receive
    <2>2. CASE n' = 0
      BY <1>t, <2>1, <2>2 DEF Ahead
    <2>3. CASE pevSequenceState \in SlacWaits /\ n' = n + 1
      <3>1. Waited
        BY <2>1, <2>3 DEF WaitTime, SlacWillStop
      <3> QED
        BY <1>t, <2>1, <2>3, <3>1 DEF Ahead
    <2> QED
      BY <2>1, <2>2, <2>3
  <1>2. CASE Receive
    <2>1. /\ UNCHANGED <<task, pevSequenceState, pevSequenceCyclesInState, mofi_state,
                         mofi_stateDelay, connMgr_ConnectionLevel>>
      BY <1>2, ReceiveWaits
    <2>2. Waited /\ Ahead' = Ahead
      BY <2>1 DEF WaitTime, SlacWillStop, SlacIsDue, Ahead
    <2>3. CASE \A l \in SlacLayers : connMgr_timer'[l] = connMgr_timer[l]
      BY <1>t, <2>1, <2>2, <2>3
    <2>4. CASE /\ evaluateSetKeyCnf
               /\ connMgr_timer'["Slac"] = TIMER_MAX_15s
               /\ connMgr_timer'["ModemLocal"] = connMgr_timer["ModemLocal"]
      <3>1. n = 0 /\ Ahead = 0
        BY <2>2, <2>4 DEF evaluateSetKeyCnf, KeyInTime, SlacWaits, Ahead
      <3> QED
        BY <1>t, <2>1, <2>2, <2>4, <3>1 DEF SlacLayers
    <2>5. ~CallConnMgr /\ ~EvaluateSearch /\ ~(SlacIsDue /\ FindModems2)
      <3>1. ~EvaluateSearch /\ ~CallConnMgr
        BY <2>1 DEF EvaluateSearch, CallConnMgr
      <3>2. ~FindModems2
        BY <2>2, <2>1 DEF FindModems2, SlacWaits
      <3> QED
        BY <3>1, <3>2
    <2> QED
      BY <2>3, <2>4, <2>5, LowTimersMove
  <1>3. CASE CallConnMgr
    <2>1. /\ task = "connMgr" /\ task' = "finder"
          /\ UNCHANGED <<pevSequenceState, pevSequenceCyclesInState, mofi_state,
                         mofi_stateDelay>>
          /\ \A l \in SlacLayers :
                connMgr_timer'[l] = IF connMgr_timer[l] > 0 THEN connMgr_timer[l] - 1 ELSE 0
      <3>1. task = "connMgr" /\ task' = "finder" /\ UNCHANGED <<slacVars, mofiVars>>
        BY <1>3 DEF CallConnMgr
      <3>2. ~CallModemFinder /\ ~CallSlac /\ ~Receive
        BY <3>1 DEF CallModemFinder, CallSlac, Receive
      <3> QED
        BY <1>3, <3>1, <3>2, LowTimersMove DEF slacVars, mofiVars
    <2>2. Waited /\ Ahead = 0 /\ Ahead' = 1
      BY <2>1 DEF WaitTime, SlacWillStop, Ahead
    <2> QED
      BY <1>t, <2>1, <2>2
  <1>4. CASE CallModemFinder
    <2>1. /\ task = "finder" /\ task' = IF inTransmit' THEN "finder" ELSE "slac"
          /\ UNCHANGED <<pevSequenceState, pevSequenceCyclesInState, connMgr_ConnectionLevel>>
      BY <1>4, OthersLeaveWaits DEF CallModemFinder, modemFinder_Mainfunction, slacVars
    <2>2. SlacIsDue /\ ~StartSearch /\ Waited /\ Ahead = 1 /\ Ahead' = 1
      BY <2>1 DEF SlacWillStop, SlacIsDue, StartSearch, WaitTime, Ahead
    <2>3. CASE MofiWait \/ EndSearch \/ MofiIdle
      <3>1. /\ UNCHANGED connMgr_timer
            /\ mofi_state' = 1 => mofi_state = 1 /\ mofi_stateDelay' = mofi_stateDelay - 1
        BY <1>4, <2>2, <2>3 DEF MofiWait, EndSearch, MofiIdle, mofiVars, SlacIsDue
      <3>2. TimersEnd(Ahead)'
        BY <1>t, <2>1, <2>2, <3>1
      <3>3. ASSUME mofi_state' = 1
            PROVE  n' + mofi_stateDelay' + (IF task' = "slac" THEN 1 ELSE 0) <= MOFI_DELAY
        <4>1. n + mofi_stateDelay <= MOFI_DELAY /\ mofi_stateDelay' = mofi_stateDelay - 1 /\ n' = n
          BY <1>t, <2>1, <2>2, <3>1, <3>3
        <4> QED
          BY <1>t, <4>1
      <3> QED
        BY <3>2, <3>3
    <2>4. CASE EvaluateSearch
      <3>1. /\ mofi_state = 1 /\ mofi_stateDelay = 0 /\ mofi_state' = 2
            /\ connMgr_timer' = ModemFinderOk(connMgr_timer, numberOfSoftwareVersionResponses)
        BY <2>4 DEF EvaluateSearch
      <3>2. \A l \in SlacLayers : connMgr_timer'[l] \in {connMgr_timer[l], TIMER_MAX}
        BY <3>1, LowTimers, WaitTypes
      <3>3. n <= MOFI_DELAY
        BY <1>t, <2>1, <2>2, <3>1
      <3>4. ASSUME NEW l \in SlacLayers, connMgr_timer'[l] > 0
            PROVE  connMgr_timer'[l] + n' + Ahead' <= TOO_LONG
        <4>1. CASE connMgr_timer'[l] = connMgr_timer[l]
          BY <1>t, <2>1, <2>2, <3>4, <4>1
        <4>2. CASE connMgr_timer'[l] = TIMER_MAX
          BY <1>t, <2>1, <2>2, <3>3, <4>2
        <4> QED
          BY <3>2, <4>1, <4>2
      <3> QED
        BY <3>1, <3>4
    <2> QED
      BY <1>4, <2>2, <2>3, <2>4 DEF CallModemFinder, modemFinder_Mainfunction
  <1>5. CASE /\ CallSdp \/ CallUpper \/ UpperReport \/ LinkEvent \/ ChargerEvent
                \/ UNCHANGED vars
             /\ ~CallConnMgr /\ ~CallModemFinder /\ ~CallSlac /\ ~Receive
    <2>1. /\ UNCHANGED <<pevSequenceState, pevSequenceCyclesInState, connMgr_ConnectionLevel,
                         mofi_state, mofi_stateDelay>>
          /\ \/ UNCHANGED task
             \/ task \in {"sdp", "upper"} /\ task' \in {"upper", "connMgr"}
      BY <1>5, OthersLeaveWaits
    <2>2. Waited /\ Ahead' = Ahead /\ (task' = "slac" <=> task = "slac")
      BY <2>1 DEF WaitTime, SlacWillStop, SlacIsDue, Ahead
    <2>3. \A l \in SlacLayers : connMgr_timer'[l] = connMgr_timer[l]
      BY <1>5, LowTimersMove
    <2> QED
      BY <1>t, <2>1, <2>2, <2>3
  <1> QED
    BY <1>1, <1>2, <1>3, <1>4, <1>5 DEF Next, task30ms

\* Once the charger has answered, the sequencer ends at its own level only
\* with the charger's modem found: neither the limit of its waits nor that of
\* the retries is ever reached, whatever is lost, and the connection manager
\* takes the level away first.  It takes that a search which began before
\* SLAC ends early in a wait, that the key is confirmed before the wait for it
\* has been counted, and that the count of missing modems starts anew with
\* each retry (homeplug.ino:556-559, 647-655, 675-684, 705-735,
\* connMgr.ino:48-104).
THEOREM SlacIsEndedByTheLevel ==
    ASSUME WaitsAreLonger, KeyIsPrompt
    PROVE  Spec => SlacEndsWithTheLevel
  <1>1. Init => WaitInv
    <2> SUFFICES ASSUME Init PROVE WaitInv
      OBVIOUS
    <2>1. TypeInv
      BY TypeInvInit
    <2>2. KeyInTime /\ LevelKnown /\ WaitTime
      BY DEF Init, ModemsInit, SlacInit, KeyInTime, LevelKnown, WaitTime, SlacWaits
    <2> QED
      BY <2>1, <2>2 DEF WaitInv
  <1>2. WaitInv /\ [Next]_vars => WaitInv'
    BY TypeInvStep, KeyInTimeStep, LevelKnownStep, WaitTimeStep DEF WaitInv
  <1>3. WaitInv /\ [Next]_vars =>
          [/\ pevSequenceState \notin {"INITIAL", "WAITING_FOR_SLAC_PARAM_CNF"}
           /\ pevSequenceState' = "INITIAL" /\ SlacIsDue
           => pevSequenceState = "FIND_MODEMS2" /\ isEvseModemFound]_vars
    <2> SUFFICES ASSUME WaitInv, [Next]_vars,
                        pevSequenceState \notin {"INITIAL", "WAITING_FOR_SLAC_PARAM_CNF"},
                        pevSequenceState' = "INITIAL", SlacIsDue
                 PROVE  pevSequenceState = "FIND_MODEMS2" /\ isEvseModemFound
      OBVIOUS
    <2>1. CallSlac /\ task = "slac"
      BY ReceiveMovesSlac, OthersLeaveWaits DEF Next, task30ms, CallSlac
    <2>2. \/ pevSequenceState \in SlacWaits /\ isTooLong
          \/ FindModems2
      BY <2>1
      DEF CallSlac, runSlacSequencer, SlacNotDue, SlacInitial, SlacReady, WaitForSlacParamCnf,
          SlacParamCnfReceived, BeforeStartAttenChar, CountDelay, Sounding,
          WaitForAttenCharInd, AttenCharIndReceived, DelayBeforeMatch, TransmitThen,
          WaitForSlacMatchCnf, WaitForRestart2, slac_enterState, Stay, SlacWaits
    <2>3. ~(pevSequenceState \in SlacWaits /\ isTooLong)
      <3> SUFFICES ASSUME pevSequenceState \in SlacWaits, isTooLong PROVE FALSE
        OBVIOUS
      <3>1. PICK l \in SlacLayers : connMgr_timer[l] > 0
        BY <2>1 DEF WaitInv, LevelKnown
      <3>2. connMgr_timer[l] + pevSequenceCyclesInState + 1 <= TOO_LONG
        BY <2>1, <3>1 DEF WaitInv, WaitTime, SlacWillStop, Ahead
      <3>3. pevSequenceCyclesInState + 1 > TOO_LONG
        BY DEF isTooLong, SlacCycles, SlacWaits
      <3> QED
        BY <3>1, <3>2, <3>3, WaitTypes DEF WaitInv
    <2>4. CASE FindModems2
      <3>1. nEvseModemMissingCounter = 0 /\ pevSequenceState = "FIND_MODEMS2"
        BY <2>4 DEF FindModems2, WaitInv, TypeInv, MissingIsReset
      <3> QED
        BY <2>4, <3>1, SlacAssumption DEF FindModems2, Stay, slac_enterState
    <2> QED
      BY <2>2, <2>3, <2>4
  <1> QED
    BY <1>1, <1>2, <1>3, PTL DEF Spec, SlacEndsWithTheLevel
=============================================================================
