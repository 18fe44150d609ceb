--------------------------- MODULE PairingProofs ----------------------------
(***************************************************************************)
(* Proofs about Pairing, for all values of its constants: the types, and   *)
(* that modem finder, SLAC and SDP keep out of each other's variables.     *)
(***************************************************************************)
EXTENDS Pairing, ConnMgrProofs

-----------------------------------------------------------------------------
(* What the parts may do to the variables that they share.                 *)

\* A request leaves well-typed replies in flight.
LEMMA AskType ==
    ASSUME replies \subseteq Replies, NEW expected \in SUBSET Replies, Ask(expected)
    PROVE  replies' \subseteq Replies
  BY DEF Ask

\* The requests by name: what may be in flight after them, and what is still.
LEMMA RepliesByName ==
    /\ IfUp({"SlacParamCnf"}) \subseteq Replies /\ IfUp({"AttenCharInd"}) \subseteq Replies
    /\ IfUp({"SlacMatchCnf"}) \subseteq Replies /\ IfJoined({"SdpResponse"}) \subseteq Replies
    /\ IfUp({"GetSwLocal"}) \cup IfJoined({"GetSwCharger"}) \subseteq Replies
    /\ IfUp({"GetKeyLocal"}) \cup IfJoined({"GetKeyCharger"}) \subseteq Replies
    /\ IfUp({"SetKeyCnf"}) \subseteq Replies /\ IfUp({}) \subseteq Replies
  BY DEF IfUp, IfJoined, Replies

\* SET_KEY keeps the modems well typed.
LEMMA SetKeyType ==
    ASSUME NEW remaining \in SUBSET Replies, SetKey(remaining)
    PROVE  replies' \subseteq Replies /\ joined' \in BOOLEAN /\ restart' \in Nat
  <1>1. PICK answers \in {{}, {"SetKeyCnf"}} : replies' = remaining \cup IfUp(answers)
    BY DEF SetKey
  <1>2. joined' \in BOOLEAN /\ restart' \in Nat
    BY ModemsAssumption DEF SetKey
  <1> QED
    BY <1>1, <1>2, RepliesByName

-----------------------------------------------------------------------------
(* Type correctness.                                                       *)

\* The count of missing modems is reset before each count of modems.  It is
\* in range only because of that.
MissingIsReset ==
    /\ pevSequenceState = "FIND_MODEMS2" => nEvseModemMissingCounter = 0
    /\ task = "slac" /\ inTransmit /\ pevSequenceState = "WAITING_FOR_RESTART2"
         => nEvseModemMissingCounter = 0

\* In the middle of a transmission the transmitting state is held: the
\* receive task moves on only states that wait for a frame.
TransmitHolds ==
    /\ inTransmit => task \in {"finder", "slac"}
    /\ task = "finder" /\ inTransmit => connMgr_ConnectionLevel = 5 /\ mofi_state = 0
    /\ task = "slac" /\ inTransmit =>
         /\ SlacIsDue
         /\ \/ pevSequenceState \in {"READY_FOR_SLAC", "SOUNDING"}
            \/ pevSequenceState \in {"DELAY_BEFORE_MATCH", "WAITING_FOR_RESTART2"} /\ DelayOver

TypeInv == TypeOK /\ TransmitHolds /\ MissingIsReset

\* The modem finder keeps the types.
LEMMA FinderStep ==
    ASSUME TypeInv, CallModemFinder PROVE TypeInv'
  <1> USE DEF TypeInv, TypeOK, MofiTypeOK, ModemsTypeOK, ConnMgrTypeOK
  <1>1. /\ UNCHANGED <<slacVars, sdpVars, upperOpen, connMgr_ConnectionLevel, isEthLinkUp>>
        /\ task = "finder" /\ task' = IF inTransmit' THEN "finder" ELSE "slac"
    BY DEF CallModemFinder, modemFinder_Mainfunction
  <1>2. SlacTypeOK' /\ SdpTypeOK'
    BY <1>1 DEF SlacTypeOK, SdpTypeOK, slacVars, slacCounters, sdpVars
  <1>3. MofiTypeOK' /\ ModemsTypeOK' /\ connMgr_timer' \in Timers
    <2>1. CASE StartSearch
      <3>1. replies' \subseteq Replies
        BY <2>1, AskType, RepliesByName DEF StartSearch, AskModems
      <3>2. MofiTypeOK' /\ connMgr_timer' = connMgr_timer
        BY <2>1, MofiAssumption DEF StartSearch, mofiVars
      <3>3. chargerSeen' \in BOOLEAN /\ inTransmit' \in BOOLEAN
        BY <2>1, Zenon DEF StartSearch
      <3>4. UNCHANGED <<joined, restart>>
        BY <2>1 DEF StartSearch
      <3> QED
        BY <3>1, <3>2, <3>3, <3>4 DEF Timers
    <2>2. CASE MofiWait \/ EndSearch \/ MofiIdle
      BY <2>2, MofiAssumption DEF MofiWait, EndSearch, MofiIdle, mofiVars, modemVars, Timers
    <2>3. CASE EvaluateSearch
      BY <2>3, MofiAssumption, ReportType DEF EvaluateSearch, modemVars, Timers
    <2> QED
      BY <2>1, <2>2, <2>3 DEF CallModemFinder, modemFinder_Mainfunction
  <1>4. TransmitHolds'
    BY <1>1 DEF CallModemFinder, modemFinder_Mainfunction, StartSearch, MofiWait,
                EvaluateSearch, EndSearch, MofiIdle, modemVars, mofiVars, TransmitHolds
  <1>5. MissingIsReset'
    BY <1>1, <1>4 DEF MissingIsReset, TransmitHolds, slacVars, slacCounters
  <1> QED
    BY <1>1, <1>2, <1>3, <1>4, <1>5 DEF Timers

\* Entering a state and staying in one are well typed.
LEMMA SlacStateType ==
    ASSUME SlacTypeOK, Stay \/ \E n \in SlacStates : slac_enterState(n)
    PROVE  pevSequenceState' \in SlacStates /\ pevSequenceCyclesInState' \in Nat
  <1>1. ASSUME NEW n \in SlacStates, slac_enterState(n)
        PROVE  pevSequenceState' \in SlacStates /\ pevSequenceCyclesInState' \in Nat
    BY <1>1 DEF slac_enterState
  <1>2. CASE Stay
    BY <1>2 DEF SlacTypeOK, Stay, SlacCycles
  <1> QED
    BY <1>1, <1>2

\* A call of the sequencer keeps the types.
LEMMA SlacStep ==
    ASSUME TypeInv, CallSlac PROVE TypeInv'
  <1> USE DEF TypeInv, TypeOK, ConnMgrTypeOK
  <1>1. /\ UNCHANGED <<mofiVars, sdpVars, upperOpen, connMgr_ConnectionLevel, isEthLinkUp>>
        /\ task = "slac" /\ task' = IF inTransmit' THEN "slac" ELSE "sdp"
    BY DEF CallSlac, runSlacSequencer
  <1>2. MofiTypeOK' /\ SdpTypeOK'
    BY <1>1 DEF MofiTypeOK, SdpTypeOK, mofiVars, sdpVars
  <1>s. SlacStates = {"INITIAL", "READY_FOR_SLAC", "WAITING_FOR_SLAC_PARAM_CNF",
               "SLAC_PARAM_CNF_RECEIVED", "BEFORE_START_ATTEN_CHAR", "SOUNDING",
               "WAIT_FOR_ATTEN_CHAR_IND", "ATTEN_CHAR_IND_RECEIVED",
               "DELAY_BEFORE_MATCH", "WAITING_FOR_SLAC_MATCH_CNF",
               "WAITING_FOR_RESTART2", "FIND_MODEMS2"}
    BY DEF SlacStates
  <1> DEFINE ModemsOK == ModemsTypeOK' /\ connMgr_timer' \in Timers
             StateOK == pevSequenceState' \in SlacStates /\ pevSequenceCyclesInState' \in Nat
             Goal == SlacTypeOK' /\ ModemsOK /\ TransmitHolds' /\ MissingIsReset'
  <1>g. SUFFICES Goal
    BY <1>1, <1>2 DEF Timers
  <1>q. \/ SlacNotDue
        \/ /\ SlacIsDue
           /\ \/ SlacInitial \/ SlacReady \/ WaitForSlacParamCnf \/ SlacParamCnfReceived
              \/ BeforeStartAttenChar \/ Sounding \/ WaitForAttenCharInd
              \/ AttenCharIndReceived \/ DelayBeforeMatch \/ WaitForSlacMatchCnf
              \/ WaitForRestart2 \/ FindModems2
    BY DEF CallSlac, runSlacSequencer
  <1>c. CASE SlacNotDue \/ SlacInitial \/ WaitForSlacParamCnf \/ WaitForAttenCharInd
    <2>1. /\ UNCHANGED <<pevSequenceDelayCycles, slacCounters, modemVars, connMgr_timer>>
          /\ \/ slac_enterState("INITIAL") \/ slac_enterState("READY_FOR_SLAC")
             \/ Stay /\ pevSequenceState
                          \in {"WAITING_FOR_SLAC_PARAM_CNF", "WAIT_FOR_ATTEN_CHAR_IND"}
          /\ ~inTransmit
      BY <1>c, <1>1 DEF SlacNotDue, SlacInitial, WaitForSlacParamCnf, WaitForAttenCharInd,
                        TransmitHolds
    <2>2. StateOK
      BY <2>1, <1>s, SlacStateType
    <2>3. ModemsOK
      BY <2>1 DEF ModemsTypeOK, modemVars, Timers
    <2>4. SlacTypeOK'
      BY <2>1, <2>2 DEF SlacTypeOK, slacCounters
    <2>5. pevSequenceState' \notin {"FIND_MODEMS2", "WAITING_FOR_RESTART2"} /\ ~inTransmit'
      BY <2>1 DEF slac_enterState, Stay, modemVars
    <2> QED
      BY <2>3, <2>4, <2>5, <1>1 DEF MissingIsReset, TransmitHolds
  <1>d. CASE \/ SlacParamCnfReceived \/ BeforeStartAttenChar \/ AttenCharIndReceived
             \/ WaitForSlacMatchCnf \/ FindModems2
    <2>1. /\ UNCHANGED modemVars /\ ~inTransmit
          /\ connMgr_timer' \in {connMgr_timer, ModemFinderOk(connMgr_timer, 2)}
          /\ \/ \E n \in SlacStates \ {"FIND_MODEMS2"} : slac_enterState(n)
             \/ Stay
      BY <1>d, <1>1, <1>s
      DEF SlacParamCnfReceived, BeforeStartAttenChar, AttenCharIndReceived,
          WaitForSlacMatchCnf, FindModems2, TransmitHolds, CountDelay
    <2>2. StateOK
      BY <2>1, SlacStateType
    <2>3. ModemsOK
      BY <2>1, ReportType DEF ModemsTypeOK, modemVars, Timers
    <2>4. pevSequenceDelayCycles' \in Nat
      BY <1>d, SlacAssumption
      DEF SlacParamCnfReceived, BeforeStartAttenChar, AttenCharIndReceived,
          WaitForSlacMatchCnf, FindModems2, CountDelay, SlacTypeOK
    <2>5. /\ nRemainingStartAttenChar' \in 0 .. START_ATTEN
          /\ remainingNumberOfSounds' \in 0 .. SOUNDS
          /\ numberOfFoundModems' \in Nat
      BY <1>d, SlacAssumption
      DEF SlacParamCnfReceived, BeforeStartAttenChar, AttenCharIndReceived,
          WaitForSlacMatchCnf, FindModems2, CountDelay, SlacTypeOK, slacCounters
    <2>6. /\ nEvseModemMissingCounter' \in 0 .. MISSING_MAX + 1
          /\ pevSequenceState' = "FIND_MODEMS2" => nEvseModemMissingCounter' = 0
      BY <1>d, SlacAssumption
      DEF SlacParamCnfReceived, BeforeStartAttenChar, AttenCharIndReceived,
          WaitForSlacMatchCnf, FindModems2, CountDelay, SlacTypeOK, slacCounters,
          slac_enterState, Stay, MissingIsReset
    <2> QED
      BY <2>1, <2>2, <2>3, <2>4, <2>5, <2>6, <1>1
      DEF MissingIsReset, TransmitHolds, SlacTypeOK, modemVars
  <1>e. CASE SlacIsDue /\ (SlacReady \/ Sounding)
    <2>1. /\ UNCHANGED <<pevSequenceDelayCycles, nRemainingStartAttenChar, joined, restart,
                         numberOfFoundModems, nEvseModemMissingCounter, chargerSeen,
                         connMgr_timer>>
          /\ pevSequenceState \in {"READY_FOR_SLAC", "SOUNDING"}
      BY <1>e DEF SlacReady, Sounding, slacCounters
    <2>2. /\ replies' \subseteq Replies /\ inTransmit' \in BOOLEAN
      <3>1. UNCHANGED replies \/ Ask(IfUp({"SlacParamCnf"})) \/ Ask(IfUp({"AttenCharInd"}))
        BY <1>e DEF SlacReady, Sounding, TransmitThen
      <3>2. inTransmit' \in {TRUE, FALSE, inTransmit}
        BY <1>e DEF SlacReady, Sounding, TransmitThen
      <3> QED
        BY <3>1, <3>2, AskType, RepliesByName DEF ModemsTypeOK
    <2>3. remainingNumberOfSounds' \in 0 .. SOUNDS
      BY <1>e, SlacAssumption DEF SlacReady, Sounding, TransmitThen, SlacTypeOK, slacCounters
    <2>4. \/ UNCHANGED <<pevSequenceState, pevSequenceCyclesInState>>
          \/ Stay
          \/ ~inTransmit' /\ slac_enterState("WAITING_FOR_SLAC_PARAM_CNF")
          \/ ~inTransmit' /\ slac_enterState("WAIT_FOR_ATTEN_CHAR_IND")
      BY <1>e DEF SlacReady, Sounding, TransmitThen
    <2>5. StateOK
      BY <2>4, <1>s, SlacStateType DEF SlacTypeOK
    <2>6. \/ pevSequenceState' \in {"READY_FOR_SLAC", "SOUNDING"}
          \/ /\ ~inTransmit'
             /\ pevSequenceState' \in {"WAITING_FOR_SLAC_PARAM_CNF", "WAIT_FOR_ATTEN_CHAR_IND"}
      BY <2>1, <2>4 DEF Stay, slac_enterState
    <2>7. inTransmit' => SlacIsDue'
      BY <1>e, <1>1 DEF SlacIsDue
    <2> QED
      BY <2>1, <2>2, <2>3, <2>5, <2>6, <2>7, <1>1
      DEF MissingIsReset, TransmitHolds, SlacTypeOK, ModemsTypeOK, Timers
  <1>h. CASE SlacIsDue /\ DelayBeforeMatch
    <2>1. /\ UNCHANGED <<slacCounters, joined, restart, chargerSeen, connMgr_timer>>
          /\ pevSequenceState = "DELAY_BEFORE_MATCH" /\ SlacIsDue
      BY <1>h DEF DelayBeforeMatch, CountDelay, modemVars
    <2>2. \/ CountDelay
          \/ /\ DelayOver /\ UNCHANGED pevSequenceDelayCycles
             /\ TransmitThen(
                /\ Ask(IfUp({"SlacMatchCnf"}))
                /\ UNCHANGED <<pevSequenceState, pevSequenceCyclesInState>>,
                /\ slac_enterState("WAITING_FOR_SLAC_MATCH_CNF")
                /\ UNCHANGED replies)
      BY <1>h DEF DelayBeforeMatch
    <2>3. replies' \subseteq Replies /\ inTransmit' \in BOOLEAN
      <3>1. UNCHANGED replies \/ Ask(IfUp({"SlacMatchCnf"}))
        BY <2>2 DEF CountDelay, modemVars, TransmitThen
      <3>2. inTransmit' \in {TRUE, FALSE, inTransmit}
        BY <2>2 DEF CountDelay, modemVars, TransmitThen
      <3> QED
        BY <3>1, <3>2, AskType, RepliesByName DEF ModemsTypeOK
    <2>4. pevSequenceDelayCycles' \in Nat
      BY <2>2 DEF CountDelay, SlacTypeOK, TransmitThen
    <2>5. \/ /\ UNCHANGED <<pevSequenceState, pevSequenceCyclesInState>>
             /\ DelayOver /\ UNCHANGED pevSequenceDelayCycles
          \/ Stay /\ ~inTransmit'
          \/ ~inTransmit' /\ slac_enterState("WAITING_FOR_SLAC_MATCH_CNF")
      BY <2>1, <2>2, <1>1
      DEF CountDelay, TransmitThen, modemVars, TransmitHolds, DelayOver, SlacTypeOK
    <2>6. StateOK
      BY <2>5, <1>s, SlacStateType DEF SlacTypeOK
    <2>7. /\ pevSequenceState' \in {"DELAY_BEFORE_MATCH", "WAITING_FOR_SLAC_MATCH_CNF"}
          /\ inTransmit' => pevSequenceState' = "DELAY_BEFORE_MATCH" /\ DelayOver' /\ SlacIsDue'
      BY <2>1, <2>5, <1>1 DEF Stay, slac_enterState, DelayOver, SlacIsDue
    <2> QED
      BY <2>1, <2>3, <2>4, <2>6, <2>7, <1>1
      DEF MissingIsReset, TransmitHolds, SlacTypeOK, ModemsTypeOK, Timers, slacCounters
  <1>i. CASE SlacIsDue /\ WaitForRestart2
    <2>1. /\ UNCHANGED <<nRemainingStartAttenChar, remainingNumberOfSounds, joined, restart,
                         connMgr_timer>>
          /\ pevSequenceState = "WAITING_FOR_RESTART2" /\ SlacIsDue
      BY <1>i DEF WaitForRestart2, CountDelay, modemVars, slacCounters
    <2>2. \/ CountDelay
          \/ /\ DelayOver /\ UNCHANGED pevSequenceDelayCycles
             /\ TransmitThen(
                /\ numberOfFoundModems' = 0 /\ chargerSeen' = FALSE
                /\ nEvseModemMissingCounter' = 0
                /\ AskModems("GetKeyLocal", "GetKeyCharger")
                /\ UNCHANGED <<pevSequenceState, pevSequenceCyclesInState>>,
                /\ slac_enterState("FIND_MODEMS2")
                /\ UNCHANGED <<numberOfFoundModems, nEvseModemMissingCounter, replies,
                               chargerSeen>>)
      BY <1>i DEF WaitForRestart2
    <2>3. replies' \subseteq Replies /\ inTransmit' \in BOOLEAN /\ chargerSeen' \in BOOLEAN
      <3>1. UNCHANGED replies \/ AskModems("GetKeyLocal", "GetKeyCharger")
        BY <2>2 DEF CountDelay, modemVars, TransmitThen
      <3>2. /\ inTransmit' \in {TRUE, FALSE, inTransmit}
            /\ chargerSeen' \in {FALSE, chargerSeen}
        BY <2>2 DEF CountDelay, modemVars, TransmitThen
      <3> QED
        BY <3>1, <3>2, AskType, RepliesByName DEF ModemsTypeOK, AskModems
    <2>4. /\ pevSequenceDelayCycles' \in Nat
          /\ numberOfFoundModems' \in Nat
          /\ nEvseModemMissingCounter' \in 0 .. MISSING_MAX + 1
      BY <2>2, SlacAssumption DEF CountDelay, SlacTypeOK, slacCounters, TransmitThen
    <2>5. \/ /\ UNCHANGED <<pevSequenceState, pevSequenceCyclesInState>>
             /\ DelayOver /\ UNCHANGED pevSequenceDelayCycles
             /\ nEvseModemMissingCounter' = 0
          \/ Stay /\ ~inTransmit'
          \/ /\ ~inTransmit' /\ slac_enterState("FIND_MODEMS2")
             /\ nEvseModemMissingCounter' = 0
      BY <2>1, <2>2, <1>1
      DEF CountDelay, TransmitThen, modemVars, TransmitHolds, MissingIsReset, DelayOver,
          SlacTypeOK
    <2>6. StateOK
      BY <2>5, <1>s, SlacStateType DEF SlacTypeOK
    <2>7. /\ pevSequenceState' \in {"WAITING_FOR_RESTART2", "FIND_MODEMS2"}
          /\ inTransmit' => /\ pevSequenceState' = "WAITING_FOR_RESTART2" /\ DelayOver'
                            /\ SlacIsDue' /\ nEvseModemMissingCounter' = 0
          /\ pevSequenceState' = "FIND_MODEMS2" => nEvseModemMissingCounter' = 0
      BY <2>1, <2>5, <1>1 DEF Stay, slac_enterState, DelayOver, SlacIsDue
    <2> QED
      BY <2>1, <2>3, <2>4, <2>6, <2>7, <1>1
      DEF MissingIsReset, TransmitHolds, SlacTypeOK, ModemsTypeOK, Timers
  <1> QED
    BY <1>q, <1>c, <1>d, <1>e, <1>h, <1>i

\* A call of the SDP client keeps the types.
LEMMA SdpStep ==
    ASSUME TypeInv, CallSdp PROVE TypeInv'
  <1> USE DEF TypeInv, TypeOK
  <1>1. /\ UNCHANGED <<connMgrVars, mofiVars, pevSequenceState, pevSequenceCyclesInState,
                       slacCounters, joined, restart, inTransmit, chargerSeen, upperOpen>>
        /\ task = "sdp" /\ task' = "upper"
    BY DEF CallSdp, runSdpStateMachine
  <1>2. replies' \subseteq Replies
    <2>1. UNCHANGED replies \/ Ask(IfJoined({"SdpResponse"}))
      BY DEF CallSdp, runSdpStateMachine, SdpNotDue, SdpStart, SdpWait, SdpRequest
    <2> QED
      BY <2>1, AskType, RepliesByName DEF ModemsTypeOK
  <1>3. pevSequenceDelayCycles' \in Nat /\ SdpTypeOK'
    BY SdpAssumption DEF CallSdp, runSdpStateMachine, SdpNotDue, SdpStart, SdpWait,
                         SdpRequest, SdpTypeOK, SlacTypeOK, sdpVars
  <1>4. SlacTypeOK'
    BY <1>1, <1>3 DEF SlacTypeOK, slacCounters
  <1>5. ConnMgrTypeOK' /\ MofiTypeOK' /\ ModemsTypeOK'
    BY <1>1, <1>2 DEF ConnMgrTypeOK, MofiTypeOK, ModemsTypeOK, connMgrVars, mofiVars
  <1> QED
    BY <1>1, <1>3, <1>4, <1>5 DEF TransmitHolds, MissingIsReset, slacCounters

\* A frame taken from the modems keeps the types.
LEMMA ReceiveStep ==
    ASSUME TypeInv, Receive PROVE TypeInv'
  <1> USE DEF TypeInv, TypeOK
  <1>1. UNCHANGED <<connMgr_ConnectionLevel, isEthLinkUp, inTransmit, task, upperOpen, sdpVars,
                    mofi_state, mofi_stateDelay, nRemainingStartAttenChar,
                    remainingNumberOfSounds, nEvseModemMissingCounter>>
    BY DEF Receive, evaluateGetSwCnf, SlacReceive, ReceiveSdp, evaluateSlacParamCnf,
           evaluateAttenCharInd, evaluateSlacMatchCnf, evaluateSetKeyCnf, evaluateGetKeyCnf,
           connMgrVars, mofiVars, slacVars, slacCounters
  <1>2. connMgr_timer' \in Timers
    <2>1. connMgr_timer' \in {connMgr_timer, SlacOk(connMgr_timer), SdpOk(connMgr_timer)}
      BY DEF Receive, evaluateGetSwCnf, SlacReceive, ReceiveSdp, evaluateSlacParamCnf,
             evaluateAttenCharInd, evaluateSlacMatchCnf, evaluateSetKeyCnf,
             evaluateGetKeyCnf, connMgrVars
    <2> QED
      BY <2>1, ReportType DEF ConnMgrTypeOK, Timers
  <1>3. ModemsTypeOK'
    <2>1. CASE evaluateSlacMatchCnf
      <3>1. replies \ {"SlacMatchCnf"} \in SUBSET Replies
        BY DEF ModemsTypeOK
      <3> QED
        BY <2>1, <3>1, SetKeyType DEF evaluateSlacMatchCnf, ModemsTypeOK
    <2>2. CASE evaluateSlacParamCnf \/ evaluateAttenCharInd \/ evaluateSetKeyCnf \/ ReceiveSdp
      BY <2>2 DEF evaluateSlacParamCnf, evaluateAttenCharInd, evaluateSetKeyCnf, ReceiveSdp,
                  ModemsTypeOK
    <2>3. ASSUME NEW reply \in replies, evaluateGetSwCnf(reply) \/ evaluateGetKeyCnf(reply)
          PROVE  ModemsTypeOK'
      <3>1. chargerSeen' \in BOOLEAN
        BY <2>3, Zenon DEF evaluateGetSwCnf, evaluateGetKeyCnf
      <3>2. replies' \subseteq Replies /\ UNCHANGED <<joined, restart, inTransmit>>
        BY <2>3 DEF evaluateGetSwCnf, evaluateGetKeyCnf, ModemsTypeOK
      <3> QED
        BY <3>1, <3>2 DEF ModemsTypeOK
    <2> QED
      BY <2>1, <2>2, <2>3 DEF Receive, SlacReceive
  <1>4. /\ numberOfSoftwareVersionResponses' \in Nat
        /\ numberOfFoundModems' \in Nat
        /\ pevSequenceDelayCycles' \in Nat
    BY DEF Receive, evaluateGetSwCnf, SlacReceive, ReceiveSdp, evaluateSlacParamCnf,
           evaluateAttenCharInd, evaluateSlacMatchCnf, evaluateSetKeyCnf, evaluateGetKeyCnf,
           mofiVars, slacVars, slacCounters, MofiTypeOK, SlacTypeOK
  <1>5. /\ pevSequenceCyclesInState' \in Nat
        /\ \/ pevSequenceState' = pevSequenceState /\ UNCHANGED pevSequenceDelayCycles
           \/ /\ pevSequenceState \in {"WAITING_FOR_SLAC_PARAM_CNF", "WAIT_FOR_ATTEN_CHAR_IND",
                                       "WAITING_FOR_SLAC_MATCH_CNF"}
              /\ pevSequenceState' \in {"SLAC_PARAM_CNF_RECEIVED", "ATTEN_CHAR_IND_RECEIVED",
                                        "WAITING_FOR_RESTART2"}
    BY DEF Receive, evaluateGetSwCnf, SlacReceive, ReceiveSdp, evaluateSlacParamCnf,
           evaluateAttenCharInd, evaluateSlacMatchCnf, evaluateSetKeyCnf, evaluateGetKeyCnf,
           slacVars, SlacTypeOK, slac_enterState
  <1>6. ConnMgrTypeOK' /\ MofiTypeOK' /\ SlacTypeOK' /\ SdpTypeOK'
    BY <1>1, <1>2, <1>4, <1>5
    DEF ConnMgrTypeOK, Timers, MofiTypeOK, SlacTypeOK, SdpTypeOK, sdpVars, SlacStates
  <1>7. TransmitHolds'
    BY <1>1, <1>5 DEF TransmitHolds, SlacIsDue, DelayOver
  <1>8. MissingIsReset'
    BY <1>1, <1>5 DEF MissingIsReset, TransmitHolds
  <1> QED
    BY <1>1, <1>3, <1>6, <1>7, <1>8

\* Every step keeps the types.
LEMMA TypeInvStep ==
    ASSUME TypeInv, [Next]_vars PROVE TypeInv'
  <1> USE DEF TypeInv, TypeOK
  <1>1. CASE CallConnMgr
    <2>1. ConnMgrTypeOK'
      BY <1>1, ConnMgrStepType DEF CallConnMgr
    <2>2. ModemsTypeOK'
      BY <1>1 DEF CallConnMgr, ModemsTick, ModemsTypeOK
    <2>3. MofiTypeOK' /\ SlacTypeOK' /\ SdpTypeOK' /\ MissingIsReset' /\ ~inTransmit'
      BY <1>1 DEF CallConnMgr, MofiTypeOK, SlacTypeOK, SdpTypeOK, MissingIsReset, mofiVars,
                  slacVars, slacCounters, sdpVars, TransmitHolds
    <2> QED
      BY <1>1, <2>1, <2>2, <2>3 DEF CallConnMgr, TransmitHolds
  <1>2. CASE CallModemFinder
    BY <1>2, FinderStep
  <1>3. CASE CallSlac
    BY <1>3, SlacStep
  <1>4. CASE CallSdp
    BY <1>4, SdpStep
  <1>5. CASE CallUpper
    BY <1>5 DEF CallUpper, ConnMgrTypeOK, ModemsTypeOK, MofiTypeOK, SlacTypeOK, SdpTypeOK,
                MissingIsReset, TransmitHolds, connMgrVars, modemVars, mofiVars, slacVars,
                slacCounters, sdpVars
  <1>6. CASE Receive
    BY <1>6, ReceiveStep
  <1>7. CASE UpperReport \/ LinkEvent
    <2>1. ConnMgrTypeOK'
      <3>1. CASE UpperReport
        BY <3>1, ReportType DEF UpperReport, ConnMgrTypeOK, Timers
      <3>2. CASE LinkEvent
        BY <3>2, ConnMgrStepType DEF LinkEvent
      <3> QED
        BY <1>7, <3>1, <3>2
    <2>2. UNCHANGED <<connMgr_ConnectionLevel, modemVars, mofiVars, slacVars, sdpVars, task,
                      upperOpen>>
      BY <1>7 DEF UpperReport, LinkEvent, EthLinkEvent
    <2> QED
      BY <2>1, <2>2 DEF ModemsTypeOK, MofiTypeOK, SlacTypeOK, SdpTypeOK, MissingIsReset,
                        TransmitHolds, SlacIsDue, DelayOver, modemVars, mofiVars, slacVars,
                        slacCounters, sdpVars
  <1>8. CASE ChargerEvent
    BY <1>8 DEF ChargerEvent, ChargerLeaves, ConnMgrTypeOK, ModemsTypeOK, MofiTypeOK,
                SlacTypeOK, SdpTypeOK, MissingIsReset, TransmitHolds, SlacIsDue, DelayOver,
                connMgrVars, mofiVars, slacVars, slacCounters, sdpVars
  <1>9. CASE UNCHANGED vars
    BY <1>9 DEF vars, ConnMgrTypeOK, ModemsTypeOK, MofiTypeOK, SlacTypeOK, SdpTypeOK,
                MissingIsReset, TransmitHolds, SlacIsDue, DelayOver, connMgrVars, modemVars,
                mofiVars, slacVars, slacCounters, sdpVars
  <1> QED
    BY <1>1, <1>2, <1>3, <1>4, <1>5, <1>6, <1>7, <1>8, <1>9 DEF Next, task30ms

\* The initial state is well typed.
LEMMA TypeInvInit ==
    ASSUME Init PROVE TypeInv
  <1>1. ConnMgrTypeOK
    BY ConnMgrInitType DEF Init
  <1>2. ModemsTypeOK
    BY DEF Init, ModemsInit, ModemsTypeOK
  <1>3. MofiTypeOK /\ SdpTypeOK
    BY MofiAssumption, SdpAssumption DEF Init, MofiInit, MofiTypeOK, SdpInit, SdpTypeOK
  <1>4. SlacTypeOK
    BY SlacAssumption DEF Init, SlacInit, SlacTypeOK, SlacStates
  <1> QED
    BY <1>1, <1>2, <1>3, <1>4
    DEF Init, TypeInv, TypeOK, TransmitHolds, MissingIsReset, ModemsInit, SlacInit

\* All variables keep their types; the count of missing modems stays within
\* its limit only because the state that checks it is always entered with a
\* count of zero (homeplug.ino:691, 712-721).
THEOREM PairingTypeCorrect == Spec => []TypeOK
  <1>1. Init => TypeInv
    BY TypeInvInit
  <1>2. TypeInv /\ [Next]_vars => TypeInv'
    BY TypeInvStep
  <1>3. TypeInv => TypeOK
    BY DEF TypeInv
  <1> QED
    BY <1>1, <1>2, <1>3, PTL DEF Spec

-----------------------------------------------------------------------------
(* The delay counter that SLAC and SDP share.                              *)

\* A call of the sequencer at another level than its own leaves it in
\* INITIAL, so that SDP, while it waits, has the counter for itself; when the
\* level falls back, SLAC starts from INITIAL before SDP has noticed, but it
\* does not use the counter in that call.
SlacIdleUnlessDue == task = "sdp" /\ ~SlacIsDue => pevSequenceState = "INITIAL"

SdpOwnsDelay ==
    sdp_state = 1 =>
        \/ pevSequenceState = "INITIAL"
        \/ task = "sdp" /\ SlacIsDue /\ pevSequenceState = "READY_FOR_SLAC"

DelayInv == TypeInv /\ SlacIdleUnlessDue /\ SdpOwnsDelay

\* A call of the sequencer outside of its levels.
LEMMA SlacOutOfTurn ==
    ASSUME CallSlac, ~SlacIsDue
    PROVE  /\ pevSequenceState' = "INITIAL"
           /\ UNCHANGED <<pevSequenceDelayCycles, slacCounters, modemVars, connMgr_timer>>
  BY DEF CallSlac, runSlacSequencer, SlacNotDue, slac_enterState

\* A call of the sequencer in INITIAL.
LEMMA SlacFromInitial ==
    ASSUME TypeInv, CallSlac, pevSequenceState = "INITIAL"
    PROVE  /\ \/ pevSequenceState' = "INITIAL"
              \/ task' = "sdp" /\ SlacIsDue' /\ pevSequenceState' = "READY_FOR_SLAC"
           /\ UNCHANGED pevSequenceDelayCycles
  <1>1. ~inTransmit
    BY DEF CallSlac, TypeInv, TransmitHolds
  <1>2. SlacNotDue \/ (SlacIsDue /\ SlacInitial)
    BY DEF CallSlac, runSlacSequencer, SlacReady, WaitForSlacParamCnf, SlacParamCnfReceived,
           BeforeStartAttenChar, Sounding, WaitForAttenCharInd, AttenCharIndReceived,
           DelayBeforeMatch, WaitForSlacMatchCnf, WaitForRestart2, FindModems2
  <1>3. UNCHANGED <<connMgr_ConnectionLevel, inTransmit>>
    BY <1>2 DEF CallSlac, runSlacSequencer, SlacNotDue, SlacInitial, modemVars
  <1> QED
    BY <1>1, <1>2, <1>3 DEF CallSlac, SlacNotDue, SlacInitial, slac_enterState, SlacIsDue

\* What the receive task may do to the sequencer.
LEMMA ReceiveMovesSlac ==
    ASSUME Receive
    PROVE  /\ UNCHANGED <<task, connMgr_ConnectionLevel, sdp_state, mofi_state,
                          mofi_stateDelay, inTransmit>>
           /\ \/ UNCHANGED <<pevSequenceState, pevSequenceDelayCycles>>
              \/ /\ pevSequenceState = "WAITING_FOR_SLAC_PARAM_CNF"
                 /\ pevSequenceState' = "SLAC_PARAM_CNF_RECEIVED"
              \/ /\ pevSequenceState = "WAIT_FOR_ATTEN_CHAR_IND"
                 /\ pevSequenceState' = "ATTEN_CHAR_IND_RECEIVED"
                 /\ UNCHANGED pevSequenceDelayCycles
              \/ /\ pevSequenceState = "WAITING_FOR_SLAC_MATCH_CNF"
                 /\ pevSequenceState' = "WAITING_FOR_RESTART2"
                 /\ UNCHANGED pevSequenceDelayCycles
  BY DEF Receive, evaluateGetSwCnf, SlacReceive, ReceiveSdp, evaluateSlacParamCnf,
         evaluateAttenCharInd, evaluateSlacMatchCnf, evaluateSetKeyCnf, evaluateGetKeyCnf,
         connMgrVars, mofiVars, slacVars, sdpVars, slac_enterState

\* The steps that leave sequencer, SDP and modem finder alone.
LEMMA OthersLeaveSlac ==
    ASSUME CallConnMgr \/ CallUpper \/ UpperReport \/ LinkEvent \/ ChargerEvent
           \/ UNCHANGED vars
    PROVE  /\ UNCHANGED <<pevSequenceState, pevSequenceDelayCycles, numberOfFoundModems,
                          sdp_state, mofiVars, replies, inTransmit, chargerSeen>>
           /\ CallConnMgr \/ UNCHANGED connMgr_ConnectionLevel
  BY DEF CallConnMgr, CallUpper, UpperReport, LinkEvent, ChargerEvent, ChargerLeaves,
         EthLinkEvent, vars, connMgrVars, slacVars, slacCounters, sdpVars, modemVars, mofiVars

\* Every step keeps the delay counter with its owner.
LEMMA DelayInvStep ==
    ASSUME DelayInv, [Next]_vars PROVE DelayInv'
  <1> USE DEF DelayInv
  <1>t. TypeInv'
    BY TypeInvStep
  <1>1. CASE CallModemFinder
    BY <1>1, <1>t DEF CallModemFinder, slacVars, sdpVars, SlacIdleUnlessDue, SdpOwnsDelay
  <1>2. CASE CallSlac
    <2>1. UNCHANGED <<sdp_state, connMgr_ConnectionLevel>> /\ task = "slac"
      BY <1>2 DEF CallSlac, runSlacSequencer, sdpVars
    <2>2. SlacIdleUnlessDue'
      BY <1>2, <2>1, SlacOutOfTurn DEF SlacIdleUnlessDue, SlacIsDue
    <2>3. SdpOwnsDelay'
      BY <1>2, <2>1, SlacFromInitial DEF SdpOwnsDelay
    <2> QED
      BY <1>t, <2>2, <2>3
  <1>3. CASE CallSdp
    BY <1>3, <1>t
    DEF CallSdp, runSdpStateMachine, SdpNotDue, SdpStart, SdpWait, SdpRequest, sdpVars,
        SlacIdleUnlessDue, SdpOwnsDelay, SlacIsDue
  <1>4. CASE Receive
    BY <1>4, <1>t, ReceiveMovesSlac DEF SlacIdleUnlessDue, SdpOwnsDelay, SlacIsDue
  <1>5. CASE CallConnMgr \/ CallUpper \/ UpperReport \/ LinkEvent \/ ChargerEvent
             \/ UNCHANGED vars
    <2>1. task' = task \/ CallConnMgr \/ CallUpper
      BY <1>5 DEF CallConnMgr, CallUpper, UpperReport, LinkEvent, ChargerEvent, vars
    <2>2. CASE CallConnMgr
      BY <1>t, <2>2, OthersLeaveSlac DEF CallConnMgr, SlacIdleUnlessDue, SdpOwnsDelay
    <2>3. CASE ~CallConnMgr
      BY <1>t, <1>5, <2>1, <2>3, OthersLeaveSlac
      DEF SlacIdleUnlessDue, SdpOwnsDelay, SlacIsDue, CallUpper
    <2> QED
      BY <2>2, <2>3
  <1> QED
    BY <1>1, <1>2, <1>3, <1>4, <1>5 DEF Next, task30ms

\* While SDP waits for an answer, nobody else touches the delay counter that
\* it shares with SLAC, however the level changes and whatever SLAC frame
\* comes late (homeplug.ino:561-574, 176-185, 737-779).
THEOREM DelayStaysWithOwner == Spec => DelayHasOneOwner
  <1>1. Init => DelayInv
    <2> SUFFICES ASSUME Init PROVE DelayInv
      OBVIOUS
    <2>1. TypeInv
      BY TypeInvInit
    <2>2. SlacIdleUnlessDue /\ SdpOwnsDelay
      BY DEF Init, SlacIdleUnlessDue, SdpOwnsDelay, SdpInit
    <2> QED
      BY <2>1, <2>2 DEF DelayInv
  <1>2. DelayInv /\ [Next]_vars => DelayInv'
    BY DelayInvStep
  <1>3. DelayInv /\ [Next]_vars =>
          [sdp_state = 1 /\ pevSequenceDelayCycles' # pevSequenceDelayCycles
             => task = "sdp"]_vars
    <2> SUFFICES ASSUME DelayInv, [Next]_vars, sdp_state = 1,
                        pevSequenceDelayCycles' # pevSequenceDelayCycles
                 PROVE  task = "sdp"
      OBVIOUS
    <2>1. ~CallModemFinder
      BY DEF CallModemFinder, slacVars
    <2>2. CASE CallSlac
      BY <2>2, SlacFromInitial DEF DelayInv, SdpOwnsDelay, CallSlac
    <2>3. CASE Receive
      BY <2>3, ReceiveMovesSlac DEF DelayInv, SdpOwnsDelay
    <2>4. CASE CallSdp
      BY <2>4 DEF CallSdp
    <2> QED
      BY <2>1, <2>2, <2>3, <2>4, OthersLeaveSlac DEF Next, task30ms
  <1> QED
    BY <1>1, <1>2, <1>3, PTL DEF Spec, DelayHasOneOwner

-----------------------------------------------------------------------------
(* The two counts of modems.                                               *)

\* The states of the sequencer before it waits to send SLAC_MATCH.REQ.
BeforeMatch ==
    {"INITIAL", "READY_FOR_SLAC", "WAITING_FOR_SLAC_PARAM_CNF", "SLAC_PARAM_CNF_RECEIVED",
     "BEFORE_START_ATTEN_CHAR", "SOUNDING", "WAIT_FOR_ATTEN_CHAR_IND",
     "ATTEN_CHAR_IND_RECEIVED"}

\* The call of the sequencer in this cycle is still to come and finds a level
\* that is not its own: it will leave SLAC in INITIAL.
SlacWillStop == task \in {"finder", "slac"} /\ ~SlacIsDue

\* While the modem finder counts, SLAC does not get as far as its own count:
\* the delay before SLAC_MATCH.REQ is not shorter than the search.
SearchBeforeMatch ==
    mofi_state = 1 /\ ~(task = "slac" /\ SlacWillStop) =>
        \/ pevSequenceState \in BeforeMatch
        \/ /\ pevSequenceState = "DELAY_BEFORE_MATCH"
           /\ pevSequenceDelayCycles >= mofi_stateDelay
           /\ task = "slac" => pevSequenceDelayCycles > mofi_stateDelay

\* How many of two modems have answered: the charger's is one of them only if
\* it was seen.
Heard(localReply, chargerReply) ==
    (IF localReply \in replies THEN 0 ELSE 1)
    + (IF chargerReply \notin replies /\ chargerSeen THEN 1 ELSE 0)

SearchCount ==
    mofi_state = 1 =>
        numberOfSoftwareVersionResponses <= Heard("GetSwLocal", "GetSwCharger")

SlacCounts ==
    \/ pevSequenceState = "FIND_MODEMS2"
    \/ task = "slac" /\ inTransmit /\ pevSequenceState = "WAITING_FOR_RESTART2"

SlacCount ==
    SlacCounts /\ ~SlacWillStop =>
        numberOfFoundModems <= Heard("GetKeyLocal", "GetKeyCharger")

CountInv == DelayInv /\ SearchBeforeMatch /\ SearchCount /\ SlacCount

\* A count above one means that the charger was heard.
LEMMA TwoIncludeTheCharger ==
    ASSUME NEW n \in Nat, NEW l, NEW c, n <= Heard(l, c), n >= 2
    PROVE  chargerSeen
  BY DEF Heard

\* What a call of the sequencer does to the counts: it starts its own, or
\* leaves them alone and asks for other replies than theirs.
LEMMA SlacLeavesCounts ==
    ASSUME TypeInv, CallSlac
    PROVE  \/ /\ pevSequenceState = "WAITING_FOR_RESTART2" /\ SlacIsDue
              /\ pevSequenceState' = "WAITING_FOR_RESTART2"
              /\ numberOfFoundModems' = 0
              /\ replies' \subseteq replies \cup {"GetKeyLocal", "GetKeyCharger"}
              /\ replies \subseteq replies'
           \/ /\ UNCHANGED <<numberOfFoundModems, chargerSeen>>
              /\ replies' \subseteq replies \cup {"SlacParamCnf", "AttenCharInd", "SlacMatchCnf"}
              /\ replies \subseteq replies'
              /\ pevSequenceState' = "FIND_MODEMS2" =>
                    \/ pevSequenceState = "FIND_MODEMS2"
                    \/ inTransmit /\ pevSequenceState = "WAITING_FOR_RESTART2"
              /\ ~(inTransmit' /\ pevSequenceState' = "WAITING_FOR_RESTART2")
  <1> DEFINE Others == {"SlacParamCnf", "AttenCharInd", "SlacMatchCnf"}
             Quiet == /\ UNCHANGED <<numberOfFoundModems, chargerSeen>>
                      /\ replies' \subseteq replies \cup Others
                      /\ replies \subseteq replies'
  <1>1. ASSUME NEW expected, Ask(expected)
        PROVE  replies' \subseteq replies \cup expected /\ replies \subseteq replies'
    BY <1>1 DEF Ask
  <1>2. /\ IfUp({"SlacParamCnf"}) \subseteq Others
        /\ IfUp({"AttenCharInd"}) \subseteq Others
        /\ IfUp({"SlacMatchCnf"}) \subseteq Others
        /\ IfUp({"GetKeyLocal"}) \cup IfJoined({"GetKeyCharger"})
             \subseteq {"GetKeyLocal", "GetKeyCharger"}
    BY DEF IfUp, IfJoined
  <1>3. CASE \/ SlacNotDue \/ SlacInitial \/ WaitForSlacParamCnf \/ WaitForAttenCharInd
             \/ SlacParamCnfReceived \/ BeforeStartAttenChar \/ AttenCharIndReceived
             \/ WaitForSlacMatchCnf \/ FindModems2
    <2>1. Quiet
      BY <1>3 DEF SlacNotDue, SlacInitial, WaitForSlacParamCnf, WaitForAttenCharInd,
             SlacParamCnfReceived, BeforeStartAttenChar, AttenCharIndReceived, CountDelay,
             WaitForSlacMatchCnf, FindModems2, slacCounters, modemVars
    <2>2. pevSequenceState' = "FIND_MODEMS2" => pevSequenceState = "FIND_MODEMS2"
      BY <1>3 DEF SlacNotDue, SlacInitial, WaitForSlacParamCnf, WaitForAttenCharInd,
             SlacParamCnfReceived, BeforeStartAttenChar, AttenCharIndReceived, CountDelay,
             WaitForSlacMatchCnf, FindModems2, slac_enterState, Stay
    <2>3. ~(inTransmit' /\ pevSequenceState' = "WAITING_FOR_RESTART2")
      <3>1. CASE SlacNotDue
        BY <3>1 DEF SlacNotDue, slac_enterState
      <3>2. CASE ~SlacNotDue
        <4>1. pevSequenceState \notin {"READY_FOR_SLAC", "SOUNDING", "DELAY_BEFORE_MATCH",
                                       "WAITING_FOR_RESTART2"} /\ UNCHANGED inTransmit
          BY <1>3, <3>2 DEF SlacInitial, WaitForSlacParamCnf, WaitForAttenCharInd,
                 SlacParamCnfReceived, BeforeStartAttenChar, AttenCharIndReceived, CountDelay,
                 WaitForSlacMatchCnf, FindModems2, modemVars
        <4> QED
          BY <4>1 DEF TypeInv, TransmitHolds, CallSlac
      <3> QED
        BY <3>1, <3>2
    <2> QED
      BY <2>1, <2>2, <2>3
  <1>4. CASE SlacReady \/ Sounding
    <2>1. UNCHANGED replies \/ Ask(IfUp({"SlacParamCnf"})) \/ Ask(IfUp({"AttenCharInd"}))
      BY <1>4 DEF SlacReady, Sounding, TransmitThen
    <2>2. /\ UNCHANGED <<numberOfFoundModems, chargerSeen>>
          /\ pevSequenceState' \notin {"FIND_MODEMS2", "WAITING_FOR_RESTART2"}
      BY <1>4 DEF SlacReady, Sounding, TransmitThen, slacCounters, slac_enterState, Stay
    <2> QED
      BY <1>1, <1>2, <2>1, <2>2
  <1>5. CASE DelayBeforeMatch
    <2>1. UNCHANGED replies \/ Ask(IfUp({"SlacMatchCnf"}))
      BY <1>5 DEF DelayBeforeMatch, CountDelay, TransmitThen, modemVars
    <2>2. /\ UNCHANGED <<numberOfFoundModems, chargerSeen>>
          /\ pevSequenceState' \notin {"FIND_MODEMS2", "WAITING_FOR_RESTART2"}
      BY <1>5 DEF DelayBeforeMatch, CountDelay, TransmitThen, modemVars, slacCounters,
                  slac_enterState, Stay
    <2> QED
      BY <1>1, <1>2, <2>1, <2>2
  <1>6. CASE SlacIsDue /\ WaitForRestart2
    <2>1. pevSequenceState = "WAITING_FOR_RESTART2"
      BY <1>6 DEF WaitForRestart2
    <2>2. CASE CountDelay
      <3>1. ~inTransmit
        BY <2>1, <2>2 DEF CountDelay, TypeInv, TransmitHolds, DelayOver, CallSlac, TypeOK,
                          SlacTypeOK
      <3> QED
        BY <2>1, <2>2, <3>1 DEF CountDelay, Stay, slacCounters, modemVars
    <2>3. CASE /\ numberOfFoundModems' = 0
               /\ AskModems("GetKeyLocal", "GetKeyCharger")
               /\ UNCHANGED pevSequenceState
      BY <1>1, <1>2, <1>6, <2>1, <2>3 DEF AskModems
    <2>4. CASE /\ inTransmit /\ inTransmit' = FALSE
               /\ slac_enterState("FIND_MODEMS2")
               /\ UNCHANGED <<numberOfFoundModems, replies, chargerSeen>>
      BY <2>1, <2>4
    <2> QED
      BY <1>6, <2>2, <2>3, <2>4 DEF WaitForRestart2, TransmitThen
  <1> QED
    BY <1>3, <1>4, <1>5, <1>6 DEF CallSlac, runSlacSequencer

\* The way of the sequencer up to the delay before SLAC_MATCH.REQ.
LEMMA SlacUpToMatch ==
    ASSUME TypeInv, CallSlac, SlacIsDue
    PROVE  /\ pevSequenceState \in BeforeMatch =>
                \/ pevSequenceState' \in BeforeMatch
                \/ /\ pevSequenceState' = "DELAY_BEFORE_MATCH"
                   /\ pevSequenceDelayCycles' = MATCH_DELAY
                   /\ ~inTransmit'
           /\ pevSequenceState = "DELAY_BEFORE_MATCH" /\ ~DelayOver =>
                /\ pevSequenceState' = "DELAY_BEFORE_MATCH"
                /\ pevSequenceDelayCycles' = pevSequenceDelayCycles - 1
                /\ ~inTransmit'
  <1>1. ASSUME pevSequenceState \in BeforeMatch
        PROVE  \/ pevSequenceState' \in BeforeMatch
               \/ /\ pevSequenceState' = "DELAY_BEFORE_MATCH"
                  /\ pevSequenceDelayCycles' = MATCH_DELAY
                  /\ ~inTransmit'
    <2>1. CASE AttenCharIndReceived
      BY <2>1 DEF AttenCharIndReceived, slac_enterState, modemVars, TypeInv, TransmitHolds,
                  CallSlac
    <2>2. CASE \/ SlacNotDue \/ SlacInitial \/ SlacReady \/ WaitForSlacParamCnf
               \/ SlacParamCnfReceived \/ BeforeStartAttenChar \/ Sounding
               \/ WaitForAttenCharInd
      BY <1>1, <2>2
      DEF SlacNotDue, SlacInitial, SlacReady, WaitForSlacParamCnf, SlacParamCnfReceived,
          BeforeStartAttenChar, CountDelay, Sounding, WaitForAttenCharInd, TransmitThen,
          slac_enterState, Stay, BeforeMatch
    <2> QED
      BY <1>1, <2>1, <2>2
      DEF CallSlac, runSlacSequencer, BeforeMatch, DelayBeforeMatch, WaitForSlacMatchCnf,
          WaitForRestart2, FindModems2
  <1>2. ASSUME pevSequenceState = "DELAY_BEFORE_MATCH", ~DelayOver
        PROVE  /\ pevSequenceState' = "DELAY_BEFORE_MATCH"
               /\ pevSequenceDelayCycles' = pevSequenceDelayCycles - 1
               /\ ~inTransmit'
    <2>1. DelayBeforeMatch
      BY <1>2 DEF CallSlac, runSlacSequencer, SlacNotDue, SlacInitial, SlacReady,
                  WaitForSlacParamCnf, SlacParamCnfReceived, BeforeStartAttenChar, Sounding,
                  WaitForAttenCharInd, AttenCharIndReceived, WaitForSlacMatchCnf,
                  WaitForRestart2, FindModems2
    <2> QED
      BY <1>2, <2>1 DEF DelayBeforeMatch, TransmitThen, CountDelay, Stay, modemVars, TypeInv,
                        TransmitHolds, CallSlac
  <1> QED
    BY <1>1, <1>2

\* Every step keeps the modem finder's search ahead of SLAC's count.
LEMMA SearchStep ==
    ASSUME CountInv, [Next]_vars PROVE SearchBeforeMatch'
  <1> USE DEF CountInv, DelayInv
  <1>t. /\ mofi_stateDelay \in 0 .. MOFI_DELAY /\ pevSequenceDelayCycles \in Nat
        /\ MOFI_DELAY \in Nat /\ MATCH_DELAY \in Nat /\ MOFI_DELAY <= MATCH_DELAY
    BY MofiAssumption, SlacAssumption, SearchAssumption
    DEF TypeInv, TypeOK, MofiTypeOK, SlacTypeOK
  <1>1. CASE CallModemFinder
    <2>1. /\ UNCHANGED <<pevSequenceState, pevSequenceDelayCycles, connMgr_ConnectionLevel>>
          /\ task = "finder" /\ task' = IF inTransmit' THEN "finder" ELSE "slac"
      BY <1>1 DEF CallModemFinder, modemFinder_Mainfunction, slacVars
    <2>2. CASE StartSearch
      BY <2>1, <2>2, <1>1
      DEF StartSearch, SearchBeforeMatch, SlacWillStop, SlacIsDue, mofiVars, TypeInv,
          TransmitHolds
    <2>3. CASE MofiWait
      <3>1. mofi_stateDelay' = mofi_stateDelay - 1 /\ UNCHANGED mofi_state
        BY <2>3 DEF MofiWait
      <3> QED
        BY <2>1, <3>1, <1>t DEF SearchBeforeMatch, SlacWillStop, SlacIsDue
    <2>4. CASE EvaluateSearch \/ EndSearch \/ MofiIdle
      BY <2>4 DEF EvaluateSearch, EndSearch, MofiIdle, mofiVars, SearchBeforeMatch
    <2> QED
      BY <1>1, <2>2, <2>3, <2>4 DEF CallModemFinder, modemFinder_Mainfunction
  <1>2. CASE CallSlac
    <2>1. /\ UNCHANGED <<mofiVars, connMgr_ConnectionLevel>> /\ task = "slac"
          /\ task' = IF inTransmit' THEN "slac" ELSE "sdp"
      BY <1>2 DEF CallSlac, runSlacSequencer
    <2>2. CASE ~SlacIsDue
      BY <1>2, <2>2, SlacOutOfTurn DEF SearchBeforeMatch, BeforeMatch
    <2>3. CASE SlacIsDue /\ mofi_state = 1
      <3>1. CASE pevSequenceState \in BeforeMatch
        BY <1>2, <1>t, <2>1, <2>3, <3>1, SlacUpToMatch DEF SearchBeforeMatch, mofiVars
      <3>2. CASE /\ pevSequenceState = "DELAY_BEFORE_MATCH"
                 /\ pevSequenceDelayCycles > mofi_stateDelay
        <4>1. ~DelayOver
          BY <1>t, <3>2 DEF DelayOver
        <4> QED
          BY <1>2, <1>t, <2>1, <2>3, <3>2, <4>1, SlacUpToMatch
          DEF SearchBeforeMatch, mofiVars
      <3> QED
        BY <2>1, <2>3, <3>1, <3>2 DEF SearchBeforeMatch, SlacWillStop
    <2> QED
      BY <2>1, <2>2, <2>3 DEF SearchBeforeMatch, mofiVars
  <1>3. CASE CallSdp
    <2>1. UNCHANGED <<mofiVars, pevSequenceState, connMgr_ConnectionLevel>> /\ task = "sdp"
          /\ task' = "upper"
      BY <1>3 DEF CallSdp, runSdpStateMachine, connMgrVars
    <2>2. CASE SlacIsDue
      BY <1>3, <2>1, <2>2
      DEF CallSdp, runSdpStateMachine, SdpNotDue, SdpStart, SdpWait, SdpRequest, SlacIsDue,
          SearchBeforeMatch, mofiVars
    <2>3. CASE ~SlacIsDue
      BY <2>1, <2>3, <1>3 DEF SlacIdleUnlessDue, SearchBeforeMatch, BeforeMatch
    <2> QED
      BY <2>2, <2>3
  <1>4. CASE Receive
    BY <1>4, ReceiveMovesSlac DEF SearchBeforeMatch, SlacWillStop, SlacIsDue, BeforeMatch
  <1>5. CASE CallConnMgr \/ CallUpper \/ UpperReport \/ LinkEvent \/ ChargerEvent
             \/ UNCHANGED vars
    <2>1. CASE CallConnMgr
      BY <2>1, OthersLeaveSlac DEF CallConnMgr, SearchBeforeMatch, mofiVars
    <2>2. CASE ~CallConnMgr
      <3>1. task' = task \/ CallUpper
        BY <1>5, <2>2 DEF CallUpper, UpperReport, LinkEvent, ChargerEvent, vars
      <3> QED
        BY <1>5, <2>2, <3>1, OthersLeaveSlac
        DEF CallUpper, SearchBeforeMatch, SlacWillStop, SlacIsDue, mofiVars
    <2> QED
      BY <2>1, <2>2
  <1> QED
    BY <1>1, <1>2, <1>3, <1>4, <1>5 DEF Next, task30ms

\* A count goes up by one with each reply of its own and is not touched by
\* other replies.
LEMMA HeardGrows ==
    ASSUME NEW l, NEW c, l # c
    PROVE  /\ replies' \cap {l, c} \subseteq replies /\ (chargerSeen => chargerSeen')
                => Heard(l, c) <= Heard(l, c)'
           /\ l \in replies /\ replies' = replies \ {l} /\ (chargerSeen => chargerSeen')
                => Heard(l, c) + 1 <= Heard(l, c)'
           /\ c \in replies /\ replies' = replies \ {c} /\ chargerSeen'
                => Heard(l, c) + 1 <= Heard(l, c)'
           /\ Heard(l, c) \in Nat /\ Heard(l, c)' \in Nat
  BY DEF Heard

\* What the receive task does to the counts.
LEMMA ReceiveCounts ==
    ASSUME Receive
    PROVE  /\ chargerSeen => chargerSeen'
           /\ \/ /\ UNCHANGED <<numberOfSoftwareVersionResponses, numberOfFoundModems>>
                 /\ replies' \subseteq replies \cup {"SetKeyCnf"}
              \/ /\ UNCHANGED numberOfFoundModems
                 /\ numberOfSoftwareVersionResponses' = numberOfSoftwareVersionResponses + 1
                 /\ \/ "GetSwLocal" \in replies /\ replies' = replies \ {"GetSwLocal"}
                    \/ /\ "GetSwCharger" \in replies /\ replies' = replies \ {"GetSwCharger"}
                       /\ chargerSeen'
              \/ /\ UNCHANGED numberOfSoftwareVersionResponses
                 /\ numberOfFoundModems' = numberOfFoundModems + 1
                 /\ \/ "GetKeyLocal" \in replies /\ replies' = replies \ {"GetKeyLocal"}
                    \/ /\ "GetKeyCharger" \in replies /\ replies' = replies \ {"GetKeyCharger"}
                       /\ chargerSeen'
  <1>1. ASSUME NEW reply \in replies, evaluateGetSwCnf(reply), UNCHANGED slacVars
        PROVE  /\ chargerSeen => chargerSeen'
               /\ UNCHANGED numberOfFoundModems
               /\ numberOfSoftwareVersionResponses' = numberOfSoftwareVersionResponses + 1
               /\ \/ "GetSwLocal" \in replies /\ replies' = replies \ {"GetSwLocal"}
                  \/ /\ "GetSwCharger" \in replies /\ replies' = replies \ {"GetSwCharger"}
                     /\ chargerSeen'
    BY <1>1 DEF evaluateGetSwCnf, slacVars, slacCounters
  <1>2. ASSUME NEW reply \in replies, evaluateGetKeyCnf(reply), UNCHANGED mofiVars
        PROVE  /\ chargerSeen => chargerSeen'
               /\ UNCHANGED numberOfSoftwareVersionResponses
               /\ numberOfFoundModems' = numberOfFoundModems + 1
               /\ \/ "GetKeyLocal" \in replies /\ replies' = replies \ {"GetKeyLocal"}
                  \/ /\ "GetKeyCharger" \in replies /\ replies' = replies \ {"GetKeyCharger"}
                     /\ chargerSeen'
    BY <1>2 DEF evaluateGetKeyCnf, mofiVars
  <1>3. ASSUME evaluateSlacMatchCnf
        PROVE  replies' \subseteq replies \cup {"SetKeyCnf"}
    BY <1>3 DEF evaluateSlacMatchCnf, SetKey, IfUp
  <1>4. CASE /\ \/ evaluateSlacParamCnf \/ evaluateAttenCharInd \/ evaluateSlacMatchCnf
                \/ evaluateSetKeyCnf
             /\ UNCHANGED mofiVars
    BY <1>3, <1>4
    DEF evaluateSlacParamCnf, evaluateAttenCharInd, evaluateSlacMatchCnf,
        evaluateSetKeyCnf, slacVars, slacCounters, mofiVars
  <1>5. CASE ReceiveSdp /\ UNCHANGED mofiVars
    BY <1>5 DEF ReceiveSdp, slacVars, slacCounters, mofiVars
  <1> QED
    BY <1>1, <1>2, <1>4, <1>5 DEF Receive, SlacReceive

\* What a call of the SDP client does to the replies.
LEMMA SdpLeavesCounts ==
    ASSUME CallSdp
    PROVE  /\ UNCHANGED <<mofiVars, numberOfFoundModems, chargerSeen, pevSequenceState,
                          connMgr_ConnectionLevel>>
           /\ task = "sdp" /\ task' = "upper"
           /\ replies' \subseteq replies \cup {"SdpResponse"}
  <1>1. UNCHANGED replies \/ Ask(IfJoined({"SdpResponse"}))
    BY DEF CallSdp, runSdpStateMachine, SdpNotDue, SdpStart, SdpWait, SdpRequest
  <1>2. replies' \subseteq replies \cup {"SdpResponse"}
    BY <1>1 DEF Ask, IfJoined
  <1> QED
    BY <1>2 DEF CallSdp, runSdpStateMachine, slacCounters, connMgrVars

\* Every step keeps the modem finder's count honest.
LEMMA SearchCountStep ==
    ASSUME CountInv, [Next]_vars PROVE SearchCount'
  <1> USE DEF CountInv, DelayInv
  <1> DEFINE L == "GetSwLocal"
             C == "GetSwCharger"
  <1>n. numberOfSoftwareVersionResponses \in Nat
    BY DEF TypeInv, TypeOK, MofiTypeOK
  <1>h. /\ replies' \cap {L, C} \subseteq replies /\ (chargerSeen => chargerSeen')
             => Heard(L, C) <= Heard(L, C)'
        /\ L \in replies /\ replies' = replies \ {L} /\ (chargerSeen => chargerSeen')
             => Heard(L, C) + 1 <= Heard(L, C)'
        /\ C \in replies /\ replies' = replies \ {C} /\ chargerSeen'
             => Heard(L, C) + 1 <= Heard(L, C)'
        /\ Heard(L, C) \in Nat /\ Heard(L, C)' \in Nat
    BY HeardGrows
  <1>k. ASSUME UNCHANGED <<mofi_state, numberOfSoftwareVersionResponses>>,
               replies' \cap {L, C} \subseteq replies, chargerSeen => chargerSeen'
        PROVE  SearchCount'
    BY <1>k, <1>n, <1>h DEF SearchCount
  <1>1. CASE CallModemFinder
    <2>1. CASE StartSearch
      BY <2>1, <1>h DEF StartSearch, SearchCount, mofiVars
    <2>2. CASE MofiWait \/ EndSearch \/ MofiIdle \/ EvaluateSearch
      BY <2>2, <1>h, <1>n DEF MofiWait, EndSearch, MofiIdle, EvaluateSearch, SearchCount,
                              modemVars, mofiVars, Heard
    <2> QED
      BY <1>1, <2>1, <2>2 DEF CallModemFinder, modemFinder_Mainfunction
  <1>2. CASE CallSlac
    <2>1. UNCHANGED mofiVars /\ task = "slac"
      BY <1>2 DEF CallSlac
    <2>2. CASE mofi_state = 1
      <3>1. ~(pevSequenceState = "WAITING_FOR_RESTART2" /\ SlacIsDue)
        BY <2>1, <2>2 DEF SearchBeforeMatch, BeforeMatch, SlacWillStop
      <3>2. replies' \cap {L, C} \subseteq replies /\ UNCHANGED chargerSeen
        BY <1>2, <3>1, SlacLeavesCounts
      <3> QED
        BY <1>k, <2>1, <3>2 DEF mofiVars
    <2> QED
      BY <2>1, <2>2 DEF SearchCount, mofiVars
  <1>3. CASE CallSdp
    BY <1>3, <1>k, SdpLeavesCounts DEF mofiVars
  <1>4. CASE Receive
    <2>1. UNCHANGED mofi_state
      BY <1>4, ReceiveMovesSlac
    <2>2. CASE UNCHANGED numberOfSoftwareVersionResponses
      <3>1. replies' \cap {L, C} \subseteq replies /\ (chargerSeen => chargerSeen')
        BY <1>4, <2>2, <1>n, ReceiveCounts
      <3> QED
        BY <2>1, <2>2, <3>1, <1>k
    <2>3. CASE ~UNCHANGED numberOfSoftwareVersionResponses
      BY <1>4, <2>1, <2>3, <1>h, <1>n, ReceiveCounts DEF SearchCount
    <2> QED
      BY <2>2, <2>3
  <1>5. CASE CallConnMgr \/ CallUpper \/ UpperReport \/ LinkEvent \/ ChargerEvent
             \/ UNCHANGED vars
    BY <1>5, <1>k, OthersLeaveSlac DEF mofiVars
  <1> QED
    BY <1>1, <1>2, <1>3, <1>4, <1>5 DEF Next, task30ms

\* Every step keeps the sequencer's count honest.
LEMMA SlacCountStep ==
    ASSUME CountInv, [Next]_vars PROVE SlacCount'
  <1> USE DEF CountInv, DelayInv
  <1> DEFINE L == "GetKeyLocal"
             C == "GetKeyCharger"
  <1>n. numberOfFoundModems \in Nat
    BY DEF TypeInv, TypeOK, SlacTypeOK
  <1>h. /\ replies' \cap {L, C} \subseteq replies /\ (chargerSeen => chargerSeen')
             => Heard(L, C) <= Heard(L, C)'
        /\ L \in replies /\ replies' = replies \ {L} /\ (chargerSeen => chargerSeen')
             => Heard(L, C) + 1 <= Heard(L, C)'
        /\ C \in replies /\ replies' = replies \ {C} /\ chargerSeen'
             => Heard(L, C) + 1 <= Heard(L, C)'
        /\ Heard(L, C) \in Nat /\ Heard(L, C)' \in Nat
    BY HeardGrows
  <1>k. ASSUME UNCHANGED numberOfFoundModems, SlacCounts' /\ ~SlacWillStop' => SlacCounts /\ ~SlacWillStop,
               replies' \cap {L, C} \subseteq replies, chargerSeen => chargerSeen'
        PROVE  SlacCount'
    BY <1>k, <1>n, <1>h DEF SlacCount
  <1>1. CASE CallModemFinder
    <2>1. /\ UNCHANGED <<pevSequenceState, numberOfFoundModems, connMgr_ConnectionLevel>>
          /\ task = "finder" /\ task' = IF inTransmit' THEN "finder" ELSE "slac"
      BY <1>1 DEF CallModemFinder, modemFinder_Mainfunction, slacVars, slacCounters
    <2>2. SlacCounts' /\ ~SlacWillStop' => SlacCounts /\ ~SlacWillStop
      BY <2>1 DEF SlacCounts, SlacWillStop, SlacIsDue
    <2>3. CASE SlacIsDue
      <3>1. ~StartSearch
        BY <2>3 DEF StartSearch, SlacIsDue
      <3>2. UNCHANGED <<replies, chargerSeen>>
        BY <1>1, <3>1 DEF CallModemFinder, modemFinder_Mainfunction, MofiWait, EndSearch,
                          MofiIdle, EvaluateSearch, modemVars
      <3> QED
        BY <1>k, <2>1, <2>2, <3>2
    <2>4. CASE ~SlacIsDue
      BY <2>1, <2>4 DEF SlacCount, SlacWillStop, SlacIsDue
    <2> QED
      BY <2>3, <2>4
  <1>2. CASE CallSlac
    <2>1. UNCHANGED connMgr_ConnectionLevel /\ task = "slac"
          /\ task' = IF inTransmit' THEN "slac" ELSE "sdp"
      BY <1>2 DEF CallSlac, runSlacSequencer
    <2>2. CASE ~SlacIsDue
      BY <1>2, <2>2, SlacOutOfTurn DEF SlacCount, SlacCounts
    <2>3. CASE numberOfFoundModems' = 0
      BY <2>3, <1>h DEF SlacCount
    <2>4. CASE SlacIsDue /\ numberOfFoundModems' # 0
      <3>1. /\ UNCHANGED <<numberOfFoundModems, chargerSeen>>
            /\ replies' \cap {L, C} \subseteq replies
            /\ SlacCounts' => SlacCounts
        BY <1>2, <2>1, <2>4, SlacLeavesCounts DEF SlacCounts
      <3> QED
        BY <1>k, <2>4, <3>1 DEF SlacWillStop
    <2> QED
      BY <2>2, <2>3, <2>4
  <1>3. CASE CallSdp
    <2>1. SlacCounts' => SlacCounts /\ ~SlacWillStop
      BY <1>3, SdpLeavesCounts DEF SlacCounts, SlacWillStop
    <2> QED
      BY <1>3, <1>k, <2>1, SdpLeavesCounts
  <1>4. CASE Receive
    <2>1. SlacCounts' /\ ~SlacWillStop' => SlacCounts /\ ~SlacWillStop
      BY <1>4, ReceiveMovesSlac DEF SlacCounts, SlacWillStop, SlacIsDue, TypeInv, TransmitHolds
    <2>2. CASE UNCHANGED numberOfFoundModems
      <3>1. replies' \cap {L, C} \subseteq replies /\ (chargerSeen => chargerSeen')
        BY <1>4, <2>2, <1>n, ReceiveCounts
      <3> QED
        BY <2>1, <2>2, <3>1, <1>k
    <2>3. CASE ~UNCHANGED numberOfFoundModems
      BY <1>4, <2>1, <2>3, <1>h, <1>n, ReceiveCounts DEF SlacCount
    <2> QED
      BY <2>2, <2>3
  <1>5. CASE CallConnMgr \/ CallUpper \/ UpperReport \/ LinkEvent \/ ChargerEvent
             \/ UNCHANGED vars
    <2>1. SlacCounts' /\ ~SlacWillStop' => SlacCounts /\ ~SlacWillStop
      <3>1. CASE CallConnMgr
        BY <3>1, OthersLeaveSlac DEF CallConnMgr, SlacCounts, SlacWillStop
      <3>2. CASE ~CallConnMgr
        <4>1. task' = task \/ CallUpper
          BY <1>5, <3>2 DEF CallUpper, UpperReport, LinkEvent, ChargerEvent, vars
        <4> QED
          BY <1>5, <3>2, <4>1, OthersLeaveSlac DEF CallUpper, SlacCounts, SlacWillStop, SlacIsDue
      <3> QED
        BY <3>1, <3>2
    <2> QED
      BY <1>5, <1>k, <2>1, OthersLeaveSlac
  <1> QED
    BY <1>1, <1>2, <1>3, <1>4, <1>5 DEF Next, task30ms

\* The timer of the charger's modem is loaded only by a count of two.
LEMMA OnlyTwoReport ==
    ASSUME TypeInv, [Next]_vars,
           connMgr_timer'["ModemRemote"] > connMgr_timer["ModemRemote"]
    PROVE  \/ CallModemFinder /\ mofi_state = 1 /\ numberOfSoftwareVersionResponses >= 2
           \/ /\ CallSlac /\ SlacIsDue /\ pevSequenceState = "FIND_MODEMS2"
              /\ numberOfFoundModems >= 2
  <1>t. /\ connMgr_timer \in Timers /\ connMgr_timer["ModemRemote"] \in 0 .. TIMER_MAX_15s
        /\ "ModemRemote" \in Layers
        /\ TIMER_MAX_15s \in Nat
        /\ numberOfSoftwareVersionResponses \in Nat /\ numberOfFoundModems \in Nat
    BY PairingAssumption, TimerAssumption
    DEF TypeInv, TypeOK, ConnMgrTypeOK, MofiTypeOK, SlacTypeOK, Timers, AllLayers
  <1>1. ASSUME NEW timer \in {SlacOk(connMgr_timer), SdpOk(connMgr_timer),
                              TcpOk(connMgr_timer)}
        PROVE  timer["ModemRemote"] = connMgr_timer["ModemRemote"]
    BY <1>t DEF SlacOk, SdpOk, TcpOk, Reload
  <1>2. CASE CallConnMgr
    <2>1. connMgr_timer'["ModemRemote"] = CountDown(connMgr_timer)["ModemRemote"]
      BY <1>2, <1>t DEF CallConnMgr, connMgr_Mainfunction, Reload
    <2> QED
      BY <2>1, <1>t DEF CountDown
  <1>3. CASE CallModemFinder
    <2>1. CASE EvaluateSearch
      <3>1. ASSUME ~(numberOfSoftwareVersionResponses >= 2) PROVE FALSE
        BY <1>t, <2>1, <3>1 DEF EvaluateSearch, ModemFinderOk, Reload
      <3> QED
        BY <1>3, <2>1, <3>1 DEF EvaluateSearch
    <2>2. CASE StartSearch \/ MofiWait \/ EndSearch \/ MofiIdle
      <3>1. UNCHANGED connMgr_timer
        BY <2>2 DEF StartSearch, MofiWait, EndSearch, MofiIdle
      <3> QED
        BY <1>t, <3>1
    <2> QED
      BY <1>3, <2>1, <2>2 DEF CallModemFinder, modemFinder_Mainfunction
  <1>4. CASE CallSlac
    <2>1. CASE SlacIsDue /\ FindModems2
      <3>1. CASE numberOfFoundModems > 1
        BY <1>t, <1>4, <2>1, <3>1 DEF FindModems2
      <3>2. CASE ~(numberOfFoundModems > 1)
        BY <1>t, <2>1, <3>2 DEF FindModems2, isEvseModemFound
      <3> QED
        BY <3>1, <3>2
    <2>2. CASE \/ SlacNotDue \/ SlacInitial \/ SlacReady \/ WaitForSlacParamCnf
               \/ SlacParamCnfReceived \/ BeforeStartAttenChar \/ Sounding
               \/ WaitForAttenCharInd \/ AttenCharIndReceived \/ DelayBeforeMatch
               \/ WaitForSlacMatchCnf \/ WaitForRestart2
      <3>1. UNCHANGED connMgr_timer
        BY <2>2 DEF SlacNotDue, SlacInitial, SlacReady, WaitForSlacParamCnf,
               SlacParamCnfReceived, BeforeStartAttenChar, CountDelay, Sounding,
               WaitForAttenCharInd, AttenCharIndReceived, DelayBeforeMatch, TransmitThen,
               WaitForSlacMatchCnf, WaitForRestart2
      <3> QED
        BY <1>t, <3>1
    <2> QED
      BY <1>4, <2>1, <2>2 DEF CallSlac, runSlacSequencer
  <1>5. CASE Receive
    <2>1. connMgr_timer' \in {connMgr_timer, SlacOk(connMgr_timer), SdpOk(connMgr_timer)}
      BY <1>5
      DEF Receive, evaluateGetSwCnf, SlacReceive, ReceiveSdp, evaluateSlacParamCnf,
          evaluateAttenCharInd, evaluateSlacMatchCnf, evaluateSetKeyCnf, evaluateGetKeyCnf,
          connMgrVars
    <2> QED
      BY <1>t, <1>1, <2>1
  <1>6. CASE CallSdp \/ CallUpper \/ UpperReport \/ LinkEvent \/ ChargerEvent \/ UNCHANGED vars
    <2>1. connMgr_timer' \in {connMgr_timer, TcpOk(connMgr_timer)}
      BY <1>6 DEF CallSdp, runSdpStateMachine, CallUpper, UpperReport, LinkEvent, EthLinkEvent,
                  ChargerEvent, vars, connMgrVars
    <2> QED
      BY <1>t, <1>1, <2>1
  <1> QED
    BY <1>2, <1>3, <1>4, <1>5, <1>6 DEF Next, task30ms

\* The invariant of the two counts holds at first.
LEMMA CountInvInit ==
    ASSUME Init PROVE CountInv
  <1>1. TypeInv
    BY TypeInvInit
  <1>2. SlacIdleUnlessDue /\ SdpOwnsDelay
    BY DEF Init, SlacIdleUnlessDue, SdpOwnsDelay, SdpInit
  <1>3. SearchBeforeMatch /\ SearchCount
    BY DEF Init, MofiInit, SearchBeforeMatch, SearchCount
  <1>4. SlacCount
    BY DEF Init, SlacInit, SlacCount, SlacCounts
  <1> QED
    BY <1>1, <1>2, <1>3, <1>4 DEF CountInv, DelayInv

\* Every step keeps the invariant of the two counts.
LEMMA CountInvStep ==
    ASSUME CountInv, [Next]_vars PROVE CountInv'
  BY DelayInvStep, SearchStep, SearchCountStep, SlacCountStep DEF CountInv

\* The connection manager is told of a paired charger only when the charger's
\* modem did answer in the count that says so.  The two counts never mix: the
\* modem finder's is over before SLAC can begin its own, and SLAC has left
\* its states before the modem finder begins another; and neither carries
\* anything over from an earlier one (homeplug.ino:543-548, 685-720,
\* modemFinder.ino:6-34).
THEOREM PairedIsAnswered == Spec => PairedMeansAnswered
  <1>1. Init => CountInv
    BY CountInvInit
  <1>2. CountInv /\ [Next]_vars => CountInv'
    BY CountInvStep
  <1>3. CountInv /\ [Next]_vars =>
          [connMgr_timer'["ModemRemote"] > connMgr_timer["ModemRemote"] => chargerSeen]_vars
    <2> SUFFICES ASSUME CountInv, [Next]_vars,
                        connMgr_timer'["ModemRemote"] > connMgr_timer["ModemRemote"]
                 PROVE  chargerSeen
      OBVIOUS
    <2>1. /\ numberOfSoftwareVersionResponses \in Nat /\ numberOfFoundModems \in Nat
          /\ TypeInv
      BY DEF CountInv, DelayInv, TypeInv, TypeOK, MofiTypeOK, SlacTypeOK
    <2>2. CASE mofi_state = 1 /\ numberOfSoftwareVersionResponses >= 2
      BY <2>1, <2>2, TwoIncludeTheCharger DEF CountInv, SearchCount
    <2>3. CASE CallSlac /\ SlacIsDue /\ pevSequenceState = "FIND_MODEMS2"
               /\ numberOfFoundModems >= 2
      BY <2>1, <2>3, TwoIncludeTheCharger
      DEF CountInv, SlacCount, SlacCounts, SlacWillStop, CallSlac
    <2> QED
      BY <2>1, <2>2, <2>3, OnlyTwoReport
  <1> QED
    BY <1>1, <1>2, <1>3, PTL DEF Spec, PairedMeansAnswered
=============================================================================
