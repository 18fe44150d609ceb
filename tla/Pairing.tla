------------------------------ MODULE Pairing -------------------------------
(***************************************************************************)
(* The lower half of the program: connection manager, modem finder, SLAC   *)
(* and SDP in the order in which task30ms calls them, with the Ethernet    *)
(* receive task running between any two of the calls and, where a call     *)
(* transmits and then changes its state, in the middle of it.              *)
(*                                                                         *)
(* The upper half appears only as the reports that keep the level at 50 or *)
(* above: none of these layers tells those levels apart, so the timer of   *)
(* TCP stands for the application's too.                                   *)
(***************************************************************************)
EXTENDS ModemFinder, Sdp

CONSTANT LinkMayFail  \* may the Ethernet link go down once it is up?

ASSUME PairingAssumption ==
    /\ Layers = AllLayers \ {"Appl"}
    /\ LinkMayFail \in BOOLEAN

\* 15 cycles against 30: the modem finder ends a count of modems before SLAC,
\* begun meanwhile, can come to its own.
ASSUME SearchAssumption == MOFI_DELAY <= MATCH_DELAY

VARIABLES
    task,       \* the call of task30ms that comes next
    upperOpen   \* does the upper half hold a connection?

vars == <<connMgrVars, modemVars, mofiVars, slacVars, sdpVars, task, upperOpen>>

TypeOK ==
    /\ ConnMgrTypeOK /\ ModemsTypeOK /\ MofiTypeOK /\ SlacTypeOK /\ SdpTypeOK
    /\ task \in {"connMgr", "finder", "slac", "sdp", "upper"}
    /\ upperOpen \in BOOLEAN

Init ==
    /\ ConnMgrInit /\ ModemsInit /\ MofiInit /\ SlacInit /\ SdpInit
    /\ task = "connMgr" /\ upperOpen = FALSE

-----------------------------------------------------------------------------
(* The main loop.                                                          *)

\* A new cycle begins; prompt replies have arrived by then.
CallConnMgr ==
    /\ task = "connMgr" /\ task' = "finder"
    /\ replies \subseteq LateReplies
    /\ connMgr_Mainfunction
    /\ ModemsTick
    /\ UNCHANGED <<replies, joined, inTransmit, chargerSeen, mofiVars, slacVars, sdpVars,
                   upperOpen>>

\* A call is over when it is not in the middle of a transmission.
CallModemFinder ==
    /\ task = "finder"
    /\ modemFinder_Mainfunction
    /\ task' = IF inTransmit' THEN "finder" ELSE "slac"
    /\ UNCHANGED <<slacVars, sdpVars, upperOpen>>

CallSlac ==
    /\ task = "slac"
    /\ runSlacSequencer
    /\ task' = IF inTransmit' THEN "slac" ELSE "sdp"
    /\ UNCHANGED <<mofiVars, sdpVars, upperOpen>>

CallSdp ==
    /\ task = "sdp" /\ task' = "upper"
    /\ runSdpStateMachine
    /\ UNCHANGED <<mofiVars, upperOpen>>

\* tcp_Mainfunction: connects at level 50, closes below.
CallUpper ==
    /\ task = "upper" /\ task' = "connMgr"
    /\ upperOpen' = (connMgr_ConnectionLevel >= 50)
    /\ UNCHANGED <<connMgrVars, modemVars, mofiVars, slacVars, sdpVars>>

task30ms == CallConnMgr \/ CallModemFinder \/ CallSlac \/ CallSdp \/ CallUpper

-----------------------------------------------------------------------------
(* The receive task and the rest of the world.                             *)

Receive ==
    /\ FastReplies \/ ~inTransmit
    /\ \/ /\ \E reply \in replies : evaluateGetSwCnf(reply)
          /\ UNCHANGED <<slacVars, sdpVars>>
       \/ SlacReceive /\ UNCHANGED <<mofiVars, sdpVars>>
       \/ ReceiveSdp /\ UNCHANGED mofiVars
    /\ UNCHANGED <<task, upperOpen>>

\* A TCP segment of the charger.
UpperReport ==
    /\ upperOpen
    /\ connMgr_timer' = TcpOk(connMgr_timer)
    /\ UNCHANGED <<connMgr_ConnectionLevel, isEthLinkUp, modemVars, mofiVars, slacVars,
                   sdpVars, task, upperOpen>>

\* Only connMgr_Mainfunction looks at the link: an event just before it stands
\* for one at any time since the last cycle.
LinkEvent ==
    /\ task = "connMgr"
    /\ \E isUp \in BOOLEAN : (isUp \/ LinkMayFail) /\ EthLinkEvent(isUp)
    /\ UNCHANGED <<modemVars, mofiVars, slacVars, sdpVars, task, upperOpen>>

ChargerEvent ==
    /\ ChargerLeaves
    /\ UNCHANGED <<connMgrVars, mofiVars, slacVars, sdpVars, task, upperOpen>>

Next == task30ms \/ Receive \/ UpperReport \/ LinkEvent \/ ChargerEvent

\* The main loop is called every 30 ms, and a frame that has arrived is
\* evaluated: the receive task gets its turn.
Fairness == WF_vars(task30ms) /\ WF_vars(Receive)

Spec == Init /\ [][Next]_vars /\ Fairness

\* An adaptor is plugged in sooner or later.
PluggedInSpec == Spec /\ SF_vars(LinkEvent)

-----------------------------------------------------------------------------
(* Safety.                                                                 *)

\* SLAC and SDP share one delay counter.  While SDP waits for an answer,
\* nobody else touches it, neither the sequencer nor a late SLAC frame
\* (homeplug.ino:561-574, 176-185, 737-779).
DelayHasOneOwner ==
    [][sdp_state = 1 /\ pevSequenceDelayCycles' # pevSequenceDelayCycles
       => task = "sdp"]_vars

\* With prompt modems, the connection manager is told of a paired charger
\* only when the charger's modem did answer in the count that says so: the
\* two counts of modems never mix and never carry over
\* (homeplug.ino:543-548, 685-720, modemFinder.ino:6-34).
PairedMeansAnswered ==
    [][connMgr_timer'["ModemRemote"] > connMgr_timer["ModemRemote"] => chargerSeen]_vars

\* "We should wait here at least 10s" (homeplug.ino:710): with a charger that
\* answers, the SLAC that set the key also sees the pairing succeed; the car
\* does not fall back to the modem search while the modems restart
\* (homeplug.ino:685-730, connMgr.ino:99-104).
SlacSeesThePairing ==
    [][(pevSequenceState \in {"WAITING_FOR_RESTART2", "FIND_MODEMS2"})
       => connMgr_ConnectionLevel' >= 10]_vars

\* The SDP client asks for the charger's address as long as it is its turn:
\* "Giving up" (homeplug.ino:776) never happens, because the connection
\* manager forgets the modems, 10 s after the count that found them, before
\* the tries are used up, whatever is lost (homeplug.ino:737-779,
\* connMgr.ino:90-97).
SdpAsksToTheEnd ==
    [][sdp_state = 1 /\ sdp_state' = 0 => connMgr_ConnectionLevel # 20]_vars

\* Once SLAC_PARAM.CNF is there, the sequencer ends at its level only with
\* the charger's modem found.  Neither the 500 cycles of its waits nor the 20
\* retries end it: whatever is lost, the connection manager forgets the local
\* modem first and takes the level away (homeplug.ino:556-559, 647-655,
\* 675-684, 705-735, connMgr.ino:48-104).
SlacEndsWithTheLevel ==
    [][/\ pevSequenceState \notin {"INITIAL", "WAITING_FOR_SLAC_PARAM_CNF"}
       /\ pevSequenceState' = "INITIAL" /\ SlacIsDue
       => pevSequenceState = "FIND_MODEMS2" /\ isEvseModemFound]_vars

-----------------------------------------------------------------------------
(* Liveness.                                                               *)

\* Whatever the modems answer or lose, the sequencer comes back to INITIAL:
\* no wait for a modem lasts forever, although the counter of missing modems
\* never ends one (homeplug.ino:561-735, connMgr.ino:48-88).
SlacIsLeft == pevSequenceState # "INITIAL" ~> pevSequenceState = "INITIAL"

\* With modems and a charger that answer every request in time, the car
\* finds the charger, however long (up to 10 s) the charger's modem takes
\* to restart with the new key (homeplug.ino:561-779, modemFinder.ino:6-42).
PairingSucceeds == <>(connMgr_ConnectionLevel >= 50)

-----------------------------------------------------------------------------
(* What comments in the source say and the program does not do.            *)

\* "We lost the connection to the EVSE modem. Back to the beginning"
\* (homeplug.ino:712): the retry counter counts on until the modem is found.
RetriesAreCounted ==
    [][nEvseModemMissingCounter' < nEvseModemMissingCounter => isEvseModemFound]_vars
=============================================================================
