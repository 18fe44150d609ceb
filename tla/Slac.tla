-------------------------------- MODULE Slac --------------------------------
(***************************************************************************)
(* The SLAC sequencer (homeplug.ino): with the local modem known but not   *)
(* the charger's, it finds the charger by the attenuation of test sounds,  *)
(* takes the charger's network key over, and asks for the modems of the    *)
(* new network until it sees two of them.  runSlacSequencer is called by   *)
(* the main loop; some of its transitions are made by the receive task.    *)
(***************************************************************************)
EXTENDS Modems

CONSTANTS           \* durations in cycles
    PARAM_CYCLES,   \* 33   wait for SLAC_PARAM.CNF
    TOO_LONG,       \* 500  limit of the other waits
    START_ATTEN,    \* 3    number of START_ATTEN_CHAR.IND
    SOUNDS,         \* 10   number of MNBC_SOUND.IND
    MATCH_DELAY,    \* 30   from ATTEN_CHAR.RSP to SLAC_MATCH.REQ
    RESTART_DELAY,  \* 100  for the modems to restart with the new key
    CHECK_CYCLES,   \* 10   to collect the answers to GET_KEY.REQ
    RECHECK_DELAY,  \* 30   until it is asked again
    MISSING_MAX     \* 20   number of times it is asked again

ASSUME SlacAssumption ==
    /\ {PARAM_CYCLES, TOO_LONG, START_ATTEN, SOUNDS, MATCH_DELAY, RESTART_DELAY,
        CHECK_CYCLES, RECHECK_DELAY, MISSING_MAX} \subseteq Nat \ {0}

VARIABLES
    pevSequenceState, pevSequenceCyclesInState,
    pevSequenceDelayCycles,     \* used by the SLAC sequencer and by SDP
    nRemainingStartAttenChar, remainingNumberOfSounds,
    numberOfFoundModems, nEvseModemMissingCounter

slacCounters == <<nRemainingStartAttenChar, remainingNumberOfSounds,
                  numberOfFoundModems, nEvseModemMissingCounter>>
slacVars == <<pevSequenceState, pevSequenceCyclesInState, pevSequenceDelayCycles,
              slacCounters>>

SlacStates == {"INITIAL", "READY_FOR_SLAC", "WAITING_FOR_SLAC_PARAM_CNF",
               "SLAC_PARAM_CNF_RECEIVED", "BEFORE_START_ATTEN_CHAR", "SOUNDING",
               "WAIT_FOR_ATTEN_CHAR_IND", "ATTEN_CHAR_IND_RECEIVED",
               "DELAY_BEFORE_MATCH", "WAITING_FOR_SLAC_MATCH_CNF",
               "WAITING_FOR_RESTART2", "FIND_MODEMS2"}

SlacTypeOK ==
    /\ pevSequenceState \in SlacStates
    /\ pevSequenceCyclesInState \in Nat
    /\ pevSequenceDelayCycles \in Nat
    /\ nRemainingStartAttenChar \in 0 .. START_ATTEN
    /\ remainingNumberOfSounds \in 0 .. SOUNDS
    /\ numberOfFoundModems \in Nat
    /\ nEvseModemMissingCounter \in 0 .. MISSING_MAX + 1

\* homeplugInit
SlacInit ==
    /\ pevSequenceState = "READY_FOR_SLAC"
    /\ pevSequenceCyclesInState = 0 /\ pevSequenceDelayCycles = 0
    /\ nRemainingStartAttenChar = 0 /\ remainingNumberOfSounds = 0
    /\ numberOfFoundModems = 0 /\ nEvseModemMissingCounter = 0

-----------------------------------------------------------------------------
(* Means of the sequencer.                                                 *)

\* Nothing reads the time spent in INITIAL; it is not counted.
SlacCycles ==
    IF pevSequenceState = "INITIAL" THEN 0 ELSE pevSequenceCyclesInState + 1

slac_enterState(n) == pevSequenceState' = n /\ pevSequenceCyclesInState' = 0
Stay == UNCHANGED pevSequenceState /\ pevSequenceCyclesInState' = SlacCycles

isTooLong == SlacCycles > TOO_LONG
isEvseModemFound == numberOfFoundModems > 1

SlacIsDueForSdpToo ==  \* mutant
    connMgr_ConnectionLevel >= 10 /\ connMgr_ConnectionLevel <= 20

SlacIsDue == connMgr_ConnectionLevel >= 10 /\ connMgr_ConnectionLevel < 20

\* A delay that runs before a state does its work.
DelayOver == pevSequenceDelayCycles = 0
CountDelay ==
    /\ pevSequenceDelayCycles > 0
    /\ pevSequenceDelayCycles' = pevSequenceDelayCycles - 1
    /\ Stay
    /\ UNCHANGED <<slacCounters, modemVars, connMgr_timer>>

\* A transmission after which the code has more to do: the receive task may
\* run between the two halves.
TransmitThen(request, rest) ==
    \/ ~inTransmit /\ inTransmit' = TRUE /\ request
    \/ inTransmit /\ inTransmit' = FALSE /\ rest

-----------------------------------------------------------------------------
(* runSlacSequencer, one action per state.                                 *)

SlacNotDue ==
    /\ ~SlacIsDue
    /\ slac_enterState("INITIAL")
    /\ UNCHANGED <<pevSequenceDelayCycles, slacCounters, modemVars, connMgr_timer>>

SlacInitial ==
    /\ pevSequenceState = "INITIAL"
    /\ slac_enterState("READY_FOR_SLAC")
    /\ UNCHANGED <<pevSequenceDelayCycles, slacCounters, modemVars, connMgr_timer>>

SlacReady ==
    /\ pevSequenceState = "READY_FOR_SLAC"
    /\ TransmitThen(
          /\ Ask(IfUp({"SlacParamCnf"}))
          /\ UNCHANGED <<pevSequenceState, pevSequenceCyclesInState>>,
          /\ slac_enterState("WAITING_FOR_SLAC_PARAM_CNF")
          /\ UNCHANGED replies)
    /\ UNCHANGED <<pevSequenceDelayCycles, slacCounters, joined, restart, chargerSeen,
                   connMgr_timer>>

WaitForSlacParamCnf ==
    /\ pevSequenceState = "WAITING_FOR_SLAC_PARAM_CNF"
    /\ IF SlacCycles >= PARAM_CYCLES THEN slac_enterState("INITIAL") ELSE Stay
    /\ UNCHANGED <<pevSequenceDelayCycles, slacCounters, modemVars, connMgr_timer>>

SlacParamCnfReceived ==
    /\ pevSequenceState = "SLAC_PARAM_CNF_RECEIVED"
    /\ pevSequenceDelayCycles' = 1
    /\ nRemainingStartAttenChar' = START_ATTEN
    /\ slac_enterState("BEFORE_START_ATTEN_CHAR")
    /\ UNCHANGED <<remainingNumberOfSounds, numberOfFoundModems, nEvseModemMissingCounter,
                   modemVars, connMgr_timer>>

BeforeStartAttenChar ==
    /\ pevSequenceState = "BEFORE_START_ATTEN_CHAR"
    /\ \/ CountDelay
       \/ /\ DelayOver /\ nRemainingStartAttenChar > 0
          /\ nRemainingStartAttenChar' = nRemainingStartAttenChar - 1
          /\ Stay
          /\ UNCHANGED remainingNumberOfSounds
          /\ UNCHANGED <<pevSequenceDelayCycles, numberOfFoundModems,
                         nEvseModemMissingCounter, modemVars, connMgr_timer>>
       \/ /\ DelayOver /\ nRemainingStartAttenChar = 0
          /\ remainingNumberOfSounds' = SOUNDS
          /\ slac_enterState("SOUNDING")
          /\ UNCHANGED nRemainingStartAttenChar
          /\ UNCHANGED <<pevSequenceDelayCycles, numberOfFoundModems,
                         nEvseModemMissingCounter, modemVars, connMgr_timer>>

\* The charger answers the last of the sounds.
Sounding ==
    /\ pevSequenceState = "SOUNDING" /\ DelayOver
    /\ \/ /\ remainingNumberOfSounds > 1
          /\ remainingNumberOfSounds' = remainingNumberOfSounds - 1
          /\ Stay
          /\ UNCHANGED <<inTransmit, replies>>
       \/ /\ remainingNumberOfSounds <= 1
          /\ TransmitThen(
                /\ remainingNumberOfSounds' = 0
                /\ Ask(IfUp({"AttenCharInd"}))
                /\ UNCHANGED <<pevSequenceState, pevSequenceCyclesInState>>,
                /\ slac_enterState("WAIT_FOR_ATTEN_CHAR_IND")
                /\ UNCHANGED <<remainingNumberOfSounds, replies>>)
    /\ UNCHANGED <<pevSequenceDelayCycles, nRemainingStartAttenChar, numberOfFoundModems,
                   nEvseModemMissingCounter, joined, restart, chargerSeen, connMgr_timer>>

WaitForAttenCharInd ==
    /\ pevSequenceState = "WAIT_FOR_ATTEN_CHAR_IND"
    /\ IF isTooLong THEN slac_enterState("INITIAL") ELSE Stay
    /\ UNCHANGED <<pevSequenceDelayCycles, slacCounters, modemVars, connMgr_timer>>

AttenCharIndReceived ==
    /\ pevSequenceState = "ATTEN_CHAR_IND_RECEIVED"
    /\ slac_enterState("DELAY_BEFORE_MATCH")
    /\ pevSequenceDelayCycles' = MATCH_DELAY
    /\ UNCHANGED <<slacCounters, modemVars, connMgr_timer>>

DelayBeforeMatch ==
    /\ pevSequenceState = "DELAY_BEFORE_MATCH"
    /\ \/ CountDelay
       \/ /\ DelayOver
          /\ TransmitThen(
                /\ Ask(IfUp({"SlacMatchCnf"}))
                /\ UNCHANGED <<pevSequenceState, pevSequenceCyclesInState>>,
                /\ slac_enterState("WAITING_FOR_SLAC_MATCH_CNF")
                /\ UNCHANGED replies)
          /\ UNCHANGED <<pevSequenceDelayCycles, slacCounters, joined, restart, chargerSeen,
                         connMgr_timer>>

WaitForSlacMatchCnf ==
    /\ pevSequenceState = "WAITING_FOR_SLAC_MATCH_CNF"
    /\ IF isTooLong
       THEN slac_enterState("INITIAL") /\ UNCHANGED pevSequenceDelayCycles
       ELSE Stay /\ pevSequenceDelayCycles' = RESTART_DELAY
    /\ UNCHANGED <<slacCounters, modemVars, connMgr_timer>>

\* Mutant: the modems of an earlier count are counted again.
WaitForRestart2WithoutReset ==
    /\ pevSequenceState = "WAITING_FOR_RESTART2"
    /\ \/ CountDelay
       \/ /\ DelayOver
          /\ TransmitThen(
                /\ chargerSeen' = FALSE
                /\ nEvseModemMissingCounter' = 0
                /\ AskModems("GetKeyLocal", "GetKeyCharger")
                /\ UNCHANGED <<pevSequenceState, pevSequenceCyclesInState>>,
                /\ slac_enterState("FIND_MODEMS2")
                /\ UNCHANGED <<nEvseModemMissingCounter, replies, chargerSeen>>)
          /\ UNCHANGED <<numberOfFoundModems, pevSequenceDelayCycles,
                         nRemainingStartAttenChar, remainingNumberOfSounds,
                         joined, restart, connMgr_timer>>

WaitForRestart2 ==
    /\ pevSequenceState = "WAITING_FOR_RESTART2"
    /\ \/ CountDelay
       \/ /\ DelayOver
          /\ TransmitThen(
                /\ numberOfFoundModems' = 0 /\ chargerSeen' = FALSE
                /\ nEvseModemMissingCounter' = 0
                /\ AskModems("GetKeyLocal", "GetKeyCharger")
                /\ UNCHANGED <<pevSequenceState, pevSequenceCyclesInState>>,
                /\ slac_enterState("FIND_MODEMS2")
                /\ UNCHANGED <<numberOfFoundModems, nEvseModemMissingCounter, replies,
                               chargerSeen>>)
          /\ UNCHANGED <<pevSequenceDelayCycles, nRemainingStartAttenChar,
                         remainingNumberOfSounds, joined, restart, connMgr_timer>>

FindModems2 ==
    /\ pevSequenceState = "FIND_MODEMS2"
    /\ \/ /\ SlacCycles < CHECK_CYCLES
          /\ Stay
          /\ UNCHANGED <<pevSequenceDelayCycles, nEvseModemMissingCounter, connMgr_timer>>
       \/ /\ SlacCycles >= CHECK_CYCLES /\ ~isEvseModemFound
          /\ nEvseModemMissingCounter' = nEvseModemMissingCounter + 1
          /\ IF nEvseModemMissingCounter' > MISSING_MAX
             THEN slac_enterState("INITIAL") /\ UNCHANGED pevSequenceDelayCycles
             ELSE /\ slac_enterState("WAITING_FOR_RESTART2")
                  /\ pevSequenceDelayCycles' = RECHECK_DELAY
          /\ UNCHANGED connMgr_timer
       \/ /\ SlacCycles >= CHECK_CYCLES /\ isEvseModemFound
          /\ nEvseModemMissingCounter' = 0
          /\ connMgr_timer' = ModemFinderOk(connMgr_timer, 2)
          /\ slac_enterState("INITIAL")
          /\ UNCHANGED pevSequenceDelayCycles
    /\ UNCHANGED <<nRemainingStartAttenChar, remainingNumberOfSounds, numberOfFoundModems,
                   modemVars>>

runSlacSequencer ==
    /\ \/ SlacNotDue
       \/ /\ SlacIsDue
          /\ \/ SlacInitial \/ SlacReady \/ WaitForSlacParamCnf \/ SlacParamCnfReceived
             \/ BeforeStartAttenChar \/ Sounding \/ WaitForAttenCharInd
             \/ AttenCharIndReceived \/ DelayBeforeMatch \/ WaitForSlacMatchCnf
             \/ WaitForRestart2 \/ FindModems2
    /\ UNCHANGED <<connMgr_ConnectionLevel, isEthLinkUp>>

-----------------------------------------------------------------------------
(* evaluateReceivedHomeplugPacket, called by the Ethernet receive task.    *)

evaluateSlacParamCnf ==
    /\ "SlacParamCnf" \in replies
    /\ IF pevSequenceState = "WAITING_FOR_SLAC_PARAM_CNF"
       THEN slac_enterState("SLAC_PARAM_CNF_RECEIVED") /\ pevSequenceDelayCycles' = 4
       ELSE UNCHANGED <<pevSequenceState, pevSequenceCyclesInState, pevSequenceDelayCycles>>
    /\ replies' = replies \ {"SlacParamCnf"}
    /\ UNCHANGED <<slacCounters, joined, restart, inTransmit, chargerSeen, connMgrVars>>

evaluateAttenCharInd ==
    /\ "AttenCharInd" \in replies
    /\ pevSequenceState' = IF pevSequenceState = "WAIT_FOR_ATTEN_CHAR_IND"
                           THEN "ATTEN_CHAR_IND_RECEIVED" ELSE pevSequenceState
    /\ replies' = replies \ {"AttenCharInd"}
    /\ UNCHANGED <<pevSequenceCyclesInState, pevSequenceDelayCycles, slacCounters,
                   joined, restart, inTransmit, chargerSeen, connMgrVars>>

\* The key is set in any state, but only one state moves on.
evaluateSlacMatchCnf ==
    /\ "SlacMatchCnf" \in replies
    /\ SetKey(replies \ {"SlacMatchCnf"})
    /\ IF pevSequenceState = "WAITING_FOR_SLAC_MATCH_CNF"
       THEN slac_enterState("WAITING_FOR_RESTART2")
       ELSE UNCHANGED <<pevSequenceState, pevSequenceCyclesInState>>
    /\ UNCHANGED <<pevSequenceDelayCycles, slacCounters, inTransmit, chargerSeen, connMgrVars>>

\* The confirmation that the local modem took the key.
evaluateSetKeyCnf ==
    /\ "SetKeyCnf" \in replies
    /\ connMgr_timer' = SlacOk(connMgr_timer)
    /\ replies' = replies \ {"SetKeyCnf"}
    /\ UNCHANGED <<connMgr_ConnectionLevel, isEthLinkUp, slacVars, joined, restart,
                   inTransmit, chargerSeen>>

evaluateGetKeyCnf(reply) ==
    /\ reply \in {"GetKeyLocal", "GetKeyCharger"} \cap replies
    /\ numberOfFoundModems' = numberOfFoundModems + 1
    /\ chargerSeen' = (chargerSeen \/ reply = "GetKeyCharger")
    /\ replies' = replies \ {reply}
    /\ UNCHANGED <<pevSequenceState, pevSequenceCyclesInState, pevSequenceDelayCycles,
                   nRemainingStartAttenChar, remainingNumberOfSounds,
                   nEvseModemMissingCounter, joined, restart, inTransmit, connMgrVars>>

SlacReceive ==
    \/ evaluateSlacParamCnf \/ evaluateAttenCharInd \/ evaluateSlacMatchCnf
    \/ evaluateSetKeyCnf
    \/ \E reply \in replies : evaluateGetKeyCnf(reply)
=============================================================================
