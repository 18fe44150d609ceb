-------------------------------- MODULE Sdp ---------------------------------
(***************************************************************************)
(* The SDP client (homeplug.ino: runSdpStateMachine, ipv6.ino): once the   *)
(* two modems are paired, it asks for the charger's address, again and     *)
(* again, until an answer lifts the connection level.                      *)
(***************************************************************************)
EXTENDS Slac

CONSTANTS
    SDP_RETRIES,  \* 50
    SDP_DELAY     \* 15 cycles between two requests

ASSUME SdpAssumption == SDP_RETRIES \in Nat \ {0} /\ SDP_DELAY \in Nat \ {0}

VARIABLES sdp_state, SdpRepetitionCounter

sdpVars == <<sdp_state, SdpRepetitionCounter>>

SdpTypeOK == sdp_state \in {0, 1} /\ SdpRepetitionCounter \in 0 .. SDP_RETRIES

SdpInit == sdp_state = 0 /\ SdpRepetitionCounter = 0

-----------------------------------------------------------------------------
(* runSdpStateMachine, called by the main loop.                            *)

SdpNotDue ==
    /\ connMgr_ConnectionLevel # 20
    /\ sdp_state' = 0
    /\ UNCHANGED <<SdpRepetitionCounter, pevSequenceDelayCycles, replies>>

SdpStart ==
    /\ connMgr_ConnectionLevel = 20 /\ sdp_state = 0
    /\ pevSequenceDelayCycles' = 0
    /\ SdpRepetitionCounter' = SDP_RETRIES
    /\ sdp_state' = 1
    /\ UNCHANGED replies

SdpWait ==
    /\ connMgr_ConnectionLevel = 20 /\ sdp_state = 1 /\ pevSequenceDelayCycles > 0
    /\ pevSequenceDelayCycles' = pevSequenceDelayCycles - 1
    /\ UNCHANGED <<sdpVars, replies>>

SdpRequestWithoutDelay ==  \* mutant: the tries follow each other at once
    /\ connMgr_ConnectionLevel = 20 /\ sdp_state = 1 /\ pevSequenceDelayCycles = 0
    /\ IF SdpRepetitionCounter > 0
       THEN /\ Ask(IfJoined({"SdpResponse"}))
            /\ SdpRepetitionCounter' = SdpRepetitionCounter - 1
            /\ UNCHANGED <<pevSequenceDelayCycles, sdp_state>>
       ELSE /\ sdp_state' = 0
            /\ UNCHANGED <<SdpRepetitionCounter, pevSequenceDelayCycles, replies>>

SdpRequest ==
    /\ connMgr_ConnectionLevel = 20 /\ sdp_state = 1 /\ pevSequenceDelayCycles = 0
    /\ IF SdpRepetitionCounter > 0
       THEN /\ Ask(IfJoined({"SdpResponse"}))
            /\ SdpRepetitionCounter' = SdpRepetitionCounter - 1
            /\ pevSequenceDelayCycles' = SDP_DELAY
            /\ UNCHANGED sdp_state
       ELSE /\ sdp_state' = 0
            /\ UNCHANGED <<SdpRepetitionCounter, pevSequenceDelayCycles, replies>>

runSdpStateMachine ==
    /\ SdpNotDue \/ SdpStart \/ SdpWait \/ SdpRequest
    /\ UNCHANGED <<pevSequenceState, pevSequenceCyclesInState, slacCounters,
                   joined, restart, inTransmit, chargerSeen, connMgrVars>>

\* evaluateUdpPayload: an SDP response counts in any state.
ReceiveSdp ==
    /\ "SdpResponse" \in replies
    /\ connMgr_timer' = SdpOk(connMgr_timer)
    /\ replies' = replies \ {"SdpResponse"}
    /\ UNCHANGED <<connMgr_ConnectionLevel, isEthLinkUp, slacVars, sdpVars,
                   joined, restart, inTransmit, chargerSeen>>
=============================================================================
