----------------------------- MODULE ModemFinder -----------------------------
(***************************************************************************)
(* The modem finder (modemFinder.ino): while only the Ethernet link is     *)
(* there, it asks for software versions and counts the answers.            *)
(***************************************************************************)
EXTENDS Modems

CONSTANT MOFI_DELAY  \* 15 cycles to answer, and again to show the result

ASSUME MofiAssumption == MOFI_DELAY \in Nat

VARIABLES mofi_state, mofi_stateDelay, numberOfSoftwareVersionResponses

mofiVars == <<mofi_state, mofi_stateDelay, numberOfSoftwareVersionResponses>>

MofiTypeOK ==
    /\ mofi_state \in 0 .. 2
    /\ mofi_stateDelay \in 0 .. MOFI_DELAY
    /\ numberOfSoftwareVersionResponses \in Nat

MofiInit ==
    mofi_state = 0 /\ mofi_stateDelay = 0 /\ numberOfSoftwareVersionResponses = 0

-----------------------------------------------------------------------------
(* modemFinder_Mainfunction, called by the main loop.                      *)

\* The request is on the wire before the count is reset.
StartSearch ==
    /\ connMgr_ConnectionLevel = 5 /\ mofi_state = 0
    /\ \/ /\ ~inTransmit
          /\ AskModems("GetSwLocal", "GetSwCharger")
          /\ inTransmit' = TRUE
          /\ UNCHANGED <<mofiVars, chargerSeen>>
       \/ /\ inTransmit
          /\ inTransmit' = FALSE
          /\ numberOfSoftwareVersionResponses' = 0 /\ chargerSeen' = FALSE
          /\ mofi_stateDelay' = MOFI_DELAY /\ mofi_state' = 1
          /\ UNCHANGED replies
    /\ UNCHANGED <<connMgr_timer, joined, restart>>

MofiWait ==
    /\ mofi_state # 0 /\ mofi_stateDelay > 0
    /\ mofi_stateDelay' = mofi_stateDelay - 1
    /\ UNCHANGED <<mofi_state, numberOfSoftwareVersionResponses, modemVars, connMgr_timer>>

EvaluateSearch ==
    /\ mofi_state = 1 /\ mofi_stateDelay = 0
    /\ connMgr_timer' = ModemFinderOk(connMgr_timer, numberOfSoftwareVersionResponses)
    /\ mofi_stateDelay' = MOFI_DELAY /\ mofi_state' = 2
    /\ UNCHANGED <<numberOfSoftwareVersionResponses, modemVars>>

EndSearch ==
    /\ mofi_state = 2 /\ mofi_stateDelay = 0
    /\ mofi_state' = 0
    /\ UNCHANGED <<mofi_stateDelay, numberOfSoftwareVersionResponses, modemVars,
                   connMgr_timer>>

MofiIdle ==
    /\ mofi_state = 0 /\ connMgr_ConnectionLevel # 5
    /\ UNCHANGED <<mofiVars, modemVars, connMgr_timer>>

modemFinder_Mainfunction ==
    /\ StartSearch \/ MofiWait \/ EvaluateSearch \/ EndSearch \/ MofiIdle
    /\ UNCHANGED <<connMgr_ConnectionLevel, isEthLinkUp>>

-----------------------------------------------------------------------------
(* Called by the Ethernet receive task.                                    *)

evaluateGetSwCnf(reply) ==
    /\ reply \in {"GetSwLocal", "GetSwCharger"} \cap replies
    /\ numberOfSoftwareVersionResponses' = numberOfSoftwareVersionResponses + 1
    /\ chargerSeen' = (chargerSeen \/ reply = "GetSwCharger")
    /\ replies' = replies \ {reply}
    /\ UNCHANGED <<mofi_state, mofi_stateDelay, joined, restart, inTransmit, connMgrVars>>
=============================================================================
