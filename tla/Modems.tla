------------------------------- MODULE Modems -------------------------------
(***************************************************************************)
(* The world of the powerline modems as the car's modem finder, SLAC and   *)
(* SDP state machines see it: what they transmit, the replies on their way *)
(* back, and whether the local modem and the charger's form one network.   *)
(* All of this is outside the repository; what it does is taken from what  *)
(* homeplug.ino, modemFinder.ino and ipv6.ino send and expect.             *)
(***************************************************************************)
EXTENDS ConnMgr

CONSTANTS
    Lossy,        \* may a modem or the charger leave a request unanswered?
    LateReplies,  \* the replies that may take longer than until the next cycle
    FastReplies,  \* may a reply come before the call of myEthTransmit returns?
    RestartTimes  \* cycles the modems may need to restart after SET_KEY

\* The frames that travel to the car, by sender where both modems answer.
Replies == {"GetSwLocal", "GetSwCharger", "GetKeyLocal", "GetKeyCharger",
            "SlacParamCnf", "AttenCharInd", "SlacMatchCnf", "SetKeyCnf", "SdpResponse"}

ASSUME ModemsAssumption ==
    /\ Lossy \in BOOLEAN /\ FastReplies \in BOOLEAN
    /\ LateReplies \subseteq Replies
    /\ RestartTimes # {} /\ RestartTimes \subseteq Nat

VARIABLES
    replies,     \* the frames in flight
    joined,      \* do the two modems share a key?
    restart,     \* cycles until the modems are up again
    inTransmit,  \* is the main loop just behind a call of myEthTransmit?
    chargerSeen  \* history: has the charger's modem answered this count?

modemVars == <<replies, joined, restart, inTransmit, chargerSeen>>

ModemsTypeOK ==
    /\ replies \subseteq Replies
    /\ joined \in BOOLEAN
    /\ restart \in Nat
    /\ inTransmit \in BOOLEAN
    /\ chargerSeen \in BOOLEAN

ModemsInit ==
    /\ replies = {} /\ joined = FALSE /\ restart = 0
    /\ inTransmit = FALSE /\ chargerSeen = FALSE

-----------------------------------------------------------------------------

\* A request goes out and brings some of the expected replies under way.
Ask(expected) ==
    \E answers \in (IF Lossy THEN SUBSET expected ELSE {expected}) :
        replies' = replies \cup answers

IfUp(expected)     == IF restart = 0 THEN expected ELSE {}
IfJoined(expected) == IF restart = 0 /\ joined THEN expected ELSE {}

\* The local modem answers for itself, the charger's only within one network.
AskModems(localReply, chargerReply) ==
    Ask(IfUp({localReply}) \cup IfJoined({chargerReply}))

\* SET_KEY: the local modem confirms, restarts, and then shares the
\* charger's key (or, in a lossy world, possibly not).
SetKey(remaining) ==
    /\ \E answers \in (IF Lossy THEN {{}, {"SetKeyCnf"}} ELSE {{"SetKeyCnf"}}) :
          replies' = remaining \cup IfUp(answers)
    /\ joined' \in (IF Lossy THEN BOOLEAN ELSE {TRUE})
    /\ restart' \in RestartTimes

\* One cycle passes for the modems.
ModemsTick == restart' = IF restart > 0 THEN restart - 1 ELSE 0

\* The charger's modem leaves the network.
ChargerLeaves ==
    /\ Lossy /\ joined
    /\ joined' = FALSE
    /\ UNCHANGED <<replies, restart, inTransmit, chargerSeen>>
=============================================================================
