------------------------------ MODULE ConnMgr ------------------------------
(***************************************************************************)
(* The connection manager (connMgr.ino).  Every protocol layer reports its *)
(* success by loading a count-down timer; once per 30 ms cycle the manager *)
(* counts the timers down and condenses them into one ConnectionLevel, the *)
(* only thing the layers' state machines look at to decide whether it is   *)
(* their turn.                                                             *)
(*                                                                         *)
(* Layers is the set of timers an instance keeps.  A timer that is left    *)
(* out behaves as one that has run down, which is sound for a component    *)
(* that cannot tell the levels of the missing layers apart.                *)
(***************************************************************************)
EXTENDS Integers

CONSTANTS
    Layers,         \* the timers of this instance
    TIMER_MAX,      \* CONNMGR_TIMER_MAX      (5*33 cycles)
    TIMER_MAX_10s,  \* CONNMGR_TIMER_MAX_10s  (10*33 cycles)
    TIMER_MAX_15s   \* CONNMGR_TIMER_MAX_15s  (15*33 cycles)

AllLayers == {"EthLink", "ModemLocal", "ModemRemote", "Slac", "SDP", "TCP", "Appl"}

ASSUME LayersAssumption == Layers \subseteq AllLayers

ASSUME TimerAssumption ==
    /\ TIMER_MAX \in Nat /\ TIMER_MAX_10s \in Nat /\ TIMER_MAX_15s \in Nat
    /\ 0 < TIMER_MAX /\ TIMER_MAX < TIMER_MAX_10s /\ TIMER_MAX_10s < TIMER_MAX_15s

VARIABLES
    connMgr_timer,            \* [Layers -> Nat], cycles until a report is forgotten
    connMgr_ConnectionLevel,  \* the level computed by the last Mainfunction
    isEthLinkUp               \* set by the Ethernet event callback

connMgrVars == <<connMgr_timer, connMgr_ConnectionLevel, isEthLinkUp>>

Levels == {0, 5, 10, 15, 20, 50, 80, 100}

ConnMgrTypeOK ==
    /\ connMgr_timer \in [Layers -> 0 .. TIMER_MAX_15s]
    /\ connMgr_ConnectionLevel \in Levels
    /\ isEthLinkUp \in BOOLEAN

ConnMgrInit ==
    /\ connMgr_timer = [l \in Layers |-> 0]
    /\ connMgr_ConnectionLevel = 0
    /\ isEthLinkUp = FALSE

-----------------------------------------------------------------------------
(* The reports of the layers, as functions of the timers.                  *)

Reload(timer, reported, value) ==
    [l \in Layers |-> IF l \in reported THEN value ELSE timer[l]]

ModemFinderOkOffByOne(timer, numberOfFoundModems) ==  \* mutant
    LET local == IF numberOfFoundModems >= 1
                 THEN Reload(timer, {"ModemLocal"}, TIMER_MAX) ELSE timer
    IN  IF numberOfFoundModems > 2
        THEN Reload(local, {"ModemRemote"}, TIMER_MAX_10s) ELSE local

\* One modem proves the local one, two also the charger's.
ModemFinderOk(timer, numberOfFoundModems) ==
    LET local == IF numberOfFoundModems >= 1
                 THEN Reload(timer, {"ModemLocal"}, TIMER_MAX) ELSE timer
    IN  IF numberOfFoundModems >= 2
        THEN Reload(local, {"ModemRemote"}, TIMER_MAX_10s) ELSE local

SlacOkShort(timer) == Reload(timer, {"Slac"}, TIMER_MAX)  \* mutant: the default time

SlacOk(timer) == Reload(timer, {"Slac"}, TIMER_MAX_15s)
SdpOk(timer)  == Reload(timer, {"SDP"}, TIMER_MAX)
TcpOk(timer)  == Reload(timer, {"TCP"}, TIMER_MAX)
ApplOk(timer) == Reload(timer, {"Appl"}, TIMER_MAX)

-----------------------------------------------------------------------------
(* The cyclic function.                                                    *)

CountDownUnguarded(timer) == [l \in Layers |-> timer[l] - 1]  \* mutant
CountDownToOne(timer) ==  \* mutant: the last cycle is never counted
    [l \in Layers |-> IF timer[l] > 1 THEN timer[l] - 1 ELSE timer[l]]

CountDown(timer) ==
    [l \in Layers |-> IF timer[l] > 0 THEN timer[l] - 1 ELSE 0]

Running(timer, l) == l \in Layers /\ timer[l] > 0

\* The highest layer whose timer still runs decides.
LevelOfTimers(timer) ==
    IF      Running(timer, "Appl")        THEN 100
    ELSE IF Running(timer, "TCP")         THEN 80
    ELSE IF Running(timer, "SDP")         THEN 50
    ELSE IF Running(timer, "ModemRemote") THEN 20
    ELSE IF Running(timer, "Slac")        THEN 15
    ELSE IF Running(timer, "ModemLocal")  THEN 10
    ELSE IF Running(timer, "EthLink")     THEN 5
    ELSE 0

LevelBeforeCounting ==  \* mutant: the level is computed from the old timers
    LET counted == CountDown(connMgr_timer) IN
    /\ connMgr_ConnectionLevel' = IF isEthLinkUp THEN LevelOfTimers(connMgr_timer) ELSE 0
    /\ connMgr_timer' = IF isEthLinkUp
                        THEN Reload(counted, {"EthLink"}, TIMER_MAX) ELSE counted
    /\ UNCHANGED isEthLinkUp

\* Without a link the level is 0, but the timers go on counting; with one,
\* the link's own timer is reloaded after the level was computed.
connMgr_Mainfunction ==
    LET counted == CountDown(connMgr_timer) IN
    /\ connMgr_ConnectionLevel' = IF isEthLinkUp THEN LevelOfTimers(counted) ELSE 0
    /\ connMgr_timer' = IF isEthLinkUp
                        THEN Reload(counted, {"EthLink"}, TIMER_MAX) ELSE counted
    /\ UNCHANGED isEthLinkUp

\* myEthernetEventCallback: the link event of the Ethernet driver.
EthLinkEvent(isUp) ==
    /\ isEthLinkUp # isUp
    /\ isEthLinkUp' = isUp
    /\ UNCHANGED <<connMgr_timer, connMgr_ConnectionLevel>>
=============================================================================
