--------------------------- MODULE ConnMgrProofs ---------------------------
(***************************************************************************)
(* Facts about the connection manager's timers, for the proofs of every    *)
(* component that reports to it.                                           *)
(***************************************************************************)
EXTENDS ConnMgr, TLAPS

Timers == [Layers -> 0 .. TIMER_MAX_15s]

\* Loading a timer keeps all of them in range.
LEMMA ReloadType ==
    ASSUME NEW timer \in [Layers -> 0 .. TIMER_MAX_15s], NEW reported,
           NEW value \in 0 .. TIMER_MAX_15s
    PROVE  Reload(timer, reported, value) \in [Layers -> 0 .. TIMER_MAX_15s]
  BY DEF Reload

\* Counting down keeps the timers in range.
LEMMA CountDownType ==
    ASSUME NEW timer \in [Layers -> 0 .. TIMER_MAX_15s]
    PROVE  CountDown(timer) \in [Layers -> 0 .. TIMER_MAX_15s]
  BY TimerAssumption DEF CountDown

\* The report of any layer keeps the timers in range.
LEMMA ReportType ==
    ASSUME NEW timer \in Timers
    PROVE  /\ SlacOk(timer) \in Timers /\ SdpOk(timer) \in Timers
           /\ TcpOk(timer) \in Timers /\ ApplOk(timer) \in Timers
           /\ \A n \in Nat : ModemFinderOk(timer, n) \in Timers
  <1>1. /\ SlacOk(timer) \in Timers /\ SdpOk(timer) \in Timers
        /\ TcpOk(timer) \in Timers /\ ApplOk(timer) \in Timers
    BY ReloadType, TimerAssumption DEF Timers, SlacOk, SdpOk, TcpOk, ApplOk
  <1>2. ASSUME NEW n \in Nat PROVE ModemFinderOk(timer, n) \in Timers
    <2>1. Reload(timer, {"ModemLocal"}, TIMER_MAX) \in Timers
      BY ReloadType, TimerAssumption DEF Timers
    <2>2. /\ Reload(timer, {"ModemRemote"}, TIMER_MAX_10s) \in Timers
          /\ Reload(Reload(timer, {"ModemLocal"}, TIMER_MAX), {"ModemRemote"}, TIMER_MAX_10s)
                \in Timers
      BY <2>1, ReloadType, TimerAssumption DEF Timers
    <2> QED
      BY <2>1, <2>2 DEF ModemFinderOk
  <1> QED
    BY <1>1, <1>2

\* The cyclic function and a link event keep all variables in their types.
LEMMA ConnMgrStepType ==
    ASSUME ConnMgrTypeOK,
           connMgr_Mainfunction \/ \E isUp \in BOOLEAN : EthLinkEvent(isUp)
    PROVE  ConnMgrTypeOK'
  <1>1. /\ CountDown(connMgr_timer) \in Timers
        /\ Reload(CountDown(connMgr_timer), {"EthLink"}, TIMER_MAX) \in Timers
    BY CountDownType, ReloadType, TimerAssumption DEF ConnMgrTypeOK, Timers
  <1>2. CASE connMgr_Mainfunction
    BY <1>1, <1>2 DEF connMgr_Mainfunction, ConnMgrTypeOK, LevelOfTimers, Levels, Timers
  <1>3. CASE \E isUp \in BOOLEAN : EthLinkEvent(isUp)
    BY <1>3 DEF EthLinkEvent, ConnMgrTypeOK
  <1> QED
    BY <1>2, <1>3

\* The initial state is well typed.
LEMMA ConnMgrInitType ==
    ASSUME ConnMgrInit PROVE ConnMgrTypeOK
  <1>1. connMgr_timer \in [Layers -> 0 .. TIMER_MAX_15s]
    BY TimerAssumption DEF ConnMgrInit
  <1> QED
    BY <1>1 DEF ConnMgrInit, ConnMgrTypeOK, Levels
=============================================================================
