----------------------------- MODULE TcpChannel -----------------------------
(***************************************************************************)
(* The TCP connection as the charging state machine sees it (tcp.ino,      *)
(* without sequence numbers and buffers): the connection state, the single *)
(* receive slot tcp_rxdata / tcp_rxdataLen that the Ethernet receive task  *)
(* fills and the state machine empties, and the charger at the far end.    *)
(***************************************************************************)
EXTENDS ConnMgr, Sequences

CONSTANTS
    StrayMessages,  \* messages the charger may send although nobody asked
    LossyRequests,  \* may a transmitted request be lost?
    PENDING_MAX     \* bound: requests the charger remembers

\* The requests of the car and the charger's response to each.
ResponseTo ==
    [SupportedAppProtocolReq    |-> "SupportedAppProtocolRes",
     SessionSetupReq            |-> "SessionSetupRes",
     ServiceDiscoveryReq        |-> "ServiceDiscoveryRes",
     ServicePaymentSelectionReq |-> "ServicePaymentSelectionRes",
     ContractAuthenticationReq  |-> "ContractAuthenticationRes",
     ChargeParameterDiscoveryReq |-> "ChargeParameterDiscoveryRes",
     CableCheckReq              |-> "CableCheckRes",
     PreChargeReq               |-> "PreChargeRes",
     PowerDeliveryOnReq         |-> "PowerDeliveryRes",
     PowerDeliveryOffReq        |-> "PowerDeliveryRes",
     CurrentDemandReq           |-> "CurrentDemandRes",
     WeldingDetectionReq        |-> "WeldingDetectionRes",
     SessionStopReq             |-> "SessionStopRes"]

Requests  == DOMAIN ResponseTo
Responses == {ResponseTo[req] : req \in Requests}

\* What a received segment can be: a response, something the EXI decoders
\* reject at its header, or nothing (also a segment no longer than the
\* V2GTP header, which fills the slot but is never looked at).
Kinds == Responses \cup {"Undecodable", "Nothing"}

\* Responses that carry a verdict; ok stands for EVSEProcessing = Finished
\* (in CableCheckRes with ResponseCode = OK too), in PreChargeRes for a
\* reported voltage close enough to the accumulator's.
WithVerdict == {"ContractAuthenticationRes", "ChargeParameterDiscoveryRes",
                "CableCheckRes", "PreChargeRes"}

ASSUME ChannelAssumption ==
    /\ StrayMessages \subseteq Kinds
    /\ LossyRequests \in BOOLEAN
    /\ PENDING_MAX \in Nat

VARIABLES
    tcpState,    \* "CLOSED", "SYN_SENT" or "ESTABLISHED"
    tcp_rxdata,  \* the receive slot: kind "Nothing" iff tcp_rxdataLen = 0
    evsePending  \* the requests the charger has received and not yet answered

channelVars == <<tcpState, tcp_rxdata, evsePending>>

\* fresh is a history field: the connection that delivered it is still open.
RxContents == [kind : Kinds, ok : BOOLEAN, fresh : BOOLEAN]
Nothing == [kind |-> "Nothing", ok |-> TRUE, fresh |-> TRUE]

ChannelTypeOK ==
    /\ tcpState \in {"CLOSED", "SYN_SENT", "ESTABLISHED"}
    /\ tcp_rxdata \in RxContents
    /\ evsePending \in Seq(Requests)

ChannelInit ==
    /\ tcpState = "CLOSED"
    /\ tcp_rxdata = Nothing
    /\ evsePending = <<>>

-----------------------------------------------------------------------------
(* Called by the main loop.                                                *)

CloseForgotten ==  \* mutant: the connection stays open
    UNCHANGED <<tcpState, tcp_rxdata>>

\* Closing leaves tcp_rxdata and tcp_rxdataLen alone.
Close ==
    /\ tcpState' = "CLOSED"
    /\ tcp_rxdata' = IF tcp_rxdata.kind = "Nothing" THEN tcp_rxdata
                     ELSE [tcp_rxdata EXCEPT !.fresh = FALSE]

\* Each connect uses a new port, so what the charger still owes on the old
\* one never arrives.  The SYN is sent once.
tcp_Mainfunction ==
    /\ UNCHANGED connMgrVars
    /\ \/ /\ connMgr_ConnectionLevel < 50
          /\ Close
          /\ UNCHANGED evsePending
       \/ /\ connMgr_ConnectionLevel = 50
          /\ tcpState = "CLOSED"
          /\ tcpState' = "SYN_SENT"
          /\ evsePending' = <<>>
          /\ UNCHANGED tcp_rxdata
       \/ /\ connMgr_ConnectionLevel >= 50
          /\ connMgr_ConnectionLevel = 50 => tcpState # "CLOSED"
          /\ UNCHANGED channelVars

\* tcp_transmit: sends only on an established connection, otherwise the
\* request is silently dropped.
Transmit(req) ==
    IF tcpState = "ESTABLISHED" /\ Len(evsePending) < PENDING_MAX
    THEN \/ evsePending' = Append(evsePending, req)
         \/ LossyRequests /\ UNCHANGED evsePending
    ELSE UNCHANGED evsePending

-----------------------------------------------------------------------------
(* Called by the Ethernet receive task.                                    *)

\* The charger's SYN+ACK; in any other state it is ignored.
ReceiveSynAck ==
    /\ tcpState = "SYN_SENT"
    /\ tcpState' = "ESTABLISHED"
    /\ connMgr_timer' = TcpOk(connMgr_timer)
    /\ UNCHANGED <<connMgr_ConnectionLevel, isEthLinkUp, tcp_rxdata, evsePending>>

\* A data segment replaces whatever the slot still holds.
ReceiveData(kind) ==
    /\ tcpState = "ESTABLISHED"
    /\ \E ok \in (IF kind \in WithVerdict THEN BOOLEAN ELSE {TRUE}) :
          tcp_rxdata' = [kind |-> kind, ok |-> ok, fresh |-> TRUE]
    /\ connMgr_timer' = TcpOk(connMgr_timer)
    /\ UNCHANGED <<connMgr_ConnectionLevel, isEthLinkUp, tcpState>>

-----------------------------------------------------------------------------
(* The charger (outside the repository).                                   *)

\* It answers the requests in the order in which they arrived ...
EvseAnswers ==
    /\ evsePending # <<>>
    /\ ReceiveData(ResponseTo[Head(evsePending)])
    /\ evsePending' = Tail(evsePending)

\* ... and may send something nobody asked for: a repeated answer, one that
\* the car was no longer waiting for, a segment that does not decode.
EvseStray ==
    /\ \E kind \in StrayMessages : ReceiveData(kind)
    /\ UNCHANGED evsePending
=============================================================================
