-------------------------------- MODULE Tcp --------------------------------
(***************************************************************************)
(* The TCP client (tcp.ino), statement by statement.  Two tasks run it:    *)
(* the main loop connects and sends the requests, the Ethernet receive     *)
(* task takes the segments and acknowledges them.  They share the sequence *)
(* numbers, the payload and its length, the packet and the frame buffer    *)
(* without a lock, and either may run between any two steps of the other.  *)
(*                                                                         *)
(* A sequence number counts units of which an answer has one and a request *)
(* one or more, modulo SEQ_MOD as the real ones are modulo 2^32.  The      *)
(* state machine above is reduced to its use of TCP: it sends a request,   *)
(* waits, takes what lies in tcp_rxdata, and gives up at a timeout.        *)
(***************************************************************************)
EXTENDS ConnMgr

CONSTANTS
    SEQ_MOD,      \* sequence numbers are taken modulo this
    RequestLens,  \* the lengths that a request may have
    EVSE_WINDOW,  \* answers that the charger has under way at a time
    PORTS         \* ports until evccPort starts again

\* In the code: 2^32 numbers, 5001 ports, requests of a few hundred bytes; no TCP window is
\* larger than 2^30.
ASSUME TcpAssumption ==
    /\ SEQ_MOD \in Nat /\ SEQ_MOD >= 3
    /\ PORTS \in Nat \ {0, 1}
    /\ EVSE_WINDOW \in Nat /\ 4 * EVSE_WINDOW <= SEQ_MOD
    /\ RequestLens \subseteq 1 .. (SEQ_MOD - 1) \div 2

Ports == 0 .. PORTS - 1
SeqNrs == 0 .. SEQ_MOD - 1
Plus(a, b) == (a + b) % SEQ_MOD
Distance(a, b) == (b - a) % SEQ_MOD     \* how far b is ahead of a
Ahead(a, b) == Distance(a, b) \in 1 .. SEQ_MOD \div 2

VARIABLES
    evccPort, tcpState, TcpSeqNr, TcpAckNr,
    tcp_rxdataLen,     \* is there an unread answer?
    tcpPayloadLen,
    TcpTransmitPacket, \* the last header, and the request in the bytes behind it
    session,           \* what the state machine is up to
    mainPc, rxPc,      \* the statement that comes next in each task
    segment,           \* myreceivebuffer
    toCar,             \* the segment that is on its way to the car
    evse               \* the charger's end

sharedVars == <<TcpSeqNr, TcpAckNr, tcpPayloadLen, TcpTransmitPacket>>
mainVars   == <<evccPort, session, mainPc>>
rxVars     == <<rxPc, segment>>
vars == <<connMgrVars, sharedVars, mainVars, rxVars, tcpState, tcp_rxdataLen, toCar, evse>>

\* A segment of the charger.  The car looks at nothing else.
Segment(port, syn, seq, ack, len) ==
    [port |-> port, syn |-> syn, seq |-> seq, ack |-> ack, len |-> len]
NoSegment == Segment(0, FALSE, 0, 0, 0)

Packet(port, syn, seq, ack, len, request) ==
    [port |-> port, syn |-> syn, seq |-> seq, ack |-> ack, len |-> len, request |-> request]
NoPacket == Packet(0, FALSE, 0, 0, 0, 0)

Init ==
    /\ ConnMgrInit
    /\ evccPort = 1 /\ tcpState = "CLOSED" /\ TcpSeqNr = 0 /\ TcpAckNr = 0
    /\ tcp_rxdataLen = 0 /\ tcpPayloadLen = 0
    /\ TcpTransmitPacket = NoPacket
    /\ session = "none" /\ mainPc = "connMgr" /\ rxPc = "idle"
    /\ segment = NoSegment /\ toCar = NoSegment
    /\ evse = [port |-> 0, state |-> "LISTEN", rcvNxt |-> 0, sndUna |-> 0, sndNxt |-> 0,
               owed |-> 0, confused |-> FALSE]

-----------------------------------------------------------------------------
(* Both tasks.                                                             *)

\* tcp_prepareTcpHeader: the numbers and the length as they are now.  The bytes behind the header
\* stay, whatever they are.
tcp_prepareTcpHeader(syn) ==
    TcpTransmitPacket' = Packet(evccPort, syn, TcpSeqNr, TcpAckNr, tcpPayloadLen,
                                TcpTransmitPacket.request)

-----------------------------------------------------------------------------
(* The charger (outside the repository), a TCP as the standard has it.     *)

\* A segment that ends before what is expected next is dropped, the acknowledgement in it too.
Acceptable(p) ==
    /\ p.port = evse.port /\ evse.state # "LISTEN"
    /\ IF p.len = 0 THEN ~Ahead(p.seq, evse.rcvNxt) ELSE Ahead(evse.rcvNxt, Plus(p.seq, p.len))

Acknowledged(p) ==
    [evse EXCEPT !.sndUna = IF Distance(@, p.ack) <= Distance(@, evse.sndNxt) THEN p.ack ELSE @,
                 !.state = IF p.ack = evse.sndNxt THEN "ESTABLISHED" ELSE @]

\* The stream is taken from where it is expected; a request that lies there whole is answered, and
\* after anything else the charger no longer knows where a message begins.
EvseReceives(p) ==
    IF p.syn
    THEN evse' = [port |-> p.port, state |-> "SYN_RCVD", rcvNxt |-> Plus(p.seq, 1),
                  sndUna |-> 0, sndNxt |-> 1, owed |-> 0, confused |-> FALSE]
    ELSE IF ~Acceptable(p) THEN UNCHANGED evse
    ELSE IF p.len = 0 \/ Acknowledged(p).state # "ESTABLISHED" \/ Ahead(evse.rcvNxt, p.seq)
         THEN evse' = Acknowledged(p)
    ELSE LET whole == p.seq = evse.rcvNxt /\ p.len = p.request
         IN  evse' = [Acknowledged(p) EXCEPT
                        !.rcvNxt = Plus(p.seq, p.len),
                        !.confused = @ \/ ~whole,
                        !.owed = IF whole /\ @ < EVSE_WINDOW THEN @ + 1 ELSE @]

\* tcp_packRequestIntoIp, tcp_packRequestIntoEthernet and myEthTransmit: the packet goes out as it
\* is now, and may get lost.  Its header is forgotten here when the other task is not about to
\* send it too, because each fills it in before it sends.
tcp_packRequestIntoIp(otherSends) ==
    /\ EvseReceives(TcpTransmitPacket) \/ UNCHANGED evse
    /\ TcpTransmitPacket' = IF otherSends THEN TcpTransmitPacket
                            ELSE [NoPacket EXCEPT !.request = TcpTransmitPacket.request]

\* One segment is under way; a later one takes the place of one that is lost.
EvseSends(s) == toCar # s /\ toCar' = s

EvseSynAck ==
    /\ evse.state = "SYN_RCVD"
    /\ EvseSends(Segment(evse.port, TRUE, 0, evse.rcvNxt, 0))
    /\ UNCHANGED evse

EvseAnswers ==
    /\ evse.state = "ESTABLISHED" /\ ~evse.confused /\ evse.owed > 0
    /\ Distance(evse.sndUna, evse.sndNxt) < EVSE_WINDOW
    /\ EvseSends(Segment(evse.port, FALSE, evse.sndNxt, evse.rcvNxt, 1))
    /\ evse' = [evse EXCEPT !.sndNxt = Plus(@, 1), !.owed = @ - 1]

\* Whatever is not acknowledged is sent again.
EvseRepeats ==
    /\ evse.state = "ESTABLISHED"
    /\ \E k \in 0 .. EVSE_WINDOW - 1 :
          /\ k < Distance(evse.sndUna, evse.sndNxt)
          /\ EvseSends(Segment(evse.port, FALSE, Plus(evse.sndUna, k), evse.rcvNxt, 1))
    /\ UNCHANGED evse

EvseAcks ==
    /\ evse.state = "ESTABLISHED"
    /\ EvseSends(Segment(evse.port, FALSE, evse.sndNxt, evse.rcvNxt, 0))
    /\ UNCHANGED evse

\* A connection that the car has left without a word is still open at the charger.
OldConnectionRepeats ==
    /\ \E port \in Ports :
          port # evccPort /\ EvseSends(Segment(port, FALSE, 0, Plus(TcpSeqNr, 1), 1))
    /\ UNCHANGED evse

Evse ==
    /\ EvseSynAck \/ EvseAnswers \/ EvseRepeats \/ EvseAcks \/ OldConnectionRepeats
    /\ UNCHANGED <<connMgrVars, sharedVars, mainVars, rxVars, tcpState, tcp_rxdataLen>>

-----------------------------------------------------------------------------
(* The receive task: evaluateTcpPacket and tcp_sendAck.                    *)

Rx(from, to) == rxPc = from /\ rxPc' = to
rxUnchanged == <<mainVars, toCar, connMgr_ConnectionLevel, isEthLinkUp>>

TakeSegmentOfAnyPort ==  \* mutant: the port is not checked
    /\ rxPc = "idle" /\ toCar # NoSegment /\ toCar' = NoSegment
    /\ segment' = toCar
    /\ rxPc' = IF toCar.syn THEN IF tcpState = "SYN_SENT" THEN "connected" ELSE "idle"
               ELSE IF tcpState # "ESTABLISHED" THEN "idle"
               ELSE IF toCar.len > 0 THEN "data" ELSE "seqNr"
    /\ UNCHANGED <<connMgrVars, sharedVars, mainVars, tcpState, tcp_rxdataLen, evse>>

\* The port, the flags and the state are looked at; what is not wanted leaves no trace.
TakeSegment ==
    /\ rxPc = "idle" /\ toCar # NoSegment /\ toCar' = NoSegment
    /\ segment' = toCar
    /\ rxPc' = IF toCar.port # evccPort THEN "idle"
               ELSE IF toCar.syn THEN IF tcpState = "SYN_SENT" THEN "connected" ELSE "idle"
               ELSE IF tcpState # "ESTABLISHED" THEN "idle"
               ELSE IF toCar.len > 0 THEN "data" ELSE "seqNr"
    /\ UNCHANGED <<connMgrVars, sharedVars, mainVars, tcpState, tcp_rxdataLen, evse>>

Connected ==
    /\ Rx("connected", "ackLen")
    /\ TcpSeqNr' = segment.ack
    /\ TcpAckNr' = Plus(segment.seq, 1)
    /\ tcpState' = "ESTABLISHED"
    /\ UNCHANGED <<rxUnchanged, connMgr_timer, tcpPayloadLen, TcpTransmitPacket,
                   tcp_rxdataLen, segment, evse>>

StoreData ==
    /\ Rx("data", "ackNr")
    /\ tcp_rxdataLen' = 1
    /\ UNCHANGED <<rxUnchanged, connMgr_timer, sharedVars, tcpState, segment, evse>>

SetAckNrLikeForSyn ==  \* mutant: one too many, as if data were a SYN
    /\ Rx("ackNr", "ackLen")
    /\ connMgr_timer' = TcpOk(connMgr_timer)
    /\ TcpAckNr' = Plus(segment.seq, segment.len + 1)
    /\ UNCHANGED <<rxUnchanged, TcpSeqNr, tcpPayloadLen, TcpTransmitPacket,
                   tcpState, tcp_rxdataLen, segment, evse>>

SetAckNr ==
    /\ Rx("ackNr", "ackLen")
    /\ connMgr_timer' = TcpOk(connMgr_timer)
    /\ TcpAckNr' = Plus(segment.seq, segment.len)
    /\ UNCHANGED <<rxUnchanged, TcpSeqNr, tcpPayloadLen, TcpTransmitPacket,
                   tcpState, tcp_rxdataLen, segment, evse>>

SetAckLen ==
    /\ Rx("ackLen", "ackHeader")
    /\ tcpPayloadLen' = 0
    /\ UNCHANGED <<rxUnchanged, connMgr_timer, TcpSeqNr, TcpAckNr, TcpTransmitPacket,
                   tcpState, tcp_rxdataLen, segment, evse>>

PrepareAck ==
    /\ Rx("ackHeader", "ackSend")
    /\ tcp_prepareTcpHeader(FALSE)
    /\ UNCHANGED <<rxUnchanged, connMgr_timer, TcpSeqNr, TcpAckNr, tcpPayloadLen,
                   tcpState, tcp_rxdataLen, segment, evse>>

\* After the first acknowledgement of a connection the connection is reported.
TransmitAck ==
    /\ Rx("ackSend", IF segment.syn THEN "idle" ELSE "seqNr")
    /\ tcp_packRequestIntoIp(mainPc = "send")
    /\ connMgr_timer' = IF segment.syn THEN TcpOk(connMgr_timer) ELSE connMgr_timer
    /\ segment' = IF segment.syn THEN NoSegment ELSE segment
    /\ UNCHANGED <<rxUnchanged, TcpSeqNr, TcpAckNr, tcpPayloadLen, tcpState, tcp_rxdataLen>>

SetSeqNr ==
    /\ Rx("seqNr", "idle")
    /\ TcpSeqNr' = segment.ack
    /\ segment' = NoSegment
    /\ UNCHANGED <<rxUnchanged, connMgr_timer, TcpAckNr, tcpPayloadLen, TcpTransmitPacket,
                   tcpState, tcp_rxdataLen, evse>>

RxStep ==
    Connected \/ StoreData \/ SetAckNr \/ SetAckLen \/ PrepareAck \/ TransmitAck \/ SetSeqNr

-----------------------------------------------------------------------------
(* The main loop.                                                          *)

Main(from, to) == mainPc = from /\ mainPc' = to
mainUnchanged == <<rxVars, toCar>>

\* A cycle begins.  Handling a segment takes less than the pause between two cycles.
CallConnMgr ==
    /\ Main("connMgr", "tcp") /\ rxPc = "idle"
    /\ connMgr_Mainfunction
    /\ UNCHANGED <<mainUnchanged, sharedVars, evccPort, session, tcpState,
                   tcp_rxdataLen, evse>>

NextPortUnlimited(port) == port + 1  \* mutant: the limit is not checked
NextPort(port) == (port + 1) % PORTS

NeedsConnection == connMgr_ConnectionLevel = 50 /\ tcpState = "CLOSED"

tcp_MainfunctionNeverCloses ==  \* mutant: an attempt to connect is never given up
    /\ mainPc = "tcp"
    /\ mainPc' = IF NeedsConnection THEN "syn" ELSE "pev"
    /\ evccPort' = IF NeedsConnection THEN NextPort(evccPort) ELSE evccPort
    /\ UNCHANGED <<mainUnchanged, connMgrVars, sharedVars, session, tcpState, tcp_rxdataLen,
                   evse>>

\* Without a charger the connection is dropped, with one and nothing more it is set up.
tcp_Mainfunction ==
    /\ mainPc = "tcp"
    /\ mainPc' = IF NeedsConnection THEN "syn" ELSE "pev"
    /\ evccPort' = IF NeedsConnection THEN NextPort(evccPort) ELSE evccPort
    /\ tcpState' = IF connMgr_ConnectionLevel < 50 THEN "CLOSED" ELSE tcpState
    /\ UNCHANGED <<mainUnchanged, connMgrVars, sharedVars, session, tcp_rxdataLen, evse>>

\* tcp_connect.  The receive task ignores everything meanwhile, so that only the order of sending
\* and noting that it was sent matters.
SendSyn ==
    /\ Main("syn", "synSent")
    /\ EvseReceives(Packet(evccPort, TRUE, TcpSeqNr, TcpAckNr, 0, 0)) \/ UNCHANGED evse
    /\ tcpPayloadLen' = 0
    /\ UNCHANGED <<mainUnchanged, connMgrVars, TcpSeqNr, TcpAckNr, TcpTransmitPacket,
                   evccPort, session, tcpState, tcp_rxdataLen>>

SetSynSent ==
    /\ Main("synSent", "pev")
    /\ tcpState' = "SYN_SENT"
    /\ UNCHANGED <<mainUnchanged, connMgrVars, sharedVars, evccPort, session,
                   tcp_rxdataLen, evse>>

\* pev_runFsm: without a connection the session is given up; a new one starts with a request; an
\* answer is looked at; a request may have to wait for its time; a timeout closes the connection.
CallPev ==
    /\ mainPc = "pev"
    /\ \/ /\ connMgr_ConnectionLevel < 80
          /\ session' = "none" /\ mainPc' = "connMgr" /\ UNCHANGED tcpState
       \/ /\ connMgr_ConnectionLevel >= 80
          /\ \/ /\ session \in {"none", "delayed"}
                /\ session' = "waiting" /\ mainPc' = "payload" /\ UNCHANGED tcpState
             \/ /\ session = "waiting" /\ tcp_rxdataLen > 0
                /\ mainPc' = "decode" /\ UNCHANGED <<session, tcpState>>
             \/ /\ session = "delayed" \/ (session = "waiting" /\ tcp_rxdataLen = 0)
                /\ mainPc' = "connMgr" /\ UNCHANGED <<session, tcpState>>
             \/ /\ session = "waiting"
                /\ session' = "over" /\ mainPc' = "connMgr" /\ tcpState' = "CLOSED"
             \/ /\ session = "over"
                /\ mainPc' = "connMgr" /\ UNCHANGED <<session, tcpState>>
    /\ UNCHANGED <<mainUnchanged, connMgrVars, sharedVars, evccPort, tcp_rxdataLen, evse>>

\* The answer is decoded and the slot marked as empty: the next request, now or after a delay, or
\* it was not what the state waits for.
Consume ==
    /\ mainPc = "decode"
    /\ tcp_rxdataLen' = 0
    /\ \/ mainPc' = "payload" /\ UNCHANGED session
       \/ mainPc' = "connMgr" /\ session' \in {"waiting", "delayed"}
    /\ UNCHANGED <<mainUnchanged, connMgrVars, sharedVars, evccPort, tcpState, evse>>

\* addV2GTPHeaderAndTransmit.
FillPayload ==
    /\ Main("payload", "copy")
    /\ tcpPayloadLen' \in RequestLens
    /\ UNCHANGED <<mainUnchanged, connMgrVars, TcpSeqNr, TcpAckNr, TcpTransmitPacket,
                   evccPort, session, tcpState, tcp_rxdataLen, evse>>

\* tcp_transmit: as much is copied as tcpPayloadLen says now.
CopyPayload ==
    /\ mainPc = "copy"
    /\ mainPc' = IF tcpState = "ESTABLISHED" THEN "header" ELSE "connMgr"
    /\ TcpTransmitPacket' = IF tcpState = "ESTABLISHED" /\ tcpPayloadLen > 0
                            THEN [TcpTransmitPacket EXCEPT !.request = tcpPayloadLen]
                            ELSE TcpTransmitPacket
    /\ UNCHANGED <<mainUnchanged, connMgrVars, TcpSeqNr, TcpAckNr, tcpPayloadLen,
                   evccPort, session, tcpState, tcp_rxdataLen, evse>>

PrepareRequest ==
    /\ Main("header", "send")
    /\ tcp_prepareTcpHeader(FALSE)
    /\ UNCHANGED <<mainUnchanged, connMgrVars, TcpSeqNr, TcpAckNr, tcpPayloadLen,
                   evccPort, session, tcpState, tcp_rxdataLen, evse>>

TransmitRequest ==
    /\ Main("send", "connMgr")
    /\ tcp_packRequestIntoIp(rxPc = "ackSend")
    /\ UNCHANGED <<mainUnchanged, connMgrVars, TcpSeqNr, TcpAckNr, tcpPayloadLen, evccPort,
                   session, tcpState, tcp_rxdataLen>>

MainStep ==
    \/ CallConnMgr \/ tcp_Mainfunction \/ SendSyn \/ SetSynSent \/ CallPev \/ Consume
    \/ FillPayload \/ CopyPayload \/ PrepareRequest \/ TransmitRequest

-----------------------------------------------------------------------------
\* The SDP client reports a charger when there is no connection; the link is up for good.
ReceiveSdpResponse ==
    /\ connMgr_ConnectionLevel < 50
    /\ connMgr_timer' = SdpOk(connMgr_timer)
    /\ UNCHANGED <<connMgr_ConnectionLevel, isEthLinkUp, sharedVars, mainVars, rxVars, tcpState,
                   tcp_rxdataLen, toCar, evse>>
LinkComesUp ==
    /\ EthLinkEvent(TRUE)
    /\ UNCHANGED <<sharedVars, mainVars, rxVars, tcpState, tcp_rxdataLen, toCar, evse>>

Next == MainStep \/ TakeSegment \/ RxStep \/ Evse \/ ReceiveSdpResponse \/ LinkComesUp

\* The tasks go on.  The network loses what it likes, and the charger is as slow as it likes, but
\* some SYN arrives, some SYN+ACK is sent while the car waits for it, and some of them arrives.
Fairness ==
    /\ WF_vars(MainStep) /\ WF_vars(RxStep)
    /\ WF_vars(ReceiveSdpResponse) /\ WF_vars(LinkComesUp)
    /\ SF_vars(SendSyn /\ evse'.port = evccPort /\ evse'.state = "SYN_RCVD")
    /\ SF_vars(Evse /\ EvseSynAck /\ evse.port = evccPort /\ tcpState = "SYN_SENT")
    /\ SF_vars(TakeSegment /\ rxPc' = "connected")

Spec == Init /\ [][Next]_vars /\ Fairness

-----------------------------------------------------------------------------
\* Both ends take the connection for set up, on the same port.
Open == tcpState = "ESTABLISHED" /\ evse.port = evccPort

\* All variables stay in their types; in particular the port number starts again at its limit
\* (tcp.ino:306-307).
TypeOK ==
    /\ ConnMgrTypeOK
    /\ evccPort \in Ports
    /\ tcpState \in {"CLOSED", "SYN_SENT", "ESTABLISHED"}
    /\ {TcpSeqNr, TcpAckNr} \subseteq SeqNrs
    /\ tcp_rxdataLen \in {0, 1}
    /\ tcpPayloadLen \in RequestLens \cup {0}
    /\ session \in {"none", "waiting", "delayed", "over"}

\* Whatever segments are lost, repeated or late, the car never numbers its next packet beyond what
\* the charger has received: the stream of requests has no hole, which the car, that keeps no
\* packet, could never fill (tcp.ino:56-60, 73-88, 104).
NoHole == Open => ~Ahead(evse.rcvNxt, TcpSeqNr)

\* Whatever segments are lost, repeated or late, the car never acknowledges more than the charger
\* has sent, although it takes segments in any order: nothing that the charger has still to say
\* counts as delivered (tcp.ino:73-76, 93-100).
AcksWhatWasSent == Open => ~Ahead(evse.sndNxt, TcpAckNr)

\* The SYN is sent once, and a SYN+ACK that is too early or too late is ignored.  All the same
\* the car comes back to a connection for as long as it runs, because a wait without success lets
\* the SDP report expire and that closes the attempt (tcp.ino:73-74, 129, 297-309).
ComesUp == []<>(tcpState = "ESTABLISHED")

\* "The sequence number of our next transmit packet is given by the received ACK number"
\* (tcp.ino:104): a request that is put together while a segment is handled is not numbered
\* before what that segment acknowledges.
RequestFollowsAck ==
    [][mainPc = "header" /\ mainPc' = "send" /\ rxPc # "idle" =>
         ~Ahead(TcpTransmitPacket'.seq, segment.ack)]_vars
=============================================================================
