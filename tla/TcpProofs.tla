----------------------------- MODULE TcpProofs ------------------------------
(***************************************************************************)
(* Proofs about Tcp, for all values of its constants: the types, and that  *)
(* the sequence and acknowledgement numbers of the car never run ahead of  *)
(* the charger, however the segments are lost, repeated and delayed and    *)
(* however the two tasks interleave.                                       *)
(***************************************************************************)
EXTENDS Tcp, ConnMgrProofs

-----------------------------------------------------------------------------
(* Arithmetic modulo SEQ_MOD.  Everything below uses these lemmas only.    *)

\* Less than half of the numbers.
Half == (SEQ_MOD - 1) \div 2

\* What can be known of Half without division.
LEMMA HalfIs ==
    /\ Half \in Nat /\ 1 <= Half /\ 2 * Half <= SEQ_MOD - 1
    /\ SEQ_MOD \div 2 \in Nat /\ 2 * (SEQ_MOD \div 2) <= SEQ_MOD
    /\ SEQ_MOD - 1 <= 2 * (SEQ_MOD \div 2)
  BY TcpAssumption DEF Half

\* b is reached from a by counting n on, with at most one wrap.
CountsTo(a, n, b) ==
    /\ n \in 0 .. SEQ_MOD - 1
    /\ b = a + n \/ b = a + n - SEQ_MOD

\* That is what a distance is, without the modulus,
LEMMA DistanceCounts ==
    ASSUME NEW a \in SeqNrs, NEW b \in SeqNrs
    PROVE  CountsTo(a, Distance(a, b), b)
  <1>1. CASE b >= a
    <2>1. b - a \in 0 .. SEQ_MOD - 1
      BY <1>1, TcpAssumption DEF SeqNrs
    <2>2. (b - a) % SEQ_MOD = b - a
      BY <2>1, TcpAssumption
    <2> QED
      BY <2>1, <2>2, TcpAssumption DEF Distance, SeqNrs, CountsTo
  <1>2. CASE b < a
    <2> DEFINE x == a - b
    <2>1. x \in 1 .. SEQ_MOD - 1 /\ b - a = -x
      BY <1>2, TcpAssumption DEF SeqNrs
    <2> HIDE DEF x
    <2>2. (-x) % SEQ_MOD = SEQ_MOD - x
      BY <2>1, TcpAssumption
    <2>3. Distance(a, b) = SEQ_MOD - x
      BY <2>1, <2>2 DEF Distance
    <2> QED
      BY <2>1, <2>3, TcpAssumption DEF x, SeqNrs, CountsTo
  <1> QED
    BY <1>1, <1>2, TcpAssumption DEF SeqNrs

\* and only one distance is.
LEMMA DistanceUnique ==
    ASSUME NEW a \in SeqNrs, NEW b \in SeqNrs, NEW n, CountsTo(a, n, b)
    PROVE  n = Distance(a, b)
  <1>1. CountsTo(a, Distance(a, b), b)
    BY DistanceCounts
  <1> QED
    BY <1>1, TcpAssumption DEF CountsTo, SeqNrs

\* A distance is a number.
LEMMA DistanceType ==
    ASSUME NEW a \in SeqNrs, NEW b \in SeqNrs
    PROVE  Distance(a, b) \in Nat /\ Distance(a, b) < SEQ_MOD
  BY DistanceCounts, TcpAssumption DEF CountsTo

\* A sum without the modulus.
LEMMA PlusCounts ==
    ASSUME NEW a \in SeqNrs, NEW n \in 0 .. SEQ_MOD - 1
    PROVE  CountsTo(a, n, Plus(a, n)) /\ Plus(a, n) \in SeqNrs
  <1> DEFINE x == a + n
  <1>1. x \in 0 .. 2 * SEQ_MOD - 1
    BY TcpAssumption DEF SeqNrs
  <1> HIDE DEF x
  <1>2. CASE x < SEQ_MOD
    <2>1. x % SEQ_MOD = x
      BY <1>1, <1>2, TcpAssumption
    <2> QED
      BY <1>1, <1>2, <2>1, TcpAssumption DEF Plus, x, SeqNrs, CountsTo
  <1>3. CASE x >= SEQ_MOD
    <2>1. x % SEQ_MOD = x - SEQ_MOD
      BY <1>1, <1>3, TcpAssumption
    <2> QED
      BY <1>1, <1>3, <2>1, TcpAssumption DEF Plus, x, SeqNrs, CountsTo
  <1> QED
    BY <1>1, <1>2, <1>3, TcpAssumption

\* A number is at no distance from itself, and only from itself.
LEMMA DistanceZero ==
    ASSUME NEW a \in SeqNrs, NEW b \in SeqNrs
    PROVE  (Distance(a, b) = 0) <=> a = b
  <1>1. CountsTo(a, Distance(a, b), b)
    BY DistanceCounts
  <1> QED
    BY <1>1, TcpAssumption DEF CountsTo, SeqNrs

\* Distances add up as long as they do not go round.
LEMMA DistancesAdd ==
    ASSUME NEW a \in SeqNrs, NEW b \in SeqNrs, NEW c \in SeqNrs,
           Distance(a, b) + Distance(b, c) < SEQ_MOD
    PROVE  Distance(a, c) = Distance(a, b) + Distance(b, c)
  <1>1. CountsTo(a, Distance(a, b), b) /\ CountsTo(b, Distance(b, c), c)
    BY DistanceCounts
  <1>2. CountsTo(a, Distance(a, b) + Distance(b, c), c)
    BY <1>1, TcpAssumption DEF CountsTo, SeqNrs
  <1> QED
    BY <1>2, DistanceUnique

\* A distance splits at any number that is no further away.
LEMMA DistanceSplits ==
    ASSUME NEW a \in SeqNrs, NEW b \in SeqNrs, NEW c \in SeqNrs,
           Distance(a, b) <= Distance(a, c)
    PROVE  Distance(b, c) = Distance(a, c) - Distance(a, b)
  <1>1. CountsTo(a, Distance(a, b), b) /\ CountsTo(a, Distance(a, c), c)
    BY DistanceCounts
  <1>2. CountsTo(b, Distance(a, c) - Distance(a, b), c)
    BY <1>1, TcpAssumption DEF CountsTo, SeqNrs
  <1> QED
    BY <1>2, DistanceUnique

\* It splits as well at any number that is no further from its end.
LEMMA DistanceSplitsAtEnd ==
    ASSUME NEW a \in SeqNrs, NEW b \in SeqNrs, NEW c \in SeqNrs,
           Distance(b, c) <= Distance(a, c)
    PROVE  Distance(a, b) = Distance(a, c) - Distance(b, c)
  <1>1. CountsTo(b, Distance(b, c), c) /\ CountsTo(a, Distance(a, c), c)
    BY DistanceCounts
  <1>2. CountsTo(a, Distance(a, c) - Distance(b, c), b)
    BY <1>1, TcpAssumption DEF CountsTo, SeqNrs
  <1> QED
    BY <1>2, DistanceUnique

\* A sum is as far away as was added.
LEMMA DistanceOfSum ==
    ASSUME NEW a \in SeqNrs, NEW n \in 0 .. SEQ_MOD - 1
    PROVE  Plus(a, n) \in SeqNrs /\ Distance(a, Plus(a, n)) = n
  BY PlusCounts, DistanceUnique

\* The start of a distance moves.
LEMMA StartMoves ==
    ASSUME NEW a \in SeqNrs, NEW b \in SeqNrs, NEW n \in 0 .. SEQ_MOD - 1, n <= Distance(a, b)
    PROVE  Plus(a, n) \in SeqNrs /\ Distance(Plus(a, n), b) = Distance(a, b) - n
  <1>1. Plus(a, n) \in SeqNrs /\ Distance(a, Plus(a, n)) = n
    BY DistanceOfSum
  <1> QED
    BY <1>1, DistanceSplits

\* The end of a distance moves.
LEMMA EndMoves ==
    ASSUME NEW a \in SeqNrs, NEW b \in SeqNrs, NEW n \in 0 .. SEQ_MOD - 1,
           Distance(a, b) + n < SEQ_MOD
    PROVE  Plus(b, n) \in SeqNrs /\ Distance(a, Plus(b, n)) = Distance(a, b) + n
  <1>1. Plus(b, n) \in SeqNrs /\ Distance(b, Plus(b, n)) = n
    BY DistanceOfSum
  <1> QED
    BY <1>1, DistancesAdd

\* What is less than half behind is not ahead.
LEMMA BehindIsNotAhead ==
    ASSUME NEW a \in SeqNrs, NEW b \in SeqNrs, Distance(a, b) <= Half
    PROVE  ~Ahead(b, a)
  <1>1. CountsTo(a, Distance(a, b), b) /\ CountsTo(b, Distance(b, a), a)
    BY DistanceCounts
  <1> QED
    BY <1>1, HalfIs, TcpAssumption DEF CountsTo, Ahead, SeqNrs

\* New data moves what is expected.  All that is no further behind than the data moves with it.
LEMMA StreamMoves ==
    ASSUME NEW next \in SeqNrs, NEW seq \in SeqNrs, NEW len \in 1 .. Half,
           Distance(seq, next) <= Half, Ahead(next, Plus(seq, len)),
           NEW x \in SeqNrs, Distance(x, next) <= Distance(seq, next)
    PROVE  /\ Distance(seq, Plus(seq, len)) = len
           /\ Distance(x, Plus(seq, len)) = Distance(x, next) + len - Distance(seq, next)
           /\ Distance(x, Plus(seq, len)) <= len
  <1> DEFINE end == Plus(seq, len)
  <1>0. len \in 0 .. SEQ_MOD - 1
    BY HalfIs, TcpAssumption
  <1>1. end \in SeqNrs /\ Distance(seq, end) = len
    BY <1>0, DistanceOfSum
  <1>d. /\ Distance(seq, next) \in Nat /\ Distance(x, next) \in Nat
        /\ Distance(next, end) \in Nat /\ Distance(end, next) \in Nat
    BY <1>1, DistanceType
  <1> HIDE DEF end
  <1>2. Distance(next, end) = len - Distance(seq, next)
    <2>1. CASE Distance(seq, next) <= len
      BY <1>1, <2>1, DistanceSplits
    <2>2. CASE len < Distance(seq, next)
      <3>1. Distance(end, next) = Distance(seq, next) - len
        <4>1. len <= Distance(seq, next)
          BY <1>d, <2>2
        <4> QED
          BY <1>0, <4>1, StartMoves DEF end
      <3>2. Distance(end, next) <= Half
        BY <1>d, <3>1, HalfIs
      <3> QED
        BY <1>1, <3>2, BehindIsNotAhead, Zenon DEF end
    <2> QED
      BY <1>d, <2>1, <2>2
  <1>3. Distance(x, end) = Distance(x, next) + Distance(next, end)
    <2>1. Distance(x, next) + Distance(next, end) < SEQ_MOD
      BY <1>d, <1>2, HalfIs, TcpAssumption
    <2> QED
      BY <1>1, <2>1, DistancesAdd
  <1> QED
    BY <1>1, <1>2, <1>3, <1>d DEF end

-----------------------------------------------------------------------------
(* Type correctness.  TypeOK leaves out the variables that only the        *)
(* charger, the network and the frame buffers have.                        *)

Segments == [port : Ports, syn : BOOLEAN, seq : SeqNrs, ack : SeqNrs, len : {0, 1}]
Packets  == [port : Ports, syn : BOOLEAN, seq : SeqNrs, ack : SeqNrs,
             len : RequestLens \cup {0}, request : RequestLens \cup {0}]
EvseStates == [port : Ports, state : {"LISTEN", "SYN_RCVD", "ESTABLISHED"}, rcvNxt : SeqNrs,
               sndUna : SeqNrs, sndNxt : SeqNrs, owed : Nat, confused : BOOLEAN]

TypeInv ==
    /\ TypeOK
    /\ segment \in Segments /\ toCar \in Segments
    /\ TcpTransmitPacket \in Packets
    /\ evse \in EvseStates

\* Zero and one are sequence numbers, and a request is shorter than half of them.
LEMMA ConstantTypes ==
    /\ 0 \in SeqNrs /\ 1 \in SeqNrs /\ 0 \in Ports /\ 1 \in Ports
    /\ \A len \in RequestLens : len \in 1 .. Half
    /\ \A len \in RequestLens \cup {0} : len \in 0 .. SEQ_MOD - 1
  BY HalfIs, TcpAssumption DEF SeqNrs, Ports, Half

\* A sum with a length, or with one, is a sequence number.
LEMMA PlusType ==
    ASSUME NEW a \in SeqNrs, NEW n \in RequestLens \cup {0, 1}
    PROVE  Plus(a, n) \in SeqNrs
  <1>1. n \in 0 .. SEQ_MOD - 1
    BY ConstantTypes, TcpAssumption
  <1> QED
    BY <1>1, PlusCounts

\* Every segment that the charger sends is well typed.
LEMMA SegmentType ==
    ASSUME NEW port \in Ports, NEW syn \in BOOLEAN, NEW seq \in SeqNrs, NEW ack \in SeqNrs,
           NEW len \in {0, 1}
    PROVE  Segment(port, syn, seq, ack, len) \in Segments
  BY DEF Segment, Segments

\* The charger stays well typed whatever it receives.
LEMMA EvseReceivesType ==
    ASSUME evse \in EvseStates, NEW p \in Packets, EvseReceives(p) \/ UNCHANGED evse
    PROVE  evse' \in EvseStates
  <1>1. /\ p.port \in Ports /\ p.seq \in SeqNrs /\ p.ack \in SeqNrs
        /\ p.len \in RequestLens \cup {0}
    BY DEF Packets
  <1>2. Plus(p.seq, 1) \in SeqNrs /\ Plus(p.seq, p.len) \in SeqNrs
    BY <1>1, PlusType
  <1>3. Acknowledged(p) \in EvseStates
    <2> DEFINE una == IF Distance(evse.sndUna, p.ack) <= Distance(evse.sndUna, evse.sndNxt)
                      THEN p.ack ELSE evse.sndUna
               state == IF p.ack = evse.sndNxt THEN "ESTABLISHED" ELSE evse.state
    <2>1. una \in SeqNrs /\ state \in {"LISTEN", "SYN_RCVD", "ESTABLISHED"}
      BY <1>1 DEF EvseStates
    <2>2. Acknowledged(p) = [evse EXCEPT !.sndUna = una, !.state = state]
      BY DEF Acknowledged
    <2> HIDE DEF una, state
    <2> QED
      BY <2>1, <2>2 DEF EvseStates
  <1>4. CASE p.syn /\ EvseReceives(p)
    <2>1. evse' = [port |-> p.port, state |-> "SYN_RCVD", rcvNxt |-> Plus(p.seq, 1),
                   sndUna |-> 0, sndNxt |-> 1, owed |-> 0, confused |-> FALSE]
      BY <1>4 DEF EvseReceives
    <2> QED
      BY <1>1, <1>2, <2>1, ConstantTypes DEF EvseStates
  <1>5. CASE UNCHANGED evse
    BY <1>5
  <1>6. CASE evse' = Acknowledged(p)
    BY <1>3, <1>6
  <1>7. CASE \E owed \in Nat, confused \in BOOLEAN :
               evse' = [Acknowledged(p) EXCEPT !.rcvNxt = Plus(p.seq, p.len),
                                               !.confused = confused, !.owed = owed]
    BY <1>2, <1>3, <1>7 DEF EvseStates
  <1>8. ASSUME ~p.syn, EvseReceives(p), ~UNCHANGED evse, evse' # Acknowledged(p)
        PROVE  \E owed \in Nat, confused \in BOOLEAN :
               evse' = [Acknowledged(p) EXCEPT !.rcvNxt = Plus(p.seq, p.len),
                                               !.confused = confused, !.owed = owed]
    <2> DEFINE whole == p.seq = evse.rcvNxt /\ p.len = p.request
               ack == Acknowledged(p)
               owed == IF whole /\ ack.owed < EVSE_WINDOW THEN ack.owed + 1 ELSE ack.owed
               confused == ack.confused \/ ~whole
    <2>1. evse' = [ack EXCEPT !.rcvNxt = Plus(p.seq, p.len), !.confused = confused, !.owed = owed]
      BY <1>8 DEF EvseReceives
    <2>2. owed \in Nat
      BY <1>3 DEF EvseStates
    <2>3. confused \in BOOLEAN
      OBVIOUS
    <2> QED
      BY <2>1, <2>2, <2>3
  <1> QED
    BY <1>4, <1>5, <1>6, <1>7, <1>8

\* Sending the packet keeps it and the charger well typed.
LEMMA SendType ==
    ASSUME TypeInv, NEW otherSends \in BOOLEAN, tcp_packRequestIntoIp(otherSends)
    PROVE  TcpTransmitPacket' \in Packets /\ evse' \in EvseStates
  <1>1. evse' \in EvseStates
    BY EvseReceivesType DEF TypeInv, tcp_packRequestIntoIp
  <1>2. [NoPacket EXCEPT !.request = TcpTransmitPacket.request] \in Packets
    BY ConstantTypes DEF TypeInv, NoPacket, Packet, Packets
  <1> QED
    BY <1>1, <1>2 DEF TypeInv, tcp_packRequestIntoIp

\* Preparing the header keeps the packet well typed.
LEMMA PrepareType ==
    ASSUME TypeInv, tcp_prepareTcpHeader(FALSE) PROVE TcpTransmitPacket' \in Packets
  BY DEF TypeInv, TypeOK, tcp_prepareTcpHeader, Packet, Packets

\* The main loop keeps the types.
LEMMA MainType ==
    ASSUME TypeInv, MainStep PROVE TypeInv'
  <1> USE DEF TypeInv, mainUnchanged, rxVars, sharedVars, connMgrVars, Main
  <1>1. CASE CallConnMgr
    <2>1. ConnMgrTypeOK'
      BY <1>1, ConnMgrStepType DEF CallConnMgr, TypeOK
    <2> QED
      BY <1>1, <2>1 DEF CallConnMgr, TypeOK
  <1>2. CASE tcp_Mainfunction
    <2>1. NextPort(evccPort) \in Ports
      BY TcpAssumption DEF NextPort, Ports, TypeOK
    <2> QED
      BY <1>2, <2>1 DEF tcp_Mainfunction, TypeOK, ConnMgrTypeOK
  <1>3. CASE SendSyn
    <2>1. Packet(evccPort, TRUE, TcpSeqNr, TcpAckNr, 0, 0) \in Packets
      BY DEF Packet, Packets, TypeOK
    <2>2. evse' \in EvseStates
      BY <1>3, <2>1, EvseReceivesType DEF SendSyn
    <2> QED
      BY <1>3, <2>2 DEF SendSyn, TypeOK, ConnMgrTypeOK
  <1>4. CASE SetSynSent
    BY <1>4 DEF SetSynSent, TypeOK, ConnMgrTypeOK
  <1>5. CASE CallPev
    BY <1>5 DEF CallPev, TypeOK, ConnMgrTypeOK
  <1>6. CASE Consume
    BY <1>6 DEF Consume, TypeOK, ConnMgrTypeOK
  <1>7. CASE FillPayload
    BY <1>7 DEF FillPayload, TypeOK, ConnMgrTypeOK
  <1>8. CASE CopyPayload
    <2>1. TcpTransmitPacket' \in Packets
      BY <1>8 DEF CopyPayload, Packets, TypeOK
    <2> QED
      BY <1>8, <2>1 DEF CopyPayload, TypeOK, ConnMgrTypeOK
  <1>9. CASE PrepareRequest
    BY <1>9, PrepareType DEF PrepareRequest, TypeOK, ConnMgrTypeOK
  <1>10. CASE TransmitRequest
    BY <1>10, SendType DEF TransmitRequest, TypeOK, ConnMgrTypeOK
  <1> QED
    BY <1>1, <1>2, <1>3, <1>4, <1>5, <1>6, <1>7, <1>8, <1>9, <1>10 DEF MainStep

\* The receive task keeps the types.
LEMMA RxType ==
    ASSUME TypeInv, TakeSegment \/ RxStep PROVE TypeInv'
  <1> USE DEF TypeInv, rxUnchanged, mainVars, rxVars, sharedVars, connMgrVars, Rx
  <1>1. NoSegment \in Segments
    BY SegmentType, ConstantTypes DEF NoSegment
  <1>2. /\ segment.ack \in SeqNrs /\ segment.seq \in SeqNrs
        /\ Plus(segment.seq, 1) \in SeqNrs /\ Plus(segment.seq, segment.len) \in SeqNrs
    BY PlusType DEF Segments
  <1>3. TcpOk(connMgr_timer) \in Timers
    BY ReportType DEF TypeOK, ConnMgrTypeOK, Timers
  <1>4. CASE TakeSegment
    BY <1>1, <1>4 DEF TakeSegment, TypeOK, ConnMgrTypeOK
  <1>5. CASE Connected
    BY <1>2, <1>5 DEF Connected, TypeOK, ConnMgrTypeOK
  <1>6. CASE StoreData
    BY <1>6 DEF StoreData, TypeOK, ConnMgrTypeOK
  <1>7. CASE SetAckNr
    BY <1>2, <1>3, <1>7 DEF SetAckNr, TypeOK, ConnMgrTypeOK, Timers
  <1>8. CASE SetAckLen
    BY <1>8 DEF SetAckLen, TypeOK, ConnMgrTypeOK
  <1>9. CASE PrepareAck
    BY <1>9, PrepareType DEF PrepareAck, TypeOK, ConnMgrTypeOK
  <1>10. CASE TransmitAck
    BY <1>1, <1>3, <1>10, SendType DEF TransmitAck, TypeOK, ConnMgrTypeOK, Timers
  <1>11. CASE SetSeqNr
    BY <1>1, <1>2, <1>11 DEF SetSeqNr, TypeOK, ConnMgrTypeOK
  <1> QED
    BY <1>4, <1>5, <1>6, <1>7, <1>8, <1>9, <1>10, <1>11 DEF RxStep

\* The charger keeps the types.
LEMMA EvseType ==
    ASSUME TypeInv, Evse PROVE TypeInv'
  <1>1. /\ evse.port \in Ports /\ evse.rcvNxt \in SeqNrs /\ evse.sndNxt \in SeqNrs
        /\ evse.sndUna \in SeqNrs /\ evse.owed \in Nat
    BY DEF TypeInv, EvseStates
  <1>2. toCar' \in Segments /\ evse' \in EvseStates
    <2>1. CASE EvseSynAck
      BY <1>1, <2>1, SegmentType, ConstantTypes DEF EvseSynAck, EvseSends, TypeInv
    <2>2. CASE EvseAnswers
      <3>1. Plus(evse.sndNxt, 1) \in SeqNrs
        BY <1>1, PlusType
      <3>2. toCar' \in Segments
        BY <1>1, <2>2, SegmentType DEF EvseAnswers, EvseSends
      <3>3. evse.owed - 1 \in Nat
        BY <1>1, <2>2 DEF EvseAnswers
      <3>4. evse' = [evse EXCEPT !.sndNxt = Plus(evse.sndNxt, 1), !.owed = evse.owed - 1]
        BY <2>2 DEF EvseAnswers
      <3> QED
        BY <3>1, <3>2, <3>3, <3>4 DEF TypeInv, EvseStates
    <2>3. CASE EvseRepeats
      <3>1. PICK k \in 0 .. EVSE_WINDOW - 1 :
               EvseSends(Segment(evse.port, FALSE, Plus(evse.sndUna, k), evse.rcvNxt, 1))
        BY <2>3 DEF EvseRepeats
      <3>2. Plus(evse.sndUna, k) \in SeqNrs
        <4>1. k \in 0 .. SEQ_MOD - 1
          BY TcpAssumption
        <4> QED
          BY <1>1, <4>1, PlusCounts
      <3> QED
        BY <1>1, <2>3, <3>1, <3>2, SegmentType DEF EvseRepeats, EvseSends, TypeInv
    <2>4. CASE EvseAcks
      BY <1>1, <2>4, SegmentType DEF EvseAcks, EvseSends, TypeInv
    <2>5. CASE OldConnectionRepeats
      <3>1. Plus(TcpSeqNr, 1) \in SeqNrs /\ 0 \in SeqNrs
        BY PlusType, ConstantTypes DEF TypeInv, TypeOK
      <3> QED
        BY <2>5, <3>1, SegmentType DEF OldConnectionRepeats, EvseSends, TypeInv
    <2> QED
      BY <2>1, <2>2, <2>3, <2>4, <2>5 DEF Evse
  <1> QED
    BY <1>2 DEF Evse, TypeInv, TypeOK, ConnMgrTypeOK, connMgrVars, sharedVars, mainVars, rxVars

\* Every step keeps the types.
LEMMA TypeStep ==
    ASSUME TypeInv, [Next]_vars PROVE TypeInv'
  <1> USE DEF sharedVars, mainVars, rxVars, connMgrVars
  <1>1. CASE ReceiveSdpResponse
    <2>1. SdpOk(connMgr_timer) \in Timers
      BY ReportType DEF TypeInv, TypeOK, ConnMgrTypeOK, Timers
    <2> QED
      BY <1>1, <2>1 DEF ReceiveSdpResponse, TypeInv, TypeOK, ConnMgrTypeOK, Timers
  <1>2. CASE LinkComesUp
    <2>1. ConnMgrTypeOK'
      BY <1>2, ConnMgrStepType DEF LinkComesUp, TypeInv, TypeOK
    <2> QED
      BY <1>2, <2>1 DEF LinkComesUp, TypeInv, TypeOK, EthLinkEvent
  <1>3. CASE UNCHANGED vars
    BY <1>3 DEF vars, TypeInv, TypeOK, ConnMgrTypeOK
  <1> QED
    BY <1>1, <1>2, <1>3, MainType, RxType, EvseType DEF Next

\* The start is well typed.
LEMMA TypeInit ==
    ASSUME Init PROVE TypeInv
  <1>1. ConnMgrTypeOK
    BY ConnMgrInitType DEF Init
  <1>2. NoSegment \in Segments /\ NoPacket \in Packets
    BY SegmentType, ConstantTypes DEF NoSegment, NoPacket, Packet, Packets
  <1> QED
    BY <1>1, <1>2, ConstantTypes DEF Init, TypeInv, TypeOK, EvseStates

\* All variables stay in their types, the port number at its limit among them.
THEOREM TcpTypeCorrect == Spec => []TypeOK
  <1>1. Init => TypeInv
    BY TypeInit
  <1>2. TypeInv /\ [Next]_vars => TypeInv'
    BY TypeStep
  <1>3. TypeInv => TypeOK
    BY DEF TypeInv
  <1> QED
    BY <1>1, <1>2, <1>3, PTL DEF Spec

-----------------------------------------------------------------------------
(* How the two tasks and the charger are coupled, apart from the numbers.  *)

\* The car is connected, or a segment is still being handled.
Up == tcpState = "ESTABLISHED" \/ rxPc # "idle"

\* A prepared packet is about to be sent.
Pending == mainPc = "send" \/ rxPc = "ackSend"

\* A segment that the receive task may take is under way: a SYN+ACK, or one of this connection.
SynAck  == toCar.syn
Current == toCar # NoSegment /\ ~toCar.syn /\ toCar.port = evccPort /\ Up

\* The port changes, and the SYN is sent, only while the receive task has nothing to do; a
\* request is put together only while connected; and the connection is set up only once.
Control ==
    /\ mainPc = "tcp" /\ tcpState = "CLOSED" => rxPc = "idle"
    /\ mainPc \in {"syn", "synSent"} => tcpState = "CLOSED" /\ rxPc = "idle"
    /\ mainPc \in {"header", "send"} => tcpState = "ESTABLISHED"
    /\ rxPc = "connected" => tcpState # "ESTABLISHED"

\* What is sent, taken and under way is of the kind that its place in the code supposes.
Kind ==
    /\ Pending => TcpTransmitPacket.port = evccPort /\ ~TcpTransmitPacket.syn
    /\ rxPc = "connected" => segment.seq = 0
    /\ rxPc \in {"data", "ackNr"} => segment.len = 1
    /\ SynAck => toCar.seq = 0 /\ toCar.len = 0

ControlInv == Control /\ Kind

\* The main loop keeps the coupling.
LEMMA MainControl ==
    ASSUME TypeInv, ControlInv, MainStep PROVE ControlInv'
  <1> USE DEF mainUnchanged, rxVars, sharedVars, connMgrVars, Main
  <1>1. Control'
    <2>1. UNCHANGED rxPc
      BY DEF MainStep, CallConnMgr, tcp_Mainfunction, SendSyn, SetSynSent, CallPev, Consume,
             FillPayload, CopyPayload, PrepareRequest, TransmitRequest
    <2>2. CASE CallConnMgr
      BY <2>1, <2>2 DEF ControlInv, Control, CallConnMgr
    <2>3. CASE tcp_Mainfunction
      BY <2>1, <2>3 DEF ControlInv, Control, tcp_Mainfunction, NeedsConnection
    <2>4. CASE SendSyn \/ SetSynSent
      BY <2>1, <2>4 DEF ControlInv, Control, SendSyn, SetSynSent
    <2>5. CASE CallPev
      BY <2>1, <2>5 DEF ControlInv, Control, CallPev
    <2>6. CASE Consume \/ FillPayload \/ CopyPayload \/ PrepareRequest \/ TransmitRequest
      BY <2>1, <2>6 DEF ControlInv, Control, Consume, FillPayload, CopyPayload,
                        PrepareRequest, TransmitRequest
    <2> QED
      BY <2>2, <2>3, <2>4, <2>5, <2>6 DEF MainStep
  <1>2. UNCHANGED <<rxPc, segment, toCar>>
    BY DEF MainStep, CallConnMgr, tcp_Mainfunction, SendSyn, SetSynSent, CallPev, Consume,
           FillPayload, CopyPayload, PrepareRequest, TransmitRequest
  <1>3. Pending' => TcpTransmitPacket'.port = evccPort' /\ ~TcpTransmitPacket'.syn
    <2>1. CASE PrepareRequest
      BY <2>1 DEF PrepareRequest, tcp_prepareTcpHeader, Packet
    <2>2. CASE TransmitRequest
      BY <1>2, <2>2 DEF TransmitRequest, tcp_packRequestIntoIp, Pending, ControlInv, Kind
    <2>3. CASE tcp_Mainfunction
      BY <1>2, <2>3 DEF tcp_Mainfunction, NeedsConnection, Pending, ControlInv, Kind, Control
    <2>4. CASE CopyPayload
      <3>1. /\ TcpTransmitPacket'.port = TcpTransmitPacket.port
            /\ TcpTransmitPacket'.syn = TcpTransmitPacket.syn
        BY <2>4 DEF CopyPayload, TypeInv, Packets
      <3>2. Pending' => Pending
        BY <1>2, <2>4 DEF CopyPayload, Pending
      <3> QED
        BY <2>4, <3>1, <3>2 DEF CopyPayload, ControlInv, Kind
    <2>5. CASE CallConnMgr \/ SendSyn \/ SetSynSent \/ CallPev \/ Consume \/ FillPayload
      BY <1>2, <2>5 DEF CallConnMgr, SendSyn, SetSynSent, CallPev, Consume, FillPayload, Pending,
                        ControlInv, Kind
    <2> QED
      BY <2>1, <2>2, <2>3, <2>4, <2>5 DEF MainStep
  <1> QED
    BY <1>1, <1>2, <1>3 DEF ControlInv, Kind, SynAck

\* The receive task keeps the coupling.
LEMMA RxControl ==
    ASSUME TypeInv, ControlInv, TakeSegment \/ RxStep PROVE ControlInv'
  <1> USE DEF rxUnchanged, mainVars, rxVars, sharedVars, connMgrVars, Rx
  <1>1. CASE TakeSegment
    <2>1. Control'
      BY <1>1 DEF TakeSegment, ControlInv, Control
    <2>2. rxPc' = "connected" => segment'.seq = 0
      BY <1>1 DEF TakeSegment, ControlInv, Kind, SynAck
    <2>3. rxPc' \in {"data", "ackNr"} => segment'.len = 1
      BY <1>1 DEF TakeSegment, TypeInv, Segments
    <2>4. ~SynAck'
      BY <1>1 DEF TakeSegment, SynAck, NoSegment, Segment
    <2>5. Pending' => TcpTransmitPacket'.port = evccPort' /\ ~TcpTransmitPacket'.syn
      BY <1>1 DEF TakeSegment, ControlInv, Kind, Pending
    <2> QED
      BY <2>1, <2>2, <2>3, <2>4, <2>5 DEF ControlInv, Kind
  <1>2. CASE RxStep
    <2> USE DEF RxStep, Connected, StoreData, SetAckNr, SetAckLen, PrepareAck, TransmitAck, SetSeqNr
    <2>1. Control'
      BY <1>2 DEF ControlInv, Control
    <2>2. rxPc' # "connected" /\ (rxPc' \in {"data", "ackNr"} => rxPc = "data" /\ segment' = segment)
      BY <1>2
    <2>3. UNCHANGED <<toCar, evccPort>>
      BY <1>2
    <2>4. Pending' => TcpTransmitPacket'.port = evccPort' /\ ~TcpTransmitPacket'.syn
      <3>1. CASE PrepareAck
        BY <3>1 DEF tcp_prepareTcpHeader, Packet
      <3>2. CASE TransmitAck
        BY <2>3, <3>2 DEF tcp_packRequestIntoIp, Pending, ControlInv, Kind
      <3>3. CASE Connected \/ StoreData \/ SetAckNr \/ SetAckLen \/ SetSeqNr
        BY <2>3, <3>3 DEF Pending, ControlInv, Kind
      <3> QED
        BY <1>2, <3>1, <3>2, <3>3
    <2> QED
      BY <2>1, <2>2, <2>3, <2>4 DEF ControlInv, Kind, SynAck
  <1> QED
    BY <1>1, <1>2

\* The charger keeps the coupling.
LEMMA EvseControl ==
    ASSUME TypeInv, ControlInv, Evse PROVE ControlInv'
  <1>1. UNCHANGED <<mainPc, rxPc, tcpState, segment, TcpTransmitPacket, evccPort>>
    BY DEF Evse, mainVars, rxVars, sharedVars
  <1>2. SynAck' => toCar'.seq = 0 /\ toCar'.len = 0
    BY DEF Evse, EvseSynAck, EvseAnswers, EvseRepeats, EvseAcks, OldConnectionRepeats, EvseSends,
           Segment, SynAck
  <1> QED
    BY <1>1, <1>2 DEF ControlInv, Control, Kind, Pending

\* Every step keeps the coupling.
LEMMA ControlStep ==
    ASSUME TypeInv, ControlInv, [Next]_vars PROVE ControlInv'
  <1>1. CASE ReceiveSdpResponse \/ LinkComesUp \/ UNCHANGED vars
    BY <1>1 DEF ReceiveSdpResponse, LinkComesUp, vars, sharedVars, mainVars, rxVars, ControlInv,
                Control, Kind, Pending, SynAck
  <1> QED
    BY <1>1, MainControl, RxControl, EvseControl DEF Next

\* The main loop touches nothing of the receive task, and never brings the connection up.  It
\* sends the SYN, prepares and sends a request, or leaves charger and header alone.
LEMMA MainEffect ==
    ASSUME TypeInv, ControlInv, MainStep
    PROVE  /\ UNCHANGED <<toCar, segment, rxPc, TcpSeqNr, TcpAckNr>>
           /\ Up' => Up /\ evccPort' = evccPort
           /\ Current' => Current /\ evccPort' = evccPort
           /\ \/ SendSyn \/ PrepareRequest \/ TransmitRequest
              \/ /\ UNCHANGED evse
                 /\ Pending' => /\ Pending
                                /\ TcpTransmitPacket'.seq = TcpTransmitPacket.seq
                                /\ TcpTransmitPacket'.ack = TcpTransmitPacket.ack
  <1> USE DEF mainUnchanged, rxVars, sharedVars, connMgrVars, Main
  <1> USE DEF MainStep, CallConnMgr, tcp_Mainfunction, SendSyn, SetSynSent, CallPev, Consume,
              FillPayload, CopyPayload, PrepareRequest, TransmitRequest
  <1>1. UNCHANGED <<toCar, segment, rxPc, TcpSeqNr, TcpAckNr>>
    OBVIOUS
  <1>2. Up' => Up /\ evccPort' = evccPort
    <2>1. CASE tcp_Mainfunction
      BY <1>1, <2>1 DEF NeedsConnection, Up, ControlInv, Control
    <2>2. CASE ~tcp_Mainfunction
      BY <1>1, <2>2 DEF Up, ControlInv, Control
    <2> QED
      BY <2>1, <2>2
  <1>3. Current' => Current /\ evccPort' = evccPort
    BY <1>1, <1>2, Zenon DEF Current
  <1>4. CASE CopyPayload
    <2>1. /\ TcpTransmitPacket'.seq = TcpTransmitPacket.seq
          /\ TcpTransmitPacket'.ack = TcpTransmitPacket.ack
      BY <1>4 DEF TypeInv, Packets
    <2> QED
      BY <1>1, <1>2, <1>3, <1>4, <2>1 DEF Pending
  <1>5. CASE ~CopyPayload /\ ~SendSyn /\ ~PrepareRequest /\ ~TransmitRequest
    <2>1. UNCHANGED <<evse, TcpTransmitPacket>> /\ (Pending' => Pending)
      BY <1>1, <1>5 DEF Pending
    <2> QED
      BY <1>1, <1>2, <1>3, <2>1
  <1> QED
    BY <1>1, <1>2, <1>3, <1>4, <1>5

\* While it handles a segment, the receive task takes none and touches nothing of the main loop.
LEMMA RxEffect ==
    ASSUME RxStep
    PROVE  /\ UNCHANGED <<toCar, evccPort, mainPc>>
           /\ rxPc # "idle" /\ rxPc' # "connected" /\ Up
           /\ Current' => Current
           /\ TransmitAck \/ UNCHANGED evse
  <1> USE DEF rxUnchanged, mainVars, rxVars, sharedVars, Rx
  <1>1. /\ UNCHANGED <<toCar, evccPort, mainPc>>
        /\ rxPc # "idle" /\ rxPc' # "connected"
        /\ TransmitAck \/ UNCHANGED evse
    BY DEF RxStep, Connected, StoreData, SetAckNr, SetAckLen, PrepareAck, TransmitAck, SetSeqNr
  <1> QED
    BY <1>1 DEF Up, Current

\* What the acknowledgement in a packet does to the charger.
LEMMA AcknowledgedEffect ==
    ASSUME evse \in EvseStates, NEW p \in Packets, NEW ack, ack = Acknowledged(p)
    PROVE  /\ ack.port = evse.port /\ ack.sndNxt = evse.sndNxt /\ ack.rcvNxt = evse.rcvNxt
           /\ \/ ack.sndUna = evse.sndUna
              \/ /\ ack.sndUna = p.ack
                 /\ Distance(evse.sndUna, p.ack) <= Distance(evse.sndUna, evse.sndNxt)
           /\ ack.state = evse.state \/ (ack.state = "ESTABLISHED" /\ ack.sndUna = evse.sndNxt)
  <1>1. /\ ack.port = evse.port /\ ack.sndNxt = evse.sndNxt /\ ack.rcvNxt = evse.rcvNxt
        /\ ack.sndUna = IF Distance(evse.sndUna, p.ack) <= Distance(evse.sndUna, evse.sndNxt)
                        THEN p.ack ELSE evse.sndUna
        /\ ack.state = IF p.ack = evse.sndNxt THEN "ESTABLISHED" ELSE evse.state
    BY DEF Acknowledged, EvseStates
  <1>2. p.ack = evse.sndNxt =>
            Distance(evse.sndUna, p.ack) <= Distance(evse.sndUna, evse.sndNxt)
    BY DistanceType DEF EvseStates
  <1> QED
    BY <1>1, <1>2

\* What a packet without a SYN does to the charger: it acknowledges, and it moves the stream.
LEMMA ReceivedEffect ==
    ASSUME evse \in EvseStates, NEW p \in Packets, ~p.syn, EvseReceives(p) \/ UNCHANGED evse
    PROVE  /\ evse'.port = evse.port /\ evse'.sndNxt = evse.sndNxt
           /\ \/ evse'.sndUna = evse.sndUna
              \/ /\ evse'.sndUna = p.ack /\ p.port = evse.port
                 /\ Distance(evse.sndUna, p.ack) <= Distance(evse.sndUna, evse.sndNxt)
           /\ \/ evse'.state = evse.state
              \/ evse'.state = "ESTABLISHED" /\ evse'.sndUna = evse.sndNxt
           /\ \/ evse'.rcvNxt = evse.rcvNxt
              \/ /\ evse'.rcvNxt = Plus(p.seq, p.len) /\ Ahead(evse.rcvNxt, Plus(p.seq, p.len))
                 /\ p.len # 0 /\ evse'.state = "ESTABLISHED"
  <1> DEFINE ack == Acknowledged(p)
             Data == /\ p.len # 0 /\ ack.state = "ESTABLISHED"
                     /\ Ahead(evse.rcvNxt, Plus(p.seq, p.len))
                     /\ evse'.rcvNxt = Plus(p.seq, p.len)
                     /\ evse'.port = ack.port /\ evse'.sndNxt = ack.sndNxt
                     /\ evse'.sndUna = ack.sndUna /\ evse'.state = ack.state
  <1>1. UNCHANGED evse \/ (p.port = evse.port /\ (evse' = ack \/ Data))
    <2>1. UNCHANGED evse \/ evse' = ack \/ EvseReceives(p)
      OBVIOUS
    <2>2. ASSUME EvseReceives(p), ~UNCHANGED evse
          PROVE  p.port = evse.port /\ (evse' = ack \/ Data)
      <3>1. p.port = evse.port /\ Acceptable(p)
        BY <2>2 DEF EvseReceives, Acceptable
      <3>2. CASE p.len = 0 \/ ack.state # "ESTABLISHED" \/ Ahead(evse.rcvNxt, p.seq)
        BY <2>2, <3>1, <3>2 DEF EvseReceives
      <3>3. CASE ~(p.len = 0 \/ ack.state # "ESTABLISHED" \/ Ahead(evse.rcvNxt, p.seq))
        <4>1. PICK confused, owed :
                 evse' = [ack EXCEPT !.rcvNxt = Plus(p.seq, p.len), !.confused = confused,
                                     !.owed = owed]
          BY <2>2, <3>1, <3>3 DEF EvseReceives
        <4>2. DOMAIN ack = DOMAIN evse
          BY DEF Acknowledged
        <4> HIDE DEF ack
        <4>3. /\ evse'.rcvNxt = Plus(p.seq, p.len)
              /\ evse'.port = ack.port /\ evse'.sndNxt = ack.sndNxt
              /\ evse'.sndUna = ack.sndUna /\ evse'.state = ack.state
          BY <4>1, <4>2 DEF EvseStates
        <4> QED
          BY <3>1, <3>3, <4>3 DEF Acceptable
      <3> QED
        BY <3>2, <3>3
    <2> QED
      BY <2>2
  <1>2. /\ ack.port = evse.port /\ ack.sndNxt = evse.sndNxt /\ ack.rcvNxt = evse.rcvNxt
        /\ \/ ack.sndUna = evse.sndUna
           \/ /\ ack.sndUna = p.ack
              /\ Distance(evse.sndUna, p.ack) <= Distance(evse.sndUna, evse.sndNxt)
        /\ ack.state = evse.state \/ (ack.state = "ESTABLISHED" /\ ack.sndUna = evse.sndNxt)
    BY AcknowledgedEffect, Zenon
  <1> HIDE DEF ack
  <1> QED
    BY <1>1, <1>2

\* What the charger sends on a connection acknowledges all that it has received.  Only an answer
\* moves its own numbers.
LEMMA EvseEffect ==
    ASSUME TypeInv, Evse
    PROVE  /\ UNCHANGED <<mainPc, rxPc, tcpState, segment, TcpTransmitPacket, evccPort, TcpSeqNr,
                          TcpAckNr>>
           /\ evse'.port = evse.port /\ evse'.state = evse.state
           /\ evse'.rcvNxt = evse.rcvNxt /\ evse'.sndUna = evse.sndUna
           /\ \/ UNCHANGED evse
              \/ /\ evse'.sndNxt = Plus(evse.sndNxt, 1) /\ evse.state = "ESTABLISHED"
                 /\ Distance(evse.sndUna, evse.sndNxt) < EVSE_WINDOW
                 /\ ~SynAck' /\ toCar'.seq = evse.sndNxt
           /\ SynAck' => evse.state = "SYN_RCVD" /\ toCar'.ack = evse.rcvNxt
           /\ Current' => toCar'.port = evse.port /\ toCar'.ack = evse.rcvNxt
           /\ Current' /\ toCar'.len # 0 /\ UNCHANGED evse =>
                 \E k \in 0 .. EVSE_WINDOW - 1 :
                    /\ k < Distance(evse.sndUna, evse.sndNxt)
                    /\ toCar'.seq = Plus(evse.sndUna, k)
  <1> USE DEF EvseSends, Segment, SynAck, sharedVars, mainVars, rxVars
  <1>1. /\ UNCHANGED <<mainPc, rxPc, tcpState, segment, TcpTransmitPacket, evccPort, TcpSeqNr,
                       TcpAckNr>>
    BY DEF Evse
  <1>2. CASE EvseSynAck
    BY <1>1, <1>2 DEF EvseSynAck, Current
  <1>3. CASE EvseAnswers
    <2>1. /\ evse'.port = evse.port /\ evse'.state = evse.state
          /\ evse'.rcvNxt = evse.rcvNxt /\ evse'.sndUna = evse.sndUna
          /\ evse'.sndNxt = Plus(evse.sndNxt, 1)
      BY <1>3 DEF EvseAnswers, TypeInv, EvseStates
    <2>2. evse.owed # evse.owed - 1
      BY DEF TypeInv, EvseStates
    <2>3. ~UNCHANGED evse
      BY <1>3, <2>2 DEF EvseAnswers, TypeInv, EvseStates
    <2> QED
      BY <1>1, <1>3, <2>1, <2>3 DEF EvseAnswers, Current
  <1>4. CASE EvseRepeats
    BY <1>1, <1>4 DEF EvseRepeats, Current
  <1>5. CASE EvseAcks
    BY <1>1, <1>5 DEF EvseAcks, Current
  <1>6. CASE OldConnectionRepeats
    BY <1>1, <1>6 DEF OldConnectionRepeats, Current
  <1> QED
    BY <1>2, <1>3, <1>4, <1>5, <1>6 DEF Evse

-----------------------------------------------------------------------------
(* What the charger has sent and is not acknowledged.                      *)

\* Segments on the car's port are the present charger's.  A handshake is about number 0 alone,
\* and the charger never has more under way than its window.
EvseInv ==
    /\ Current => evse.port = evccPort
    /\ SynAck \/ evse.state = "SYN_RCVD" => evse.sndNxt = 1
    /\ Distance(evse.sndUna, evse.sndNxt) <= IF evse.state = "ESTABLISHED" THEN EVSE_WINDOW ELSE 1

\* A packet without a SYN keeps that.
LEMMA ReceivedEvse ==
    ASSUME TypeInv, EvseInv, NEW p \in Packets, ~p.syn, EvseReceives(p) \/ UNCHANGED evse,
           toCar' = toCar \/ toCar' = NoSegment, evccPort' = evccPort, Current' => Current
    PROVE  EvseInv'
  <1>1. /\ evse'.port = evse.port /\ evse'.sndNxt = evse.sndNxt
        /\ \/ evse'.sndUna = evse.sndUna
           \/ /\ evse'.sndUna = p.ack
              /\ Distance(evse.sndUna, p.ack) <= Distance(evse.sndUna, evse.sndNxt)
        /\ evse'.state = evse.state \/ (evse'.state = "ESTABLISHED" /\ evse'.sndUna = evse.sndNxt)
    BY ReceivedEffect, Zenon DEF TypeInv
  <1>2. SynAck' => SynAck
    BY DEF SynAck, NoSegment, Segment
  <1>3. /\ p.ack \in SeqNrs /\ evse.sndUna \in SeqNrs /\ evse.sndNxt \in SeqNrs
        /\ EVSE_WINDOW \in Nat
    BY TcpAssumption DEF TypeInv, Packets, EvseStates
  <1>4. Distance(evse'.sndUna, evse.sndNxt) <= Distance(evse.sndUna, evse.sndNxt)
    BY <1>1, <1>3, DistanceSplits, DistanceType
  <1>5. Distance(evse.sndNxt, evse.sndNxt) = 0
    BY <1>3, DistanceZero
  <1>6. /\ Distance(evse'.sndUna, evse.sndNxt) \in Nat
        /\ Distance(evse.sndUna, evse.sndNxt) \in Nat
    BY <1>1, <1>3, DistanceType
  <1>7. Distance(evse'.sndUna, evse'.sndNxt)
           <= IF evse'.state = "ESTABLISHED" THEN EVSE_WINDOW ELSE 1
    <2>1. CASE evse'.state = evse.state
      BY <1>1, <1>3, <1>4, <1>6, <2>1 DEF EvseInv
    <2>2. CASE evse'.state = "ESTABLISHED" /\ evse'.sndUna = evse.sndNxt
      BY <1>1, <1>3, <1>5, <2>2
    <2> QED
      BY <1>1, <2>1, <2>2
  <1>8. SynAck' \/ evse'.state = "SYN_RCVD" => evse'.sndNxt = 1
    BY <1>1, <1>2 DEF EvseInv
  <1>9. Current' => evse'.port = evccPort'
    BY <1>1 DEF EvseInv
  <1> QED
    BY <1>7, <1>8, <1>9 DEF EvseInv

\* Every step keeps it.
LEMMA EvseInvStep ==
    ASSUME TypeInv, ControlInv, EvseInv, [Next]_vars PROVE EvseInv'
  <1>1. CASE MainStep
    <2>1. /\ UNCHANGED toCar
          /\ Up' => Up /\ evccPort' = evccPort
          /\ Current' => Current /\ evccPort' = evccPort
          /\ SendSyn \/ PrepareRequest \/ TransmitRequest \/ UNCHANGED evse
      BY <1>1, MainEffect
    <2>2. CASE UNCHANGED evse
      BY <2>1, <2>2 DEF EvseInv, SynAck
    <2>3. CASE PrepareRequest
      BY <2>1, <2>2, <2>3 DEF PrepareRequest
    <2>4. CASE TransmitRequest
      <3>1. TcpTransmitPacket \in Packets /\ ~TcpTransmitPacket.syn
        BY <2>4 DEF TransmitRequest, Main, Pending, TypeInv, ControlInv, Kind
      <3>2. EvseReceives(TcpTransmitPacket) \/ UNCHANGED evse
        BY <2>4 DEF TransmitRequest, tcp_packRequestIntoIp
      <3>3. evccPort' = evccPort
        BY <2>4 DEF TransmitRequest
      <3> QED
        BY <2>1, <3>1, <3>2, <3>3, ReceivedEvse
    <2>5. CASE SendSyn /\ ~UNCHANGED evse
      <3>1. evse' = [port |-> evccPort, state |-> "SYN_RCVD", rcvNxt |-> Plus(TcpSeqNr, 1),
                     sndUna |-> 0, sndNxt |-> 1, owed |-> 0, confused |-> FALSE]
        BY <2>5 DEF SendSyn, EvseReceives, Packet
      <3>2. Distance(0, 1) = 1
        <4>1. CountsTo(0, 1, 1)
          BY TcpAssumption DEF CountsTo
        <4> QED
          BY <4>1, DistanceUnique, ConstantTypes
      <3>3. ~Current'
        BY <2>1, <2>5 DEF SendSyn, Main, ControlInv, Control, Current, Up
      <3> QED
        BY <3>1, <3>2, <3>3 DEF EvseInv
    <2> QED
      BY <2>1, <2>2, <2>3, <2>4, <2>5
  <1>2. CASE RxStep
    <2>1. UNCHANGED <<toCar, evccPort>> /\ (Current' => Current) /\ (TransmitAck \/ UNCHANGED evse)
      BY <1>2, RxEffect
    <2>2. CASE UNCHANGED evse
      BY <2>1, <2>2 DEF EvseInv, SynAck
    <2>3. CASE TransmitAck
      <3>1. TcpTransmitPacket \in Packets /\ ~TcpTransmitPacket.syn
        BY <2>3 DEF TransmitAck, Rx, Pending, TypeInv, ControlInv, Kind
      <3>2. EvseReceives(TcpTransmitPacket) \/ UNCHANGED evse
        BY <2>3 DEF TransmitAck, tcp_packRequestIntoIp
      <3> QED
        BY <2>1, <3>1, <3>2, ReceivedEvse
    <2> QED
      BY <2>1, <2>2, <2>3
  <1>3. CASE TakeSegment
    <2>1. ~Current' /\ ~SynAck' /\ UNCHANGED evse
      BY <1>3 DEF TakeSegment, Current, SynAck, NoSegment, Segment
    <2> QED
      BY <2>1 DEF EvseInv
  <1>4. CASE Evse
    <2>1. /\ evccPort' = evccPort /\ evse'.port = evse.port /\ evse'.state = evse.state
          /\ evse'.sndUna = evse.sndUna
          /\ \/ UNCHANGED evse
             \/ /\ evse'.sndNxt = Plus(evse.sndNxt, 1) /\ evse.state = "ESTABLISHED"
                /\ Distance(evse.sndUna, evse.sndNxt) < EVSE_WINDOW
                /\ ~SynAck'
          /\ SynAck' => evse.state = "SYN_RCVD"
          /\ Current' => toCar'.port = evse.port
      BY <1>4, EvseEffect, Zenon
    <2>2. Current' => evse'.port = evccPort'
      BY <2>1 DEF Current
    <2>3. CASE UNCHANGED evse
      BY <2>1, <2>2, <2>3 DEF EvseInv
    <2>4. CASE ~UNCHANGED evse
      <3>1. evse.sndUna \in SeqNrs /\ evse.sndNxt \in SeqNrs /\ 1 \in 0 .. SEQ_MOD - 1
        BY TcpAssumption DEF TypeInv, EvseStates
      <3>2. /\ Distance(evse.sndUna, evse.sndNxt) \in Nat
            /\ Distance(evse.sndUna, evse.sndNxt) + 1 < SEQ_MOD
            /\ Distance(evse.sndUna, evse.sndNxt) + 1 <= EVSE_WINDOW
        BY <2>1, <2>4, <3>1, DistanceType, TcpAssumption
      <3>3. Distance(evse.sndUna, evse'.sndNxt) = Distance(evse.sndUna, evse.sndNxt) + 1
        BY <2>1, <2>4, <3>1, <3>2, EndMoves
      <3> QED
        BY <2>1, <2>2, <2>4, <3>2, <3>3 DEF EvseInv
    <2> QED
      BY <2>3, <2>4
  <1>5. CASE ReceiveSdpResponse \/ LinkComesUp \/ UNCHANGED vars
    BY <1>5 DEF ReceiveSdpResponse, LinkComesUp, vars, mainVars, rxVars, EvseInv, Current, SynAck, Up
  <1> QED
    BY <1>1, <1>2, <1>3, <1>4, <1>5 DEF Next

-----------------------------------------------------------------------------
(* The stream of requests has no hole.                                     *)

\* How far a number is behind what the charger expects next.
Lag(n) == Distance(n, evse.rcvNxt)

\* The car's number is never ahead: it only takes over what the charger has acknowledged.  That
\* it does not jump back and forth either is because the network holds one segment, so that what
\* is under way acknowledges no less than the segment in the car's hands, this no less than the
\* car's own number, and this is no less than the number in a prepared packet.
StreamInv ==
    /\ Lag(TcpSeqNr) <= Half
    /\ evse.state = "SYN_RCVD" => Lag(TcpSeqNr) <= 1
    /\ Pending => Lag(TcpSeqNr) <= Lag(TcpTransmitPacket.seq)
    /\ Pending => Lag(TcpTransmitPacket.seq) <= Half
    /\ rxPc # "idle" => Lag(segment.ack) <= Lag(TcpSeqNr)
    /\ Current \/ SynAck => Lag(toCar.ack) <= Lag(TcpSeqNr)
    /\ (Current \/ SynAck) /\ rxPc # "idle" => Lag(toCar.ack) <= Lag(segment.ack)
    /\ SynAck => Lag(TcpSeqNr) <= Lag(toCar.ack) + 1

\* The numbers that are compared are sequence numbers.
LEMMA NumberTypes ==
    ASSUME TypeInv
    PROVE  /\ TcpSeqNr \in SeqNrs /\ TcpAckNr \in SeqNrs
           /\ segment.ack \in SeqNrs /\ segment.seq \in SeqNrs
           /\ toCar.ack \in SeqNrs /\ toCar.seq \in SeqNrs
           /\ TcpTransmitPacket.seq \in SeqNrs /\ TcpTransmitPacket.ack \in SeqNrs
           /\ evse.rcvNxt \in SeqNrs /\ evse.sndUna \in SeqNrs /\ evse.sndNxt \in SeqNrs
  BY DEF TypeInv, TypeOK, Segments, Packets, EvseStates

\* The lags are numbers.
LEMMA LagTypes ==
    ASSUME TypeInv
    PROVE  /\ Lag(TcpSeqNr) \in Nat /\ Lag(segment.ack) \in Nat /\ Lag(toCar.ack) \in Nat
           /\ Lag(TcpTransmitPacket.seq) \in Nat
  BY NumberTypes, DistanceType DEF Lag

\* Sending the prepared packet keeps the order.
LEMMA SendStream ==
    ASSUME TypeInv, ControlInv, EvseInv, StreamInv, Pending,
           EvseReceives(TcpTransmitPacket) \/ UNCHANGED evse,
           UNCHANGED <<TcpSeqNr, toCar>>, Current' => Current,
           rxPc' # "idle" => rxPc # "idle" /\ segment' = segment,
           Pending' => TcpTransmitPacket' = TcpTransmitPacket
    PROVE  StreamInv'
  <1> DEFINE p == TcpTransmitPacket
  <1>1. p \in Packets /\ ~p.syn
    BY DEF TypeInv, ControlInv, Kind
  <1>2. /\ evse'.state = evse.state \/ evse'.state = "ESTABLISHED"
        /\ \/ evse'.rcvNxt = evse.rcvNxt
           \/ /\ evse'.rcvNxt = Plus(p.seq, p.len) /\ Ahead(evse.rcvNxt, Plus(p.seq, p.len))
              /\ p.len # 0 /\ evse'.state = "ESTABLISHED"
    BY <1>1, ReceivedEffect, Zenon DEF TypeInv
  <1>3. SynAck' => SynAck
    BY DEF SynAck
  <1>4. CASE evse'.rcvNxt = evse.rcvNxt
    BY <1>2, <1>3, <1>4 DEF StreamInv, Lag
  <1>5. CASE evse'.rcvNxt # evse.rcvNxt
    <2> DEFINE end == Plus(p.seq, p.len)
               Moves(x) == Lag(x) <= Lag(p.seq) =>
                             /\ Distance(x, end) = Lag(x) + p.len - Lag(p.seq)
                             /\ Distance(x, end) <= p.len
    <2>1. p.len \in 1 .. Half
      BY <1>1, <1>2, <1>5, ConstantTypes DEF Packets
    <2>2. Lag(p.seq) <= Half /\ Ahead(evse.rcvNxt, end) /\ evse'.rcvNxt = end
      BY <1>2, <1>5 DEF StreamInv
    <2>3. Moves(TcpSeqNr) /\ Moves(segment.ack) /\ Moves(toCar.ack) /\ Moves(p.seq)
      <3>1. ASSUME NEW x \in SeqNrs PROVE Moves(x)
        BY <2>1, <2>2, StreamMoves, NumberTypes DEF Lag
      <3> HIDE DEF Moves
      <3> QED
        BY <3>1, NumberTypes
    <2>4. /\ Lag(TcpSeqNr) \in Nat /\ Lag(segment.ack) \in Nat /\ Lag(toCar.ack) \in Nat
          /\ Lag(p.seq) \in Nat /\ Half \in Nat
      BY LagTypes, HalfIs
    <2>5. evse'.state # "SYN_RCVD"
      BY <1>2, <1>5
    <2>6. /\ Lag(TcpSeqNr) <= Lag(p.seq)
          /\ rxPc # "idle" => Lag(segment.ack) <= Lag(TcpSeqNr)
          /\ Current \/ SynAck => Lag(toCar.ack) <= Lag(TcpSeqNr)
      BY DEF StreamInv
    <2>a. /\ Lag(TcpSeqNr)' = Distance(TcpSeqNr, end) /\ Lag(toCar.ack)' = Distance(toCar.ack, end)
          /\ Pending' => Lag(TcpTransmitPacket.seq)' = Distance(p.seq, end)
          /\ rxPc' # "idle" => Lag(segment.ack)' = Distance(segment.ack, end)
      BY <2>2 DEF Lag
    <2> HIDE DEF p, end
    <2>7. Distance(TcpSeqNr, end) <= Half
      BY <2>1, <2>3, <2>4, <2>6
    <2>8. Distance(TcpSeqNr, end) <= Distance(p.seq, end) /\ Distance(p.seq, end) <= Half
      BY <2>1, <2>3, <2>4, <2>6
    <2>9. rxPc # "idle" => Distance(segment.ack, end) <= Distance(TcpSeqNr, end)
      BY <2>1, <2>3, <2>4, <2>6
    <2>10. Current \/ SynAck => Distance(toCar.ack, end) <= Distance(TcpSeqNr, end)
      BY <2>1, <2>3, <2>4, <2>6
    <2>11. (Current \/ SynAck) /\ rxPc # "idle"
              => Distance(toCar.ack, end) <= Distance(segment.ack, end)
      <3>1. (Current \/ SynAck) /\ rxPc # "idle" => Lag(toCar.ack) <= Lag(segment.ack)
        BY DEF StreamInv
      <3> QED
        BY <2>1, <2>3, <2>4, <2>6, <3>1
    <2>12. SynAck => Distance(TcpSeqNr, end) <= Distance(toCar.ack, end) + 1
      <3>1. SynAck => Lag(TcpSeqNr) <= Lag(toCar.ack) + 1
        BY DEF StreamInv
      <3> QED
        BY <2>1, <2>3, <2>4, <2>6, <3>1
    <2> QED
      BY <1>3, <2>a, <2>5, <2>7, <2>8, <2>9, <2>10, <2>11, <2>12 DEF StreamInv
  <1> QED
    BY <1>4, <1>5

\* A SYN starts the stream anew, one before the car's number.  An old SYN+ACK that is still under
\* way answers the previous SYN, which had the same number or the one before.
LEMMA SynStream ==
    ASSUME TypeInv, ControlInv, EvseInv, StreamInv, SendSyn PROVE StreamInv'
  <1>1. /\ UNCHANGED <<TcpSeqNr, toCar>> /\ SynAck' = SynAck
        /\ ~Pending' /\ ~Current' /\ rxPc' = "idle"
    BY DEF SendSyn, Main, mainUnchanged, rxVars, ControlInv, Control, Pending, Current, Up, SynAck
  <1>2. CASE UNCHANGED evse
    BY <1>1, <1>2 DEF StreamInv, Lag
  <1>3. CASE ~UNCHANGED evse
    <2> DEFINE next == Plus(TcpSeqNr, 1)
    <2>1. evse'.rcvNxt = next
      BY <1>3 DEF SendSyn, EvseReceives, Packet
    <2>2. next \in SeqNrs /\ Distance(TcpSeqNr, next) = 1
      BY DistanceOfSum, NumberTypes, TcpAssumption
    <2> HIDE DEF next
    <2>3. ASSUME SynAck
          PROVE  Distance(toCar.ack, next) \in Nat /\ Distance(toCar.ack, next) <= 1
      <3>1. /\ Lag(toCar.ack) <= Lag(TcpSeqNr) /\ Lag(TcpSeqNr) <= Lag(toCar.ack) + 1
            /\ Lag(toCar.ack) \in Nat /\ Lag(TcpSeqNr) \in Nat
        BY <2>3, LagTypes DEF StreamInv
      <3>2. Distance(TcpSeqNr, toCar.ack) = Lag(TcpSeqNr) - Lag(toCar.ack)
        BY <3>1, DistanceSplitsAtEnd, NumberTypes DEF Lag
      <3>3. Distance(TcpSeqNr, toCar.ack) <= Distance(TcpSeqNr, next)
        BY <2>2, <3>1, <3>2
      <3>4. Distance(toCar.ack, next) = 1 - Distance(TcpSeqNr, toCar.ack)
        BY <2>2, <3>3, DistanceSplits, NumberTypes
      <3> QED
        BY <3>1, <3>2, <3>4
    <2>4. Lag(TcpSeqNr)' = 1 /\ (SynAck => Lag(toCar.ack)' = Distance(toCar.ack, next))
      BY <1>1, <2>1, <2>2 DEF Lag
    <2> QED
      BY <1>1, <2>3, <2>4, HalfIs DEF StreamInv
  <1> QED
    BY <1>2, <1>3

\* The main loop keeps the order.
LEMMA MainStream ==
    ASSUME TypeInv, ControlInv, EvseInv, StreamInv, MainStep PROVE StreamInv'
  <1>1. /\ UNCHANGED <<toCar, segment, rxPc, TcpSeqNr>>
        /\ Current' => Current
        /\ \/ SendSyn \/ PrepareRequest \/ TransmitRequest
           \/ /\ UNCHANGED evse
              /\ Pending' => /\ Pending
                             /\ TcpTransmitPacket'.seq = TcpTransmitPacket.seq
    BY MainEffect, Zenon
  <1>2. SynAck' = SynAck
    BY <1>1 DEF SynAck
  <1>3. CASE PrepareRequest
    <2>1. UNCHANGED evse /\ TcpTransmitPacket'.seq = TcpSeqNr
      BY <1>3 DEF PrepareRequest, tcp_prepareTcpHeader, Packet
    <2>2. Lag(TcpTransmitPacket.seq)' = Lag(TcpSeqNr)
      BY <2>1 DEF Lag
    <2>3. Lag(TcpSeqNr)' = Lag(TcpSeqNr)
      BY <1>1, <2>1 DEF Lag
    <2>4. Lag(TcpSeqNr) \in Nat
      BY LagTypes
    <2>5. Pending' => Lag(TcpSeqNr)' <= Lag(TcpTransmitPacket.seq)'
      BY <2>2, <2>3, <2>4
    <2>6. Pending' => Lag(TcpTransmitPacket.seq)' <= Half
      BY <2>2 DEF StreamInv
    <2> QED
      BY <1>1, <1>2, <2>1, <2>5, <2>6 DEF StreamInv, Lag
  <1>4. CASE TransmitRequest
    <2>1. Pending /\ (EvseReceives(TcpTransmitPacket) \/ UNCHANGED evse)
      BY <1>4 DEF TransmitRequest, Main, Pending, tcp_packRequestIntoIp
    <2>2. Pending' => TcpTransmitPacket' = TcpTransmitPacket
      BY <1>1, <1>4 DEF TransmitRequest, Main, Pending, tcp_packRequestIntoIp
    <2> QED
      BY <1>1, <2>1, <2>2, SendStream
  <1>5. CASE UNCHANGED evse /\ (Pending' => /\ Pending
                                         /\ TcpTransmitPacket'.seq = TcpTransmitPacket.seq)
    BY <1>1, <1>2, <1>5 DEF StreamInv, Lag
  <1> QED
    BY <1>1, <1>3, <1>4, <1>5, SynStream

\* The receive task keeps the order.
LEMMA RxStream ==
    ASSUME TypeInv, ControlInv, EvseInv, StreamInv, RxStep PROVE StreamInv'
  <1> USE DEF rxUnchanged, sharedVars, mainVars, rxVars, Rx
  <1>1. UNCHANGED <<toCar, evccPort, mainPc>> /\ rxPc # "idle" /\ (Current' => Current)
    BY RxEffect
  <1>2. SynAck' = SynAck
    BY <1>1 DEF SynAck
  <1>3. CASE StoreData \/ SetAckNr \/ SetAckLen
    <2>1. UNCHANGED <<evse, TcpSeqNr, segment, TcpTransmitPacket>> /\ (Pending' => Pending)
      BY <1>1, <1>3 DEF StoreData, SetAckNr, SetAckLen, Pending
    <2> QED
      BY <1>1, <1>2, <2>1 DEF StreamInv, Lag
  <1>4. CASE Connected \/ SetSeqNr
    <2>1. /\ UNCHANGED <<evse, TcpTransmitPacket>> /\ TcpSeqNr' = segment.ack
          /\ rxPc' # "idle" => segment' = segment
          /\ Pending' => Pending
      BY <1>1, <1>4 DEF Connected, SetSeqNr, Pending
    <2>2. Lag(TcpSeqNr)' = Lag(segment.ack) /\ Lag(toCar.ack)' = Lag(toCar.ack)
      BY <1>1, <2>1 DEF Lag
    <2>3. Lag(TcpTransmitPacket.seq)' = Lag(TcpTransmitPacket.seq)
      BY <2>1 DEF Lag
    <2>4. rxPc' # "idle" => Lag(segment.ack)' = Lag(segment.ack)
      BY <2>1 DEF Lag
    <2>5. /\ Lag(TcpSeqNr) \in Nat /\ Lag(segment.ack) \in Nat /\ Lag(toCar.ack) \in Nat
          /\ Lag(TcpTransmitPacket.seq) \in Nat /\ Half \in Nat
      BY LagTypes, HalfIs
    <2>6. evse'.state = evse.state
      BY <2>1
    <2> QED
      BY <1>1, <1>2, <2>1, <2>2, <2>3, <2>4, <2>5, <2>6 DEF StreamInv
  <1>5. CASE PrepareAck
    <2>1. UNCHANGED <<evse, TcpSeqNr, segment>> /\ TcpTransmitPacket'.seq = TcpSeqNr
      BY <1>5 DEF PrepareAck, tcp_prepareTcpHeader, Packet
    <2>2. Lag(TcpTransmitPacket.seq)' = Lag(TcpSeqNr) /\ Lag(TcpSeqNr)' = Lag(TcpSeqNr)
      BY <2>1 DEF Lag
    <2>3. Lag(TcpSeqNr) \in Nat
      BY LagTypes
    <2>4. Pending' => Lag(TcpSeqNr)' <= Lag(TcpTransmitPacket.seq)'
      BY <2>2, <2>3
    <2>5. Pending' => Lag(TcpTransmitPacket.seq)' <= Half
      BY <2>2 DEF StreamInv
    <2> QED
      BY <1>1, <1>2, <2>1, <2>4, <2>5 DEF StreamInv, Lag
  <1>6. CASE TransmitAck
    <2>1. Pending /\ (EvseReceives(TcpTransmitPacket) \/ UNCHANGED evse) /\ UNCHANGED TcpSeqNr
      BY <1>6 DEF TransmitAck, Pending, tcp_packRequestIntoIp
    <2>2. Pending' => TcpTransmitPacket' = TcpTransmitPacket
      BY <1>1, <1>6 DEF TransmitAck, Pending, tcp_packRequestIntoIp
    <2>3. rxPc' # "idle" => segment' = segment
      BY <1>6 DEF TransmitAck
    <2> QED
      BY <1>1, <2>1, <2>2, <2>3, SendStream
  <1> QED
    BY <1>3, <1>4, <1>5, <1>6 DEF RxStep

\* Taking the segment keeps the order: it was no less than what the car has.
LEMMA TakeStream ==
    ASSUME TypeInv, ControlInv, EvseInv, StreamInv, TakeSegment PROVE StreamInv'
  <1>1. /\ UNCHANGED <<evse, TcpSeqNr, TcpTransmitPacket, mainPc>> /\ segment' = toCar
        /\ rxPc = "idle" /\ rxPc' # "ackSend" /\ toCar' = NoSegment
    BY DEF TakeSegment, mainVars, sharedVars
  <1>2. ~Current' /\ ~SynAck'
    BY <1>1 DEF Current, SynAck, NoSegment, Segment
  <1>3. rxPc' # "idle" => Current \/ SynAck
    BY DEF TakeSegment, Current, SynAck, Up
  <1>4. Pending' => Pending
    BY <1>1 DEF Pending
  <1> QED
    BY <1>1, <1>2, <1>3, <1>4 DEF StreamInv, Lag

\* The charger keeps the order: it acknowledges all that it has.
LEMMA EvseStream ==
    ASSUME TypeInv, ControlInv, EvseInv, StreamInv, Evse PROVE StreamInv'
  <1>1. /\ UNCHANGED <<mainPc, rxPc, segment, TcpTransmitPacket, TcpSeqNr>>
        /\ evse'.state = evse.state /\ evse'.rcvNxt = evse.rcvNxt
        /\ SynAck' => evse.state = "SYN_RCVD"
        /\ SynAck' \/ Current' => toCar'.ack = evse.rcvNxt
    BY EvseEffect, Zenon
  <1>2. SynAck' \/ Current' => Lag(toCar.ack)' = 0
    BY <1>1, DistanceZero, NumberTypes DEF Lag
  <1>3. /\ Lag(TcpSeqNr)' = Lag(TcpSeqNr) /\ Lag(segment.ack)' = Lag(segment.ack)
        /\ Lag(TcpTransmitPacket.seq)' = Lag(TcpTransmitPacket.seq) /\ Pending' = Pending
    BY <1>1 DEF Lag, Pending
  <1>4. Lag(TcpSeqNr) \in Nat /\ Lag(segment.ack) \in Nat
    BY LagTypes
  <1> QED
    BY <1>1, <1>2, <1>3, <1>4 DEF StreamInv

\* Every step keeps the order.
LEMMA StreamStep ==
    ASSUME TypeInv, ControlInv, EvseInv, StreamInv, [Next]_vars PROVE StreamInv'
  <1>1. CASE ReceiveSdpResponse \/ LinkComesUp \/ UNCHANGED vars
    BY <1>1 DEF ReceiveSdpResponse, LinkComesUp, vars, sharedVars, mainVars, rxVars, StreamInv, Lag,
                Pending, Current, SynAck, Up
  <1> QED
    BY <1>1, MainStream, RxStream, TakeStream, EvseStream DEF Next

\* At the start nothing is under way.
LEMMA StreamInit ==
    ASSUME Init PROVE ControlInv /\ EvseInv /\ StreamInv
  <1>1. TypeInv
    BY TypeInit
  <1>2. Distance(0, 0) = 0
    BY DistanceZero, ConstantTypes
  <1>3. ~Pending /\ ~SynAck /\ ~Current /\ rxPc = "idle"
    BY DEF Init, Pending, SynAck, Current, NoSegment, Segment
  <1> QED
    BY <1>2, <1>3, HalfIs DEF Init, ControlInv, Control, Kind, EvseInv, StreamInv, Lag

\* Whatever is lost, repeated or late, and however the tasks interleave: the stream of requests
\* has no hole.
THEOREM StreamHasNoHole == Spec => []NoHole
  <1>1. Init => TypeInv /\ ControlInv /\ EvseInv /\ StreamInv
    BY TypeInit, StreamInit
  <1>2. TypeInv /\ ControlInv /\ EvseInv /\ StreamInv /\ [Next]_vars
           => (TypeInv /\ ControlInv /\ EvseInv /\ StreamInv)'
    BY TypeStep, ControlStep, EvseInvStep, StreamStep
  <1>3. TypeInv /\ StreamInv => NoHole
    BY BehindIsNotAhead, NumberTypes DEF StreamInv, Lag, NoHole
  <1> QED
    BY <1>1, <1>2, <1>3, PTL DEF Spec

-----------------------------------------------------------------------------
(* The car acknowledges only what was sent.                                *)

\* How many answers after number n the charger has sent.
SentAfter(n) == Distance(n, evse.sndNxt)

\* The number that the car acknowledges, or will as soon as it has looked at the SYN+ACK.
CarAck == IF rxPc = "connected" THEN 1 ELSE TcpAckNr

\* An answer is being handled, or is under way.
Handling     == rxPc \in {"data", "ackNr"}
DataUnderWay == Current /\ toCar.len # 0

\* By how much the car may fall back when it takes an old answer.
Back == IF EVSE_WINDOW = 0 THEN 0 ELSE EVSE_WINDOW - 1

\* The car takes answers in any order and acknowledges each, so that its acknowledgements go back
\* as well as on.  The charger has none under way that is a window older than what the car, a
\* prepared packet or the charger itself takes for acknowledged, so that the way back is short:
\* less than a window behind any of them.
AnswerInv ==
    Up /\ evse.port = evccPort =>
      /\ SentAfter(CarAck) <= SentAfter(evse.sndUna) + Back
      /\ Pending =>
            /\ SentAfter(CarAck) <= SentAfter(TcpTransmitPacket.ack) + Back
            /\ SentAfter(TcpTransmitPacket.ack) <= SentAfter(evse.sndUna) + Back
      /\ Handling =>
            /\ EVSE_WINDOW > 0 /\ SentAfter(segment.seq) > 0
            /\ SentAfter(segment.seq) <= SentAfter(evse.sndUna) + EVSE_WINDOW
            /\ SentAfter(segment.seq) <= SentAfter(CarAck) + EVSE_WINDOW
            /\ Pending => SentAfter(segment.seq)
                             <= SentAfter(TcpTransmitPacket.ack) + EVSE_WINDOW
      /\ DataUnderWay =>
            /\ EVSE_WINDOW > 0 /\ SentAfter(toCar.seq) > 0
            /\ SentAfter(toCar.seq) <= SentAfter(evse.sndUna) + EVSE_WINDOW
            /\ SentAfter(toCar.seq) <= SentAfter(CarAck) + EVSE_WINDOW
            /\ Pending => SentAfter(toCar.seq)
                             <= SentAfter(TcpTransmitPacket.ack) + EVSE_WINDOW
            /\ Handling => SentAfter(toCar.seq) <= SentAfter(segment.seq) - 1 + EVSE_WINDOW

\* What can be known of the window.
LEMMA WindowIs ==
    /\ EVSE_WINDOW \in Nat /\ Back \in Nat
    /\ EVSE_WINDOW > 0 => Back = EVSE_WINDOW - 1
    /\ EVSE_WINDOW + Back <= Half /\ 1 + Back <= Half /\ 2 * EVSE_WINDOW < SEQ_MOD
  <1>1. SEQ_MOD \in Nat /\ SEQ_MOD >= 3 /\ EVSE_WINDOW \in Nat /\ 4 * EVSE_WINDOW <= SEQ_MOD
    BY TcpAssumption
  <1>2. Half \in Nat /\ SEQ_MOD <= 2 * Half + 2 /\ Half >= 1
    BY <1>1 DEF Half
  <1> HIDE DEF Half
  <1> QED
    BY <1>1, <1>2 DEF Back

\* The counts are numbers.
LEMMA CountTypes ==
    ASSUME TypeInv
    PROVE  /\ SentAfter(CarAck) \in Nat /\ SentAfter(evse.sndUna) \in Nat
           /\ SentAfter(TcpTransmitPacket.ack) \in Nat
           /\ SentAfter(segment.seq) \in Nat /\ SentAfter(toCar.seq) \in Nat
           /\ CarAck \in SeqNrs
  <1>1. CarAck \in SeqNrs
    BY NumberTypes, ConstantTypes DEF CarAck
  <1> QED
    BY <1>1, NumberTypes, DistanceType DEF SentAfter

\* What touches none of the numbers keeps the bounds.
LEMMA QuietAnswers ==
    ASSUME AnswerInv, UNCHANGED <<evse, evccPort, toCar>>, CarAck' = CarAck, Up' => Up,
           Handling' => Handling /\ segment' = segment, Current' => Current,
           Pending' => Pending /\ TcpTransmitPacket'.ack = TcpTransmitPacket.ack
    PROVE  AnswerInv'
  <1>1. DataUnderWay' => DataUnderWay
    BY DEF DataUnderWay
  <1>2. /\ SentAfter(CarAck)' = SentAfter(CarAck)
        /\ SentAfter(evse.sndUna)' = SentAfter(evse.sndUna)
        /\ SentAfter(toCar.seq)' = SentAfter(toCar.seq)
        /\ Handling' => SentAfter(segment.seq)' = SentAfter(segment.seq)
        /\ Pending' => SentAfter(TcpTransmitPacket.ack)' = SentAfter(TcpTransmitPacket.ack)
    BY DEF SentAfter
  <1>3. Up' /\ evse'.port = evccPort' => Up /\ evse.port = evccPort
    OBVIOUS
  <1> QED
    BY <1>1, <1>2, <1>3 DEF AnswerInv

\* So does preparing a packet: it carries the car's number.
LEMMA PrepareAnswers ==
    ASSUME TypeInv, AnswerInv, UNCHANGED <<evse, evccPort, toCar, segment>>, CarAck' = CarAck,
           Up' => Up, Handling' => Handling, Current' => Current,
           TcpTransmitPacket'.ack = CarAck
    PROVE  AnswerInv'
  <1>1. DataUnderWay' => DataUnderWay
    BY DEF DataUnderWay
  <1>2. /\ SentAfter(CarAck)' = SentAfter(CarAck)
        /\ SentAfter(evse.sndUna)' = SentAfter(evse.sndUna)
        /\ SentAfter(toCar.seq)' = SentAfter(toCar.seq)
        /\ SentAfter(segment.seq)' = SentAfter(segment.seq)
        /\ SentAfter(TcpTransmitPacket.ack)' = SentAfter(CarAck)
    BY DEF SentAfter
  <1>3. Up' /\ evse'.port = evccPort' => Up /\ evse.port = evccPort
    OBVIOUS
  <1>4. SentAfter(CarAck) \in Nat /\ Back \in Nat
    BY CountTypes, WindowIs
  <1> QED
    BY <1>1, <1>2, <1>3, <1>4 DEF AnswerInv

\* And so does sending the packet: if the charger takes its number over, that is one from which
\* all others are bounded as well.
LEMMA SendAnswers ==
    ASSUME TypeInv, ControlInv, AnswerInv, Pending,
           EvseReceives(TcpTransmitPacket) \/ UNCHANGED evse,
           UNCHANGED <<evccPort, toCar>>, CarAck' = CarAck, Up' => Up,
           Handling' => Handling /\ segment' = segment, Current' => Current,
           Pending' => TcpTransmitPacket' = TcpTransmitPacket
    PROVE  AnswerInv'
  <1> DEFINE p == TcpTransmitPacket
  <1>1. p \in Packets /\ ~p.syn
    BY DEF TypeInv, ControlInv, Kind
  <1>2. /\ evse'.port = evse.port /\ evse'.sndNxt = evse.sndNxt
        /\ evse'.sndUna = evse.sndUna \/ evse'.sndUna = p.ack
    BY <1>1, ReceivedEffect, Zenon DEF TypeInv
  <1>3. DataUnderWay' => DataUnderWay
    BY DEF DataUnderWay
  <1>4. Up' /\ evse'.port = evccPort' => Up /\ evse.port = evccPort
    BY <1>2
  <1>5. /\ SentAfter(CarAck)' = SentAfter(CarAck)
        /\ SentAfter(toCar.seq)' = SentAfter(toCar.seq)
        /\ Handling' => SentAfter(segment.seq)' = SentAfter(segment.seq)
        /\ Pending' => SentAfter(TcpTransmitPacket.ack)' = SentAfter(p.ack)
        /\ \/ SentAfter(evse.sndUna)' = SentAfter(evse.sndUna)
           \/ SentAfter(evse.sndUna)' = SentAfter(p.ack)
    BY <1>2 DEF SentAfter
  <1>6. SentAfter(p.ack) \in Nat /\ Back \in Nat
    BY CountTypes, WindowIs
  <1>7. CASE SentAfter(evse.sndUna)' = SentAfter(evse.sndUna)
    BY <1>3, <1>4, <1>5, <1>7 DEF AnswerInv
  <1>8. CASE SentAfter(evse.sndUna)' = SentAfter(p.ack)
    BY <1>3, <1>4, <1>5, <1>6, <1>8 DEF AnswerInv
  <1> QED
    BY <1>5, <1>7, <1>8

\* The main loop keeps the bounds.
LEMMA MainAnswers ==
    ASSUME TypeInv, ControlInv, EvseInv, AnswerInv, MainStep PROVE AnswerInv'
  <1>1. /\ UNCHANGED <<toCar, segment, rxPc, TcpAckNr>>
        /\ Up' => Up /\ evccPort' = evccPort
        /\ Current' => Current
        /\ \/ SendSyn \/ PrepareRequest \/ TransmitRequest
           \/ /\ UNCHANGED evse
              /\ Pending' => Pending /\ TcpTransmitPacket'.ack = TcpTransmitPacket.ack
    BY MainEffect, Zenon
  <1>2. CarAck' = CarAck /\ Handling' = Handling
    BY <1>1 DEF CarAck, Handling
  <1>3. CASE ~Up'
    BY <1>3 DEF AnswerInv
  <1>4. CASE Up'
    <2>1. Up /\ evccPort' = evccPort
      BY <1>1, <1>4
    <2>2. ~SendSyn
      BY <2>1 DEF SendSyn, Main, Up, ControlInv, Control
    <2>3. CASE PrepareRequest
      <3>1. UNCHANGED evse /\ TcpTransmitPacket'.ack = CarAck
        BY <2>3 DEF PrepareRequest, Main, tcp_prepareTcpHeader, Packet, CarAck, ControlInv, Control
      <3> QED
        BY <1>1, <1>2, <2>1, <3>1, PrepareAnswers
    <2>4. CASE TransmitRequest
      <3>1. Pending /\ (EvseReceives(TcpTransmitPacket) \/ UNCHANGED evse)
        BY <2>4 DEF TransmitRequest, Main, Pending, tcp_packRequestIntoIp
      <3>2. Pending' => TcpTransmitPacket' = TcpTransmitPacket
        BY <1>1, <2>4 DEF TransmitRequest, Main, Pending, tcp_packRequestIntoIp
      <3> QED
        BY <1>1, <1>2, <2>1, <3>1, <3>2, SendAnswers
    <2>5. CASE UNCHANGED evse /\ (Pending' => /\ Pending
                                           /\ TcpTransmitPacket'.ack = TcpTransmitPacket.ack)
      BY <1>1, <1>2, <2>1, <2>5, QuietAnswers
    <2> QED
      BY <1>1, <2>2, <2>3, <2>4, <2>5
  <1> QED
    BY <1>3, <1>4

\* Taking over the number of an answer keeps the bounds, although it may go back.
LEMMA AckAnswers ==
    ASSUME TypeInv, ControlInv, AnswerInv, SetAckNr PROVE AnswerInv'
  <1> USE DEF rxUnchanged, sharedVars, mainVars, rxVars, Rx
  <1>1. /\ UNCHANGED <<toCar, evccPort, mainPc, evse, segment, TcpTransmitPacket, tcpState>>
        /\ rxPc = "ackNr" /\ rxPc' = "ackLen" /\ TcpAckNr' = Plus(segment.seq, 1)
    BY DEF SetAckNr, ControlInv, Kind
  <1>2. CASE ~(Up' /\ evse'.port = evccPort')
    BY <1>2 DEF AnswerInv
  <1>3. CASE Up' /\ evse'.port = evccPort'
    <2> DEFINE seg == SentAfter(segment.seq)
               una == SentAfter(evse.sndUna)
               pkt == SentAfter(TcpTransmitPacket.ack)
               way == SentAfter(toCar.seq)
    <2>1. Up /\ evse.port = evccPort /\ Handling
      BY <1>1, <1>3 DEF Up, Handling
    <2>2. /\ EVSE_WINDOW > 0 /\ seg > 0 /\ seg <= una + EVSE_WINDOW
          /\ Pending => seg <= pkt + EVSE_WINDOW
          /\ Pending => pkt <= una + Back
          /\ DataUnderWay => /\ way > 0 /\ way <= una + EVSE_WINDOW
                             /\ Pending => way <= pkt + EVSE_WINDOW
                             /\ way <= seg - 1 + EVSE_WINDOW
      BY <2>1 DEF AnswerInv
    <2>3. /\ seg \in Nat /\ una \in Nat /\ pkt \in Nat /\ way \in Nat
          /\ EVSE_WINDOW \in Nat /\ Back = EVSE_WINDOW - 1
      BY <2>2, CountTypes, WindowIs
    <2>4. SentAfter(CarAck)' = seg - 1
      <3>1. CarAck' = Plus(segment.seq, 1) /\ evse' = evse
        BY <1>1 DEF CarAck
      <3>2. 1 \in 0 .. SEQ_MOD - 1 /\ 1 <= seg
        BY <2>2, <2>3, TcpAssumption
      <3> QED
        BY <3>1, <3>2, StartMoves, NumberTypes DEF SentAfter
    <2>5. /\ SentAfter(evse.sndUna)' = una /\ SentAfter(TcpTransmitPacket.ack)' = pkt
          /\ SentAfter(toCar.seq)' = way
      BY <1>1 DEF SentAfter
    <2>6. ~Handling' /\ (Pending' => Pending) /\ (DataUnderWay' => DataUnderWay)
      BY <1>1 DEF Handling, Pending, DataUnderWay, Current, Up
    <2> HIDE DEF seg, una, pkt, way
    <2> QED
      BY <2>2, <2>3, <2>4, <2>5, <2>6 DEF AnswerInv
  <1> QED
    BY <1>2, <1>3

\* The receive task keeps the bounds.
LEMMA RxAnswers ==
    ASSUME TypeInv, ControlInv, EvseInv, AnswerInv, RxStep PROVE AnswerInv'
  <1> USE DEF rxUnchanged, sharedVars, mainVars, rxVars, Rx
  <1>1. /\ UNCHANGED <<toCar, evccPort, mainPc>> /\ rxPc' # "connected" /\ Up
        /\ Current' => Current
    BY RxEffect, Zenon
  <1>2. CASE Connected
    <2>1. /\ UNCHANGED <<evse, TcpTransmitPacket>> /\ TcpAckNr' = Plus(0, 1)
          /\ rxPc = "connected" /\ rxPc' = "ackLen"
      BY <1>2 DEF Connected, ControlInv, Kind
    <2>2. Plus(0, 1) = 1
      <3>1. CountsTo(0, 1, Plus(0, 1)) /\ Plus(0, 1) \in SeqNrs
        BY PlusCounts, ConstantTypes, TcpAssumption
      <3> QED
        BY <3>1, TcpAssumption DEF CountsTo, SeqNrs
    <2>3. CarAck' = CarAck
      BY <2>1, <2>2 DEF CarAck
    <2>4. ~Handling' /\ (Pending' => Pending)
      BY <1>1, <2>1 DEF Handling, Pending
    <2> QED
      BY <1>1, <2>1, <2>3, <2>4, QuietAnswers
  <1>3. CASE StoreData \/ SetAckLen \/ SetSeqNr
    <2>1. UNCHANGED <<evse, TcpTransmitPacket, TcpAckNr>> /\ rxPc # "connected"
      BY <1>3 DEF StoreData, SetAckLen, SetSeqNr
    <2>2. Handling' => Handling /\ segment' = segment
      BY <1>3 DEF StoreData, SetAckLen, SetSeqNr, Handling
    <2>3. (Pending' => Pending) /\ CarAck' = CarAck
      BY <1>1, <1>3, <2>1 DEF StoreData, SetAckLen, SetSeqNr, Pending, CarAck
    <2> QED
      BY <1>1, <2>1, <2>2, <2>3, QuietAnswers
  <1>4. CASE PrepareAck
    <2>1. /\ UNCHANGED <<evse, segment, TcpAckNr>> /\ TcpTransmitPacket'.ack = TcpAckNr
          /\ rxPc = "ackHeader" /\ rxPc' = "ackSend"
      BY <1>4 DEF PrepareAck, tcp_prepareTcpHeader, Packet
    <2>2. CarAck' = CarAck /\ TcpTransmitPacket'.ack = CarAck /\ ~Handling'
      BY <2>1 DEF CarAck, Handling
    <2> QED
      BY <1>1, <2>1, <2>2, PrepareAnswers
  <1>5. CASE TransmitAck
    <2>1. Pending /\ (EvseReceives(TcpTransmitPacket) \/ UNCHANGED evse)
      BY <1>5 DEF TransmitAck, Pending, tcp_packRequestIntoIp
    <2>2. Pending' => TcpTransmitPacket' = TcpTransmitPacket
      BY <1>1, <1>5 DEF TransmitAck, Pending, tcp_packRequestIntoIp
    <2>3. CarAck' = CarAck /\ ~Handling'
      BY <1>5 DEF TransmitAck, CarAck, Handling
    <2> QED
      BY <1>1, <2>1, <2>2, <2>3, SendAnswers
  <1> QED
    BY <1>2, <1>3, <1>4, <1>5, AckAnswers DEF RxStep

\* Taking a segment keeps the bounds: the SYN+ACK of a charger that has sent nothing else, or an
\* answer that was bounded while it was under way.
LEMMA TakeAnswers ==
    ASSUME TypeInv, ControlInv, EvseInv, AnswerInv, TakeSegment PROVE AnswerInv'
  <1>1. /\ UNCHANGED <<evse, evccPort, mainPc, tcpState, TcpTransmitPacket, TcpAckNr>>
        /\ segment' = toCar /\ toCar' = NoSegment /\ rxPc = "idle" /\ rxPc' # "ackSend"
    BY DEF TakeSegment, mainVars, sharedVars
  <1>2. ~DataUnderWay' /\ (Pending' => Pending)
    BY <1>1 DEF DataUnderWay, Current, Pending
  <1>3. /\ SentAfter(evse.sndUna)' = SentAfter(evse.sndUna)
        /\ SentAfter(TcpTransmitPacket.ack)' = SentAfter(TcpTransmitPacket.ack)
        /\ SentAfter(segment.seq)' = SentAfter(toCar.seq)
    BY <1>1 DEF SentAfter
  <1>4. CASE rxPc' = "connected"
    <2>1. SynAck /\ tcpState = "SYN_SENT"
      BY <1>4 DEF TakeSegment, SynAck
    <2>2. ~Pending' /\ ~Handling'
      BY <1>1, <1>4, <2>1 DEF Pending, Handling, ControlInv, Control
    <2>3. SentAfter(CarAck)' = 0
      <3>1. CarAck' = 1 /\ evse'.sndNxt = 1
        BY <1>1, <1>4, <2>1 DEF CarAck, EvseInv
      <3> QED
        BY <3>1, DistanceZero, ConstantTypes DEF SentAfter
    <2>4. SentAfter(evse.sndUna) \in Nat /\ Back \in Nat
      BY CountTypes, WindowIs
    <2> QED
      BY <1>2, <1>3, <2>2, <2>3, <2>4 DEF AnswerInv
  <1>5. CASE rxPc' # "connected"
    <2>1. Up' => Up
      BY <1>1, <1>5 DEF TakeSegment, Up
    <2>2. SentAfter(CarAck)' = SentAfter(CarAck)
      BY <1>1, <1>5 DEF CarAck, SentAfter
    <2>3. Handling' => DataUnderWay
      <3>1. rxPc' = "ackNr" => FALSE
        BY DEF TakeSegment
      <3>2. ASSUME rxPc' = "data"
            PROVE  /\ toCar # NoSegment /\ ~toCar.syn /\ toCar.port = evccPort
                   /\ tcpState = "ESTABLISHED" /\ toCar.len > 0
        BY <3>2 DEF TakeSegment
      <3>3. toCar.len > 0 => toCar.len # 0
        BY DEF TypeInv, Segments
      <3> QED
        BY <3>1, <3>2, <3>3 DEF Handling, DataUnderWay, Current, Up
    <2>4. Up' /\ evse'.port = evccPort' => Up /\ evse.port = evccPort
      BY <1>1, <2>1
    <2> QED
      BY <1>2, <1>3, <2>2, <2>3, <2>4 DEF AnswerInv
  <1> QED
    BY <1>4, <1>5

\* What the charger has already sent, and sends again, is within the bounds.
LEMMA RepeatAnswers ==
    ASSUME TypeInv, ControlInv, EvseInv, AnswerInv, Evse, UNCHANGED evse PROVE AnswerInv'
  <1>1. /\ UNCHANGED <<mainPc, rxPc, tcpState, segment, TcpTransmitPacket, evccPort, TcpAckNr>>
        /\ Current' /\ toCar'.len # 0 =>
              \E k \in 0 .. EVSE_WINDOW - 1 :
                 /\ k < Distance(evse.sndUna, evse.sndNxt)
                 /\ toCar'.seq = Plus(evse.sndUna, k)
    BY EvseEffect, Zenon
  <1> DEFINE seg == SentAfter(segment.seq)
             una == SentAfter(evse.sndUna)
             pkt == SentAfter(TcpTransmitPacket.ack)
             car == SentAfter(CarAck)
             way == SentAfter(toCar.seq)'
  <1>2. /\ SentAfter(evse.sndUna)' = una /\ SentAfter(TcpTransmitPacket.ack)' = pkt
        /\ SentAfter(segment.seq)' = seg /\ SentAfter(CarAck)' = car
        /\ Handling' = Handling /\ Pending' = Pending /\ Up' = Up
    BY <1>1 DEF SentAfter, CarAck, Handling, Pending, Up
  <1>3. /\ seg \in Nat /\ una \in Nat /\ pkt \in Nat /\ car \in Nat /\ EVSE_WINDOW \in Nat
    BY CountTypes, WindowIs
  <1>4. ASSUME DataUnderWay'
        PROVE  EVSE_WINDOW > 0 /\ way \in Nat /\ way > 0 /\ way <= una /\ way <= EVSE_WINDOW
    <2>1. PICK k \in 0 .. EVSE_WINDOW - 1 : k < una /\ toCar'.seq = Plus(evse.sndUna, k)
      BY <1>1, <1>4 DEF DataUnderWay, SentAfter
    <2>2. EVSE_WINDOW > 0 /\ k \in 0 .. SEQ_MOD - 1 /\ k <= una
      BY <1>3, <2>1, TcpAssumption
    <2>3. way = una - k
      BY <2>1, <2>2, StartMoves, NumberTypes DEF SentAfter
    <2>4. una <= EVSE_WINDOW
      BY <1>3, <2>2 DEF EvseInv, SentAfter
    <2> HIDE DEF way, una
    <2> QED
      BY <1>3, <2>1, <2>2, <2>3, <2>4
  <1>5. CASE ~(Up' /\ evse'.port = evccPort')
    BY <1>5 DEF AnswerInv
  <1>6. CASE Up' /\ evse'.port = evccPort'
    <2>1. /\ car <= una + Back
          /\ Pending => car <= pkt + Back /\ pkt <= una + Back
          /\ Handling => /\ EVSE_WINDOW > 0 /\ seg > 0 /\ seg <= una + EVSE_WINDOW
                         /\ seg <= car + EVSE_WINDOW
                         /\ Pending => seg <= pkt + EVSE_WINDOW
      BY <1>1, <1>2, <1>6 DEF AnswerInv
    <2>2. SentAfter(toCar.seq)' = way
      OBVIOUS
    <2> HIDE DEF way, una, seg, pkt, car
    <2>3. DataUnderWay' =>
            /\ EVSE_WINDOW > 0 /\ way > 0 /\ way <= una + EVSE_WINDOW
            /\ way <= car + EVSE_WINDOW /\ way <= pkt + EVSE_WINDOW
            /\ Handling => way <= seg - 1 + EVSE_WINDOW
      BY <1>3, <1>4, <2>1
    <2> QED
      BY <1>2, <2>1, <2>2, <2>3 DEF AnswerInv
  <1> QED
    BY <1>5, <1>6

\* A new answer makes all counts one more, its own one.
LEMMA NewAnswer ==
    ASSUME TypeInv, ControlInv, EvseInv, AnswerInv, Evse, ~UNCHANGED evse PROVE AnswerInv'
  <1>1. /\ UNCHANGED <<mainPc, rxPc, tcpState, segment, TcpTransmitPacket, evccPort, TcpAckNr>>
        /\ evse'.port = evse.port /\ evse'.sndUna = evse.sndUna
        /\ evse'.sndNxt = Plus(evse.sndNxt, 1) /\ evse.state = "ESTABLISHED"
        /\ Distance(evse.sndUna, evse.sndNxt) < EVSE_WINDOW
        /\ toCar'.seq = evse.sndNxt
    BY EvseEffect, Zenon
  <1>2. /\ CarAck' = CarAck /\ Handling' = Handling /\ Pending' = Pending /\ Up' = Up
    BY <1>1 DEF CarAck, Handling, Pending, Up
  <1>3. CASE ~(Up' /\ evse'.port = evccPort')
    BY <1>3 DEF AnswerInv
  <1>4. CASE Up' /\ evse'.port = evccPort'
    <2> DEFINE seg == SentAfter(segment.seq)
               una == SentAfter(evse.sndUna)
               pkt == SentAfter(TcpTransmitPacket.ack)
               car == SentAfter(CarAck)
    <2>1. /\ car <= una + Back
          /\ Pending => car <= pkt + Back /\ pkt <= una + Back
          /\ Handling => /\ EVSE_WINDOW > 0 /\ seg > 0 /\ seg <= una + EVSE_WINDOW
                         /\ seg <= car + EVSE_WINDOW
                         /\ Pending => seg <= pkt + EVSE_WINDOW
      BY <1>1, <1>2, <1>4 DEF AnswerInv
    <2>2. /\ seg \in Nat /\ una \in Nat /\ pkt \in Nat /\ car \in Nat /\ EVSE_WINDOW \in Nat
          /\ SEQ_MOD \in Nat
      BY CountTypes, WindowIs, TcpAssumption
    <2>3. una < EVSE_WINDOW /\ EVSE_WINDOW > 0
      BY <1>1, <2>2 DEF SentAfter
    <2>4. Back = EVSE_WINDOW - 1 /\ 2 * EVSE_WINDOW < SEQ_MOD
      BY <2>3, WindowIs
    <2>5. ASSUME NEW x \in SeqNrs, SentAfter(x) + 1 < SEQ_MOD
          PROVE  Distance(x, evse'.sndNxt) = SentAfter(x) + 1
      BY <1>1, <2>5, EndMoves, NumberTypes, TcpAssumption DEF SentAfter
    <2>6. SentAfter(evse.sndUna)' = una + 1
      <3>1. una + 1 < SEQ_MOD
        BY <2>2, <2>3, <2>4
      <3> QED
        BY <1>1, <2>5, <3>1, NumberTypes DEF SentAfter
    <2>7. SentAfter(CarAck)' = car + 1
      <3>1. car + 1 < SEQ_MOD
        BY <2>1, <2>2, <2>3, <2>4
      <3> QED
        BY <1>2, <2>5, <3>1, CountTypes DEF SentAfter
    <2>8. Pending => SentAfter(TcpTransmitPacket.ack)' = pkt + 1
      <3>1. Pending => pkt + 1 < SEQ_MOD
        BY <2>1, <2>2, <2>3, <2>4
      <3> QED
        BY <1>1, <2>5, <3>1, NumberTypes DEF SentAfter
    <2>9. Handling => SentAfter(segment.seq)' = seg + 1
      <3>1. Handling => seg + 1 < SEQ_MOD
        BY <2>1, <2>2, <2>3, <2>4
      <3> QED
        BY <1>1, <2>5, <3>1, NumberTypes DEF SentAfter
    <2>10. SentAfter(toCar.seq)' = 1
      BY <1>1, DistanceOfSum, NumberTypes, TcpAssumption DEF SentAfter
    <2> HIDE DEF seg, una, pkt, car
    <2>11. /\ car + 1 <= una + 1 + Back
           /\ 1 <= una + 1 + EVSE_WINDOW /\ 1 <= car + 1 + EVSE_WINDOW
           /\ Pending => /\ car + 1 <= pkt + 1 + Back /\ pkt + 1 <= una + 1 + Back
                         /\ 1 <= pkt + 1 + EVSE_WINDOW
           /\ Handling => /\ seg + 1 > 0 /\ seg + 1 <= una + 1 + EVSE_WINDOW
                          /\ seg + 1 <= car + 1 + EVSE_WINDOW
                          /\ Pending => seg + 1 <= pkt + 1 + EVSE_WINDOW
                          /\ 1 <= (seg + 1) - 1 + EVSE_WINDOW
      BY <2>1, <2>2, <2>3, <2>4
    <2> QED
      BY <1>2, <2>3, <2>6, <2>7, <2>8, <2>9, <2>10, <2>11 DEF AnswerInv
  <1> QED
    BY <1>3, <1>4

\* Every step keeps the bounds.
LEMMA AnswerStep ==
    ASSUME TypeInv, ControlInv, EvseInv, AnswerInv, [Next]_vars PROVE AnswerInv'
  <1>1. CASE ReceiveSdpResponse \/ LinkComesUp \/ UNCHANGED vars
    <2>1. UNCHANGED <<evse, evccPort, toCar, segment, rxPc, mainPc, tcpState, TcpAckNr,
                      TcpTransmitPacket>>
      BY <1>1 DEF ReceiveSdpResponse, LinkComesUp, vars, sharedVars, mainVars, rxVars
    <2> QED
      BY <2>1, QuietAnswers DEF CarAck, Up, Handling, Current, Pending
  <1> QED
    BY <1>1, MainAnswers, RxAnswers, TakeAnswers, RepeatAnswers, NewAnswer DEF Next

\* Whatever is lost, repeated or late, and however the tasks interleave: the car acknowledges
\* nothing that the charger has not sent.
THEOREM AcksAreTrue == Spec => []AcksWhatWasSent
  <1> DEFINE Inv == TypeInv /\ ControlInv /\ EvseInv /\ AnswerInv
  <1>1. Init => Inv
    <2>1. ASSUME Init PROVE AnswerInv
      BY <2>1 DEF Init, AnswerInv, Up
    <2> QED
      BY <2>1, TypeInit, StreamInit
  <1>2. Inv /\ [Next]_vars => Inv'
    BY TypeStep, ControlStep, EvseInvStep, AnswerStep
  <1>3. Inv => AcksWhatWasSent
    <2> SUFFICES ASSUME Inv, Open PROVE ~Ahead(evse.sndNxt, TcpAckNr)
      BY DEF AcksWhatWasSent
    <2>1. /\ SentAfter(CarAck) <= SentAfter(evse.sndUna) + Back
          /\ CarAck = TcpAckNr
      BY DEF AnswerInv, Up, Open, CarAck, ControlInv, Control
    <2>2. SentAfter(evse.sndUna) <= IF evse.state = "ESTABLISHED" THEN EVSE_WINDOW ELSE 1
      BY DEF EvseInv, SentAfter
    <2>3. SentAfter(CarAck) <= Half
      BY <2>1, <2>2, CountTypes, WindowIs, HalfIs
    <2> QED
      BY <2>1, <2>3, BehindIsNotAhead, NumberTypes DEF SentAfter
  <1> QED
    BY <1>1, <1>2, <1>3, PTL DEF Spec
=============================================================================
