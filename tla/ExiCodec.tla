------------------------------ MODULE ExiCodec ------------------------------
(***************************************************************************)
(* The EXI codec at work, event by event.  The charger sends a document:   *)
(* any walk through the content models (its own codec follows the schema), *)
(* cut off wherever it likes, with lists longer than this program's arrays *)
(* and strings longer than its buffers.  The decoder functions read it.    *)
(* The encoder functions write a document that lies in a struct: any       *)
(* content at all, or one of the requests of pevStateMachine.ino, filled   *)
(* into memory that still holds flags of earlier requests.                 *)
(*                                                                         *)
(* A frame stands for a type under way, on both sides: the place of the    *)
(* schema, and the call of the decoder or encoder function with its        *)
(* grammarID.  The widths and codes of each event are compared; values are *)
(* compared by the way they are coded, not by what they are.               *)
(***************************************************************************)
EXTENDS ExiEvents, FiniteSets

CONSTANTS
  Schema,     \* for each type the choices at its places
  Decoders,   \* for each type the table of its decoder function
  Encoders,   \* for each type the table of its encoder function
  InitSets,   \* for some types the flags and array lengths that the init function resets
  MaxLists    \* how many arrays may hold items at a time, over all types under way

\* Of a type with these choices: the arrays of its struct with their sizes, and all that its init
\* function would have to reset.
EventsIn(rows) == UNION {{rows[i][j] : j \in DOMAIN rows[i]} : i \in DOMAIN rows}
ArraysIn(events) == [a \in {e.name : e \in {e \in events : e.size > 0}} |->
                       (CHOOSE e \in events : e.name = a /\ e.size > 0).size]
OptionsIn(events) == {e.name : e \in {e \in events : e.flag \/ e.size > 0}}
                       \cup {"ANY" : e \in {e \in events : e.kind = "wild"}}
Arrays  == [t \in DOMAIN Schema |-> ArraysIn(EventsIn(Schema[t]))]
Options == [t \in DOMAIN Schema |-> OptionsIn(EventsIn(Schema[t]))]
Cleared(t) == IF t \in DOMAIN InitSets THEN InitSets[t] ELSE {}

VARIABLES task,     \* what the codec does
          stack,    \* the types under way, the document first
          here,     \* what the tables say of the place that is reached
          errn,     \* g_errn, with a name for each way to fail
          shown,    \* which _isUsed flags of dinDocDec's Body are set
          request,  \* what is encoded
          bitsOut   \* the most bits the request may have needed so far

vars == <<task, stack, here, errn, shown, request, bitsOut>>

(***************************************************************************)
(* The requests: the flags that their functions set after the init calls,  *)
(* and the elements whose structs were initialised before.  The structs    *)
(* below them keep what earlier requests left in the union of the bodies;  *)
(* their flags are taken to hold anything.                                 *)
(***************************************************************************)
Prepared == {"V2G_Message", "Header", "Body"}    \* projectExiConnector_prepare_DinExiDocument
Request(name, flags) ==
  [set |-> {<<"", "V2G_Message">>, <<"Body", name>>} \cup flags, init |-> Prepared \cup {name, ""}]
Units(names) == {<<n, "Unit">> : n \in names}

\* What a request is wrapped in: V2GTP, TCP and IPv6 headers, and the room for all of it.
V2GTP_HEADER_SIZE == 8
TcpHeaderLen == 20
Ipv6HeaderLen == 40
TCPIP_TRANSMIT_PACKET_LEN == 200

\* A mutant: the parameters are filled, but not marked as used.
ChargeParametersUnmarked ==
  {<<"DC_EVChargeParameter", "EVMaximumPowerLimit">>, <<"EVMaximumPowerLimit", "Unit">>}
ChargeParameters ==
  {<<"ChargeParameterDiscoveryReq", "DC_EVChargeParameter">>}
    \cup {<<"DC_EVChargeParameter", n>> :
            n \in {"EVMaximumPowerLimit", "EVEnergyCapacity", "EVEnergyRequest", "FullSOC", "BulkSOC"}}
    \cup Units({"EVMaximumCurrentLimit", "EVMaximumPowerLimit", "EVMaximumVoltageLimit",
                "EVEnergyCapacity", "EVEnergyRequest"})
PreCharge == Units({"EVTargetVoltage", "EVTargetCurrent"})
PowerDelivery ==
  {<<"PowerDeliveryReq", "DC_EVPowerDeliveryParameter">>,
   <<"DC_EVStatus", "EVCabinConditioning">>, <<"DC_EVStatus", "EVRESSConditioning">>,
   <<"DC_EVPowerDeliveryParameter", "BulkChargingComplete">>}
CurrentDemand ==
  {<<"CurrentDemandReq", n>> :
     n \in {"BulkChargingComplete", "RemainingTimeToFullSoC", "RemainingTimeToBulkSoC"}}
    \cup Units({"EVTargetVoltage", "EVTargetCurrent",
                "RemainingTimeToFullSoC", "RemainingTimeToBulkSoC"})
Flags(name) ==
  CASE name = "ServicePaymentSelectionReq" -> {<<"SelectedServiceList", "SelectedService">>}
    [] name = "ChargeParameterDiscoveryReq" -> ChargeParameters
    [] name = "PreChargeReq" -> PreCharge
    [] name = "PowerDeliveryReq" -> PowerDelivery
    [] name = "CurrentDemandReq" -> CurrentDemand
    [] OTHER -> {}
RequestNames ==
  {"SessionSetupReq", "ServiceDiscoveryReq", "ServicePaymentSelectionReq",
   "ContractAuthenticationReq", "ChargeParameterDiscoveryReq", "CableCheckReq", "PreChargeReq",
   "PowerDeliveryReq", "CurrentDemandReq", "WeldingDetectionReq", "SessionStopReq"}
Requests == [name \in RequestNames |-> Request(name, Flags(name))]
Anything == "any content"

(***************************************************************************)
(* Frames.                                                                 *)
(***************************************************************************)
\* A type is entered.  In left are the flags and lengths of its struct that say something else
\* than what came so far: at first those that nobody has reset.
Frame(name, t, table, left) ==
  [name |-> name, type |-> t, place |-> 1, grammarID |-> table[1].id,
   count |-> [a \in DOMAIN Arrays[t] |-> 0], left |-> left]
Decoding(name, t) == Frame(name, t, Decoders[t], Options[t] \ Cleared(t))
Encoding(name, t) == Frame(name, t, Encoders[t], {})

Top     == stack[Len(stack)]
Callers == SubSeq(stack, 1, Len(stack) - 1)
Offered == here.offered                      \* what may come next in the document
Current == here.row                          \* what the function does now
InDocument == Len(stack) = 1                 \* the root element is still to come

\* The state of the function under way, and what may come.
Lookup(top, table) ==
  [offered |-> Schema[top.type][top.place], row |-> RowOf(table[top.type], top.grammarID),
   cleared |-> Cleared(top.type)]
Nowhere == [offered |-> <<>>, row |-> Last(0), cleared |-> {}]
Look(table) == here' = IF stack' = <<>> THEN Nowhere ELSE Lookup(stack'[Len(stack')], table)

\* The bound on the documents.
Filled ==
  Cardinality(UNION {{<<i, a>> : a \in {a \in DOMAIN stack[i].count : stack[i].count[a] > 0}} :
                       i \in DOMAIN stack})
InBounds(o) == o.size > 0 /\ Top.count[o.name] = 0 => Filled < MaxLists

\* The codec has the width of the choice, and its event k is the schema's event n.
Agree(k, n) ==
  /\ Current.bits = Width(Offered)
  /\ k = n /\ k \in DOMAIN Current.events
  /\ LET e == Current.events[k]
     IN  e.kind = Offered[n].kind /\ e.name = Offered[n].name /\ e.value = Offered[n].value

\* The frame after an element, attribute or text: what it is is noted in the struct.
Counted(o) == [a \in DOMAIN Top.count |-> Top.count[a] + (IF a = o.name THEN 1 ELSE 0)]
Past(e, o) ==
  [Top EXCEPT !.place = o.to, !.grammarID = e.to, !.count = Counted(o),
              !.left = IF ~o.flag \/ task = "encode" THEN @
                       ELSE IF e.flag THEN @ \ {o.name} ELSE @ \cup {o.name}]

\* The codec function returns to the state machine.
Return(result) ==
  /\ task' = "idle" /\ stack' = <<>> /\ here' = Nowhere
  /\ errn' = result /\ request' = Anything

\* An element with a content of its own: its function is called.
Enter(e, o, frame) ==
  /\ e.value.coding = "struct"
  /\ stack' = Callers \o <<Past(e, o), frame>>
  /\ UNCHANGED <<task, errn, request>>
\* A value, attribute or text.
Take(e, o) ==
  /\ e.kind # "end" /\ e.value.coding # "struct"
  /\ IF InDocument THEN Return("none")
     ELSE stack' = Append(Callers, Past(e, o)) /\ UNCHANGED <<task, errn, request>>
\* The end of a type: back to its caller, or out with the root element.
Leave(e) ==
  /\ e.kind = "end"
  /\ IF Len(stack) = 2 THEN Return("none") ELSE stack' = Callers /\ UNCHANGED <<task, errn, request>>

(***************************************************************************)
(* The decoder.                                                            *)
(***************************************************************************)
Init ==
  /\ task = "idle" /\ stack = <<>> /\ here = Nowhere /\ errn = "none" /\ shown = {}
  /\ request = Anything /\ bitsOut = 0

\* A message has come and its header is a simple one; init_...EXIDocument.
\* What the flags of the body say is from now on what they said of an earlier message.
StartDecoding(document) ==
  /\ task = "idle"
  /\ task' = "decode"
  /\ stack' = <<Decoding("", document)>> /\ Look(Decoders)
  /\ shown' = IF document = "dinEXIDocument" /\ shown # {} THEN {"old"} ELSE shown
  /\ UNCHANGED <<errn, request, bitsOut>>

\* A cookie or options in the header, or no byte at all.
RefuseHeader ==
  /\ task = "idle"
  /\ errn' = "header"
  /\ shown' = IF shown = {} THEN {} ELSE {"old"}
  /\ UNCHANGED <<task, stack, here, request, bitsOut>>

\* What the charger sends next: n is the code it writes.
Sent == {n \in DOMAIN Offered : InBounds(Offered[n])}
HasRoom(e) == e.size > 0 => Top.count[e.name] < e.size

\* The body starts with init_dinBodyType.  Another root element than V2G_Message lies on the
\* memory of the body (an unnamed union) and may leave anything there.
ShownOnEntry_NoReset(name, frame) ==       \* a mutant: the body's flags are not reset
  {IF Top.type = "dinBodyType" THEN shown \cup {"current"} ELSE shown}
ShownOnEntry(name, frame) ==
  CASE frame.type = "dinBodyType" -> {IF frame.left = {} THEN {} ELSE shown}
    [] Top.type = "dinBodyType" -> {shown \cup {"current"}}
    [] Top.type = "dinEXIDocument" /\ name # "V2G_Message" -> {shown, {"old"}}
    [] OTHER -> {shown}

Decode(n) ==
  /\ Agree(n, n)
  /\ LET e == Current.events[n]  o == Offered[n]
         frame == Decoding(e.name, e.value.struct)
     IN  /\ e.kind # "wild" /\ HasRoom(e)
         /\ \/ Enter(e, o, frame) /\ shown' \in ShownOnEntry(e.name, frame)
            \/ (Take(e, o) \/ Leave(e)) /\ UNCHANGED shown
  /\ Look(Decoders)
  /\ UNCHANGED bitsOut

\* The codec takes the code for another event, or the wrong bits for the code.
Misread(n) ==
  /\ ~Agree(n, n)
  /\ Return("lost")
  /\ UNCHANGED <<shown, bitsOut>>

\* EXI_ERROR_OUT_OF_BOUNDS: the array is full.
RefuseItem(n) ==
  /\ Agree(n, n)
  /\ Current.events[n].size > 0 /\ ~HasRoom(Current.events[n])
  /\ Return("full")
  /\ UNCHANGED <<shown, bitsOut>>
\* EXI_UNSUPPORTED_EVENT_CODE_CHARACTERISTICS: an element that the schema does not name.
RefuseWildcard(n) ==
  /\ Agree(n, n) /\ Current.events[n].kind = "wild"
  /\ Return("wildcard")
  /\ UNCHANGED <<shown, bitsOut>>
\* A string or an array of bytes longer than its buffer, or a string table hit.
RefuseValue(n) ==
  /\ Agree(n, n) /\ Current.events[n].value.coding \in {"characters", "bytes"}
  /\ Return("value")
  /\ UNCHANGED <<shown, bitsOut>>
\* EXI_ERROR_INPUT_STREAM_EOF, wherever the message was cut off.
StreamEnds ==
  /\ task = "decode"
  /\ Return("eof")
  /\ UNCHANGED <<shown, bitsOut>>

(***************************************************************************)
(* The encoder.                                                            *)
(***************************************************************************)
StartEncoding(document, what) ==
  /\ task = "idle"
  /\ task' = "encode"
  /\ stack' = <<Encoding("", document)>> /\ Look(Encoders)
  /\ request' = what
  /\ bitsOut' = IF what = Anything THEN 0 ELSE 8       \* writeEXIHeader
  /\ UNCHANGED <<errn, shown>>

\* What is known of the struct: the flag of o is set, or reset; an array is filled with one item.
KnownSet(o) == request # Anything /\ <<Top.name, o.name>> \in Requests[request].set
KnownReset(o) ==
  /\ request # Anything /\ ~KnownSet(o)
  /\ Top.name \in Requests[request].init /\ o.name \in here.cleared
Optional(o) == o.flag \/ o.size > 0
MayCome(o) ==
  /\ o.kind # "wild"
  /\ o.flag => ~KnownReset(o)
  /\ o.size > 0 => Top.count[o.name] < IF KnownSet(o) THEN 1 ELSE o.size
MustCome(o) == o.kind # "wild" /\ (Optional(o) => KnownSet(o) /\ MayCome(o))

\* The event of the choice that comes first in the struct, if any: what the document should say.
Contents ==
  {n \in Sent :
     /\ MayCome(Offered[n])
     /\ \A j \in 1..(n - 1) :
          MustCome(Offered[j]) => Offered[j].kind = "end" /\ Offered[n].kind = "text"}
Incomplete == \A n \in DOMAIN Offered : ~MustCome(Offered[n])

\* The condition that the encoder tests, when event n comes next (0: nothing does).
Holds(e, n) ==
  CASE e.kind = "wild" -> FALSE                                       \* 1==0
    [] e.kind = "end"  -> n = 0 \/ Offered[n].kind # "text"           \* ANY_isUsed == 0u || wcDone
    [] Optional(e)     -> n # 0 /\ Offered[n].name = e.name
    [] OTHER           -> TRUE
Written(n) == {k \in DOMAIN Current.events :
                 Holds(Current.events[k], n) /\ \A j \in 1..(k - 1) : ~Holds(Current.events[j], n)}

\* The most bits of a value; a simple element has an event before and after it.  Identifiers have
\* at most eight bytes (SESSIONID_LEN); strings do not occur in the requests.
MostBits_AnyLength(value) ==               \* a mutant: identifiers as long as a byte can say
  IF value.coding = "bytes" THEN 8 + 8 * 255 + 2 ELSE value.bits + 3
MostBits(value) ==
  CASE value.coding \in {"nbit", "bool"} -> value.bits + 2
    [] value.coding \in {"signed", "unsigned"} -> 8 * ((value.bits + 6) \div 7) + 3
    [] value.coding = "bytes" -> 8 + 8 * 8 + 2
    [] value.coding = "characters" -> 8 * 256
    [] OTHER -> 0

Encode(n) ==
  /\ \E k \in Written(n) :
       LET e == Current.events[k]
       IN  /\ Agree(k, n)
           /\ Enter(e, Offered[n], Encoding(e.name, e.value.struct)) \/ Take(e, Offered[n]) \/ Leave(e)
           /\ bitsOut' = IF request = Anything \/ task' = "idle" THEN 0
                      ELSE bitsOut + Current.bits + MostBits(e.value)
  /\ Look(Encoders)
  /\ UNCHANGED shown

\* The encoder writes something else than what the struct holds.
Miswrite(n) ==
  /\ ~\E k \in Written(n) : Agree(k, n)
  /\ Return("lost")
  /\ bitsOut' = 0
  /\ UNCHANGED shown

\* EXI_ERROR_UNKOWN_EVENT_FOR_ENCODING: nothing of what has to come is in the struct.
GetStuck ==
  /\ task = "encode" /\ Incomplete
  /\ Return(IF Written(0) = {} THEN "stuck" ELSE "lost")
  /\ bitsOut' = 0
  /\ UNCHANGED shown

(***************************************************************************)
(* The specification.                                                      *)
(***************************************************************************)
Documents == {"dinEXIDocument", "appHandEXIDocument"}

Receive == (\E d \in Documents : StartDecoding(d)) \/ RefuseHeader
Read == /\ task = "decode"
        /\ \E n \in Sent :
             Decode(n) \/ Misread(n) \/ RefuseItem(n) \/ RefuseWildcard(n) \/ RefuseValue(n)
Send == \/ \E d \in Documents : StartEncoding(d, Anything)
        \/ \E r \in RequestNames : StartEncoding("dinEXIDocument", r)
Write == task = "encode" /\ \E n \in Contents : Encode(n) \/ Miswrite(n)

Next == Receive \/ Read \/ StreamEnds \/ Send \/ Write \/ GetStuck
Spec == Init /\ [][Next]_vars

(***************************************************************************)
(* Properties.                                                             *)
(***************************************************************************)
\* All variables stay in their types, and every function that is under way is in a state that its
\* switch has: no `errn = EXI_ERROR_UNKOWN_GRAMMAR_ID`.
TypeOK ==
  /\ task \in {"idle", "decode", "encode"}
  /\ errn \in {"none", "header", "lost", "full", "wildcard", "value", "eof", "stuck"}
  /\ shown \subseteq {"current", "old"}
  /\ request \in RequestNames \cup {Anything}
  /\ bitsOut \in Nat
  /\ \A i \in DOMAIN stack :
       /\ stack[i].type \in DOMAIN Schema
       /\ stack[i].place \in DOMAIN Schema[stack[i].type]
  /\ stack # <<>> => here.row.id = Top.grammarID

\* Wherever a document is in its schema, the decoder and the encoder function are at the same
\* place: they take the same number of bits for the next event, code for code the same elements,
\* and the same coding of their values.  Nothing in the code could notice that they do not.
InStep == errn # "lost"

\* No list, however long, is stored beyond the array that the struct declares for it.
ArraysFit ==
  \A i \in DOMAIN stack : \A a \in DOMAIN stack[i].count :
    stack[i].count[a] <= Arrays[stack[i].type][a]

\* A document is refused for the length of a list only when the declared array is full.
FullOnlyAtTheLimit ==
  [][task = "decode" /\ task' = "idle" /\ errn' = "full"
       => \E a \in DOMAIN Top.count : Top.count[a] = Arrays[Top.type][a]]_vars

\* While a struct is decoded, its flags and array lengths always tell what has come of it so far,
\* also where the memory was used for another message before (the messages of a body are a union).
FlagsTellWhatCame == task = "decode" => \A i \in DOMAIN stack : stack[i].left = {}

\* When a whole message has been decoded without an error, the flags of the body that the state
\* machine looks at show this message and nothing of an earlier one.
FreshAnswer ==
  [][task = "decode" /\ task' = "idle" /\ errn' = "none" /\ Top.type = "dinAnonType_V2G_Message"
       => shown' \subseteq {"current"}]_vars

\* Every request of the state machine is encoded to its end, whatever the memory that its
\* functions do not initialise holds of earlier requests.  Nobody looks at g_errn: a request that
\* is not would be sent up to the failure.
RequestsGoOut == [][request # Anything /\ task' = "idle" => errn' = "none"]_vars

\* Every request fits, with its V2GTP, TCP and IPv6 headers, into the buffer of the IP packet.
\* That buffer is not checked: the guards of addV2GTPHeaderAndTransmit and tcp_transmit admit
\* a payload of up to 179 bytes, and tcp_packRequestIntoIp has room for 140.
RequestsFit ==
  (bitsOut + 7) \div 8 + V2GTP_HEADER_SIZE + TcpHeaderLen + Ipv6HeaderLen
    <= TCPIP_TRANSMIT_PACKET_LEN
=============================================================================
