# A verification project for ccs32

ccs32 is the vehicle side of a CCS (DC fast charging) session on an ESP32: it
pairs a powerline modem with the charger's (SLAC), finds the charger (SDP),
talks TCP to it and runs the DIN 70121 charging sequence, at the end of which a
power relay closes. This directory holds TLA+ models of that program, the TLC
runs that check them on small instances, and TLAPS proofs, for all values of the
constants, about the charging half, the pairing half, the TCP client and the EXI codec. The
generated codec, four fifths of the code, is transcribed into tables; TLC compares them with
the schema place by place, and that this makes the codec right for every document is proved.
`src/` below is the repository.

## 1. The system

Three contexts run concurrently and share global variables without locks:

- the **main loop** (`ccs32.ino: loop`), which calls `task30ms` every 30 ms:
  connection manager, modem finder, SLAC, SDP, TCP, charging state machine, in
  this order;
- the **Ethernet receive task** (`ethernet.ino: myEthernetReceiveCallback`), which
  evaluates each frame in place and may change states and timers, and transmit;
- the **event callback** (`myEthernetEventCallback`), which sets `isEthLinkUp`.

| component | state | operations | talks to |
|---|---|---|---|
| connection manager `connMgr.ino` | seven count-down timers, ConnectionLevel | `connMgr_Mainfunction`, `connMgr_*Ok` | every layer reports to it, every layer asks it for the level |
| modem finder `modemFinder.ino` | state, delay, count of modems | `modemFinder_Mainfunction`, `evaluateGetSwCnf` | modems; connection manager |
| SLAC `homeplug.ino` | `pevSequenceState`, time in it, delay, counters | `runSlacSequencer`, `evaluate*Cnf/Ind` | modems; connection manager |
| SDP `homeplug.ino`, `ipv6.ino` | `sdp_state`, retries, SLAC's delay | `runSdpStateMachine`, `evaluateUdpPayload` | charger; connection manager |
| TCP `tcp.ino` | `tcpState`, one receive slot, sequence numbers, packet buffers | `tcp_Mainfunction`, `tcp_transmit`, `evaluateTcpPacket`, `tcp_Disconnect` | charger; connection manager; state machine |
| charging state machine `pevStateMachine.ino` | `pev_state`, time in it, retry counters, bulb, decoded documents | 16 state functions, `pev_isTooLong`, `pevStateMachine_ReInit` | TCP, EXI, hardware, connection manager |
| hardware `hardwareInterface.ino` | relay, pilot state B/C, simulated SOC | set and get functions | driven by the state machine |
| Ethernet driver `ethernet.ino` | link flag, failure counter, buffers | receive, transmit, events | everything |
| scheduler `ccs32.ino` | last call times | `loop`, `setup` | calls everything |
| EXI `src/exi/` | one document for decoding, one for encoding, `g_errn`, two bit streams | an init, a decode and an encode function per type | state machine |

What is hard: a frame may be evaluated between any two calls of the main loop,
or in the middle of one; a timer may be loaded for a connection that the next
call closes; a message may wait in the receive slot from one session to the
next; segments are taken in any order, and requests and acknowledgements are put
together in one buffer by two tasks; the decoders keep flags of an earlier message, and
write into arrays of fixed length what the charger sends; a codec of 35000 generated lines
is right or wrong by single bits; two clocks (state limits and
connection timers) watch the same wait; a state may be entered after the reply
it expects; counters are 8 and 16 bits wide; and whatever happens, the relay must
end up open and the car must come back to its search. `PROJECT.json` lists these
hazards with their lines.

Correctness of each component:

- connection manager: the level never outlives the traffic it stands for, and
  falls when a layer goes quiet;
- pairing (modem finder, SLAC, SDP): a charger is reported only when its modem
  answered; no wait is for ever; a cooperative charger is found; the shared delay
  counter has one owner;
- TCP channel: what the state machine reads came over its connection;
- TCP client: its numbers stay behind what was really sent and received; it always comes
  back to a connection;
- EXI codec: decoder, encoder and schema agree on every bit width and code; arrays and
  flags tell what came; the car's requests can be encoded and fit;
- charging state machine: phases in order, pilot and relay only where they
  belong, bounded waits, every session ends, a finished or failed one gives way
  to a new search.

## 2. Modules

```
ConnMgr --- TcpChannel --- PevStateMachine --- Charging --- MCCharging
   |--- Tcp                                       |    \--- ChargingProofs --- SessionProofs
   |      \--- TcpProofs        ChargeSession ----'  (INSTANCE)
   |                                  \--- ChargeSessionProofs
   |------- Modems --- ModemFinder --.
   |           \------ Slac --- Sdp --+-- Pairing --- MCPairing
   |                                          \--- PairingProofs --- WaitProofs
   '--- ConnMgrProofs (used by ChargingProofs, PairingProofs and TcpProofs)

ExiEvents --- ExiGrammar --- DinDatatypes, DinDecoder, DinEncoder, AppHand --- ExiTables --.
    \--- ExiCodec --- ExiAgreement ---------------------------------------------------------+-- MCExiCodec
                           \--- ExiCodecProofs
```

| module | code | how it corresponds |
|---|---|---|
| `ConnMgr` | `connMgr.ino` | timers as a function on `Layers`; the reports are operators on it; one action for the cyclic function, one for the link event |
| `TcpChannel` | `tcp.ino` | connection state and the single receive slot; `Transmit` is `tcp_transmit`, which drops requests on a closed connection; the charger answers, strays and loses as the constants allow |
| `Tcp` | `tcp.ino`, its callers | the same client statement by statement: `mainPc` and `rxPc` name the statement that each task executes next; the charger is a TCP as the standard has it |
| `PevStateMachine` | `pevStateMachine.ino`, `hardwareInterface.ino`, `projectExiConnector.c` | one action per state function, each the whole call with timeouts and outputs |
| `Charging` | `task30ms`, receive task | `task` says which call comes next; a receive or link event may come between any two |
| `ChargeSession` | - | abstract: the order of the phases, pilot and relay |
| `Modems` | external | what the modems and the charger answer, and when they share a key |
| `ModemFinder`, `Slac`, `Sdp` | `modemFinder.ino`, `homeplug.ino` | one action per state; a call that transmits and then changes its state is two steps (`inTransmit`), with room for the receive task |
| `Pairing` | `task30ms`, receive task | as `Charging`, for the lower half |
| `MC*` | - | values for TLC |
| `ExiEvents` | `MethodsBag.c`; the EXI specification | events and rows, the width of an event code |
| `ExiGrammar` | the EXI specification | the notation of the content models, and the choices that a content model prescribes |
| `DinDatatypes` | `dinEXIDatatypes.h`, `.c` | per struct its content model with the sizes of its arrays, and what its init function resets |
| `DinDecoder`, `DinEncoder` | `dinEXIDatatypesDecoder.c`, `...Encoder.c` | one definition per function, one row per `grammarID`: width of the event code, and for each code the element, its coding and the next `grammarID` |
| `AppHand` | `appHandEXIDatatypes*` | the same for the handshake |
| `ExiTables` | - | both schemas, and both codecs' tables, as functions of the type's name |
| `ExiCodec` | `projectExiConnector.c`, the channels, the requests of `pevStateMachine.ino` | the codec at work, for any schema and tables (constants): `stack` holds the functions under way; one action per kind of event and per way to fail |
| `ExiAgreement` | - | `TablesAgree`: that a table says what the schema says, at each place by itself |
| `MCExiCodec` | - | the codec with the code's tables, for TLC |

The program is cut in two at level 50. Nothing above looks at levels below 50
separately, nothing below tells levels from 50 on apart; each half replaces the
other by the reports it can make (`ReceiveSdpResponse` in `Charging`,
`UpperReport` in `Pairing`). A timer left out of `Layers` behaves as one that has
run down.

`Tcp` stands beside `TcpChannel`: the charging state machine is reduced there to its use
of TCP (send, wait, read, give up), which lets each task stop at each statement. A
segment is handled in less time than lies between two cycles (`CallConnMgr` waits for the
receive task); the two tasks meet anywhere within a cycle. While TCP is closed, the receive
task ignores every segment, so that building the SYN is one step. `tcpHeaderLen` and the
frame buffers follow `TcpTransmitPacket` and are merged with it. A pending
request is kept as its length in the bytes behind the header; the charger checks length
and number and is `confused` by anything else. The timer of the application layer is left
out. RST and FIN are not looked at by the code, and `tcpActivityTimer` is never read.

In the EXI modules a content model is taken from the comment above the struct in
`dinEXIDatatypes.h`, the tables from the switch statements, so that the two are independent
transcriptions of what the code generator got from one schema. Values are compared by their
coding (`nbit` of a width, signed, characters of at most a length) and not followed bit by
bit. The structs below those that a request initialises hold anything: they lie in a
union with the other messages. `ParameterSet` is declared with one element
(`dinEXIDatatypes.h:1526`), where the comment at line 84 gives the limit as 5.

Abstractions of data: a message is its kind and one verdict (`ok`: processing
finished, response OK, voltage reached); segments of at most eight bytes, which
the state machine never looks at, count as no data; addresses, keys and frame
layouts are left out. `fresh` in the receive slot, and `chargerSeen` in the modem
model, are history that no action's guard reads. The user's stop request is never
set in the code, and the light-bulb demo is compiled in. In `Charging` a call of
`task30ms` is atomic; in `Pairing` transmissions split it. In `Charging` unread
flags in `dinDocDec` are the message they belong to. The time spent in the SLAC
state INITIAL is not counted, as nothing reads it. In `Pairing` the link changes
just before the connection manager's call, which alone reads it.

Definitions whose comment says *mutant* are changed copies of the definition that
follows or precedes; no specification uses them. Each shows that a property notices
a plausible error in the code it is about.

## 3. Runs

| run | question | result |
|---|---|---|
| `charging_strays` | types, relay, pilot, timeouts and counters with a charger that answers, repeats itself, or sends garbage at any moment; every session ends, Connecting is left, and a finished session gives way to a new search once strays have ceased | holds |
| `charging_link` | refinement of `ChargeSession`, and no stale data beyond the first exchange, with the link coming and going and SDP responses at any time | holds |
| `pairing_lossy` | a reported charger did answer; SLAC never hangs; SLAC and SDP never give up before the connection manager does, with requests lost and replies of any speed up to a cycle | holds |
| `pairing_link` | types; SDP's delay is left alone by SLAC, with modems that restart, link failures and a SLAC_PARAM.CNF of any age | holds |
| `pairing_coop` | a cooperative charger is found, and by the SLAC that set the key, although its modem takes up to 10 s to come back | holds |
| `tcp_numbers` | the car's sequence and acknowledge numbers never run ahead of what the charger received and sent, with two tasks in the middle of their statements, losses, repetitions, late segments and old connections | holds |
| `tcp_connects` | the car comes back to a connection for ever, although SYN is sent once | holds |
| `exi_codec` | every document the schema allows, cut off anywhere and longer than the arrays: decoder, encoder and schema stay in step, arrays and flags are right, the requests go out and fit; the tables of the code agree with the schema at every place of every type (`AgreedBeforeUse`, the hypothesis of the proofs) | holds |

The following runs state what a comment says and end in a counterexample; each is a
finding in `PROJECT.json`.

| run | the comment | what happens |
|---|---|---|
| `charging_cable_check` | "Wait at least 30s" | the 5 s timers of the connection manager are faster |
| `charging_stale` | "it is the correct response" | a late response of the last session is taken for the first of the next |
| `pairing_retries` | "We lost the connection to the EVSE modem" | the retry counter is reset with each retry |
| `tcp_race` | "The sequence number of our next transmit packet is given by the received ACK number" | the answer is offered to the main loop before that number is stored |

Three more comments that the models contradict, without a run of their own. A session may
start on a closed connection, when a SYN+ACK comes between two calls of one cycle
("freshly established TCP channel", `pevStateMachine.ino:268`); it ends with a timeout.
After a timeout nothing reconnects ("we just re-establish the TCP connection",
`pevStateMachine.ino:733`): Connecting is left only because the timers run down, and the
car starts over with the modem search (`ConnectingIsLeft`). A SLAC_MATCH.CNF within a cycle
finds no restart delay and skips it ("3s reset wait time", `homeplug.ino`).

`Tcp` contains three more faults that only a timeout ends and that no comment denies: the length
of a request is overwritten with the 0 of an acknowledgement, so that no request goes out;
an acknowledgement takes the length of a request that is just being put together, and goes
out with as many bytes of the last one; and `tcp_rxdataLen = 0` after the decoding drops an acknowledged message that came meanwhile.

Three branches are dead because the connection manager acts first: the 500-cycle limit
of SLAC's waits (against at most 495 of the timers that give SLAC its turn), the
20 retries just mentioned (`SlacEndsWithTheLevel`), and SDP's giving up after 50 tries
(24 s against the 10 s after which the paired modems are forgotten, `SdpAsksToTheEnd`).
They are in the models, as the second branch of an IF; that no behaviour takes them is
proved (section 4), under the order of the limits that the code's values have.

One more comment does not hold to the letter: WAIT_FOR_ATTEN_CHAR_IND is entered
after `myEthTransmit` of the last sound has returned, so that a reply within the
transmission is ignored ("a fast response is catched", `homeplug.ino:640`). The runs
with `FastReplies` contain these behaviours; what must hold in them, that SLAC is left
all the same, is `SlacIsLeft`.

### Bounds

In `MCCharging` one unit stands for about one second (33 cycles). The order of all
limits is that of the code: the 5 s timers (4 units) end before the 30 s limits
(5 units) and after the default limit of 2 s (3 units), the bulb delay before the
limit of its state. Each retry counter is bounded by 1, which reaches both the
repetition and the giving up. The accumulator takes three steps to be full. One
pending request (`PENDING_MAX`) is what an alternating protocol can have. `SomeStrays`
are the two most harmful messages: a repeated CurrentDemandRes and undecodable data.
`LossyRequests` lets a request be lost (in `charging_strays` and `charging_link`),
`LateSdp` lets SDP responses arrive at any time (in `charging_link`); the proofs hold
for every set of strays and for both values of each switch.

`MCPairing` has two scales. The small one keeps the order of the limits with the
fewest cycles: the sequence from READY to SET_KEY (11 cycles) fits the local
modem's timer (12), the restart delay (4) and three rechecks fit SLAC's (18), the
waits (19) do not. The run `pairing_coop` uses units of five cycles
and keeps the ratios, because there the 5, 10 and 15 s of the timers compete with a
restart of 0, 7 or 10 s.

`Tcp` counts in units: an answer is one, a request one or, in `tcp_race`, one or two.
`SEQ_MOD` 4 tells behind, equal and ahead apart and makes the numbers wrap; a step beyond the
allowed number is one unit, so that no violation hides in the wrap. With one length of
request every state of the shared length occurs, as there is one request at a time and
acknowledgements have none; a request that overlaps the last one in part is only in
`tcp_race`. `EVSE_WINDOW` 1 is a charger that answers each request and then
repeats until it is acknowledged; 0, in `tcp_connects`, one that accepts connections and never
answers, so that every session fails. Two ports make the ports repeat at once, which is worse
than the code's 5001. `TcpAssumption` says of the constants what holds in the code with
room to spare: at least three numbers, at least two ports, a request shorter than half of the
numbers, a window of at most a quarter of them (2^32 numbers, requests of some hundred bytes,
and no TCP window exceeds 2^30). The timers (3) leave a connection two cycles.

`MaxLists` 3 in `exi_codec` bounds how many arrays hold items at a time over all types under
way; each type's own grammar is walked through completely, past the end of each of its
arrays. A type's behaviour does not depend on the types above it, so that paths of
three lists contain every pair of neighbours. The theorems about the codec hold for every
`MaxLists`, so that only `RequestsFit` and `RequestsGoOut` rest on this bound.

A reply is in flight or not; two copies of one reply are not told apart.
`SearchAssumption` is the code's order of two delays: the modem finder counts the replies
after 15 cycles, SLAC waits 30 between SET_KEY and its own count. The proof of
`PairedMeansAnswered` needs it, because both count in one variable.
`LateReplies` names the replies that may outlive the cycle, `FastReplies` allows
replies within a transmission, `Lossy` lets each be missing.

### Fairness

`WF(task30ms)`: `loop` runs for ever and calls the task whenever 30 ms have passed.
`Charging` needs no other fairness: the charger owes nothing. `Pairing` adds
`WF(Receive)`, as a frame that has arrived is evaluated by the receive task.
`Tcp`: both tasks go on, the link and the SDP client report, and the network and the charger
let a SYN, an answer in time and its reception succeed if they are tried for ever (strong
fairness of the three); without that no connection can come up. `ExiCodec` has safety only.
`PluggedInSpec` adds strong fairness of the link event, for the one property that
presumes that an adaptor is plugged in.

## 4. Proofs

All theorems hold for every value of the constants within the named assumptions
(`LayersAssumption`, `TimerAssumption`, `ChannelAssumption`, `PevAssumption`,
`ChargingAssumption`, `MofiAssumption`, `ModemsAssumption`, `SearchAssumption`,
`TcpAssumption`, `PairingAssumption`, `SdpAssumption`, `SlacAssumption`), which state the order of the code's limits.

- `ConnMgrProofs`: what the timers need, for all others.

- `ChargingProofs`: `TypeCorrect`, the type invariant of `Charging`, by one lemma for
  the state functions (`StateFunctionType`) and one for the steps.
- `SessionProofs`: `OutputsInv` is inductive. `RelayOnlyWhileCharging` alone is not: that
  the relay does not close in a call that leaves the charging loop depends on the
  accumulator and the time in the state being behind the bulb's delay until the bulb
  is lit (`BulbInv`), and that the relay is closed only in pilot C on where the pilot
  is in each state (`PilotInv`). From it follow `RelaySafety`, `RelayClosesSafely`
  and, with a lemma per state function, `Refinement`: every step is a step of
  `ChargeSession` or leaves phase, pilot and relay alone. `WaitsAreBounded`,
  `RelayHearsCharger` and `UnreadDataCurrent` have invariants of their own
  (`WithinLimit`; the timers against the level; the freshness of the slot).
- `ChargeSessionProofs`: `SessionSafety`, the relay property of the abstract session.
- `PairingProofs`: `PairingTypeCorrect`, `DelayStaysWithOwner` and `PairedIsAnswered`.
  The types alone are not inductive: the count of missing modems is in range only because
  FIND_MODEMS2 is always entered with 0 (`MissingIsReset`), also when the receive task
  comes between the transmission and the new state (`TransmitHolds`). The delay counter:
  while SDP uses it, SLAC is in INITIAL or not due (`SlacIdleUnlessDue`), and SDP waits
  only after it has taken the counter (`SdpOwnsDelay`). The count of modems: at each
  moment it is at most what is still in flight allows, and a reply of the charger's modem is
  among it only if that modem was there (`SearchCount`, `SlacCount`). The search and SLAC
  count in the same variable and are kept apart by time alone (`SearchBeforeMatch`). The theorem
  holds for replies of any age.
- `WaitProofs`: three races between a wait and a timer of the connection manager, each with an
  invariant that adds up what has passed and what is left. The hypotheses are orders of limits,
  and a promptness of the modems where the property needs it; the values in the `.cfg` files
  and those of the code satisfy them.
  - `RestartIsOutlived` (`SlacSeesThePairing`): with modems that answer in time over a link that
    stays up (`PromptWorld`, the world of `pairing_coop`), for every restart that the 15 s cover
    together with the rechecks (`RestartIsCovered`, 13.3 s; the comment in the code asks for 10).
    Timer and restart count down together; `Enough` says what must be left of the timer in each
    state: until the modems are up, room for a recheck that began just before and for another
    one; afterwards room for the check under way, and if it began too early for one more
    (`BothAnswer` tells the two apart by the replies in flight). The timer is one cycle behind
    between the connection manager's call and SLAC's (`Ahead`).
  - `SdpNeverGivesUp` (`SdpAsksToTheEnd`): for any losses, links and replies, if the tries take
    no less than 10 s (`TriesOutlastTheModems`). `SdpTime` adds the cycles since SDP began to what
    is left of the charger's modem's timer. Nobody reloads it meanwhile: a search begins at
    level 5, where SDP stops in the same cycle (`RemoteKnown`, `SearchEndsSdp`), and SLAC's own
    count ends before SDP begins.
  - `SlacIsEndedByTheLevel` (`SlacEndsWithTheLevel`): for any losses and links, if the limits are
    ordered (`WaitsAreLonger`) and the key and its confirmation come within a cycle
    (`KeyIsPrompt`). Two timers hold SLAC's level, and both may be reloaded within a wait, the
    local modem's by a search that began before SLAC and is over in the wait's first half second,
    SLAC's own by a confirmation that comes before the wait is counted (`WaitTime`, `KeyInTime`).
    The retries do not end SLAC because each begins with a reset counter (`MissingIsReset`).
- `TcpProofs`: `TcpTypeCorrect`, `StreamHasNoHole`, `AcksAreTrue`. It begins with what
  the modulus does to distances (`DistanceCounts`, `DistancesAdd`, `StreamMoves`), for any
  `SEQ_MOD`; then how the tasks exclude each other (`Control`, `Kind`), then the
  charger (`EvseInv`). `StreamInv` orders the numbers along the way they take: what is under way to the
  car acknowledges no less than the segment in its hands, this no less than `TcpSeqNr`, this
  no less than the number in a packet that is prepared but not sent, all less than half of the
  numbers behind. `AnswerInv` bounds how far the car's acknowledgements fall back: it takes
  answers in any order and acknowledges each, so that its number goes back by up to a
  window less one, and the bounds say so of `TcpAckNr`, the prepared packet, the segment in the
  receive task's hands and the one under way, each against each. TLC confirmed both with
  `EVSE_WINDOW` 1 on all states and 2 on 24 million. They rest on the network
  of the model, in which a segment is lost, repeated or late but does not overtake another.

- `ExiCodecProofs`: `CodecTypeCorrect`, `CodecKeepsInStep`, `CodecArraysFit`,
  `CodecFullAtTheLimit`, `CodecFlagsTellWhatCame` and `AnswerIsFresh`, for every `MaxLists`, every
  schema and every pair of codecs whose tables satisfy `TablesAgree`. That is a statement about
  constants only: at each pair of a place in a type and a `grammarID` that the function can have
  there (`Met`), the row has the width, the elements and the codings of the schema's choice, and
  each event leads to another such pair; each init function resets what the schema counts on.
  It is the one hypothesis beside the constants, and not taken on trust: TLC
  computes it for the tables of the code in `exi_codec`, as `AgreedBeforeUse`. What the proofs add
  is the step from single places to documents: types may be nested to any depth, cut
  off anywhere, and share memory with others. The invariant `CodecInv` says of every function
  under way that it stands at a pair in `Met` and that its arrays hold no more than was declared
  (`GoodStack`); the document's own frame is left out once the root has begun, as its place
  does not matter any more. `AnswerIsFresh` needs more (`ShownInv`): `shown` can tell of an
  earlier message only until the body is entered, and a message does not end before
  that (`BeforeBody`).

Only model-checked:

- all liveness: it rests on fairness, out of the prover's reach;
- `RequestsFit` and `RequestsGoOut`: sums of the codings along one request, which take the
  actual tables, too large for the prover;
- `TablesAgree` itself, for the same reason: a finite computation over the tables;
- the comments' claims, which are false.

## 5. Not modelled, and why

- The bits of EXI values and the two bit streams below the channel functions: reading
  and writing are compared by kind and width, not by content.
- The byte-level races on the receive slot and the load-store races on the timers.
- The numeric range of `combineValueAndMultiplier`, the failure counter of the Ethernet
  driver, and the time arithmetic of `loop`: listed as hazards, each with the reason.
- UDP/IP packing, neighbour advertisement, checksums: no state the properties are
  about.
- Display, LED, trace, serial port: output only.
- The relay test in `setup`, before the tasks start.

## 6. Plan

Done, in this order: `ConnMgr`, `TcpChannel`, `PevStateMachine`, `Charging`,
`ChargeSession` with all safety proved; `Modems`, `ModemFinder`, `Slac`, `Sdp`,
`Pairing`; `ExiEvents` to `ExiCodec`; `Tcp`; the proofs about `Pairing` and `Tcp`;
`ExiAgreement` and the proofs about `ExiCodec`; the waits of SLAC and SDP against the timers
(`WaitProofs`). All safety properties that hold are proved, but for those on sums over the
actual EXI tables (section 4).

Next:

1. `NumericHelpers`: `combineValueAndMultiplier` with its widths, and the checksum,
   against reference definitions; `BitStream`: the bit input and output streams below
   the EXI codec as inverses of each other at every bit position.
2. `EthDriver` (failure counter and restart), `Scheduler` (catching up, unsigned time).
3. `Ccs32`: both halves together, and that each half's replacement of the other is
   an abstraction of it; `Tcp` as an implementation of `TcpChannel`.
