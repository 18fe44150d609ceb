--------------------------- MODULE ExiCodecProofs ---------------------------
(***************************************************************************)
(* That the codec keeps in step with every document, if its tables agree   *)
(* with the schema place by place (TablesAgree, which TLC computes for the *)
(* tables of the code): for any depth of types under way and any number of *)
(* lists.                                                                  *)
(***************************************************************************)
EXTENDS ExiAgreement, SequenceTheorems, TLAPS

(***************************************************************************)
(* The invariant.                                                          *)
(***************************************************************************)
Names == STRING \cup {""}    \* the document has none
Frames ==
  [name : Names, type : DOMAIN Schema, place : Nat, grammarID : Int,
   count : UNION {[DOMAIN Arrays[t] -> Nat] : t \in DOMAIN Schema}, left : {{}}]

\* The tables that the task uses.
Tables == IF task = "encode" THEN Encoders ELSE Decoders

\* A frame stands at a place of its type, and has no more items than the struct has room for.
GoodFrame(f) ==
  /\ f \in Frames
  /\ f.place \in DOMAIN Schema[f.type]
  /\ f.count \in [DOMAIN Arrays[f.type] -> Nat]
  /\ \A a \in DOMAIN Arrays[f.type] : f.count[a] <= Arrays[f.type][a]
InPlace(f, tables) == <<f.place, f.grammarID>> \in Met(f.type, tables[f.type])

\* The document is the first frame and only that; its place is of interest only up to the root.
GoodStack(s, tables) ==
  /\ s \in Seq(Frames)
  /\ \A i \in 1..Len(s) :
       /\ GoodFrame(s[i])
       /\ i = 1 <=> s[i].type \in Documents
       /\ i > 1 \/ Len(s) = 1 => InPlace(s[i], tables)

\* All results but one.
Results == {"none", "header", "full", "wildcard", "value", "eof", "stuck"}
TaskInv ==
  /\ task \in {"idle", "decode", "encode"}
  /\ errn \in Results
  /\ shown \subseteq {"current", "old"}
  /\ request \in RequestNames \cup {Anything}
  /\ bitsOut \in Nat
  /\ task = "idle" <=> stack = <<>>
HereInv == here = IF stack = <<>> THEN Nowhere ELSE Lookup(Top, Tables)
CodecInv == TaskInv /\ GoodStack(stack, Tables) /\ HereInv

(***************************************************************************)
(* Sequences of frames.                                                    *)
(***************************************************************************)
\* What remains without the last element.
LEMMA CallersSeq ==
  ASSUME NEW S, NEW s \in Seq(S), s # <<>>
  PROVE  LET r == SubSeq(s, 1, Len(s) - 1)
         IN  /\ Len(s) \in Nat \ {0}
             /\ r \in Seq(S) /\ Len(r) = Len(s) - 1
             /\ \A i \in 1..(Len(s) - 1) : r[i] = s[i]
<1>1. Len(s) \in Nat \ {0}
  OBVIOUS
<1>2. \A i \in 1..(Len(s) - 1) : s[i] \in S
  BY <1>1
<1> DEFINE n == Len(s) - 1
<1>3. n \in Int /\ 1 \in Int /\ n \in Nat
  BY <1>1
<1>4. \A i \in 1..n : s[i] \in S
  BY <1>2
<1> HIDE DEF n
<1>5. /\ SubSeq(s, 1, n) \in Seq(S)
      /\ Len(SubSeq(s, 1, n)) = n
      /\ \A i \in 1..n : SubSeq(s, 1, n)[i] = s[i]
  BY <1>3, <1>4, SubSeqProperties, SMTT(20)
<1> QED
  BY <1>1, <1>5 DEF n

\* The frame on top goes on.
LEMMA Replaced ==
  ASSUME NEW tables, NEW s, GoodStack(s, tables), s # <<>>,
         NEW f, GoodFrame(f), f.type = s[Len(s)].type, Len(s) > 1, InPlace(f, tables)
  PROVE  /\ GoodStack(Append(SubSeq(s, 1, Len(s) - 1), f), tables)
         /\ Append(SubSeq(s, 1, Len(s) - 1), f) # <<>>
<1> DEFINE r == SubSeq(s, 1, Len(s) - 1)
           n == Append(r, f)
<1>1. s \in Seq(Frames) /\ f \in Frames
  BY DEF GoodStack, GoodFrame
<1>2. /\ Len(s) \in Nat \ {0} /\ r \in Seq(Frames) /\ Len(r) = Len(s) - 1
      /\ \A i \in 1..(Len(s) - 1) : r[i] = s[i]
  BY <1>1, CallersSeq
<1> HIDE DEF r
<1>3. /\ n \in Seq(Frames) /\ Len(n) = Len(s)
      /\ \A i \in 1..(Len(s) - 1) : n[i] = s[i]
      /\ n[Len(s)] = f
  BY <1>1, <1>2
<1> HIDE DEF n
<1>4. ASSUME NEW i \in 1..Len(s)
      PROVE  /\ GoodFrame(n[i]) /\ (i = 1 <=> n[i].type \in Documents)
             /\ i > 1 => InPlace(n[i], tables)
  <2>1. CASE i < Len(s)
    <3>1. n[i] = s[i] /\ i \in 1..(Len(s) - 1)
      BY <1>2, <1>3, <2>1
    <3> QED
      BY <3>1 DEF GoodStack
  <2>2. CASE i = Len(s)
    BY <1>2, <1>3, <2>2 DEF GoodStack
  <2> QED
    BY <1>2, <2>1, <2>2
<1>5. n # <<>> /\ GoodStack(n, tables)
  BY <1>2, <1>3, <1>4 DEF GoodStack
<1> QED
  BY <1>5 DEF n, r

\* A type is entered.
LEMMA Pushed ==
  ASSUME NEW tables, NEW s, GoodStack(s, tables), s # <<>>,
         NEW f, GoodFrame(f), f.type = s[Len(s)].type, Len(s) > 1 => InPlace(f, tables),
         NEW g, GoodFrame(g), g.type \notin Documents, InPlace(g, tables)
  PROVE  /\ GoodStack(SubSeq(s, 1, Len(s) - 1) \o <<f, g>>, tables)
         /\ SubSeq(s, 1, Len(s) - 1) \o <<f, g>> # <<>>
<1> DEFINE r == SubSeq(s, 1, Len(s) - 1)
           n == r \o <<f, g>>
<1>1. s \in Seq(Frames) /\ f \in Frames /\ g \in Frames
  BY DEF GoodStack, GoodFrame
<1>2. /\ Len(s) \in Nat \ {0} /\ r \in Seq(Frames) /\ Len(r) = Len(s) - 1
      /\ \A i \in 1..(Len(s) - 1) : r[i] = s[i]
  BY <1>1, CallersSeq
<1> HIDE DEF r
<1>3. /\ n \in Seq(Frames) /\ Len(n) = Len(s) + 1
      /\ \A i \in 1..(Len(s) - 1) : n[i] = s[i]
      /\ n[Len(s)] = f /\ n[Len(s) + 1] = g
  BY <1>1, <1>2
<1> HIDE DEF n
<1>4. ASSUME NEW i \in 1..(Len(s) + 1)
      PROVE  /\ GoodFrame(n[i]) /\ (i = 1 <=> n[i].type \in Documents)
             /\ i > 1 => InPlace(n[i], tables)
  <2>1. CASE i < Len(s)
    <3>1. n[i] = s[i] /\ i \in 1..(Len(s) - 1)
      BY <1>2, <1>3, <2>1
    <3> QED
      BY <3>1 DEF GoodStack
  <2>2. CASE i = Len(s)
    BY <1>2, <1>3, <2>2 DEF GoodStack
  <2>3. CASE i = Len(s) + 1
    BY <1>2, <1>3, <2>3
  <2> QED
    BY <1>2, <2>1, <2>2, <2>3
<1>5. n # <<>> /\ GoodStack(n, tables)
  BY <1>2, <1>3, <1>4 DEF GoodStack
<1> QED
  BY <1>5 DEF n, r

\* A type is left.
LEMMA Popped ==
  ASSUME NEW tables, NEW s, GoodStack(s, tables), Len(s) > 2
  PROVE  /\ GoodStack(SubSeq(s, 1, Len(s) - 1), tables)
         /\ SubSeq(s, 1, Len(s) - 1) # <<>>
<1> DEFINE r == SubSeq(s, 1, Len(s) - 1)
<1>1. s \in Seq(Frames) /\ s # <<>>
  BY DEF GoodStack
<1>2. /\ Len(s) \in Nat \ {0} /\ r \in Seq(Frames) /\ Len(r) = Len(s) - 1
      /\ \A i \in 1..(Len(s) - 1) : r[i] = s[i]
  BY <1>1, CallersSeq
<1> HIDE DEF r
<1>3. ASSUME NEW i \in 1..(Len(s) - 1)
      PROVE  /\ GoodFrame(r[i]) /\ (i = 1 <=> r[i].type \in Documents)
             /\ i > 1 => InPlace(r[i], tables)
  BY <1>2 DEF GoodStack
<1>4. r # <<>> /\ Len(r) > 1
  BY <1>2
<1>5. GoodStack(r, tables)
  BY <1>2, <1>3, <1>4 DEF GoodStack
<1> QED
  BY <1>4, <1>5 DEF r

(***************************************************************************)
(* What the tables say of a place that is reached.                         *)
(***************************************************************************)
\* A function always executes a row of its table or the default.
LEMMA RowOfType ==
  ASSUME NEW table \in Seq(TableRows), NEW grammarID
  PROVE  RowOf(table, grammarID) \in TableRows
<1>1. Default \in TableRows
  BY DEF Default, Row, TableRows
<1>2. CASE \E i \in DOMAIN table : table[i].id = grammarID
  <2> DEFINE i == CHOOSE i \in DOMAIN table : table[i].id = grammarID
  <2>1. i \in DOMAIN table
    BY <1>2
  <2>2. table[i] \in TableRows
    BY <2>1
  <2> QED
    BY <1>2, <2>2 DEF RowOf
<1> QED
  BY <1>1, <1>2 DEF RowOf

\* What TablesAgree says of one type.
LEMMA TypeAgrees ==
  ASSUME TablesAgree, NEW t \in DOMAIN Schema, NEW tables \in {Decoders, Encoders}
  PROVE  /\ Agreement(t, tables[t], Met(t, tables[t]))
         /\ Schema[t] \in Seq(Seq(Events))
         /\ \A place \in DOMAIN Schema[t] : GoodChoice(t, Schema[t][place])
  BY DEF TablesAgree, GoodSchema

\* At its place a function has a row, the row agrees with what the schema offers, and every event
\* leads to another such place.
LEMMA PlaceAgrees ==
  ASSUME TablesAgree, NEW tables \in {Decoders, Encoders},
         NEW f, GoodFrame(f), InPlace(f, tables),
         NEW l, l = Lookup(f, tables)
  PROVE  /\ l.offered \in Seq(Events) /\ l.row \in TableRows /\ l.row.id = f.grammarID
         /\ SameChoice(l.row, l.offered) /\ GoodChoice(f.type, l.offered)
         /\ \A n \in DOMAIN l.offered :
              IF f.type \in Documents THEN l.offered[n].kind # "end"
              ELSE GoesOn(l.offered[n])
                     => <<l.offered[n].to, l.row.events[n].to>> \in Met(f.type, tables[f.type])
<1> DEFINE t == f.type
           table == tables[t]
           at == <<f.place, f.grammarID>>
           met == Met(t, table)
<1>1. t \in DOMAIN Schema /\ f.place \in DOMAIN Schema[t]
  BY DEF GoodFrame, Frames
<1>2. Agreement(t, table, met) /\ Schema[t] \in Seq(Seq(Events))
      /\ GoodChoice(t, Schema[t][f.place])
  BY <1>1, TypeAgrees
<1>3. /\ l.offered = Schema[t][f.place] /\ l.row = RowOf(table, f.grammarID)
  BY DEF Lookup
<1>4. at \in met /\ at[1] = f.place /\ at[2] = f.grammarID
  BY DEF InPlace
<1> HIDE DEF at
<1>5. /\ table \in Seq(TableRows) /\ l.row.id = f.grammarID
      /\ SameChoice(l.row, l.offered)
      /\ t \notin Documents => After(Schema[t], table, at) \subseteq met
  BY <1>2, <1>3, <1>4 DEF Agreement
<1>6. l.offered \in Seq(Events)
  BY <1>1, <1>2, <1>3
<1>7. l.row \in TableRows
  BY <1>3, <1>5, RowOfType
<1>8. ASSUME NEW n \in DOMAIN l.offered, t \notin Documents, GoesOn(l.offered[n])
      PROVE  <<l.offered[n].to, l.row.events[n].to>> \in met
  <2>1. n \in DOMAIN l.row.events
    BY <1>5, <1>8 DEF SameChoice
  <2>2. <<l.offered[n].to, l.row.events[n].to>> \in After(Schema[t], table, at)
    BY <1>3, <1>4, <1>8, <2>1 DEF After
  <2> QED
    BY <1>5, <1>8, <2>2
<1>9. ASSUME NEW n \in DOMAIN l.offered, t \in Documents
      PROVE  l.offered[n].kind # "end"
  <2>1. at = Start(table)
    BY <1>4, <1>9 DEF Met
  <2>2. f.place = 1
    BY <1>4, <2>1 DEF Start
  <2> QED
    BY <1>3, <1>9, <2>2 DEF TablesAgree, GoodSchema
<1> QED
  BY <1>2, <1>3, <1>5, <1>6, <1>7, <1>8, <1>9

(***************************************************************************)
(* Frames.                                                                 *)
(***************************************************************************)
\* The arrays of a struct have a size.
LEMMA ArraySizes ==
  ASSUME TablesAgree, NEW t \in DOMAIN Schema, NEW a \in DOMAIN Arrays[t]
  PROVE  Arrays[t][a] \in Nat \ {0}
<1> DEFINE events == EventsIn(Schema[t])
           e == CHOOSE e \in events : e.name = a /\ e.size > 0
<1>1. events \subseteq Events
  <2>1. Schema[t] \in Seq(Seq(Events))
    BY TypeAgrees
  <2>2. \A i \in DOMAIN Schema[t] : \A j \in DOMAIN Schema[t][i] : Schema[t][i][j] \in Events
    BY <2>1
  <2> QED
    BY <2>2 DEF EventsIn
<1> HIDE DEF events
<1>2. Arrays[t] = ArraysIn(events)
  BY DEF Arrays, events
<1>3. PICK x \in events : x.name = a /\ x.size > 0
  BY <1>2 DEF ArraysIn
<1>4. e \in events /\ e.size > 0
  BY <1>3
<1>5. e.size \in Nat
  BY <1>1, <1>4 DEF Events
<1>6. Arrays[t][a] = e.size
  BY <1>2 DEF ArraysIn
<1> QED
  BY <1>4, <1>5, <1>6

\* A function that is called begins in place.
LEMMA NewFrame ==
  ASSUME TablesAgree, NEW tables \in {Decoders, Encoders}, NEW name \in Names,
         NEW t \in DOMAIN Schema, NEW f, f = Frame(name, t, tables[t], {})
  PROVE  GoodFrame(f) /\ InPlace(f, tables) /\ f.type = t
<1> DEFINE table == tables[t]
           met == Met(t, table)
<1>1. /\ table \in Seq(TableRows) /\ table # <<>>
      /\ Start(table) \in met
      /\ Start(table)[1] \in DOMAIN Schema[t]
  BY TypeAgrees DEF Agreement
<1>2. 1 \in DOMAIN Schema[t] /\ <<1, table[1].id>> \in met
  BY <1>1 DEF Start
<1>3. table[1].id \in Int
  <2>1. table[1] \in TableRows
    BY <1>1
  <2> QED
    BY <2>1 DEF TableRows
<1> HIDE DEF table
<1>4. f = [name |-> name, type |-> t, place |-> 1, grammarID |-> table[1].id,
           count |-> [a \in DOMAIN Arrays[t] |-> 0], left |-> {}]
  BY DEF Frame, table
<1>5. [a \in DOMAIN Arrays[t] |-> 0] \in [DOMAIN Arrays[t] -> Nat]
  OBVIOUS
<1>6. f \in Frames
  BY <1>3, <1>4, <1>5 DEF Frames
<1>7. \A a \in DOMAIN Arrays[t] : f.count[a] <= Arrays[t][a]
  BY <1>4, ArraySizes
<1> QED
  BY <1>2, <1>4, <1>5, <1>6, <1>7 DEF GoodFrame, InPlace, table

\* The document and the function under way.
LEMMA TopAgrees ==
  ASSUME TablesAgree, CodecInv, stack # <<>>
  PROVE  /\ GoodFrame(Top) /\ InPlace(Top, Tables)
         /\ Len(stack) \in Nat \ {0} /\ (Len(stack) = 1 <=> Top.type \in Documents)
         /\ Offered \in Seq(Events) /\ Current \in TableRows /\ Current.id = Top.grammarID
         /\ SameChoice(Current, Offered) /\ GoodChoice(Top.type, Offered)
         /\ \A n \in DOMAIN Offered :
              IF Top.type \in Documents THEN Offered[n].kind # "end"
              ELSE GoesOn(Offered[n])
                     => <<Offered[n].to, Current.events[n].to>> \in Met(Top.type, Tables[Top.type])
<1>1. stack \in Seq(Frames) /\ Len(stack) \in Nat \ {0} /\ Len(stack) \in 1..Len(stack)
  BY DEF CodecInv, GoodStack
<1>2. /\ GoodFrame(Top) /\ InPlace(Top, Tables)
      /\ Len(stack) = 1 <=> Top.type \in Documents
  <2>1. \A i \in 1..Len(stack) :
           /\ GoodFrame(stack[i])
           /\ i = 1 <=> stack[i].type \in Documents
           /\ i > 1 \/ Len(stack) = 1 => InPlace(stack[i], Tables)
    BY DEF CodecInv, GoodStack
  <2> DEFINE n == Len(stack)
  <2>2. n \in 1..n /\ n \in Nat /\ (n > 1 \/ n = 1)
    BY <1>1
  <2> HIDE DEF n
  <2>3. /\ GoodFrame(stack[n])
        /\ n = 1 <=> stack[n].type \in Documents
        /\ InPlace(stack[n], Tables)
    BY <2>1, <2>2 DEF n
  <2> QED
    BY <2>3 DEF Top, n
<1>3. here = Lookup(Top, Tables) /\ Tables \in {Decoders, Encoders}
  BY DEF CodecInv, HereInv, Tables
<1> QED
  BY <1>1, <1>2, <1>3, PlaceAgrees DEF Offered, Current

\* What is below the document is another type.
LEMMA BelowDocument ==
  ASSUME TablesAgree, CodecInv, stack # <<>>
  PROVE  /\ Len(stack) > 1 <=> Top.type \notin Documents
         /\ Len(stack) > 1 <=> ~InDocument
         /\ Len(stack) > 2 <=> (Top.type \notin Documents /\ Len(stack) # 2)
<1> DEFINE n == Len(stack)
           isDocument == Top.type \in Documents
<1>1. n \in Nat \ {0} /\ (n = 1 <=> isDocument)
  BY TopAgrees, Zenon
<1> HIDE DEF n, isDocument
<1>2. /\ n > 1 <=> ~isDocument
      /\ n > 1 <=> ~(n = 1)
      /\ n > 2 <=> (~isDocument /\ n # 2)
  BY <1>1
<1> QED
  BY <1>2, Zenon DEF n, isDocument, InDocument

\* After an event that goes on, the function is in place again, and no array holds too much.
LEMMA PastIsGood ==
  ASSUME TablesAgree, CodecInv, stack # <<>>,
         NEW n \in DOMAIN Offered, GoesOn(Offered[n]),
         Offered[n].size > 0 => Top.count[Offered[n].name] < Offered[n].size,
         NEW f, f = Past(Current.events[n], Offered[n])
  PROVE  GoodFrame(f) /\ f.type = Top.type /\ (Len(stack) > 1 => InPlace(f, Tables))
<1> DEFINE o == Offered[n]
           e == Current.events[n]
           t == Top.type
           c == Top.count
           more == Counted(o)
<1>1. o \in Events /\ e \in Events /\ e.flag = o.flag
  BY TopAgrees DEF SameChoice, SameEvent, TableRows
<1>2. /\ Top \in Frames /\ t \in DOMAIN Schema
      /\ c \in [DOMAIN Arrays[t] -> Nat]
      /\ \A a \in DOMAIN Arrays[t] : c[a] <= Arrays[t][a]
  BY TopAgrees DEF GoodFrame, Frames
<1>3. o.to \in DOMAIN Schema[t] /\ FitsStruct(t, o)
  BY TopAgrees DEF GoodChoice
<1>4. /\ more \in [DOMAIN Arrays[t] -> Nat]
      /\ \A a \in DOMAIN Arrays[t] : more[a] <= Arrays[t][a]
  <2>1. CASE o.name \in DOMAIN Arrays[t]
    <3>1. c[o.name] < Arrays[t][o.name] /\ Arrays[t][o.name] \in Nat
      BY <1>2, <1>3, <2>1, ArraySizes DEF FitsStruct
    <3> QED
      BY <1>2, <2>1, <3>1 DEF Counted
  <2>2. CASE o.name \notin DOMAIN Arrays[t]
    BY <1>2, <2>2 DEF Counted
  <2> QED
    BY <2>1, <2>2
<1> HIDE DEF o, e, t, more
<1>5. /\ f.place = o.to /\ f.grammarID = e.to /\ f.type = t /\ f.count = more
      /\ f \in Frames
  <2>1. o.to \in Nat /\ e.to \in Int /\ o.flag \in BOOLEAN
    BY <1>1 DEF Events
  <2>2. f = [Top EXCEPT !.place = o.to, !.grammarID = e.to, !.count = more, !.left = {}]
    <3> DEFINE left == IF ~o.flag \/ task = "encode" THEN Top.left
                       ELSE IF e.flag THEN Top.left \ {o.name} ELSE Top.left \cup {o.name}
    <3>1. f = [Top EXCEPT !.place = o.to, !.grammarID = e.to, !.count = more, !.left = left]
      BY DEF Past, o, e, more
    <3>2. left = {}
      BY <1>1, <1>2 DEF Frames
    <3> HIDE DEF left
    <3> QED
      BY <3>1, <3>2
  <2>3. more \in UNION {[DOMAIN Arrays[u] -> Nat] : u \in DOMAIN Schema}
    BY <1>2, <1>4 DEF t
  <2> QED
    BY <1>2, <2>1, <2>2, <2>3 DEF Frames, t
<1>6. GoodFrame(f)
  BY <1>3, <1>4, <1>5 DEF GoodFrame
<1>7. ASSUME Len(stack) > 1
      PROVE  InPlace(f, Tables)
  <2>1. Top.type \notin Documents
    BY <1>7, BelowDocument
  <2>2. <<o.to, e.to>> \in Met(t, Tables[t])
    BY <2>1, TopAgrees DEF o, e, t
  <2> QED
    BY <1>5, <2>2 DEF InPlace
<1> QED
  BY <1>5, <1>6, <1>7 DEF t

(***************************************************************************)
(* The codec takes the event that comes.                                   *)
(***************************************************************************)
\* The decoder understands each code as it is meant.
LEMMA ReadsRight ==
  ASSUME TablesAgree, CodecInv, stack # <<>>, NEW n \in DOMAIN Offered
  PROVE  Agree(n, n)
  BY TopAgrees DEF Agree, SameChoice, SameEvent

\* The encoder writes the code of what comes next in the struct,
LEMMA WritesRight ==
  ASSUME TablesAgree, CodecInv, stack # <<>>, NEW n \in Contents
  PROVE  n \in Written(n) /\ Agree(n, n)
<1>1. n \in DOMAIN Offered /\ MayCome(Offered[n])
      /\ \A j \in 1..(n - 1) :
           MustCome(Offered[j]) => Offered[j].kind = "end" /\ Offered[n].kind = "text"
  BY DEF Contents, Sent
<1>2. /\ Offered \in Seq(Events) /\ DOMAIN Current.events = DOMAIN Offered
      /\ \A j \in DOMAIN Offered : SameEvent(Current.events[j], Offered[j])
      /\ GoodChoice(Top.type, Offered)
  BY TopAgrees DEF SameChoice
<1>3. n \in Nat \ {0} /\ \A j \in 1..(n - 1) : j \in DOMAIN Offered /\ j < n
  BY <1>1, <1>2
<1>4. Holds(Current.events[n], n)
  <2>1. SameEvent(Current.events[n], Offered[n]) /\ Offered[n].kind # "wild" /\ n # 0
    BY <1>1, <1>2, <1>3 DEF MayCome
  <2>2. CASE Offered[n].kind = "end"
    BY <2>1, <2>2 DEF Holds, SameEvent
  <2>3. CASE Offered[n].kind # "end"
    BY <2>1, <2>3 DEF Holds, SameEvent
  <2> QED
    BY <2>2, <2>3
<1>5. ASSUME NEW j \in 1..(n - 1), Holds(Current.events[j], n)
      PROVE  FALSE
  <2> DEFINE e == Current.events[j]
             o == Offered[j]
  <2>1. j \in DOMAIN Offered /\ j < n
    BY <1>3
  <2>2. /\ e.kind = o.kind /\ e.name = o.name /\ (Optional(e) <=> Optional(o))
        /\ o.kind \in {"end", "wild"} => ~Optional(o)
        /\ Optional(o) => o.name # Offered[n].name
    BY <1>1, <1>2, <2>1 DEF SameEvent, GoodChoice, GoesOn, Optional
  <2>3. MustCome(o) => o.kind = "end" /\ Offered[n].kind = "text"
    BY <1>1
  <2>4. n # 0
    BY <1>3
  <2> HIDE DEF e, o
  <2>5. Holds(e, n)
    BY <1>5 DEF e
  <2>6. CASE e.kind = "wild"
    BY <2>2, <2>5, <2>6 DEF Holds
  <2>7. CASE e.kind = "end"
    <3>1. MustCome(o)
      BY <2>2, <2>7 DEF MustCome
    <3>2. Offered[n].kind = "text"
      BY <2>3, <3>1
    <3> QED
      BY <2>2, <2>4, <2>5, <2>7, <3>2 DEF Holds
  <2>8. CASE e.kind \notin {"wild", "end"} /\ Optional(e)
    <3>1. Offered[n].name = e.name
      BY <2>5, <2>8 DEF Holds
    <3> QED
      BY <2>2, <2>8, <3>1
  <2>9. CASE e.kind \notin {"wild", "end"} /\ ~Optional(e)
    <3>1. MustCome(o)
      BY <2>2, <2>9 DEF MustCome
    <3> QED
      BY <2>2, <2>3, <2>9, <3>1
  <2> QED
    BY <2>6, <2>7, <2>8, <2>9
<1>6. n \in Written(n)
  BY <1>1, <1>2, <1>4, <1>5 DEF Written
<1> QED
  BY <1>1, <1>6, ReadsRight

\* and where nothing of what has to come is in the struct, it writes nothing.
LEMMA StuckWritesNothing ==
  ASSUME TablesAgree, CodecInv, stack # <<>>, Incomplete
  PROVE  Written(0) = {}
<1> SUFFICES ASSUME NEW k \in DOMAIN Current.events, Holds(Current.events[k], 0)
             PROVE  FALSE
  BY DEF Written
<1> DEFINE e == Current.events[k]
           o == Offered[k]
<1>1. k \in DOMAIN Offered /\ SameEvent(e, o) /\ GoodChoice(Top.type, Offered)
  BY TopAgrees DEF SameChoice
<1>2. /\ e.kind = o.kind /\ (Optional(e) <=> Optional(o))
      /\ o.kind \in {"end", "wild"} => ~Optional(o)
  BY <1>1 DEF SameEvent, GoodChoice, GoesOn, Optional
<1>3. ~MustCome(o)
  BY <1>1 DEF Incomplete
<1> HIDE DEF e, o
<1>4. Holds(e, 0)
  BY DEF e
<1>5. CASE e.kind = "wild"
  BY <1>2, <1>4, <1>5 DEF Holds
<1>6. CASE e.kind = "end"
  BY <1>2, <1>3, <1>6 DEF MustCome
<1>7. CASE e.kind \notin {"wild", "end"} /\ Optional(e)
  BY <1>4, <1>7 DEF Holds
<1>8. CASE e.kind \notin {"wild", "end"} /\ ~Optional(e)
  BY <1>2, <1>3, <1>8 DEF MustCome
<1> QED
  BY <1>5, <1>6, <1>7, <1>8

(***************************************************************************)
(* The stack after an event.                                               *)
(***************************************************************************)
\* The codec returns, with a result that is not "lost".
LEMMA ReturnKeeps ==
  ASSUME CodecInv, NEW result \in Results, Return(result),
         shown' \subseteq {"current", "old"}, bitsOut' \in Nat
  PROVE  CodecInv'
<1>1. /\ task' = "idle" /\ stack' = <<>> /\ here' = Nowhere
      /\ errn' = result /\ request' = Anything
  BY DEF Return
<1>2. TaskInv'
  BY <1>1 DEF TaskInv
<1>3. HereInv'
  BY <1>1 DEF HereInv
<1>4. GoodStack(<<>>, Tables')
  BY DEF GoodStack
<1>5. GoodStack(stack', Tables')
  BY <1>1, <1>4
<1> QED
  BY <1>2, <1>3, <1>5 DEF CodecInv

\* The codec goes on with another stack.
LEMMA GoesOnKeeps ==
  ASSUME CodecInv, NEW s, stack' = s, s # <<>>, task # "idle", GoodStack(s, Tables),
         UNCHANGED <<task, errn, request>>, Look(Tables),
         shown' \subseteq {"current", "old"}, bitsOut' \in Nat
  PROVE  CodecInv'
<1>1. Tables' = Tables
  BY DEF Tables
<1>2. TaskInv'
  BY DEF TaskInv, CodecInv
<1>3. HereInv'
  <2>1. stack' # <<>> /\ here' = Lookup(stack'[Len(stack')], Tables)
    BY DEF Look
  <2>2. Lookup(Top, Tables)' = Lookup(stack'[Len(stack')], Tables)
    BY <1>1 DEF Lookup, Top
  <2> QED
    BY <2>1, <2>2 DEF HereInv
<1>4. GoodStack(stack', Tables')
  BY <1>1
<1> QED
  BY <1>2, <1>3, <1>4 DEF CodecInv

\* An event keeps the invariant: a type is entered, a value is taken, or the type ends.
LEMMA EventKeeps ==
  ASSUME TablesAgree, CodecInv, task # "idle", NEW n \in DOMAIN Offered, Offered[n].kind # "wild",
         Offered[n].size > 0 => Top.count[Offered[n].name] < Offered[n].size,
         NEW e, e = Current.events[n], NEW frame,
         e.value.coding = "struct" =>
           frame = Frame(e.name, e.value.struct, Tables[e.value.struct], {}),
         \/ Enter(e, Offered[n], frame)
         \/ Take(e, Offered[n])
         \/ Leave(e),
         Look(Tables),
         shown' \subseteq {"current", "old"}, bitsOut' \in Nat
  PROVE  CodecInv'
<1> DEFINE o == Offered[n]
           past == Past(e, o)
<1>1. stack # <<>> /\ GoodStack(stack, Tables) /\ Tables \in {Decoders, Encoders}
  BY DEF CodecInv, TaskInv, Tables
<1>2. /\ o \in Events /\ SameEvent(e, o) /\ GoodChoice(Top.type, Offered)
      /\ Len(stack) \in Nat \ {0}
  BY <1>1, TopAgrees DEF SameChoice
<1>3. ASSUME e.kind # "end"
      PROVE  GoodFrame(past) /\ past.type = Top.type /\ (Len(stack) > 1 => InPlace(past, Tables))
  <2>1. GoesOn(o)
    BY <1>2, <1>3 DEF GoesOn, SameEvent
  <2> QED
    BY <1>1, <2>1, PastIsGood
<1>4. Top = stack[Len(stack)] /\ Callers = SubSeq(stack, 1, Len(stack) - 1)
  BY DEF Top, Callers
<1> HIDE DEF past
<1>5. CASE Enter(e, o, frame)
  <2>1. /\ e.value.coding = "struct"
        /\ stack' = Callers \o <<past, frame>> /\ UNCHANGED <<task, errn, request>>
    BY <1>5 DEF Enter, past
  <2>2. e.value.struct \in DOMAIN Schema \ Documents /\ e.name \in STRING
    BY <1>2, <2>1 DEF SameEvent, GoodChoice, Events
  <2>3. GoodFrame(frame) /\ InPlace(frame, Tables) /\ frame.type \notin Documents
    <3> DEFINE name == e.name
               t == e.value.struct
               tables == Tables
    <3>1. frame = Frame(name, t, tables[t], {})
      BY <2>1
    <3>2. /\ t \in DOMAIN Schema /\ t \notin Documents
          /\ name \in Names /\ tables \in {Decoders, Encoders}
      BY <1>1, <2>2 DEF Names
    <3> HIDE DEF name, t, tables
    <3>3. GoodFrame(frame) /\ InPlace(frame, tables) /\ frame.type = t
      BY <3>1, <3>2, NewFrame
    <3> QED
      BY <3>2, <3>3 DEF tables
  <2>4. e.kind # "end"
    BY <1>2, <2>1 DEF SameEvent, GoodChoice, GoesOn
  <2>5. GoodStack(Callers \o <<past, frame>>, Tables) /\ Callers \o <<past, frame>> # <<>>
    BY <1>1, <1>3, <1>4, <2>3, <2>4, Pushed
  <2> QED
    BY <2>1, <2>5, GoesOnKeeps
<1>6. CASE Take(e, o)
  <2>1. CASE InDocument
    <3>1. Return("none")
      BY <1>6, <2>1 DEF Take
    <3> QED
      BY <3>1, ReturnKeeps DEF Results
  <2>2. CASE ~InDocument
    <3>1. e.kind # "end" /\ stack' = Append(Callers, past) /\ UNCHANGED <<task, errn, request>>
      BY <1>6, <2>2 DEF Take, past
    <3>2. Len(stack) > 1
      BY <1>1, <2>2, BelowDocument, Zenon
    <3>3. GoodStack(Append(Callers, past), Tables) /\ Append(Callers, past) # <<>>
      BY <1>1, <1>3, <1>4, <3>1, <3>2, Replaced
    <3> QED
      BY <3>1, <3>3, GoesOnKeeps
  <2> QED
    BY <2>1, <2>2
<1>7. CASE Leave(e)
  <2>1. CASE Len(stack) = 2
    <3>1. Return("none")
      BY <1>7, <2>1 DEF Leave
    <3> QED
      BY <3>1, ReturnKeeps DEF Results
  <2>2. CASE Len(stack) # 2
    <3>1. e.kind = "end" /\ stack' = Callers /\ UNCHANGED <<task, errn, request>>
      BY <1>7, <2>2 DEF Leave
    <3>2. Top.type \notin Documents
      BY <1>1, <1>2, <3>1, TopAgrees DEF SameEvent
    <3>3. Len(stack) > 2
      BY <1>1, <2>2, <3>2, BelowDocument, Zenon
    <3>4. GoodStack(Callers, Tables) /\ Callers # <<>>
      BY <1>1, <1>4, <3>3, Popped
    <3> QED
      BY <3>1, <3>4, GoesOnKeeps
  <2> QED
    BY <2>1, <2>2
<1> QED
  BY <1>5, <1>6, <1>7

(***************************************************************************)
(* The steps.                                                              *)
(***************************************************************************)
\* A document begins in place.
LEMMA NewStack ==
  ASSUME TablesAgree, NEW tables \in {Decoders, Encoders}, NEW d \in Documents
  PROVE  GoodStack(<<Frame("", d, tables[d], {})>>, tables)
<1> DEFINE f == Frame("", d, tables[d], {})
           s == <<f>>
<1>1. d \in DOMAIN Schema /\ "" \in Names
  BY DEF TablesAgree, GoodSchema, Names
<1>2. GoodFrame(f) /\ InPlace(f, tables) /\ f.type = d
  BY <1>1, NewFrame, Zenon
<1>3. f \in Frames
  BY <1>2 DEF GoodFrame
<1> HIDE DEF f
<1>4. s \in Seq(Frames) /\ Len(s) = 1 /\ s[1] = f
  BY <1>3
<1> HIDE DEF s
<1>5. \A i \in 1..Len(s) : i = 1
  BY <1>4
<1>6. GoodStack(s, tables)
  BY <1>2, <1>4, <1>5 DEF GoodStack
<1> QED
  BY <1>6 DEF s, f

\* The codec is called for a document.
LEMMA StartKeeps ==
  ASSUME TablesAgree, CodecInv, NEW d \in Documents,
         \/ task' = "decode" /\ stack' = <<Decoding("", d)>> /\ Look(Decoders) /\ UNCHANGED request
         \/ /\ task' = "encode" /\ stack' = <<Encoding("", d)>> /\ Look(Encoders)
            /\ request' \in RequestNames \cup {Anything},
         UNCHANGED errn, shown' \subseteq {"current", "old"}, bitsOut' \in Nat
  PROVE  CodecInv'
<1> DEFINE tables == Tables'
           frame == Frame("", d, tables[d], {})
<1>1. d \in DOMAIN Schema /\ Options[d] \ Cleared(d) = {}
  BY DEF TablesAgree, GoodSchema
<1>2. /\ tables \in {Decoders, Encoders} /\ stack' = <<frame>> /\ Look(tables)
      /\ task' \in {"decode", "encode"} /\ request' \in RequestNames \cup {Anything}
  <2>1. request \in RequestNames \cup {Anything}
    BY DEF CodecInv, TaskInv
  <2>2. CASE task' = "decode" /\ stack' = <<Decoding("", d)>> /\ Look(Decoders) /\ UNCHANGED request
    <3>1. tables = Decoders
      BY <2>2 DEF Tables
    <3> QED
      BY <1>1, <2>1, <2>2, <3>1 DEF Decoding
  <2>3. CASE /\ task' = "encode" /\ stack' = <<Encoding("", d)>> /\ Look(Encoders)
             /\ request' \in RequestNames \cup {Anything}
    <3>1. tables = Encoders
      BY <2>3 DEF Tables
    <3> QED
      BY <2>3, <3>1 DEF Encoding
  <2> QED
    BY <2>2, <2>3
<1>3. GoodStack(<<frame>>, tables)
  <2> HIDE DEF tables
  <2> QED
    BY <1>2, NewStack
<1>4. GoodStack(stack', tables)
  BY <1>2, <1>3
<1> HIDE DEF frame
<1>5. stack' # <<>>
  BY <1>2
<1>6. TaskInv'
  BY <1>2, <1>5 DEF CodecInv, TaskInv
<1>7. HereInv'
  <2>1. here' = Lookup(stack'[Len(stack')], tables)
    BY <1>2, <1>5 DEF Look
  <2>2. Lookup(Top, Tables)' = Lookup(stack'[Len(stack')], tables)
    BY DEF Lookup, Top
  <2> QED
    BY <1>5, <2>1, <2>2 DEF HereInv
<1> QED
  BY <1>4, <1>6, <1>7 DEF CodecInv

\* The decoder takes an event.
LEMMA DecodeKeeps ==
  ASSUME TablesAgree, CodecInv, task = "decode", NEW n \in DOMAIN Offered, Decode(n)
  PROVE  CodecInv'
<1> DEFINE e == Current.events[n]
           o == Offered[n]
           frame == Decoding(e.name, e.value.struct)
<1>1. /\ e.kind # "wild" /\ HasRoom(e) /\ Look(Decoders) /\ bitsOut' = bitsOut
      /\ \/ Enter(e, o, frame) /\ shown' \in ShownOnEntry(e.name, frame)
         \/ (Take(e, o) \/ Leave(e)) /\ shown' = shown
  BY DEF Decode
<1>2. stack # <<>> /\ Tables = Decoders /\ bitsOut \in Nat /\ shown \subseteq {"current", "old"}
  BY DEF CodecInv, TaskInv, Tables
<1>3. SameEvent(e, o) /\ GoodChoice(Top.type, Offered)
  BY <1>2, TopAgrees DEF SameChoice
<1>4. shown' \subseteq {"current", "old"}
  <2> HIDE DEF e, o, frame
  <2>1. \A set \in ShownOnEntry(e.name, frame) : set \subseteq {"current", "old"}
    BY <1>2 DEF ShownOnEntry
  <2> QED
    BY <1>1, <1>2, <2>1
<1>5. o.kind # "wild" /\ (o.size > 0 => Top.count[o.name] < o.size)
  BY <1>1, <1>3 DEF SameEvent, HasRoom
<1>6. e.value.coding = "struct" => frame = Frame(e.name, e.value.struct, Tables[e.value.struct], {})
  <2>1. ASSUME e.value.coding = "struct"
        PROVE  Options[e.value.struct] \ Cleared(e.value.struct) = {}
    BY <1>3, <2>1 DEF SameEvent, GoodChoice, TablesAgree
  <2> QED
    BY <1>2, <2>1 DEF Decoding
<1>7. Look(Tables) /\ bitsOut' \in Nat
  BY <1>1, <1>2
<1>8. Enter(e, o, frame) \/ Take(e, o) \/ Leave(e)
  BY <1>1
<1> HIDE DEF e, frame
<1>9. e = Current.events[n] /\ task # "idle"
  BY DEF e
<1> QED
  BY <1>4, <1>5, <1>6, <1>7, <1>8, <1>9, EventKeeps

\* The bits of a value.
LEMMA MostBitsType ==
  ASSUME NEW value \in Values
  PROVE  MostBits(value) \in Nat
<1>1. value.bits \in Nat
  BY DEF Values
<1>2. (value.bits + 6) \div 7 \in Nat
  BY <1>1
<1> QED
  BY <1>1, <1>2 DEF MostBits

\* The encoder takes an event.
LEMMA EncodeKeeps ==
  ASSUME TablesAgree, CodecInv, task = "encode", NEW n \in Contents, Encode(n)
  PROVE  CodecInv'
<1> DEFINE e == Current.events[n]
           o == Offered[n]
           frame == Encoding(e.name, e.value.struct)
<1>1. /\ Enter(e, o, frame) \/ Take(e, o) \/ Leave(e)
      /\ bitsOut' = IF request = Anything \/ task' = "idle" THEN 0
                    ELSE bitsOut + Current.bits + MostBits(e.value)
      /\ Look(Encoders) /\ shown' = shown
  BY DEF Encode, Agree
<1>2. /\ stack # <<>> /\ Tables = Encoders /\ bitsOut \in Nat
      /\ shown \subseteq {"current", "old"}
  BY DEF CodecInv, TaskInv, Tables
<1>3. /\ n \in DOMAIN Offered /\ SameEvent(e, o) /\ o \in Events
      /\ GoodChoice(Top.type, Offered) /\ Current \in TableRows
  BY <1>2, TopAgrees DEF SameChoice, Contents, Sent
<1>4. bitsOut' \in Nat
  <2>1. e.value \in Values /\ Current.bits \in Nat
    BY <1>3 DEF SameEvent, Events, TableRows
  <2>2. MostBits(e.value) \in Nat
    BY <2>1, MostBitsType
  <2> QED
    BY <1>1, <1>2, <2>1, <2>2
<1>5. o.kind # "wild" /\ (o.size > 0 => Top.count[o.name] < o.size)
  <2>1. MayCome(o)
    BY DEF Contents
  <2>2. ASSUME o.size > 0
        PROVE  Top.count[o.name] < o.size
    <3>1. o.name \in DOMAIN Arrays[Top.type] /\ o.size \in Nat
      BY <1>3, <2>2 DEF GoodChoice, FitsStruct, Events
    <3>2. Top.count[o.name] \in Nat
      BY <1>2, <3>1, TopAgrees DEF GoodFrame
    <3>3. Top.count[o.name] < IF KnownSet(o) THEN 1 ELSE o.size
      BY <2>1, <2>2 DEF MayCome
    <3> QED
      BY <2>2, <3>1, <3>2, <3>3
  <2> QED
    BY <2>1, <2>2 DEF MayCome
<1>6. e.value.coding = "struct" => frame = Frame(e.name, e.value.struct, Tables[e.value.struct], {})
  BY <1>2 DEF Encoding
<1>7. Look(Tables) /\ shown' \subseteq {"current", "old"}
  BY <1>1, <1>2
<1> HIDE DEF e, frame
<1>8. e = Current.events[n] /\ task # "idle"
  BY DEF e
<1>9. Enter(e, o, frame) \/ Take(e, o) \/ Leave(e)
  BY <1>1
<1> QED
  BY <1>3, <1>4, <1>5, <1>6, <1>7, <1>8, <1>9, EventKeeps

\* It holds at first,
LEMMA CodecInit == Init => CodecInv
<1> SUFFICES ASSUME Init PROVE CodecInv
  OBVIOUS
<1>1. TaskInv
  BY DEF Init, TaskInv, Results
<1>2. GoodStack(<<>>, Tables)
  BY DEF GoodStack
<1>3. HereInv
  BY DEF Init, HereInv
<1> QED
  BY <1>1, <1>2, <1>3 DEF Init, CodecInv

\* and every step keeps it.
LEMMA CodecNext ==
  ASSUME TablesAgree, CodecInv, [Next]_vars
  PROVE  CodecInv'
<1>1. /\ shown \subseteq {"current", "old"} /\ bitsOut \in Nat
      /\ task # "idle" => stack # <<>>
  BY DEF CodecInv, TaskInv
<1>2. ASSUME NEW d \in Documents, StartDecoding(d)
      PROVE  CodecInv'
  <2>1. /\ task' = "decode" /\ stack' = <<Decoding("", d)>> /\ Look(Decoders)
        /\ UNCHANGED <<request, errn, bitsOut>> /\ shown' \subseteq {"current", "old"}
    BY <1>1, <1>2 DEF StartDecoding
  <2> QED
    BY <1>1, <2>1, StartKeeps
<1>3. CASE RefuseHeader
  <2>1. /\ UNCHANGED <<task, stack, here, request, bitsOut>> /\ errn' = "header"
        /\ shown' \subseteq {"current", "old"}
    BY <1>3 DEF RefuseHeader
  <2>2. TaskInv'
    BY <2>1 DEF CodecInv, TaskInv, Results
  <2>3. Tables' = Tables
    BY <2>1 DEF Tables
  <2>4. HereInv'
    BY <2>1, <2>3 DEF CodecInv, HereInv, Lookup, Top
  <2> QED
    BY <2>1, <2>2, <2>3, <2>4 DEF CodecInv
<1>4. CASE Read
  <2>1. PICK n \in Sent :
          Decode(n) \/ Misread(n) \/ RefuseItem(n) \/ RefuseWildcard(n) \/ RefuseValue(n)
    BY <1>4 DEF Read
  <2>2. n \in DOMAIN Offered /\ task = "decode" /\ stack # <<>>
    BY <1>1, <1>4 DEF Sent, Read
  <2>3. CASE Decode(n)
    BY <2>2, <2>3, DecodeKeeps
  <2>4. ~Misread(n)
    BY <2>2, ReadsRight DEF Misread
  <2>5. CASE RefuseItem(n) \/ RefuseWildcard(n) \/ RefuseValue(n)
    <3>1. PICK result \in Results : Return(result)
      BY <2>5 DEF RefuseItem, RefuseWildcard, RefuseValue, Results
    <3>2. UNCHANGED <<shown, bitsOut>>
      BY <2>5 DEF RefuseItem, RefuseWildcard, RefuseValue
    <3> QED
      BY <1>1, <3>1, <3>2, ReturnKeeps
  <2> QED
    BY <2>1, <2>3, <2>4, <2>5
<1>5. CASE StreamEnds
  BY <1>1, <1>5, ReturnKeeps DEF StreamEnds, Results
<1>6. ASSUME NEW d \in Documents, NEW what \in RequestNames \cup {Anything},
             StartEncoding(d, what)
      PROVE  CodecInv'
  <2>1. /\ task' = "encode" /\ stack' = <<Encoding("", d)>> /\ Look(Encoders)
        /\ request' = what /\ UNCHANGED <<errn, shown>> /\ bitsOut' \in Nat
    BY <1>6 DEF StartEncoding
  <2> QED
    BY <1>1, <2>1, StartKeeps
<1>7. CASE Write
  <2>1. PICK n \in Contents : Encode(n) \/ Miswrite(n)
    BY <1>7 DEF Write
  <2>2. task = "encode" /\ stack # <<>>
    BY <1>1, <1>7 DEF Write
  <2>3. ~Miswrite(n)
    BY <2>2, WritesRight DEF Miswrite
  <2> QED
    BY <2>1, <2>2, <2>3, EncodeKeeps
<1>8. CASE GetStuck
  <2>1. Written(0) = {}
    BY <1>1, <1>8, StuckWritesNothing DEF GetStuck
  <2>2. Return("stuck") /\ bitsOut' = 0 /\ shown' = shown
    BY <1>8, <2>1 DEF GetStuck
  <2> QED
    BY <1>1, <2>2, ReturnKeeps DEF Results
<1>9. CASE UNCHANGED vars
  <2>1. UNCHANGED <<task, stack, here, errn, shown, request, bitsOut>>
    BY <1>9 DEF vars
  <2>2. TaskInv' /\ Tables' = Tables
    BY <2>1 DEF CodecInv, TaskInv, Tables
  <2>3. HereInv'
    BY <2>1, <2>2 DEF CodecInv, HereInv, Lookup, Top
  <2> QED
    BY <2>1, <2>2, <2>3 DEF CodecInv
<1>10. "dinEXIDocument" \in Documents
  BY DEF Documents
<1> QED
  BY <1>2, <1>3, <1>4, <1>5, <1>6, <1>7, <1>8, <1>9, <1>10 DEF Next, Receive, Send

(***************************************************************************)
(* The theorems.                                                           *)
(***************************************************************************)
\* If the tables agree, the invariant holds for documents of any depth and length.
LEMMA CodecInvariant ==
  ASSUME TablesAgree
  PROVE  Spec => []CodecInv
<1>1. CodecInv /\ [Next]_vars => CodecInv'
  BY CodecNext
<1> QED
  BY <1>1, CodecInit, PTL DEF Spec

\* All variables stay in their types, and every function that is under way has a row for its
\* grammarID: none ends with EXI_ERROR_UNKOWN_GRAMMAR_ID.
THEOREM CodecTypeCorrect ==
  ASSUME TablesAgree
  PROVE  Spec => []TypeOK
<1>1. CodecInv => TypeOK
  <2> SUFFICES ASSUME CodecInv PROVE TypeOK
    OBVIOUS
  <2>1. /\ task \in {"idle", "decode", "encode"} /\ errn \in Results
        /\ shown \subseteq {"current", "old"}
        /\ request \in RequestNames \cup {Anything} /\ bitsOut \in Nat
    BY DEF CodecInv, TaskInv
  <2>2. ASSUME NEW i \in DOMAIN stack
        PROVE  stack[i].type \in DOMAIN Schema /\ stack[i].place \in DOMAIN Schema[stack[i].type]
    <3>1. i \in 1..Len(stack)
      BY DEF CodecInv, GoodStack
    <3> QED
      BY <3>1 DEF CodecInv, GoodStack, GoodFrame, Frames
  <2>3. stack # <<>> => here.row.id = Top.grammarID
    BY TopAgrees DEF Current
  <2> QED
    BY <2>1, <2>2, <2>3 DEF TypeOK, Results
<1> QED
  BY <1>1, CodecInvariant, PTL

\* The decoder and the encoder never lose the place, in no document and with no request.
THEOREM CodecKeepsInStep ==
  ASSUME TablesAgree
  PROVE  Spec => []InStep
<1>1. CodecInv => InStep
  BY DEF CodecInv, TaskInv, Results, InStep
<1> QED
  BY <1>1, CodecInvariant, PTL

\* No array of a struct is written beyond its end, however many lists a document has.
THEOREM CodecArraysFit ==
  ASSUME TablesAgree
  PROVE  Spec => []ArraysFit
<1>1. CodecInv => ArraysFit
  <2> SUFFICES ASSUME CodecInv, NEW i \in DOMAIN stack, NEW a \in DOMAIN stack[i].count
               PROVE  stack[i].count[a] <= Arrays[stack[i].type][a]
    BY DEF ArraysFit
  <2>1. GoodFrame(stack[i])
    BY DEF CodecInv, GoodStack
  <2>2. a \in DOMAIN Arrays[stack[i].type]
    BY <2>1 DEF GoodFrame
  <2> QED
    BY <2>1, <2>2 DEF GoodFrame
<1> QED
  BY <1>1, CodecInvariant, PTL

\* A list is refused only when its array is full.
THEOREM CodecFullAtTheLimit ==
  ASSUME TablesAgree
  PROVE  Spec => FullOnlyAtTheLimit
<1> DEFINE AtLimit == task = "decode" /\ task' = "idle" /\ errn' = "full"
                        => \E a \in DOMAIN Top.count : Top.count[a] = Arrays[Top.type][a]
<1>1. CodecInv /\ [Next]_vars => [AtLimit]_vars
  <2> SUFFICES ASSUME CodecInv, Next, task = "decode", task' = "idle", errn' = "full"
               PROVE  \E a \in DOMAIN Top.count : Top.count[a] = Arrays[Top.type][a]
    OBVIOUS
  <2>1. stack # <<>>
    BY DEF CodecInv, TaskInv
  <2>2. PICK n \in Sent :
          Decode(n) \/ Misread(n) \/ RefuseItem(n) \/ RefuseWildcard(n) \/ RefuseValue(n)
    BY DEF Next, Receive, StartDecoding, RefuseHeader, Read, StreamEnds, Return, Send,
           StartEncoding, Write, GetStuck
  <2>3. n \in DOMAIN Offered
    BY DEF Sent
  <2>4. ~Decode(n) /\ ~Misread(n) /\ ~RefuseWildcard(n) /\ ~RefuseValue(n)
    BY DEF Decode, Enter, Take, Leave, Misread, RefuseWildcard, RefuseValue, Return
  <2>5. RefuseItem(n)
    BY <2>2, <2>4
  <2> DEFINE o == Offered[n]
  <2>6. SameEvent(Current.events[n], o) /\ FitsStruct(Top.type, o)
    BY <2>1, <2>3, TopAgrees DEF SameChoice, GoodChoice
  <2>7. o.size > 0 /\ ~(Top.count[o.name] < o.size)
    BY <2>5, <2>6 DEF RefuseItem, HasRoom, SameEvent
  <2>8. /\ GoodFrame(Top) /\ Top.type \in DOMAIN Schema
        /\ o.name \in DOMAIN Arrays[Top.type] /\ o.size = Arrays[Top.type][o.name]
    BY <2>1, <2>6, <2>7, TopAgrees DEF FitsStruct, GoodFrame, Frames
  <2>9. /\ o.name \in DOMAIN Top.count
        /\ Top.count[o.name] \in Nat /\ Top.count[o.name] <= Arrays[Top.type][o.name]
        /\ Arrays[Top.type][o.name] \in Nat
    BY <2>8, ArraySizes DEF GoodFrame
  <2> QED
    BY <2>7, <2>8, <2>9
<1> QED
  BY <1>1, CodecInvariant, PTL DEF Spec, FullOnlyAtTheLimit

\* While a struct is decoded, its flags and lengths say what came of it, whatever was in the memory.
THEOREM CodecFlagsTellWhatCame ==
  ASSUME TablesAgree
  PROVE  Spec => []FlagsTellWhatCame
<1>1. CodecInv => FlagsTellWhatCame
  <2> SUFFICES ASSUME CodecInv, NEW i \in DOMAIN stack
               PROVE  stack[i].left = {}
    BY DEF FlagsTellWhatCame
  <2>1. stack[i] \in Frames
    BY DEF CodecInv, GoodStack
  <2> QED
    BY <2>1 DEF Frames
<1> QED
  BY <1>1, CodecInvariant, PTL

(***************************************************************************)
(* What the body's flags show.  An earlier message may show through until  *)
(* the body is entered, and a message does not end before that.            *)
(***************************************************************************)
ShownInv ==
  task = "decode" /\ Len(stack) > 1 /\ stack[2].type = "dinAnonType_V2G_Message"
      /\ stack[2].place \notin BeforeBody
    => shown \subseteq {"current"}

\* How many types may be under way.
LEMMA StackSizes ==
  ASSUME CodecInv, stack # <<>>
  PROVE  /\ Len(stack) = 1 \/ Len(stack) = 2 \/ Len(stack) > 2
         /\ Len(stack) > 2 => Len(stack) > 1
         /\ Len(stack) # 1 /\ Len(stack) # 2 => Len(stack) > 2
<1> DEFINE n == Len(stack)
<1>1. n \in Nat \ {0}
  BY DEF CodecInv, GoodStack
<1> HIDE DEF n
<1>2. /\ n = 1 \/ n = 2 \/ n > 2
      /\ n > 2 => n > 1
      /\ n # 1 /\ n # 2 => n > 2
  BY <1>1
<1> QED
  BY <1>2, Zenon DEF n

\* The second frame of a stack that goes on.
LEMMA SecondFrame ==
  ASSUME CodecInv, stack # <<>>, NEW f, NEW g
  PROVE  /\ Len(stack) = 1 => (Callers \o <<f, g>>)[2] = g /\ Len(Append(Callers, f)) = 1
         /\ Len(stack) = 2 => /\ Append(Callers, f)[2] = f
                              /\ (Callers \o <<f, g>>)[2] = f
                              /\ Top = stack[2]
         /\ Len(stack) > 2 => /\ Append(Callers, f)[2] = stack[2]
                              /\ (Callers \o <<f, g>>)[2] = stack[2]
                              /\ Callers[2] = stack[2]
<1> DEFINE n == Len(stack)
           r == SubSeq(stack, 1, n - 1)
<1>1. stack \in Seq(Frames)
  BY DEF CodecInv, GoodStack
<1>2. /\ n \in Nat \ {0} /\ r \in Seq(Frames) /\ Len(r) = n - 1
      /\ \A i \in 1..(n - 1) : r[i] = stack[i]
  BY <1>1, CallersSeq
<1>3. Callers = r /\ Top = stack[n]
  BY DEF Callers, Top
<1> HIDE DEF n, r
<1>4. n > 2 => r[2] = stack[2]
  BY <1>2
<1>5. /\ n = 1 => (r \o <<f, g>>)[2] = g /\ Len(Append(r, f)) = 1
      /\ n = 2 => Append(r, f)[2] = f /\ (r \o <<f, g>>)[2] = f
      /\ n > 2 => Append(r, f)[2] = r[2] /\ (r \o <<f, g>>)[2] = r[2]
  BY <1>2
<1> QED
  BY <1>3, <1>4, <1>5 DEF n

\* What an entry does to the flags that show.
LEMMA EntryShows ==
  ASSUME TablesAgree, CodecInv, task = "decode", Len(stack) > 1,
         NEW n \in DOMAIN Offered, NEW e, e = Current.events[n], NEW frame,
         e.value.coding = "struct", frame = Decoding(e.name, e.value.struct),
         shown' \in ShownOnEntry(e.name, frame)
  PROVE  /\ shown \subseteq {"current"} => shown' \subseteq {"current"}
         /\ EntersBody(Offered[n]) /\ Top.type # "dinBodyType" => shown' = {}
<1>1. stack # <<>>
  BY DEF CodecInv, TaskInv
<1>2. Top.type \notin Documents
  BY <1>1, BelowDocument
<1>3. SameEvent(e, Offered[n]) /\ GoodChoice(Top.type, Offered)
  BY <1>1, TopAgrees DEF SameChoice
<1>4. e.value.struct \in DOMAIN Schema
  BY <1>3 DEF SameEvent, GoodChoice
<1>5. frame.left = {} /\ frame.type = e.value.struct
  <2>1. Options[e.value.struct] \ Cleared(e.value.struct) = {}
    BY <1>4 DEF TablesAgree
  <2> QED
    BY <2>1 DEF Decoding, Frame
<1>6. Top.type # "dinEXIDocument"
  BY <1>2 DEF Documents
<1>7. frame.type = "dinBodyType" /\ Top.type # "dinBodyType" => shown' = {}
  BY <1>5, <1>6 DEF ShownOnEntry
<1>8. shown \subseteq {"current"} => shown' \subseteq {"current"}
  BY <1>5, <1>6 DEF ShownOnEntry
<1> QED
  BY <1>3, <1>5, <1>7, <1>8 DEF EntersBody, SameEvent

\* The second frame of a message goes on: it is before the body, or enters it, or was beyond before.
LEMMA MessageGoesOn ==
  ASSUME TablesAgree, CodecInv, Len(stack) = 2, Top.type = "dinAnonType_V2G_Message",
         Top.place \in BeforeBody, NEW n \in DOMAIN Offered
  PROVE  /\ Offered[n].kind # "end"
         /\ LeadsOn(Offered[n]) => Offered[n].to \in BeforeBody
<1>1. stack # <<>>
  BY DEF CodecInv, TaskInv, GoodStack
<1>2. Offered = Message[Top.place]
  BY <1>1 DEF CodecInv, HereInv, Lookup, Offered, Message
<1> QED
  BY <1>2 DEF TablesAgree, MessageHasBody

\* An event of the decoder keeps it.
LEMMA DecodeShows ==
  ASSUME TablesAgree, CodecInv, ShownInv, task = "decode", NEW n \in DOMAIN Offered, Decode(n)
  PROVE  ShownInv'
<1> SUFFICES ASSUME task' = "decode", Len(stack') > 1, stack'[2].type = "dinAnonType_V2G_Message",
                    stack'[2].place \notin BeforeBody
             PROVE  shown' \subseteq {"current"}
  BY DEF ShownInv
<1> DEFINE e == Current.events[n]
           o == Offered[n]
           frame == Decoding(e.name, e.value.struct)
           past == Past(e, o)
<1>1. /\ e.kind # "wild" /\ HasRoom(e)
      /\ \/ Enter(e, o, frame) /\ shown' \in ShownOnEntry(e.name, frame)
         \/ (Take(e, o) \/ Leave(e)) /\ shown' = shown
  BY DEF Decode
<1>2. stack # <<>> /\ Len(stack) \in Nat \ {0}
  BY DEF CodecInv, TaskInv, GoodStack
<1>3. /\ SameEvent(e, o) /\ GoodChoice(Top.type, Offered)
      /\ Len(stack) = 1 <=> Top.type \in Documents
  BY <1>2, TopAgrees, Zenon DEF SameChoice
<1>4. GoesOn(o) => past.type = Top.type /\ past.place = o.to
  <2>1. o.size > 0 => Top.count[o.name] < o.size
    BY <1>1, <1>3 DEF SameEvent, HasRoom
  <2>2. GoesOn(o) => past.type = Top.type
    BY <1>2, <2>1, PastIsGood
  <2>3. Top \in Frames
    BY <1>2, TopAgrees DEF GoodFrame
  <2>4. past.place = o.to
    BY <2>3 DEF Past, Frames
  <2> QED
    BY <2>2, <2>4
<1>5. frame.place = 1
  BY DEF Decoding, Frame
<1> HIDE DEF e, o, frame, past
<1>6. CASE Enter(e, o, frame) /\ shown' \in ShownOnEntry(e.name, frame)
  <2>1. e.value.coding = "struct" /\ stack' = Callers \o <<past, frame>> /\ GoesOn(o)
    BY <1>3, <1>6 DEF Enter, SameEvent, GoodChoice, past, o
  <2>2. ASSUME Len(stack) > 1
        PROVE  /\ shown \subseteq {"current"} => shown' \subseteq {"current"}
               /\ EntersBody(o) /\ Top.type # "dinBodyType" => shown' = {}
    BY <1>6, <2>1, <2>2, EntryShows DEF e, o, frame
  <2>3. CASE Len(stack) = 1
    <3>1. stack'[2] = frame
      BY <1>2, <2>1, <2>3, SecondFrame
    <3> QED
      BY <1>5, <3>1 DEF TablesAgree, MessageHasBody
  <2>4. CASE Len(stack) = 2
    <3>1. stack'[2] = past /\ Top = stack[2]
      BY <1>2, <2>1, <2>4, SecondFrame
    <3>2. Top.type = "dinAnonType_V2G_Message" /\ o.to \notin BeforeBody
      BY <1>4, <2>1, <3>1
    <3>3. CASE Top.place \in BeforeBody
      <4>1. EntersBody(o)
        BY <2>1, <2>4, <3>2, <3>3, MessageGoesOn DEF LeadsOn, o
      <4> QED
        BY <2>2, <2>4, <3>2, <4>1
    <3>4. CASE Top.place \notin BeforeBody
      BY <2>2, <2>4, <3>1, <3>2, <3>4 DEF ShownInv
    <3> QED
      BY <3>3, <3>4
  <2>5. CASE Len(stack) > 2
    <3>1. stack'[2] = stack[2]
      BY <1>2, <2>1, <2>5, SecondFrame
    <3>2. Len(stack) > 1
      BY <1>2, <2>5, StackSizes
    <3> QED
      BY <2>2, <3>1, <3>2 DEF ShownInv
  <2> QED
    BY <1>2, <2>3, <2>4, <2>5, StackSizes, Zenon
<1>7. CASE Take(e, o) /\ shown' = shown
  <2>1. stack' = Append(Callers, past) /\ e.value.coding # "struct" /\ e.kind # "end"
    BY <1>7 DEF Take, Return, past
  <2>2. GoesOn(o) /\ ~EntersBody(o)
    BY <1>1, <1>3, <2>1 DEF GoesOn, EntersBody, SameEvent
  <2>3. CASE Len(stack) = 1
    <3>1. Len(stack') = 1
      BY <1>2, <2>1, <2>3, SecondFrame
    <3> QED
      BY <3>1
  <2>4. CASE Len(stack) = 2
    <3>1. stack'[2] = past /\ Top = stack[2]
      BY <1>2, <2>1, <2>4, SecondFrame
    <3>2. Top.type = "dinAnonType_V2G_Message" /\ o.to \notin BeforeBody
      BY <1>4, <2>2, <3>1
    <3>3. Top.place \notin BeforeBody
      BY <2>2, <2>4, <3>2, MessageGoesOn DEF LeadsOn, o
    <3> QED
      BY <1>7, <2>4, <3>1, <3>2, <3>3 DEF ShownInv
  <2>5. CASE Len(stack) > 2
    <3>1. stack'[2] = stack[2]
      BY <1>2, <2>1, <2>5, SecondFrame
    <3>2. Len(stack) > 1
      BY <1>2, <2>5, StackSizes
    <3> QED
      BY <1>7, <3>1, <3>2 DEF ShownInv
  <2> QED
    BY <1>2, <2>3, <2>4, <2>5, StackSizes, Zenon
<1>8. CASE Leave(e) /\ shown' = shown
  <2>1. stack' = Callers /\ Len(stack) # 2 /\ e.kind = "end"
    BY <1>8 DEF Leave, Return
  <2>2. Len(stack) # 1
    BY <1>2, <1>3, <2>1, TopAgrees DEF SameEvent, o
  <2>3. Len(stack) > 2 /\ Len(stack) > 1
    BY <1>2, <2>1, <2>2, StackSizes, Zenon
  <2>4. stack'[2] = stack[2]
    BY <1>2, <2>1, <2>3, SecondFrame
  <2> QED
    BY <1>8, <2>3, <2>4 DEF ShownInv
<1> QED
  BY <1>1, <1>6, <1>7, <1>8

\* So does every step.
LEMMA ShownNext ==
  ASSUME TablesAgree, CodecInv, ShownInv, [Next]_vars
  PROVE  ShownInv'
<1> SUFFICES ASSUME task' = "decode", Len(stack') > 1
             PROVE  ShownInv'
  BY DEF ShownInv
<1>1. CASE \E d \in Documents : StartDecoding(d)
  <2>1. PICK d \in Documents : stack' = <<Decoding("", d)>>
    BY <1>1 DEF StartDecoding
  <2>2. Len(stack') = 1
    BY <2>1
  <2> QED
    BY <2>2
<1>2. CASE Read
  <2>1. PICK n \in Sent :
          Decode(n) \/ Misread(n) \/ RefuseItem(n) \/ RefuseWildcard(n) \/ RefuseValue(n)
    BY <1>2 DEF Read
  <2>2. Decode(n)
    BY <2>1 DEF Misread, RefuseItem, RefuseWildcard, RefuseValue, Return
  <2> QED
    BY <1>2, <2>2, DecodeShows DEF Read, Sent
<1>3. CASE Write
  <2>1. PICK n \in Contents : Encode(n) \/ Miswrite(n)
    BY <1>3 DEF Write
  <2>2. task' \in {"encode", "idle"}
    BY <1>3, <2>1 DEF Write, Encode, Miswrite, Enter, Take, Leave, Return
  <2> QED
    BY <2>2
<1>4. CASE UNCHANGED vars
  BY <1>4 DEF vars, ShownInv
<1>5. ~RefuseHeader /\ ~StreamEnds /\ ~Send /\ ~GetStuck
  BY DEF RefuseHeader, StreamEnds, Send, StartEncoding, GetStuck, Return
<1> QED
  BY <1>1, <1>2, <1>3, <1>4, <1>5 DEF Next, Receive

\* When a whole message has been decoded, the body's flags are those of this message.
THEOREM AnswerIsFresh ==
  ASSUME TablesAgree
  PROVE  Spec => FreshAnswer
<1> DEFINE Fresh == task = "decode" /\ task' = "idle" /\ errn' = "none"
                        /\ Top.type = "dinAnonType_V2G_Message"
                      => shown' \subseteq {"current"}
<1>1. CodecInv /\ ShownInv /\ [Next]_vars => [Fresh]_vars
  <2> SUFFICES ASSUME CodecInv, ShownInv, Next, task = "decode", task' = "idle", errn' = "none",
                      Top.type = "dinAnonType_V2G_Message"
               PROVE  shown' \subseteq {"current"}
    OBVIOUS
  <2>1. stack # <<>>
    BY DEF CodecInv, TaskInv
  <2>2. PICK n \in Sent :
          Decode(n) \/ Misread(n) \/ RefuseItem(n) \/ RefuseWildcard(n) \/ RefuseValue(n)
    BY DEF Next, Receive, StartDecoding, RefuseHeader, Read, StreamEnds, Return, Send,
           StartEncoding, Write, GetStuck
  <2>3. n \in DOMAIN Offered /\ Decode(n)
    BY <2>2 DEF Sent, Misread, RefuseItem, RefuseWildcard, RefuseValue, Return
  <2>4. ~InDocument
    <3>1. Top.type \notin Documents
      BY DEF Documents
    <3> QED
      BY <2>1, <3>1, BelowDocument
  <2>5. Leave(Current.events[n]) /\ shown' = shown /\ Len(stack) = 2
    BY <2>3, <2>4 DEF Decode, Enter, Take, Leave, InDocument
  <2>6. Offered[n].kind = "end"
    BY <2>1, <2>3, <2>5, TopAgrees DEF SameChoice, SameEvent, Leave
  <2>7. Top.place \notin BeforeBody
    BY <2>3, <2>5, <2>6, MessageGoesOn
  <2>8. Top = stack[2]
    BY <2>5 DEF Top
  <2> QED
    BY <2>5, <2>7, <2>8 DEF ShownInv
<1>2. CodecInv /\ ShownInv /\ [Next]_vars => ShownInv'
  BY ShownNext
<1>3. Init => ShownInv
  BY DEF Init, ShownInv
<1> QED
  BY <1>1, <1>2, <1>3, CodecInvariant, PTL DEF Spec, FreshAnswer
=============================================================================
