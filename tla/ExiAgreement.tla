---------------------------- MODULE ExiAgreement ----------------------------
(***************************************************************************)
(* What makes the codec work, place by place.  Each place of a type is     *)
(* compared, by itself, with the rows that the decoder and the encoder     *)
(* function can have there.  Nothing is said of documents: that a codec    *)
(* whose tables agree with the schema keeps in step with every document,   *)
(* however deep and long, is what ExiCodecProofs proves.                   *)
(***************************************************************************)
EXTENDS ExiCodec

\* The data of which schemas and tables consist.
Values == [coding : STRING, bits : Nat, low : Int, struct : STRING]
Events == [kind : STRING, name : STRING, value : Values, flag : BOOLEAN, size : Nat, to : Nat]
TableRows == [id : Int, bits : Nat, events : Seq(Events)]

(***************************************************************************)
(* The pairs <<place, grammarID>> in which a document and the function     *)
(* that reads or writes it may be.                                         *)
(***************************************************************************)
\* No end, and no wildcard: these do not lead to another place.
GoesOn(o) == o.kind \notin {"end", "wild"}
After(choices, table, at) ==
  LET offered == choices[at[1]]
      events  == RowOf(table, at[2]).events
  IN  {<<offered[n].to, events[n].to>> :
         n \in {n \in DOMAIN offered \cap DOMAIN events : GoesOn(offered[n])}}
Start(table) == <<1, table[1].id>>

\* All pairs that can be met; a document is left for good after its root element.
Met(t, table) ==
  LET More[S \in SUBSET (Nat \X Int)] ==
        LET wider == S \cup UNION {After(Schema[t], table, at) : at \in S}
        IN  IF wider = S THEN S ELSE More[wider]
  IN  IF t \in Documents THEN {Start(table)} ELSE More[{Start(table)}]

(***************************************************************************)
(* The conditions.                                                         *)
(***************************************************************************)
\* What the schema itself has to keep, at each choice of type t: an array has one size wherever
\* it is filled, and an element that may be missing is told from the later ones by its name.
FitsStruct(t, o) ==
  IF o.name \in DOMAIN Arrays[t] THEN o.size > 0 /\ o.size = Arrays[t][o.name] ELSE o.size = 0
GoodChoice(t, offered) ==
  /\ \A n \in DOMAIN offered :
       /\ FitsStruct(t, offered[n])
       /\ IF GoesOn(offered[n]) THEN offered[n].to \in DOMAIN Schema[t] ELSE ~Optional(offered[n])
       /\ offered[n].value.coding = "struct"
            => GoesOn(offered[n]) /\ offered[n].value.struct \in DOMAIN Schema \ Documents
  /\ \A j, n \in DOMAIN offered :
       j < n /\ Optional(offered[j]) => offered[j].name # offered[n].name
GoodSchema ==
  /\ Documents \subseteq DOMAIN Schema
  /\ \A t \in Documents : \A n \in DOMAIN Schema[t][1] : Schema[t][1][n].kind # "end"
  /\ \A t \in DOMAIN Schema :
       /\ Schema[t] \in Seq(Seq(Events))
       /\ \A place \in DOMAIN Schema[t] : GoodChoice(t, Schema[t][place])

\* The row says the same as the choice, event for event.
SameEvent(e, o) ==
  /\ e.kind = o.kind /\ e.name = o.name /\ e.value = o.value
  /\ e.flag = o.flag /\ e.size = o.size
SameChoice(row, offered) ==
  /\ row.bits = Width(offered)
  /\ DOMAIN row.events = DOMAIN offered
  /\ \A n \in DOMAIN offered : SameEvent(row.events[n], offered[n])

\* Wherever the function with this table can be: it has a row for its grammarID, the row says what
\* the schema says of the place, and each event leads to a pair of which the same is true.
Agreement(t, table, met) ==
  /\ table \in Seq(TableRows) /\ table # <<>>
  /\ Start(table) \in met
  /\ \A at \in met :
       /\ at[1] \in DOMAIN Schema[t]
       /\ RowOf(table, at[2]).id = at[2]
       /\ SameChoice(RowOf(table, at[2]), Schema[t][at[1]])
       /\ t \notin Documents => After(Schema[t], table, at) \subseteq met

\* The places of a message before its body, and that it does not end there.
Message == Schema["dinAnonType_V2G_Message"]
EntersBody(o) == o.value.coding = "struct" /\ o.value.struct = "dinBodyType"
LeadsOn(o) == GoesOn(o) /\ ~EntersBody(o)
BeforeBody ==
  LET More[S \in SUBSET Nat] ==
        LET Beyond(p) ==
              {Message[p][n].to : n \in {n \in DOMAIN Message[p] : LeadsOn(Message[p][n])}}
            wider == S \cup UNION {Beyond(p) : p \in S}
        IN  IF wider = S THEN S ELSE More[wider]
  IN  More[{1}]
MessageHasBody ==
  /\ 1 \in BeforeBody
  /\ \A p \in BeforeBody : \A n \in DOMAIN Message[p] :
       /\ Message[p][n].kind # "end"
       /\ LeadsOn(Message[p][n]) => Message[p][n].to \in BeforeBody

\* The tables of both codecs agree with the schema at every place of every type, and the init
\* function of each struct that is decoded resets all flags and lengths of it.
TablesAgree ==
  /\ GoodSchema /\ MessageHasBody
  /\ \A t \in DOMAIN Schema :
       /\ Agreement(t, Decoders[t], Met(t, Decoders[t]))
       /\ Agreement(t, Encoders[t], Met(t, Encoders[t]))
       /\ Options[t] \subseteq Cleared(t)

\* Before any message is read or written: decoder and encoder agree with the schema (and with each
\* other) wherever a document may ever lead them.
AgreedBeforeUse == task = "idle" => TablesAgree
=============================================================================
