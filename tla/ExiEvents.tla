----------------------------- MODULE ExiEvents ------------------------------
(***************************************************************************)
(* EXI, the binary XML of the charging protocol, codes a document as a     *)
(* walk through a grammar: at every place of the walk the few events that  *)
(* may come next are numbered, and only the number of the one that comes   *)
(* is written, in as few bits as the choice needs.  A reader that numbers  *)
(* the events otherwise, or takes another number of bits, loses the place  *)
(* for the rest of the document and has no means to notice it.             *)
(*                                                                         *)
(* This module has the events and the tables of events: what the generated *)
(* decoder or encoder does, with a row for each value of grammarID.        *)
(***************************************************************************)
EXTENDS Integers, Sequences

\* The bits that tell n alternatives apart (exiGetCodingLength of MethodsBag.c).
BitsFor(n) == CHOOSE k \in 0..16 : n <= 2^k /\ \A j \in 0..(k - 1) : 2^j < n

(***************************************************************************)
(* Values, by the channel function that codes them.                        *)
(***************************************************************************)
Value(coding, bits, low, struct) ==
  [coding |-> coding, bits |-> bits, low |-> low, struct |-> struct]
NBitFrom(n, low) == Value("nbit", n, low, "")   \* an n-bit number, added to low
NBit(n) == NBitFrom(n, 0)
Enum(n) == NBit(BitsFor(n))                     \* one of n enumerated values
Ranged(low, high) == NBitFrom(BitsFor(high - low + 1), low)
Bool == Value("bool", 1, 0, "")
Signed(n) == Value("signed", n, 0, "")          \* groups of seven bits, of an n-bit integer
Unsigned(n) == Value("unsigned", n, 0, "")
Characters == Value("characters", 0, 0, "")     \* a length and that many characters
Bytes == Value("bytes", 0, 0, "")
Struct(type) == Value("struct", 0, 0, type)     \* an element with a content of its own
NoValue == Value("none", 0, 0, "")

(***************************************************************************)
(* Rows of a decoder or encoder: the value of grammarID, the width of the  *)
(* event code, and the event of each code with the grammarID it leads to.  *)
(* Opt... also sets (decoder) or tests (encoder) the _isUsed flag of its   *)
(* name; an Item is stored at the end of an array with room for size, or   *)
(* taken from it.                                                          *)
(***************************************************************************)
Event(kind, name, value, flag, size, to) ==
  [kind |-> kind, name |-> name, value |-> value, flag |-> flag, size |-> size, to |-> to]
Attr(name, value, to)       == Event("attribute", name, value, FALSE, 0, to)
OptAttr(name, value, to)    == Event("attribute", name, value, TRUE, 0, to)
Elem(name, value, to)       == Event("element", name, value, FALSE, 0, to)
OptElem(name, value, to)    == Event("element", name, value, TRUE, 0, to)
Item(name, value, size, to) == Event("element", name, value, FALSE, size, to)
Content(value, to)          == Event("content", "CONTENT", value, FALSE, 0, to)
Text(to)                    == Event("text", "ANY", Characters, TRUE, 0, to)
Wild(to)                    == Event("wild", "", NoValue, FALSE, 0, to)
End                         == Event("end", "", NoValue, FALSE, 0, 0)
Row(id, bits, events) == [id |-> id, bits |-> bits, events |-> events]
Last(id) == Row(id, 1, <<End>>)

\* The row that a function with this table executes in its switch: the default without any event.
Default == Row(-1, 0, <<>>)
RowOf(table, grammarID) ==
  IF \E i \in DOMAIN table : table[i].id = grammarID
  THEN table[CHOOSE i \in DOMAIN table : table[i].id = grammarID] ELSE Default

\* In a strict grammar one more code is kept for what the schema does not foresee.
Width(choice) == BitsFor(Len(choice) + 1)
=============================================================================
