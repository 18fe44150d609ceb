----------------------------- MODULE ExiGrammar -----------------------------
(***************************************************************************)
(* The content models: what the XML schema says of a type, which the       *)
(* generated header repeats in the comment above each struct.  Rows(type)  *)
(* derives from a content model the choice at each place, as the EXI       *)
(* specification defines it (strict, schema informed), so that the tables  *)
(* of the decoder and the encoder can be compared with it.                 *)
(***************************************************************************)
EXTENDS ExiEvents

(***************************************************************************)
(* Content models.                                                         *)
(***************************************************************************)
Particle(op, kind, name, value, flag, size, parts) ==
  [op |-> op, kind |-> kind, name |-> name, value |-> value, flag |-> flag, size |-> size,
   parts |-> parts]
Leaf(kind, name, value, flag, size) == Particle("leaf", kind, name, value, flag, size, <<>>)
Group(op, times, parts) == Particle(op, "", "", NoValue, FALSE, times, parts)

Field(name, value)       == Leaf("element", name, value, FALSE, 0)
Marked(name, value)      == Leaf("element", name, value, TRUE, 0)   \* with an _isUsed flag
Array(name, value, size) == Leaf("element", name, value, FALSE, size)
Wildcard                 == Leaf("wild", "", NoValue, FALSE, 0)
All(parts)               == Group("all", 0, parts)         \* one after the other
One(parts)               == Group("one", 0, parts)         \* one of them
Opt(part)                == Group("optional", 0, <<part>>) \* {0-1}
Many(part)               == Group("many", 0, <<part>>)     \* {0-UNBOUNDED}
Some(part)               == Group("some", 0, <<part>>)     \* {1-UNBOUNDED}
UpTo(n, part)            == Group("upto", n, <<part>>)     \* {1-n}
Nothing                  == All(<<>>)

\* A type: its attributes, sorted by name, then its content, with text in between if it is mixed.
Attribute(name, value)    == Leaf("attribute", name, value, FALSE, 0)
OptAttribute(name, value) == Opt(Leaf("attribute", name, value, TRUE, 0))
Elements(attributes, content) == [attributes |-> attributes, content |-> content, mixed |-> FALSE]
Mixed(attributes, content)    == [attributes |-> attributes, content |-> content, mixed |-> TRUE]
Simple(attributes, value) == Elements(attributes, Leaf("content", "CONTENT", value, FALSE, 0))
Empty == Elements(<<>>, Nothing)

RECURSIVE Nullable(_)
Nullable(p) ==
  CASE p.op = "leaf" -> FALSE
    [] p.op = "all" -> \A i \in DOMAIN p.parts : Nullable(p.parts[i])
    [] p.op = "one" -> \E i \in DOMAIN p.parts : Nullable(p.parts[i])
    [] p.op \in {"some", "upto"} -> Nullable(p.parts[1])
    [] OTHER -> TRUE

Before(p, q) == IF p = Nothing THEN q ELSE IF q = Nothing THEN p ELSE All(<<p, q>>)
\* what may be repeated after one occurrence of the part of p
Again(p) ==
  CASE p.op = "optional" -> Nothing
    [] p.op \in {"many", "some"} -> Many(p.parts[1])
    [] p.op = "upto" -> IF p.size = 1 THEN Nothing ELSE Opt(UpTo(p.size - 1, p.parts[1]))

RECURSIVE First(_)
\* The leaves that may come first, in the order of the schema, each with what remains after it.
First(p) ==
  CASE p.op = "leaf" -> <<[leaf |-> p, rest |-> Nothing]>>
    [] p = Nothing -> <<>>
    [] p.op = "all" ->
         LET head == First(p.parts[1])
             tail == IF Len(p.parts) = 2 THEN p.parts[2] ELSE All(Tail(p.parts))
         IN  [i \in DOMAIN head |-> [head[i] EXCEPT !.rest = Before(@, tail)]]
               \o (IF Nullable(p.parts[1]) THEN First(tail) ELSE <<>>)
    [] p.op = "one" /\ Len(p.parts) = 1 -> First(p.parts[1])
    [] p.op = "one" ->
         LET half == Len(p.parts) \div 2
         IN  First(One(SubSeq(p.parts, 1, half))) \o First(One(SubSeq(p.parts, half + 1, Len(p.parts))))
    [] OTHER ->
         LET head == First(p.parts[1])
         IN  [i \in DOMAIN head |-> [head[i] EXCEPT !.rest = Before(@, Again(p))]]

\* A place in a type: the attributes and the content still to come.
Place(attributes, content) == [attributes |-> attributes, content |-> content]
StartOf(type) == Place(All(type.attributes), type.content)

\* The choice at a place: the events in the order of their codes, each with the place after it.
\* Named elements come before the wildcard, the end after them, text last.
EventOf(leaf, next) == [kind |-> leaf.kind, name |-> leaf.name, value |-> leaf.value,
                        flag |-> leaf.flag, size |-> leaf.size, to |-> next]
Named(f) == f.leaf.kind # "wild"
Unnamed(f) == ~Named(f)
NamedFirst(leaves) == SelectSeq(leaves, Named) \o SelectSeq(leaves, Unnamed)
Extra(c, e) == IF c THEN <<e>> ELSE <<>>
ChoiceOf(mixed, place, attributes, free, content) ==
  [i \in DOMAIN attributes |-> EventOf(attributes[i].leaf, Place(attributes[i].rest, place.content))]
    \o [i \in DOMAIN content |-> EventOf(content[i].leaf, Place(Nothing, content[i].rest))]
    \o Extra(free /\ Nullable(place.content), [End EXCEPT !.to = place])
    \o Extra(free /\ mixed, [Text(0) EXCEPT !.to = Place(Nothing, place.content)])
Choice(type, place) ==
  ChoiceOf(type.mixed, place, First(place.attributes), Nullable(place.attributes),
           IF Nullable(place.attributes) THEN NamedFirst(First(place.content)) ELSE <<>>)

\* All places that can be reached, numbered as they are found, and the choices at the first ones.
NewPlaces(places, choice) ==
  LET IsNew(i) == /\ \A j \in DOMAIN places : places[j] # choice[i].to
                  /\ \A j \in 1..(i - 1) : choice[j].to # choice[i].to
      new == SelectSeq([i \in DOMAIN choice |-> i], IsNew)
  IN  places \o [n \in DOMAIN new |-> choice[new[n]].to]
Numbered(places, choice) ==
  [i \in DOMAIN choice |->
     [choice[i] EXCEPT !.to = CHOOSE j \in DOMAIN places : places[j] = choice[i].to]]
RECURSIVE Explore(_, _, _)
Found(type, places, choices, choice) ==
  Explore(type, places, Append(choices, Numbered(places, choice) \o <<>>))
Reached(type, places, choices, choice) ==
  Found(type, NewPlaces(places, choice), choices, choice)
Explore(type, places, choices) ==
  IF Len(choices) = Len(places) THEN choices
  ELSE Reached(type, places, choices, Choice(type, places[Len(choices) + 1]))

\* The choices at the places of a type; its content begins at place 1.
Rows(type) == Explore(type, <<StartOf(type)>>, <<>>)
=============================================================================
