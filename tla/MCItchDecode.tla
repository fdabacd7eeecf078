---------------------------- MODULE MCItchDecode ----------------------------
(***************************************************************************)
(* Small specifications for TLC, and the shipped ones.                     *)
(***************************************************************************)
EXTENDS ItchLayout, SequencesExt

F(type, size) == [type |-> type, size |-> size]

\* Fields with the size of their type, with another, with none, with one below
\* zero, and with one beyond the word; and a type that is not known.
SomeFields ==
  {F("char", 1), F("uint16", 2), F("uint64", 8), F("string", 3), F("binary", 2),
   F("uint32", 1), F("uint8", 0), F("string", -1), F("binary", 66),
   F("decimal", 2)}

One(given) == <<[key |-> <<"A">>, fields |-> given]>>

\* One type of message; two, and a key that names none between them.
AllDocuments ==
  {One(f) : f \in SeqOf(SomeFields, 3)}
    \cup {<<[key |-> <<"A">>, fields |-> f],
            [key |-> <<"A", "B">>, fields |-> <<F("char", 1)>>],
            [key |-> <<"B">>, fields |-> g]>> :
            f, g \in SeqOf({F("uint16", 2), F("string", 3)}, 2)}
    \cup {<<>>}

\* Fields of config/specs/XrossingMD.json, in short.
c == F("char", 1)
s4 == F("string", 4)
u4 == F("uint32", 4)
u8 == F("uint64", 8)

\* Its messages SystemEvent, ReferencePrice and TradingStatus are of the kind
\* the properties speak of: with 16 bits for lengths there is room for them.
ASSUME \A given \in {<<c, u8, s4, c>>,
                      <<c, u8, s4, F("string", 12), s4, u4, F("uint8", 1), c, u8, u8, u8>>} :
         /\ \A n \in DOMAIN given :
              given[n].type \in DOMAIN Naturally =>
                given[n].size = Naturally[given[n].type]
         /\ EndOf(given, Len(given)) < 65536
=============================================================================
