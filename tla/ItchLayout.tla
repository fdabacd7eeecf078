----------------------------- MODULE ItchLayout -----------------------------
(***************************************************************************)
(* What a specification says of a message, without running offsets: how    *)
(* long it is, and which of its fields a message of some length holds.     *)
(***************************************************************************)
EXTENDS ItchDecode, FiniteSetsExt

\* The end of the first k fields, for each k.
Ends(given) ==
  LET end[k \in 0..Len(given)] ==
        IF k = 0 THEN 0 ELSE end[k - 1] + given[k].size
  IN end

EndOf(given, k) == Ends(given)[k]

Naturally ==
  [char |-> 1, uint8 |-> 1, uint16 |-> 2, int16 |-> 2, uint32 |-> 4,
   int32 |-> 4, uint64 |-> 8, int64 |-> 8]

\* Numbers have the size of their type, and a message is no longer than a
\* block of a packet can be.
Sensible(given) ==
  /\ \A n \in DOMAIN given :
       /\ given[n].size >= 0
       /\ given[n].type \in DOMAIN Naturally =>
            given[n].size = Naturally[given[n].type]
  /\ EndOf(given, Len(given)) < LengthWord

\* The field with number k, behind the ones before it.  Its place and its size
\* are the given ones as far as 32 bits hold them.
Placed(given, k) ==
  [type |-> parse_field_type(given[k].type),
   size |-> given[k].size % SizeWord,
   offset |-> EndOf(given, k - 1) % SizeWord]

Layout(given) ==
  [fields |-> [k \in 1..Len(given) |-> Placed(given, k)],
   total_length |-> EndOf(given, Len(given)) % SizeWord]

EntriesOf(type) == {n \in DOMAIN document : document[n].key = <<type>>}

\* Each type of message gets the fields that stand under its own letter, one
\* behind the other, and the length they have together, whatever their sizes
\* are; a key of several letters gives its fields to none.
SpecOfOwnEntry ==
  entry = Len(document) =>
    \A t \in Types :
      IF EntriesOf(t) = {} THEN spec_by_type[t] = Unknown
      ELSE \E n \in EntriesOf(t) : spec_by_type[t] = Layout(document[n].fields)

\* Of a message of any length exactly the fields are printed that it holds
\* whole, each read from where the fields before it end to where it ends itself;
\* a length that is not the specification's is reported; and only an empty
\* message leaves no trace.
PrintsWhatFits ==
  pc = "done" =>
    /\ result = "empty" <=> msg_len = 0
    /\ result = "unknown" <=> msg_len # 0 /\ EntriesOf(msg_type) = {}
    /\ \A n \in EntriesOf(msg_type) :
         LET given == document[n].fields
             whole == {k \in 0..Len(given) : EndOf(given, k) <= msg_len}
         IN msg_len # 0 /\ Sensible(given) =>
              /\ i = Max(whole)
              /\ reads = [k \in 1..i |-> [from |-> EndOf(given, k - 1),
                                          to |-> EndOf(given, k)]]
              /\ result = IF i = Len(given) THEN "printed" ELSE "truncated"
              /\ mismatch = (EndOf(given, Len(given)) \notin {0, msg_len})
(***************************************************************************)
(* The inductive invariants behind them, beside IInv.                      *)
(***************************************************************************)

\* The first n of the given fields, as they are stored.
LaidOut(stored, given, n) ==
  /\ Len(stored) = n
  /\ \A k \in 1..n : stored[k] = Placed(given, k)

\* The entry under way is laid out as far as it has been read.
Underway ==
  IF Reading /\ NamesType(Element)
  THEN /\ Len(fields) <= Len(Element.fields)
       /\ LaidOut(fields, Element.fields, Len(fields))
       /\ offset = EndOf(Element.fields, Len(fields)) % SizeWord
  ELSE fields = <<>> /\ offset = 0

\* The entries before it are stored whole, each for its own type.
Stored ==
  \A t \in Types :
    /\ (\A n \in 1..entry : document[n].key # <<t>>) => spec_by_type[t] = Unknown
    /\ \A n \in 1..entry : document[n].key = <<t>> =>
         LET given == document[n].fields IN
           /\ spec_by_type[t] # Unknown
           /\ LaidOut(spec_by_type[t].fields, given, Len(given))
           /\ spec_by_type[t].total_length = EndOf(given, Len(given)) % SizeWord

Loaded == (pc # "load" => entry = Len(document)) /\ Underway /\ Stored

\* What each end of decode_itch_message has behind it.
Decoding ==
  /\ pc \in {"load", "call", "decode"} => result = "none"
  /\ pc = "done" => result # "none"
  /\ result = "empty" => msg_len = 0
  /\ result = "unknown" => msg_len # 0 /\ spec = Unknown
  /\ pc = "decode" \/ result \in {"truncated", "printed"} =>
       /\ msg_len # 0 /\ spec # Unknown
       /\ mismatch <=> spec.total_length # 0 /\ msg_len # spec.total_length % LengthWord
  /\ result = "truncated" => i < Len(spec.fields) /\ ~FitsMessage
  /\ result = "printed" => i = Len(spec.fields)
=============================================================================
