----------------------------- MODULE ItchDecode -----------------------------
(***************************************************************************)
(* load_spec, which lays the fields of each message type out one behind    *)
(* the other, and decode_itch_message, which prints a message by them.     *)
(***************************************************************************)
EXTENDS Integers, Sequences

CONSTANTS
  LengthWord,   \* 2^16: lengths of messages are below it
  SizeWord,     \* 2^32: sizes and offsets of fields are below it
  Types,        \* first characters of messages
  NoType,       \* before there is a message
  Documents,    \* the specifications to consider, as load_spec iterates them
  Lengths       \* the lengths of messages to consider

FieldTypes ==
  {"char", "uint8", "uint16", "uint32", "uint64",
   "int16", "int32", "int64", "string", "binary"}

\* A name and an array of fields, as they stand in the JSON.
DocumentEntry == [key: Seq(Types), fields: Seq([type: STRING, size: Int])]

ASSUME ItchAssumption ==
  /\ LengthWord \in Nat /\ SizeWord \in Nat
  /\ 0 < LengthWord /\ 2 * LengthWord <= SizeWord
  /\ Documents \subseteq Seq(DocumentEntry)
  /\ \A d \in Documents : \A i, j \in DOMAIN d : d[i].key = d[j].key => i = j
  /\ Lengths \subseteq 0..(LengthWord - 1)
  /\ NoType \notin Types

\* Stands for every specification of a type that is not in the map.
Unknown == [fields |-> <<>>, total_length |-> -1]

VARIABLES
  document, entry,      \* the specification and how far it has been read
  fields, offset,       \* the fields of the entry that is read, and their end
  spec_by_type,
  pc,                   \* "load", "call", "decode" or "done"
  msg_type, msg_len,    \* the message; its type is that of its first byte
  i,                    \* how many fields have been printed
  mismatch,             \* 'Length Mismatch' has been printed
  reads,                \* history: where the value of each field was read
  result                \* how decode_itch_message ended

loading == <<document, entry, fields, offset, spec_by_type>>
message == <<msg_type, msg_len>>
printing == <<i, mismatch, reads>>
vars == <<loading, pc, message, printing, result>>

Init ==
  /\ document \in Documents
  /\ entry = 0
  /\ fields = <<>>
  /\ offset = 0
  /\ spec_by_type = [t \in Types |-> Unknown]
  /\ pc = "load"
  /\ msg_type = NoType
  /\ msg_len = 0
  /\ i = 0
  /\ mismatch = FALSE
  /\ reads = <<>>
  /\ result = "none"

(***************************************************************************)
(* load_spec.                                                              *)
(***************************************************************************)

parse_field_type(name) == IF name \in FieldTypes THEN name ELSE "string"

\* Mutant: a size keeps the sign it is written with.
SignedSize(field) == field.size

\* The integer of the document becomes one of 32 bits without a sign.
Size(field) == field.size % SizeWord

\* Keys of more than one character name no message type.
NamesType(e) == Len(e.key) = 1

Reading == pc = "load" /\ entry < Len(document)

Element == document[entry + 1]

SkipEntry ==
  /\ Reading /\ ~NamesType(Element)
  /\ entry' = entry + 1
  /\ UNCHANGED <<document, fields, offset, spec_by_type, pc, message, printing, result>>

\* A field begins where the one before it ends.
LoadField ==
  /\ Reading /\ NamesType(Element)
  /\ Len(fields) < Len(Element.fields)
  /\ LET f == Element.fields[Len(fields) + 1] IN
       /\ fields' = Append(fields, [type |-> parse_field_type(f.type),
                                   size |-> Size(f), offset |-> offset])
       /\ offset' = (offset + Size(f)) % SizeWord
  /\ UNCHANGED <<document, entry, spec_by_type, pc, message, printing, result>>

\* Mutant: the next entry goes on where this one ends.
LoadEntryOnward ==
  /\ Reading /\ NamesType(Element)
  /\ Len(fields) = Len(Element.fields)
  /\ spec_by_type' = [spec_by_type EXCEPT ![Element.key[1]] =
                        [fields |-> fields, total_length |-> offset]]
  /\ entry' = entry + 1
  /\ fields' = <<>>
  /\ UNCHANGED <<document, offset, pc, message, printing, result>>

LoadEntry ==
  /\ Reading /\ NamesType(Element)
  /\ Len(fields) = Len(Element.fields)
  /\ spec_by_type' = [spec_by_type EXCEPT ![Element.key[1]] =
                        [fields |-> fields, total_length |-> offset]]
  /\ entry' = entry + 1
  /\ fields' = <<>>
  /\ offset' = 0
  /\ UNCHANGED <<document, pc, message, printing, result>>

(***************************************************************************)
(* decode_itch_message.                                                    *)
(***************************************************************************)

spec == spec_by_type[msg_type]

Return(how) == pc' = "done" /\ result' = how

\* A message of a packet, some time after load_spec has returned.
Call(type, len) ==
  /\ pc = "load" /\ entry = Len(document)
  /\ msg_type' = type
  /\ msg_len' = len
  /\ pc' = "call"
  /\ UNCHANGED <<loading, printing, result>>

DecodeEmpty ==
  /\ pc = "call"
  /\ msg_len = 0
  /\ Return("empty")
  /\ UNCHANGED <<loading, message, printing>>

DecodeUnknown ==
  /\ pc = "call"
  /\ msg_len # 0 /\ spec = Unknown
  /\ Return("unknown")
  /\ UNCHANGED <<loading, message, printing>>

DecodeKnown ==
  /\ pc = "call"
  /\ msg_len # 0 /\ spec # Unknown
  /\ pc' = "decode"
  /\ mismatch' = (spec.total_length # 0 /\ msg_len # spec.total_length % LengthWord)
  /\ UNCHANGED <<loading, message, i, reads, result>>

\* How many bytes print_field_value may read.  A precision below zero counts
\* as none: the string goes on until a zero byte, wherever that is.
Width(field) ==
  CASE field.type \in {"char", "uint8"} -> 1
    [] field.type \in {"uint16", "int16"} -> 2
    [] field.type \in {"uint32", "int32"} -> 4
    [] field.type \in {"uint64", "int64"} -> 8
    [] field.type = "string" /\ 2 * field.size >= SizeWord -> SizeWord
    [] OTHER -> field.size

Field == spec.fields[i + 1]

\* Mutant: a field that begins inside the message is printed.
BeginsInside == Field.offset < msg_len

\* Mutant: a field that ends with the message counts as cut.
EndsBefore == (Field.offset + Field.size) % SizeWord < msg_len

\* The sum is of two 32-bit numbers.
FitsMessage == (Field.offset + Field.size) % SizeWord <= msg_len

PrintField ==
  /\ pc = "decode" /\ i < Len(spec.fields)
  /\ FitsMessage
  /\ reads' = Append(reads, [from |-> Field.offset, to |-> Field.offset + Width(Field)])
  /\ i' = i + 1
  /\ UNCHANGED <<loading, pc, message, mismatch, result>>

TruncField ==
  /\ pc = "decode" /\ i < Len(spec.fields)
  /\ ~FitsMessage
  /\ Return("truncated")
  /\ UNCHANGED <<loading, message, printing>>

EndFields ==
  /\ pc = "decode" /\ i = Len(spec.fields)
  /\ Return("printed")
  /\ UNCHANGED <<loading, message, printing>>

Terminated == pc = "done" /\ UNCHANGED vars

Next ==
  \/ SkipEntry \/ LoadField \/ LoadEntry
  \/ \E type \in Types, len \in Lengths : Call(type, len)
  \/ DecodeEmpty \/ DecodeUnknown \/ DecodeKnown
  \/ PrintField \/ TruncField \/ EndFields
  \/ Terminated

Spec == Init /\ [][Next]_vars
-----------------------------------------------------------------------------
(***************************************************************************)
(* Properties.                                                             *)
(***************************************************************************)

FieldSpec == [type: FieldTypes, size: 0..(SizeWord - 1), offset: 0..(SizeWord - 1)]

MsgSpec == [fields: Seq(FieldSpec), total_length: 0..(SizeWord - 1)]

\* The variables hold values of their C++ types.
TypeOK ==
  /\ document \in Documents
  /\ entry \in 0..Len(document)
  /\ spec_by_type \in [Types -> MsgSpec \cup {Unknown}]
  /\ fields \in Seq(FieldSpec)
  /\ offset \in 0..(SizeWord - 1)
  /\ pc \in {"load", "call", "decode", "done"}
  /\ msg_type \in Types \cup {NoType}
  /\ msg_len \in 0..(LengthWord - 1)
  /\ i \in Nat
  /\ mismatch \in BOOLEAN
  /\ reads \in Seq([from: Nat, to: Nat])
  /\ result \in {"none", "empty", "unknown", "truncated", "printed"}

\* A field that holds a value of its type, and ends where 32 bits reach.
SoundField(field) ==
  Width(field) <= field.size /\ field.offset + field.size < SizeWord

\* The value of a field is read inside the message, whatever the other fields
\* are and however long the message is, if the size given for the field
\* is enough for its type (166-182 looks at the size, 47-83 reads by the type).
ReadsInside ==
  \A n \in 1..Len(reads) : SoundField(spec.fields[n]) => reads[n].to <= msg_len

\* The inductive invariant: each field printed fitted, and was read from where
\* it begins as far as its type goes.
IInv ==
  /\ TypeOK
  /\ i = Len(reads)
  /\ pc \in {"load", "call"} => i = 0
  /\ pc # "load" => msg_type \in Types
  /\ pc = "decode" \/ i > 0 => spec # Unknown /\ i <= Len(spec.fields)
  /\ \A n \in 1..i :
       LET f == spec.fields[n] IN
         /\ (f.offset + f.size) % SizeWord <= msg_len
         /\ reads[n] = [from |-> f.offset, to |-> f.offset + Width(f)]
=============================================================================
