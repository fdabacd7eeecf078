-------------------------- MODULE ItchDecodeProofs --------------------------
(***************************************************************************)
(* For every specification and every message: the types of the decoder,    *)
(* that it reads a sound field inside the message only, that each type of  *)
(* message gets its own fields, and which of them are printed.             *)
(***************************************************************************)
EXTENDS ItchLayout, Induction

\* What the assumption says of the sizes.
LEMMA Words == /\ LengthWord \in Nat \ {0} /\ SizeWord \in Nat \ {0}
               /\ LengthWord <= SizeWord
               /\ Lengths \subseteq 0..(LengthWord - 1)
               /\ NoType \notin Types
  BY ItchAssumption

\* A remainder modulo a word is a number of its range.
LEMMA Remainder == ASSUME NEW w \in Nat \ {0}, NEW v \in Int
                   PROVE  v % w \in 0..(w - 1) /\ v % w \in Nat
  OBVIOUS

\* Below the word a number is its own remainder.
LEMMA OwnRemainder == ASSUME NEW w \in Nat \ {0}, NEW v \in 0..(w - 1)
                      PROVE  v % w = v
  OBVIOUS

\* Division leaves a remainder below the divisor, and only that one.
LEMMA Division ==
  ASSUME NEW w \in Nat \ {0}, NEW v \in Int
  PROVE  v % w \in 0..(w - 1) /\ v \div w \in Int /\ v = w * (v \div w) + (v % w)
  OBVIOUS

LEMMA OnlyRemainder ==
  ASSUME NEW w \in Nat \ {0}, NEW q \in Int, NEW r \in 0..(w - 1)
  PROVE  (w * q + r) % w = r
  OBVIOUS

LEMMA Distributes ==
  ASSUME NEW w \in Int, NEW p \in Int, NEW q \in Int, NEW r \in Int
  PROVE  (w * p) + (w * q) + (w * r) = w * (p + q + r)
  OBVIOUS

\* Brought into the word before or after they are added, numbers come to the
\* same.
LEMMA SumOfRemainders ==
  ASSUME NEW w \in Nat \ {0}, NEW u \in Int, NEW v \in Int
  PROVE  ((u % w) + (v % w)) % w = (u + v) % w
  <1>. DEFINE x == u % w
              y == v % w
              z == x + y
              p == u \div w
              q == v \div w
              r == z \div w
  <1>1. x \in 0..(w - 1) /\ p \in Int /\ u = w * p + x
    BY Division
  <1>2. y \in 0..(w - 1) /\ q \in Int /\ v = w * q + y
    BY Division
  <1>3. z \in Int
    BY <1>1, <1>2
  <1>4. z % w \in 0..(w - 1) /\ r \in Int /\ z = w * r + (z % w)
    BY <1>3, Division
  <1>. HIDE DEF p, q, r
  <1>5. p + q + r \in Int /\ w * p + w * q + w * r = w * (p + q + r)
    BY <1>1, <1>2, <1>4, Distributes
  <1>6. u + v = w * (p + q + r) + (z % w)
    <2>. DEFINE a == w * p
                b == w * q
                c == w * r
                m == z % w
    <2>1. a \in Int /\ b \in Int /\ c \in Int /\ m \in Int /\ x \in Int /\ y \in Int
      BY <1>1, <1>2, <1>4
    <2>2. u = a + x /\ v = b + y /\ x + y = c + m /\ w * (p + q + r) = a + b + c
      BY <1>1, <1>2, <1>4, <1>5
    <2>. HIDE DEF a, b, c, m, x, y
    <2>3. u + v = (a + b + c) + m
      BY <2>1, <2>2
    <2>. QED BY <2>2, <2>3 DEF m
  <1>. HIDE DEF z
  <1>7. (w * (p + q + r) + (z % w)) % w = z % w
    BY <1>4, <1>5, OnlyRemainder
  <1>. QED BY <1>6, <1>7 DEF z

\* One more at the end of a sequence, and the others as they were.
LEMMA Appended ==
  ASSUME NEW S, NEW s \in Seq(S), NEW e \in S
  PROVE  /\ Append(s, e) \in Seq(S)
         /\ Len(Append(s, e)) = Len(s) + 1
         /\ Append(s, e)[Len(s) + 1] = e
         /\ \A n \in 1..Len(s) : Append(s, e)[n] = s[n]
  OBVIOUS

\* The entry that load_spec reads.
LEMMA ElementType ==
  ASSUME TypeOK, Reading
  PROVE  Element \in DocumentEntry
  <1>1. document \in Seq(DocumentEntry)
    BY ItchAssumption DEF TypeOK
  <1>2. entry \in 0..Len(document) /\ entry < Len(document) /\ Len(document) \in Nat
    BY <1>1 DEF TypeOK, Reading
  <1>3. entry + 1 \in 1..Len(document)
    BY <1>2
  <1>. QED BY <1>1, <1>3 DEF Element

\* Whatever a field is, it has a width.
LEMMA WidthType ==
  ASSUME NEW field \in FieldSpec
  PROVE  Width(field) \in Nat /\ field.size \in Nat /\ field.offset \in Nat
  <1>1. field.size \in Nat /\ field.offset \in Nat /\ field.type \in FieldTypes
    BY Words DEF FieldSpec
  <1>2. SizeWord \in Nat
    BY Words
  <1>. QED BY <1>1, <1>2 DEF Width

\* Nothing is loaded or printed at the start.
LEMMA InitIInv == Init => IInv
  <1>. SUFFICES ASSUME Init PROVE IInv
    OBVIOUS
  <1>1. document \in Seq(DocumentEntry)
    BY ItchAssumption DEF Init
  <1>2. Len(document) \in Nat
    BY <1>1
  <1>3. 0 \in 0..Len(document) /\ 0 \in 0..(SizeWord - 1) /\ 0 \in 0..(LengthWord - 1)
    BY <1>2, Words
  <1>4. spec_by_type \in [Types -> MsgSpec \cup {Unknown}]
    BY DEF Init
  <1>5. fields \in Seq(FieldSpec) /\ reads \in Seq([from: Nat, to: Nat]) /\ Len(reads) = 0
    BY DEF Init
  <1>6. TypeOK
    BY <1>3, <1>4, <1>5 DEF Init, TypeOK
  <1>. QED BY <1>5, <1>6 DEF Init, IInv

\* load_spec lays out fields of 32 bits.
LEMMA LoadKeeps ==
  ASSUME IInv, SkipEntry \/ LoadField \/ LoadEntry
  PROVE  IInv'
  <1>. USE DEF loading, message, printing
  <1>1. TypeOK /\ Reading /\ i = 0
    BY DEF IInv, SkipEntry, LoadField, LoadEntry, Reading
  <1>2. /\ UNCHANGED <<document, pc, message, printing, result>>
        /\ entry' \in {entry, entry + 1}
    BY DEF SkipEntry, LoadField, LoadEntry
  <1>3. entry' \in 0..Len(document')
    <2>1. document \in Seq(DocumentEntry)
      BY <1>1, ItchAssumption DEF TypeOK
    <2>2. Len(document) \in Nat /\ entry \in 0..Len(document) /\ entry < Len(document)
      BY <1>1, <2>1 DEF TypeOK, Reading
    <2>. QED BY <1>2, <2>2
  <1>4. fields' \in Seq(FieldSpec) /\ offset' \in 0..(SizeWord - 1)
    <2>1. CASE SkipEntry
      BY <1>1, <2>1 DEF SkipEntry, TypeOK
    <2>2. CASE LoadField
      <3>1. Element \in DocumentEntry /\ Len(fields) \in Nat
        BY <1>1, ElementType DEF TypeOK
      <3>2. /\ Element.fields \in Seq([type: STRING, size: Int])
            /\ Len(fields) + 1 \in 1..Len(Element.fields)
        BY <2>2, <3>1 DEF LoadField, DocumentEntry
      <3>. DEFINE f == Element.fields[Len(fields) + 1]
      <3>3. f.size \in Int
        <4>1. ASSUME NEW S, NEW s \in Seq(S), NEW n \in 1..Len(s) PROVE s[n] \in S
          BY <4>1
        <4>2. f \in [type: STRING, size: Int]
          BY <3>2, <4>1
        <4>. QED BY <4>2
      <3>4. parse_field_type(f.type) \in FieldTypes
        BY DEF parse_field_type, FieldTypes
      <3>5. Size(f) \in 0..(SizeWord - 1) /\ Size(f) \in Nat
        BY <3>3, Words, Remainder DEF Size
      <3>6. fields' = Append(fields, [type |-> parse_field_type(f.type),
                                      size |-> Size(f), offset |-> offset])
            /\ offset' = (offset + Size(f)) % SizeWord
        BY <2>2 DEF LoadField
      <3>. HIDE DEF f
      <3>7. offset \in 0..(SizeWord - 1) /\ offset \in Int /\ fields \in Seq(FieldSpec)
        BY <1>1 DEF TypeOK
      <3>8. offset + Size(f) \in Int
        BY <3>5, <3>7
      <3>9. offset' \in 0..(SizeWord - 1)
        BY <3>6, <3>8, Words, Remainder
      <3>10. [type |-> parse_field_type(f.type), size |-> Size(f), offset |-> offset]
               \in FieldSpec
        BY <3>4, <3>5, <3>7 DEF FieldSpec
      <3>. QED BY <3>6, <3>7, <3>9, <3>10, Appended
    <2>3. CASE LoadEntry
      <3>1. 0 \in 0..(SizeWord - 1)
        BY Words
      <3>. QED BY <2>3, <3>1 DEF LoadEntry
    <2>. QED BY <2>1, <2>2, <2>3
  <1>5. spec_by_type' \in [Types -> MsgSpec \cup {Unknown}]
    <2>1. spec_by_type \in [Types -> MsgSpec \cup {Unknown}]
      BY <1>1 DEF TypeOK
    <2>2. CASE LoadEntry
      <3>1. [fields |-> fields, total_length |-> offset] \in MsgSpec
        BY <1>1 DEF TypeOK, MsgSpec
      <3>. QED BY <2>1, <2>2, <3>1 DEF LoadEntry
    <2>3. CASE ~LoadEntry
      BY <2>1, <2>3 DEF SkipEntry, LoadField
    <2>. QED BY <2>2, <2>3
  <1>6. TypeOK'
    BY <1>1, <1>2, <1>3, <1>4, <1>5 DEF TypeOK
  <1>7. pc' = "load" /\ i' = 0 /\ i' = Len(reads')
    BY <1>1, <1>2 DEF IInv, Reading
  <1>. QED BY <1>6, <1>7 DEF IInv

\* The specification that is used is one that load_spec built.
LEMMA SpecType ==
  ASSUME IInv, pc = "decode"
  PROVE  spec \in MsgSpec /\ spec.fields \in Seq(FieldSpec) /\ Len(spec.fields) \in Nat
  <1>1. spec \in MsgSpec
    BY DEF IInv, TypeOK, spec
  <1>2. spec.fields \in Seq(FieldSpec)
    BY <1>1 DEF MsgSpec
  <1>. QED BY <1>1, <1>2

\* A message is taken up, or given back; nothing is read.
LEMMA CallKeeps ==
  ASSUME IInv,
         \/ \E type \in Types, len \in Lengths : Call(type, len)
         \/ DecodeEmpty \/ DecodeUnknown \/ DecodeKnown
  PROVE  IInv'
  <1>. USE DEF loading, message, printing
  <1>1. TypeOK /\ i = 0 /\ i = Len(reads) /\ pc \in {"load", "call"}
        /\ (pc # "load" => msg_type \in Types)
    BY DEF IInv, Call, DecodeEmpty, DecodeUnknown, DecodeKnown
  <1>2. /\ UNCHANGED <<loading, i, reads>>
        /\ pc' \in {"call", "decode", "done"}
        /\ mismatch' \in BOOLEAN
        /\ result' \in {"none", "empty", "unknown", "truncated", "printed"}
    BY <1>1 DEF Call, DecodeEmpty, DecodeUnknown, DecodeKnown, Return, TypeOK
  <1>3. msg_type' \in Types /\ msg_len' \in 0..(LengthWord - 1)
    BY <1>1, Words DEF Call, DecodeEmpty, DecodeUnknown, DecodeKnown, TypeOK
  <1>4. TypeOK'
    BY <1>1, <1>2, <1>3 DEF TypeOK
  <1>5. pc' = "decode" => DecodeKnown /\ spec # Unknown /\ spec' = spec
    BY <1>1 DEF Call, DecodeEmpty, DecodeUnknown, DecodeKnown, Return, spec
  <1>6. pc' = "decode" => spec' # Unknown /\ i' <= Len(spec'.fields)
    <2>. SUFFICES ASSUME pc' = "decode" PROVE spec' # Unknown /\ i' <= Len(spec'.fields)
      OBVIOUS
    <2>1. spec \in MsgSpec
      BY <1>1, <1>5 DEF TypeOK, spec, DecodeKnown
    <2>2. Len(spec.fields) \in Nat
      BY <2>1 DEF MsgSpec
    <2>. QED BY <1>1, <1>2, <1>5, <2>2
  <1>7. i' = 0 /\ i' = Len(reads') /\ ~(i' > 0) /\ pc' # "load"
    BY <1>1, <1>2
  <1>. QED BY <1>3, <1>4, <1>6, <1>7 DEF IInv

\* A field is read if it fits, from where it begins.
LEMMA PrintKeeps ==
  ASSUME IInv, PrintField
  PROVE  IInv'
  <1>. USE DEF loading, message, printing
  <1>1. /\ TypeOK /\ pc = "decode" /\ i = Len(reads) /\ i \in Nat
        /\ i < Len(spec.fields) /\ FitsMessage /\ msg_type \in Types
        /\ reads \in Seq([from: Nat, to: Nat]) /\ spec # Unknown
    BY DEF IInv, PrintField, TypeOK
  <1>2. spec.fields \in Seq(FieldSpec) /\ Len(spec.fields) \in Nat
    BY <1>1, SpecType
  <1>3. i + 1 \in 1..Len(spec.fields) /\ i' = i + 1 /\ i + 1 \in Nat
    BY <1>1, <1>2 DEF PrintField
  <1>. DEFINE f == spec.fields[i + 1]
              r == [from |-> f.offset, to |-> f.offset + Width(f)]
  <1>4. f \in FieldSpec
    BY <1>2, <1>3
  <1>5. (f.offset + f.size) % SizeWord <= msg_len
    BY <1>1 DEF FitsMessage, Field
  <1>6. reads' = Append(reads, r)
    BY DEF PrintField, Field
  <1>7. UNCHANGED <<loading, pc, message, mismatch, result, spec>>
    BY DEF PrintField, spec
  <1>. HIDE DEF f
  <1>8. r \in [from: Nat, to: Nat]
    BY <1>4, WidthType
  <1>9. /\ reads' \in Seq([from: Nat, to: Nat]) /\ Len(reads') = i + 1
        /\ reads'[i + 1] = r
        /\ \A n \in 1..i : reads'[n] = reads[n]
    BY <1>1, <1>6, <1>8, Appended
  <1>10. TypeOK'
    BY <1>1, <1>3, <1>7, <1>9 DEF TypeOK
  <1>11. ASSUME NEW n \in 1..i'
         PROVE  LET g == spec'.fields[n] IN
                  /\ (g.offset + g.size) % SizeWord <= msg_len'
                  /\ reads'[n] = [from |-> g.offset, to |-> g.offset + Width(g)]
    <2>1. CASE n = i + 1
      BY <1>5, <1>7, <1>9, <2>1 DEF f
    <2>2. CASE n # i + 1
      <3>1. n \in 1..i
        BY <1>1, <1>3, <2>2
      <3>2. /\ (spec.fields[n].offset + spec.fields[n].size) % SizeWord <= msg_len
            /\ reads[n] = [from |-> spec.fields[n].offset,
                           to |-> spec.fields[n].offset + Width(spec.fields[n])]
        BY <3>1 DEF IInv
      <3>. QED BY <1>7, <1>9, <3>1, <3>2
    <2>. QED BY <2>1, <2>2
  <1>12. i' = Len(reads') /\ pc' = "decode" /\ msg_type' \in Types /\ spec' # Unknown
         /\ i' <= Len(spec'.fields)
    BY <1>1, <1>2, <1>3, <1>7, <1>9
  <1>. QED BY <1>10, <1>11, <1>12 DEF IInv

\* At the end nothing more is read.
LEMMA EndKeeps ==
  ASSUME IInv, TruncField \/ EndFields \/ UNCHANGED vars
  PROVE  IInv'
  <1>. USE DEF loading, message, printing
  <1>1. /\ UNCHANGED <<loading, message, printing, spec>>
        /\ \/ pc' = pc /\ result' = result
           \/ pc = "decode" /\ pc' = "done" /\ result' \in {"truncated", "printed"}
    BY DEF TruncField, EndFields, Return, vars, spec
  <1>2. TypeOK'
    BY <1>1 DEF IInv, TypeOK
  <1>3. /\ i' = Len(reads')
        /\ pc' \in {"load", "call"} => i' = 0
        /\ pc' # "load" => msg_type' \in Types
        /\ pc' = "decode" \/ i' > 0 => spec' # Unknown /\ i' <= Len(spec'.fields)
    BY <1>1 DEF IInv
  <1>4. ASSUME NEW n \in 1..i'
        PROVE  LET g == spec'.fields[n] IN
                 /\ (g.offset + g.size) % SizeWord <= msg_len'
                 /\ reads'[n] = [from |-> g.offset, to |-> g.offset + Width(g)]
    BY <1>1 DEF IInv
  <1>. QED BY <1>2, <1>3, <1>4 DEF IInv

\* The invariant holds throughout.
THEOREM Invariance == Spec => []IInv
  <1>1. IInv /\ [Next]_vars => IInv'
    BY LoadKeeps, CallKeeps, PrintKeeps, EndKeeps DEF Next, Terminated
  <1>. QED BY <1>1, InitIInv, PTL DEF Spec

\* Sizes and offsets stay numbers of 32 bits, and the maps well-formed.
THEOREM TypeCorrect == Spec => []TypeOK
  <1>1. IInv => TypeOK
    BY DEF IInv
  <1>. QED BY <1>1, Invariance, PTL

\* No specification and no length make decode_itch_message read a sound field
\* past the end of its message.
THEOREM SoundFieldsInside == Spec => []ReadsInside
  <1>1. ASSUME IInv PROVE ReadsInside
    <2>. SUFFICES ASSUME NEW n \in 1..Len(reads), SoundField(spec.fields[n])
                  PROVE  reads[n].to <= msg_len
      BY DEF ReadsInside
    <2>. DEFINE f == spec.fields[n]
    <2>1. /\ TypeOK /\ i = Len(reads) /\ i \in Nat
          /\ i > 0 => spec # Unknown /\ i <= Len(spec.fields)
          /\ pc \in {"load", "call"} => i = 0
          /\ pc # "load" => msg_type \in Types
      BY <1>1 DEF IInv, TypeOK
    <2>2. n \in 1..i /\ i > 0
      BY <2>1
    <2>3. spec \in MsgSpec
      BY <2>1, <2>2 DEF TypeOK, spec
    <2>4. n \in 1..Len(spec.fields) /\ spec.fields \in Seq(FieldSpec)
      <3>1. spec.fields \in Seq(FieldSpec)
        BY <2>3 DEF MsgSpec
      <3>2. Len(spec.fields) \in Nat
        BY <3>1
      <3>. QED BY <2>1, <2>2, <3>1, <3>2
    <2>5. /\ (f.offset + f.size) % SizeWord <= msg_len
          /\ reads[n] = [from |-> f.offset, to |-> f.offset + Width(f)]
      BY <1>1, <2>2 DEF IInv
    <2>6. f \in FieldSpec
      BY <2>4
    <2>7. Width(f) \in Nat /\ f.size \in Nat /\ f.offset \in Nat
      BY <2>6, WidthType
    <2>8. Width(f) <= f.size /\ f.offset + f.size < SizeWord
      BY DEF SoundField
    <2>. HIDE DEF f
    <2>9. f.offset + f.size \in 0..(SizeWord - 1)
      BY <2>7, <2>8, Words
    <2>10. (f.offset + f.size) % SizeWord = f.offset + f.size
      BY <2>9, Words, OwnRemainder
    <2>11. msg_len \in Int
      BY <2>1, Words DEF TypeOK
    <2>. QED BY <2>5, <2>7, <2>8, <2>10, <2>11
  <1>. QED BY <1>1, Invariance, PTL
-----------------------------------------------------------------------------
(***************************************************************************)
(* Where fields end.                                                       *)
(***************************************************************************)

GivenField == [type: STRING, size: Int]

\* Ends is what its recursive definition says.
LEMMA EndsFacts ==
  ASSUME NEW given \in Seq(GivenField)
  PROVE  /\ Ends(given) \in [0..Len(given) -> Int]
         /\ EndOf(given, 0) = 0
         /\ \A k \in 1..Len(given) :
              EndOf(given, k) = EndOf(given, k - 1) + given[k].size
  <1>. DEFINE n == Len(given)
              step == [s \in (1..n) \X Int |-> s[2] + given[s[1]].size]
              Run(f) == f = [k \in 0..n |->
                               IF k = 0 THEN 0 ELSE f[k - 1] + given[k].size]
  <1>1. n \in Nat /\ \A k \in 1..n : given[k].size \in Int
    <2>1. n \in Nat /\ \A k \in 1..n : given[k] \in GivenField
      OBVIOUS
    <2>. QED BY <2>1 DEF GivenField
  <1>2. step \in [(1..n) \X Int -> Int]
    BY <1>1
  <1>3. \A k \in 1..n : \A e \in Int : step[<<k, e>>] = e + given[k].size
    OBVIOUS
  <1>. HIDE DEF step, n
  <1>4. PICK f : IsRun(f, n, Int, 0, step)
    <2>1. n \in Nat /\ 0 \in Int
      BY <1>1
    <2>. QED BY <1>2, <2>1, Iteration, Zenon
  <1>5. \A k \in 1..n : f[k - 1] \in Int
    BY <1>1, <1>4 DEF IsRun
  <1>6. Run(f)
    <2>1. ASSUME NEW k \in 0..n
          PROVE  f[k] = IF k = 0 THEN 0 ELSE f[k - 1] + given[k].size
      <3>1. CASE k = 0
        BY <1>4, <3>1 DEF IsRun
      <3>2. CASE k # 0
        <4>1. k \in 1..n
          BY <1>1, <3>2
        <4>. QED BY <1>3, <1>4, <1>5, <3>2, <4>1 DEF IsRun
      <3>. QED BY <3>1, <3>2
    <2>. QED BY <1>4, <2>1 DEF IsRun
  <1>7. Ends(given) = CHOOSE end : Run(end)
    BY DEF Ends, n
  <1>8. Run(Ends(given))
    BY <1>6, <1>7
  <1>. DEFINE end == Ends(given)
  <1>9. /\ end = [k \in 0..n |-> end[k]] /\ end[0] = 0
        /\ \A k \in 1..n : end[k] = end[k - 1] + given[k].size
    <2>. HIDE DEF end
    <2>1. end = [k \in 0..n |-> IF k = 0 THEN 0 ELSE end[k - 1] + given[k].size]
      BY <1>8 DEF end
    <2>2. 0 \in 0..n /\ \A k \in 1..n : k \in 0..n /\ k # 0
      BY <1>1
    <2>. QED BY <2>1, <2>2
  <1>10. \A k \in 0..n : end[k] \in Int
    <2>. DEFINE P == {k \in 0..n : end[k] \in Int}
    <2>. HIDE DEF end
    <2>1. 0 \in P
      BY <1>1, <1>9
    <2>2. ASSUME NEW k \in 0..(n - 1), k \in P PROVE k + 1 \in P
      <3>1. k + 1 \in 1..n /\ (k + 1) - 1 = k
        BY <1>1
      <3>2. end[k + 1] = end[k] + given[k + 1].size
        BY <1>9, <3>1
      <3>. QED BY <1>1, <2>2, <3>1, <3>2
    <2>3. 0..n \subseteq P
      <3>. HIDE DEF P
      <3>. QED BY <1>1, <2>1, <2>2, BoundedInduction
    <2>. QED BY <2>3
  <1>. QED BY <1>9, <1>10 DEF n, EndOf

\* In a sensible specification nothing wraps, and a field ends no later than
\* the ones behind it.
LEMMA SensibleFacts ==
  ASSUME NEW given \in Seq(GivenField), Sensible(given)
  PROVE  /\ \A k \in 0..Len(given) : EndOf(given, k) \in 0..(LengthWord - 1)
         /\ \A k \in 1..Len(given) :
              /\ given[k].size \in 0..(LengthWord - 1)
              /\ Size(given[k]) = given[k].size
         /\ \A j, k \in 0..Len(given) : j <= k => EndOf(given, j) <= EndOf(given, k)
  <1>. DEFINE n == Len(given)
              P == {k \in 0..n : \A j \in 0..k : EndOf(given, j) <= EndOf(given, k)}
  <1>1. n \in Nat /\ \A k \in 1..n : given[k].size \in Nat
    <2>1. n \in Nat /\ \A k \in 1..n : given[k] \in GivenField /\ k \in DOMAIN given
      OBVIOUS
    <2>. QED BY <2>1 DEF GivenField, Sensible
  <1>2. /\ \A k \in 0..n : EndOf(given, k) \in Int
        /\ EndOf(given, 0) = 0
        /\ \A k \in 1..n : EndOf(given, k) = EndOf(given, k - 1) + given[k].size
    BY EndsFacts DEF EndOf
  <1>3. EndOf(given, n) < LengthWord
    BY DEF Sensible
  <1>. HIDE DEF n
  <1>4. 0 \in P
    BY <1>1, <1>2
  <1>5. ASSUME NEW k \in 0..(n - 1), k \in P PROVE k + 1 \in P
    <2>1. k + 1 \in 1..n /\ (k + 1) - 1 = k /\ k \in 0..n /\ k + 1 \in 0..n
      BY <1>1
    <2>2. EndOf(given, k + 1) = EndOf(given, k) + given[k + 1].size
      BY <1>2, <2>1
    <2>3. given[k + 1].size \in Nat /\ EndOf(given, k) \in Int
      BY <1>1, <1>2, <2>1
    <2>4. ASSUME NEW j \in 0..(k + 1) PROVE EndOf(given, j) <= EndOf(given, k + 1)
      <3>1. CASE j = k + 1
        BY <2>2, <2>3, <3>1
      <3>2. CASE j \in 0..k
        <4>1. EndOf(given, j) <= EndOf(given, k) /\ j \in 0..n
          BY <1>1, <1>5, <3>2
        <4>2. EndOf(given, j) \in Int
          BY <1>2, <4>1
        <4>. QED BY <2>2, <2>3, <4>1, <4>2
      <3>. QED BY <3>1, <3>2
    <2>. QED BY <2>1, <2>4
  <1>6. 0..n \subseteq P
    <2>. HIDE DEF P
    <2>. QED BY <1>1, <1>4, <1>5, BoundedInduction
  <1>7. \A j, k \in 0..n : j <= k => EndOf(given, j) <= EndOf(given, k)
    BY <1>6
  <1>8. LengthWord \in Nat \ {0} /\ SizeWord \in Nat \ {0} /\ LengthWord <= SizeWord
    BY Words
  <1>9. \A k \in 0..n : EndOf(given, k) \in 0..(LengthWord - 1)
    <2>. SUFFICES ASSUME NEW k \in 0..n PROVE EndOf(given, k) \in 0..(LengthWord - 1)
      OBVIOUS
    <2>1. 0 \in 0..n /\ n \in 0..n /\ 0 <= k /\ k <= n
      BY <1>1
    <2>2. EndOf(given, 0) <= EndOf(given, k) /\ EndOf(given, k) <= EndOf(given, n)
      BY <1>7, <2>1
    <2>3. EndOf(given, k) \in Int /\ EndOf(given, n) \in Int
      BY <1>2, <2>1
    <2>. QED BY <1>2, <1>3, <1>8, <2>2, <2>3
  <1>10. ASSUME NEW k \in 1..n
         PROVE  given[k].size \in 0..(LengthWord - 1) /\ Size(given[k]) = given[k].size
    <2>1. k \in 0..n /\ k - 1 \in 0..n
      BY <1>1
    <2>2. /\ EndOf(given, k) \in 0..(LengthWord - 1)
          /\ EndOf(given, k - 1) \in 0..(LengthWord - 1)
      BY <1>9, <2>1
    <2>3. given[k].size \in Nat /\ EndOf(given, k) = EndOf(given, k - 1) + given[k].size
      BY <1>1, <1>2
    <2>4. given[k].size \in 0..(LengthWord - 1) /\ given[k].size \in 0..(SizeWord - 1)
      BY <1>8, <2>2, <2>3
    <2>5. given[k].size % SizeWord = given[k].size
      BY <1>8, <2>4, OwnRemainder
    <2>. QED BY <2>4, <2>5 DEF Size
  <1>. QED BY <1>7, <1>9, <1>10 DEF n
-----------------------------------------------------------------------------
(***************************************************************************)
(* What load_spec stores.                                                  *)
(***************************************************************************)

\* The entries of a document, no two of them under one key.
LEMMA DocumentFacts ==
  ASSUME TypeOK
  PROVE  /\ Len(document) \in Nat /\ DOMAIN document = 1..Len(document)
         /\ entry \in 0..Len(document)
         /\ \A n \in 1..Len(document) :
              /\ document[n].key \in Seq(Types)
              /\ document[n].fields \in Seq(GivenField)
         /\ \A m, n \in 1..Len(document) : document[m].key = document[n].key => m = n
  <1>1. document \in Seq(DocumentEntry) /\ document \in Documents
    BY ItchAssumption DEF TypeOK
  <1>2. Len(document) \in Nat /\ DOMAIN document = 1..Len(document)
    BY <1>1
  <1>3. \A n \in 1..Len(document) : document[n] \in DocumentEntry
    BY <1>1
  <1>4. \A n \in 1..Len(document) :
          /\ document[n].key \in Seq(Types)
          /\ document[n].fields \in Seq(GivenField)
    BY <1>3 DEF DocumentEntry, GivenField
  <1>5. \A m, n \in DOMAIN document : document[m].key = document[n].key => m = n
    BY <1>1, ItchAssumption
  <1>. QED BY <1>2, <1>4, <1>5 DEF TypeOK

\* At the beginning of an entry nothing of it has been laid out.
LEMMA FreshEntry ==
  ASSUME TypeOK, fields = <<>>, offset = 0
  PROVE  Underway
  <1>. SUFFICES ASSUME Reading, NamesType(Element)
                PROVE  /\ Len(fields) <= Len(Element.fields)
                       /\ LaidOut(fields, Element.fields, Len(fields))
                       /\ offset = EndOf(Element.fields, Len(fields)) % SizeWord
    BY DEF Underway
  <1>1. entry + 1 \in 1..Len(document)
    BY DocumentFacts DEF Reading
  <1>2. Element.fields \in Seq(GivenField)
    BY <1>1, DocumentFacts DEF Element
  <1>3. Len(fields) = 0 /\ Len(Element.fields) \in Nat
    BY <1>2
  <1>4. EndOf(Element.fields, 0) % SizeWord = 0
    <2>1. EndOf(Element.fields, 0) = 0
      BY <1>2, EndsFacts
    <2>2. SizeWord \in Nat \ {0} /\ 0 \in 0..(SizeWord - 1)
      BY Words
    <2>. QED BY <2>1, <2>2, OwnRemainder
  <1>. QED BY <1>3, <1>4 DEF LaidOut

\* The same of the state after a step.
LEMMA FreshEntryAfter ==
  ASSUME TypeOK', fields' = <<>>, offset' = 0
  PROVE  Underway'
  <1>1. (TypeOK /\ fields = <<>> /\ offset = 0 => Underway)'
    BY FreshEntry, PTL
  <1>. QED BY <1>1

\* Before the first entry nothing is stored.
LEMMA InitLoaded == Init => Loaded
  <1>. SUFFICES ASSUME Init PROVE Loaded
    OBVIOUS
  <1>1. TypeOK /\ fields = <<>> /\ offset = 0 /\ entry = 0 /\ pc = "load"
    BY InitIInv DEF Init, IInv
  <1>2. Underway
    BY <1>1, FreshEntry
  <1>3. Stored
    BY <1>1 DEF Init, Stored
  <1>. QED BY <1>1, <1>2, <1>3 DEF Loaded

\* A field is laid out behind the others of its entry.
LEMMA FieldLoaded ==
  ASSUME IInv, Loaded, LoadField
  PROVE  Loaded'
  <1>. DEFINE given == Element.fields
              n == Len(fields)
              f == given[n + 1]
              laid == [type |-> parse_field_type(f.type), size |-> Size(f), offset |-> offset]
  <1>1. /\ UNCHANGED <<document, entry, spec_by_type, pc>>
        /\ Reading /\ NamesType(Element) /\ n < Len(given)
        /\ fields' = Append(fields, laid)
        /\ offset' = (offset + Size(f)) % SizeWord
    BY DEF LoadField
  <1>2. TypeOK /\ fields \in Seq(FieldSpec) /\ n \in Nat
    BY DEF IInv, TypeOK
  <1>3. given \in Seq(GivenField) /\ Len(given) \in Nat
    <2>1. entry + 1 \in 1..Len(document)
      BY <1>1, <1>2, DocumentFacts DEF Reading
    <2>2. given \in Seq(GivenField)
      BY <1>2, <2>1, DocumentFacts DEF Element
    <2>. QED BY <2>2
  <1>4. LaidOut(fields, given, n) /\ offset = EndOf(given, n) % SizeWord
    BY <1>1 DEF Loaded, Underway
  <1>5. Reading' /\ Element' = Element
    BY <1>1 DEF Reading, Element
  <1>. HIDE DEF laid
  <1>6. /\ Len(fields') = n + 1 /\ fields'[n + 1] = laid
        /\ \A k \in 1..n : fields'[k] = fields[k]
    BY <1>1, <1>2
  <1>. HIDE DEF given, n, f
  <1>7. n + 1 \in 1..Len(given) /\ (n + 1) - 1 = n /\ n + 1 <= Len(given)
    BY <1>1, <1>2, <1>3
  <1>8. LaidOut(fields', given, n + 1)
    <2>. SUFFICES ASSUME NEW k \in 1..(n + 1) PROVE fields'[k] = Placed(given, k)
      BY <1>6 DEF LaidOut
    <2>1. CASE k = n + 1
      BY <1>4, <1>6, <1>7, <2>1 DEF laid, f, Placed, Size
    <2>2. CASE k \in 1..n
      BY <1>4, <1>6, <2>2 DEF LaidOut
    <2>. QED BY <1>2, <2>1, <2>2
  <1>9. offset' = EndOf(given, n + 1) % SizeWord
    <2>1. EndOf(given, n) \in Int /\ f.size \in Int
          /\ EndOf(given, n + 1) = EndOf(given, n) + f.size
      <3>1. n \in 0..Len(given) /\ n + 1 \in 1..Len(given)
        BY <1>2, <1>3, <1>7
      <3>2. f \in GivenField
        BY <1>3, <3>1 DEF f
      <3>. QED BY <1>3, <1>7, <3>1, <3>2, EndsFacts DEF f, EndOf, GivenField
    <2>2. SizeWord \in Nat \ {0}
      BY Words
    <2>3. offset' = ((EndOf(given, n) % SizeWord) + (f.size % SizeWord)) % SizeWord
      BY <1>1, <1>4 DEF Size
    <2>. DEFINE u == EndOf(given, n)
                v == f.size
    <2>4. u \in Int /\ v \in Int /\ EndOf(given, n + 1) = u + v
      BY <2>1
    <2>. HIDE DEF u, v
    <2>5. ((u % SizeWord) + (v % SizeWord)) % SizeWord = (u + v) % SizeWord
      BY <2>2, <2>4, SumOfRemainders
    <2>. QED BY <2>3, <2>4, <2>5 DEF u, v
  <1>10. Underway'
    <2>1. Element'.fields = given /\ Len(fields') = n + 1
      BY <1>5, <1>6 DEF given
    <2>2. /\ Len(fields') <= Len(Element'.fields)
          /\ LaidOut(fields', Element'.fields, Len(fields'))
          /\ offset' = EndOf(Element'.fields, Len(fields')) % SizeWord
      BY <1>7, <1>8, <1>9, <2>1
    <2>3. NamesType(Element')
      BY <1>1, <1>5
    <2>. QED BY <1>5, <2>2, <2>3 DEF Underway
  <1>11. Stored'
    BY <1>1 DEF Loaded, Stored
  <1>. QED BY <1>1, <1>10, <1>11 DEF Loaded

\* An entry under one letter is stored for it, whole.
LEMMA EntryLoaded ==
  ASSUME IInv, Loaded, LoadEntry
  PROVE  Loaded'
  <1>. DEFINE given == Element.fields
              key == Element.key
              built == [fields |-> fields, total_length |-> offset]
  <1>1. /\ UNCHANGED <<document, pc>> /\ pc = "load"
        /\ Reading /\ NamesType(Element) /\ Len(fields) = Len(given)
        /\ spec_by_type' = [spec_by_type EXCEPT ![key[1]] = built]
        /\ entry' = entry + 1 /\ fields' = <<>> /\ offset' = 0
    BY DEF LoadEntry, Reading
  <1>2. TypeOK /\ TypeOK' /\ spec_by_type \in [Types -> MsgSpec \cup {Unknown}]
    BY LoadKeeps DEF IInv, TypeOK
  <1>3. /\ entry + 1 \in 1..Len(document) /\ entry \in Nat
        /\ Len(document) \in Nat
    BY <1>1, <1>2, DocumentFacts DEF Reading
  <1>4. key \in Seq(Types) /\ Len(key) = 1 /\ key = document[entry + 1].key
        /\ given = document[entry + 1].fields
    BY <1>1, <1>2, <1>3, DocumentFacts DEF Element, NamesType
  <1>5. key[1] \in Types /\ \A t \in Types : key = <<t>> <=> t = key[1]
    BY <1>4
  <1>6. Underway'
    BY <1>1, <1>2, FreshEntryAfter
  <1>7. /\ LaidOut(fields, given, Len(given))
        /\ offset = EndOf(given, Len(given)) % SizeWord
    BY <1>1 DEF Loaded, Underway
  <1>8. built # Unknown
    <2>1. offset # -1
      BY <1>2, Words DEF TypeOK
    <2>2. built.total_length = offset /\ Unknown.total_length = -1
      BY DEF Unknown
    <2>. QED BY <2>1, <2>2
  <1>9. built.fields = fields /\ built.total_length = offset
    OBVIOUS
  <1>. HIDE DEF given, key, built
  <1>10. 1..(entry + 1) = (1..entry) \cup {entry + 1} /\ \A n \in 1..entry : n \in 1..Len(document)
    BY <1>3
  <1>11. ASSUME NEW t \in Types
         PROVE  /\ (\A n \in 1..(entry + 1) : document[n].key # <<t>>) =>
                     spec_by_type'[t] = Unknown
                /\ \A n \in 1..(entry + 1) : document[n].key = <<t>> =>
                     /\ spec_by_type'[t] # Unknown
                     /\ LaidOut(spec_by_type'[t].fields, document[n].fields,
                                Len(document[n].fields))
                     /\ spec_by_type'[t].total_length =
                          EndOf(document[n].fields, Len(document[n].fields)) % SizeWord
    <2>1. CASE t = key[1]
      <3>1. spec_by_type'[t] = built
        BY <1>1, <1>2, <2>1
      <3>2. ASSUME NEW n \in 1..(entry + 1), document[n].key = <<t>>
            PROVE  n = entry + 1
        BY <1>2, <1>3, <1>4, <1>5, <1>10, <2>1, <3>2, DocumentFacts
      <3>3. document[entry + 1].key = <<t>> /\ entry + 1 \in 1..(entry + 1)
        BY <1>3, <1>4, <1>5, <2>1
      <3>. QED BY <1>4, <1>7, <1>8, <1>9, <3>1, <3>2, <3>3
    <2>2. CASE t # key[1]
      <3>1. spec_by_type'[t] = spec_by_type[t]
        BY <1>1, <1>2, <2>2
      <3>2. document[entry + 1].key # <<t>>
        BY <1>4, <1>5, <2>2
      <3>. QED BY <1>10, <3>1, <3>2 DEF Loaded, Stored
    <2>. QED BY <2>1, <2>2
  <1>12. Stored'
    BY <1>1, <1>11 DEF Stored
  <1>. QED BY <1>1, <1>6, <1>12 DEF Loaded

\* A key of several letters stores nothing.
LEMMA SkipLoaded ==
  ASSUME IInv, Loaded, SkipEntry
  PROVE  Loaded'
  <1>1. /\ UNCHANGED <<document, fields, offset, spec_by_type, pc>> /\ pc = "load"
        /\ Reading /\ ~NamesType(Element) /\ entry' = entry + 1
    BY DEF SkipEntry, Reading
  <1>2. fields' = <<>> /\ offset' = 0
    BY <1>1 DEF Loaded, Underway
  <1>3. TypeOK /\ TypeOK'
    BY LoadKeeps DEF IInv
  <1>4. Underway'
    BY <1>2, <1>3, FreshEntryAfter
  <1>5. entry \in Nat /\ 1..(entry + 1) = (1..entry) \cup {entry + 1}
    BY <1>3, DocumentFacts
  <1>6. \A t \in Types : document[entry + 1].key # <<t>>
    BY <1>1 DEF NamesType, Element
  <1>7. Stored'
    BY <1>1, <1>5, <1>6 DEF Loaded, Stored
  <1>. QED BY <1>1, <1>4, <1>7 DEF Loaded

\* Once it is loaded the specification stays.
LEMMA NextLoaded == IInv /\ Loaded /\ [Next]_vars => Loaded'
  <1>. SUFFICES ASSUME IInv, Loaded, [Next]_vars PROVE Loaded'
    OBVIOUS
  <1>1. CASE UNCHANGED loading /\ (pc' = pc \/ (pc # "load" /\ pc' # "load"))
    <2>1. UNCHANGED <<document, entry, fields, offset, spec_by_type>>
      BY <1>1 DEF loading
    <2>2. (Reading' <=> Reading) /\ Element' = Element
      BY <1>1, <2>1 DEF Reading, Element
    <2>3. Underway' /\ Stored'
      BY <2>1, <2>2 DEF Loaded, Underway, Stored
    <2>. QED BY <1>1, <2>1, <2>3 DEF Loaded
  <1>2. CASE \E type \in Types, len \in Lengths : Call(type, len)
    <2>1. UNCHANGED <<document, entry, fields, offset, spec_by_type>>
          /\ pc' = "call" /\ entry = Len(document)
      BY <1>2 DEF Call, loading
    <2>2. ~Reading /\ ~Reading'
      <3>1. Len(document) \in Nat
        BY DocumentFacts DEF IInv
      <3>. QED BY <2>1, <3>1 DEF Reading
    <2>3. Underway' /\ Stored'
      BY <2>1, <2>2 DEF Loaded, Underway, Stored
    <2>. QED BY <2>1, <2>3 DEF Loaded
  <1>3. CASE LoadField
    BY <1>3, FieldLoaded
  <1>4. CASE LoadEntry
    BY <1>4, EntryLoaded
  <1>5. CASE SkipEntry
    BY <1>5, SkipLoaded
  <1>6. CASE DecodeEmpty \/ DecodeUnknown \/ DecodeKnown \/ PrintField \/ TruncField
             \/ EndFields \/ Terminated \/ UNCHANGED vars
    <2>1. UNCHANGED loading /\ (pc' = pc \/ (pc # "load" /\ pc' # "load"))
      BY <1>6 DEF DecodeEmpty, DecodeUnknown, DecodeKnown, PrintField, TruncField,
         EndFields, Terminated, Return, vars
    <2>. QED BY <1>1, <2>1
  <1>. QED BY <1>2, <1>3, <1>4, <1>5, <1>6 DEF Next

\* Loaded holds in every reachable state.
THEOREM AllLoaded == Spec => []Loaded
  BY InitLoaded, NextLoaded, Invariance, PTL DEF Spec

\* What is laid out whole is the layout.
LEMMA WholeLayout ==
  ASSUME NEW stored \in Seq(FieldSpec), NEW given \in Seq(GivenField),
         LaidOut(stored, given, Len(given))
  PROVE  stored = Layout(given).fields
  <1>1. stored = [k \in 1..Len(stored) |-> stored[k]]
    OBVIOUS
  <1>2. Len(stored) = Len(given) /\ \A k \in 1..Len(given) : stored[k] = Placed(given, k)
    BY DEF LaidOut
  <1>. QED BY <1>1, <1>2 DEF Layout

\* Whatever the specification is, each type of message gets the fields that
\* stand under its own letter, of their types, one behind the other, and the
\* length they have together; and a key of several letters gives its fields to
\* none.
THEOREM OwnEntryOnly == Spec => []SpecOfOwnEntry
  <1>1. ASSUME IInv, Loaded PROVE SpecOfOwnEntry
    <2>. SUFFICES ASSUME entry = Len(document), NEW t \in Types
                  PROVE  IF EntriesOf(t) = {} THEN spec_by_type[t] = Unknown
                         ELSE \E n \in EntriesOf(t) :
                                spec_by_type[t] = Layout(document[n].fields)
      BY DEF SpecOfOwnEntry
    <2>1. /\ DOMAIN document = 1..entry
          /\ \A n \in 1..entry : document[n].fields \in Seq(GivenField)
      BY <1>1, DocumentFacts DEF IInv
    <2>2. CASE EntriesOf(t) = {}
      BY <1>1, <2>1, <2>2 DEF EntriesOf, Loaded, Stored
    <2>3. CASE EntriesOf(t) # {}
      <3>1. PICK n \in EntriesOf(t) : TRUE
        BY <2>3
      <3>2. n \in 1..entry /\ document[n].key = <<t>>
        BY <2>1, <3>1 DEF EntriesOf
      <3>. DEFINE given == document[n].fields
                  stored == spec_by_type[t]
      <3>3. /\ stored # Unknown
            /\ LaidOut(stored.fields, given, Len(given))
            /\ stored.total_length = EndOf(given, Len(given)) % SizeWord
        BY <1>1, <3>2 DEF Loaded, Stored
      <3>4. stored \in MsgSpec
        BY <1>1, <3>3 DEF IInv, TypeOK
      <3>5. given \in Seq(GivenField)
        BY <2>1, <3>2
      <3>. HIDE DEF given, stored
      <3>6. stored.fields \in Seq(FieldSpec)
            /\ stored = [fields |-> stored.fields, total_length |-> stored.total_length]
        BY <3>4 DEF MsgSpec
      <3>7. stored.fields = Layout(given).fields
        BY <3>3, <3>5, <3>6, WholeLayout
      <3>8. stored = Layout(given)
        BY <3>3, <3>6, <3>7 DEF Layout
      <3>. QED BY <2>3, <3>1, <3>8 DEF given, stored
    <2>. QED BY <2>2, <2>3
  <1>. QED BY <1>1, AllLoaded, Invariance, PTL
-----------------------------------------------------------------------------
(***************************************************************************)
(* What decode_itch_message prints.                                        *)
(***************************************************************************)

\* Before a message there is no result.
LEMMA InitDecoding == Init => Decoding
  BY DEF Init, Decoding

\* Each end of the decoder is reached as Decoding says.
LEMMA NextDecoding == IInv /\ Loaded /\ Decoding /\ [Next]_vars => Decoding'
  <1>. SUFFICES ASSUME IInv, Loaded, Decoding, [Next]_vars PROVE Decoding'
    OBVIOUS
  <1>. USE DEF loading, message, printing
  <1>1. CASE SkipEntry \/ LoadField \/ LoadEntry
    <2>1. pc = "load" /\ UNCHANGED <<pc, result>>
      BY <1>1 DEF SkipEntry, LoadField, LoadEntry, Reading
    <2>. QED BY <2>1 DEF Decoding
  <1>2. CASE \E type \in Types, len \in Lengths : Call(type, len)
    <2>1. pc = "load" /\ pc' = "call" /\ result' = result
      BY <1>2 DEF Call
    <2>. QED BY <2>1 DEF Decoding
  <1>3. CASE DecodeEmpty
    BY <1>3 DEF DecodeEmpty, Return, Decoding
  <1>4. CASE DecodeUnknown
    BY <1>4 DEF DecodeUnknown, Return, Decoding, spec
  <1>5. CASE DecodeKnown
    BY <1>5 DEF DecodeKnown, Decoding, spec
  <1>6. CASE PrintField
    BY <1>6 DEF PrintField, Decoding, spec
  <1>7. CASE TruncField
    BY <1>7 DEF TruncField, Return, Decoding, spec, FitsMessage, Field
  <1>8. CASE EndFields
    BY <1>8 DEF EndFields, Return, Decoding, spec
  <1>9. CASE UNCHANGED vars
    BY <1>9 DEF vars, Decoding, spec, FitsMessage, Field
  <1>. QED BY <1>1, <1>2, <1>3, <1>4, <1>5, <1>6, <1>7, <1>8, <1>9 DEF Next, Terminated

\* A field of a sensible specification is as wide as it is given.
LEMMA SensibleWidth ==
  ASSUME NEW given \in Seq(GivenField), Sensible(given), NEW k \in 1..Len(given),
         NEW field, field.type = parse_field_type(given[k].type),
         field.size = Size(given[k])
  PROVE  Width(field) = given[k].size
  <1>1. given[k].size \in 0..(LengthWord - 1) /\ field.size = given[k].size
    BY SensibleFacts
  <1>2. LengthWord \in Nat /\ SizeWord \in Nat /\ 2 * LengthWord <= SizeWord
    BY ItchAssumption
  <1>3. ~(2 * field.size >= SizeWord)
    BY <1>1, <1>2
  <1>4. k \in DOMAIN given
    OBVIOUS
  <1>5. CASE given[k].type \in DOMAIN Naturally
    <2>1. /\ given[k].type \in {"char", "uint8", "uint16", "int16", "uint32",
                                "int32", "uint64", "int64"}
          /\ given[k].size = Naturally[given[k].type]
      BY <1>4, <1>5 DEF Sensible, Naturally
    <2>2. field.type = given[k].type
      BY <2>1 DEF parse_field_type, FieldTypes
    <2>. QED BY <2>1, <2>2 DEF Width, Naturally
  <1>6. CASE given[k].type \notin DOMAIN Naturally
    <2>1. field.type \notin {"char", "uint8", "uint16", "int16", "uint32",
                             "int32", "uint64", "int64"}
      BY <1>6 DEF parse_field_type, FieldTypes, Naturally
    <2>. QED BY <1>1, <1>3, <2>1 DEF Width
  <1>. QED BY <1>5, <1>6

\* What is stored for a type of message is the layout of its entry.
LEMMA SpecOfEntry ==
  ASSUME IInv, Loaded, pc \in {"decode", "done"}
  PROVE  /\ EntriesOf(msg_type) = {} <=> spec = Unknown
         /\ \A n \in EntriesOf(msg_type) :
              LET given == document[n].fields IN
                /\ given \in Seq(GivenField) /\ Len(given) \in Nat
                /\ LaidOut(spec.fields, given, Len(given))
                /\ spec.total_length = EndOf(given, Len(given)) % SizeWord
  <1>1. msg_type \in Types /\ entry = Len(document) /\ TypeOK /\ Stored
    BY DEF IInv, Loaded
  <1>2. DOMAIN document = 1..entry /\ \A n \in 1..entry : document[n].fields \in Seq(GivenField)
    BY <1>1, DocumentFacts
  <1>3. EntriesOf(msg_type) = {n \in 1..entry : document[n].key = <<msg_type>>}
    BY <1>2 DEF EntriesOf
  <1>4. \A n \in EntriesOf(msg_type) :
          /\ spec # Unknown
          /\ LaidOut(spec.fields, document[n].fields, Len(document[n].fields))
          /\ spec.total_length =
               EndOf(document[n].fields, Len(document[n].fields)) % SizeWord
    BY <1>1, <1>3 DEF Stored, spec
  <1>5. EntriesOf(msg_type) = {} => spec = Unknown
    BY <1>1, <1>3 DEF Stored, spec
  <1>6. \A n \in EntriesOf(msg_type) :
          document[n].fields \in Seq(GivenField) /\ Len(document[n].fields) \in Nat
    BY <1>2, <1>3
  <1>. QED BY <1>4, <1>5, <1>6

\* Of a sensible specification exactly the fields are printed that the message
\* holds whole.
LEMMA PrintsWhole ==
  ASSUME IInv, Loaded, Decoding, result \in {"truncated", "printed"},
         NEW n \in EntriesOf(msg_type), Sensible(document[n].fields)
  PROVE  LET given == document[n].fields
             whole == {k \in 0..Len(given) : EndOf(given, k) <= msg_len}
         IN /\ i = Max(whole)
            /\ reads = [k \in 1..i |-> [from |-> EndOf(given, k - 1),
                                        to |-> EndOf(given, k)]]
            /\ result = IF i = Len(given) THEN "printed" ELSE "truncated"
            /\ mismatch = (EndOf(given, Len(given)) \notin {0, msg_len})
  <1>. DEFINE given == document[n].fields
              whole == {k \in 0..Len(given) : EndOf(given, k) <= msg_len}
              total == EndOf(given, Len(given))
  <1>1. /\ pc = "done" /\ TypeOK /\ i = Len(reads) /\ i \in Nat
        /\ reads \in Seq([from: Nat, to: Nat])
        /\ mismatch \in BOOLEAN /\ msg_len \in 0..(LengthWord - 1)
        /\ i > 0 => i <= Len(spec.fields)
        /\ \A k \in 1..i :
             /\ (spec.fields[k].offset + spec.fields[k].size) % SizeWord <= msg_len
             /\ reads[k] = [from |-> spec.fields[k].offset,
                            to |-> spec.fields[k].offset + Width(spec.fields[k])]
    BY DEF IInv, TypeOK, Decoding
  <1>2. /\ given \in Seq(GivenField) /\ Len(given) \in Nat /\ Sensible(given)
        /\ LaidOut(spec.fields, given, Len(given))
        /\ spec.total_length = total % SizeWord
    BY <1>1, SpecOfEntry
  <1>. HIDE DEF given
  <1>3. /\ LengthWord \in Nat \ {0} /\ SizeWord \in Nat \ {0} /\ LengthWord <= SizeWord
    BY Words
  <1>4. /\ Len(spec.fields) = Len(given)
        /\ spec.total_length = total
        /\ \A k \in 1..Len(given) :
             /\ spec.fields[k].type = parse_field_type(given[k].type)
             /\ spec.fields[k].size = Size(given[k])
             /\ spec.fields[k].offset = EndOf(given, k - 1)
    <2>1. \A k \in 0..Len(given) : EndOf(given, k) \in 0..(SizeWord - 1)
      BY <1>2, <1>3, SensibleFacts
    <2>2. \A k \in 0..Len(given) : EndOf(given, k) % SizeWord = EndOf(given, k)
      BY <1>3, <2>1, OwnRemainder
    <2>3. Len(given) \in 0..Len(given) /\ \A k \in 1..Len(given) : k - 1 \in 0..Len(given)
      BY <1>2
    <2>4. spec.total_length = total
      BY <1>2, <2>2, <2>3
    <2>5. Len(spec.fields) = Len(given)
          /\ \A k \in 1..Len(given) : spec.fields[k] = Placed(given, k)
      BY <1>2 DEF LaidOut
    <2>6. ASSUME NEW k \in 1..Len(given)
          PROVE  Placed(given, k) = [type |-> parse_field_type(given[k].type),
                                     size |-> Size(given[k]),
                                     offset |-> EndOf(given, k - 1)]
      <3>1. EndOf(given, k - 1) % SizeWord = EndOf(given, k - 1)
        BY <2>2, <2>3
      <3>. QED BY <3>1 DEF Placed, Size
    <2>. QED BY <2>4, <2>5, <2>6
  <1>5. /\ \A k \in 0..Len(given) : EndOf(given, k) \in 0..(LengthWord - 1)
        /\ \A j, k \in 0..Len(given) : j <= k => EndOf(given, j) <= EndOf(given, k)
        /\ EndOf(given, 0) = 0
        /\ \A k \in 1..Len(given) :
             /\ EndOf(given, k) = EndOf(given, k - 1) + given[k].size
             /\ Size(given[k]) = given[k].size
    BY <1>2, SensibleFacts, EndsFacts
  <1>6. ASSUME NEW k \in 1..Len(given)
        PROVE  /\ (spec.fields[k].offset + spec.fields[k].size) % SizeWord = EndOf(given, k)
               /\ spec.fields[k].offset + Width(spec.fields[k]) = EndOf(given, k)
    <2>1. spec.fields[k].offset + spec.fields[k].size = EndOf(given, k)
      BY <1>4, <1>5
    <2>2. EndOf(given, k) \in 0..(SizeWord - 1)
      <3>1. k \in 0..Len(given)
        BY <1>2
      <3>2. EndOf(given, k) \in 0..(LengthWord - 1)
        BY <1>5, <3>1
      <3>. QED BY <1>3, <3>2
    <2>3. Width(spec.fields[k]) = given[k].size
      BY <1>2, <1>4, SensibleWidth
    <2>. QED BY <1>3, <1>4, <1>5, <2>1, <2>2, <2>3, OwnRemainder
  <1>7. i \in 0..Len(given) /\ msg_len \in Nat
    BY <1>1, <1>2, <1>3, <1>4
  <1>8. i \in whole
    <2>1. CASE i = 0
      BY <1>5, <1>7, <2>1
    <2>2. CASE i # 0
      <3>1. i \in 1..i /\ i \in 1..Len(given)
        BY <1>1, <1>7, <2>2
      <3>. QED BY <1>1, <1>6, <1>7, <3>1
    <2>. QED BY <2>1, <2>2
  <1>9. /\ result = IF i = Len(given) THEN "printed" ELSE "truncated"
        /\ i # Len(given) => i < Len(given) /\ ~FitsMessage
    BY <1>4, <1>7 DEF Decoding
  <1>10. \A k \in whole : i >= k
    <2>. SUFFICES ASSUME NEW k \in whole, k > i PROVE FALSE
      BY <1>2, <1>7
    <2>1. k \in 0..Len(given) /\ EndOf(given, k) <= msg_len /\ i # Len(given)
      BY <1>2, <1>7
    <2>2. i + 1 \in 1..Len(given) /\ i + 1 \in 0..Len(given) /\ i + 1 <= k
      BY <1>2, <1>7, <2>1
    <2>3. ~(EndOf(given, i + 1) <= msg_len)
      BY <1>6, <1>9, <2>1, <2>2 DEF FitsMessage, Field
    <2>4. /\ EndOf(given, i + 1) <= EndOf(given, k)
          /\ EndOf(given, i + 1) \in 0..(LengthWord - 1)
          /\ EndOf(given, k) \in 0..(LengthWord - 1)
      BY <1>5, <2>1, <2>2
    <2>. QED BY <1>3, <1>7, <2>1, <2>3, <2>4
  <1>11. i = Max(whole)
    <2>1. whole \subseteq Int
      BY <1>2
    <2>. HIDE DEF whole
    <2>2. \A x \in whole : (\A y \in whole : x >= y) => x = i
      BY <1>7, <1>8, <1>10, <2>1
    <2>. QED BY <1>8, <1>10, <2>2 DEF Max
  <1>12. reads = [k \in 1..i |-> [from |-> EndOf(given, k - 1), to |-> EndOf(given, k)]]
    <2>1. reads = [k \in 1..i |-> reads[k]]
      BY <1>1
    <2>2. \A k \in 1..i : k \in 1..Len(given)
      BY <1>2, <1>7
    <2>3. \A k \in 1..i : reads[k] = [from |-> EndOf(given, k - 1), to |-> EndOf(given, k)]
      BY <1>1, <1>4, <1>6, <2>2
    <2>. QED BY <2>1, <2>3
  <1>13. mismatch = (total \notin {0, msg_len})
    <2>1. total \in 0..(LengthWord - 1)
      BY <1>2, <1>5
    <2>2. total % LengthWord = total
      BY <1>3, <2>1, OwnRemainder
    <2>. HIDE DEF total
    <2>3. mismatch <=> total # 0 /\ msg_len # total % LengthWord
      BY <1>4 DEF Decoding
    <2>. QED BY <1>1, <2>2, <2>3
  <1>. QED BY <1>9, <1>11, <1>12, <1>13 DEF given

\* Whatever the specification is and however long a message: exactly the fields
\* are printed that it holds whole, each read from its own bytes, a length that
\* is not the specification's is reported, and only an empty message leaves no
\* trace.
THEOREM PrintedWhatFits == Spec => []PrintsWhatFits
  <1>1. ASSUME IInv, Loaded, Decoding, pc = "done" PROVE PrintsWhatFits
    <2>1. result \in {"empty", "unknown", "truncated", "printed"}
      BY <1>1 DEF IInv, TypeOK, Decoding
    <2>2. EntriesOf(msg_type) = {} <=> spec = Unknown
      BY <1>1, SpecOfEntry
    <2>3. result = "empty" <=> msg_len = 0
      BY <1>1, <2>1 DEF Decoding
    <2>4. result = "unknown" <=> msg_len # 0 /\ EntriesOf(msg_type) = {}
      BY <1>1, <2>1, <2>2 DEF Decoding
    <2>5. ASSUME NEW n \in EntriesOf(msg_type), msg_len # 0, Sensible(document[n].fields)
          PROVE  LET given == document[n].fields
                     whole == {k \in 0..Len(given) : EndOf(given, k) <= msg_len}
                 IN /\ i = Max(whole)
                    /\ reads = [k \in 1..i |-> [from |-> EndOf(given, k - 1),
                                                to |-> EndOf(given, k)]]
                    /\ result = IF i = Len(given) THEN "printed" ELSE "truncated"
                    /\ mismatch = (EndOf(given, Len(given)) \notin {0, msg_len})
      <3>1. result \in {"truncated", "printed"}
        BY <2>1, <2>3, <2>4, <2>5
      <3>. QED BY <1>1, <2>5, <3>1, PrintsWhole
    <2>. QED BY <2>3, <2>4, <2>5, Zenon DEF PrintsWhatFits
  <1>2. pc # "done" => PrintsWhatFits
    BY DEF PrintsWhatFits
  <1>3. IInv /\ Loaded /\ Decoding => PrintsWhatFits
    BY <1>1, <1>2
  <1>. QED BY <1>3, InitDecoding, NextDecoding, AllLoaded, Invariance, PTL DEF Spec
=============================================================================
