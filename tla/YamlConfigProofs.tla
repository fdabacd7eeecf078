-------------------------- MODULE YamlConfigProofs --------------------------
(***************************************************************************)
(* Proofs about YamlConfig, for every file: the stack of sections, the     *)
(* configuration that is stored, and that both are what the file says.     *)
(***************************************************************************)
EXTENDS YamlNesting, Induction

\* The sections on the stack are each deeper than the one before: the file
\* shows it, as each is open at the line of the next.
LEMMA Nested ==
  ASSUME TypeOK, StackOpen
  PROVE  \A i, j \in 1..Len(indent_stack) : i < j => indent_stack[i] < indent_stack[j]
<1> SUFFICES ASSUME NEW i \in 1..Len(indent_stack), NEW j \in 1..Len(indent_stack),
                    i < j
             PROVE  indent_stack[i] < indent_stack[j]
  OBVIOUS
<1>1. open_lines[j] \in (open_lines[i] + 1)..line
  BY SMTT(20) DEF StackOpen, TypeOK
<1>2. file[open_lines[j]] # Skipped
  BY DEF StackOpen, OpenAfter
<1>3. file[open_lines[j]].indent > file[open_lines[i]].indent
  BY <1>1, <1>2 DEF StackOpen, OpenAfter
<1> QED  BY <1>3, YamlAssumption DEF StackOpen, TypeOK, Entry

\* What popping leaves: the sections this indent is inside of, and they are
\* the first ones of the stack.
LEMMA PoppedRight ==
  ASSUME TypeOK, StackOpen, NEW indent \in Nat
  PROVE  /\ Left(indent) \in 0..Len(indent_stack)
         /\ \A i \in 1..Len(indent_stack) :
              i <= Left(indent) <=> indent_stack[i] < indent
<1> DEFINE L == Len(indent_stack)
           Is(n) == /\ n # 0 => StaysOpen(n, indent)
                    /\ \A i \in (n + 1)..L : ~StaysOpen(i, indent)
           T == {i \in 1..L : StaysOpen(i, indent)}
<1>1. L \in Nat /\ indent_stack \in [1..L -> Nat]
  BY DEF TypeOK
<1>2. \E n \in 0..L : Is(n)
  <2>1. CASE T = {}
    <3>1. Is(0)
      BY <2>1
    <3> QED  BY <3>1, <1>1
  <2>2. CASE T # {}
    <3>1. T \in SUBSET Nat /\ \A t \in T : t <= L
      BY <1>1
    <3> HIDE DEF T
    <3>2. PICK m \in T : \A t \in T : t <= m
      BY <3>1, <2>2, <1>1, Greatest
    <3>3. Is(m) /\ m \in 0..L
      BY <3>2, <1>1 DEF T
    <3> QED  BY <3>3
  <2> QED  BY <2>1, <2>2
<1>3. Left(indent) \in 0..L /\ Is(Left(indent))
  <2>1. Left(indent) = CHOOSE n \in 0..L : Is(n)
    BY DEF Left
  <2> HIDE DEF Is, L
  <2> QED  BY <1>2, <2>1
<1>4. ASSUME NEW i \in 1..L
      PROVE  i <= Left(indent) <=> indent_stack[i] < indent
  <2>1. CASE i <= Left(indent)
    <3>1. Left(indent) \in 1..L /\ indent_stack[Left(indent)] < indent
      BY <1>3, <2>1, <1>4, <1>1 DEF StaysOpen
    <3>2. indent_stack[i] <= indent_stack[Left(indent)]
      BY <3>1, <2>1, <1>1, <1>4, Nested
    <3> QED  BY <3>1, <3>2, <2>1, <1>1
  <2>2. CASE ~(i <= Left(indent))
    <3>1. i \in (Left(indent) + 1)..L
      BY <2>2, <1>3, <1>1
    <3> QED  BY <3>1, <1>3, <2>2 DEF StaysOpen
  <2> QED  BY <2>1, <2>2
<1> QED  BY <1>3, <1>4

-----------------------------------------------------------------------------
(***************************************************************************)
(* The types.                                                              *)
(***************************************************************************)

\* The first entries of a sequence, and one appended to them.
LEMMA FirstOf ==
  ASSUME NEW S, NEW s \in Seq(S), NEW n \in 0..Len(s)
  PROVE  /\ SubSeq(s, 1, n) \in Seq(S)
         /\ Len(SubSeq(s, 1, n)) = n
         /\ \A i \in 1..n : SubSeq(s, 1, n)[i] = s[i]
  OBVIOUS

\* An entry pushed on what is left of a stack: it is the last one, and those
\* below it stay where they were.
LEMMA Extended ==
  ASSUME NEW S, NEW s \in Seq(S), NEW n \in 0..Len(s), NEW e \in S
  PROVE  /\ Append(SubSeq(s, 1, n), e) \in Seq(S)
         /\ Len(Append(SubSeq(s, 1, n), e)) = n + 1
         /\ \A i \in 1..n : Append(SubSeq(s, 1, n), e)[i] = s[i]
         /\ Append(SubSeq(s, 1, n), e)[n + 1] = e
  OBVIOUS

\* The next line is one of the file's.
LEMMA CurrentLine ==
  ASSUME TypeOK, line < Len(file), Current # Skipped
  PROVE  /\ Current \in Entry
         /\ Current.indent \in Nat /\ Current.key \in Seq(Names)
         /\ Current.value \in Values
         /\ line + 1 \in 1..Len(file) /\ line \in Nat /\ Len(file) \in Nat
<1>1. file \in Seq(Entry \cup {Skipped})
  BY YamlAssumption DEF TypeOK
<1>2. line + 1 \in 1..Len(file) /\ line \in Nat /\ Len(file) \in Nat
  BY <1>1 DEF TypeOK
<1>3. Current \in Entry
  BY <1>1, <1>2 DEF Current
<1> QED  BY <1>2, <1>3 DEF Entry

\* A number from 1 to below w, as the members of two intervals.
LEMMA InRange ==
  ASSUME NEW w \in Nat, NEW r \in Nat, 1 <= r, r <= w - 1
  PROVE  r \in 1..(w - 1) /\ r \in 0..(w - 1)
  OBVIOUS

\* What a conversion to a narrower unsigned type can give.
LEMMA Remainder ==
  ASSUME NEW w \in Nat \ {0}, NEW r \in Nat
  PROVE  r % w \in 0..(w - 1) /\ r % w \in Nat /\ r % w <= w - 1
  OBVIOUS

\* A number narrowed to 16 bits, and the request size it gives, which is not
\* zero even where the narrowed number is.
LEMMA NarrowedRange ==
  ASSUME NEW v, Number[v] \in Nat
  PROVE  /\ Narrowed(v) \in 0..(PortWord - 1)
         /\ RecoveryCount(v) \in 1..(PortWord - 1)
         /\ RecoveryCount(v) \in 0..(PortWord - 1)
<1>1. /\ PortWord \in Nat \ {0}
      /\ DefaultCount \in Nat /\ 1 <= DefaultCount /\ DefaultCount <= PortWord - 1
  BY DEF PortWord, DefaultCount
<1>2. /\ Narrowed(v) \in 0..(PortWord - 1)
      /\ Narrowed(v) \in Nat /\ Narrowed(v) <= PortWord - 1
  BY <1>1, Remainder DEF Narrowed
<1>3. /\ RecoveryCount(v) \in Nat
      /\ 1 <= RecoveryCount(v) /\ RecoveryCount(v) <= PortWord - 1
  BY <1>1, <1>2 DEF RecoveryCount
<1> QED  BY <1>1, <1>2, <1>3, InRange

\* What is stored is an AppConfig.
LEMMA ConfiguredType ==
  ASSUME TypeOK
  PROVE  Configured \in AppConfig
<1>1. ASSUME NEW path
      PROVE  Setting(path) \in Values
  BY YamlAssumption DEF Setting, TypeOK
<1>2. \A v \in Values : Number[v] \in Nat
  BY YamlAssumption
<1>3. ASSUME NEW v \in Values
      PROVE  /\ Narrowed(v) \in 0..(PortWord - 1)
             /\ RecoveryCount(v) \in 0..(PortWord - 1)
  BY <1>2, NarrowedRange
<1>4. \A v \in Values : resolve_path(v) \in [dir: {"", ConfigDir}, name: Values]
  BY DEF resolve_path
<1> QED  BY <1>1, <1>2, <1>3, <1>4 DEF Configured, AppConfig

-----------------------------------------------------------------------------
(***************************************************************************)
(* The stack and the configuration: the inductive invariant.               *)
(***************************************************************************)

\* Before the file is opened the stacks are empty and nothing is stored.
LEMMA InitIInv == Init => IInv
<1> SUFFICES ASSUME Init
             PROVE  IInv
  OBVIOUS
<1>1. file \in Seq(Entry \cup {Skipped})
  BY YamlAssumption DEF Init
<1>2. TypeOK
  <2>1. line \in 0..Len(file)
    BY <1>1 DEF Init
  <2>2. indent_stack \in Seq(Nat) /\ key_stack \in Seq(Seq(Names)) /\ open_lines \in Seq(Nat)
    BY DEF Init
  <2>3. \A p \in DOMAIN settings : settings[p] \in Values
    BY DEF Init
  <2> QED  BY <2>1, <2>2, <2>3 DEF Init, TypeOK
<1>3. StackOpen
  BY DEF Init, StackOpen
<1> QED  BY <1>2, <1>3 DEF Init, IInv, Usable

\* The sections that a line leaves open are those it is inside of.
LEMMA StillOpen ==
  ASSUME TypeOK, StackOpen, line < Len(file), Current # Skipped
  PROVE  LET n == Left(Current.indent) IN
         /\ n \in 0..Len(open_lines)
         /\ \A i \in 1..n : OpenAfter(open_lines[i], line + 1)
         /\ \A j \in 1..line :
              OpenAfter(j, line + 1) => \E i \in 1..n : open_lines[i] = j
<1> DEFINE n == Left(Current.indent)
<1>1. /\ Current.indent \in Nat /\ Current = file[line + 1]
      /\ line \in Nat /\ line + 1 \in 1..Len(file)
  BY CurrentLine DEF Current
<1>2. /\ n \in 0..Len(indent_stack)
      /\ \A i \in 1..Len(indent_stack) :
           i <= n <=> indent_stack[i] < Current.indent
  BY <1>1, PoppedRight
<1>3. Len(open_lines) = Len(indent_stack) /\ Len(open_lines) \in Nat
  BY DEF StackOpen, TypeOK
<1> HIDE DEF n
<1>4. ASSUME NEW i \in 1..n
      PROVE  OpenAfter(open_lines[i], line + 1)
  <2>1. i \in 1..Len(open_lines)
    BY <1>2, <1>3, <1>4
  <2>2. /\ open_lines[i] \in 1..line
        /\ OpenAfter(open_lines[i], line)
        /\ file[open_lines[i]].indent < Current.indent
    BY <2>1, <1>2, <1>3, <1>4 DEF StackOpen
  <2>3. \A k \in (open_lines[i] + 1)..(line + 1) :
          k \in (open_lines[i] + 1)..line \/ k = line + 1
    BY <1>1, <2>2
  <2> QED  BY <2>2, <2>3, <1>1 DEF OpenAfter
<1>5. ASSUME NEW j \in 1..line, OpenAfter(j, line + 1)
      PROVE  \E i \in 1..n : open_lines[i] = j
  <2>1. (j + 1)..line \subseteq (j + 1)..(line + 1) /\ line + 1 \in (j + 1)..(line + 1)
    BY <1>1
  <2>2. OpenAfter(j, line) /\ file[j].indent < Current.indent
    BY <2>1, <1>5, <1>1 DEF OpenAfter
  <2>3. PICK i \in 1..Len(open_lines) : open_lines[i] = j
    BY <2>2 DEF StackOpen
  <2>4. indent_stack[i] < Current.indent
    BY <2>2, <2>3 DEF StackOpen
  <2>5. i \in 1..n
    BY <2>4, <1>2, <1>3
  <2> QED  BY <2>3, <2>5
<1> QED  BY <1>2, <1>3, <1>4, <1>5 DEF n

\* A line that is skipped opens and closes no section (57-77).
LEMMA SkippedKeepsStack ==
  ASSUME IInv, ReadSkipped
  PROVE  StackOpen'
<1>1. /\ line \in Nat /\ line' = line + 1 /\ file[line'] = Skipped
      /\ UNCHANGED <<file, stacks>>
  BY DEF ReadSkipped, Current, IInv, TypeOK
<1>2. ASSUME NEW j \in 1..line
      PROVE  OpenAfter(j, line') <=> OpenAfter(j, line)
  <2>1. \A k \in (j + 1)..line' : k \in (j + 1)..line \/ k = line'
    BY <1>1
  <2>2. (j + 1)..line \subseteq (j + 1)..line'
    BY <1>1
  <2> QED  BY <2>1, <2>2, <1>1 DEF OpenAfter
<1>3. 1..line' = 1..line \cup {line'} /\ ~OpenAfter(line', line')
  BY <1>1 DEF OpenAfter
<1>4. StackOpen
  BY DEF IInv
<1>5. \A j : OpenAfter(j, line)' <=> OpenAfter(j, line')
  BY <1>1 DEF OpenAfter
<1>6. \A i \in 1..Len(open_lines) :
        open_lines[i] \in 1..line' /\ OpenAfter(open_lines[i], line')
  BY <1>1, <1>2, <1>3, <1>4 DEF StackOpen
<1>7. \A j \in 1..line' :
        OpenAfter(j, line') => \E i \in 1..Len(open_lines) : open_lines[i] = j
  BY <1>2, <1>3, <1>4 DEF StackOpen
<1> QED  BY <1>1, <1>4, <1>5, <1>6, <1>7 DEF StackOpen, stacks

\* A leaf closes the sections it is not in.
LEMMA LeafKeepsStack ==
  ASSUME IInv, ReadLeaf
  PROVE  StackOpen' /\ TypeOK'
<1> DEFINE n == Left(Current.indent)
<1> HIDE DEF n
<1>0. TypeOK /\ StackOpen
  BY DEF IInv
<1>b. /\ line' = line + 1 /\ file' = file
      /\ line \in Nat /\ Len(file) \in Nat /\ line + 1 \in 1..Len(file)
  <2>1. /\ line' = line + 1 /\ file' = file
        /\ line < Len(file) /\ Current # Skipped
    BY DEF ReadLeaf
  <2> QED  BY <2>1, <1>0, CurrentLine
<1>1. /\ line < Len(file) /\ Current # Skipped /\ Current.value # ""
      /\ line' = line + 1 /\ file' = file
      /\ indent_stack' = SubSeq(indent_stack, 1, n)
      /\ key_stack' = SubSeq(key_stack, 1, n)
      /\ open_lines' = SubSeq(open_lines, 1, n)
  BY DEF ReadLeaf, n
<1>2. /\ Current \in Entry /\ Current.key \in Seq(Names) /\ Current.value \in Values
      /\ line \in Nat /\ line + 1 \in 1..Len(file) /\ Current = file[line + 1]
  BY <1>0, <1>1, CurrentLine DEF Current
<1>3. /\ n \in 0..Len(open_lines)
      /\ \A i \in 1..n : OpenAfter(open_lines[i], line + 1)
      /\ \A j \in 1..line :
           OpenAfter(j, line + 1) => \E i \in 1..n : open_lines[i] = j
  BY <1>0, <1>1, StillOpen DEF n
<1>a. /\ indent_stack \in Seq(Nat) /\ n \in 0..Len(indent_stack)
      /\ key_stack \in Seq(Seq(Names)) /\ n \in 0..Len(key_stack)
      /\ open_lines \in Seq(Nat) /\ n \in 0..Len(open_lines)
      /\ Len(open_lines) \in Nat
  BY <1>0, <1>3 DEF TypeOK, StackOpen
<1>4. /\ indent_stack' \in Seq(Nat) /\ Len(indent_stack') = n
      /\ \A i \in 1..n : indent_stack'[i] = indent_stack[i]
  BY <1>1, <1>a, FirstOf
<1>5. /\ key_stack' \in Seq(Seq(Names)) /\ Len(key_stack') = n
      /\ \A i \in 1..n : key_stack'[i] = key_stack[i]
  BY <1>1, <1>2, <1>a, FirstOf
<1>6. /\ open_lines' \in Seq(Nat) /\ Len(open_lines') = n
      /\ \A i \in 1..n : open_lines'[i] = open_lines[i]
  BY <1>1, <1>3, <1>a, FirstOf
<1>7. ~OpenAfter(line + 1, line + 1)
  BY <1>1, <1>2 DEF OpenAfter
<1>8. \A j : OpenAfter(j, line)' <=> OpenAfter(j, line + 1)
  BY <1>1 DEF OpenAfter
<1>9. StackOpen'
  <2>1. 1..n \subseteq 1..Len(open_lines) /\ 1..line' = 1..line \cup {line + 1}
    BY <1>b, <1>a
  <2>2. \A i \in 1..n : /\ open_lines'[i] \in 1..line'
                        /\ OpenAfter(open_lines'[i], line + 1)
                        /\ indent_stack'[i] = file'[open_lines'[i]].indent
                        /\ key_stack'[i] = file'[open_lines'[i]].key
    BY <1>0, <1>b, <1>3, <1>4, <1>5, <1>6, <2>1 DEF StackOpen
  <2>3. \A i, j \in 1..n : i < j => open_lines'[i] < open_lines'[j]
    BY <1>0, <1>6, <2>1 DEF StackOpen
  <2>4. \A j \in 1..line' :
          OpenAfter(j, line + 1) => \E i \in 1..n : open_lines'[i] = j
    BY <1>3, <1>6, <1>7, <2>1
  <2> QED  BY <1>4, <1>5, <1>6, <1>8, <2>2, <2>3, <2>4 DEF StackOpen
<1>10. TypeOK'
  <2>1. \A p \in DOMAIN settings' : settings'[p] \in Values
    <3>1. \E path : settings' = [p \in DOMAIN settings \cup {path} |->
                                 IF p = path THEN Current.value ELSE settings[p]]
      BY DEF ReadLeaf
    <3>2. \A p \in DOMAIN settings : settings[p] \in Values
      BY <1>0 DEF TypeOK
    <3> QED  BY <3>1, <3>2, <1>2
  <2>2. line' \in 0..Len(file')
    BY <1>b
  <2> QED  BY <1>0, <1>1, <1>4, <1>5, <1>6, <2>1, <2>2 DEF TypeOK, ReadLeaf
<1> QED  BY <1>9, <1>10

\* A section closes those it is not in and is open itself.
LEMMA SectionKeepsStack ==
  ASSUME IInv, ReadSection
  PROVE  StackOpen' /\ TypeOK'
<1> DEFINE n == Left(Current.indent)
           indent == Current.indent
           key == Current.key
<1> HIDE DEF n, indent, key
<1>0. TypeOK /\ StackOpen
  BY DEF IInv
<1>b. /\ line' = line + 1 /\ file' = file
      /\ line \in Nat /\ Len(file) \in Nat /\ line + 1 \in 1..Len(file)
  <2>1. /\ line' = line + 1 /\ file' = file
        /\ line < Len(file) /\ Current # Skipped
    BY DEF ReadSection
  <2> QED  BY <2>1, <1>0, CurrentLine
<1>1. /\ line < Len(file) /\ Current # Skipped /\ Current.value = ""
      /\ line' = line + 1 /\ file' = file
      /\ indent_stack' = Append(SubSeq(indent_stack, 1, n), indent)
      /\ key_stack' = Append(SubSeq(key_stack, 1, n), key)
      /\ open_lines' = Append(SubSeq(open_lines, 1, n), line + 1)
  BY DEF ReadSection, n, indent, key
<1>2. /\ indent \in Nat /\ indent = file[line + 1].indent
      /\ key \in Seq(Names) /\ key = file[line + 1].key
  BY <1>0, <1>1, CurrentLine DEF Current, indent, key
<1>3. /\ n \in 0..Len(open_lines)
      /\ \A i \in 1..n : OpenAfter(open_lines[i], line + 1)
      /\ \A j \in 1..line :
           OpenAfter(j, line + 1) => \E i \in 1..n : open_lines[i] = j
  BY <1>0, <1>1, StillOpen DEF n
<1>a. /\ indent_stack \in Seq(Nat) /\ n \in 0..Len(indent_stack)
      /\ key_stack \in Seq(Seq(Names)) /\ n \in 0..Len(key_stack)
      /\ open_lines \in Seq(Nat) /\ n \in 0..Len(open_lines)
      /\ Len(open_lines) \in Nat
  BY <1>0, <1>3 DEF TypeOK, StackOpen
<1>4. /\ indent_stack' \in Seq(Nat) /\ Len(indent_stack') = n + 1
      /\ \A i \in 1..n : indent_stack'[i] = indent_stack[i]
      /\ indent_stack'[n + 1] = indent
  <2> DEFINE front == SubSeq(indent_stack, 1, n)
  <2>1. indent \in Nat /\ indent_stack' = Append(front, indent)
    BY <1>1, <1>2
  <2>2. /\ Append(front, indent) \in Seq(Nat) /\ Len(Append(front, indent)) = n + 1
        /\ \A i \in 1..n : Append(front, indent)[i] = indent_stack[i]
        /\ Append(front, indent)[n + 1] = indent
    BY <2>1, <1>a, Extended, SMTT(20)
  <2> HIDE DEF front
  <2> QED  BY <2>1, <2>2
<1>5. /\ key_stack' \in Seq(Seq(Names)) /\ Len(key_stack') = n + 1
      /\ \A i \in 1..n : key_stack'[i] = key_stack[i]
      /\ key_stack'[n + 1] = key
  <2> DEFINE front == SubSeq(key_stack, 1, n)
  <2>1. key \in Seq(Names) /\ key_stack' = Append(front, key)
    BY <1>1, <1>2
  <2>2. /\ Append(front, key) \in Seq(Seq(Names)) /\ Len(Append(front, key)) = n + 1
        /\ \A i \in 1..n : Append(front, key)[i] = key_stack[i]
        /\ Append(front, key)[n + 1] = key
    BY <2>1, <1>a, Extended
  <2> HIDE DEF front
  <2> QED  BY <2>1, <2>2
<1>6. /\ open_lines' \in Seq(Nat) /\ Len(open_lines') = n + 1
      /\ \A i \in 1..n : open_lines'[i] = open_lines[i]
      /\ open_lines'[n + 1] = line + 1
  <2> DEFINE front == SubSeq(open_lines, 1, n)
  <2>0. open_lines' = Append(front, line + 1)
    BY <1>1
  <2>1. line + 1 \in Nat /\ open_lines' = Append(front, line + 1)
    BY <1>b, <2>0
  <2>2. /\ Append(front, line + 1) \in Seq(Nat) /\ Len(Append(front, line + 1)) = n + 1
        /\ \A i \in 1..n : Append(front, line + 1)[i] = open_lines[i]
        /\ Append(front, line + 1)[n + 1] = line + 1
    BY <2>1, <1>a, Extended, SMTT(20)
  <2> HIDE DEF front
  <2> QED  BY <2>1, <2>2
<1>7. OpenAfter(line + 1, line + 1)
  <2>1. file[line + 1] # Skipped /\ file[line + 1].value = ""
    BY <1>1 DEF Current
  <2>2. \A k \in (line + 1 + 1)..(line + 1) : FALSE
    BY <1>b
  <2> QED  BY <2>1, <2>2 DEF OpenAfter
<1>8. \A j : OpenAfter(j, line)' <=> OpenAfter(j, line + 1)
  BY <1>1 DEF OpenAfter
<1>9. StackOpen'
  <2>1. /\ n \in Nat /\ 1..n \subseteq 1..Len(open_lines)
        /\ 1..(n + 1) = 1..n \cup {n + 1} /\ 1..line' = 1..line \cup {line + 1}
    BY <1>b, <1>a, SMTT(20)
  <2>2. \A i \in 1..n : /\ open_lines'[i] \in 1..line
                        /\ OpenAfter(open_lines'[i], line + 1)
                        /\ indent_stack'[i] = file'[open_lines'[i]].indent
                        /\ key_stack'[i] = file'[open_lines'[i]].key
    BY <1>0, <1>b, <1>3, <1>4, <1>5, <1>6, <2>1 DEF StackOpen
  <2>3. \A i \in 1..(n + 1) : /\ open_lines'[i] \in 1..line'
                              /\ OpenAfter(open_lines'[i], line + 1)
                              /\ indent_stack'[i] = file'[open_lines'[i]].indent
                              /\ key_stack'[i] = file'[open_lines'[i]].key
    BY <1>b, <1>2, <1>4, <1>5, <1>6, <1>7, <2>1, <2>2
  <2>4. \A i, j \in 1..(n + 1) : i < j => open_lines'[i] < open_lines'[j]
    <3>1. \A i, j \in 1..n : i < j => open_lines'[i] < open_lines'[j]
      BY <1>0, <1>6, <2>1 DEF StackOpen
    <3> QED  BY <3>1, <2>1, <2>2, <1>b, <1>6, SMTT(20)
  <2>5. \A j \in 1..line' :
          OpenAfter(j, line + 1) => \E i \in 1..(n + 1) : open_lines'[i] = j
    BY <1>3, <1>6, <2>1
  <2> QED  BY <1>4, <1>5, <1>6, <1>8, <2>3, <2>4, <2>5 DEF StackOpen
<1>10. TypeOK'
  <2>1. line' \in 0..Len(file')
    BY <1>b
  <2> QED  BY <1>0, <1>1, <1>4, <1>5, <1>6, <2>1 DEF TypeOK, ReadSection
<1> QED  BY <1>9, <1>10

\* What is stored is complete, in 16 bits too.
LEMMA StoredUsable ==
  ASSUME TypeOK, Store
  PROVE  app_config' \in AppConfig /\ Usable'
<1> DEFINE c == Configured
<1>1. c \in AppConfig
  BY ConfiguredType
<1>2. app_config' = c /\ Complete(c)
  BY DEF Store
<1>3. c.max_recovery_message_count \in 1..(PortWord - 1)
  <2> DEFINE v == Setting(Itch("recovery", "max_recovery_message_count"))
  <2>1. v \in Values
    BY YamlAssumption DEF Setting, TypeOK
  <2>2. c.max_recovery_message_count = RecoveryCount(v)
    BY DEF Configured
  <2> HIDE DEF v, c
  <2>3. Number[v] \in Nat
    BY <2>1, YamlAssumption
  <2> QED  BY <2>2, <2>3, NarrowedRange
<1> HIDE DEF c
<1>4. c.mcast_port \in 1..(PortWord - 1)
  <2>1. c.mcast_port \in 0..(PortWord - 1) /\ c.mcast_port # 0
    BY <1>1, <1>2 DEF AppConfig, Complete
  <2>2. PortWord \in Nat
    BY DEF PortWord
  <2> QED  BY <2>1, <2>2, InRange
<1> QED  BY <1>1, <1>2, <1>3, <1>4 DEF Usable, Complete

\* Each step keeps the stack and the stored configuration as IInv says.
LEMMA NextIInv ==
  ASSUME IInv, [Next]_vars
  PROVE  IInv'
<1>0. /\ TypeOK /\ StackOpen /\ Usable
     /\ (pc = "spec" \/ loaded => app_config # NoConfig)
  BY DEF IInv
\* Nothing that StackOpen speaks of changes.
<1>1. ASSUME UNCHANGED <<file, line, stacks>>
      PROVE  StackOpen'
  <2>1. \A j : OpenAfter(j, line)' <=> OpenAfter(j, line)
    BY <1>1 DEF OpenAfter
  <2> QED  BY <1>0, <1>1, <2>1 DEF StackOpen, stacks
<1>2. CASE OpenFails \/ Open \/ EndOfFile \/ Refuse
  <2>1. /\ UNCHANGED <<file, line, stacks, settings, app_config, loaded>>
        /\ pc' \in {"read", "load", "done"}
    BY <1>2 DEF OpenFails, Open, EndOfFile, Refuse
  <2>2. TypeOK' /\ StackOpen' /\ Usable'
    BY <1>0, <1>1, <2>1 DEF TypeOK, Usable, stacks
  <2> QED  BY <1>0, <2>1, <2>2 DEF IInv
<1>3. CASE ReadSkipped
  <2>1. StackOpen'
    BY <1>3, SkippedKeepsStack
  <2>2. line' \in 0..Len(file')
    <3>1. line' = line + 1 /\ file' = file /\ line < Len(file)
      BY <1>3 DEF ReadSkipped
    <3>2. file \in Seq(Entry \cup {Skipped}) /\ line \in 0..Len(file)
      BY <1>0, YamlAssumption DEF TypeOK
    <3> QED  BY <3>1, <3>2
  <2> QED  BY <1>0, <1>3, <2>1, <2>2 DEF ReadSkipped, IInv, TypeOK, Usable, stacks
<1>4. CASE ReadSection
  BY <1>0, <1>4, SectionKeepsStack DEF ReadSection, IInv, Usable
<1>5. CASE ReadLeaf
  BY <1>0, <1>5, LeafKeepsStack DEF ReadLeaf, IInv, Usable
<1>6. CASE Store
  <2>1. app_config' \in AppConfig /\ Usable'
    BY <1>0, <1>6, StoredUsable
  <2>2. app_config' # NoConfig
    BY <2>1, YamlAssumption
  <2>3. TypeOK' /\ StackOpen'
    BY <1>0, <1>1, <1>6, <2>1 DEF Store, TypeOK, stacks
  <2> QED  BY <2>1, <2>2, <2>3 DEF IInv
<1>7. CASE LoadSpec \/ SpecThrows
  BY <1>0, <1>1, <1>7 DEF LoadSpec, SpecThrows, IInv, TypeOK, Usable, stacks
<1>8. CASE UNCHANGED vars
  BY <1>0, <1>1, <1>8 DEF vars, IInv, TypeOK, Usable, stacks
<1> QED  BY <1>2, <1>3, <1>4, <1>5, <1>6, <1>7, <1>8 DEF Next, Terminated

\* The inductive invariant, for every file.
THEOREM Invariance == Spec => []IInv
  BY InitIInv, NextIInv, PTL DEF Spec

\* The variables of load_config hold values of their types, for every file:
\* the numbers of an AppConfig are 16-bit ones.
THEOREM TypeCorrect == Spec => []TypeOK
<1>1. IInv => TypeOK
  BY DEF IInv
<1> QED  BY Invariance, <1>1, PTL

\* After each line of any file, however it is indented, the two stacks of
\* read_yaml hold exactly the sections that are open there.
THEOREM StackHoldsOpenSections == Spec => []StackOpen
<1>1. IInv => StackOpen
  BY DEF IInv
<1> QED  BY Invariance, <1>1, PTL

\* Whatever numbers a file gives, the port and the request size of a stored
\* configuration are not zero, which live mode and downloads take for granted.
THEOREM StoredIsUsable == Spec => []Usable
<1>1. IInv => Usable
  BY DEF IInv
<1> QED  BY Invariance, <1>1, PTL

-----------------------------------------------------------------------------
(***************************************************************************)
(* The path of a leaf.                                                     *)
(***************************************************************************)

\* Joining the keys on the stack one after the other (96-101) gives the
\* concatenation of them.
LEMMA DottedIsFlat ==
  ASSUME NEW s \in Seq(Seq(Names)), Len(s) # 0
  PROVE  Dotted(s) = FlattenSeq(s)
<1> DEFINE n == Len(s)
           step == [e \in (1..n) \X Seq(Names) |-> e[2] \o s[e[1]]]
           Joined(f) == f = [i \in 0..n |-> IF i = 0 THEN <<>> ELSE f[i - 1] \o s[i]]
           Flat(f) == f = [i \in 1..n |-> IF i = 1 THEN s[i] ELSE f[i - 1] \o s[i]]
<1>1. n \in Nat /\ n # 0 /\ \A i \in 1..n : s[i] \in Seq(Names)
  OBVIOUS
<1>2. step \in [(1..n) \X Seq(Names) -> Seq(Names)]
  BY <1>1
<1>3. \A i \in 1..n : \A p \in Seq(Names) : step[<<i, p>>] = p \o s[i]
  OBVIOUS
<1>4. Dotted(s) = (CHOOSE f : Joined(f))[n]
  BY DEF Dotted
<1>5. FlattenSeq(s) = (CHOOSE f : Flat(f))[n]
  BY <1>1 DEF FlattenSeq
<1> HIDE DEF step, n
<1>6. PICK f : IsRun(f, n, Seq(Names), <<>>, step)
  <2>1. n \in Nat /\ <<>> \in Seq(Names)
    BY <1>1
  <2> QED  BY <1>2, <2>1, Iteration, Zenon
<1>7. /\ f = [i \in 0..n |-> f[i]] /\ f[0] = <<>>
      /\ \A i \in 1..n : f[i - 1] \in Seq(Names) /\ f[i] = f[i - 1] \o s[i]
  <2>1. \A i \in 1..n : i - 1 \in 0..n
    BY <1>1
  <2>2. \A i \in 1..n : f[i - 1] \in Seq(Names)
    BY <1>6, <2>1 DEF IsRun
  <2> QED  BY <1>3, <1>6, <2>2 DEF IsRun
<1> DEFINE g == [i \in 1..n |-> f[i]]
<1>8. Joined(f)
  <2>1. \A i \in 0..n : i # 0 => i \in 1..n
    BY <1>1
  <2> QED  BY <1>7, <2>1
<1>9. Flat(g)
  <2>1. ASSUME NEW i \in 1..n
        PROVE  g[i] = IF i = 1 THEN s[i] ELSE g[i - 1] \o s[i]
    <3>1. CASE i = 1
      <4>1. g[i] = <<>> \o s[i]
        <5>1. g[i] = f[i - 1] \o s[i]
          BY <1>7
        <5>2. i - 1 = 0
          BY <3>1
        <5> QED  BY <1>7, <5>1, <5>2
      <4>2. s[i] \in Seq(Names)
        BY <1>1
      <4> QED  BY <3>1, <4>1, <4>2
    <3>2. CASE i # 1
      <4>1. i - 1 \in 1..n
        BY <1>1, <3>2
      <4> QED  BY <1>7, <3>2, <4>1
    <3> QED  BY <3>1, <3>2
  <2> QED  BY <2>1
<1> HIDE DEF Joined, Flat
<1> DEFINE j == CHOOSE h : Joined(h)
           t == CHOOSE h : Flat(h)
<1>10. Joined(j) /\ Flat(t)
  BY <1>8, <1>9
<1> HIDE DEF j, t, g
<1> DEFINE P == {i \in 0..n : i = 0 \/ j[i] = t[i]}
<1>11. /\ j[0] = <<>> /\ \A i \in 1..n : j[i] = j[i - 1] \o s[i]
       /\ t[1] = s[1] /\ \A i \in 2..n : t[i] = t[i - 1] \o s[i]
  <2>1. j = [i \in 0..n |-> IF i = 0 THEN <<>> ELSE j[i - 1] \o s[i]]
    BY <1>10 DEF Joined
  <2>2. t = [i \in 1..n |-> IF i = 1 THEN s[i] ELSE t[i - 1] \o s[i]]
    BY <1>10 DEF Flat
  <2>3. /\ 0 \in 0..n /\ 1 \in 1..n
        /\ \A i \in 1..n : i \in 0..n /\ i # 0
        /\ \A i \in 2..n : i \in 1..n /\ i # 1
    BY <1>1
  <2> QED  BY <2>1, <2>2, <2>3
<1>12. ASSUME NEW i \in 0..(n - 1), i \in P
       PROVE  i + 1 \in P
  <2>1. i + 1 \in 1..n /\ i + 1 \in 0..n /\ (i + 1) - 1 = i
    BY <1>1
  <2>2. CASE i = 0
    <3>0. 1 \in 1..n /\ 1 - 1 = 0
      BY <2>1, <2>2
    <3>a. j[1] = j[1 - 1] \o s[1]
      BY <1>11, <3>0
    <3>1. j[1] = <<>> \o s[1] /\ s[1] \in Seq(Names)
      BY <1>1, <1>11, <3>0, <3>a
    <3>2. j[1] = t[1]
      BY <1>11, <3>1
    <3> QED  BY <2>1, <2>2, <3>2
  <2>3. CASE i # 0
    <3>1. i + 1 \in 2..n /\ j[i] = t[i]
      BY <1>1, <1>12, <2>1, <2>3
    <3>2. j[i + 1] = t[i + 1]
      BY <1>11, <2>1, <3>1
    <3> QED  BY <2>1, <3>2
  <2> QED  BY <2>2, <2>3
<1>13. n \in P
  <2>1. 0 \in P
    BY <1>1
  <2> HIDE DEF P
  <2>2. 0..n \subseteq P
    BY <1>1, <1>12, <2>1, BoundedInduction
  <2> QED  BY <1>1, <2>2
<1> QED  BY <1>1, <1>4, <1>5, <1>13 DEF j, t

\* The sections that a line is in are those that are left on the stack when it
\* is read (82-86).
LEMMA SectionsLeft ==
  ASSUME TypeOK, StackOpen, line < Len(file), Current # Skipped
  PROVE  Sections(line + 1) = {open_lines[m] : m \in 1..Left(Current.indent)}
<1> DEFINE n == Left(Current.indent)
           i == line + 1
<1>1. /\ line \in Nat /\ i \in Nat /\ i - 1 = line /\ file[i] # Skipped
  BY CurrentLine DEF Current
<1>2. /\ n \in 0..Len(open_lines)
      /\ \A m \in 1..n : OpenAfter(open_lines[m], i)
      /\ \A j \in 1..line :
           OpenAfter(j, i) => \E m \in 1..n : open_lines[m] = j
  BY StillOpen
<1>3. \A m \in 1..Len(open_lines) : open_lines[m] \in 1..line
  BY DEF StackOpen
<1>4. Len(open_lines) \in Nat
  BY DEF TypeOK
<1> HIDE DEF n, i
<1>5. ASSUME NEW j \in 1..line
      PROVE  OpenAfter(j, i) <=> j \in Entries(line) /\ Encloses(j, i)
  <2>1. \A k : k \in (j + 1)..i /\ file[k] # Skipped <=> k \in Entries(i) /\ k > j
    BY <1>1 DEF Entries
  <2> QED  BY <2>1 DEF OpenAfter, Encloses, Entries
<1>6. Sections(i) = {j \in Entries(line) : Encloses(j, i)}
  BY <1>1 DEF Sections
<1>7. Entries(line) \subseteq 1..line
  BY DEF Entries
<1>8. \A m \in 1..n : open_lines[m] \in 1..line
  BY <1>2, <1>3, <1>4
<1>9. Sections(i) = {open_lines[m] : m \in 1..n}
  BY <1>2, <1>5, <1>6, <1>7, <1>8
<1> QED  BY <1>9 DEF n, i

\* The path that read_yaml builds for a line is the one that the file gives it.
LEMMA LeafPath ==
  ASSUME TypeOK, StackOpen, line < Len(file), Current # Skipped
  PROVE  Dotted(Append(SubSeq(key_stack, 1, Left(Current.indent)), Current.key))
           = PathOf(line + 1)
<1> DEFINE n == Left(Current.indent)
           i == line + 1
           keys == Append(SubSeq(key_stack, 1, n), Current.key)
           o == [m \in 1..(n + 1) |-> IF m = n + 1 THEN i ELSE open_lines[m]]
<1>1. /\ line \in Nat /\ i \in Nat /\ i = line + 1
      /\ Current.key \in Seq(Names) /\ Current.key = file[i].key
  BY CurrentLine DEF Current
<1>2. Sections(i) = {open_lines[m] : m \in 1..n}
  BY SectionsLeft
<1>3. n \in 0..Len(open_lines)
  BY StillOpen
<1>4. /\ Len(open_lines) \in Nat /\ Len(key_stack) = Len(open_lines)
      /\ key_stack \in Seq(Seq(Names))
      /\ \A m \in 1..Len(open_lines) :
           open_lines[m] \in 1..line /\ key_stack[m] = file[open_lines[m]].key
      /\ \A a, b \in 1..Len(open_lines) : a < b => open_lines[a] < open_lines[b]
  BY DEF TypeOK, StackOpen
<1> DEFINE key == Current.key
<1> HIDE DEF n, i, key
<1>5. /\ keys \in Seq(Seq(Names)) /\ Len(keys) = n + 1
      /\ \A m \in 1..n : keys[m] = key_stack[m]
      /\ keys[n + 1] = key
  <2>1. key \in Seq(Names) /\ n \in 0..Len(key_stack)
    BY <1>1, <1>3, <1>4 DEF key
  <2>2. keys = Append(SubSeq(key_stack, 1, n), key)
    BY DEF key
  <2> HIDE DEF keys
  <2> QED  BY <1>4, <2>1, <2>2, Extended
<1> HIDE DEF keys
<1>6. /\ n \in Nat /\ n + 1 \in Nat /\ n + 1 \in 1..(n + 1)
      /\ 1..n \subseteq 1..(n + 1) /\ 1..n \subseteq 1..Len(open_lines)
      /\ \A m \in 1..(n + 1) : m # n + 1 => m \in 1..n
      /\ \A m \in 1..n : m # n + 1
  BY <1>3, <1>4
<1>7. o \in [1..(n + 1) -> Nat]
  BY <1>1, <1>4, <1>6
<1>8. o[n + 1] = i /\ \A m \in 1..n : o[m] = open_lines[m]
  BY <1>6
<1> HIDE DEF o
<1>9. \A a, b \in 1..(n + 1) : a < b => o[a] < o[b]
  <2>1. \A a, b \in 1..(n + 1) : a < b => a \in 1..n
    BY <1>6
  <2>2. \A a, b \in 1..n : a < b => o[a] < o[b]
    BY <1>4, <1>6, <1>8
  <2>3. \A a \in 1..n : o[a] < o[n + 1]
    BY <1>1, <1>4, <1>6, <1>8
  <2> QED  BY <1>6, <2>1, <2>2, <2>3
<1>10. Sections(i) \cup {i} = {o[m] : m \in 1..(n + 1)}
  BY <1>2, <1>6, <1>8
<1>11. InOrder(Sections(i) \cup {i}) = o
  BY <1>6, <1>7, <1>9, <1>10, ListedInOrder
<1>12. keys = [m \in DOMAIN o |-> file[o[m]].key]
  <2>1. keys = [m \in 1..(n + 1) |-> keys[m]] /\ DOMAIN o = 1..(n + 1)
    BY <1>5, <1>7
  <2>2. \A m \in 1..(n + 1) : keys[m] = file[o[m]].key
    <3>1. \A m \in 1..n : keys[m] = file[o[m]].key
      BY <1>4, <1>5, <1>6, <1>8
    <3>2. keys[n + 1] = file[o[n + 1]].key
      BY <1>1, <1>5, <1>8 DEF key
    <3> QED  BY <1>6, <3>1, <3>2
  <2> QED  BY <2>1, <2>2
<1>13. PathOf(i) = FlattenSeq(keys)
  BY <1>11, <1>12 DEF PathOf
<1>14. Dotted(keys) = FlattenSeq(keys)
  <2>1. Len(keys) # 0
    BY <1>5, <1>6
  <2> QED  BY <1>5, <2>1, DottedIsFlat
<1>15. Dotted(keys) = PathOf(i)
  BY <1>13, <1>14
<1> QED  BY <1>15 DEF keys, i, n, key

-----------------------------------------------------------------------------
(***************************************************************************)
(* The settings are what the file says.                                    *)
(***************************************************************************)

\* What the file says does not change while it is read.
LEMMA FileStays ==
  ASSUME file' = file
  PROVE  /\ \A i : PathOf(i)' = PathOf(i)
         /\ \A n : Leaves(n)' = Leaves(n)
         /\ \A p, n : Written(p, n)' = Written(p, n)
<1>1. \A n : Entries(n)' = Entries(n)
  BY DEF Entries
<1>2. \A n : Leaves(n)' = Leaves(n)
  BY <1>1 DEF Leaves
<1>3. \A i, j : Encloses(i, j)' = Encloses(i, j)
  BY <1>1 DEF Encloses
<1>4. \A i : Sections(i)' = Sections(i)
  BY <1>1, <1>3 DEF Sections
<1>5. ASSUME NEW i
      PROVE  PathOf(i)' = PathOf(i)
  <2> DEFINE order == InOrder(Sections(i) \cup {i})
             keys == [k \in DOMAIN order |-> file[order[k]].key]
  <2>1. Sections(i)' = Sections(i)
    BY <1>4
  <2>2. order' = order
    BY <2>1
  <2>3. keys' = keys
    <3> HIDE DEF order
    <3> QED  BY <2>2
  <2>4. PathOf(i) = FlattenSeq(keys) /\ PathOf(i)' = FlattenSeq(keys')
    BY DEF PathOf
  <2> QED  BY <2>3, <2>4
<1>6. \A p, n : Written(p, n)' = Written(p, n)
  BY <1>2, <1>5 DEF Written
<1> QED  BY <1>2, <1>5, <1>6

\* A line that is not a leaf says nothing of any path; a leaf says what its
\* path has from now on.
LEMMA OneMoreLine ==
  ASSUME NEW n \in Nat
  PROVE  /\ file[n + 1] = Skipped \/ file[n + 1].value = "" =>
              /\ Leaves(n + 1) = Leaves(n)
              /\ \A p : Written(p, n + 1) = Written(p, n)
         /\ file[n + 1] # Skipped /\ file[n + 1].value # "" =>
              /\ Leaves(n + 1) = Leaves(n) \cup {n + 1}
              /\ \A p : Written(p, n + 1) = IF p = PathOf(n + 1) THEN file[n + 1].value
                                                                 ELSE Written(p, n)
<1>1. 1..(n + 1) = 1..n \cup {n + 1} /\ n + 1 \notin 1..n
  OBVIOUS
<1>2. CASE file[n + 1] = Skipped \/ file[n + 1].value = ""
  <2>1. Leaves(n + 1) = Leaves(n)
    BY <1>1, <1>2 DEF Leaves, Entries
  <2>2. \A p : Written(p, n + 1) = Written(p, n)
    BY <2>1 DEF Written
  <2> QED  BY <1>2, <2>1, <2>2
<1>3. CASE file[n + 1] # Skipped /\ file[n + 1].value # ""
  <2>1. Leaves(n + 1) = Leaves(n) \cup {n + 1} /\ Leaves(n) \subseteq 1..n
    BY <1>1, <1>3 DEF Leaves, Entries
  <2>2. ASSUME NEW p, p # PathOf(n + 1)
        PROVE  Written(p, n + 1) = Written(p, n)
    <3>1. {i \in Leaves(n + 1) : PathOf(i) = p} = {i \in Leaves(n) : PathOf(i) = p}
      BY <2>1, <2>2
    <3> QED  BY <3>1 DEF Written
  <2>3. Written(PathOf(n + 1), n + 1) = file[n + 1].value
    <3> DEFINE T == {i \in Leaves(n + 1) : PathOf(i) = PathOf(n + 1)}
    <3>1. n + 1 \in T /\ T \subseteq 1..(n + 1)
      BY <1>1, <2>1
    <3>2. Written(PathOf(n + 1), n + 1) = file[Max(T)].value
      BY <3>1 DEF Written
    <3> HIDE DEF T
    <3>3. Max(T) = n + 1
      <4>1. \A y \in T : n + 1 >= y
        BY <3>1
      <4>2. \A x \in T : (\A y \in T : x >= y) => x = n + 1
        BY <3>1
      <4> QED  BY <3>1, <4>1, <4>2 DEF Max
    <3> QED  BY <3>2, <3>3
  <2> QED  BY <1>3, <2>1, <2>2, <2>3
<1> QED  BY <1>2, <1>3

\* Before the first line nothing is set and nothing has been written.
LEMMA InitSettled == Init => Settled /\ Taken
<1> SUFFICES ASSUME Init
             PROVE  Settled /\ Taken
  OBVIOUS
<1>1. Leaves(0) = {}
  BY DEF Leaves, Entries
<1>2. line = 0 /\ DOMAIN settings = {} /\ pc = "open" /\ app_config = NoConfig
  BY DEF Init
<1> QED  BY <1>1, <1>2 DEF Settled, Taken

\* Each step keeps the settings what the lines read so far say.
LEMMA NextSettled ==
  ASSUME IInv, Settled, [Next]_vars
  PROVE  Settled'
<1>1. TypeOK /\ StackOpen
  BY DEF IInv
<1>2. file' = file
  BY DEF Next, vars, OpenFails, Open, ReadSkipped, ReadSection, ReadLeaf, EndOfFile,
         Refuse, Store, LoadSpec, SpecThrows, Terminated
<1>3. /\ \A i : PathOf(i)' = PathOf(i)
      /\ \A n : Leaves(n)' = Leaves(n)
      /\ \A p, n : Written(p, n)' = Written(p, n)
  BY <1>2, FileStays
<1>4. CASE UNCHANGED <<line, settings>>
  <2>1. /\ Leaves(line) = {i \in Leaves(line) : TRUE}
        /\ line' = line /\ settings' = settings
    BY <1>4
  <2> QED  BY <1>3, <2>1 DEF Settled
<1>5. CASE ReadSkipped \/ ReadSection
  <2>1. /\ line' = line + 1 /\ settings' = settings
        /\ file[line + 1] = Skipped \/ file[line + 1].value = ""
    BY <1>5 DEF ReadSkipped, ReadSection, Current
  <2>2. line \in Nat
    BY <1>1 DEF TypeOK
  <2>3. /\ Leaves(line + 1) = Leaves(line)
        /\ \A p : Written(p, line + 1) = Written(p, line)
    BY <2>1, <2>2, OneMoreLine
  <2> QED  BY <1>3, <2>1, <2>3 DEF Settled
<1>6. CASE ReadLeaf
  <2> DEFINE n == Left(Current.indent)
             path == Dotted(Append(SubSeq(key_stack, 1, n), Current.key))
  <2>1. /\ line < Len(file) /\ Current # Skipped /\ Current.value # ""
        /\ line' = line + 1
        /\ settings' = [p \in DOMAIN settings \cup {path} |->
                          IF p = path THEN Current.value ELSE settings[p]]
    BY <1>6 DEF ReadLeaf
  <2>2. path = PathOf(line + 1)
    BY <1>1, <2>1, LeafPath
  <2>3. line \in Nat /\ Current = file[line + 1]
    BY <1>1 DEF TypeOK, Current
  <2>4. /\ Leaves(line + 1) = Leaves(line) \cup {line + 1}
        /\ \A p : Written(p, line + 1) = IF p = path THEN Current.value
                                                     ELSE Written(p, line)
    BY <2>1, <2>2, <2>3, OneMoreLine
  <2> HIDE DEF path
  <2>5. DOMAIN settings' = {PathOf(i) : i \in Leaves(line + 1)}
    BY <2>1, <2>2, <2>4 DEF Settled
  <2>6. \A p \in DOMAIN settings' : settings'[p] = Written(p, line + 1)
    BY <2>1, <2>4 DEF Settled
  <2> QED  BY <1>3, <2>1, <2>5, <2>6 DEF Settled
<1>7. ReadSkipped \/ ReadSection \/ ReadLeaf \/ UNCHANGED <<line, settings>>
  BY DEF Next, vars, OpenFails, Open, EndOfFile, Refuse, Store, LoadSpec, SpecThrows,
         Terminated
<1> QED  BY <1>4, <1>5, <1>6, <1>7

\* What is stored or refused is made from the whole file, and stays.
LEMMA NextTaken ==
  ASSUME IInv, Taken, [Next]_vars
  PROVE  Taken'
<1>1. settings' = settings => Configured' = Configured
  BY DEF Configured, Setting
<1>2. CASE Open \/ OpenFails \/ EndOfFile
  <2>1. /\ pc' \in {"read", "done", "load"} /\ UNCHANGED <<file, line, app_config>>
        /\ pc \in {"open", "read"}
        /\ pc' = "done" => pc = "open"
        /\ pc' = "load" => line = Len(file)
    BY <1>2 DEF Open, OpenFails, EndOfFile
  <2>2. app_config = NoConfig /\ (pc' = "done" => line = 0)
    BY <2>1 DEF Taken
  <2> QED  BY <2>1, <2>2 DEF Taken
<1>3. CASE ReadSkipped \/ ReadSection \/ ReadLeaf
  <2>1. pc = "read" /\ pc' = pc /\ app_config' = app_config
    BY <1>3 DEF ReadSkipped, ReadSection, ReadLeaf
  <2>2. app_config = NoConfig
    BY <2>1 DEF Taken
  <2> QED  BY <2>1, <2>2 DEF Taken
<1>4. CASE Refuse
  <2>1. /\ pc = "load" /\ ~Complete(Configured) /\ pc' = "done"
        /\ UNCHANGED <<file, line, settings, app_config>>
    BY <1>4 DEF Refuse
  <2>2. app_config = NoConfig
    BY <2>1 DEF Taken
  <2>3. ~Complete(Configured')
    BY <1>1, <2>1
  <2> QED  BY <2>1, <2>2, <2>3 DEF Taken, Complete
<1>5. CASE Store
  <2>1. /\ pc = "load" /\ pc' = "spec" /\ app_config' = Configured
        /\ UNCHANGED <<file, line, settings>>
    BY <1>5 DEF Store
  <2>2. line = Len(file)
    BY <2>1 DEF Taken
  <2> QED  BY <1>1, <2>1, <2>2 DEF Taken
<1>6. CASE LoadSpec \/ SpecThrows
  <2>1. /\ pc = "spec" /\ pc' \in {"done", "terminated"}
        /\ UNCHANGED <<file, line, settings, app_config>>
    BY <1>6 DEF LoadSpec, SpecThrows
  <2>2. app_config # NoConfig /\ line = Len(file) /\ app_config = Configured
    BY <2>1 DEF Taken, IInv
  <2> QED  BY <1>1, <2>1, <2>2 DEF Taken
<1>7. CASE UNCHANGED vars
  <2>1. /\ UNCHANGED <<file, pc, line, settings, app_config>> /\ Configured' = Configured
    BY <1>1, <1>7 DEF vars
  <2>2. Complete(Configured)' = Complete(Configured)
    BY <2>1 DEF Complete
  <2> QED  BY <2>1, <2>2 DEF Taken
<1> QED  BY <1>2, <1>3, <1>4, <1>5, <1>6, <1>7 DEF Next, Terminated

\* Settled and Taken hold, for every file.
THEOREM SettledThroughout == Spec => [](Settled /\ Taken)
<1>1. IInv /\ Settled /\ Taken /\ [Next]_vars => Settled' /\ Taken'
  BY NextSettled, NextTaken
<1> QED  BY InitSettled, <1>1, Invariance, PTL DEF Spec

\* However the lines of a file are indented, read_yaml gives each leaf the path
\* of the sections it is in, and the last line with a path counts.
THEOREM EveryFileNested == Spec => []NestingRight
<1>1. Settled => NestingRight
  BY DEF Settled, NestingRight
<1> QED  BY SettledThroughout, <1>1, PTL

\* When the whole file is read, a setting is what the file says of its path.
LEMMA SettingWritten ==
  ASSUME Settled, line = Len(file), NEW p
  PROVE  Setting(p) = Written(p, Len(file))
<1>1. CASE p \in DOMAIN settings
  BY <1>1 DEF Settled, Setting
<1>2. CASE p \notin DOMAIN settings
  <2>1. {i \in Leaves(Len(file)) : PathOf(i) = p} = {}
    BY <1>2 DEF Settled
  <2> QED  BY <1>2, <2>1 DEF Setting, Written
<1> QED  BY <1>1, <1>2

\* A number that 16 bits hold is not changed by narrowing it.
LEMMA Narrow ==
  ASSUME NEW k \in Nat, k <= 65535
  PROVE  k % 65536 = k
  BY SMT

\* What narrowing makes of a number: a port that is 0 was 0 or did not fit.
LEMMA FitsPort ==
  ASSUME NEW v, Number[v] \in Nat
  PROVE  /\ PortKept(Number[v], Narrowed(v))
         /\ CountKept(Number[v], RecoveryCount(v))
         /\ Narrowed(v) = 0 => NoPort(Number[v])
<1> DEFINE k == Number[v]
<1>1. PortKept(k, Narrowed(v))
  <2>1. Narrowed(v) = k % 65536
    BY SMT DEF Narrowed, PortWord
  <2> HIDE DEF k
  <2>2. k \in Nat
    BY SMT DEF k
  <2> QED  BY <2>1, <2>2, Narrow, SMT DEF PortKept
<1>2. RecoveryCount(v) = IF Narrowed(v) = 0 THEN 5000 ELSE Narrowed(v)
  BY SMT DEF RecoveryCount, DefaultCount
<1>3. k \in Nat
  OBVIOUS
<1> HIDE DEF k
<1>4. ASSUME 1 <= k /\ k <= 65535
      PROVE  RecoveryCount(v) = k
  <2>1. k <= 65535 /\ k # 0
    BY <1>3, <1>4, SMT
  <2>2. Narrowed(v) = k
    BY <1>1, <2>1, SMT DEF PortKept
  <2>3. Narrowed(v) # 0
    BY <2>1, <2>2, SMT
  <2>4. RecoveryCount(v) = Narrowed(v)
    BY <1>2, <2>3, SMT
  <2> QED  BY <2>2, <2>4, SMT
<1>5. ASSUME k = 0
      PROVE  RecoveryCount(v) = 5000
  <2>1. Narrowed(v) = 0
    BY <1>1, <1>5, SMT DEF PortKept
  <2> QED  BY <1>2, <2>1, SMT
<1>6. Narrowed(v) = 0 => NoPort(k)
  BY <1>1, <1>3, SMT DEF PortKept, NoPort
<1>7. CountKept(k, RecoveryCount(v))
  <2>1. RecoveryCount(v) \in 1..(PortWord - 1)
    BY <1>3, NarrowedRange DEF k
  <2>2. PortWord - 1 \in Nat
    BY SMT DEF PortWord
  <2>3. RecoveryCount(v) \in Nat
    BY <2>1, <2>2, SMT
  <2> QED  BY <1>3, <1>4, <1>5, <2>3, SMT DEF CountKept
<1> QED  BY <1>1, <1>6, <1>7 DEF k

\* The configuration made of the settings of the whole file, in the words of
\* the file.
LEMMA ConfiguredSays ==
  ASSUME TypeOK, Settled, line = Len(file)
  PROVE  /\ Configured.mcast_ip = Says("realtime", "multicast_address")
         /\ Configured.interface_ip = Says("realtime", "interface")
         /\ Configured.mcast_source_ip = Says("realtime", "source_address")
         /\ Configured.mcast_rerequester_ip = Says("recovery", "rerequester_address")
         /\ Configured.mcast_port = Narrowed(Says("realtime", "multicast_port"))
         /\ Configured.mcast_rerequester_port
              = Narrowed(Says("recovery", "rerequester_port"))
         /\ Configured.max_recovery_message_count
              = RecoveryCount(Says("recovery", "max_recovery_message_count"))
         /\ Configured.protocol_spec.name = SpecSaid
         /\ \A section, key : Number[Says(section, key)] \in Nat
<1>1. ASSUME NEW section, NEW key
      PROVE  Says(section, key) = Setting(Itch(section, key))
  BY SettingWritten DEF Says
<1>2. SpecSaid = Setting(<<"itch_udp_settings", "spec">>)
  BY SettingWritten DEF SpecSaid
<1>3. \A p : Setting(p) \in Values
  BY YamlAssumption DEF Setting, TypeOK
<1>4. \A section, key : Number[Says(section, key)] \in Nat
  BY <1>1, <1>3, YamlAssumption
<1> QED  BY <1>1, <1>2, <1>4 DEF Configured, resolve_path

\* For every file, what load_config stores is what the file says, and what it
\* refuses lacks something or has a port that 16 bits do not hold.
THEOREM ConfigIsAsWritten == Spec => []LoadedAsWritten
<1>1. ASSUME IInv, Settled, Taken
      PROVE  LoadedAsWritten
  <2> DEFINE Stored(c) ==
        /\ c.mcast_ip = Says("realtime", "multicast_address")
        /\ c.interface_ip = Says("realtime", "interface")
        /\ c.mcast_source_ip = Says("realtime", "source_address")
        /\ c.mcast_rerequester_ip = Says("recovery", "rerequester_address")
        /\ PortKept(Number[Says("realtime", "multicast_port")], c.mcast_port)
        /\ PortKept(Number[Says("recovery", "rerequester_port")],
                    c.mcast_rerequester_port)
        /\ CountKept(Number[Says("recovery", "max_recovery_message_count")],
                     c.max_recovery_message_count)
        /\ c.protocol_spec.name = SpecSaid
  <2>1. ASSUME line = Len(file)
        PROVE  Stored(Configured)
    <3>1. TypeOK
      BY <1>1 DEF IInv
    <3> QED  BY <1>1, <2>1, <3>1, ConfiguredSays, FitsPort, Zenon
  <2>2. app_config # NoConfig => Stored(app_config)
    <3>1. app_config # NoConfig => line = Len(file) /\ app_config = Configured
      BY <1>1 DEF Taken
    <3> HIDE DEF Stored
    <3> QED  BY <2>1, <3>1
  <2>3. ASSUME pc = "done", line = Len(file), line > 0, app_config = NoConfig
        PROVE  \/ "" \in {Says("realtime", "multicast_address"),
                          Says("realtime", "interface"), SpecSaid}
               \/ NoPort(Number[Says("realtime", "multicast_port")])
    <3>1. ~Complete(Configured) /\ TypeOK
      BY <1>1, <2>3 DEF Taken, IInv
    <3>2. \/ Says("realtime", "multicast_address") = ""
          \/ Says("realtime", "interface") = ""
          \/ SpecSaid = ""
          \/ Narrowed(Says("realtime", "multicast_port")) = 0
      BY <1>1, <2>3, <3>1, ConfiguredSays, Zenon DEF Complete
    <3>3. Narrowed(Says("realtime", "multicast_port")) = 0 =>
            NoPort(Number[Says("realtime", "multicast_port")])
      BY <1>1, <2>3, <3>1, ConfiguredSays, FitsPort, Zenon
    <3> QED  BY <3>2, <3>3
  <2> QED  BY <2>2, <2>3, Zenon DEF LoadedAsWritten
<1> QED  BY SettledThroughout, Invariance, <1>1, PTL
=============================================================================
