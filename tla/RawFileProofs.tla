--------------------------- MODULE RawFileProofs ---------------------------
(***************************************************************************)
(* The safety properties of decode_file and of the walk over a packet, for *)
(* every file, filter and limit.                                           *)
(***************************************************************************)
EXTENDS RawFormat, Induction

\* The elements of a sequence over S are in S.
LEMMA ElementType ==
  ASSUME NEW S, NEW s \in Seq(S), NEW i \in 1..Len(s)
  PROVE  s[i] \in S
OBVIOUS

\* A place inside the packet holds a byte.
LEMMA ByteType ==
  ASSUME packet \in RawPacket, NEW pos \in Nat, HeaderLength <= pos, pos < Size
  PROVE  ByteAt(pos) \in 0..255
<1> DEFINE i == pos - HeaderLength + 1
<1>1. packet.body \in Seq(0..255)
  BY DEF RawPacket
<1>2. i \in 1..Len(packet.body)
  BY <1>1 DEF Size, HeaderLength
<1> HIDE DEF i
<1>3. packet.body[i] \in 0..255
  BY <1>1, <1>2, ElementType
<1> QED
  BY <1>3 DEF ByteAt, i

\* What next_mold_message reads inside the packet is a 16-bit value.
LEMMA LengthType ==
  ASSUME packet \in RawPacket, offset \in Nat, HeaderLength <= offset,
         offset + 2 <= Size
  PROVE  /\ Size \in Nat
         /\ read_u16_big_endian(offset) \in Nat
<1>1. Size \in Nat
  BY DEF Size, HeaderLength, RawPacket
<1> DEFINE high == ByteAt(offset)
           low == ByteAt(offset + 1)
<1>2. high \in 0..255
  BY <1>1, ByteType DEF HeaderLength
<1>3. low \in 0..255
  BY <1>1, ByteType DEF HeaderLength
<1> HIDE DEF high, low
<1>4. 256 * high + low \in Nat
  BY <1>2, <1>3
<1> QED
  BY <1>1, <1>4 DEF read_u16_big_endian, high, low

\* What is printed does not depend on what is behind the packet: the type of
\* a message that is printed lies in it.
LEMMA WalkShows ==
  ASSUME TypeOK, packet \in RawPacket, HeaderLength <= offset, WalkMessage
  PROVE  LET type == ByteAt(offset + 2) IN
           shown' = IF Shows(type, read_u16_big_endian(offset))
                    THEN Append(shown, <<packet.seq + index, type>>) ELSE shown
<1> DEFINE length == read_u16_big_endian(offset)
           type == ByteAt(offset + 2)
<1>1. PICK t \in Found(offset + 2) :
        shown' = IF Shows(t, length)
                 THEN Append(shown, <<packet.seq + index, t>>) ELSE shown
  BY DEF WalkMessage
<1>2. /\ offset \in Nat /\ Size \in Nat /\ length \in Nat
      /\ offset + 2 + length <= Size
  BY LengthType DEF TypeOK, WalkMessage, MessageFollows
<1> HIDE DEF length
<1>3. CASE length > 0
  <2>1. offset + 2 < Size
    BY <1>2, <1>3
  <2>2. t = type
    BY <2>1 DEF Found
  <2> QED
    BY <1>1, <2>2 DEF length
<1>4. CASE ~(length > 0)
  <2>1. ~Shows(t, length) /\ ~Shows(type, length)
    BY <1>4 DEF Shows
  <2> QED
    BY <1>1, <2>1 DEF length
<1> QED
  BY <1>3, <1>4

\* decode_file begins with no packet under way.
LEMMA InitInv == Init => IInv
<1> SUFFICES ASSUME Init PROVE IInv
  OBVIOUS
<1>1. file \in Files /\ file.total \in Nat \ {0}
      /\ (4 <= file.total => 0 \in DOMAIN file.at)
  BY FilesAssumption DEF Init
<1>2. CursorOnFrame
  BY <1>1 DEF Init, CursorOnFrame
<1>3. TypeOK
  <2>1. shown \in Seq(Nat \X (0..255))
    BY DEF Init, WalkInit
  <2> QED
    BY <1>1, <2>1 DEF Init, WalkInit, TypeOK
<1>4. WithinPacket /\ Walking
  BY WalkAssumption DEF Init, WalkInit, WithinPacket, Walking
<1> QED
  BY <1>2, <1>3, <1>4 DEF IInv

\* A step of the walk stays inside the packet.
LEMMA WalkInv == IInv /\ WalkFrame /\ UNCHANGED options => IInv'
<1> SUFFICES ASSUME TypeOK, CursorOnFrame, WithinPacket, Walking, WalkFrame,
                    UNCHANGED options
             PROVE  TypeOK' /\ CursorOnFrame' /\ WithinPacket' /\ Walking'
  BY DEF IInv
<1> UNCHANGED <<max_messages, type_allowed, file, pc, exit, cursor, packet_count>>
  BY DEF options, WalkFrame
<1>1. CursorOnFrame'
  BY DEF CursorOnFrame
<1>2. /\ pc = "decode" /\ walking /\ packet \in RawPacket
      /\ UNCHANGED <<packet, before>>
  BY NoPacketAssumption DEF WalkFrame, Walk, WalkMessage, WalkEnds, Walking, TypeOK
<1>3. max_messages \in Nat
  BY WalkAssumption DEF TypeOK
<1>4. CASE WalkMessage
  <2> DEFINE length == read_u16_big_endian(offset)
  <2>1. /\ remaining # 0 /\ offset + 2 <= Size /\ offset + 2 + length <= Size
        /\ offset' = offset + 2 + length
        /\ remaining' = remaining - 1
        /\ index' = index + 1
        /\ processed' = processed + 1
        /\ decoded_count' = decoded_count + 1
        /\ stop_now' = (max_messages # 0 /\ decoded_count' >= max_messages)
        /\ walking' = ~stop_now'
        /\ read' \in {offset + 2, offset + 3}
    BY <1>4 DEF WalkMessage, MessageFollows, PassMessage, TypeOK
  <2>2. HeaderLength <= offset /\ HeaderLength \in Nat
    BY <1>2, NoPacketAssumption DEF Walking, HeaderLength
  <2>3. Size \in Nat /\ length \in Nat /\ Size' = Size
    BY <1>2, <2>1, <2>2, LengthType DEF TypeOK, Size
  <2>4. shown' \in Seq(Nat \X (0..255))
    <3> DEFINE type == ByteAt(offset + 2)
    <3>0. shown' = IF Shows(type, length)
                   THEN Append(shown, <<packet.seq + index, type>>) ELSE shown
      BY <1>2, <1>4, <2>2, WalkShows
    <3>1. CASE Shows(type, length)
      <4>1. shown' = Append(shown, <<packet.seq + index, ByteAt(offset + 2)>>)
        BY <3>0, <3>1
      <4>2. packet.body \in Seq(0..255) /\ packet.seq \in Nat
        BY <1>2 DEF RawPacket
      <4>3. offset + 2 \in Nat /\ HeaderLength <= offset + 2 /\ offset + 2 < Size
        BY <2>1, <2>2, <2>3, <3>1 DEF Shows, TypeOK
      <4>4. ByteAt(offset + 2) \in 0..255 /\ packet.seq + index \in Nat
        BY <1>2, <4>2, <4>3, ByteType DEF TypeOK
      <4> QED
        BY <4>1, <4>4 DEF TypeOK
    <3>2. CASE ~Shows(type, length)
      BY <3>0, <3>2 DEF TypeOK
    <3> QED
      BY <3>1, <3>2
  <2> HIDE DEF length
  <2>5. stop_now' \in BOOLEAN /\ walking' \in BOOLEAN
    BY <2>1
  <2>6. TypeOK'
    BY <1>2, <2>1, <2>3, <2>4, <2>5 DEF TypeOK
  <2>7. WithinPacket'
    BY <2>1, <2>3 DEF WithinPacket
  <2>8. packet # NoPacket /\ ~stop_now
    BY <1>2, NoPacketAssumption DEF Walking
  <2>9. /\ HeaderLength <= offset'
        /\ index' = processed'
        /\ processed' + remaining' = packet.count
        /\ decoded_count' = before + processed'
    BY <2>1, <2>2, <2>3, <2>8 DEF Walking, TypeOK
  <2>10. /\ stop_now' => max_messages # 0 /\ decoded_count' = max_messages
         /\ ~stop_now' /\ max_messages # 0 => decoded_count' < max_messages
    <3>1. stop_now' <=> max_messages # 0 /\ decoded_count' >= max_messages
      BY <2>1
    <3>2. decoded_count \in Nat /\ (max_messages # 0 => decoded_count < max_messages)
      BY <2>8 DEF Walking, TypeOK
    <3>3. decoded_count' = decoded_count + 1
      BY <2>1
    <3> QED
      BY <1>3, <3>1, <3>2, <3>3
  <2> QED
    BY <1>1, <1>2, <2>1, <2>6, <2>7, <2>9, <2>10 DEF Walking, FrameFits
<1>5. CASE WalkEnds
  <2>1. walking' = FALSE
        /\ UNCHANGED <<offset, remaining, index, processed, decoded_count,
                       stop_now, shown>>
        /\ read' \in {offset + 2, read}
    BY <1>5 DEF WalkEnds
  <2>2. read' \in Nat
    BY <2>1 DEF TypeOK
  <2>3. TypeOK'
    BY <1>2, <2>1, <2>2 DEF TypeOK
  <2> QED
    BY <1>1, <1>2, <2>1, <2>3 DEF WithinPacket, Size, Walking, FrameFits
<1> QED
  BY <1>4, <1>5 DEF WalkFrame, Walk

\* Passing over a whole frame leads to the next one, or to the end.
LEMMA PassFrameKeeps ==
  ASSUME TypeOK, cursor < file.total, FrameFits, CursorOnFrame, PassFrame,
         UNCHANGED file
  PROVE  /\ cursor' \in Nat /\ packet_count' \in Nat
         /\ CursorOnFrame'
<1>1. /\ file.total \in Nat
      /\ DOMAIN file.at \subseteq 0..(file.total - 4)
      /\ cursor \in Nat
  BY FilesAssumption DEF TypeOK
<1>2. cursor \in DOMAIN file.at
  BY <1>1 DEF FrameFits, CursorOnFrame
<1> DEFINE length == file.at[cursor].length
<1>3. /\ length \in Nat
      /\ length >= HeaderLength
      /\ cursor + 4 + length + 4 <= file.total => cursor + 4 + length \in DOMAIN file.at
      /\ cursor + 4 + length <= file.total
  BY <1>2, FilesAssumption DEF TypeOK, FrameFits
<1>4. cursor' = cursor + 4 + length /\ packet_count' = packet_count + 1
  BY DEF PassFrame
<1> HIDE DEF length
<1>5. cursor' \in Nat /\ packet_count' \in Nat
  BY <1>1, <1>3, <1>4 DEF TypeOK
<1>6. cursor + 4 + length + 4 <= file.total \/ file.total - 4 < cursor + 4 + length
  BY <1>1, <1>3
<1>7. CursorOnFrame'
  BY <1>3, <1>4, <1>6 DEF CursorOnFrame
<1> QED
  BY <1>5, <1>7

\* The packet in front of the cursor is one the walk can be called with.
LEMMA FramePacket ==
  ASSUME TypeOK, FrameFits, CursorOnFrame
  PROVE  file.at[cursor].packet \in RawPacket
<1>1. file.total \in Nat /\ cursor \in Nat
  BY FilesAssumption DEF TypeOK
<1>2. cursor \in DOMAIN file.at
  BY <1>1 DEF FrameFits, CursorOnFrame
<1> QED
  BY <1>2, FilesAssumption DEF TypeOK, FrameFits

\* Every step keeps the invariant.
LEMMA StepInv == IInv /\ [Next]_vars => IInv'
<1> SUFFICES ASSUME IInv, [Next]_vars PROVE IInv'
  OBVIOUS
<1>1. TypeOK /\ CursorOnFrame /\ WithinPacket /\ Walking
  BY DEF IInv
<1>2. CASE UNCHANGED vars
  BY <1>1, <1>2 DEF IInv, TypeOK, CursorOnFrame, WithinPacket, Size, Walking, FrameFits,
                    vars, options, walkVars
<1>3. ASSUME UNCHANGED <<options, walkVars, file>>,
             pc' \in {"frame", "done"}, exit' \in {-1, 0, 1},
             cursor' \in Nat, packet_count' \in Nat, CursorOnFrame',
             pc' = "frame" => ~stop_now,
             pc = "decode" => ~walking
      PROVE  IInv'
  <2>1. TypeOK'
    BY <1>1, <1>3 DEF TypeOK, options, walkVars
  <2>2. WithinPacket'
    BY <1>1, <1>3 DEF WithinPacket, Size, walkVars
  <2>3. Walking'
    BY <1>1, <1>3 DEF Walking, options, walkVars
  <2> QED
    BY <1>3, <2>1, <2>2, <2>3 DEF IInv
<1>4. CASE UNCHANGED options /\ OpenFails
  BY <1>1, <1>3, <1>4 DEF OpenFails, Return, CursorOnFrame, TypeOK
<1>5. CASE UNCHANGED options /\ OpenFile
  BY <1>1, <1>3, <1>5 DEF OpenFile, CursorOnFrame, TypeOK, Walking
<1>6. CASE UNCHANGED options /\ FileEnds
  BY <1>1, <1>3, <1>6 DEF FileEnds, Return, CursorOnFrame, TypeOK
<1>7. CASE UNCHANGED options /\ SkipFrame
  <2>1. cursor' \in Nat /\ packet_count' \in Nat /\ CursorOnFrame'
    BY <1>1, <1>7, PassFrameKeeps DEF SkipFrame
  <2> QED
    BY <1>1, <1>3, <1>7, <2>1 DEF SkipFrame, TypeOK, Walking
<1>8. CASE UNCHANGED options /\ DecodeFrame
  <2> DEFINE p == file.at[cursor].packet
  <2>1. p \in RawPacket
    BY <1>1, <1>8, FramePacket DEF DecodeFrame
  <2>2. /\ pc = "frame" /\ pc' = "decode"
        /\ Call(p)
        /\ UNCHANGED <<exit, file, cursor, packet_count>>
    BY <1>8 DEF DecodeFrame
  <2> HIDE DEF p
  <2>3. p.count \in Nat /\ HeaderLength \in Nat /\ Len(p.body) \in Nat
    BY <2>1, EndCountAssumption DEF RawPacket, HeaderLength
  <2>4. /\ walking' = TRUE /\ packet' = p /\ offset' = HeaderLength
        /\ remaining' = p.count /\ index' = 0 /\ processed' = 0
        /\ stop_now' = FALSE /\ before' = decoded_count
        /\ read' = HeaderLength
        /\ UNCHANGED <<decoded_count, shown>>
    BY <2>2 DEF Call
  <2>5. TypeOK'
    BY <1>1, <1>8, <2>1, <2>2, <2>3, <2>4 DEF TypeOK, options
  <2>6. CursorOnFrame'
    BY <1>1, <2>2 DEF CursorOnFrame
  <2>7. WithinPacket'
    BY <2>3, <2>4 DEF WithinPacket, Size
  <2>8. Walking'
    BY <1>1, <1>8, <2>1, <2>2, <2>3, <2>4, NoPacketAssumption
       DEF DecodeFrame, FrameFits, Walking, TypeOK, options
  <2> QED
    BY <2>5, <2>6, <2>7, <2>8 DEF IInv
<1>9. CASE UNCHANGED options /\ FrameDecoded
  <2>1. /\ pc = "decode" /\ ~walking /\ PassFrame
        /\ IF stop_now THEN pc' = "done" /\ exit' = 0
                       ELSE pc' = "frame" /\ exit' = exit
        /\ UNCHANGED <<walkVars, file>>
    BY <1>9 DEF FrameDecoded, Return
  <2>2. cursor' \in Nat /\ packet_count' \in Nat /\ CursorOnFrame'
    BY <1>1, <2>1, PassFrameKeeps DEF Walking, walkVars
  <2> QED
    BY <1>1, <1>3, <1>9, <2>1, <2>2 DEF TypeOK
<1> QED
  BY <1>2, <1>4, <1>5, <1>6, <1>7, <1>8, <1>9, WalkInv DEF Next, Decode, Terminated

\* The invariant holds in every reachable state.
THEOREM Invariance == Spec => []IInv
BY InitInv, StepInv, PTL DEF Spec
-----------------------------------------------------------------------------
(***************************************************************************)
(* The properties.                                                         *)
(***************************************************************************)

\* The variables keep the types of the code's; remaining, which is unsigned,
\* does not go below zero.
THEOREM TypeCorrect == Spec => []TypeOK
BY Invariance, PTL DEF IInv

\* A number that is not above another is that one, or its successor is not above it either.
LEMMA NextPlace ==
  \A a, b \in Nat : a <= b => a = b \/ a + 1 <= b
OBVIOUS

\* A step reads nothing behind the packet but the byte that follows an empty
\* message, and that only for the filter.
LEMMA ReadsStep ==
  IInv /\ ReadBehind /\ ReadsInPacket /\ [Next]_vars
    => ReadBehind' /\ ReadsInPacket'
<1> SUFFICES ASSUME TypeOK, WithinPacket, Walking, CursorOnFrame,
                    ReadBehind, ReadsInPacket, [Next]_vars
             PROVE  ReadBehind' /\ ReadsInPacket'
  BY DEF IInv
<1>1. CASE UNCHANGED <<options, walkVars>>
  BY <1>1 DEF ReadBehind, ReadsInPacket, Size, options, walkVars
<1>2. CASE DecodeFrame
  <2> DEFINE p == file.at[cursor].packet
  <2>1. p \in RawPacket /\ Call(p)
    BY <1>2, FramePacket DEF DecodeFrame
  <2> HIDE DEF p
  <2>2. /\ packet' = p /\ offset' = HeaderLength /\ read' = HeaderLength
        /\ HeaderLength \in Nat /\ Len(p.body) \in Nat
    BY <2>1 DEF Call, RawPacket, HeaderLength
  <2>3. read' <= Size' /\ read' <= offset'
    BY <2>2 DEF Size
  <2> QED
    BY <2>3 DEF ReadBehind, ReadsInPacket
<1>3. ASSUME WalkFrame
      PROVE  /\ pc = "decode" /\ walking /\ UNCHANGED packet
             /\ packet \in RawPacket /\ packet # NoPacket
             /\ HeaderLength \in Nat /\ HeaderLength <= offset
             /\ Size \in Nat /\ Size' = Size /\ offset <= Size
  <2>1. pc = "decode" /\ walking /\ UNCHANGED packet
    BY <1>3 DEF WalkFrame, Walk, WalkMessage, WalkEnds
  <2>2. packet \in RawPacket /\ packet # NoPacket
    BY <2>1 DEF TypeOK, Walking
  <2> QED
    BY <2>1, <2>2 DEF WithinPacket, Walking, Size, HeaderLength, RawPacket
<1>4. CASE UNCHANGED options /\ WalkFrame /\ WalkMessage
  <2> DEFINE length == read_u16_big_endian(offset)
  <2>1. length \in Nat /\ offset \in Nat /\ processed \in Nat
    BY <1>3, <1>4, LengthType DEF TypeOK, WalkMessage, MessageFollows
  <2>2. /\ offset + 2 + length <= Size
        /\ offset' = offset + 2 + length
        /\ processed' = processed + 1
        /\ read' = IF type_allowed # {} \/ length > 0
                   THEN (offset + 2) + 1 ELSE offset + 2
        /\ type_allowed' = type_allowed
    BY <1>4 DEF WalkMessage, MessageFollows, PassMessage, options
  <2> HIDE DEF length
  <2>3. \/ read' <= offset'
        \/ type_allowed' # {} /\ processed' > 0 /\ read' = offset' + 1
    <3>1. CASE length > 0
      BY <2>1, <2>2, <3>1
    <3>2. CASE length = 0 /\ type_allowed # {}
      BY <2>1, <2>2, <3>2
    <3>3. CASE length = 0 /\ type_allowed = {}
      BY <2>1, <2>2, <3>3
    <3> QED
      BY <2>1, <3>1, <3>2, <3>3
  <2>4. Size \in Nat /\ offset' <= Size /\ offset' \in Nat /\ read' \in Nat
    BY <1>3, <1>4, <2>1, <2>2
  <2>5. ReadBehind'
    BY <2>3 DEF ReadBehind
  <2>6. \/ read' <= Size
        \/ type_allowed' # {} /\ processed' > 0 /\ offset' = Size /\ read' = Size + 1
    <3>1. CASE read' <= offset'
      BY <2>4, <3>1
    <3>2. CASE type_allowed' # {} /\ processed' > 0 /\ read' = offset' + 1
      <4>1. offset' = Size \/ offset' + 1 <= Size
        BY <2>4, NextPlace
      <4> QED
        BY <3>2, <4>1
    <3> QED
      BY <2>3, <3>1, <3>2
  <2>7. ReadsInPacket'
    BY <1>3, <1>4, <2>6 DEF ReadsInPacket
  <2> QED
    BY <2>5, <2>7
<1>5. CASE UNCHANGED options /\ WalkFrame /\ WalkEnds
  <2>1. /\ walking' = FALSE
        /\ UNCHANGED <<offset, processed>>
        /\ read' = IF remaining # 0 /\ offset + 2 <= Size THEN offset + 2 ELSE read
        /\ type_allowed' = type_allowed
    BY <1>5 DEF WalkEnds, options
  <2>2. CASE remaining # 0 /\ offset + 2 <= Size
    BY <1>3, <1>5, <2>1, <2>2 DEF ReadBehind, ReadsInPacket
  <2>3. CASE ~(remaining # 0 /\ offset + 2 <= Size)
    BY <1>3, <1>5, <2>1, <2>3 DEF ReadBehind, ReadsInPacket
  <2> QED
    BY <2>2, <2>3
<1>6. \/ UNCHANGED <<options, walkVars>>
      \/ DecodeFrame
      \/ UNCHANGED options /\ WalkFrame /\ WalkMessage
      \/ UNCHANGED options /\ WalkFrame /\ WalkEnds
  BY DEF Next, Decode, Terminated, OpenFails, OpenFile, FileEnds, SkipFrame,
         WalkFrame, Walk, FrameDecoded, vars
<1> QED
  BY <1>1, <1>2, <1>4, <1>5, <1>6

\* Whatever lengths the blocks of a file announce, its packets are read inside
\* their bounds, except that --type is compared with the byte behind an empty
\* message, even one that ends the packet.
THEOREM ReadsStayInPacket == Spec => []ReadsInPacket
<1>1. Init => ReadBehind /\ ReadsInPacket
  BY DEF Init, WalkInit, ReadBehind, ReadsInPacket
<1> QED
  BY <1>1, Invariance, ReadsStep, PTL DEF Spec

\* Whatever lengths a file announces, the cursor moves from frame to frame.
THEOREM StaysOnFrames == Spec => []CursorOnFrame
BY Invariance, PTL DEF IInv

\* No file makes decode_file decode more than -n messages, and reaching that
\* number ends it.
THEOREM LimitKept == Spec => []LimitEnds
<1>1. IInv => LimitEnds
  <2> SUFFICES ASSUME TypeOK, Walking PROVE LimitEnds
    BY DEF IInv
  <2>1. max_messages \in Nat /\ decoded_count \in Nat
    BY WalkAssumption DEF TypeOK
  <2> QED
    BY <2>1 DEF LimitEnds, Walking
<1> QED
  BY <1>1, Invariance, PTL
-----------------------------------------------------------------------------
(***************************************************************************)
(* The blocks of a packet.                                                 *)
(***************************************************************************)

\* Starts is what its recursive definition says.
LEMMA StartsFacts ==
  ASSUME NEW s \in Seq(Nat)
  PROVE  /\ BlockStart(s, 1) = 1
         /\ \A i \in 1..Len(s) : BlockStart(s, i + 1) = BlockStart(s, i) + 2 + s[i]
         /\ \A i \in 1..(Len(s) + 1) : BlockStart(s, i) \in Nat /\ 1 <= BlockStart(s, i)
<1> DEFINE n == Len(s)
           step == [e \in (1..n) \X Nat |-> e[2] + 2 + s[e[1]]]
           Is(f) == f = [i \in 1..(n + 1) |->
                           IF i = 1 THEN 1 ELSE f[i - 1] + 2 + s[i - 1]]
<1>1. n \in Nat /\ \A i \in 1..n : s[i] \in Nat
  OBVIOUS
<1>2. step \in [(1..n) \X Nat -> Nat]
  BY <1>1
<1>3. \A i \in 1..n : \A e \in Nat : step[<<i, e>>] = e + 2 + s[i]
  OBVIOUS
<1>4. Starts(s) = CHOOSE f : Is(f)
  BY DEF Starts
<1> HIDE DEF step, n
<1>5. PICK g : IsRun(g, n, Nat, 1, step)
  <2>1. n \in Nat /\ 1 \in Nat
    BY <1>1
  <2> QED  BY <1>2, <2>1, Iteration, Zenon
<1> DEFINE f == [i \in 1..(n + 1) |-> g[i - 1]]
<1>6. Is(f)
  <2>1. ASSUME NEW i \in 1..(n + 1)
        PROVE  f[i] = IF i = 1 THEN 1 ELSE f[i - 1] + 2 + s[i - 1]
    <3>1. CASE i = 1
      <4>1. f[i] = g[0]
        BY <3>1
      <4> QED  BY <1>5, <3>1, <4>1 DEF IsRun
    <3>2. CASE i # 1
      <4>1. /\ i - 1 \in 1..n /\ i - 1 \in 1..(n + 1) /\ (i - 1) - 1 \in 0..n
        BY <1>1, <3>2
      <4>2. f[i - 1] = g[(i - 1) - 1] /\ g[(i - 1) - 1] \in Nat
        BY <1>5, <4>1 DEF IsRun
      <4>3. g[i - 1] = step[<<i - 1, g[(i - 1) - 1]>>]
        BY <1>5, <4>1 DEF IsRun
      <4>4. g[i - 1] = g[(i - 1) - 1] + 2 + s[i - 1]
        BY <1>3, <4>1, <4>2, <4>3
      <4>5. f[i] = g[i - 1]
        OBVIOUS
      <4> HIDE DEF f
      <4> QED  BY <3>2, <4>2, <4>4, <4>5
    <3> QED  BY <3>1, <3>2
  <2> HIDE DEF f
  <2>2. f = [i \in 1..(n + 1) |-> f[i]]
    BY DEF f
  <2> QED  BY <2>1, <2>2
<1> HIDE DEF f
<1>7. Is(Starts(s))
  BY <1>4, <1>6
<1> DEFINE start == Starts(s)
<1>8. start[1] = 1 /\ \A i \in 1..n : start[i + 1] = start[i] + 2 + s[i]
  <2>1. start = [i \in 1..(n + 1) |-> IF i = 1 THEN 1 ELSE start[i - 1] + 2 + s[i - 1]]
    BY <1>7
  <2> HIDE DEF start
  <2>2. 1 \in 1..(n + 1)
    BY <1>1
  <2>3. \A i \in 1..n : i + 1 \in 1..(n + 1) /\ i + 1 # 1 /\ (i + 1) - 1 = i
    BY <1>1
  <2>4. start[1] = 1
    BY <2>1, <2>2
  <2>5. ASSUME NEW i \in 1..n
        PROVE  start[i + 1] = start[i] + 2 + s[i]
    <3>1. start[i + 1] = start[(i + 1) - 1] + 2 + s[(i + 1) - 1]
      BY <2>1, <2>3
    <3> QED  BY <2>3, <3>1
  <2> QED  BY <2>4, <2>5
<1> HIDE DEF start
<1> DEFINE P == {i \in 0..n : start[i + 1] \in Nat /\ 1 <= start[i + 1]}
<1>9. 0..n \subseteq P
  <2>1. 0 \in P
    BY <1>1, <1>8
  <2>2. ASSUME NEW i \in 0..(n - 1), i \in P
        PROVE  i + 1 \in P
    <3>1. i + 1 \in 1..n /\ i + 1 \in 0..n
      BY <1>1
    <3>2. start[(i + 1) + 1] = start[i + 1] + 2 + s[i + 1]
      BY <1>8, <3>1
    <3>3. start[i + 1] \in Nat /\ 1 <= start[i + 1] /\ s[i + 1] \in Nat
      BY <1>1, <2>2, <3>1
    <3> QED  BY <3>1, <3>2, <3>3, SMTT(20)
  <2> HIDE DEF P
  <2> QED  BY <1>1, <2>1, <2>2, BoundedInduction
<1>10. ASSUME NEW i \in 1..(n + 1)
       PROVE  start[i] \in Nat /\ 1 <= start[i]
  <2>1. i - 1 \in 0..n /\ (i - 1) + 1 = i
    BY <1>1
  <2>2. i - 1 \in P
    BY <1>9, <2>1
  <2> QED  BY <2>1, <2>2
<1> QED  BY <1>8, <1>10 DEF start, n, BlockStart

\* Where a block begins depends on the blocks in front of it only.
LEMMA SameStarts ==
  ASSUME NEW s \in Seq(Nat), NEW t \in Seq(Nat), NEW k \in Nat,
         k <= Len(s), k <= Len(t), \A i \in 1..k : s[i] = t[i]
  PROVE  \A i \in 1..(k + 1) : BlockStart(s, i) = BlockStart(t, i)
<1> DEFINE P == {i \in 0..k : BlockStart(s, i + 1) = BlockStart(t, i + 1)}
<1>1. BlockStart(s, 1) = BlockStart(t, 1)
  BY StartsFacts
<1>2. 0 \in P
  BY <1>1
<1>3. ASSUME NEW i \in 0..(k - 1), i \in P
      PROVE  i + 1 \in P
  <2>1. i + 1 \in 1..Len(s) /\ i + 1 \in 1..Len(t) /\ i + 1 \in 1..k /\ i + 1 \in 0..k
    OBVIOUS
  <2>2. /\ BlockStart(s, (i + 1) + 1) = BlockStart(s, i + 1) + 2 + s[i + 1]
        /\ BlockStart(t, (i + 1) + 1) = BlockStart(t, i + 1) + 2 + t[i + 1]
    BY <2>1, StartsFacts
  <2> QED  BY <1>3, <2>1, <2>2
<1>4. 0..k \subseteq P
  <2> HIDE DEF P
  <2> QED  BY <1>2, <1>3, BoundedInduction
<1> SUFFICES ASSUME NEW i \in 1..(k + 1)
             PROVE  BlockStart(s, i) = BlockStart(t, i)
  OBVIOUS
<1>5. i - 1 \in 0..k /\ (i - 1) + 1 = i
  OBVIOUS
<1>6. i - 1 \in P
  BY <1>4, <1>5
<1> QED  BY <1>5, <1>6

\* A block begins behind those in front of it.
LEMMA StartsIncrease ==
  ASSUME NEW s \in Seq(Nat), NEW i \in 1..Len(s), NEW j \in (i + 1)..(Len(s) + 1)
  PROVE  BlockStart(s, i) + 2 + s[i] <= BlockStart(s, j)
<1> DEFINE n == Len(s) - i
           P == {k \in 0..n : BlockStart(s, i) + 2 + s[i] <= BlockStart(s, i + 1 + k)}
<1>1. Len(s) \in Nat /\ n \in Nat /\ \A k \in 1..Len(s) : s[k] \in Nat
  OBVIOUS
<1>2. \A k \in 1..(Len(s) + 1) : BlockStart(s, k) \in Nat
  BY StartsFacts
<1>3. BlockStart(s, i + 1) = BlockStart(s, i) + 2 + s[i]
  BY StartsFacts
<1>4. i \in 1..(Len(s) + 1) /\ i + 1 + 0 = i + 1
  OBVIOUS
<1>5. 0 \in P
  <2>1. BlockStart(s, i + 1) <= BlockStart(s, i + 1)
    <3>1. i + 1 \in 1..(Len(s) + 1)
      BY <1>1
    <3> QED  BY <1>2, <3>1
  <2> QED  BY <1>1, <1>3, <1>4, <2>1
<1>6. ASSUME NEW k \in 0..(n - 1), k \in P
      PROVE  k + 1 \in P
  <2> DEFINE m == i + 1 + k
  <2>1. m \in 1..Len(s) /\ i + 1 + (k + 1) = m + 1 /\ k + 1 \in 0..n
        /\ m \in 1..(Len(s) + 1)
    BY <1>1
  <2>2. BlockStart(s, m + 1) = BlockStart(s, m) + 2 + s[m]
    BY <2>1, StartsFacts
  <2>3. s[m] \in Nat /\ BlockStart(s, m) \in Nat /\ BlockStart(s, i) \in Nat /\ s[i] \in Nat
    BY <1>1, <1>2, <1>4, <2>1
  <2>4. BlockStart(s, i) + 2 + s[i] <= BlockStart(s, m)
    BY <1>6
  <2>5. BlockStart(s, i) + 2 + s[i] <= BlockStart(s, m + 1)
    <3> DEFINE x == BlockStart(s, i) + 2 + s[i]
               y == BlockStart(s, m)
               z == s[m]
    <3> HIDE DEF m
    <3>0. x \in Nat
      <4>1. BlockStart(s, i) \in Nat /\ s[i] \in Nat
        BY <2>3
      <4> QED  BY <4>1
    <3>a. y \in Nat /\ z \in Nat
      BY <2>3
    <3>b. x <= y
      BY <2>4
    <3>1. x \in Nat /\ y \in Nat /\ z \in Nat /\ x <= y
      BY <3>0, <3>a, <3>b
    <3>2. BlockStart(s, m + 1) = y + 2 + z
      BY <2>2
    <3> HIDE DEF x, y, z
    <3>3. x <= y + 2 + z
      BY <3>1
    <3>4. x <= BlockStart(s, m + 1)
      BY <3>2, <3>3
    <3> QED  BY <3>4 DEF x
  <2> QED  BY <2>1, <2>5
<1>7. 0..n \subseteq P
  <2> HIDE DEF P, n
  <2> QED  BY <1>1, <1>5, <1>6, BoundedInduction
<1>8. j - (i + 1) \in 0..n /\ i + 1 + (j - (i + 1)) = j
  BY <1>1
<1>9. j - (i + 1) \in P
  BY <1>7, <1>8
<1> QED  BY <1>8, <1>9

\* A sequence over a set is one over every larger set.
LEMMA SeqOfMore ==
  ASSUME NEW S, NEW T, S \subseteq T, NEW s \in Seq(S)
  PROVE  s \in Seq(T)
<1>1. /\ Len(s) \in Nat /\ s = [i \in 1..Len(s) |-> s[i]]
      /\ \A i \in 1..Len(s) : s[i] \in S
  OBVIOUS
<1>2. \A i \in 1..Len(s) : s[i] \in T
  BY <1>1
<1>3. s \in [1..Len(s) -> T]
  BY <1>1, <1>2
<1> QED  BY <1>1, <1>3

\* What a packet is made of.
LEMMA PacketType ==
  ASSUME NEW p \in RawPacket
  PROVE  /\ p.body \in Seq(0..255) /\ Len(p.body) \in Nat
         /\ p.count \in Nat /\ p.seq \in Nat
  BY EndCountAssumption DEF RawPacket

\* The members of Some are sequences of lengths, no longer than announced.
LEMMA SomeFacts ==
  ASSUME NEW p \in RawPacket, NEW s
  PROVE  s \in Some(p) <=>
           /\ s \in Seq(0..Len(p.body)) /\ Len(s) <= p.count
           /\ Carries(p.body, s)
<1>1. p.count \in Nat
  BY PacketType
<1> DEFINE X == 0..Len(p.body)
           c == p.count
<1> HIDE DEF X, c
<1>2. s \in SeqOf(X, c) <=> \E m \in 0..c : s \in [1..m -> X]
  BY DEF SeqOf
<1>3. ASSUME NEW m \in 0..c, s \in [1..m -> X]
      PROVE  s \in Seq(X) /\ Len(s) = m /\ m <= c
  BY <1>1, <1>3 DEF c
<1>4. ASSUME s \in Seq(X), Len(s) <= c
      PROVE  Len(s) \in 0..c /\ s \in [1..Len(s) -> X]
  BY <1>1, <1>4 DEF c
<1>5. s \in SeqOf(X, c) <=> s \in Seq(X) /\ Len(s) <= c
  BY <1>2, <1>3, <1>4
<1> QED  BY <1>5 DEF Some, X, c

\* There is a longest of them, and Blocks is one.
LEMMA BlocksFacts ==
  ASSUME NEW p \in RawPacket
  PROVE  /\ Blocks(p) \in Some(p)
         /\ \A t \in Some(p) : Len(t) <= Len(Blocks(p))
         /\ Blocks(p) \in Seq(0..Len(p.body)) /\ Blocks(p) \in Seq(Nat)
         /\ Len(Blocks(p)) \in Nat /\ Len(Blocks(p)) <= p.count
         /\ \A i \in 1..Len(Blocks(p)) :
              Blocks(p)[i] \in 0..Len(p.body) /\ Blocks(p)[i] \in Nat
<1> DEFINE T == {Len(s) : s \in Some(p)}
<1>1. p.count \in Nat /\ Len(p.body) \in Nat
  BY PacketType
<1>2. \A s \in Some(p) : Len(s) \in Nat /\ Len(s) <= p.count
  BY SomeFacts
<1>3. <<>> \in Some(p)
  <2>1. <<>> \in Seq(0..Len(p.body)) /\ Len(<<>>) <= p.count
    BY <1>1
  <2>2. Carries(p.body, <<>>)
    BY DEF Carries
  <2> QED  BY <2>1, <2>2, SomeFacts
<1>4. \E m \in T : \A t \in T : t <= m
  <2>1. T \in SUBSET Nat /\ (\A t \in T : t <= p.count) /\ T # {}
    BY <1>2, <1>3
  <2> HIDE DEF T
  <2> QED  BY <1>1, <2>1, Greatest
<1>5. \E s \in Some(p) : \A t \in Some(p) : Len(t) <= Len(s)
  BY <1>4
<1>6. Blocks(p) \in Some(p) /\ \A t \in Some(p) : Len(t) <= Len(Blocks(p))
  BY <1>5 DEF Blocks
<1> DEFINE s == Blocks(p)
<1>7. s \in Seq(0..Len(p.body)) /\ Len(s) <= p.count
  BY <1>6, SomeFacts
<1> HIDE DEF s
<1>8. /\ s \in Seq(Nat) /\ Len(s) \in Nat
      /\ \A i \in 1..Len(s) : s[i] \in 0..Len(p.body) /\ s[i] \in Nat
  <2>1. 0..Len(p.body) \subseteq Nat
    BY <1>1
  <2> DEFINE X == 0..Len(p.body)
  <2> HIDE DEF X
  <2>2. s \in Seq(X) /\ X \subseteq Nat
    BY <1>7, <2>1 DEF X
  <2>a. s \in Seq(Nat)
    BY <2>2, SeqOfMore
  <2>b. Len(s) \in Nat
    BY <2>2
  <2>c. \A i \in 1..Len(s) : s[i] \in X
    BY <2>2, ElementType
  <2>3. s \in Seq(Nat) /\ Len(s) \in Nat /\ \A i \in 1..Len(s) : s[i] \in X
    BY <2>a, <2>b, <2>c
  <2> QED  BY <2>2, <2>3 DEF X
<1> QED  BY <1>6, <1>7, <1>8 DEF s

\* Two bytes, the high one first, and the number they stand for.
Word(h, l) == 256 * h + l

HighByte(n) == n \div 256
LowByte(n) == n % 256

LEMMA TwoBytes ==
  ASSUME NEW h \in 0..255, NEW l \in 0..255
  PROVE  /\ Word(h, l) \in Nat
         /\ HighByte(Word(h, l)) = h
         /\ LowByte(Word(h, l)) = l
<1>1. Word(h, l) \in Nat
  BY DEF Word
<1>2. (256 * h + l) \div 256 = h /\ (256 * h + l) % 256 = l
  BY SMTT(20)
<1> QED  BY <1>1, <1>2, Zenon DEF Word, HighByte, LowByte

LEMMA BytesOf ==
  ASSUME NEW n \in Nat
  PROVE  n = Word(n \div 256, n % 256)
  BY DEF Word

\* The length a block at b of the packet has.
LengthAt(p, b) == Word(p.body[b], p.body[b + 1])

\* After k blocks of a packet there is another one if it is announced and its
\* length and content are there; and that is its length.
LEMMA NextBlock ==
  ASSUME NEW p \in RawPacket, NEW k \in 0..Len(Blocks(p))
  PROVE  LET b == BlockStart(Blocks(p), k + 1) IN
         /\ b \in Nat /\ 1 <= b
         /\ k < Len(Blocks(p)) <=>
              /\ k < p.count
              /\ b + 1 <= Len(p.body)
              /\ b + 1 + LengthAt(p, b) <= Len(p.body)
         /\ k < Len(Blocks(p)) => Blocks(p)[k + 1] = LengthAt(p, b)
<1> DEFINE s == Blocks(p)
           b == BlockStart(s, k + 1)
           L == LengthAt(p, b)
           size == Len(p.body)
<1>1. /\ p.body \in Seq(0..255) /\ size \in Nat /\ p.count \in Nat
  BY PacketType
<1>2. /\ s \in Seq(0..size) /\ s \in Seq(Nat) /\ Len(s) \in Nat /\ Len(s) <= p.count
      /\ \A i \in 1..Len(s) : s[i] \in Nat
      /\ \A t \in Some(p) : Len(t) <= Len(s)
      /\ Carries(p.body, s)
  BY BlocksFacts, SomeFacts
<1> HIDE DEF s, size
<1>3. k \in Nat /\ k <= Len(s) /\ k + 1 \in 1..(Len(s) + 1)
  BY <1>2 DEF s
<1>4. b \in Nat /\ 1 <= b
  BY <1>2, <1>3, StartsFacts
<1> HIDE DEF b
<1>5. ASSUME b + 1 <= size
      PROVE  p.body[b] \in 0..255 /\ p.body[b + 1] \in 0..255
  <2>1. b \in 1..Len(p.body) /\ b + 1 \in 1..Len(p.body)
    BY <1>1, <1>4, <1>5 DEF size
  <2> QED  BY <1>1, <2>1, ElementType
<1>6. ASSUME k < Len(s)
      PROVE  k < p.count /\ b + 1 <= size /\ b + 1 + L <= size /\ s[k + 1] = L
  <2>1. k + 1 \in 1..Len(s) /\ DOMAIN s = 1..Len(s)
    BY <1>2, <1>3, <1>6
  <2>2. /\ b + 1 + s[k + 1] <= size
        /\ p.body[b] = s[k + 1] \div 256
        /\ p.body[b + 1] = s[k + 1] % 256
    BY <1>2, <2>1 DEF Carries, b, size
  <2>3. s[k + 1] \in Nat
    BY <1>2, <2>1
  <2>4. b + 1 <= size
    BY <1>1, <1>4, <2>2, <2>3
  <2>5. s[k + 1] = L
    <3>1. s[k + 1] = Word(s[k + 1] \div 256, s[k + 1] % 256)
      BY <2>3, BytesOf
    <3>2. Word(s[k + 1] \div 256, s[k + 1] % 256) = Word(p.body[b], p.body[b + 1])
      BY <2>2, Zenon
    <3> QED  BY <3>1, <3>2, Zenon DEF LengthAt
  <2> QED  BY <1>2, <1>3, <1>6, <2>2, <2>4, <2>5, <1>1
<1>7. ASSUME k < p.count, b + 1 <= size, b + 1 + L <= size
      PROVE  k < Len(s)
  <2> DEFINE t == Append(SubSeq(s, 1, k), L)
  <2>1. /\ L \in Nat /\ p.body[b] = L \div 256 /\ p.body[b + 1] = L % 256
    <3> DEFINE h == p.body[b]
               l == p.body[b + 1]
    <3>1. h \in 0..255 /\ l \in 0..255
      BY <1>5, <1>7
    <3> HIDE DEF h, l
    <3>2. /\ Word(h, l) \in Nat
          /\ HighByte(Word(h, l)) = h
          /\ LowByte(Word(h, l)) = l
      BY <3>1, TwoBytes, Zenon
    <3> QED  BY <3>2, Zenon DEF LengthAt, HighByte, LowByte, h, l
  <2> HIDE DEF L
  <2>2. L \in 0..size
    BY <1>1, <1>4, <1>7, <2>1
  <2>3. /\ t \in Seq(0..size) /\ t \in Seq(Nat) /\ Len(t) = k + 1
        /\ \A i \in 1..k : t[i] = s[i]
        /\ t[k + 1] = L
    <3> DEFINE X == 0..size
    <3>1. X \subseteq Nat /\ s \in Seq(X) /\ L \in X
      BY <1>1, <1>2, <2>2
    <3> HIDE DEF X
    <3>2. /\ t \in Seq(X) /\ Len(t) = k + 1
          /\ \A i \in 1..k : t[i] = s[i]
          /\ t[k + 1] = L
      BY <1>2, <1>3, <3>1
    <3>3. t \in Seq(Nat)
      BY <3>1, <3>2, SeqOfMore
    <3> QED  BY <3>2, <3>3 DEF X
  <2> HIDE DEF t
  <2>4. k <= Len(t)
    BY <1>3, <2>3
  <2>5. \A i \in 1..(k + 1) : BlockStart(t, i) = BlockStart(s, i)
    BY <1>2, <1>3, <2>3, <2>4, SameStarts
  <2>6. Carries(p.body, t)
    <3> SUFFICES ASSUME NEW i \in DOMAIN t
                 PROVE  /\ BlockStart(t, i) + 1 + t[i] <= size
                        /\ p.body[BlockStart(t, i)] = t[i] \div 256
                        /\ p.body[BlockStart(t, i) + 1] = t[i] % 256
      BY DEF Carries, size
    <3>1. i \in 1..(k + 1) /\ (i \in 1..k \/ i = k + 1) /\ k + 1 \in 1..(k + 1)
      BY <1>3, <2>3
    <3>2. CASE i \in 1..k
      <4>1. i \in DOMAIN s
        BY <1>2, <1>3, <3>2
      <4>2. /\ BlockStart(s, i) + 1 + s[i] <= size
            /\ p.body[BlockStart(s, i)] = s[i] \div 256
            /\ p.body[BlockStart(s, i) + 1] = s[i] % 256
        BY <1>2, <4>1 DEF Carries, size
      <4>3. BlockStart(t, i) = BlockStart(s, i) /\ t[i] = s[i]
        BY <2>3, <2>5, <3>1, <3>2
      <4> QED  BY <4>2, <4>3
    <3>3. CASE i = k + 1
      <4>1. BlockStart(t, i) = b /\ t[i] = L
        BY <2>3, <2>5, <3>1, <3>3 DEF b
      <4> QED  BY <1>7, <2>1, <4>1
    <3> QED  BY <3>1, <3>2, <3>3
  <2>7. t \in Some(p)
    <3>1. Len(t) <= p.count
      BY <1>1, <1>3, <1>7, <2>3
    <3> QED  BY <2>3, <2>6, <3>1, SomeFacts DEF size
  <2>8. k + 1 <= Len(s)
    BY <1>2, <2>3, <2>7
  <2> QED  BY <1>2, <1>3, <2>8
<1> QED  BY <1>4, <1>6, <1>7 DEF s, b, size

\* next_mold_message returns true as long as the packet has another block, and
\* reads the length of it (PacketWalk against RawFormat).
LEMMA FollowsIfMore ==
  ASSUME TypeOK, Walking, AtBlock, walking
  PROVE  /\ MessageFollows <=> processed < Len(Blocks(packet))
         /\ MessageFollows =>
              read_u16_big_endian(offset) = Blocks(packet)[processed + 1]
<1> DEFINE s == Blocks(packet)
           b == BlockStart(s, processed + 1)
           size == Len(packet.body)
<1>1. /\ packet \in RawPacket /\ processed \in Nat /\ remaining \in Nat /\ offset \in Nat
      /\ processed + remaining = packet.count
      /\ processed <= Len(s) /\ offset = HeaderLength + b - 1
  BY NoPacketAssumption DEF TypeOK, Walking, AtBlock
<1>2. size \in Nat /\ packet.count \in Nat /\ Len(s) \in Nat /\ HeaderLength \in Nat
  BY <1>1, PacketType, BlocksFacts DEF HeaderLength
<1>3. processed \in 0..Len(s)
  BY <1>1, <1>2
<1>4. /\ b \in Nat /\ 1 <= b
      /\ processed < Len(s) <=>
              /\ processed < packet.count
              /\ b + 1 <= size
              /\ b + 1 + LengthAt(packet, b) <= size
      /\ processed < Len(s) => s[processed + 1] = LengthAt(packet, b)
  BY <1>1, <1>3, NextBlock
<1> HIDE DEF s, b, size
<1>5. offset - HeaderLength + 1 = b /\ (offset + 1) - HeaderLength + 1 = b + 1
  BY <1>1, <1>2, <1>4
<1>6. read_u16_big_endian(offset) = LengthAt(packet, b)
  BY <1>5 DEF read_u16_big_endian, ByteAt, LengthAt, Word
<1>7. remaining # 0 <=> processed < packet.count
  BY <1>1, <1>2
<1>8. Size = HeaderLength + size
  BY DEF Size, size
<1>9. offset + 2 <= Size <=> b + 1 <= size
  BY <1>1, <1>2, <1>4, <1>8
<1>10. ASSUME b + 1 <= size
       PROVE  offset + 2 + LengthAt(packet, b) <= Size <=>
                b + 1 + LengthAt(packet, b) <= size
  <2>1. b \in 1..Len(packet.body) /\ b + 1 \in 1..Len(packet.body)
    BY <1>2, <1>4, <1>10 DEF size
  <2>2. packet.body[b] \in 0..255 /\ packet.body[b + 1] \in 0..255
    BY <1>1, <2>1, PacketType, ElementType
  <2>3. LengthAt(packet, b) \in Nat
    BY <2>2, TwoBytes, Zenon DEF LengthAt
  <2> QED  BY <1>1, <1>2, <1>4, <1>8, <2>3
<1>11. MessageFollows <=> processed < Len(s)
  BY <1>4, <1>6, <1>7, <1>9, <1>10 DEF MessageFollows
<1> QED  BY <1>4, <1>6, <1>11 DEF s

\* Every step keeps the walk at a block.
LEMMA StepAtBlock == IInv /\ AtBlock /\ [Next]_vars => AtBlock'
<1> SUFFICES ASSUME TypeOK, Walking, CursorOnFrame, AtBlock, [Next]_vars
             PROVE  AtBlock'
  BY DEF IInv
<1>1. CASE UNCHANGED <<options, walkVars>>
  BY <1>1 DEF AtBlock, options, walkVars
<1>2. CASE UNCHANGED options /\ DecodeFrame
  <2> DEFINE p == file.at[cursor].packet
  <2>1. p \in RawPacket
    BY <1>2, FramePacket DEF DecodeFrame
  <2>2. /\ pc = "frame" /\ Call(p) /\ max_messages' = max_messages
    BY <1>2 DEF DecodeFrame, options
  <2> HIDE DEF p
  <2>3. /\ packet' = p /\ offset' = HeaderLength /\ processed' = 0 /\ walking' = TRUE
        /\ before' = decoded_count
    BY <2>2 DEF Call
  <2>4. Len(Blocks(p)) \in Nat /\ BlockStart(Blocks(p), 0 + 1) = 1
    BY <2>1, BlocksFacts, StartsFacts
  <2>5. max_messages # 0 => decoded_count < max_messages
    BY <2>2 DEF Walking
  <2>6. HeaderLength = HeaderLength + 1 - 1 /\ 0 <= Len(Blocks(p))
    BY <2>4 DEF HeaderLength
  <2> QED  BY <2>2, <2>3, <2>4, <2>5, <2>6 DEF AtBlock
<1>3. CASE UNCHANGED options /\ WalkFrame /\ WalkMessage
  <2> DEFINE s == Blocks(packet)
             length == read_u16_big_endian(offset)
  <2>1. /\ walking /\ MessageFollows
        /\ offset' = offset + 2 + length
        /\ processed' = processed + 1
        /\ walking' = ~stop_now' /\ packet' = packet /\ before' = before
        /\ max_messages' = max_messages
    BY <1>3 DEF WalkMessage, PassMessage, options
  <2>2. /\ packet \in RawPacket /\ processed \in Nat /\ offset \in Nat
        /\ packet # NoPacket
    BY <2>1, NoPacketAssumption DEF TypeOK, Walking
  <2>3. /\ processed <= Len(s) /\ offset = HeaderLength + BlockStart(s, processed + 1) - 1
        /\ max_messages # 0 => before < max_messages
    BY <2>2 DEF AtBlock
  <2>4. processed < Len(s) /\ length = s[processed + 1]
    BY <2>1, FollowsIfMore
  <2>5. s \in Seq(Nat) /\ Len(s) \in Nat /\ HeaderLength \in Nat
    BY <2>2, BlocksFacts DEF HeaderLength
  <2> HIDE DEF s, length
  <2>6. processed + 1 \in 1..Len(s) /\ processed + 1 \in 1..(Len(s) + 1)
    BY <2>2, <2>4, <2>5
  <2>7. /\ BlockStart(s, (processed + 1) + 1) = BlockStart(s, processed + 1) + 2 + s[processed + 1]
        /\ BlockStart(s, processed + 1) \in Nat /\ s[processed + 1] \in Nat
    BY <2>5, <2>6, StartsFacts, ElementType
  <2>8. offset' = HeaderLength + BlockStart(s, processed' + 1) - 1
    <3> DEFINE x == BlockStart(s, processed + 1)
               z == s[processed + 1]
    <3>1. x \in Nat /\ z \in Nat
      BY <2>7
    <3>2. BlockStart(s, processed' + 1) = x + 2 + z
      <4>1. BlockStart(s, processed' + 1) = BlockStart(s, (processed + 1) + 1)
        BY <2>1, Zenon
      <4> QED  BY <2>7, <4>1, Zenon
    <3>3. offset = HeaderLength + x - 1 /\ offset' = offset + 2 + z
      BY <2>1, <2>3, <2>4, Zenon
    <3> HIDE DEF x, z
    <3> QED  BY <2>5, <3>1, <3>2, <3>3
  <2>9. processed' <= Len(s)
    BY <2>1, <2>2, <2>4, <2>5
  <2> QED  BY <2>1, <2>3, <2>8, <2>9 DEF AtBlock, s
<1>4. CASE UNCHANGED options /\ WalkFrame /\ WalkEnds
  <2>1. /\ walking /\ ~MessageFollows /\ walking' = FALSE
        /\ UNCHANGED <<packet, offset, processed, stop_now, before, max_messages>>
    BY <1>4 DEF WalkEnds, options
  <2>2. /\ packet \in RawPacket /\ processed \in Nat /\ packet # NoPacket
    BY <2>1, NoPacketAssumption DEF TypeOK, Walking
  <2>3. processed <= Len(Blocks(packet)) /\ Len(Blocks(packet)) \in Nat
    BY <2>2, BlocksFacts DEF AtBlock
  <2>4. ~(processed < Len(Blocks(packet)))
    BY <2>1, FollowsIfMore
  <2>5. processed = Len(Blocks(packet))
    BY <2>2, <2>3, <2>4
  <2> QED  BY <2>1, <2>2, <2>5 DEF AtBlock
<1>5. \/ UNCHANGED <<options, walkVars>>
      \/ UNCHANGED options /\ DecodeFrame
      \/ UNCHANGED options /\ WalkFrame /\ WalkMessage
      \/ UNCHANGED options /\ WalkFrame /\ WalkEnds
  BY DEF Next, Decode, Terminated, vars, OpenFails, OpenFile, FileEnds, SkipFrame,
         FrameDecoded, WalkFrame, Walk
<1> QED  BY <1>1, <1>2, <1>3, <1>4, <1>5

\* The walk begins with no packet.
LEMMA InitAtBlock == Init => AtBlock
BY DEF Init, WalkInit, AtBlock

\* The walk is always at a block of its packet.
THEOREM WalkOnBlocks == Spec => []AtBlock
BY InitAtBlock, StepAtBlock, Invariance, PTL DEF Spec

\* Whatever bytes a packet has, decode_packet_messages comes to what MoldPacket
\* says of it, which is all that the models of the receive loops know of it.
THEOREM WalkIsMoldPacket == Spec => []WalkMatches
<1>1. ASSUME TypeOK, Walking, AtBlock, packet # NoPacket, ~walking
      PROVE  /\ processed = Processed(Seen(packet), before, max_messages)
             /\ stop_now = StopsAt(Seen(packet), before, max_messages)
  <2> DEFINE fit == Len(Blocks(packet))
             d == Seen(packet)
             n == Processed(d, before, max_messages)
  <2>1. /\ packet \in RawPacket /\ processed \in Nat /\ before \in Nat
        /\ decoded_count = before + processed /\ max_messages \in Nat
        /\ stop_now \in BOOLEAN
    BY <1>1, WalkAssumption DEF TypeOK, Walking
  <2>2. fit \in Nat
    BY <2>1, BlocksFacts
  <2>3. parse_mold_header(d) /\ d.fit = fit
    BY DEF parse_mold_header, Seen
  <2>4. /\ processed <= fit /\ (stop_now \/ processed = fit)
        /\ max_messages # 0 => before < max_messages
    BY <1>1 DEF AtBlock
  <2>5. /\ stop_now => max_messages # 0 /\ decoded_count = max_messages
        /\ ~stop_now /\ max_messages # 0 => decoded_count < max_messages
    BY <1>1 DEF Walking
  <2> HIDE DEF fit, d
  <2>6. CASE max_messages = 0
    <3>1. n = fit /\ ~stop_now
      BY <2>3, <2>5, <2>6 DEF Processed
    <3>2. ~StopsAt(d, before, max_messages)
      BY <2>6 DEF StopsAt
    <3>3. processed = fit
      BY <2>4, <3>1
    <3>4. stop_now = FALSE /\ StopsAt(d, before, max_messages) = FALSE
      BY <2>1, <3>1, <3>2 DEF StopsAt
    <3> HIDE DEF n
    <3>5. processed = n
      BY <3>1, <3>3
    <3> QED  BY <3>4, <3>5, Zenon DEF d, n
  <2>7. CASE max_messages # 0
    <3>1. n = Least(fit, max_messages - before)
      BY <2>3, <2>4, <2>7 DEF Processed, Room
    <3>2. Tally(d, before, max_messages) = before + n
      BY <2>7 DEF Tally
    <3> HIDE DEF n
    <3>3. processed = n
      <4>1. CASE stop_now
        <5>1. processed = max_messages - before
          BY <2>1, <2>5, <4>1
        <5> QED  BY <2>1, <2>2, <2>4, <3>1, <5>1 DEF Least
      <4>2. CASE ~stop_now
        <5>1. processed = fit /\ before + fit < max_messages
          BY <2>1, <2>4, <2>5, <2>7, <4>2
        <5> QED  BY <2>1, <2>2, <3>1, <5>1 DEF Least
      <4> QED  BY <4>1, <4>2
    <3>4. StopsAt(d, before, max_messages) <=>
            n > 0 /\ Tally(d, before, max_messages) >= max_messages
      BY <2>7 DEF StopsAt, n
    <3>5. stop_now <=> n > 0 /\ before + n >= max_messages
      BY <2>1, <2>4, <2>5, <2>7, <3>3
    <3>6. StopsAt(d, before, max_messages) \in BOOLEAN
      BY DEF StopsAt
    <3> QED  BY <2>1, <3>2, <3>3, <3>4, <3>5, <3>6 DEF d, n
  <2> QED  BY <2>6, <2>7
<1>2. IInv /\ AtBlock => WalkMatches
  BY <1>1 DEF IInv, WalkMatches
<1> QED  BY <1>2, Invariance, WalkOnBlocks, PTL
-----------------------------------------------------------------------------
(***************************************************************************)
(* The messages of a file.                                                 *)
(***************************************************************************)

\* A whole frame holds a packet, and no other frame begins inside it.
LEMMA FrameFacts ==
  ASSUME NEW f \in Files, NEW c \in DOMAIN f.at
  PROVE  /\ f.total \in Nat /\ c \in Nat /\ f.at[c].length \in Nat /\ HeaderLength \in Nat
         /\ c <= f.total - 4
         /\ \A b \in DOMAIN f.at : b < c => b + 4 + f.at[b].length <= c
         /\ Good(f, c) =>
              /\ f.at[c].packet \in RawPacket
              /\ f.at[c].length = HeaderLength + Len(f.at[c].packet.body)
              /\ Len(f.at[c].packet.body) \in Nat
<1>1. /\ f.total \in Nat /\ c \in 0..(f.total - 4) /\ f.at[c].length \in Nat
      /\ f.at[c].length >= HeaderLength =>
              /\ f.at[c].packet \in RawPacket
              /\ f.at[c].length = HeaderLength + Len(f.at[c].packet.body)
  BY FilesAssumption
<1>2. \A b \in DOMAIN f.at : b < c => b + 4 + f.at[b].length <= c
  BY FilesAssumption
<1>3. Good(f, c) => f.at[c].packet \in RawPacket
                    /\ f.at[c].length = HeaderLength + Len(f.at[c].packet.body)
  BY <1>1 DEF Good
<1>4. Good(f, c) => Len(f.at[c].packet.body) \in Nat
  BY <1>3, PacketType
<1> QED  BY <1>1, <1>2, <1>3, <1>4 DEF HeaderLength

\* The block of a message lies inside its frame, behind the header.
LEMMA MessageFacts ==
  ASSUME NEW f \in Files, NEW c \in DOMAIN f.at, Good(f, c),
         NEW i \in 1..Len(Blocks(f.at[c].packet))
  PROVE  LET p == f.at[c].packet
             b == BlockStart(Blocks(p), i)
             m == Message(p, c, i)
         IN  /\ b \in Nat /\ 1 <= b
             /\ m.at \in Nat
             /\ m.at = c + 4 + HeaderLength + b - 1
             /\ m.size = Blocks(p)[i] /\ m.size \in Nat
             /\ m.number = p.seq + i - 1
             /\ m.size # 0 => m.type = p.body[b + 2]
             /\ c + 4 + HeaderLength <= m.at
             /\ m.at + 2 + m.size <= c + 4 + f.at[c].length
<1> DEFINE p == f.at[c].packet
           s == Blocks(p)
           b == BlockStart(s, i)
           m == Message(p, c, i)
           length == f.at[c].length
           size == Len(p.body)
<1>1. /\ c \in Nat /\ HeaderLength \in Nat /\ p \in RawPacket /\ size \in Nat
      /\ length = HeaderLength + size
  BY FrameFacts
<1>2. /\ m.at = c + 4 + HeaderLength + b - 1
      /\ m.size = s[i]
      /\ m.number = p.seq + i - 1
      /\ m.size # 0 => m.type = p.body[b + 2]
  BY DEF Message
<1>3. s \in Seq(Nat) /\ Len(s) \in Nat /\ s[i] \in Nat /\ i \in DOMAIN s
      /\ Carries(p.body, s)
  <2>1. s \in Some(p) /\ s \in Seq(Nat) /\ Len(s) \in Nat /\ s[i] \in Nat
    BY <1>1, BlocksFacts
  <2>2. Carries(p.body, s)
    BY <1>1, <2>1, SomeFacts
  <2> QED  BY <2>1, <2>2
<1>4. b + 1 + s[i] <= size
  BY <1>3 DEF Carries
<1>5. b \in Nat /\ 1 <= b
  <2>1. i \in 1..(Len(s) + 1)
    BY <1>3
  <2> QED  BY <1>3, <2>1, StartsFacts
<1> HIDE DEF p, s, b, m, length, size
<1>6. m.at \in Nat /\ c + 4 + HeaderLength <= m.at
  BY <1>1, <1>2, <1>5
<1>7. m.at + 2 + m.size <= c + 4 + length
  <2> DEFINE x == m.at
             z == m.size
             y == s[i]
  <2>1. z = y /\ y \in Nat /\ x = c + 4 + HeaderLength + b - 1 /\ b + 1 + y <= size
    BY <1>2, <1>3, <1>4
  <2> HIDE DEF x, y, z
  <2>2. x + 2 + z <= c + 4 + length
    BY <1>1, <1>5, <2>1, SMTT(20)
  <2> QED  BY <2>2 DEF x, z
<1> QED  BY <1>2, <1>3, <1>5, <1>6, <1>7 DEF p, s, b, m, length

\* The blocks of a packet lie one behind the other.
LEMMA MessagesInOrder ==
  ASSUME NEW f \in Files, NEW c \in DOMAIN f.at, Good(f, c),
         NEW j \in 1..Len(Blocks(f.at[c].packet)),
         NEW i \in 1..Len(Blocks(f.at[c].packet)), i < j
  PROVE  Message(f.at[c].packet, c, i).at + 2 + Blocks(f.at[c].packet)[i]
           <= Message(f.at[c].packet, c, j).at
<1> DEFINE p == f.at[c].packet
           s == Blocks(p)
           bi == BlockStart(s, i)
           bj == BlockStart(s, j)
<1>1. /\ c \in Nat /\ HeaderLength \in Nat /\ p \in RawPacket
  BY FrameFacts
<1>2. s \in Seq(Nat) /\ Len(s) \in Nat /\ s[i] \in Nat
  BY <1>1, BlocksFacts
<1>3. /\ bi \in Nat /\ Message(p, c, i).at = c + 4 + HeaderLength + bi - 1
      /\ bj \in Nat /\ Message(p, c, j).at = c + 4 + HeaderLength + bj - 1
  BY MessageFacts
<1>4. bi + 2 + s[i] <= bj
  <2>1. j \in (i + 1)..(Len(s) + 1)
    BY <1>2
  <2> HIDE DEF s
  <2> QED  BY <1>2, <2>1, StartsIncrease DEF s
<1> DEFINE x == Message(p, c, i).at
           y == Message(p, c, j).at
           z == s[i]
<1>5. /\ x = c + 4 + HeaderLength + bi - 1 /\ y = c + 4 + HeaderLength + bj - 1
      /\ z \in Nat /\ bi + 2 + z <= bj /\ bi \in Nat /\ bj \in Nat
  BY <1>2, <1>3, <1>4
<1> HIDE DEF p, s, bi, bj, x, y, z
<1>6. x + 2 + z <= y
  <2> DEFINE base == c + 4 + HeaderLength
  <2>1. base \in Nat
    BY <1>1
  <2>2. x = base + bi - 1 /\ y = base + bj - 1
    BY <1>5, Zenon
  <2> HIDE DEF base
  <2> QED  BY <1>5, <2>1, <2>2, SMTT(20)
<1> QED  BY <1>6 DEF p, s, x, y, z

\* The messages of the frame at c.
Framed(f, c) ==
  {Message(f.at[c].packet, c, i) : i \in 1..Len(Blocks(f.at[c].packet))}

\* The messages of a file that lie before q.
UpTo(f, q) == {m \in Contents(f) : m.at < q}

LEMMA InContents ==
  ASSUME NEW f \in Files, NEW m
  PROVE  m \in Contents(f) <=>
           \E c \in Reached(f) :
             f.at[c].packet.count # EndCount /\ m \in Framed(f, c)
<1>1. ASSUME NEW c \in Reached(f)
      PROVE  DOMAIN Blocks(f.at[c].packet) = 1..Len(Blocks(f.at[c].packet))
  <2>1. c \in DOMAIN f.at
    BY <1>1 DEF Reached
  <2>2. c <= c
    BY <2>1, FrameFacts
  <2>3. Good(f, c)
    BY <1>1, <2>1, <2>2 DEF Reached
  <2> QED  BY <2>1, <2>3, FrameFacts, BlocksFacts
<1> QED  BY <1>1 DEF Contents, Framed

\* The frames that are reached are whole, and so are those before them.
LEMMA ReachedFacts ==
  ASSUME NEW f \in Files, NEW c \in Reached(f)
  PROVE  c \in DOMAIN f.at /\ Good(f, c)
<1>1. c \in DOMAIN f.at
  BY DEF Reached
<1>2. c <= c
  BY <1>1, FrameFacts
<1> QED  BY <1>1, <1>2 DEF Reached

\* Between two places of a frame lie the messages of this frame that are there,
\* and no others.
LEMMA FrameAdds ==
  ASSUME NEW f \in Files, NEW c \in Reached(f), NEW q \in Nat, NEW r \in Nat,
         c <= q, q <= r, r <= c + 4 + f.at[c].length
  PROVE  UpTo(f, r) = UpTo(f, q) \cup
           {m \in Framed(f, c) :
              f.at[c].packet.count # EndCount /\ q <= m.at /\ m.at < r}
<1> DEFINE new == {m \in Framed(f, c) :
                     f.at[c].packet.count # EndCount /\ q <= m.at /\ m.at < r}
<1>1. ASSUME NEW d \in Reached(f), NEW m \in Framed(f, d)
      PROVE  /\ m.at \in Nat
             /\ d + 4 + HeaderLength <= m.at
             /\ m.at < d + 4 + f.at[d].length
  <2>1. d \in DOMAIN f.at /\ Good(f, d)
    BY ReachedFacts
  <2>2. PICK i \in 1..Len(Blocks(f.at[d].packet)) : m = Message(f.at[d].packet, d, i)
    BY DEF Framed
  <2>3. /\ m.at \in Nat /\ m.size \in Nat
        /\ d + 4 + HeaderLength <= m.at
        /\ m.at + 2 + m.size <= d + 4 + f.at[d].length
    BY <2>1, <2>2, MessageFacts
  <2>4. d \in Nat /\ f.at[d].length \in Nat
    BY <2>1, FrameFacts
  <2> DEFINE x == m.at
             z == m.size
             end == d + 4 + f.at[d].length
  <2> HIDE DEF new
  <2>5. x \in Nat /\ z \in Nat /\ end \in Nat /\ x + 2 + z <= end
    <3>1. end \in Nat
      BY <2>4, SMTT(20)
    <3>2. x + 2 + z <= end
      BY <2>3, Zenon
    <3> QED  BY <2>3, <3>1, <3>2, Zenon
  <2>6. x < end
    <3> HIDE DEF x, z, end, new
    <3> QED  BY <2>5
  <2> QED  BY <2>3, <2>6
<1>2. /\ c \in DOMAIN f.at /\ c \in Nat /\ f.at[c].length \in Nat /\ HeaderLength \in Nat
  BY ReachedFacts, FrameFacts
<1>3. ASSUME NEW d \in Reached(f), NEW m \in Framed(f, d), m.at < r
      PROVE  d = c \/ m.at < q
  <2>1. /\ d \in DOMAIN f.at /\ d \in Nat /\ f.at[d].length \in Nat
        /\ d < c => d + 4 + f.at[d].length <= c
        /\ c < d => c + 4 + f.at[c].length <= d
    BY <1>2, ReachedFacts, FrameFacts
  <2>2. /\ m.at \in Nat /\ d + 4 + HeaderLength <= m.at
        /\ m.at < d + 4 + f.at[d].length
    BY <1>1
  <2> DEFINE x == m.at
             length == f.at[d].length
             here == f.at[c].length
  <2>3. /\ x \in Nat /\ length \in Nat /\ here \in Nat
        /\ d + 4 + HeaderLength <= x /\ x < d + 4 + length
        /\ d < c => d + 4 + length <= c
        /\ c < d => c + 4 + here <= d
        /\ x < r /\ r <= c + 4 + here
    BY <1>2, <1>3, <2>1, <2>2
  <2>4. d = c \/ x < q
    <3> HIDE DEF x, length, here, new
    <3>1. CASE d < c
      BY <1>2, <2>1, <2>3, <3>1
    <3>2. CASE c < d
      BY <1>2, <2>1, <2>3, <3>2
    <3> QED  BY <1>2, <2>1, <3>1, <3>2
  <2> QED  BY <2>4
<1>4. ASSUME NEW m, m \in UpTo(f, r)
      PROVE  m \in UpTo(f, q) \cup new
  <2>1. m \in Contents(f) /\ m.at < r
    BY <1>4 DEF UpTo
  <2>2. PICK d \in Reached(f) :
          f.at[d].packet.count # EndCount /\ m \in Framed(f, d)
    BY <2>1, InContents
  <2>3. d = c \/ m.at < q
    BY <1>3, <2>1, <2>2
  <2>4. m.at \in Nat
    BY <1>1, <2>2
  <2>5. m.at < q \/ q <= m.at
    BY <2>4
  <2>6. CASE m.at < q
    BY <2>1, <2>6 DEF UpTo
  <2>7. CASE q <= m.at /\ d = c
    BY <2>1, <2>2, <2>7
  <2> QED  BY <2>3, <2>5, <2>6, <2>7
<1>5. ASSUME NEW m, m \in UpTo(f, q) \cup new
      PROVE  m \in UpTo(f, r)
  <2>1. CASE m \in UpTo(f, q)
    <3>1. m \in Contents(f) /\ m.at < q
      BY <2>1 DEF UpTo
    <3>2. m.at \in Nat
      BY <1>1, <3>1, InContents
    <3>3. m.at < r
      BY <3>1, <3>2
    <3> QED  BY <3>1, <3>3 DEF UpTo
  <2>2. CASE m \in new
    BY <2>2, InContents DEF UpTo
  <2> QED  BY <1>5, <2>1, <2>2
<1> HIDE DEF new
<1>6. UpTo(f, r) = UpTo(f, q) \cup new
  BY <1>4, <1>5
<1> QED  BY <1>6 DEF new

\* Nothing lies before the first frame, and all behind the last.
LEMMA FileAdds ==
  ASSUME NEW f \in Files
  PROVE  /\ UpTo(f, 0) = {}
         /\ \A m \in Contents(f) : m.at \in Nat
<1>1. ASSUME NEW m \in Contents(f)
      PROVE  m.at \in Nat
  <2>1. PICK c \in Reached(f) : m \in Framed(f, c)
    BY InContents
  <2>2. c \in DOMAIN f.at /\ Good(f, c)
    BY ReachedFacts
  <2> QED  BY <2>1, <2>2, MessageFacts DEF Framed
<1>2. ASSUME NEW m \in UpTo(f, 0)
      PROVE  FALSE
  <2>1. m \in Contents(f) /\ m.at < 0
    BY DEF UpTo
  <2>2. m.at \in Nat
    BY <1>1, <2>1
  <2> QED  BY <2>1, <2>2
<1> QED  BY <1>1, <1>2

\* There are finitely many.
LEMMA ContentsFinite ==
  ASSUME NEW f \in Files
  PROVE  IsFiniteSet(Contents(f))
<1> DEFINE C == {c \in Reached(f) : f.at[c].packet.count # EndCount}
           g == [c \in C |-> Framed(f, c)]
           T == {Framed(f, c) : c \in C}
<1>1. IsFiniteSet(C)
  <2>1. f.total \in Nat /\ DOMAIN f.at \subseteq 0..(f.total - 4)
    BY FilesAssumption
  <2>2. IsFiniteSet(0..(f.total - 4))
    BY <2>1, FS_Interval
  <2>3. C \in SUBSET (0..(f.total - 4))
    BY <2>1 DEF Reached
  <2> HIDE DEF C
  <2> QED  BY <2>2, <2>3, FS_Subset
<1>2. IsFiniteSet(T)
  <2>1. g \in Surjection(C, T)
    <3> HIDE DEF C
    <3>1. g \in [C -> T] /\ \A y \in T : \E c \in C : g[c] = y
      OBVIOUS
    <3> HIDE DEF g, T
    <3> QED  BY <3>1 DEF Surjection
  <2> HIDE DEF C, g, T
  <2> QED  BY <1>1, <2>1, FS_Surjection
<1>3. \A X \in T : IsFiniteSet(X)
  <2>1. ASSUME NEW c \in C
        PROVE  IsFiniteSet(Framed(f, c))
    <3> DEFINE n == Len(Blocks(f.at[c].packet))
               h == [i \in 1..n |-> Message(f.at[c].packet, c, i)]
               F == Framed(f, c)
    <3>1. c \in DOMAIN f.at /\ Good(f, c)
      BY ReachedFacts
    <3>2. n \in Nat
      BY <3>1, FrameFacts, BlocksFacts
    <3>3. h \in [1..n -> F] /\ \A y \in F : \E i \in 1..n : h[i] = y
      BY DEF Framed
    <3> HIDE DEF n, h, F
    <3>4. h \in Surjection(1..n, F)
      BY <3>3 DEF Surjection
    <3>5. IsFiniteSet(1..n)
      BY <3>2, FS_Interval
    <3> QED  BY <3>4, <3>5, FS_Surjection DEF F
  <2> QED  BY <2>1
<1>4. \A m : m \in Contents(f) <=> m \in UNION T
  BY InContents
<1> HIDE DEF T
<1>5. Contents(f) = UNION T
  BY <1>4
<1> QED  BY <1>2, <1>3, <1>5, FS_UNION

\* Behind the header of a frame nothing has been decoded of it.
LEMMA HeaderPassed ==
  ASSUME NEW f \in Files, NEW c \in Reached(f)
  PROVE  UpTo(f, c + 4 + HeaderLength) = UpTo(f, c)
<1> DEFINE r == c + 4 + HeaderLength
           new == {m \in Framed(f, c) :
                     f.at[c].packet.count # EndCount /\ c <= m.at /\ m.at < r}
<1>1. c \in DOMAIN f.at /\ Good(f, c)
  BY ReachedFacts
<1>2. /\ c \in Nat /\ f.at[c].length \in Nat /\ HeaderLength \in Nat
  BY <1>1, FrameFacts
<1>3. HeaderLength <= f.at[c].length
  BY <1>1, <1>2 DEF Good
<1>4. r \in Nat /\ c <= c /\ c <= r /\ r <= c + 4 + f.at[c].length
  BY <1>2, <1>3
<1>5. \A m \in Framed(f, c) : m.at \in Nat /\ r <= m.at
  BY <1>1, MessageFacts DEF Framed
<1>6. new = {}
  <2>1. \A m \in Framed(f, c) : ~(m.at < r)
    <3> HIDE DEF r
    <3> QED  BY <1>4, <1>5
  <2> QED  BY <2>1
<1> HIDE DEF r
<1>7. UpTo(f, r) = UpTo(f, c) \cup new
  BY <1>2, <1>4, FrameAdds
<1> QED  BY <1>6, <1>7 DEF r

\* A heartbeat and the end of the session hold nothing.
LEMMA FrameSkipped ==
  ASSUME NEW f \in Files, NEW c \in Reached(f), f.at[c].packet.count \in {0, EndCount}
  PROVE  UpTo(f, c + 4 + f.at[c].length) = UpTo(f, c)
<1> DEFINE r == c + 4 + f.at[c].length
           new == {m \in Framed(f, c) :
                     f.at[c].packet.count # EndCount /\ c <= m.at /\ m.at < r}
<1>1. c \in DOMAIN f.at /\ Good(f, c)
  BY ReachedFacts
<1>2. /\ c \in Nat /\ f.at[c].length \in Nat /\ f.at[c].packet \in RawPacket
  BY <1>1, FrameFacts
<1>3. r \in Nat /\ c <= c /\ c <= r /\ r <= c + 4 + f.at[c].length
  BY <1>2
<1>4. new = {}
  <2>1. CASE f.at[c].packet.count = EndCount
    BY <2>1
  <2>2. CASE f.at[c].packet.count = 0
    <3>1. Len(Blocks(f.at[c].packet)) \in Nat /\ Len(Blocks(f.at[c].packet)) <= 0
      BY <1>2, <2>2, BlocksFacts
    <3>2. 1..Len(Blocks(f.at[c].packet)) = {}
      BY <3>1
    <3> QED  BY <3>2 DEF Framed
  <2> QED  BY <2>1, <2>2
<1> HIDE DEF r
<1>5. UpTo(f, r) = UpTo(f, c) \cup new
  BY <1>2, <1>3, FrameAdds
<1> QED  BY <1>4, <1>5 DEF r

\* Where the next block would begin when k of them have been decoded.
After(f, c, k) ==
  c + 4 + (HeaderLength + BlockStart(Blocks(f.at[c].packet), k + 1) - 1)

\* A step of the walk adds one message, the one that is there.
LEMMA WalkAdds ==
  ASSUME NEW f \in Files, NEW c \in Reached(f), f.at[c].packet.count # EndCount,
         NEW k \in Nat, k < Len(Blocks(f.at[c].packet))
  PROVE  LET m == Message(f.at[c].packet, c, k + 1) IN
         /\ After(f, c, k + 1) = After(f, c, k) + 2 + Blocks(f.at[c].packet)[k + 1]
         /\ m.at = After(f, c, k) /\ m.at \in Nat
         /\ UpTo(f, After(f, c, k + 1)) = UpTo(f, After(f, c, k)) \cup {m}
<1> DEFINE p == f.at[c].packet
           s == Blocks(p)
           m == Message(p, c, k + 1)
           q == After(f, c, k)
           r == After(f, c, k + 1)
           new == {l \in Framed(f, c) :
                     f.at[c].packet.count # EndCount /\ q <= l.at /\ l.at < r}
<1>1. c \in DOMAIN f.at /\ Good(f, c)
  BY ReachedFacts
<1>2. /\ c \in Nat /\ f.at[c].length \in Nat /\ p \in RawPacket /\ HeaderLength \in Nat
  BY <1>1, FrameFacts
<1>3. s \in Seq(Nat) /\ Len(s) \in Nat
  BY <1>2, BlocksFacts
<1>4. k + 1 \in 1..Len(s)
  BY <1>3
<1> DEFINE b == BlockStart(s, k + 1)
           z == s[k + 1]
<1>5. /\ b \in Nat /\ 1 <= b
      /\ m.at \in Nat /\ m.at = c + 4 + HeaderLength + b - 1
      /\ m.size = z /\ z \in Nat
      /\ c + 4 + HeaderLength <= m.at
      /\ m.at + 2 + m.size <= c + 4 + f.at[c].length
  BY <1>1, <1>4, MessageFacts
<1>6. BlockStart(s, (k + 1) + 1) = b + 2 + z
  BY <1>3, <1>4, StartsFacts
<1>7. q = c + 4 + HeaderLength + b - 1
  <2> HIDE DEF b
  <2>1. q = c + 4 + (HeaderLength + b - 1)
    BY DEF After, b
  <2> QED  BY <1>2, <1>5, <2>1
<1>8. r = q + 2 + z
  <2>1. r = c + 4 + (HeaderLength + BlockStart(s, (k + 1) + 1) - 1)
    BY DEF After
  <2>2. z \in Nat
    BY <1>5
  <2> DEFINE base == c + 4
  <2> HIDE DEF b, z, q, r, s, new, m, p
  <2>3. r = base + (HeaderLength + (b + 2 + z) - 1)
    BY <1>6, <2>1, Zenon DEF base
  <2>4. q = base + HeaderLength + b - 1 /\ base \in Nat
    BY <1>2, <1>7 DEF base
  <2> HIDE DEF base
  <2> QED  BY <1>2, <1>5, <2>2, <2>3, <2>4
<1>9. \A i \in 1..Len(s) : i # k + 1 =>
        Message(p, c, i).at \in Nat /\ (Message(p, c, i).at < q \/ r <= Message(p, c, i).at)
  <2> SUFFICES ASSUME NEW i \in 1..Len(s), i # k + 1
               PROVE  /\ Message(p, c, i).at \in Nat
                      /\ Message(p, c, i).at < q \/ r <= Message(p, c, i).at
    OBVIOUS
  <2> DEFINE x == Message(p, c, i).at
             y == s[i]
  <2>1. x \in Nat /\ y \in Nat
    BY <1>1, MessageFacts
  <2>2. CASE i < k + 1
    <3>1. x + 2 + y <= m.at
      BY <1>1, <1>4, <2>2, MessagesInOrder
    <3> HIDE DEF x, y, q, r
    <3>2. x < q
      BY <1>5, <1>7, <2>1, <3>1
    <3> QED  BY <2>1, <3>2 DEF x
  <2>3. CASE k + 1 < i
    <3>1. m.at + 2 + z <= x
      BY <1>1, <1>4, <2>3, MessagesInOrder
    <3> HIDE DEF x, y, q, r, z
    <3>2. r <= x
      BY <1>5, <1>7, <1>8, <2>1, <3>1
    <3> QED  BY <2>1, <3>2 DEF x
  <2>4. i < k + 1 \/ k + 1 < i
    BY <1>3
  <2> QED  BY <2>2, <2>3, <2>4
<1>10. m.at = q /\ q \in Nat /\ r \in Nat /\ c <= q /\ q <= r /\ q < r
       /\ r <= c + 4 + f.at[c].length
  <2> DEFINE x == m.at
             w == m.size
             length == f.at[c].length
  <2>1. /\ x \in Nat /\ x = c + 4 + HeaderLength + b - 1 /\ w = z /\ z \in Nat
        /\ c + 4 + HeaderLength <= x /\ x + 2 + w <= c + 4 + length
        /\ b \in Nat /\ 1 <= b /\ length \in Nat
    BY <1>2, <1>5
  <2> HIDE DEF x, w, length, q, r, z, b, m, new, p, s
  <2>2. x = q
    BY <1>7, <2>1
  <2>3. q \in Nat /\ c <= q
    BY <1>2, <2>1, <2>2
  <2>4. r \in Nat /\ q <= r /\ q < r
    BY <1>8, <2>1, <2>3, SMTT(20)
  <2>5. r <= c + 4 + length
    BY <1>8, <2>1, <2>2
  <2> QED  BY <2>2, <2>3, <2>4, <2>5 DEF x, length
<1>11. new = {m}
  <2>1. m \in Framed(f, c)
    BY <1>4 DEF Framed
  <2>2. m \in new
    BY <1>10, <2>1
  <2>3. ASSUME NEW l \in new
        PROVE  l = m
    <3>1. PICK i \in 1..Len(s) : l = Message(p, c, i)
      BY DEF Framed
    <3>2. q <= l.at /\ l.at < r
      OBVIOUS
    <3> HIDE DEF s, p, m, new, q, r
    <3>3. i # k + 1 => FALSE
      BY <1>9, <1>10, <3>1, <3>2
    <3> QED  BY <3>1, <3>3 DEF m
  <2> QED  BY <2>2, <2>3
<1>12. UpTo(f, r) = UpTo(f, q) \cup new
  <2> HIDE DEF q, r
  <2> QED  BY <1>10, FrameAdds DEF new
<1> QED  BY <1>5, <1>8, <1>10, <1>11, <1>12

\* Behind the last block nothing more lies in a frame.
LEMMA FrameEnds ==
  ASSUME NEW f \in Files, NEW c \in Reached(f),
         After(f, c, Len(Blocks(f.at[c].packet))) <= c + 4 + f.at[c].length
  PROVE  UpTo(f, c + 4 + f.at[c].length) =
           UpTo(f, After(f, c, Len(Blocks(f.at[c].packet))))
<1> DEFINE p == f.at[c].packet
           s == Blocks(p)
           n == Len(s)
           q == After(f, c, n)
           r == c + 4 + f.at[c].length
           new == {l \in Framed(f, c) :
                     f.at[c].packet.count # EndCount /\ q <= l.at /\ l.at < r}
<1>1. c \in DOMAIN f.at /\ Good(f, c)
  BY ReachedFacts
<1>2. /\ c \in Nat /\ f.at[c].length \in Nat /\ p \in RawPacket /\ HeaderLength \in Nat
  BY <1>1, FrameFacts
<1>3. s \in Seq(Nat) /\ n \in Nat
  BY <1>2, BlocksFacts
<1> DEFINE b == BlockStart(s, n + 1)
<1>4. b \in Nat /\ 1 <= b
  <2>1. n + 1 \in 1..(Len(s) + 1)
    BY <1>3
  <2> QED  BY <1>3, <2>1, StartsFacts
<1>5. q = c + 4 + (HeaderLength + b - 1)
  BY DEF After
<1>6. ASSUME NEW i \in 1..n
      PROVE  Message(p, c, i).at \in Nat /\ Message(p, c, i).at < q
  <2> DEFINE x == Message(p, c, i).at
             a == BlockStart(s, i)
             y == s[i]
  <2>1. x \in Nat /\ y \in Nat /\ a \in Nat /\ x = c + 4 + HeaderLength + a - 1
    BY <1>1, MessageFacts
  <2>2. a + 2 + y <= b
    <3>1. n + 1 \in (i + 1)..(Len(s) + 1) /\ i \in 1..Len(s)
      BY <1>3
    <3> HIDE DEF s
    <3> QED  BY <1>3, <3>1, StartsIncrease DEF s
  <2> HIDE DEF x, a, y, b, q
  <2>3. x < q
    BY <1>2, <1>4, <1>5, <2>1, <2>2
  <2> QED  BY <2>1, <2>3 DEF x
<1>7. q \in Nat /\ r \in Nat /\ c <= q /\ q <= r /\ r <= c + 4 + f.at[c].length
  <2> DEFINE length == f.at[c].length
  <2>1. length \in Nat /\ r = c + 4 + length /\ q <= r
    BY <1>2
  <2> HIDE DEF b, q, r, length
  <2>2. q \in Nat /\ r \in Nat /\ c <= q /\ r <= c + 4 + length
    BY <1>2, <1>4, <1>5, <2>1
  <2> QED  BY <2>1, <2>2 DEF length
<1>8. new = {}
  <2>1. ASSUME NEW l \in Framed(f, c)
        PROVE  ~(q <= l.at)
    <3>1. PICK i \in 1..n : l = Message(p, c, i)
      BY DEF Framed
    <3> HIDE DEF n, p, q
    <3>2. l.at \in Nat /\ l.at < q
      BY <1>6, <3>1
    <3> QED  BY <1>7, <3>2
  <2> QED  BY <2>1
<1>9. UpTo(f, r) = UpTo(f, q) \cup new
  <2> HIDE DEF q, r
  <2> QED  BY <1>7, FrameAdds DEF new
<1> QED  BY <1>8, <1>9
-----------------------------------------------------------------------------
(***************************************************************************)
(* What has been decoded and printed.                                      *)
(***************************************************************************)

\* Whether a message is printed with a filter.
IsOf(m, types) == m.size > 0 /\ (types = {} \/ m.type \in types)

Of(B, types) == {m \in B : IsOf(m, types)}

\* What is printed of a message.
Line(m) == <<m.number, m.type>>

Lines(o) == [k \in DOMAIN o |-> Line(o[k])]

\* DecodedUpTo, said of values.
IsDecoded(B, types, n, out) ==
  /\ IsFiniteSet(B)
  /\ Cardinality(B) = n
  /\ Lists(ByPlace(Of(B, types)), Of(B, types))
  /\ out = Lines(ByPlace(Of(B, types)))

\* Before anything is decoded.
LEMMA NothingDecoded ==
  ASSUME NEW types
  PROVE  IsDecoded({}, types, 0, <<>>)
<1>1. Of({}, types) = {}
  BY DEF Of
<1>2. <<>> \in Seq({}) /\ Lists(<<>>, {})
  BY DEF Lists
<1>3. ByPlace({}) = <<>>
  <2> DEFINE S == {}
             o == <<>>
  <2>1. o \in Seq(S) /\ Lists(o, S) /\ \A x \in S : x.at \in Nat
    BY <1>2
  <2> HIDE DEF S, o
  <2>2. ByPlace(S) = o
    BY <2>1, ListedByPlace
  <2> QED  BY <2>2 DEF S, o
<1>4. Lines(<<>>) = <<>>
  BY DEF Lines
<1>5. IsFiniteSet({}) /\ Cardinality({}) = 0
  BY FS_EmptySet
<1> QED  BY <1>1, <1>2, <1>3, <1>4, <1>5 DEF IsDecoded

\* One more message is printed behind the others.
LEMMA LinesOfMore ==
  ASSUME NEW S, NEW o \in Seq(S), NEW m
  PROVE  Lines(Append(o, m)) = Append(Lines(o), Line(m))
<1> DEFINE n == Len(o)
           T == S \cup {m}
           a == Append(o, m)
           L == Lines(o)
           V == {Line(x) : x \in T}
<1>1. o \in Seq(T) /\ n \in Nat /\ m \in T
  <2>1. S \subseteq T
    OBVIOUS
  <2> HIDE DEF T
  <2>2. o \in Seq(T)
    BY <2>1, SeqOfMore
  <2> QED  BY <2>2 DEF T
<1>2. \A k \in 1..n : o[k] \in T
  <2> HIDE DEF T
  <2> QED  BY <1>1, ElementType
<1>3. L = [k \in 1..n |-> Line(o[k])]
  BY <1>1 DEF Lines
<1>4. \A k \in 1..n : Line(o[k]) \in V
  BY <1>2
<1>5. Line(m) \in V
  OBVIOUS
<1>6. /\ a \in Seq(T) /\ Len(a) = n + 1 /\ a[n + 1] = m
      /\ \A k \in 1..n : a[k] = o[k]
  <2> HIDE DEF T
  <2> QED  BY <1>1
<1> HIDE DEF V, T
<1>7. L \in Seq(V) /\ Len(L) = n
  BY <1>1, <1>3, <1>4
<1>8. Lines(a) = [k \in 1..(n + 1) |-> Line(a[k])]
  <2>1. DOMAIN a = 1..(n + 1)
    BY <1>1, <1>6
  <2> HIDE DEF a
  <2> QED  BY <2>1 DEF Lines
<1> DEFINE R == Append(L, Line(m))
<1>9. /\ R \in Seq(V) /\ Len(R) = n + 1 /\ R[n + 1] = Line(m)
      /\ \A k \in 1..n : R[k] = L[k]
  <2> HIDE DEF L
  <2> QED  BY <1>1, <1>5, <1>7
<1>10. R = [k \in 1..(n + 1) |-> R[k]]
  <2> HIDE DEF R
  <2> QED  BY <1>1, <1>9
<1>11. \A k \in 1..(n + 1) : R[k] = Line(a[k])
  <2>1. \A k \in 1..(n + 1) : k \in 1..n \/ k = n + 1
    BY <1>1
  <2>2. \A k \in 1..n : L[k] = Line(o[k])
    BY <1>3
  <2> HIDE DEF R, L, a, n
  <2> QED  BY <1>6, <1>9, <2>1, <2>2
<1> HIDE DEF R, L, a, n
<1>12. Lines(a) = R
  BY <1>8, <1>10, <1>11
<1> QED  BY <1>12 DEF a, R, L

\* A message behind all that have been decoded is decoded, and printed if it
\* was asked for.
LEMMA OneMoreDecoded ==
  ASSUME NEW B, NEW types, NEW n \in Nat, NEW out, IsDecoded(B, types, n, out),
         NEW m, m.at \in Nat, \A y \in B : y.at \in Nat /\ y.at < m.at
  PROVE  IsDecoded(B \cup {m}, types, n + 1,
                   IF IsOf(m, types) THEN Append(out, Line(m)) ELSE out)
<1> DEFINE S == Of(B, types)
           o == ByPlace(S)
<1>1. /\ IsFiniteSet(B) /\ Cardinality(B) = n
      /\ Lists(o, S) /\ out = Lines(o)
  BY DEF IsDecoded
<1>2. m \notin B
  BY SMT
<1>3. IsFiniteSet(B \cup {m}) /\ Cardinality(B \cup {m}) = n + 1
  BY <1>1, <1>2, FS_AddElement
<1>4. CASE IsOf(m, types)
  <2>1. Of(B \cup {m}, types) = S \cup {m}
    BY <1>4 DEF Of
  <2>2. \A y \in S : y.at \in Nat /\ y.at < m.at
    BY DEF Of
  <2> HIDE DEF S
  <2>3. ByPlace(S \cup {m}) = Append(o, m) /\ Lists(ByPlace(S \cup {m}), S \cup {m})
    BY <1>1, <2>2, OneMoreListed
  <2>4. o \in Seq(S)
    BY <1>1 DEF Lists
  <2> HIDE DEF o
  <2>5. Lines(Append(o, m)) = Append(Lines(o), Line(m))
    BY <2>4, LinesOfMore
  <2> QED  BY <1>1, <1>3, <1>4, <2>1, <2>3, <2>5 DEF IsDecoded
<1>5. CASE ~IsOf(m, types)
  <2>1. Of(B \cup {m}, types) = S
    BY <1>5 DEF Of
  <2> QED  BY <1>1, <1>3, <1>5, <2>1 DEF IsDecoded
<1> QED  BY <1>4, <1>5

\* DecodedUpTo says this of the state.
LEMMA DecodedHere ==
  ASSUME NEW q
  PROVE  DecodedUpTo(q) <=>
           IsDecoded(UpTo(file, q), type_allowed, decoded_count, shown)
<1> DEFINE B == Before(q)
<1>1. B = UpTo(file, q)
  BY DEF Before, UpTo
<1>2. Wanted(B) = Of(B, type_allowed)
  BY DEF Wanted, Of, IsOf
<1>3. Printed(Wanted(B)) <=> shown = Lines(ByPlace(Wanted(B)))
  BY DEF Printed, Lines, Line
<1>4. DecodedUpTo(q) <=>
        /\ IsFiniteSet(B) /\ Cardinality(B) = decoded_count
        /\ Lists(ByPlace(Wanted(B)), Wanted(B))
        /\ Printed(Wanted(B))
  BY DEF DecodedUpTo
<1> HIDE DEF B
<1> QED  BY <1>1, <1>2, <1>3, <1>4 DEF IsDecoded

\* The first -n messages of a file are those decoded when the limit, or the
\* end of the file, is reached.
LEMMA FirstAreDecoded ==
  ASSUME NEW f \in Files, NEW q \in Nat, max_messages \in Nat,
         Cardinality(UpTo(f, q)) \in Nat,
         \/ UpTo(f, q) = Contents(f)
            /\ (max_messages # 0 => Cardinality(UpTo(f, q)) < max_messages)
         \/ max_messages # 0 /\ Cardinality(UpTo(f, q)) = max_messages
  PROVE  First(Contents(f)) = UpTo(f, q)
<1> DEFINE all == Contents(f)
           B == UpTo(f, q)
           Rank(m) == {l \in all : l.at < m.at}
<1>1. IsFiniteSet(all) /\ \A m \in all : m.at \in Nat
  BY ContentsFinite, FileAdds
<1>0. Cardinality(B) \in Nat
  OBVIOUS
<1>2. B \in SUBSET all /\ \A m \in all : m \in B <=> m.at < q
  BY DEF UpTo
<1>3. First(all) = {m \in all : max_messages # 0 => Cardinality(Rank(m)) < max_messages}
  BY DEF First
<1>4. \A m \in all : Rank(m) \in SUBSET all
  OBVIOUS
<1>5. \A m \in all : IsFiniteSet(Rank(m)) /\ Cardinality(Rank(m)) \in Nat
  <2> HIDE DEF all, Rank
  <2> QED  BY <1>1, <1>4, FS_Subset, FS_CardinalityType
<1>6. CASE max_messages = 0
  BY <1>3, <1>6
<1>7. CASE /\ max_messages # 0 /\ B = all
           /\ Cardinality(B) < max_messages
  <2>1. \A m \in all : Cardinality(Rank(m)) <= Cardinality(all)
    <3> HIDE DEF all, Rank
    <3> QED  BY <1>1, <1>4, FS_Subset
  <2>2. \A m \in all : Cardinality(Rank(m)) < max_messages
    <3> HIDE DEF all, Rank, B
    <3> QED  BY <1>0, <1>5, <1>7, <2>1
  <2> HIDE DEF Rank, B, all
  <2>3. First(all) = B
    BY <1>3, <1>7, <2>2
  <2> QED  BY <2>3 DEF B, all
<1>8. CASE max_messages # 0 /\ Cardinality(B) = max_messages
  <2>1. ASSUME NEW m \in all, m \in B
        PROVE  Cardinality(Rank(m)) < max_messages
    <3>1. Rank(m) \in SUBSET B
      <4>1. ASSUME NEW l \in all, l.at < m.at
            PROVE  l \in B
        <5>1. l.at \in Nat /\ m.at \in Nat /\ m.at < q
          BY <1>1, <1>2, <2>1
        <5>2. l.at < q
          BY <4>1, <5>1
        <5> QED  BY <1>2, <5>2
      <4> QED  BY <4>1
    <3>2. m \notin Rank(m)
      BY <1>1
    <3>3. Rank(m) # B
      BY <2>1, <3>2
    <3> HIDE DEF Rank, B, all
    <3>4. IsFiniteSet(B)
      BY <1>1, <1>2, FS_Subset
    <3>5. Cardinality(Rank(m)) <= Cardinality(B) /\ Cardinality(Rank(m)) # Cardinality(B)
      BY <3>1, <3>3, <3>4, FS_Subset
    <3> QED  BY <1>5, <1>8, <3>5
  <2>2. ASSUME NEW m \in all, m \notin B
        PROVE  ~(Cardinality(Rank(m)) < max_messages)
    <3>1. B \in SUBSET Rank(m)
      <4>1. ASSUME NEW l \in all, l \in B
            PROVE  l.at < m.at
        <5>1. l.at \in Nat /\ l.at < q /\ m.at \in Nat /\ ~(m.at < q)
          BY <1>1, <1>2, <2>2, <4>1
        <5> QED  BY <5>1
      <4> HIDE DEF B
      <4> QED  BY <1>2, <4>1
    <3> HIDE DEF Rank, B, all
    <3>2. Cardinality(B) <= Cardinality(Rank(m))
      BY <1>5, <3>1, FS_Subset
    <3> QED  BY <1>5, <1>8, <3>2
  <2> HIDE DEF Rank, B, all
  <2>3. First(all) = B
    BY <1>2, <1>3, <1>8, <2>1, <2>2
  <2> QED  BY <2>3 DEF B, all
<1> QED  BY <1>6, <1>7, <1>8
-----------------------------------------------------------------------------
(***************************************************************************)
(* decode_file keeps up with what it has come past.                        *)
(***************************************************************************)

\* Every frame before c is whole, and ends before it.
Passed(f, c) ==
  \A b \in DOMAIN f.at : b < c => Good(f, b) /\ b + 4 + f.at[b].length <= c

\* Progress, in these terms.
Caught ==
  /\ pc = "decode" => packet = file.at[cursor].packet
                      /\ packet.count \notin {0, EndCount}
  /\ pc \in {"open", "frame", "decode"} =>
       /\ Passed(file, cursor)
       /\ IsDecoded(UpTo(file, Position), type_allowed, decoded_count, shown)
       /\ exit = -1
  /\ exit = 0 =>
       \E q \in 0..file.total :
         /\ IsDecoded(UpTo(file, q), type_allowed, decoded_count, shown)
         /\ stop_now \/ UpTo(file, q) = Contents(file)

LEMMA ProgressHere == Progress <=> Caught
<1>1. DecodedUpTo(Position) <=>
        IsDecoded(UpTo(file, Position), type_allowed, decoded_count, shown)
  BY DecodedHere
<1>2. \A q : DecodedUpTo(q) <=>
               IsDecoded(UpTo(file, q), type_allowed, decoded_count, shown)
  BY DecodedHere
<1>3. \A q : Before(q) = UpTo(file, q)
  BY DEF Before, UpTo
<1> QED  BY <1>1, <1>2, <1>3, Zenon DEF Progress, Passed, Caught

\* decode_file begins before the first frame.
LEMMA InitCaught == Init => Caught
<1> SUFFICES ASSUME Init PROVE Caught
  OBVIOUS
<1>1. /\ file \in Files /\ cursor = 0 /\ pc = "open" /\ exit = -1
      /\ decoded_count = 0 /\ shown = <<>>
  BY DEF Init, WalkInit
<1>2. Passed(file, cursor)
  <2>1. \A b \in DOMAIN file.at : b \in Nat
    BY <1>1, FrameFacts
  <2>2. \A b \in DOMAIN file.at : ~(b < 0)
    BY <2>1
  <2> QED  BY <1>1, <2>2 DEF Passed
<1>3. Position = 0
  BY <1>1 DEF Position
<1>4. UpTo(file, Position) = {}
  BY <1>1, <1>3, FileAdds
<1>5. IsDecoded({}, type_allowed, 0, <<>>)
  BY NothingDecoded
<1>6. IsDecoded(UpTo(file, Position), type_allowed, decoded_count, shown)
  BY <1>1, <1>4, <1>5, Zenon
<1> QED  BY <1>1, <1>2, <1>6 DEF Caught

\* A whole frame at the cursor is one that is reached.
LEMMA FrameReached ==
  ASSUME TypeOK, CursorOnFrame, FrameFits, Passed(file, cursor)
  PROVE  /\ cursor \in Reached(file)
         /\ \A c \in Nat :
              c = cursor + 4 + file.at[cursor].length => Passed(file, c)
<1>1. file \in Files /\ file.total \in Nat /\ cursor \in Nat
  BY FilesAssumption DEF TypeOK
<1>2. cursor \in DOMAIN file.at
  BY <1>1 DEF FrameFits, CursorOnFrame
<1>3. Good(file, cursor)
  BY DEF FrameFits, Good
<1>4. ASSUME NEW b \in DOMAIN file.at, b <= cursor
      PROVE  Good(file, b)
  <2>1. b \in Nat
    BY <1>1, FrameFacts
  <2>2. b < cursor \/ b = cursor
    BY <1>1, <1>4, <2>1
  <2> QED  BY <1>3, <2>2 DEF Passed
<1>5. cursor \in Reached(file)
  BY <1>2, <1>4 DEF Reached
<1>6. ASSUME NEW c \in Nat, c = cursor + 4 + file.at[cursor].length,
             NEW b \in DOMAIN file.at, b < c
      PROVE  Good(file, b) /\ b + 4 + file.at[b].length <= c
  <2>1. /\ b \in Nat /\ file.at[b].length \in Nat /\ file.at[cursor].length \in Nat
        /\ cursor < b => cursor + 4 + file.at[cursor].length <= b
    BY <1>1, <1>2, FrameFacts
  <2>2. b < cursor \/ b = cursor
    BY <1>1, <1>6, <2>1
  <2>3. CASE b < cursor
    <3>1. Good(file, b) /\ b + 4 + file.at[b].length <= cursor
      BY <2>3 DEF Passed
    <3> QED  BY <1>1, <1>6, <2>1, <3>1
  <2>4. CASE b = cursor
    BY <1>3, <1>6, <2>4
  <2> QED  BY <2>2, <2>3, <2>4
<1>7. \A c \in Nat : c = cursor + 4 + file.at[cursor].length => Passed(file, c)
  BY <1>6 DEF Passed
<1> QED  BY <1>5, <1>7

\* When no frame follows, all that can be reached has been passed.
LEMMA AllPassed ==
  ASSUME TypeOK, CursorOnFrame, Passed(file, cursor),
         cursor < file.total => ~FrameFits
  PROVE  UpTo(file, cursor) = Contents(file) /\ cursor \in 0..file.total
<1>1. /\ file \in Files /\ file.total \in Nat /\ cursor \in Nat
      /\ DOMAIN file.at \subseteq 0..(file.total - 4)
  BY FilesAssumption DEF TypeOK
<1>2. cursor <= file.total
  BY <1>1 DEF CursorOnFrame
<1>3. ASSUME NEW c \in Reached(file)
      PROVE  c < cursor
  <2>1. c \in DOMAIN file.at /\ Good(file, c) /\ c \in Nat /\ c <= file.total - 4
    BY <1>1, <1>3, ReachedFacts, FrameFacts
  <2>2. CASE cursor \in DOMAIN file.at
    <3>1. cursor <= file.total - 4
      BY <1>1, <2>2
    <3>2. ~Good(file, cursor)
      BY <1>1, <3>1 DEF FrameFits, Good
    <3>3. ~(cursor <= c)
      BY <1>3, <2>2, <3>2 DEF Reached
    <3> QED  BY <1>1, <2>1, <3>3
  <2>3. CASE file.total - 4 < cursor
    BY <1>1, <2>1, <2>3
  <2> QED  BY <2>2, <2>3 DEF CursorOnFrame
<1>4. ASSUME NEW m \in Contents(file)
      PROVE  m.at < cursor
  <2>1. PICK c \in Reached(file) : m \in Framed(file, c)
    BY <1>1, InContents
  <2>2. c \in DOMAIN file.at /\ Good(file, c) /\ c \in Nat /\ file.at[c].length \in Nat
    BY <1>1, ReachedFacts, FrameFacts
  <2>3. /\ m.at \in Nat /\ m.size \in Nat
        /\ m.at + 2 + m.size <= c + 4 + file.at[c].length
    BY <1>1, <2>1, <2>2, MessageFacts DEF Framed
  <2>4. c + 4 + file.at[c].length <= cursor
    BY <1>3, <2>2 DEF Passed
  <2> QED  BY <1>1, <2>2, <2>3, <2>4
<1> QED  BY <1>1, <1>2, <1>4 DEF UpTo

\* A step of the walk decodes the message at the position.
LEMMA MessageCaught ==
  ASSUME TypeOK, Walking, CursorOnFrame, AtBlock, Caught,
         WalkFrame, WalkMessage, UNCHANGED options
  PROVE  /\ IsDecoded(UpTo(file, cursor + 4 + offset'), type_allowed,
                      decoded_count', shown')
         /\ pc = "decode" /\ packet' = packet
<1> DEFINE p == file.at[cursor].packet
           s == Blocks(p)
           k == processed
           q == cursor + 4 + offset
           m == Message(p, cursor, k + 1)
           length == read_u16_big_endian(offset)
<1>1. /\ walking /\ MessageFollows /\ pc = "decode" /\ FrameFits
      /\ offset' = offset + 2 + length
      /\ decoded_count' = decoded_count + 1
      /\ packet' = packet
  BY DEF WalkFrame, WalkMessage, PassMessage, Walking
<1>2. /\ packet = p /\ packet.count # EndCount
      /\ Passed(file, cursor)
      /\ IsDecoded(UpTo(file, Position), type_allowed, decoded_count, shown)
  BY <1>1 DEF Caught
<1>3. /\ file \in Files /\ cursor \in Nat /\ packet \in RawPacket /\ packet # NoPacket
      /\ offset \in Nat /\ k \in Nat /\ index = k /\ decoded_count \in Nat
      /\ k < Len(s) /\ length = s[k + 1]
      /\ offset = HeaderLength + BlockStart(s, k + 1) - 1
  <2>1. /\ file \in Files /\ cursor \in Nat /\ offset \in Nat /\ k \in Nat
        /\ decoded_count \in Nat /\ packet \in RawPacket /\ packet # NoPacket
    BY <1>1, NoPacketAssumption DEF TypeOK, Walking
  <2>2. index = k /\ offset = HeaderLength + BlockStart(s, k + 1) - 1
    BY <1>2, <2>1 DEF Walking, AtBlock
  <2>3. k < Len(s) /\ length = s[k + 1]
    BY <1>1, <1>2, FollowsIfMore
  <2> QED  BY <2>1, <2>2, <2>3
<1>4. cursor \in Reached(file)
  BY <1>1, <1>2, FrameReached
<1>5. /\ After(file, cursor, k + 1) = After(file, cursor, k) + 2 + s[k + 1]
      /\ m.at = After(file, cursor, k) /\ m.at \in Nat
      /\ UpTo(file, After(file, cursor, k + 1)) =
           UpTo(file, After(file, cursor, k)) \cup {m}
  BY <1>2, <1>3, <1>4, WalkAdds
<1>6. After(file, cursor, k) = q
  <2>1. After(file, cursor, k) = cursor + 4 + (HeaderLength + BlockStart(s, k + 1) - 1)
    BY DEF After
  <2> HIDE DEF s, k
  <2> QED  BY <1>3, <2>1, Zenon
<1>7. Position = q
  BY <1>1 DEF Position
<1>8. /\ cursor \in DOMAIN file.at /\ Good(file, cursor)
      /\ HeaderLength \in Nat /\ Len(p.body) \in Nat /\ Len(s) \in Nat /\ s[k + 1] \in Nat
      /\ k + 1 \in 1..Len(s)
  <2>1. cursor \in DOMAIN file.at /\ Good(file, cursor)
    BY <1>3, <1>4, ReachedFacts
  <2>2. HeaderLength \in Nat /\ Len(p.body) \in Nat
    BY <1>3, <2>1, FrameFacts
  <2>3. s \in Seq(Nat) /\ Len(s) \in Nat
    BY <1>2, <1>3, BlocksFacts
  <2>4. k + 1 \in 1..Len(s)
    BY <1>3, <2>3
  <2> HIDE DEF s
  <2> QED  BY <2>1, <2>2, <2>3, <2>4, ElementType
<1> DEFINE b == BlockStart(s, k + 1)
<1>9. /\ b \in Nat /\ 1 <= b
      /\ m.size = s[k + 1] /\ m.size \in Nat
      /\ m.number = p.seq + (k + 1) - 1
      /\ m.size # 0 => m.type = p.body[b + 2]
  BY <1>3, <1>8, MessageFacts
<1>10. cursor + 4 + offset' = After(file, cursor, k + 1)
  <2> DEFINE z == s[k + 1]
             a == After(file, cursor, k + 1)
  <2>1. z \in Nat /\ offset' = offset + 2 + z /\ a = q + 2 + z
    BY <1>1, <1>3, <1>5, <1>6, <1>8
  <2> HIDE DEF z, a
  <2> QED  BY <1>3, <2>1 DEF a
<1>11. m.number = packet.seq + index
  <2>1. p.seq \in Nat
    BY <1>2, <1>3, PacketType
  <2> HIDE DEF m, p
  <2> QED  BY <1>2, <1>3, <1>9, <2>1
<1>12. m.size # 0 => m.type = ByteAt(offset + 2)
  <2>1. (offset + 2) - HeaderLength + 1 = b + 2
    <3> HIDE DEF b
    <3>1. offset = HeaderLength + b - 1
      BY <1>3 DEF b
    <3> QED  BY <1>8, <1>9, <3>1
  <2>2. ByteAt(offset + 2) = p.body[b + 2]
    <3> HIDE DEF b
    <3> QED  BY <1>2, <2>1 DEF ByteAt
  <2> QED  BY <1>9, <2>2
<1> HIDE DEF b, m
<1> DEFINE type == ByteAt(offset + 2)
<1>13. shown' = IF Shows(type, length)
                THEN Append(shown, <<packet.seq + index, type>>) ELSE shown
  <2>1. HeaderLength <= offset
    BY <1>1, <1>3 DEF Walking
  <2> QED  BY <1>3, <2>1, WalkShows
<1>14. Shows(type, length) <=> IsOf(m, type_allowed)
  <2>1. length = m.size /\ m.size \in Nat
    BY <1>3, <1>9
  <2> HIDE DEF length
  <2> QED  BY <1>12, <2>1 DEF Shows, IsOf
<1>15. shown' = IF IsOf(m, type_allowed) THEN Append(shown, Line(m)) ELSE shown
  <2>1. CASE IsOf(m, type_allowed)
    <3>1. m.size # 0
      BY <1>9, <2>1 DEF IsOf
    <3>2. Line(m) = <<packet.seq + index, ByteAt(offset + 2)>>
      BY <1>11, <1>12, <3>1 DEF Line
    <3>3. shown' = Append(shown, <<packet.seq + index, ByteAt(offset + 2)>>)
      BY <1>14, <1>13, <2>1
    <3> QED  BY <2>1, <3>2, <3>3
  <2>2. CASE ~IsOf(m, type_allowed)
    BY <1>14, <1>13, <2>2
  <2> QED  BY <2>1, <2>2
<1>16. \A y \in UpTo(file, q) : y.at \in Nat /\ y.at < m.at
  <2>1. m.at = q
    BY <1>5, <1>6
  <2>2. \A y \in UpTo(file, q) : y \in Contents(file) /\ y.at < q
    BY DEF UpTo
  <2> HIDE DEF q
  <2> QED  BY <1>3, <2>1, <2>2, FileAdds
<1> DEFINE B == UpTo(file, q)
<1>17. IsDecoded(B, type_allowed, decoded_count, shown)
  BY <1>2, <1>7
<1>18. IsDecoded(B \cup {m}, type_allowed, decoded_count + 1,
                 IF IsOf(m, type_allowed) THEN Append(shown, Line(m)) ELSE shown)
  <2>1. m.at \in Nat /\ \A y \in B : y.at \in Nat /\ y.at < m.at
    BY <1>5, <1>16
  <2> HIDE DEF B
  <2> QED  BY <1>3, <1>17, <2>1, OneMoreDecoded
<1>19. UpTo(file, cursor + 4 + offset') = B \cup {m}
  BY <1>5, <1>6, <1>10
<1> HIDE DEF B
<1> QED  BY <1>1, <1>15, <1>18, <1>19

\* Every step keeps up.
LEMMA StepCaught == IInv /\ AtBlock /\ Caught /\ [Next]_vars => Caught'
<1> SUFFICES ASSUME TypeOK, Walking, WithinPacket, CursorOnFrame, AtBlock, Caught,
                    [Next]_vars
             PROVE  Caught'
  BY DEF IInv
<1> DEFINE Done(q) == IsDecoded(UpTo(file, q), type_allowed, decoded_count, shown)
<1>1. /\ file \in Files /\ cursor \in Nat /\ offset \in Nat /\ HeaderLength \in Nat
      /\ file.total \in Nat
  BY FilesAssumption DEF TypeOK, HeaderLength
<1>2. pc \in {"open", "frame", "decode"} =>
        Passed(file, cursor) /\ Done(Position) /\ exit = -1
  BY DEF Caught
<1>3. CASE UNCHANGED vars
  BY <1>3 DEF Caught, Position, vars, options, walkVars
<1>4. CASE UNCHANGED options /\ OpenFails
  BY <1>4 DEF OpenFails, Return, Caught
<1>5. CASE UNCHANGED options /\ OpenFile
  <2>1. pc = "open" /\ pc' = "frame" /\ cursor' = cursor /\ file' = file
        /\ type_allowed' = type_allowed /\ decoded_count' = decoded_count
        /\ shown' = shown /\ exit' = exit
    BY <1>5 DEF OpenFile, options, walkVars
  <2>2. Position = cursor /\ Position' = cursor
    BY <2>1 DEF Position
  <2> QED  BY <1>2, <2>1, <2>2 DEF Caught
<1>6. CASE UNCHANGED options /\ FileEnds
  <2>1. /\ pc = "frame" /\ pc' = "done" /\ exit' = 0 /\ file' = file
        /\ type_allowed' = type_allowed /\ decoded_count' = decoded_count
        /\ shown' = shown
        /\ cursor < file.total => ~FrameFits
    BY <1>6 DEF FileEnds, Return, options, walkVars
  <2>2. Position = cursor /\ Passed(file, cursor) /\ Done(cursor)
    BY <1>2, <2>1 DEF Position
  <2>3. UpTo(file, cursor) = Contents(file) /\ cursor \in 0..file.total
    BY <2>1, <2>2, AllPassed
  <2> QED  BY <2>1, <2>2, <2>3 DEF Caught
<1>7. CASE UNCHANGED options /\ SkipFrame
  <2>1. /\ pc = "frame" /\ pc' = pc /\ FrameFits
        /\ file.at[cursor].packet.count \in {0, EndCount}
        /\ cursor' = cursor + 4 + file.at[cursor].length
        /\ file' = file /\ exit' = exit
        /\ type_allowed' = type_allowed /\ decoded_count' = decoded_count
        /\ shown' = shown
    BY <1>7 DEF SkipFrame, PassFrame, options, walkVars
  <2>2. Position = cursor /\ Passed(file, cursor) /\ Done(cursor) /\ exit = -1
    BY <1>2, <2>1 DEF Position
  <2>3. cursor \in Reached(file)
    BY <2>1, <2>2, FrameReached
  <2>4. cursor' \in Nat
    BY <1>1, <2>1, <2>3, ReachedFacts, FrameFacts
  <2>5. Passed(file, cursor')
    BY <2>1, <2>2, <2>4, FrameReached
  <2>6. UpTo(file, cursor') = UpTo(file, cursor)
    BY <1>1, <2>1, <2>3, FrameSkipped
  <2>7. Position' = cursor'
    BY <2>1 DEF Position
  <2> QED  BY <2>1, <2>2, <2>5, <2>6, <2>7 DEF Caught
<1>8. CASE UNCHANGED options /\ DecodeFrame
  <2>1. /\ pc = "frame" /\ pc' = "decode" /\ FrameFits
        /\ file.at[cursor].packet.count \notin {0, EndCount}
        /\ packet' = file.at[cursor].packet /\ offset' = HeaderLength
        /\ cursor' = cursor /\ file' = file /\ exit' = exit
        /\ type_allowed' = type_allowed /\ decoded_count' = decoded_count
        /\ shown' = shown
    BY <1>8 DEF DecodeFrame, Call, options
  <2>2. Position = cursor /\ Passed(file, cursor) /\ Done(cursor) /\ exit = -1
    BY <1>2, <2>1 DEF Position
  <2>3. cursor \in Reached(file)
    BY <2>1, <2>2, FrameReached
  <2>4. Position' = cursor + 4 + HeaderLength
    BY <2>1 DEF Position
  <2>5. UpTo(file, Position') = UpTo(file, cursor)
    BY <1>1, <2>3, <2>4, HeaderPassed
  <2> QED  BY <2>1, <2>2, <2>5 DEF Caught
<1>9. CASE UNCHANGED options /\ WalkFrame /\ WalkMessage
  <2>1. /\ IsDecoded(UpTo(file, cursor + 4 + offset'), type_allowed,
                     decoded_count', shown')
        /\ pc = "decode" /\ packet' = packet
    BY <1>9, MessageCaught
  <2>2. /\ pc' = pc /\ cursor' = cursor /\ file' = file /\ exit' = exit
        /\ type_allowed' = type_allowed
    BY <1>9 DEF WalkFrame, options
  <2>3. Position' = cursor + 4 + offset'
    BY <2>1, <2>2 DEF Position
  <2>4. packet = file.at[cursor].packet /\ packet.count \notin {0, EndCount}
    BY <2>1 DEF Caught
  <2> QED  BY <1>2, <2>1, <2>2, <2>3, <2>4 DEF Caught
<1>10. CASE UNCHANGED options /\ WalkFrame /\ WalkEnds
  <2>1. /\ pc = "decode" /\ pc' = pc /\ cursor' = cursor /\ file' = file /\ exit' = exit
        /\ type_allowed' = type_allowed /\ decoded_count' = decoded_count
        /\ shown' = shown /\ packet' = packet /\ offset' = offset
    BY <1>10 DEF WalkFrame, WalkEnds, options
  <2>2. Position' = Position
    BY <2>1 DEF Position
  <2>3. packet = file.at[cursor].packet /\ packet.count \notin {0, EndCount}
    BY <2>1 DEF Caught
  <2> QED  BY <1>2, <2>1, <2>2, <2>3 DEF Caught
<1>11. CASE UNCHANGED options /\ FrameDecoded
  <2>1. /\ pc = "decode" /\ ~walking /\ FrameFits /\ packet # NoPacket
        /\ cursor' = cursor + 4 + file.at[cursor].length
        /\ file' = file /\ stop_now' = stop_now
        /\ type_allowed' = type_allowed /\ decoded_count' = decoded_count
        /\ shown' = shown
    BY <1>11 DEF FrameDecoded, PassFrame, options, walkVars, Walking
  <2>2. /\ packet = file.at[cursor].packet
        /\ Passed(file, cursor) /\ Done(Position) /\ exit = -1
        /\ Position = cursor + 4 + offset
    BY <1>2, <2>1 DEF Position, Caught
  <2>3. cursor \in Reached(file)
    BY <2>1, <2>2, FrameReached
  <2>4. /\ file.at[cursor].length \in Nat
        /\ file.at[cursor].length = HeaderLength + Len(file.at[cursor].packet.body)
    BY <1>1, <2>3, ReachedFacts, FrameFacts
  <2>5. offset <= file.at[cursor].length
    BY <2>1, <2>2, <2>4 DEF WithinPacket, Size
  <2>6. CASE stop_now
    <3>1. pc' = "done" /\ exit' = 0
      BY <1>11, <2>6 DEF FrameDecoded, Return
    <3>2. Position \in 0..file.total
      <4> DEFINE length == file.at[cursor].length
      <4>1. /\ length \in Nat /\ offset <= length
            /\ cursor + 4 + length <= file.total
        BY <2>1, <2>4, <2>5 DEF FrameFits
      <4> HIDE DEF length
      <4> QED  BY <1>1, <2>2, <4>1
    <3> QED  BY <2>1, <2>2, <2>6, <3>1, <3>2 DEF Caught
  <2>7. CASE ~stop_now
    <3>1. pc' = "frame" /\ exit' = exit
      BY <1>11, <2>7 DEF FrameDecoded
    <3>2. /\ processed = Len(Blocks(packet))
          /\ offset = HeaderLength + BlockStart(Blocks(packet), processed + 1) - 1
      BY <2>1, <2>7 DEF AtBlock
    <3>3. Position = After(file, cursor, Len(Blocks(file.at[cursor].packet)))
      BY <2>2, <3>2, Zenon DEF After
    <3>4. Position <= cursor + 4 + file.at[cursor].length
      BY <1>1, <2>2, <2>4, <2>5, SMTT(20)
    <3>5. UpTo(file, cursor') = UpTo(file, Position)
      BY <1>1, <2>1, <2>3, <3>3, <3>4, FrameEnds
    <3>6. cursor' \in Nat
      <4> DEFINE length == file.at[cursor].length
      <4>1. length \in Nat /\ cursor' = cursor + 4 + length
        BY <2>1, <2>4
      <4> HIDE DEF length
      <4> QED  BY <1>1, <4>1
    <3>7. Passed(file, cursor')
      BY <2>1, <2>2, <3>6, FrameReached
    <3>8. Position' = cursor'
      BY <3>1 DEF Position
    <3> QED  BY <2>1, <2>2, <3>1, <3>5, <3>7, <3>8 DEF Caught
  <2> QED  BY <2>6, <2>7
<1> QED  BY <1>3, <1>4, <1>5, <1>6, <1>7, <1>8, <1>9, <1>10, <1>11
         DEF Next, Decode, Terminated, WalkFrame, Walk

\* decode_file has always decoded what it has come past, and nothing else.
THEOREM DecodesAsItGoes == Spec => []Progress
BY InitCaught, StepCaught, ProgressHere, Invariance, WalkOnBlocks, PTL DEF Spec

\* Whatever file, filter and limit: what decode_file prints when it returns 0
\* is the messages of the file, the first -n of them, in the order they lie in
\* and each with its number; none is left out, none printed twice.
THEOREM DecodesTheFile == Spec => []FileDecoded
<1>1. ASSUME TypeOK, Walking, Caught, exit = 0
      PROVE  Printed(Wanted(First(Contents(file))))
  <2>1. PICK q \in 0..file.total :
          /\ IsDecoded(UpTo(file, q), type_allowed, decoded_count, shown)
          /\ stop_now \/ UpTo(file, q) = Contents(file)
    BY <1>1 DEF Caught
  <2>2. /\ file \in Files /\ file.total \in Nat /\ max_messages \in Nat
        /\ decoded_count \in Nat
    BY <1>1, FilesAssumption, WalkAssumption DEF TypeOK
  <2>3. q \in Nat
    BY <2>2
  <2>4. /\ stop_now => max_messages # 0 /\ decoded_count = max_messages
        /\ ~stop_now /\ max_messages # 0 => decoded_count < max_messages
    BY <1>1 DEF Walking
  <2> DEFINE B == UpTo(file, q)
  <2>5. Cardinality(B) = decoded_count
    BY <2>1 DEF IsDecoded
  <2>6. \/ B = Contents(file) /\ (max_messages # 0 => Cardinality(B) < max_messages)
        \/ max_messages # 0 /\ Cardinality(B) = max_messages
    BY <2>1, <2>4, <2>5
  <2>7. First(Contents(file)) = B
    BY <2>2, <2>3, <2>5, <2>6, FirstAreDecoded
  <2> HIDE DEF B
  <2>8. Wanted(B) = Of(B, type_allowed)
    BY DEF Wanted, Of, IsOf
  <2>9. shown = Lines(ByPlace(Of(B, type_allowed)))
    BY <2>1 DEF IsDecoded, B
  <2> QED  BY <2>7, <2>8, <2>9 DEF Printed, Lines, Line
<1>2. IInv /\ Progress => FileDecoded
  BY <1>1, ProgressHere DEF IInv, FileDecoded
<1> QED  BY <1>2, Invariance, DecodesAsItGoes, PTL
=============================================================================
