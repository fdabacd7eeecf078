----------------------------- MODULE RawFormat -----------------------------
(***************************************************************************)
(* What a raw file means, said from the side of who wrote it, and what     *)
(* decode_file makes of it.                                                *)
(***************************************************************************)
EXTENDS RawFile, Listing, SequencesExt

\* The bytes of blocks of these lengths, whatever is in them, begin at these
\* places of the body; the last is where the next block would begin.
Starts(lengths) ==
  LET start[i \in 1..(Len(lengths) + 1)] ==
        IF i = 1 THEN 1 ELSE start[i - 1] + 2 + lengths[i - 1]
  IN start

BlockStart(lengths, i) == Starts(lengths)[i]

\* body begins with whole blocks of these lengths.
Carries(body, lengths) ==
  \A i \in DOMAIN lengths :
    LET b == BlockStart(lengths, i) IN
    /\ b + 1 + lengths[i] <= Len(body)
    /\ body[b] = lengths[i] \div 256
    /\ body[b + 1] = lengths[i] % 256

\* The blocks of a packet: as many of those it announces as it holds whole.
Some(p) == {s \in SeqOf(0..Len(p.body), p.count) : Carries(p.body, s)}

Blocks(p) == CHOOSE s \in Some(p) : \A t \in Some(p) : Len(t) <= Len(s)

\* The packet as the receive loops see it.
Seen(p) ==
  [kind |-> "mold", session |-> p.session, seq |-> p.seq, count |-> p.count,
   fit |-> Len(Blocks(p))]

\* The i-th message of the packet in the frame at c: the place of its block in
\* the file, its number, its type and its size; an empty one has no type.
Message(p, c, i) ==
  LET s == Blocks(p)
      b == BlockStart(s, i)
  IN [at |-> c + 4 + HeaderLength + b - 1,
      number |-> p.seq + i - 1,
      type |-> IF s[i] = 0 THEN -1 ELSE p.body[b + 2],
      size |-> s[i]]

\* A frame that is long enough and all there.
Good(f, c) ==
  /\ f.at[c].length >= HeaderLength
  /\ c + 4 + f.at[c].length <= f.total

\* The frames up to the first that is not.
Reached(f) ==
  {c \in DOMAIN f.at : \A b \in DOMAIN f.at : b <= c => Good(f, b)}

\* Every message of a file, those of an end-of-session packet left out.
Contents(f) ==
  UNION {{Message(f.at[c].packet, c, i) : i \in DOMAIN Blocks(f.at[c].packet)} :
           c \in {b \in Reached(f) : f.at[b].packet.count # EndCount}}

\* decode_packet_messages comes to what MoldPacket says of it: the receive
\* loops may be modelled with that alone.
WalkMatches ==
  packet # NoPacket /\ ~walking =>
    /\ processed = Processed(Seen(packet), before, max_messages)
    /\ stop_now = StopsAt(Seen(packet), before, max_messages)

\* Those with a type that was asked for.
Wanted(messages) ==
  {m \in messages :
     m.size > 0 /\ (type_allowed = {} \/ m.type \in type_allowed)}

\* The first -n messages of a file, or all.
First(all) ==
  {m \in all : max_messages # 0 =>
                 Cardinality({l \in all : l.at < m.at}) < max_messages}

\* These messages are printed, each with its number, as they lie in the file.
Printed(messages) ==
  LET o == ByPlace(messages)
  IN shown = [k \in DOMAIN o |-> <<o[k].number, o[k].type>>]

\* What is printed of a file is what is in it, in order and each with its
\* number: of its first -n messages, those of the types asked for.
FileDecoded == exit = 0 => Printed(Wanted(First(Contents(file))))
-----------------------------------------------------------------------------
(***************************************************************************)
(* The invariants behind the two.                                          *)
(***************************************************************************)

\* The walk is at a block of the packet, and stops where they end or at the
\* limit.
AtBlock ==
  packet # NoPacket =>
    LET s == Blocks(packet) IN
    /\ processed <= Len(s)
    /\ offset = HeaderLength + BlockStart(s, processed + 1) - 1
    /\ walking \/ stop_now \/ processed = Len(s)
    /\ max_messages # 0 => before < max_messages

\* How far into the file decode_file has come.
Position == IF pc = "decode" THEN cursor + 4 + offset ELSE cursor

Before(q) == {m \in Contents(file) : m.at < q}

\* What lies before q has been decoded, and nothing else.
DecodedUpTo(q) ==
  /\ IsFiniteSet(Before(q))
  /\ Cardinality(Before(q)) = decoded_count
  /\ Lists(ByPlace(Wanted(Before(q))), Wanted(Before(q)))
  /\ Printed(Wanted(Before(q)))

Progress ==
  /\ pc = "decode" => packet = file.at[cursor].packet
                      /\ packet.count \notin {0, EndCount}
  /\ pc \in {"open", "frame", "decode"} =>
       /\ \A b \in DOMAIN file.at :
            b < cursor => Good(file, b) /\ b + 4 + file.at[b].length <= cursor
       /\ DecodedUpTo(Position)
       /\ exit = -1
  /\ exit = 0 =>
       \E q \in 0..file.total :
         DecodedUpTo(q) /\ (stop_now \/ Before(q) = Contents(file))
=============================================================================
