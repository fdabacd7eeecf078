----------------------------- MODULE PacketWalk -----------------------------
(***************************************************************************)
(* One call of decode_packet_messages, byte by byte as far as the walk     *)
(* from block to block goes: next_mold_message, the type filter and the    *)
(* limit.  MoldPacket says in one step what such a call comes to.          *)
(***************************************************************************)
EXTENDS MoldPacket, Sequences

CONSTANTS
  Limits,       \* the values of -n to consider; 0 means no limit
  Filters,      \* the sets of --type options to consider; {} means no filter
  NoPacket      \* nothing yet

ASSUME WalkAssumption ==
  /\ Limits \subseteq Nat
  /\ Filters \subseteq SUBSET (0..255)

HeaderLength == 10 + 8 + 2

\* A packet with a whole header; body is the bytes that follow it.
RawPacket == [session: Sessions, seq: Nat, count: 0..EndCount, body: Seq(0..255)]

ASSUME NoPacketAssumption == NoPacket \notin RawPacket

VARIABLES
  max_messages, type_allowed,         \* the options
  packet,                             \* the argument of the call
  walking,                            \* the call has not returned
  offset, remaining, index, processed, decoded_count, stop_now,
  before,       \* history: decoded_count when the call began
  read,         \* history: one behind the last byte of buffer that was read
  shown         \* history: <<number, type>> of each message printed

options == <<max_messages, type_allowed>>
walkVars == <<packet, walking, offset, remaining, index, processed,
              decoded_count, stop_now, before, read, shown>>

WalkInit ==
  /\ max_messages \in Limits
  /\ type_allowed \in Filters
  /\ packet = NoPacket
  /\ walking = FALSE
  /\ offset = 0 /\ remaining = 0 /\ index = 0 /\ processed = 0
  /\ decoded_count = 0
  /\ stop_now = FALSE
  /\ before = 0
  /\ read = 0
  /\ shown = <<>>

Call(p) ==
  /\ ~walking
  /\ walking' = TRUE
  /\ packet' = p
  /\ offset' = HeaderLength
  /\ remaining' = p.count
  /\ index' = 0
  /\ processed' = 0
  /\ stop_now' = FALSE
  /\ before' = decoded_count
  /\ read' = HeaderLength
  /\ UNCHANGED <<decoded_count, shown>>

Size == HeaderLength + Len(packet.body)

ByteAt(pos) == packet.body[pos - HeaderLength + 1]

read_u16_big_endian(pos) == 256 * ByteAt(pos) + ByteAt(pos + 1)

\* Mutant: a block that ends with the packet is taken for a truncated one.
EndsBefore ==
  /\ remaining # 0
  /\ offset + 2 <= Size
  /\ offset + 2 + read_u16_big_endian(offset) < Size

\* Mutant: the number of messages left is not looked at.
BytesRemain ==
  offset + 2 <= Size /\ offset + 2 + read_u16_big_endian(offset) <= Size

\* Mutant: a block need not be as long as it says.
LengthFollows == remaining # 0 /\ offset + 2 <= Size

\* next_mold_message returns true.
MessageFollows ==
  /\ remaining # 0
  /\ offset + 2 <= Size
  /\ offset + 2 + read_u16_big_endian(offset) <= Size

\* What buffer may hold at pos: behind the packet a byte of an earlier or a
\* later one or, behind the end of buffer, anything.
Found(pos) == IF pos < Size THEN {ByteAt(pos)} ELSE 0..255

\* The filter looks at the type byte before decode_itch_message looks at the
\* length, so that it also looks at the byte behind an empty message.
Shows(type, length) ==
  /\ type_allowed = {} \/ type \in type_allowed
  /\ length > 0

PassMessage(length) == offset' = offset + 2 + length

WalkMessage ==
  LET length == read_u16_big_endian(offset)
      msg == offset + 2
  IN
  /\ walking
  /\ MessageFollows
  /\ \E type \in Found(msg) :
       shown' = IF Shows(type, length)
                THEN Append(shown, <<packet.seq + index, type>>) ELSE shown
  /\ read' = IF type_allowed # {} \/ length > 0 THEN msg + 1 ELSE msg
  /\ PassMessage(length)
  /\ remaining' = remaining - 1
  /\ index' = index + 1
  /\ processed' = processed + 1
  /\ decoded_count' = decoded_count + 1
  /\ stop_now' = (max_messages # 0 /\ decoded_count' >= max_messages)
  /\ walking' = ~stop_now'
  /\ UNCHANGED <<packet, before>>

\* The length of a block is read even if the block does not fit.
WalkEnds ==
  /\ walking
  /\ ~MessageFollows
  /\ walking' = FALSE
  /\ read' = IF remaining # 0 /\ offset + 2 <= Size THEN offset + 2 ELSE read
  /\ UNCHANGED <<packet, offset, remaining, index, processed, decoded_count,
                 stop_now, before, shown>>

Walk == WalkMessage \/ WalkEnds
=============================================================================
