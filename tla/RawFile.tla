------------------------------ MODULE RawFile ------------------------------
(***************************************************************************)
(* decode_file, the mode -d: a file of packets, each behind its length in  *)
(* four bytes, decoded one after the other until the first that does not   *)
(* fit, the end, or the limit.                                             *)
(***************************************************************************)
EXTENDS PacketWalk

(***************************************************************************)
(* A file has total bytes; at[c] is what they say from offset c on: a      *)
(* length and, if it is long enough for one, the packet.  at is defined    *)
(* wherever the loop may look for a length: at the beginning, and behind   *)
(* each whole frame, as far as four bytes are left there.  Frames do not   *)
(* overlap.                                                                *)
(***************************************************************************)
CONSTANT Files

ASSUME FilesAssumption ==
  \A f \in Files :
    /\ f.total \in Nat \ {0}
    /\ DOMAIN f.at \subseteq 0..(f.total - 4)
    /\ \A c \in DOMAIN f.at :
         /\ f.at[c].length \in Nat
         /\ f.at[c].length >= HeaderLength =>
              /\ f.at[c].packet \in RawPacket
              /\ f.at[c].length = HeaderLength + Len(f.at[c].packet.body)
              /\ c + 4 + f.at[c].length + 4 <= f.total =>
                   c + 4 + f.at[c].length \in DOMAIN f.at
    /\ \A b, c \in DOMAIN f.at : b < c => b + 4 + f.at[b].length <= c
    /\ 4 <= f.total => 0 \in DOMAIN f.at

VARIABLES
  file,
  pc,           \* "open", "frame", "decode" or "done"
  exit,         \* -1 while it runs, then what decode_file returns
  cursor, packet_count

vars == <<options, walkVars, file, pc, exit, cursor, packet_count>>

Init ==
  /\ WalkInit
  /\ file \in Files
  /\ pc = "open"
  /\ exit = -1
  /\ cursor = 0
  /\ packet_count = 0

Return(status) == pc' = "done" /\ exit' = status

\* The file cannot be opened, is empty, or cannot be read.
OpenFails ==
  /\ pc = "open"
  /\ Return(1)
  /\ UNCHANGED <<walkVars, file, cursor, packet_count>>

OpenFile ==
  /\ pc = "open"
  /\ pc' = "frame"
  /\ UNCHANGED <<walkVars, exit, file, cursor, packet_count>>

\* Mutant: a packet that ends with the file is taken for a truncated one.
FrameFitsBefore ==
  /\ cursor + 4 <= file.total
  /\ file.at[cursor].length >= HeaderLength
  /\ cursor + 4 + file.at[cursor].length < file.total

\* None of the breaks: a length prefix, a length that holds a header, and as
\* many bytes as it says.
FrameFits ==
  /\ cursor + 4 <= file.total
  /\ file.at[cursor].length >= HeaderLength
  /\ cursor + 4 + file.at[cursor].length <= file.total

\* The end of the file, or one of the breaks.
FileEnds ==
  /\ pc = "frame"
  /\ cursor < file.total => ~FrameFits
  /\ Return(0)
  /\ UNCHANGED <<walkVars, file, cursor, packet_count>>

\* Mutant: the prefix is not passed over.
PassBodyOnly ==
  /\ cursor' = cursor + file.at[cursor].length
  /\ packet_count' = packet_count + 1

PassFrame ==
  /\ cursor' = cursor + 4 + file.at[cursor].length
  /\ packet_count' = packet_count + 1

\* Mutant: the cursor stays where it is.
SkipFrameInPlace ==
  /\ pc = "frame"
  /\ cursor < file.total /\ FrameFits
  /\ file.at[cursor].packet.count \in {0, EndCount}
  /\ UNCHANGED vars

\* The end of a session and heartbeats are passed over.
SkipFrame ==
  /\ pc = "frame"
  /\ cursor < file.total /\ FrameFits
  /\ file.at[cursor].packet.count \in {0, EndCount}
  /\ PassFrame
  /\ UNCHANGED <<walkVars, file, pc, exit>>

DecodeFrame ==
  /\ pc = "frame"
  /\ cursor < file.total /\ FrameFits
  /\ file.at[cursor].packet.count \notin {0, EndCount}
  /\ Call(file.at[cursor].packet)
  /\ pc' = "decode"
  /\ UNCHANGED <<exit, file, cursor, packet_count>>

WalkFrame ==
  /\ pc = "decode"
  /\ Walk
  /\ UNCHANGED <<file, pc, exit, cursor, packet_count>>

\* Mutant: the limit does not end the loop.
FrameDecodedGoesOn ==
  /\ pc = "decode"
  /\ ~walking
  /\ PassFrame
  /\ pc' = "frame"
  /\ UNCHANGED <<walkVars, file, exit>>

FrameDecoded ==
  /\ pc = "decode"
  /\ ~walking
  /\ PassFrame
  /\ IF stop_now THEN Return(0) ELSE pc' = "frame" /\ UNCHANGED exit
  /\ UNCHANGED <<walkVars, file>>

Decode ==
  /\ UNCHANGED options
  /\ \/ OpenFails
     \/ OpenFile
     \/ FileEnds
     \/ SkipFrame
     \/ DecodeFrame
     \/ WalkFrame
     \/ FrameDecoded

Terminated == pc = "done" /\ UNCHANGED vars

Next == Decode \/ Terminated

Spec == Init /\ [][Next]_vars

\* Nothing in decode_file waits.
FairSpec == Spec /\ WF_vars(Decode)
-----------------------------------------------------------------------------
(***************************************************************************)
(* Properties.                                                             *)
(***************************************************************************)

\* The variables hold values of their C++ types.
TypeOK ==
  /\ max_messages \in Limits
  /\ type_allowed \in Filters
  /\ packet \in RawPacket \cup {NoPacket}
  /\ walking \in BOOLEAN
  /\ offset \in Nat
  /\ remaining \in Nat
  /\ index \in Nat
  /\ processed \in Nat
  /\ decoded_count \in Nat
  /\ stop_now \in BOOLEAN
  /\ before \in Nat
  /\ read \in Nat
  /\ shown \in Seq(Nat \X (0..255))
  /\ file \in Files
  /\ pc \in {"open", "frame", "decode", "done"}
  /\ exit \in {-1, 0, 1}
  /\ cursor \in Nat
  /\ packet_count \in Nat

\* Whatever lengths the blocks announce, no byte behind the packet is read,
\* but for one: given --type, the filter looks for the type of an empty
\* message, and where that ends the packet it finds the byte behind it.
ReadsInPacket ==
  packet # NoPacket =>
    \/ read <= Size
    \/ type_allowed # {} /\ processed > 0 /\ offset = Size /\ read = Size + 1

\* The cursor is always at the beginning of a frame or where the last one
\* ends, so that a length is never read out of the middle of a packet.
CursorOnFrame ==
  \/ cursor \in DOMAIN file.at
  \/ file.total - 4 < cursor /\ cursor <= file.total

\* -n: never more than that many messages, and reaching it ends the program.
LimitEnds ==
  max_messages # 0 =>
    /\ decoded_count <= max_messages
    /\ pc = "frame" => decoded_count < max_messages

\* decode_file comes to an end on every file.
FileDone == <>(pc = "done")

\* "-n <count> stops after decoding <count> msg": when the limit has stopped
\* it, that many messages have been decoded and printed.
StopsAfterDecoding ==
  pc = "done" /\ stop_now => Len(shown) = max_messages
-----------------------------------------------------------------------------
(***************************************************************************)
(* The inductive invariant behind the safety properties.                   *)
(***************************************************************************)

\* The walk stays in the packet.
WithinPacket == packet # NoPacket => offset <= Size

\* During a call, the counters of the walk add up, and it has stopped if the
\* limit is reached.
Walking ==
  /\ pc = "decode" => packet # NoPacket /\ cursor < file.total /\ FrameFits
  /\ walking => pc = "decode" /\ ~stop_now
  /\ packet # NoPacket =>
       /\ HeaderLength <= offset
       /\ index = processed
       /\ processed + remaining = packet.count
       /\ decoded_count = before + processed
  /\ stop_now => max_messages # 0 /\ decoded_count = max_messages
  /\ ~stop_now /\ max_messages # 0 => decoded_count < max_messages
  /\ pc \in {"open", "frame"} => ~stop_now

IInv == TypeOK /\ CursorOnFrame /\ WithinPacket /\ Walking

\* Between two blocks nothing has been read behind the first, but for the
\* byte that follows an empty one.
ReadBehind ==
  walking =>
    \/ read <= offset
    \/ type_allowed # {} /\ processed > 0 /\ read = offset + 1
=============================================================================
