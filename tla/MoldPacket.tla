----------------------------- MODULE MoldPacket -----------------------------
(***************************************************************************)
(* What the receive loops of application.cpp see of one UDP datagram: the  *)
(* header parse_mold_header reads from it, how many of the announced       *)
(* message blocks it really carries, and what decode_packet_messages does  *)
(* with it.  Payloads are left out: no loop looks at them.                 *)
(***************************************************************************)
EXTENDS Integers

CONSTANTS
  Sessions,     \* the 10-byte session names
  EndCount      \* the message count 0xFFFF, "end of session"

ASSUME EndCountAssumption == EndCount \in Nat \ {0}

(***************************************************************************)
(* A datagram is "empty" (recvfrom returns 0), a "runt" (too short for a   *)
(* header; the remaining fields mean nothing then) or a "mold" packet.     *)
(* fit is the number of leading blocks next_mold_message can walk: less    *)
(* than count when the datagram ends before its last announced block.      *)
(***************************************************************************)
Datagram ==
  {d \in [kind: {"mold", "runt", "empty"}, session: Sessions,
          seq: Nat, count: 0..EndCount, fit: 0..EndCount] : d.fit <= d.count}

\* A well-formed packet of n whole messages, or a heartbeat if n = 0.
Packet(s, a, n) ==
  [kind |-> "mold", session |-> s, seq |-> a, count |-> n, fit |-> n]

\* The smaller of two numbers.
Least(a, b) == IF a <= b THEN a ELSE b

parse_mold_header(d) == d.kind = "mold"

\* "(uint16_t)header.message_count == 0xFFFF"
IsEndSession(d) == d.count = EndCount

(***************************************************************************)
(* limit is max_messages, the option -n; 0 means none.  The limit is       *)
(* tested after a message has been counted, so a call of                   *)
(* decode_packet_messages that walks anything walks at least one.          *)
(***************************************************************************)
Room(decoded_count, limit) ==
  IF decoded_count < limit THEN limit - decoded_count ELSE 1

\* The value decode_packet_messages returns.
Processed(d, decoded_count, limit) ==
  IF ~parse_mold_header(d) THEN 0
  ELSE IF limit = 0 THEN d.fit
  ELSE Least(d.fit, Room(decoded_count, limit))

\* Mutant: the index is incremented before it is added.
NumbersAfterIncrement(d, decoded_count, limit) ==
  (d.seq + 1)..(d.seq + Processed(d, decoded_count, limit))

\* The numbers it gives to the messages it walks.
Numbers(d, decoded_count, limit) ==
  d.seq..(d.seq + Processed(d, decoded_count, limit) - 1)

(***************************************************************************)
(* decoded_count after the call.  The loops read it against the limit and  *)
(* nowhere else, so it is not counted when there is none.                  *)
(***************************************************************************)
Tally(d, decoded_count, limit) ==
  IF limit = 0 THEN decoded_count
  ELSE decoded_count + Processed(d, decoded_count, limit)

\* The value it leaves in stop_now.
StopsAt(d, decoded_count, limit) ==
  /\ limit # 0
  /\ Processed(d, decoded_count, limit) > 0
  /\ Tally(d, decoded_count, limit) >= limit
=============================================================================
