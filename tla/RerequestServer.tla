--------------------------- MODULE RerequestServer ---------------------------
(***************************************************************************)
(* The retransmission server and the unicast path back from it.  Neither   *)
(* is in the repository: this module says what the client assumes of them. *)
(* A request for n messages of session s from number a is answered with a  *)
(* sequence of datagrams, read in that order from the client's socket.     *)
(***************************************************************************)
EXTENDS MoldPacket, Sequences

CONSTANTS
  Server,       \* how much of a request comes back: see Answers
  PerPacket,    \* messages the server puts into one packet, at most
  MaxReplies,   \* datagrams that answer one request, at most
  Last,         \* the last message the server has
  Noise         \* datagrams without a message that may come in between

\* A datagram from which decode_packet_messages takes a message.
Carries(d) == parse_mold_header(d) /\ d.fit > 0

\* An empty datagram reads as a second of silence, so that a server with it
\* among its noise is not prompt.
ASSUME ServerAssumption ==
  /\ Server \in {"prompt", "any"}
  /\ PerPacket \in Nat /\ PerPacket < EndCount
  /\ MaxReplies \in Nat
  /\ Last \in Nat
  /\ Noise \subseteq Datagram
  /\ \A d \in Noise : ~Carries(d)
  /\ Server = "prompt" => \A d \in Noise : d.kind # "empty"

\* Packets that carry nothing but requested messages the server has.
ReplyPackets(s, a, n) ==
  {p \in {Packet(s, b, c) : b \in a..(a + n), c \in 1..PerPacket} :
     p.seq + p.count <= Least(a + n, Last + 1)}

\* Every sequence of such packets and noise: replies may be lost, repeated,
\* reordered, or split in any way.
Scripts(s, a, n) ==
  UNION {[1..k -> ReplyPackets(s, a, n) \cup Noise] : k \in 0..MaxReplies}

\* The number that follows the last message among the first i datagrams of
\* ans, an answer to a request from a, for each i.
Position(ans, a) ==
  LET at[i \in 0..Len(ans)] ==
        IF i = 0 THEN a
        ELSE IF Carries(ans[i]) THEN ans[i].seq + ans[i].fit ELSE at[i - 1]
  IN at

Reach(ans, a) == Position(ans, a)[Len(ans)]

\* Each packet begins where the one before it ends.
InStep(ans, a) ==
  LET at == Position(ans, a)
  IN \A i \in 1..Len(ans) : Carries(ans[i]) => ans[i].seq = at[i - 1]

(***************************************************************************)
(* "any"     whatever the network makes of the server's packets            *)
(* "prompt"  in order and in time, but the server may stop anywhere        *)
(***************************************************************************)
Answers(s, a, n) ==
  {ans \in Scripts(s, a, n) : Server = "prompt" => InStep(ans, a)}

\* The number after the last message of such a request that the server has.
AnswerEnd(a, n) == IF a > Last THEN a ELSE Least(a + n, Last + 1)

\* The answer is in order, and all of what was asked for that the server has.
Full(ans, a, n) == Server = "prompt" /\ Reach(ans, a) = AnswerEnd(a, n)
-----------------------------------------------------------------------------
(***************************************************************************)
(* What the inductive invariants of the two loops say of the datagrams     *)
(* that are still on their way.                                            *)
(***************************************************************************)

\* Read in turn, they bring the numbers from first to next - 1, each once and
\* in order: there is a position before and after each of them.
Conveys(queue, first, next) ==
  \E at \in [0..Len(queue) -> first..next] :
    /\ at[0] = first
    /\ at[Len(queue)] = next
    /\ \A i, j \in 0..Len(queue) : i <= j => at[i] <= at[j]
    /\ \A i \in 1..Len(queue) :
         IF Carries(queue[i])
         THEN queue[i].seq = at[i - 1] /\ at[i] = at[i - 1] + queue[i].fit
         ELSE at[i] = at[i - 1]

\* None of them reads as silence, and their messages are of session s and
\* among those the server has.
FromServer(queue, s) ==
  \A i \in 1..Len(queue) :
    /\ queue[i].kind # "empty"
    /\ Carries(queue[i]) =>
         queue[i].session = s /\ queue[i].seq + queue[i].fit <= Last + 1

\* There is no message among them.
BringsNothing(queue) == \A i \in 1..Len(queue) : ~Carries(queue[i])
=============================================================================
