----------------------------- MODULE MCLiveFeed -----------------------------
(***************************************************************************)
(* Small instances of LiveFeed for TLC.                                    *)
(***************************************************************************)
EXTENDS LiveFeed

CONSTANTS
  MaxSeq,       \* the last message of the feed
  MaxCount      \* messages in a multicast packet, at most

Runt(s)  == [kind |-> "runt",  session |-> s, seq |-> 0, count |-> 0, fit |-> 0]
Empty(s) == [kind |-> "empty", session |-> s, seq |-> 0, count |-> 0, fit |-> 0]
EndOfSession(s) ==
  [kind |-> "mold", session |-> s, seq |-> MaxSeq + 1,
   count |-> EndCount, fit |-> 0]

\* Every way of cutting 1..MaxSeq into packets, and the heartbeats between.
WholePackets ==
  {p \in {Packet(s, a, n) : s \in Sessions, a \in 1..(MaxSeq + 1),
                            n \in 0..MaxCount} :
     p.seq + p.count <= MaxSeq + 1}

\* Packets that end before their last announced message.
CutPackets ==
  {[p EXCEPT !.fit = p.count - 1] : p \in {q \in WholePackets : q.count > 1}}

AllFeed ==
  WholePackets \cup CutPackets \cup {Runt(s) : s \in Sessions}
    \cup {EndOfSession(s) : s \in Sessions}

\* Heartbeats and empty datagrams on the way back from the server.
NoNoise == {}
Heartbeats == {Packet(s, 1, 0) : s \in Sessions}
AllNoise == Heartbeats \cup {Empty(s) : s \in Sessions}
=============================================================================
