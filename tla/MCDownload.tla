----------------------------- MODULE MCDownload -----------------------------
(***************************************************************************)
(* Small instances of Download for TLC.                                    *)
(***************************************************************************)
EXTENDS Download

Runt(s)  == [kind |-> "runt",  session |-> s, seq |-> 0, count |-> 0, fit |-> 0]
Empty(s) == [kind |-> "empty", session |-> s, seq |-> 0, count |-> 0, fit |-> 0]

\* What the probe may find: a packet, a heartbeat, the end of a session or
\* something without a header.
ProbeFeed ==
  {Packet(s, 1, n) : s \in Sessions, n \in {0, 1}} \cup {Runt(s) : s \in Sessions}
    \cup {[kind |-> "mold", session |-> s, seq |-> Last + 1,
           count |-> EndCount, fit |-> 0] : s \in Sessions}

\* Runts, heartbeats, a packet cut before its first message, and empty
\* datagrams on the way back from the server.
NoNoise == {}
Idle ==
  UNION {{Runt(s), Packet(s, 1, 0),
          [kind |-> "mold", session |-> s, seq |-> 1, count |-> 1, fit |-> 0]}
         : s \in Sessions}
AllNoise == Idle \cup {Empty(s) : s \in Sessions}
=============================================================================
