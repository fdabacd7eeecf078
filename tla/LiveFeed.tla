------------------------------ MODULE LiveFeed ------------------------------
(***************************************************************************)
(* Live mode of the receiver: the loop at the end of Application::run,     *)
(* check_sequence_gap, and gap_fill with the Rerequester it drives.  The   *)
(* program is one thread, so a step here runs from one socket call to the  *)
(* next; what varies is what the calls return.  The multicast socket may   *)
(* return any datagram of Feed at any time, which covers loss, repetition  *)
(* and reordering on the way.                                              *)
(***************************************************************************)
EXTENDS RerequestServer

CONSTANTS
  Feed,               \* datagrams the multicast socket may return
  Limits,             \* the values of -n to consider; 0 means no limit
  MaxPerRequest,      \* max_per_request
  ReplyBuffer,        \* datagrams the reply socket can hold
  NoSession, NoHeader \* nothing yet

ASSUME LiveAssumption ==
  /\ Feed \subseteq Datagram
  /\ Limits \subseteq Nat
  /\ MaxPerRequest \in Nat \ {0}
  /\ ReplyBuffer \in Nat
  /\ NoSession \notin Sessions
  /\ NoHeader \notin Datagram

VARIABLES
  enable_recovery, max_messages,      \* the options -g and -n
  pc,                 \* "recv", "ask", "await", "resume" or "done"
  current_session, joined, expected_seq,
  decoded_count,
  header,             \* the packet that revealed the gap being filled
  current_seq, remaining,             \* gap_fill: next number, how many more
  req_count, got_in_chunk, timeouts,  \* gap_fill: the request under way
  errno,              \* "again" (EAGAIN, EWOULDBLOCK) or "other"
  replies,            \* datagrams on their way to the reply socket
  out                 \* history: what this stay in the session has printed

options == <<enable_recovery, max_messages>>
tracking == <<current_session, joined, expected_seq>>
chunk == <<req_count, got_in_chunk, timeouts>>
gap == <<header, current_seq, remaining, chunk>>
vars == <<options, pc, tracking, decoded_count, gap, errno, replies, out>>

(***************************************************************************)
(* out.first is the number the stay began with, out.live the numbers       *)
(* printed from the multicast, out.filled those printed from replies; a    *)
(* number printed again goes to out.again if both times came from the      *)
(* multicast, and to out.refilled otherwise.  out.whole says that no       *)
(* packet of the stay was cut and every request was answered in full.      *)
(***************************************************************************)
History ==
  [first: Nat, live: SUBSET Nat, filled: SUBSET Nat, again: SUBSET Nat,
   refilled: SUBSET Nat, whole: BOOLEAN]

Blank(first) ==
  [first |-> first, live |-> {}, filled |-> {}, again |-> {}, refilled |-> {},
   whole |-> Server = "prompt"]

PrintLive(o, batch, whole) ==
  [o EXCEPT !.live = @ \cup batch,
            !.again = @ \cup (o.live \cap batch),
            !.refilled = @ \cup (o.filled \cap batch),
            !.whole = @ /\ whole]

PrintFilled(o, batch) ==
  [o EXCEPT !.filled = @ \cup batch,
            !.refilled = @ \cup ((o.live \cup o.filled) \cap batch)]

Init ==
  /\ enable_recovery \in BOOLEAN
  /\ max_messages \in Limits
  /\ pc = "recv"
  /\ current_session = NoSession
  /\ joined = FALSE
  /\ expected_seq = 0
  /\ decoded_count = 0
  /\ header = NoHeader
  /\ current_seq = 0
  /\ remaining = 0
  /\ req_count = 0
  /\ got_in_chunk = 0
  /\ timeouts = 0
  /\ errno = "other"
  /\ replies = <<>>
  /\ out = Blank(0)
-----------------------------------------------------------------------------
(***************************************************************************)
(* The multicast socket.                                                   *)
(***************************************************************************)

\* Mutant: the packet just decoded is expected again.
DecodeLiveAgain(d, o) ==
  /\ decoded_count' = Tally(d, decoded_count, max_messages)
  /\ out' = PrintLive(o, Numbers(d, decoded_count, max_messages), d.fit = d.count)
  /\ expected_seq' = d.seq
  /\ pc' = IF StopsAt(d, decoded_count, max_messages) THEN "done" ELSE "recv"

\* Mutant: the loop goes on at the limit.
DecodeLiveGoesOn(d, o) ==
  /\ decoded_count' = Tally(d, decoded_count, max_messages)
  /\ out' = PrintLive(o, Numbers(d, decoded_count, max_messages), d.fit = d.count)
  /\ expected_seq' = d.seq + d.count
  /\ pc' = "recv"

\* decode_packet_messages, the new expectation, and the exit at the limit,
\* with o what the stay had printed before.
DecodeLive(d, o) ==
  /\ decoded_count' = Tally(d, decoded_count, max_messages)
  /\ out' = PrintLive(o, Numbers(d, decoded_count, max_messages), d.fit = d.count)
  /\ expected_seq' = d.seq + d.count
  /\ pc' = IF StopsAt(d, decoded_count, max_messages) THEN "done" ELSE "recv"

\* receive_bytes fails; the socket has no timeout, so not with EAGAIN.
ReceiveError ==
  /\ pc = "recv"
  /\ errno' = "other"
  /\ UNCHANGED <<pc, tracking, decoded_count, gap, replies, out>>

\* Nothing in it, no header in it, or end of session: the loop goes on.
ReceiveIgnored(d) ==
  /\ pc = "recv"
  /\ ~parse_mold_header(d) \/ IsEndSession(d)
  /\ UNCHANGED vars

\* A packet the loop goes on to track.
Receives(d) ==
  /\ pc = "recv"
  /\ parse_mold_header(d)
  /\ ~IsEndSession(d)

\* Without -g nothing is tracked and every packet is decoded.
ReceiveUntracked(d) ==
  /\ Receives(d)
  /\ ~enable_recovery
  /\ DecodeLive(d, out)
  /\ UNCHANGED <<current_session, joined, gap, errno, replies>>

\* The first packet, or one of another session: check_sequence_gap adopts
\* its session and its number, and there is no gap.
ReceiveNewSession(d) ==
  /\ Receives(d)
  /\ enable_recovery
  /\ ~joined \/ d.session # current_session
  /\ current_session' = d.session
  /\ joined' = TRUE
  /\ DecodeLive(d, Blank(d.seq))
  /\ UNCHANGED <<gap, errno, replies>>

\* A packet of the session the loop is in.
Follows(d) ==
  /\ Receives(d)
  /\ enable_recovery
  /\ joined
  /\ d.session = current_session

\* Mutant: without the test for duplicates.
ReceiveExpectedOrOld(d) ==
  /\ Follows(d)
  /\ d.seq <= expected_seq
  /\ DecodeLive(d, out)
  /\ UNCHANGED <<current_session, joined, gap, errno, replies>>

\* The next packet.
ReceiveExpected(d) ==
  /\ Follows(d)
  /\ d.seq = expected_seq
  /\ DecodeLive(d, out)
  /\ UNCHANGED <<current_session, joined, gap, errno, replies>>

\* "Skip Duplicate": everything below the expected number, overlap or not.
SkipDuplicate(d) ==
  /\ Follows(d)
  /\ d.seq < expected_seq
  /\ UNCHANGED vars

\* Mutant: the gap is taken for one number shorter.
ReceiveAheadShort(d) ==
  /\ Follows(d)
  /\ d.seq > expected_seq
  /\ pc' = "ask"
  /\ header' = d
  /\ current_seq' = expected_seq
  /\ remaining' = d.seq - expected_seq - 1
  /\ UNCHANGED <<tracking, decoded_count, chunk, errno, replies, out>>

\* Numbers are missing: keep the packet and call gap_fill.
ReceiveAhead(d) ==
  /\ Follows(d)
  /\ d.seq > expected_seq
  /\ pc' = "ask"
  /\ header' = d
  /\ current_seq' = expected_seq
  /\ remaining' = d.seq - expected_seq
  /\ UNCHANGED <<tracking, decoded_count, chunk, errno, replies, out>>
-----------------------------------------------------------------------------
(***************************************************************************)
(* gap_fill.  It returns by going to "resume", or to "done" at the limit;  *)
(* the count it returns is not used.                                       *)
(***************************************************************************)

\* Mutant: every request is for a full chunk.
FullRequest == MaxPerRequest

\* How many numbers the next request is for.
RequestCount == Least(remaining, MaxPerRequest)

SendRequest ==
  /\ pc = "ask"
  /\ req_count' = RequestCount
  /\ got_in_chunk' = 0
  /\ timeouts' = 0
  /\ \E ans \in Answers(header.session, current_seq, req_count') :
       /\ Len(replies) + Len(ans) <= ReplyBuffer
       /\ replies' = replies \o ans
       /\ out' = [out EXCEPT !.whole = @ /\ Full(ans, current_seq, req_count')]
  /\ pc' = "await"
  /\ UNCHANGED <<tracking, decoded_count, header, current_seq, remaining, errno>>

SendRequestFails ==
  /\ pc = "ask"
  /\ errno' = "other"
  /\ pc' = "resume"
  /\ out' = [out EXCEPT !.whole = FALSE]
  /\ UNCHANGED <<tracking, decoded_count, gap, replies>>

\* Mutant: remaining is not kept from going below zero.
EndChunkUnclamped(got) ==
  /\ got_in_chunk' = 0
  /\ IF got = 0
     THEN /\ pc' = "resume"
          /\ UNCHANGED <<current_seq, remaining>>
     ELSE /\ pc' = IF got >= remaining THEN "resume" ELSE "ask"
          /\ current_seq' = current_seq + got
          /\ remaining' = remaining - got

\* Mutant: the position does not advance.
EndChunkInPlace(got) ==
  /\ got_in_chunk' = 0
  /\ IF got = 0
     THEN pc' = "resume" /\ UNCHANGED remaining
     ELSE /\ pc' = IF got >= remaining THEN "resume" ELSE "ask"
          /\ remaining' = IF got >= remaining THEN 0 ELSE remaining - got
  /\ UNCHANGED current_seq

\* Mutant: what did not arrive is asked for again, without end.
EndChunkRetries(got) ==
  /\ got_in_chunk' = 0
  /\ pc' = IF got >= remaining THEN "resume" ELSE "ask"
  /\ current_seq' = current_seq + got
  /\ remaining' = IF got >= remaining THEN 0 ELSE remaining - got

\* The inner loop is over with got messages: gap_fill gives up on none and
\* otherwise takes them for the first of those it asked for.
EndChunk(got) ==
  /\ got_in_chunk' = 0
  /\ IF got = 0
     THEN /\ pc' = "resume"
          /\ UNCHANGED <<current_seq, remaining>>
     ELSE /\ pc' = IF got >= remaining THEN "resume" ELSE "ask"
          /\ current_seq' = current_seq + got
          /\ remaining' = IF got >= remaining THEN 0 ELSE remaining - got

\* The inner loop goes on with got messages.
StayInChunk(got) ==
  /\ got_in_chunk' = got
  /\ UNCHANGED <<pc, current_seq, remaining>>

\* The test on errno after receive_packet returned 0 or less.
CountSilence ==
  IF errno' = "again"
  THEN /\ timeouts' = timeouts + 1
       /\ IF timeouts + 1 >= 3
          THEN EndChunk(got_in_chunk)
          ELSE StayInChunk(got_in_chunk)
  ELSE /\ EndChunk(got_in_chunk)
       /\ UNCHANGED timeouts

\* A second without a datagram; replies may still be on their way.
ReceiveTimeout ==
  /\ pc = "await"
  /\ Server = "any" \/ replies = <<>>
  /\ errno' = "again"
  /\ CountSilence
  /\ UNCHANGED <<tracking, decoded_count, header, req_count, replies, out>>

ReceiveFails ==
  /\ pc = "await"
  /\ Server = "any"
  /\ errno' = "other"
  /\ CountSilence
  /\ UNCHANGED <<tracking, decoded_count, header, req_count, replies, out>>

\* An empty datagram: recvfrom returns 0 and leaves errno as it was.
ReceiveEmptyReply ==
  /\ pc = "await"
  /\ replies # <<>>
  /\ Head(replies).kind = "empty"
  /\ replies' = Tail(replies)
  /\ errno' = errno
  /\ CountSilence
  /\ UNCHANGED <<tracking, decoded_count, header, req_count, out>>

\* Any other datagram is decoded, whatever its session and number are.
ReceiveReply ==
  LET d == Head(replies)
      got == got_in_chunk + Processed(d, decoded_count, max_messages)
  IN
  /\ pc = "await"
  /\ replies # <<>>
  /\ d.kind # "empty"
  /\ replies' = Tail(replies)
  /\ decoded_count' = Tally(d, decoded_count, max_messages)
  /\ out' = IF d.session = current_session
            THEN PrintFilled(out, Numbers(d, decoded_count, max_messages)) ELSE out
  /\ IF StopsAt(d, decoded_count, max_messages)
     THEN /\ pc' = "done"
          /\ got_in_chunk' = got
          /\ UNCHANGED <<current_seq, remaining>>
     ELSE IF got >= req_count THEN EndChunk(got) ELSE StayInChunk(got)
  /\ UNCHANGED <<tracking, header, req_count, timeouts, errno>>

\* Back in the loop, with gap_fill's locals gone: the packet that revealed
\* the gap is decoded, filled or not.  Its number is above expected_seq, so
\* the test for duplicates lets it pass.
Resume ==
  /\ pc = "resume"
  /\ DecodeLive(header, out)
  /\ header' = NoHeader
  /\ current_seq' = 0
  /\ remaining' = 0
  /\ req_count' = 0
  /\ got_in_chunk' = 0
  /\ timeouts' = 0
  /\ UNCHANGED <<current_session, joined, errno, replies>>
-----------------------------------------------------------------------------
Receive ==
  /\ UNCHANGED options
  /\ \/ ReceiveError
     \/ \E d \in Feed :
          \/ ReceiveIgnored(d)
          \/ ReceiveUntracked(d)
          \/ ReceiveNewSession(d)
          \/ ReceiveExpected(d)
          \/ SkipDuplicate(d)
          \/ ReceiveAhead(d)

GapFill ==
  /\ UNCHANGED options
  /\ \/ SendRequest
     \/ SendRequestFails
     \/ ReceiveTimeout
     \/ ReceiveFails
     \/ ReceiveEmptyReply
     \/ ReceiveReply
     \/ Resume

\* run() has returned.
Terminated == pc = "done" /\ UNCHANGED vars

Next == Receive \/ GapFill \/ Terminated

Spec == Init /\ [][Next]_vars

(***************************************************************************)
(* While a gap is being filled the program always moves on: SO_RCVTIMEO    *)
(* bounds each receive, and nothing else there waits.  Nothing is assumed  *)
(* of the multicast socket, which may stay silent for ever.                *)
(***************************************************************************)
FairSpec == Spec /\ WF_vars(GapFill)
-----------------------------------------------------------------------------
(***************************************************************************)
(* Properties.                                                             *)
(***************************************************************************)

\* The variables hold values of their C++ types, and the program counter
\* says whether gap_fill is running.
TypeOK ==
  /\ enable_recovery \in BOOLEAN
  /\ max_messages \in Nat
  /\ pc \in {"recv", "ask", "await", "resume", "done"}
  /\ current_session \in Sessions \cup {NoSession}
  /\ joined \in BOOLEAN
  /\ expected_seq \in Nat
  /\ decoded_count \in Nat
  /\ header \in Datagram \cup {NoHeader}
  /\ current_seq \in Nat
  /\ remaining \in Nat
  /\ req_count \in Nat
  /\ got_in_chunk \in Nat
  /\ timeouts \in 0..3
  /\ errno \in {"again", "other"}
  /\ replies \in Seq(Datagram)
  /\ out \in History

\* gap_fill only ever asks for numbers that are missing: the request under
\* way lies inside the gap, is not empty, keeps to the configured size and
\* names the session of the gap, whatever replies came before it.
RequestWithinGap ==
  pc = "await" =>
    /\ req_count \in 1..MaxPerRequest
    /\ expected_seq <= current_seq
    /\ current_seq + req_count <= header.seq
    /\ header.session = current_session

\* "-n <count>": live packets and replies count against the same limit,
\* no message is decoded beyond it, and the program has ended exactly when
\* it is reached.
WithinLimit ==
  max_messages # 0 =>
    /\ decoded_count <= max_messages
    /\ pc = "done" <=> decoded_count = max_messages

\* "Skip Duplicate": nothing is decoded twice from the multicast.
SkipsDuplicates == out.again = {}

\* With -g, no message of a stay is decoded twice from the multicast,
\* however its packets are repeated, reordered or cut differently.
NoLiveRepeat == enable_recovery => SkipsDuplicates

\* With -g, what a stay prints from the multicast is in ascending order and
\* without repetition, whatever the server sends.
IfTracked(x, none) == IF enable_recovery THEN x ELSE none
LiveOrder == INSTANCE OrderedFeed
               WITH session <- current_session,
                    next <- IfTracked(expected_seq, 0),
                    printed <- IfTracked(out.live, {}),
                    repeated <- IfTracked(out.again, {})
LiveInOrder == LiveOrder!Spec

\* With a server that answers in order and never late, so is everything a
\* stay prints: recovered messages come before the packet that revealed
\* their absence, and none is printed a second time.
NextDue ==
  IF header = NoHeader THEN expected_seq ELSE current_seq + got_in_chunk
WholeOrder == INSTANCE OrderedFeed
                WITH session <- current_session,
                     next <- IfTracked(NextDue, 0),
                     printed <- IfTracked(out.live \cup out.filled, {}),
                     repeated <- IfTracked(out.again \cup out.refilled, {})
WholeInOrder == WholeOrder!Spec

\* As long as no packet of it was cut short and the server answered every
\* request in full and in time, a stay has printed every number between its
\* first packet and the next one it expects.
NothingMissed ==
  pc = "recv" /\ joined /\ out.whole =>
    out.first..(expected_seq - 1) \subseteq out.live \cup out.filled

\* Filling a gap comes to an end, whatever the server does: the packet held
\* back is decoded and the multicast is read again, or the limit is reached.
GapFillEnds == pc \in {"ask", "await", "resume"} ~> pc \in {"recv", "done"}
-----------------------------------------------------------------------------
(***************************************************************************)
(* The inductive invariant behind the safety properties: TypeOK and these. *)
(***************************************************************************)

\* While gap_fill runs, the position and what is left of the gap add up to
\* the number of the packet that revealed it, which waits above everything
\* the loop has seen of its session.
Filling ==
  /\ joined <=> current_session # NoSession
  /\ pc \in {"ask", "await", "resume"} =>
       /\ enable_recovery /\ joined
       /\ header \in Datagram
       /\ header.session = current_session
       /\ expected_seq <= header.seq
  /\ pc \in {"ask", "await"} =>
       /\ remaining > 0
       /\ expected_seq <= current_seq
       /\ current_seq + remaining = header.seq
  /\ pc = "await" =>
       /\ timeouts < 3
       /\ req_count = Least(remaining, MaxPerRequest)

\* With -g, every number the stay printed from the multicast is below
\* expected_seq, and none was printed twice.
Tracked ==
  enable_recovery =>
    SkipsDuplicates /\ \A n \in out.live : n < expected_seq

IInv == TypeOK /\ Filling /\ Tracked

\* With -g and a server that answers in order and never late: no reply is
\* left over from an earlier request, those on their way continue at NextDue
\* and stay inside the request, and everything printed lies below NextDue.
Replying ==
  Server = "prompt" /\ enable_recovery =>
    /\ FromServer(replies, current_session)
    /\ pc = "recv" => header = NoHeader
    /\ pc \in {"recv", "ask", "resume"} => got_in_chunk = 0 /\ BringsNothing(replies)
    /\ pc = "await" =>
         /\ got_in_chunk < req_count
         /\ \E next \in NextDue..(current_seq + req_count) :
              Conveys(replies, NextDue, next)
    /\ pc = "resume" => NextDue <= header.seq
    /\ out.again = {} /\ out.refilled = {}
    /\ \A n \in out.live \cup out.filled : n < NextDue

\* The server has what comes before the packets of the multicast.
ServerKeepsFeed ==
  \A d \in Feed : parse_mold_header(d) /\ ~IsEndSession(d) => d.seq <= Last + 1

\* As long as a stay is whole, it has printed everything below NextDue, the
\* replies on their way bring all the rest of the request, and the gap is
\* closed when the packet that revealed it is decoded.
Closing ==
  /\ out.whole => Server = "prompt"
  /\ joined => enable_recovery
  /\ pc = "recv" => header = NoHeader
  /\ header # NoHeader => parse_mold_header(header) /\ header.seq <= Last + 1
  /\ out.whole /\ joined /\ pc # "done" =>
       /\ out.first..(NextDue - 1) \subseteq out.live \cup out.filled
       /\ pc = "await" => Conveys(replies, NextDue, current_seq + req_count)
       /\ pc = "resume" => NextDue = header.seq
=============================================================================
