------------------------------ MODULE Download ------------------------------
(***************************************************************************)
(* Download mode of the receiver (-s <seq>, with or without -n <count>):   *)
(* the first loop of Application::run, the session probe get_session_id    *)
(* before it, and the Rerequester it drives.  As in LiveFeed a step runs   *)
(* from one socket call to the next.                                       *)
(***************************************************************************)
EXTENDS RerequestServer

CONSTANTS
  Limits,             \* the values of -n to consider; 0 means no limit
  StartSeq,           \* start_seq, the option -s
  Feed,               \* datagrams the multicast socket may return
  MaxPerRequest,      \* max_per_request
  ReplyBuffer,        \* datagrams the reply socket can hold
  NoSession           \* nothing yet

ASSUME DownloadAssumption ==
  /\ Limits \subseteq Nat
  /\ StartSeq \in Nat
  /\ Feed \subseteq Datagram
  /\ MaxPerRequest \in Nat \ {0}
  /\ ReplyBuffer \in Nat
  /\ NoSession \notin Sessions

VARIABLES
  max_messages,       \* the option -n
  pc,                 \* "start", "probe", "ask", "await" or "done"
  exit,               \* "none" while it runs, then what run() returns
  session,            \* the session asked for
  current_seq, remaining, total_received,
  decoded_count,
  req_count, got_in_chunk, timeouts,  \* the request under way
  errno,              \* "again" (EAGAIN, EWOULDBLOCK) or "other"
  replies,            \* datagrams on their way to the reply socket
  printed, repeated,  \* history: numbers of the session printed, and again
  whole               \* history: every request was answered in full

progress == <<current_seq, remaining, total_received>>
chunk == <<req_count, got_in_chunk, timeouts>>
history == <<printed, repeated, whole>>
vars == <<max_messages, pc, exit, session, progress, decoded_count, chunk,
          errno, replies, history>>

\* bounded_download
Bounded == max_messages # 0

Init ==
  /\ max_messages \in Limits
  /\ pc = "start"
  /\ exit = "none"
  /\ session = NoSession
  /\ current_seq = StartSeq
  /\ remaining = max_messages
  /\ total_received = 0
  /\ decoded_count = 0
  /\ req_count = 0
  /\ got_in_chunk = 0
  /\ timeouts = 0
  /\ errno = "other"
  /\ replies = <<>>
  /\ printed = {}
  /\ repeated = {}
  /\ whole = (Server = "prompt")

\* run() returns.
Return(status) == pc' = "done" /\ exit' = status
-----------------------------------------------------------------------------
(***************************************************************************)
(* Before the first request.                                               *)
(***************************************************************************)

\* No rerequester in the configuration, or no multicast socket.
StartFails ==
  /\ pc = "start"
  /\ Return("failure")
  /\ UNCHANGED <<session, progress, decoded_count, chunk, errno, replies,
                 history>>

Connect ==
  /\ pc = "start"
  /\ pc' = "probe"
  /\ UNCHANGED <<exit, session, progress, decoded_count, chunk, errno, replies,
                 history>>

\* get_session_id tries again after an error ...
ProbeError ==
  /\ pc = "probe"
  /\ errno' = "other"
  /\ UNCHANGED <<pc, exit, session, progress, decoded_count, chunk, replies,
                 history>>

\* ... and after a datagram without a header.
ProbeIgnored(d) ==
  /\ pc = "probe"
  /\ ~parse_mold_header(d)
  /\ UNCHANGED vars

\* Any header names the session, that of an end-of-session packet too; then
\* the socket for requests is opened.
ProbeSession(d) ==
  /\ pc = "probe"
  /\ parse_mold_header(d)
  /\ session' = d.session
  /\ \/ pc' = "ask" /\ UNCHANGED exit
     \/ Return("failure")
  /\ UNCHANGED <<progress, decoded_count, chunk, errno, replies, history>>
-----------------------------------------------------------------------------
(***************************************************************************)
(* The download loop.                                                      *)
(***************************************************************************)

\* Mutant: every request is for a full chunk.
FullRequest == MaxPerRequest

\* How many numbers the next request is for.
RequestCount ==
  IF Bounded THEN Least(remaining, MaxPerRequest) ELSE MaxPerRequest

SendRequest ==
  /\ pc = "ask"
  /\ req_count' = RequestCount
  /\ got_in_chunk' = 0
  /\ timeouts' = 0
  /\ \E ans \in Answers(session, current_seq, req_count') :
       /\ Len(replies) + Len(ans) <= ReplyBuffer
       /\ replies' = replies \o ans
       /\ whole' = (whole /\ Full(ans, current_seq, req_count'))
  /\ pc' = "await"
  /\ UNCHANGED <<exit, session, progress, decoded_count, errno, printed, repeated>>

SendRequestFails ==
  /\ pc = "ask"
  /\ errno' = "other"
  /\ Return("failure")
  /\ UNCHANGED <<session, progress, decoded_count, chunk, replies, history>>

\* Mutant: a download that brought nothing is a success.
GiveUpContent ==
  /\ Return("success")
  /\ got_in_chunk' = 0
  /\ UNCHANGED progress

\* Nothing arrived: the download is over.
GiveUp ==
  /\ Return(IF total_received > 0 \/ ~Bounded THEN "success" ELSE "failure")
  /\ got_in_chunk' = 0
  /\ UNCHANGED progress

\* Mutant: the position advances by what was asked for.
TakeWholeChunk(got) ==
  /\ total_received' = total_received + got
  /\ current_seq' = current_seq + req_count
  /\ remaining' = IF got >= remaining THEN 0 ELSE remaining - got
  /\ got_in_chunk' = 0
  /\ IF Bounded /\ remaining' = 0
     THEN Return("success")
     ELSE pc' = "ask" /\ UNCHANGED exit

\* Mutant: the position advances by one too many.
TakeChunkAndOne(got) ==
  /\ total_received' = total_received + got
  /\ current_seq' = current_seq + got + 1
  /\ remaining' = IF got >= remaining THEN 0 ELSE remaining - got
  /\ got_in_chunk' = 0
  /\ IF Bounded /\ remaining' = 0
     THEN Return("success")
     ELSE pc' = "ask" /\ UNCHANGED exit

\* got messages arrived: they are taken for the first of those asked for.
TakeChunk(got) ==
  /\ total_received' = total_received + got
  /\ current_seq' = current_seq + got
  /\ remaining' = IF got >= remaining THEN 0 ELSE remaining - got
  /\ got_in_chunk' = 0
  /\ IF Bounded /\ remaining' = 0
     THEN Return("success")
     ELSE pc' = "ask" /\ UNCHANGED exit

\* Mutant: what did not arrive is asked for again, without end.
EndChunkRetries(got) == TakeChunk(got)

\* The inner loop is over with got messages.
EndChunk(got) == IF got = 0 THEN GiveUp ELSE TakeChunk(got)

\* The inner loop goes on with got messages.
StayInChunk(got) ==
  /\ got_in_chunk' = got
  /\ UNCHANGED <<pc, exit, progress>>

\* Mutant: one timeout more is allowed.
CountSilenceLonger ==
  IF errno' = "again"
  THEN /\ timeouts' = timeouts + 1
       /\ IF timeouts + 1 > 3
          THEN EndChunk(got_in_chunk)
          ELSE StayInChunk(got_in_chunk)
  ELSE /\ EndChunk(got_in_chunk)
       /\ UNCHANGED timeouts

\* The test on errno after receive_packet returned 0 or less.
CountSilence ==
  IF errno' = "again"
  THEN /\ timeouts' = timeouts + 1
       /\ IF timeouts + 1 >= 3
          THEN EndChunk(got_in_chunk)
          ELSE StayInChunk(got_in_chunk)
  ELSE /\ EndChunk(got_in_chunk)
       /\ UNCHANGED timeouts

\* A second without a datagram; replies may still be on their way.
ReceiveTimeout ==
  /\ pc = "await"
  /\ Server = "any" \/ replies = <<>>
  /\ errno' = "again"
  /\ CountSilence
  /\ UNCHANGED <<session, decoded_count, req_count, replies, history>>

ReceiveFails ==
  /\ pc = "await"
  /\ Server = "any"
  /\ errno' = "other"
  /\ CountSilence
  /\ UNCHANGED <<session, decoded_count, req_count, replies, history>>

\* An empty datagram: recvfrom returns 0 and leaves errno as it was.
ReceiveEmptyReply ==
  /\ pc = "await"
  /\ replies # <<>>
  /\ Head(replies).kind = "empty"
  /\ replies' = Tail(replies)
  /\ errno' = errno
  /\ CountSilence
  /\ UNCHANGED <<session, decoded_count, req_count, history>>

Decode(d) ==
  LET batch == IF d.session = session THEN Numbers(d, decoded_count, max_messages) ELSE {}
  IN /\ printed' = printed \cup batch
     /\ repeated' = repeated \cup (printed \cap batch)
     /\ UNCHANGED whole

\* Any other datagram is decoded, whatever its session and number are.
ReceiveReply ==
  LET d == Head(replies)
      got == got_in_chunk + Processed(d, decoded_count, max_messages)
  IN
  /\ pc = "await"
  /\ replies # <<>>
  /\ d.kind # "empty"
  /\ replies' = Tail(replies)
  /\ decoded_count' = Tally(d, decoded_count, max_messages)
  /\ Decode(d)
  /\ IF StopsAt(d, decoded_count, max_messages)
     THEN /\ Return("success")
          /\ got_in_chunk' = got
          /\ UNCHANGED progress
     ELSE IF got >= req_count THEN EndChunk(got) ELSE StayInChunk(got)
  /\ UNCHANGED <<session, req_count, timeouts, errno>>
-----------------------------------------------------------------------------
Probe ==
  /\ UNCHANGED max_messages
  /\ \/ StartFails
     \/ Connect
     \/ ProbeError
     \/ \E d \in Feed : ProbeIgnored(d) \/ ProbeSession(d)

Transfer ==
  /\ UNCHANGED max_messages
  /\ \/ SendRequest
     \/ SendRequestFails
     \/ ReceiveTimeout
     \/ ReceiveFails
     \/ ReceiveEmptyReply
     \/ ReceiveReply

\* run() has returned.
Terminated == pc = "done" /\ UNCHANGED vars

Next == Probe \/ Transfer \/ Terminated

Spec == Init /\ [][Next]_vars

(***************************************************************************)
(* SO_RCVTIMEO bounds every receive of the transfer.  The probe's socket   *)
(* has no timeout: a silent multicast keeps it waiting for ever.           *)
(***************************************************************************)
FairSpec == Spec /\ WF_vars(Transfer)
-----------------------------------------------------------------------------
(***************************************************************************)
(* Properties.                                                             *)
(***************************************************************************)

\* The variables hold values of their C++ types.
TypeOK ==
  /\ max_messages \in Nat
  /\ pc \in {"start", "probe", "ask", "await", "done"}
  /\ exit \in {"none", "success", "failure"}
  /\ session \in Sessions \cup {NoSession}
  /\ current_seq \in Nat
  /\ remaining \in Nat
  /\ total_received \in Nat
  /\ decoded_count \in Nat
  /\ req_count \in Nat
  /\ got_in_chunk \in Nat
  /\ timeouts \in 0..3
  /\ errno \in {"again", "other"}
  /\ replies \in Seq(Datagram)
  /\ printed \in SUBSET Nat
  /\ repeated \in SUBSET Nat
  /\ whole \in BOOLEAN

\* The four counters of the loop agree at every point, whatever arrives: the
\* position is what was taken from the start, a bounded download has taken or
\* still wants each of its messages, and those it counted against -n are the
\* ones taken and the ones of the chunk under way.
Accounted ==
  /\ current_seq = StartSeq + total_received
  /\ Bounded =>
       /\ total_received + remaining = max_messages
       /\ decoded_count = total_received + got_in_chunk

\* A bounded download never asks beyond its range, and never for nothing,
\* however many messages late or repeated replies have brought.
RequestWithinRange ==
  pc = "await" =>
    /\ req_count \in 1..MaxPerRequest
    /\ StartSeq <= current_seq
    /\ Bounded => current_seq + req_count <= StartSeq + max_messages

\* Success is never reported by a bounded download that decoded nothing, nor
\* failure by one that decoded all -n messages.
StatusAgrees ==
  Bounded =>
    /\ exit = "success" => decoded_count > 0
    /\ decoded_count = max_messages => exit = "success"

\* "if bounded and didn't get all (-s .. -n ..) exit 1"
ShortIsFailure ==
  Bounded /\ pc = "done" /\ decoded_count < max_messages => exit = "failure"

\* "Receive enough reply packets to decode this chunk": before the next one
\* is asked for, every message of the earlier ones has been printed.
ChunksDecoded == StartSeq..(current_seq - 1) \subseteq printed

\* With a server that answers in order and never late, what is printed is at
\* every moment a range from the start without holes, each number once, and
\* the request under way continues it.
Contiguous ==
  /\ printed = StartSeq..(current_seq + got_in_chunk - 1)
  /\ repeated = {}

\* If the server answered every request in full and in time, a download that
\* reports success has printed exactly the messages asked for that it has.
DownloadComplete ==
  exit = "success" /\ whole =>
    printed = IF Bounded
              THEN StartSeq..Least(StartSeq + max_messages - 1, Last)
              ELSE StartSeq..Last

\* A transfer comes to an end, whatever the server and the network do.
TransferEnds == pc \in {"ask", "await"} ~> pc = "done"
-----------------------------------------------------------------------------
(***************************************************************************)
(* The inductive invariant behind the safety properties.                   *)
(***************************************************************************)

\* Until run() returns, the limit is not reached; a request under way is for
\* the whole of what the code would ask for at this position.
Running ==
  /\ pc # "done" => exit = "none" /\ (Bounded => decoded_count < max_messages)
  /\ pc \notin {"await", "done"} => got_in_chunk = 0
  /\ pc \in {"ask", "await"} => session \in Sessions
  /\ pc = "await" =>
       /\ timeouts < 3
       /\ req_count =
            IF Bounded THEN Least(remaining, MaxPerRequest) ELSE MaxPerRequest

IInv == TypeOK /\ Accounted /\ StatusAgrees /\ Running

\* The next number that has not arrived.
NextDue == current_seq + got_in_chunk

\* With a server that answers in order and never late: no reply is left over
\* from an earlier request, those on their way continue at NextDue and stay
\* inside the request, and what has been printed ends there, at a message the
\* server has.
Replying ==
  Server = "prompt" =>
    /\ Contiguous
    /\ NextDue = StartSeq \/ NextDue <= Last + 1
    /\ pc \in {"start", "probe"} => replies = <<>>
    /\ pc \in {"ask", "await"} => FromServer(replies, session)
    /\ pc = "ask" => BringsNothing(replies)
    /\ pc = "await" =>
         /\ got_in_chunk < req_count
         /\ \E next \in NextDue..(current_seq + req_count) :
              Conveys(replies, NextDue, next)

\* As long as the server answers in full, the replies on their way bring all
\* the rest of the request that it has.
Closing ==
  /\ whole => Server = "prompt"
  /\ whole /\ pc = "await" =>
       Conveys(replies, NextDue, AnswerEnd(current_seq, req_count))
=============================================================================
