--------------------------- MODULE DownloadProofs ---------------------------
(***************************************************************************)
(* The safety properties of download mode, for every start, limit, request *)
(* size, server and network.  IInv of Download is inductive.               *)
(***************************************************************************)
EXTENDS Download, PacketLemmas

\* A download begins with its counters in agreement.
LEMMA InitInv == Init => IInv
<1> SUFFICES ASSUME Init PROVE IInv
  OBVIOUS
<1>1. TypeOK
  <2>1. replies \in Seq(Datagram)
    BY DEF Init
  <2>2. /\ pc \in {"start", "probe", "ask", "await", "done"}
        /\ exit \in {"none", "success", "failure"}
        /\ session \in Sessions \cup {NoSession}
        /\ errno \in {"again", "other"}
        /\ printed \in SUBSET Nat /\ repeated \in SUBSET Nat
    BY DEF Init
  <2>4. whole \in BOOLEAN
    BY DEF Init
  <2>3. /\ max_messages \in Nat /\ current_seq \in Nat /\ remaining \in Nat /\ total_received \in Nat
        /\ decoded_count \in Nat /\ req_count \in Nat /\ got_in_chunk \in Nat
        /\ timeouts \in 0..3
    BY DownloadAssumption DEF Init
  <2> QED
    BY <2>1, <2>2, <2>3, <2>4 DEF TypeOK
<1>2. Accounted
  BY DownloadAssumption DEF Init, Accounted, Bounded
<1>3. StatusAgrees /\ Running
  BY DownloadAssumption DEF Init, StatusAgrees, Running, Bounded
<1> QED
  BY <1>1, <1>2, <1>3 DEF IInv

\* The steps before the first request leave the counters alone.
LEMMA ProbeInv == IInv /\ Probe => IInv'
<1> SUFFICES ASSUME TypeOK, Accounted, StatusAgrees, Running, Probe
             PROVE  TypeOK' /\ Accounted' /\ StatusAgrees' /\ Running'
  BY DEF IInv
<1> UNCHANGED max_messages
  BY DEF Probe
<1>1. ASSUME pc \in {"start", "probe"},
             \/ pc' \in {"start", "probe", "ask"} /\ exit' = exit
             \/ pc' = "done" /\ exit' = "failure",
             pc' = "ask" => session' \in Sessions,
             session' \in Sessions \cup {NoSession},
             errno' \in {"again", "other"},
             UNCHANGED <<progress, decoded_count, chunk, replies, history>>
      PROVE  TypeOK' /\ Accounted' /\ StatusAgrees' /\ Running'
  <2>1. TypeOK'
    BY <1>1 DEF TypeOK, progress, chunk, history
  <2>2. Accounted'
    BY <1>1 DEF Accounted, Bounded, progress, chunk
  <2>3. StatusAgrees'
    BY <1>1 DEF StatusAgrees, Running, Bounded, TypeOK
  <2>4. Running'
    BY <1>1 DEF Running, Bounded, chunk
  <2> QED
    BY <2>1, <2>2, <2>3, <2>4
<1>2. session \in Sessions \cup {NoSession} /\ errno \in {"again", "other"}
  BY DEF TypeOK
<1>3. CASE StartFails \/ Connect \/ ProbeError
  BY <1>1, <1>2, <1>3 DEF StartFails, Connect, ProbeError, Return
<1>4. ASSUME NEW d \in Feed, ProbeSession(d)
      PROVE  TypeOK' /\ Accounted' /\ StatusAgrees' /\ Running'
  <2>1. d.session \in Sessions
    BY DownloadAssumption, ProcessedFacts DEF TypeOK
  <2> QED
    BY <1>1, <1>2, <1>4, <2>1 DEF ProbeSession, Return
<1>5. CASE UNCHANGED vars
  BY <1>5 DEF TypeOK, Accounted, StatusAgrees, Running, Bounded, vars, progress,
              chunk, history
<1> QED
  BY <1>3, <1>4, <1>5 DEF Probe, ProbeIgnored

\* At the end of a chunk that did not reach the limit the counters agree.
LEMMA EndChunkKeeps ==
  ASSUME TypeOK, Running, current_seq = StartSeq + total_received,
         NEW got \in Nat, NEW count \in Nat,
         Bounded => /\ total_received + remaining = max_messages
                    /\ count = total_received + got
                    /\ count < max_messages,
         pc = "await", EndChunk(got), decoded_count' = count,
         UNCHANGED <<max_messages, session>>
  PROVE  /\ pc' \in {"ask", "done"} /\ exit' \in {"none", "success", "failure"}
         /\ current_seq' \in Nat /\ remaining' \in Nat /\ total_received' \in Nat
         /\ got_in_chunk' \in Nat
         /\ Accounted' /\ StatusAgrees' /\ Running'
<1>1. /\ current_seq \in Nat /\ remaining \in Nat /\ total_received \in Nat
      /\ max_messages \in Nat /\ StartSeq \in Nat
      /\ exit = "none" /\ session \in Sessions
  BY DownloadAssumption DEF TypeOK, Running
<1> UNCHANGED max_messages
  OBVIOUS
<1>2. CASE got = 0
  <2>1. /\ pc' = "done" /\ got_in_chunk' = 0 /\ UNCHANGED progress
        /\ exit' = IF total_received > 0 \/ ~Bounded THEN "success" ELSE "failure"
    BY <1>2 DEF EndChunk, GiveUp, Return
  <2>2. Accounted'
    BY <1>1, <1>2, <2>1 DEF Accounted, Bounded, progress
  <2>3. StatusAgrees'
    BY <1>1, <1>2, <2>1 DEF StatusAgrees, Bounded
  <2>4. Running'
    BY <2>1 DEF Running, Bounded
  <2> QED
    BY <1>1, <2>1, <2>2, <2>3, <2>4 DEF progress
<1>3. CASE got # 0
  <2>1. /\ total_received' = total_received + got
        /\ current_seq' = current_seq + got
        /\ remaining' = IF got >= remaining THEN 0 ELSE remaining - got
        /\ got_in_chunk' = 0
        /\ IF Bounded /\ remaining' = 0
           THEN pc' = "done" /\ exit' = "success"
           ELSE pc' = "ask" /\ exit' = exit
    BY <1>3 DEF EndChunk, TakeChunk, Return
  <2>2. remaining' \in Nat /\ (Bounded => got < remaining)
    BY <1>1, <2>1
  <2>3. pc' = "ask" /\ exit' = "none"
    BY <1>1, <2>1, <2>2
  <2>4. Accounted'
    BY <1>1, <2>1, <2>2 DEF Accounted, Bounded
  <2>5. StatusAgrees'
    BY <1>1, <2>3 DEF StatusAgrees, Bounded
  <2>6. Running'
    BY <1>1, <2>1, <2>3 DEF Running, Bounded
  <2> QED
    BY <1>1, <2>1, <2>2, <2>3, <2>4, <2>5, <2>6
<1> QED
  BY <1>2, <1>3

\* So they do after a receive that brought nothing.
LEMMA SilenceKeeps ==
  ASSUME TypeOK, Accounted, StatusAgrees, Running, pc = "await", CountSilence,
         errno' \in {"again", "other"}, replies' \in Seq(Datagram),
         UNCHANGED <<max_messages, session, decoded_count, req_count, history>>
  PROVE  TypeOK' /\ Accounted' /\ StatusAgrees' /\ Running'
<1>1. got_in_chunk \in Nat /\ timeouts \in 0..2 /\ decoded_count \in Nat
  BY DEF TypeOK, Running
<1>2. timeouts' \in 0..3
  BY <1>1 DEF CountSilence
<1>3. CASE EndChunk(got_in_chunk)
  <2>1. /\ pc' \in {"ask", "done"} /\ exit' \in {"none", "success", "failure"}
        /\ current_seq' \in Nat /\ remaining' \in Nat /\ total_received' \in Nat
        /\ got_in_chunk' \in Nat
        /\ Accounted' /\ StatusAgrees' /\ Running'
    BY <1>1, <1>3, EndChunkKeeps DEF Accounted, Running
  <2>2. TypeOK'
    BY <1>2, <2>1 DEF TypeOK, history
  <2> QED
    BY <2>1, <2>2
<1>4. CASE /\ StayInChunk(got_in_chunk)
           /\ timeouts' = timeouts + 1
           /\ ~(timeouts + 1 >= 3)
  <2>1. /\ UNCHANGED <<pc, exit, progress, got_in_chunk>> /\ timeouts' < 3
    BY <1>1, <1>4 DEF StayInChunk
  <2>2. TypeOK'
    BY <1>2, <2>1 DEF TypeOK, progress, history
  <2>3. Accounted' /\ StatusAgrees' /\ Running'
    BY <2>1 DEF Accounted, StatusAgrees, Running, Bounded, progress
  <2> QED
    BY <2>2, <2>3
<1> QED
  BY <1>3, <1>4 DEF CountSilence

\* A datagram that is decoded, whatever it is, keeps the invariant.
LEMMA ReplyInv == IInv /\ ReceiveReply /\ UNCHANGED max_messages => IInv'
<1> SUFFICES ASSUME TypeOK, Accounted, StatusAgrees, Running, ReceiveReply,
                    UNCHANGED max_messages
             PROVE  TypeOK' /\ Accounted' /\ StatusAgrees' /\ Running'
  BY DEF IInv
<1> DEFINE d == Head(replies)
           got == got_in_chunk + Processed(d, decoded_count, max_messages)
<1>1. d \in Datagram /\ replies' \in Seq(Datagram)
  BY DEF ReceiveReply, TypeOK
<1>2. /\ Processed(d, decoded_count, max_messages) \in Nat
      /\ Tally(d, decoded_count, max_messages) \in Nat
      /\ Numbers(d, decoded_count, max_messages) \in SUBSET Nat
  BY <1>1, ProcessedFacts DEF TypeOK
<1>3. /\ printed' \in SUBSET Nat /\ repeated' \in SUBSET Nat
      /\ whole' \in BOOLEAN
  <2>1. Decode(d)
    BY DEF ReceiveReply
  <2> HIDE DEF d
  <2> QED
    BY <1>2, <2>1 DEF Decode, TypeOK
<1>4. got \in Nat
  BY <1>2 DEF TypeOK
<1>5. Bounded => Tally(d, decoded_count, max_messages) = total_received + got
  BY <1>2 DEF Accounted, Tally, Bounded, TypeOK
<1>6. /\ pc = "await" /\ decoded_count' = Tally(d, decoded_count, max_messages)
      /\ UNCHANGED <<session, req_count, timeouts, errno>>
      /\ IF StopsAt(d, decoded_count, max_messages)
         THEN Return("success") /\ got_in_chunk' = got /\ UNCHANGED progress
         ELSE IF got >= req_count THEN EndChunk(got) ELSE StayInChunk(got)
  BY DEF ReceiveReply
<1>7. Bounded => /\ decoded_count < max_messages
                 /\ total_received + remaining = max_messages
  BY <1>6 DEF Running, Accounted
<1>8. Bounded =>
        /\ StopsAt(d, decoded_count, max_messages) => Tally(d, decoded_count, max_messages) = max_messages
        /\ ~StopsAt(d, decoded_count, max_messages) => Tally(d, decoded_count, max_messages) < max_messages
  BY <1>1, <1>7, LimitFacts DEF Bounded, TypeOK
<1> HIDE DEF d, got
<1>9. CASE StopsAt(d, decoded_count, max_messages)
  <2>1. /\ pc' = "done" /\ exit' = "success" /\ got_in_chunk' = got
        /\ UNCHANGED progress
    BY <1>6, <1>9 DEF Return
  <2>2. TypeOK'
    BY <1>1, <1>2, <1>3, <1>4, <1>6, <2>1 DEF TypeOK, progress
  <2>3. Accounted'
    BY <1>5, <1>6, <2>1 DEF Accounted, Bounded, progress
  <2>4. StatusAgrees'
    BY <1>6, <1>8, <1>9, <2>1 DEF StatusAgrees, Bounded, TypeOK
  <2>5. Running'
    BY <2>1 DEF Running, Bounded
  <2> QED
    BY <2>2, <2>3, <2>4, <2>5
<1>10. CASE ~StopsAt(d, decoded_count, max_messages) /\ EndChunk(got)
  <2>1. /\ pc' \in {"ask", "done"} /\ exit' \in {"none", "success", "failure"}
        /\ current_seq' \in Nat /\ remaining' \in Nat /\ total_received' \in Nat
        /\ got_in_chunk' \in Nat
        /\ Accounted' /\ StatusAgrees' /\ Running'
    BY <1>2, <1>4, <1>5, <1>6, <1>7, <1>8, <1>10, EndChunkKeeps DEF Accounted
  <2>2. TypeOK'
    BY <1>1, <1>2, <1>3, <1>6, <2>1 DEF TypeOK
  <2> QED
    BY <2>1, <2>2
<1>11. CASE ~StopsAt(d, decoded_count, max_messages) /\ StayInChunk(got)
  <2>1. UNCHANGED <<pc, exit, progress>> /\ got_in_chunk' = got
    BY <1>11 DEF StayInChunk
  <2>2. TypeOK'
    BY <1>1, <1>2, <1>3, <1>4, <1>6, <2>1 DEF TypeOK, progress
  <2>3. Accounted'
    BY <1>5, <1>6, <2>1 DEF Accounted, Bounded, progress
  <2>4. StatusAgrees' /\ Running'
    BY <1>2, <1>6, <1>8, <1>11, <2>1
       DEF StatusAgrees, Running, progress, Bounded, TypeOK
  <2> QED
    BY <2>2, <2>3, <2>4
<1> QED
  BY <1>6, <1>9, <1>10, <1>11

\* Every step of the transfer keeps the invariant.
LEMMA TransferInv == IInv /\ Transfer => IInv'
<1> SUFFICES ASSUME TypeOK, Accounted, StatusAgrees, Running, Transfer
             PROVE  TypeOK' /\ Accounted' /\ StatusAgrees' /\ Running'
  BY DEF IInv
<1> UNCHANGED max_messages
  BY DEF Transfer
<1>1. CASE SendRequest
  <2>1. /\ pc = "ask" /\ pc' = "await"
        /\ req_count' = IF Bounded THEN Least(remaining, MaxPerRequest)
                                   ELSE MaxPerRequest
        /\ got_in_chunk' = 0 /\ timeouts' = 0
        /\ UNCHANGED <<exit, session, progress, decoded_count, errno, printed,
                       repeated>>
    BY <1>1 DEF SendRequest, RequestCount
  <2>2. req_count' \in Nat
    BY <2>1, DownloadAssumption DEF Least, TypeOK
  <2>3. PICK ans \in Answers(session, current_seq, req_count') :
          /\ replies' = replies \o ans
          /\ whole' = (whole /\ Full(ans, current_seq, req_count'))
    BY <1>1 DEF SendRequest
  <2>4. ans \in Seq(Datagram)
    BY <2>1, <2>2, <2>3, AnswersAreDatagrams DEF TypeOK, Running
  <2>5. replies' \in Seq(Datagram)
    BY <2>3, <2>4 DEF TypeOK
  <2>6. whole' \in BOOLEAN
    BY <2>3
  <2>7. TypeOK'
    BY <2>1, <2>2, <2>5, <2>6 DEF TypeOK, progress
  <2>8. Accounted' /\ StatusAgrees' /\ Running'
    BY <2>1 DEF Accounted, StatusAgrees, Running, Bounded, progress
  <2> QED
    BY <2>7, <2>8
<1>2. CASE SendRequestFails
  <2>1. /\ pc = "ask" /\ pc' = "done" /\ exit' = "failure" /\ errno' = "other"
        /\ UNCHANGED <<session, progress, decoded_count, chunk, replies,
                       history>>
    BY <1>2 DEF SendRequestFails, Return
  <2>2. TypeOK'
    BY <2>1 DEF TypeOK, progress, chunk, history
  <2>3. Accounted' /\ Running'
    BY <2>1 DEF Accounted, Running, Bounded, progress, chunk
  <2>4. StatusAgrees'
    BY <2>1 DEF StatusAgrees, Running, Bounded, TypeOK
  <2> QED
    BY <2>2, <2>3, <2>4
<1>3. CASE ReceiveTimeout
  BY <1>3, SilenceKeeps DEF ReceiveTimeout, TypeOK
<1>4. CASE ReceiveFails
  BY <1>4, SilenceKeeps DEF ReceiveFails, TypeOK
<1>5. CASE ReceiveEmptyReply
  <2>1. replies' \in Seq(Datagram) /\ errno' \in {"again", "other"}
    BY <1>5 DEF ReceiveEmptyReply, TypeOK
  <2> QED
    BY <1>5, <2>1, SilenceKeeps DEF ReceiveEmptyReply
<1> QED
  BY <1>1, <1>2, <1>3, <1>4, <1>5, ReplyInv DEF Transfer, IInv

\* The invariant holds in every reachable state.
THEOREM Invariance == Spec => []IInv
<1>1. IInv /\ [Next]_vars => IInv'
  <2> SUFFICES ASSUME IInv, [Next]_vars PROVE IInv'
    OBVIOUS
  <2>1. CASE UNCHANGED vars
    BY <2>1 DEF IInv, TypeOK, Accounted, StatusAgrees, Running, Bounded, vars,
                progress, chunk, history
  <2> QED
    BY <2>1, ProbeInv, TransferInv DEF Next, Terminated
<1> QED
  BY InitInv, <1>1, PTL DEF Spec
-----------------------------------------------------------------------------
(***************************************************************************)
(* The properties.                                                         *)
(***************************************************************************)

\* The variables keep the types of the code's.
THEOREM TypeCorrect == Spec => []TypeOK
BY Invariance, PTL DEF IInv

\* Position, quota and the count against -n agree, whatever arrives.
THEOREM CountersAgree == Spec => []Accounted
BY Invariance, PTL DEF IInv

\* A bounded download reports success only if it decoded something, and
\* always if it decoded everything.
THEOREM StatusSound == Spec => []StatusAgrees
BY Invariance, PTL DEF IInv

\* No request leaves the range the options name.
THEOREM RequestsWithinRange == Spec => []RequestWithinRange
<1>1. IInv => RequestWithinRange
  <2> SUFFICES ASSUME IInv, pc = "await"
               PROVE  /\ req_count \in 1..MaxPerRequest
                      /\ StartSeq <= current_seq
                      /\ Bounded =>
                           current_seq + req_count <= StartSeq + max_messages
    BY DEF RequestWithinRange
  <2>1. /\ remaining \in Nat /\ total_received \in Nat /\ got_in_chunk \in Nat
        /\ StartSeq \in Nat /\ max_messages \in Nat
        /\ MaxPerRequest \in Nat \ {0}
        /\ current_seq = StartSeq + total_received
        /\ req_count = IF Bounded THEN Least(remaining, MaxPerRequest)
                                  ELSE MaxPerRequest
        /\ Bounded => /\ total_received + remaining = max_messages
                      /\ total_received + got_in_chunk < max_messages
    BY DownloadAssumption
       DEF IInv, TypeOK, Accounted, Running
  <2>2. Bounded => remaining > 0
    BY <2>1
  <2>3. req_count \in 1..MaxPerRequest /\ (Bounded => req_count <= remaining)
    BY <2>1, <2>2 DEF Least
  <2>4. StartSeq <= current_seq
    BY <2>1
  <2>5. Bounded => current_seq + req_count <= StartSeq + max_messages
    BY <2>1, <2>3
  <2> QED
    BY <2>3, <2>4, <2>5
<1> QED
  BY <1>1, Invariance, PTL
-----------------------------------------------------------------------------
(***************************************************************************)
(* What is printed, if the server answers in order and never late.         *)
(* Replying is inductive relative to IInv.                                 *)
(***************************************************************************)

\* A download begins with nothing printed and nothing on its way.
LEMMA ReplyingInit == Init => Replying
<1> SUFFICES ASSUME Init PROVE Replying
  OBVIOUS
<1>1. /\ pc = "start" /\ replies = <<>> /\ printed = {} /\ repeated = {}
      /\ current_seq = StartSeq /\ got_in_chunk = 0
  BY DEF Init
<1>2. StartSeq..(current_seq + got_in_chunk - 1) = {} /\ NextDue = StartSeq
  BY <1>1, DownloadAssumption DEF NextDue
<1> QED
  BY <1>1, <1>2 DEF Replying, Contiguous

\* The steps before the first request print nothing and receive no reply.
LEMMA ReplyingProbe == IInv /\ Replying /\ Probe => Replying'
<1> SUFFICES ASSUME TypeOK, Replying, Probe, Server = "prompt"
             PROVE  Replying'
  BY DEF IInv, Replying
<1>1. \/ /\ pc \in {"start", "probe"} /\ pc' # "await"
         /\ UNCHANGED <<current_seq, got_in_chunk, replies, printed, repeated>>
      \/ UNCHANGED vars
  BY DEF Probe, StartFails, Connect, ProbeError, ProbeIgnored, ProbeSession,
         Return, progress, chunk, history
<1>2. CASE UNCHANGED vars
  BY <1>2 DEF Replying, Contiguous, NextDue, vars, progress, chunk, history
<1>3. CASE /\ pc \in {"start", "probe"} /\ pc' # "await"
           /\ UNCHANGED <<current_seq, got_in_chunk, replies, printed, repeated>>
  <2>1. replies' = <<>>
    BY <1>3 DEF Replying
  <2>2. FromServer(replies', session') /\ BringsNothing(replies')
    BY <2>1 DEF FromServer, BringsNothing
  <2> QED
    BY <1>3, <2>1, <2>2 DEF Replying, Contiguous, NextDue
<1> QED
  BY <1>1, <1>2, <1>3

\* The end of a chunk moves the position by what arrived.
LEMMA EndChunkPosition ==
  ASSUME current_seq \in Nat, NEW got \in Nat, EndChunk(got)
  PROVE  /\ got_in_chunk' = 0
         /\ current_seq' + got_in_chunk' = current_seq + got
         /\ pc' \in {"ask", "done"}
  BY DEF EndChunk, GiveUp, TakeChunk, Return, progress

\* The facts about a request under way that the next reply is read against.
LEMMA Awaiting ==
  ASSUME IInv, Replying, Server = "prompt", pc = "await"
  PROVE  /\ current_seq \in Nat /\ got_in_chunk \in Nat /\ req_count \in Nat \ {0}
         /\ got_in_chunk < req_count
         /\ NextDue = current_seq + got_in_chunk /\ NextDue \in Nat
         /\ StartSeq \in Nat /\ StartSeq <= NextDue
         /\ FromServer(replies, session)
         /\ printed = StartSeq..(NextDue - 1) /\ repeated = {}
         /\ NextDue = StartSeq \/ NextDue <= Last + 1
         /\ \E next \in NextDue..(current_seq + req_count) :
              Conveys(replies, NextDue, next)
<1>1. /\ current_seq \in Nat /\ got_in_chunk \in Nat /\ req_count \in Nat
      /\ total_received \in Nat
      /\ current_seq = StartSeq + total_received /\ StartSeq \in Nat
  BY DownloadAssumption DEF IInv, TypeOK, Accounted
<1>2. NextDue = current_seq + got_in_chunk /\ NextDue \in Nat /\ StartSeq <= NextDue
  BY <1>1 DEF NextDue
<1>3. got_in_chunk < req_count
  BY DEF Replying
<1>4. req_count \in Nat \ {0}
  BY <1>1, <1>3
<1> QED
  BY <1>1, <1>2, <1>3, <1>4 DEF Replying, Contiguous

\* A prompt server is never silent before the last reply has been read, and
\* none of its datagrams reads as silence.
LEMMA PromptSilence ==
  ASSUME IInv, Replying, Server = "prompt",
         ReceiveTimeout \/ ReceiveFails \/ ReceiveEmptyReply
  PROVE  ReceiveTimeout /\ pc = "await" /\ replies = <<>>
<1>1. ~ReceiveFails
  BY DEF ReceiveFails
<1>2. ~ReceiveEmptyReply
  <2> SUFFICES ASSUME ReceiveEmptyReply PROVE FALSE
    OBVIOUS
  <2>1. replies \in Seq(Datagram) /\ replies # <<>> /\ Head(replies).kind = "empty"
        /\ FromServer(replies, session)
    BY DEF ReceiveEmptyReply, IInv, TypeOK, Replying
  <2> QED
    BY <2>1, QueueFacts
<1> QED
  BY <1>1, <1>2 DEF ReceiveTimeout

\* A reply of a prompt server is the next one due: what it brings is printed
\* for the first time, NextDue moves behind it, and what is left on the way
\* continues there.
LEMMA ReplyStep ==
  ASSUME IInv, Replying, Server = "prompt", ReceiveReply, UNCHANGED max_messages
  PROVE  /\ NextDue \in Nat /\ NextDue' \in Nat /\ NextDue <= NextDue'
         /\ printed' = StartSeq..(NextDue' - 1)
         /\ repeated' = {}
         /\ NextDue' = StartSeq \/ NextDue' <= Last + 1
         /\ \A e \in Nat : NextDue <= e /\ Conveys(replies, NextDue, e)
              => /\ NextDue' <= e
                 /\ ~StopsAt(Head(replies), decoded_count, max_messages)
                      => Conveys(replies', NextDue', e)
         /\ FromServer(replies', session)
         /\ pc' \in {"ask", "await", "done"}
         /\ pc' = "ask" =>
              /\ ~StopsAt(Head(replies), decoded_count, max_messages)
              /\ NextDue' >= current_seq + req_count
         /\ pc' = "await" =>
              /\ ~StopsAt(Head(replies), decoded_count, max_messages)
              /\ current_seq' = current_seq /\ got_in_chunk' < req_count
<1> DEFINE d == Head(replies)
           x == Processed(d, decoded_count, max_messages)
           got == got_in_chunk + x
           p == NextDue
<1>1. /\ pc = "await" /\ replies # <<>> /\ replies' = Tail(replies)
      /\ Decode(d)
      /\ IF StopsAt(d, decoded_count, max_messages)
         THEN /\ pc' = "done"
              /\ got_in_chunk' = got
              /\ UNCHANGED progress
         ELSE IF got >= req_count THEN EndChunk(got) ELSE StayInChunk(got)
      /\ UNCHANGED <<session, req_count>>
  BY DEF ReceiveReply, Return
<1>2. /\ current_seq \in Nat /\ got_in_chunk \in Nat /\ req_count \in Nat \ {0}
      /\ p = current_seq + got_in_chunk /\ p \in Nat
      /\ StartSeq \in Nat /\ StartSeq <= p
      /\ FromServer(replies, session)
      /\ printed = StartSeq..(p - 1) /\ repeated = {}
      /\ p = StartSeq \/ p <= Last + 1
      /\ \E next \in p..(current_seq + req_count) : Conveys(replies, p, next)
  BY <1>1, Awaiting
<1>3. /\ replies \in Seq(Datagram) /\ d \in Datagram
      /\ decoded_count \in Nat /\ max_messages \in Nat
  BY <1>1 DEF IInv, TypeOK
<1>0. d = Head(replies)
  OBVIOUS
<1> HIDE DEF d, x, p, got
<1>4. ASSUME NEW e \in Nat, p <= e, Conveys(replies, p, e)
      PROVE  /\ x \in Nat
             /\ p + x <= e
             /\ d.session = session =>
                  Numbers(d, decoded_count, max_messages) = p..(p + x - 1)
             /\ d.session # session => x = 0
             /\ x > 0 => p + x <= Last + 1
             /\ ~StopsAt(d, decoded_count, max_messages) => Conveys(Tail(replies), p + x, e)
  <2>1. /\ replies \in Seq(Datagram) /\ replies # <<>>
        /\ p \in Nat /\ e \in Nat /\ p <= e /\ Conveys(replies, p, e)
        /\ FromServer(replies, session)
        /\ decoded_count \in Nat /\ max_messages \in Nat
    BY <1>1, <1>2, <1>3, <1>4
  <2>2. TakesNext(replies, session, p, e, decoded_count, max_messages)
    BY <2>1, NextReply
  <2> QED
    BY <2>2 DEF TakesNext, d, x
<1>5. PICK e0 \in Nat : p <= e0 /\ Conveys(replies, p, e0)
  <2>1. PICK next \in p..(current_seq + req_count) : Conveys(replies, p, next)
    BY <1>2
  <2>2. next \in Nat /\ p <= next
    BY <1>2, <2>1
  <2> QED
    BY <2>1, <2>2
<1>6. /\ x \in Nat
      /\ d.session = session =>
           Numbers(d, decoded_count, max_messages) = p..(p + x - 1)
      /\ d.session # session => x = 0
      /\ x > 0 => p + x <= Last + 1
  BY <1>4, <1>5
<1>7. got \in Nat /\ current_seq + got = p + x
  BY <1>2, <1>6 DEF got
<1>8. NextDue' = p + x
  <2>1. NextDue' = current_seq' + got_in_chunk'
    BY DEF NextDue
  <2>2. CASE StopsAt(d, decoded_count, max_messages)
    BY <1>1, <1>7, <2>1, <2>2 DEF progress
  <2>3. CASE EndChunk(got)
    BY <1>2, <1>7, <2>1, <2>3, EndChunkPosition
  <2>4. CASE StayInChunk(got)
    BY <1>7, <2>1, <2>4 DEF StayInChunk, progress
  <2> QED
    BY <1>1, <2>2, <2>3, <2>4
<1>9. NextDue' \in Nat /\ p <= NextDue'
  BY <1>2, <1>6, <1>8
<1>10. printed' = StartSeq..(NextDue' - 1) /\ repeated' = {}
  <2>1. /\ printed' = printed \cup (p..(p + x - 1))
        /\ repeated' = repeated \cup (printed \cap (p..(p + x - 1)))
    <3>1. CASE d.session = session
      BY <1>1, <1>6, <3>1 DEF Decode
    <3>2. CASE d.session # session
      <4>1. p..(p + x - 1) = {}
        BY <1>2, <1>6, <3>2
      <4> QED
        BY <1>1, <3>2, <4>1 DEF Decode
    <3> QED
      BY <3>1, <3>2
  <2>2. /\ (StartSeq..(p - 1)) \cup (p..(p + x - 1)) = StartSeq..(p + x - 1)
        /\ (StartSeq..(p - 1)) \cap (p..(p + x - 1)) = {}
    BY <1>2, <1>6
  <2>3. NextDue' - 1 = p + x - 1
    BY <1>2, <1>6, <1>8
  <2> QED
    BY <1>2, <2>1, <2>2, <2>3
<1>11. NextDue' = StartSeq \/ NextDue' <= Last + 1
  BY <1>2, <1>6, <1>8
<1>12. ASSUME NEW e \in Nat, p <= e, Conveys(replies, p, e)
       PROVE  /\ NextDue' <= e
              /\ ~StopsAt(d, decoded_count, max_messages) => Conveys(replies', NextDue', e)
  BY <1>1, <1>4, <1>8, <1>12
<1>13. FromServer(replies', session)
  BY <1>1, <1>2, <1>3, QueueFacts
<1>14. /\ pc' \in {"ask", "await", "done"}
       /\ pc' = "ask" => /\ ~StopsAt(d, decoded_count, max_messages)
                         /\ got >= req_count
       /\ pc' = "await" => /\ ~StopsAt(d, decoded_count, max_messages)
                           /\ ~(got >= req_count)
                           /\ current_seq' = current_seq /\ got_in_chunk' = got
  BY <1>1, <1>2, <1>7, EndChunkPosition DEF StayInChunk, progress
<1>15. pc' = "ask" => NextDue' >= current_seq + req_count
  BY <1>2, <1>7, <1>8, <1>14
<1>16. pc' = "await" => got_in_chunk' < req_count
  BY <1>2, <1>7, <1>14
<1> QED
  BY <1>0, <1>2, <1>9, <1>10, <1>11, <1>12, <1>13, <1>14, <1>15, <1>16, Zenon DEF p

\* Every step of the transfer keeps Replying.
LEMMA ReplyingTransfer == IInv /\ Replying /\ Transfer => Replying'
<1> SUFFICES ASSUME IInv, Replying, Transfer, Server = "prompt"
             PROVE  Replying'
  BY DEF Replying
<1>0. /\ UNCHANGED max_messages
      /\ TypeOK /\ Running /\ Accounted
      /\ replies \in Seq(Datagram) /\ current_seq \in Nat /\ req_count \in Nat
      /\ printed = StartSeq..(NextDue - 1) /\ repeated = {}
      /\ NextDue = StartSeq \/ NextDue <= Last + 1
  BY DEF Transfer, IInv, TypeOK, Replying, Contiguous, NextDue
<1>1. CASE SendRequest
  <2>1. /\ pc = "ask" /\ pc' = "await" /\ got_in_chunk' = 0
        /\ req_count' = IF Bounded THEN Least(remaining, MaxPerRequest)
                                   ELSE MaxPerRequest
        /\ UNCHANGED <<session, current_seq, printed, repeated>>
    BY <1>1 DEF SendRequest, RequestCount, progress
  <2>2. /\ got_in_chunk = 0 /\ session \in Sessions
        /\ FromServer(replies, session) /\ BringsNothing(replies)
    BY <1>0, <2>1 DEF Running, Replying
  <2>3. req_count' \in Nat \ {0}
    <3>1. Bounded => remaining \in Nat \ {0}
      BY <1>0, <2>1, <2>2 DEF Running, Accounted, TypeOK
    <3> QED
      BY <2>1, <3>1, DownloadAssumption DEF Least
  <2>4. PICK ans \in Answers(session, current_seq, req_count') : replies' = replies \o ans
    BY <1>1 DEF SendRequest
  <2>5. /\ ans \in Seq(Datagram)
        /\ FromServer(ans, session)
        /\ Reach(ans, current_seq) \in current_seq..(current_seq + req_count')
        /\ Conveys(ans, current_seq, Reach(ans, current_seq))
    BY <1>0, <2>2, <2>3, PromptAnswers, AnswersAreDatagrams
  <2>6. Conveys(replies', current_seq, Reach(ans, current_seq))
    BY <1>0, <2>2, <2>4, <2>5, ConveysBehind
  <2>7. FromServer(replies', session)
    BY <1>0, <2>2, <2>4, <2>5, QueueFacts
  <2>8. NextDue' = current_seq /\ NextDue = current_seq
    BY <1>0, <2>1, <2>2 DEF NextDue
  <2>9. got_in_chunk' < req_count'
    BY <2>1, <2>3
  <2>10. Contiguous'
    BY <1>0, <2>1, <2>2 DEF Contiguous, NextDue
  <2>11. \E next \in NextDue'..(current_seq' + req_count') :
           Conveys(replies', NextDue', next)
    BY <2>1, <2>5, <2>6, <2>8
  <2> QED
    BY <1>0, <2>1, <2>7, <2>8, <2>9, <2>10, <2>11 DEF Replying
<1>2. CASE SendRequestFails
  <2>1. pc' = "done" /\ UNCHANGED <<current_seq, got_in_chunk, printed, repeated>>
    BY <1>2 DEF SendRequestFails, Return, progress, chunk, history
  <2> QED
    BY <1>0, <2>1 DEF Replying, Contiguous, NextDue
<1>3. CASE ReceiveTimeout \/ ReceiveFails \/ ReceiveEmptyReply
  <2>1. ReceiveTimeout /\ pc = "await" /\ replies = <<>>
    BY <1>3, PromptSilence
  <2>2. /\ CountSilence
        /\ UNCHANGED <<session, req_count, replies, printed, repeated>>
    BY <2>1 DEF ReceiveTimeout, history
  <2>3. /\ got_in_chunk \in Nat /\ NextDue = current_seq + got_in_chunk
        /\ FromServer(replies, session)
    BY <2>1, Awaiting
  <2>4. FromServer(replies', session') /\ BringsNothing(replies')
    BY <2>1, <2>2, <2>3 DEF BringsNothing
  <2>5. CASE EndChunk(got_in_chunk)
    <3>1. /\ got_in_chunk' = 0 /\ pc' \in {"ask", "done"}
          /\ current_seq' + got_in_chunk' = current_seq + got_in_chunk
      BY <1>0, <2>3, <2>5, EndChunkPosition
    <3>2. NextDue' = NextDue
      BY <2>3, <3>1 DEF NextDue
    <3>3. Contiguous'
      <4>1. current_seq' \in Nat /\ got_in_chunk' \in Nat
        BY TransferInv DEF IInv, TypeOK
      <4>2. NextDue' - 1 = current_seq' + got_in_chunk' - 1
        BY <4>1 DEF NextDue
      <4> QED
        BY <1>0, <2>2, <3>2, <4>2 DEF Contiguous
    <3> QED
      BY <1>0, <2>4, <3>1, <3>2, <3>3 DEF Replying
  <2>6. CASE StayInChunk(got_in_chunk)
    <3>1. UNCHANGED <<pc, current_seq, got_in_chunk>>
      BY <2>6 DEF StayInChunk, progress
    <3> QED
      BY <2>2, <3>1 DEF Replying, Contiguous, NextDue
  <2> QED
    BY <2>2, <2>5, <2>6 DEF CountSilence
<1>4. CASE ReceiveReply
  <2>1. /\ pc = "await" /\ replies' = Tail(replies) /\ replies # <<>>
        /\ UNCHANGED <<session, req_count>>
    BY <1>4 DEF ReceiveReply
  <2>2. /\ NextDue \in Nat /\ NextDue' \in Nat /\ NextDue <= NextDue'
        /\ printed' = StartSeq..(NextDue' - 1)
        /\ repeated' = {}
        /\ NextDue' = StartSeq \/ NextDue' <= Last + 1
        /\ \A e \in Nat : NextDue <= e /\ Conveys(replies, NextDue, e)
             => /\ NextDue' <= e
                /\ ~StopsAt(Head(replies), decoded_count, max_messages)
                     => Conveys(replies', NextDue', e)
        /\ FromServer(replies', session)
        /\ pc' \in {"ask", "await", "done"}
        /\ pc' = "ask" =>
             /\ ~StopsAt(Head(replies), decoded_count, max_messages)
             /\ NextDue' >= current_seq + req_count
        /\ pc' = "await" =>
             /\ ~StopsAt(Head(replies), decoded_count, max_messages)
             /\ current_seq' = current_seq /\ got_in_chunk' < req_count
    BY <1>0, <1>4, ReplyStep
  <2>3. PICK e \in Nat : /\ NextDue <= e /\ e <= current_seq + req_count
                         /\ Conveys(replies, NextDue, e)
    <3>1. PICK next \in NextDue..(current_seq + req_count) :
            Conveys(replies, NextDue, next)
      BY <2>1, Awaiting
    <3>2. next \in Nat /\ NextDue <= next /\ next <= current_seq + req_count
      BY <1>0, <2>2
    <3> QED
      BY <3>1, <3>2
  <2>4. /\ NextDue' <= e
        /\ pc' \in {"ask", "await"} => Conveys(replies', NextDue', e)
    BY <2>2, <2>3
  <2>5. replies' \in Seq(Datagram)
    BY <1>0, <2>1
  <2>6. pc' = "ask" => BringsNothing(replies')
    <3> SUFFICES ASSUME pc' = "ask" PROVE BringsNothing(replies')
      OBVIOUS
    <3>1. e = NextDue'
      BY <1>0, <2>2, <2>3, <2>4
    <3> QED
      BY <2>2, <2>4, <2>5, <3>1, ConveysNothing
  <2>7. pc' = "await" => \E next \in NextDue'..(current_seq' + req_count') :
                           Conveys(replies', NextDue', next)
    BY <1>0, <2>1, <2>2, <2>3, <2>4
  <2>8. Contiguous'
    <3>1. current_seq' \in Nat /\ got_in_chunk' \in Nat
      BY TransferInv DEF IInv, TypeOK
    <3>2. NextDue' - 1 = current_seq' + got_in_chunk' - 1
      BY <3>1 DEF NextDue
    <3> QED
      BY <2>2, <3>2 DEF Contiguous
  <2> QED
    BY <2>1, <2>2, <2>6, <2>7, <2>8 DEF Replying
<1> QED
  BY <1>1, <1>2, <1>3, <1>4 DEF Transfer

\* Replying holds in every reachable state.
THEOREM RepliesInOrder == Spec => []Replying
<1>1. IInv /\ Replying /\ [Next]_vars => Replying'
  <2> SUFFICES ASSUME IInv, Replying, [Next]_vars PROVE Replying'
    OBVIOUS
  <2>1. CASE UNCHANGED vars
    BY <2>1 DEF Replying, Contiguous, NextDue, vars, progress, chunk, history
  <2> QED
    BY <2>1, ReplyingProbe, ReplyingTransfer DEF Next, Terminated
<1> QED
  BY ReplyingInit, <1>1, Invariance, PTL DEF Spec

\* With a server that answers in order and never late, what is printed is at
\* every moment a range from the start without holes, each number once, and
\* the request under way continues it.
THEOREM PrintedContiguous ==
  ASSUME Server = "prompt"
  PROVE  Spec => []Contiguous
<1>1. Replying => Contiguous
  BY DEF Replying
<1> QED
  BY <1>1, RepliesInOrder, PTL
-----------------------------------------------------------------------------
(***************************************************************************)
(* A download that succeeds is complete while the server answers in full.  *)
(***************************************************************************)

\* At the start no request is under way.
LEMMA ClosingInit == Init => Closing
<1> SUFFICES ASSUME Init PROVE Closing
  OBVIOUS
<1>1. pc = "start" /\ (whole => Server = "prompt")
  BY DEF Init
<1> QED
  BY <1>1 DEF Closing

\* While a full answer is being read the server is not silent, unless it has
\* nothing more.
LEMMA SilentWhole ==
  ASSUME IInv, Replying, Closing, whole,
         ReceiveTimeout \/ ReceiveFails \/ ReceiveEmptyReply
  PROVE  /\ Server = "prompt" /\ pc = "await"
         /\ NextDue = AnswerEnd(current_seq, req_count)
<1>1. Server = "prompt"
  BY DEF Closing
<1>2. pc = "await" /\ replies = <<>>
  BY <1>1, PromptSilence
<1>3. Conveys(replies, NextDue, AnswerEnd(current_seq, req_count))
  BY <1>2 DEF Closing
<1> QED
  BY <1>1, <1>2, <1>3, ConveysEmpty

\* A request ends at a number.
LEMMA AnswerEndNat ==
  ASSUME NEW a \in Nat, NEW n \in Nat
  PROVE  AnswerEnd(a, n) \in Nat
BY ServerAssumption DEF AnswerEnd, Least

\* Every step keeps Closing.
LEMMA ClosingStep == IInv /\ Replying /\ Closing /\ [Next]_vars => Closing'
<1> SUFFICES ASSUME IInv, Replying, Closing, [Next]_vars PROVE Closing'
  OBVIOUS
<1>1. CASE UNCHANGED vars
  BY <1>1 DEF Closing, NextDue, vars, progress, chunk, history
<1>2. ASSUME pc' # "await", UNCHANGED whole PROVE Closing'
  BY <1>2 DEF Closing
<1>3. CASE Probe
  <2>1. UNCHANGED vars \/ (pc' # "await" /\ UNCHANGED whole)
    BY <1>3 DEF Probe, StartFails, Connect, ProbeError, ProbeIgnored,
       ProbeSession, Return, history
  <2> QED
    BY <1>1, <1>2, <2>1
<1>0. /\ TypeOK /\ Running /\ Accounted
      /\ replies \in Seq(Datagram) /\ current_seq \in Nat /\ req_count \in Nat
  BY DEF IInv, TypeOK
<1>4. CASE SendRequest
  <2>1. /\ pc = "ask" /\ got_in_chunk' = 0
        /\ req_count' = IF Bounded THEN Least(remaining, MaxPerRequest)
                                   ELSE MaxPerRequest
        /\ UNCHANGED <<session, current_seq>>
    BY <1>4 DEF SendRequest, RequestCount, progress
  <2>2. /\ session \in Sessions /\ req_count' \in Nat
    BY <1>0, <2>1, DownloadAssumption DEF Running, Least, TypeOK
  <2>3. PICK ans \in Answers(session, current_seq, req_count') :
          /\ replies' = replies \o ans
          /\ whole' = (whole /\ Full(ans, current_seq, req_count'))
    BY <1>4 DEF SendRequest
  <2>4. CASE ~whole'
    BY <2>4 DEF Closing
  <2>5. CASE whole'
    <3>1. /\ Server = "prompt"
          /\ Reach(ans, current_seq) = AnswerEnd(current_seq, req_count')
      BY <2>3, <2>5 DEF Full
    <3>2. BringsNothing(replies)
      BY <2>1, <3>1 DEF Replying
    <3>3. /\ ans \in Seq(Datagram)
          /\ Conveys(ans, current_seq, AnswerEnd(current_seq, req_count'))
      BY <1>0, <2>2, <3>1, PromptAnswers, AnswersAreDatagrams
    <3>4. AnswerEnd(current_seq, req_count') \in Nat
      BY <1>0, <2>2, AnswerEndNat, Zenon
    <3>5. Conveys(replies', current_seq, AnswerEnd(current_seq, req_count'))
      BY <1>0, <2>3, <3>2, <3>3, <3>4, ConveysBehind
    <3>6. NextDue' = current_seq
      BY <1>0, <2>1 DEF NextDue
    <3> QED
      BY <2>1, <3>1, <3>5, <3>6 DEF Closing
  <2> QED
    BY <2>4, <2>5
<1>5. CASE SendRequestFails
  BY <1>2, <1>5 DEF SendRequestFails, Return, history
<1>6. CASE ReceiveTimeout \/ ReceiveFails \/ ReceiveEmptyReply
  <2>1. CountSilence /\ UNCHANGED <<whole, req_count>>
    BY <1>6 DEF ReceiveTimeout, ReceiveFails, ReceiveEmptyReply, history
  <2>2. CASE ~whole
    BY <2>1, <2>2 DEF Closing
  <2>3. CASE whole
    <3>1. ReceiveTimeout /\ pc = "await" /\ UNCHANGED replies
      BY <1>6, <2>3, SilentWhole, PromptSilence DEF ReceiveTimeout
    <3>2. CASE pc' # "await"
      BY <1>2, <2>1, <3>2
    <3>3. CASE pc' = "await"
      <4>1. StayInChunk(got_in_chunk)
        <5>1. ~EndChunk(got_in_chunk)
          BY <3>3 DEF EndChunk, GiveUp, TakeChunk, Return
        <5> QED
          BY <2>1, <5>1 DEF CountSilence
      <4> QED
        BY <2>1, <2>3, <3>1, <4>1 DEF StayInChunk, progress, Closing, NextDue
    <3> QED
      BY <3>2, <3>3
  <2> QED
    BY <2>2, <2>3
<1>7. CASE ReceiveReply /\ UNCHANGED max_messages
  <2>1. /\ pc = "await" /\ UNCHANGED <<whole, req_count>>
    BY <1>7 DEF ReceiveReply, Decode
  <2>2. CASE whole /\ pc' = "await"
    <3>1. /\ Server = "prompt"
          /\ Conveys(replies, NextDue, AnswerEnd(current_seq, req_count))
      BY <2>1, <2>2 DEF Closing
    <3>2. /\ NextDue \in Nat
          /\ \A e \in Nat : NextDue <= e /\ Conveys(replies, NextDue, e)
               => (~StopsAt(Head(replies), decoded_count, max_messages)
                     => Conveys(replies', NextDue', e))
          /\ ~StopsAt(Head(replies), decoded_count, max_messages)
          /\ current_seq' = current_seq
      BY <1>7, <2>2, <3>1, ReplyStep
    <3>3. AnswerEnd(current_seq, req_count) \in Nat
      BY <1>0, AnswerEndNat, Zenon
    <3>4. NextDue <= AnswerEnd(current_seq, req_count)
      BY <1>0, <3>1, <3>2, <3>3, ConveysUp, Zenon
    <3> QED
      BY <2>1, <3>1, <3>2, <3>3, <3>4 DEF Closing
  <2> QED
    BY <1>2, <2>1, <2>2 DEF Closing
<1> QED
  BY <1>1, <1>3, <1>4, <1>5, <1>6, <1>7 DEF Next, Terminated, Transfer

\* A range that ends where the server ends.
LEMMA RangeToLast ==
  ASSUME NEW a \in Nat, NEW p \in Nat, p = a \/ p <= Last + 1, p > Last
  PROVE  a..(p - 1) = a..Last
<1>1. CASE p <= Last + 1
  <2>1. p - 1 = Last
    BY <1>1, ServerAssumption
  <2> QED
    BY <2>1
<1>2. CASE p = a
  BY <1>2, ServerAssumption
<1> QED
  BY <1>1, <1>2

\* A step that ends the download with success leaves it complete.
LEMMA CompleteStep ==
  IInv /\ Replying /\ Closing /\ DownloadComplete /\ [Next]_vars => DownloadComplete'
<1> SUFFICES ASSUME IInv, Replying, Closing, DownloadComplete, [Next]_vars,
                    exit' = "success", whole'
             PROVE  printed' = IF Bounded'
                               THEN StartSeq..Least(StartSeq + max_messages' - 1, Last)
                               ELSE StartSeq..Last
  BY DEF DownloadComplete
<1>0. /\ UNCHANGED max_messages /\ (Bounded' <=> Bounded)
      /\ TypeOK /\ Running /\ Accounted
      /\ max_messages \in Nat /\ decoded_count \in Nat /\ current_seq \in Nat
      /\ total_received \in Nat /\ remaining \in Nat /\ StartSeq \in Nat
      /\ replies \in Seq(Datagram) /\ Last \in Nat
  BY DownloadAssumption, ServerAssumption
     DEF Next, Probe, Transfer, Terminated, vars, Bounded, IInv, TypeOK
<1>1. CASE UNCHANGED vars
  BY <1>0, <1>1 DEF DownloadComplete, vars, history
<1>2. CASE Probe
  <2>1. UNCHANGED vars \/ (pc \in {"start", "probe"} /\ exit' \in {exit, "failure"})
    BY <1>2 DEF Probe, StartFails, Connect, ProbeError, ProbeIgnored,
       ProbeSession, Return
  <2>2. pc \in {"start", "probe"} => exit = "none"
    BY <1>0 DEF Running
  <2> QED
    BY <1>1, <2>1, <2>2
<1>3. CASE SendRequest \/ SendRequestFails
  <2>1. pc = "ask" /\ exit' \in {exit, "failure"}
    BY <1>3 DEF SendRequest, SendRequestFails, Return
  <2> QED
    BY <1>0, <2>1 DEF Running
<1>4. ASSUME pc = "await"
      PROVE  /\ exit = "none"
             /\ current_seq = StartSeq + total_received
             /\ Bounded => /\ decoded_count < max_messages
                           /\ total_received + remaining = max_messages
                           /\ decoded_count = total_received + got_in_chunk
                           /\ req_count <= remaining
  <2>1. /\ exit = "none"
        /\ current_seq = StartSeq + total_received
        /\ Bounded => /\ decoded_count < max_messages
                      /\ total_received + remaining = max_messages
                      /\ decoded_count = total_received + got_in_chunk
                      /\ req_count = Least(remaining, MaxPerRequest)
    BY <1>0, <1>4 DEF Running, Accounted
  <2> QED
    BY <1>0, <2>1, DownloadAssumption DEF Least
<1>5. CASE ReceiveTimeout \/ ReceiveFails \/ ReceiveEmptyReply
  <2>1. /\ pc = "await" /\ CountSilence /\ UNCHANGED <<whole, printed>> /\ whole
    BY <1>5 DEF ReceiveTimeout, ReceiveFails, ReceiveEmptyReply, history
  <2>2. Server = "prompt" /\ NextDue = AnswerEnd(current_seq, req_count)
    BY <1>5, <2>1, SilentWhole
  <2>3. /\ got_in_chunk \in Nat /\ req_count \in Nat \ {0}
        /\ got_in_chunk < req_count
        /\ NextDue = current_seq + got_in_chunk /\ NextDue \in Nat
        /\ printed = StartSeq..(NextDue - 1)
        /\ NextDue = StartSeq \/ NextDue <= Last + 1
    BY <2>1, <2>2, Awaiting
  <2>4. EndChunk(got_in_chunk)
    BY <1>4, <2>1 DEF CountSilence, StayInChunk
  <2>5. got_in_chunk = 0
    <3> SUFFICES ASSUME got_in_chunk # 0 PROVE FALSE
      OBVIOUS
    <3>1. Bounded /\ remaining' = 0
          /\ remaining' = IF got_in_chunk >= remaining THEN 0 ELSE remaining - got_in_chunk
      BY <1>4, <2>1, <2>4 DEF EndChunk, TakeChunk, Return
    <3> QED
      BY <1>0, <1>4, <2>1, <2>3, <3>1
  <2>6. NextDue = current_seq
    BY <1>0, <2>3, <2>5
  <2>7. current_seq > Last
    BY <1>0, <2>2, <2>3, <2>6 DEF AnswerEnd, Least
  <2>8. printed = StartSeq..Last
    BY <1>0, <2>3, <2>6, <2>7, RangeToLast
  <2>9. Bounded => Least(StartSeq + max_messages - 1, Last) = Last
    <3> SUFFICES ASSUME Bounded PROVE Least(StartSeq + max_messages - 1, Last) = Last
      OBVIOUS
    <3>1. total_received < max_messages /\ current_seq = StartSeq + total_received
      BY <1>4, <2>1, <2>5, <1>0
    <3>2. StartSeq + max_messages - 1 > Last
      BY <1>0, <2>7, <3>1
    <3> QED
      BY <1>0, <3>2 DEF Least
  <2> QED
    BY <1>0, <2>1, <2>8, <2>9
<1>6. CASE ReceiveReply /\ UNCHANGED max_messages
  <2> DEFINE d == Head(replies)
             got == got_in_chunk + Processed(d, decoded_count, max_messages)
  <2>1. /\ pc = "await" /\ replies # <<>> /\ UNCHANGED whole
        /\ decoded_count' = Tally(d, decoded_count, max_messages)
        /\ IF StopsAt(d, decoded_count, max_messages)
           THEN got_in_chunk' = got /\ UNCHANGED progress
           ELSE IF got >= req_count THEN EndChunk(got) ELSE StayInChunk(got)
    BY <1>6 DEF ReceiveReply, Decode
  <2>2. Server = "prompt"
    BY <2>1 DEF Closing
  <2>3. /\ NextDue' \in Nat /\ printed' = StartSeq..(NextDue' - 1)
        /\ NextDue' = StartSeq \/ NextDue' <= Last + 1
    BY <1>6, <2>2, ReplyStep
  <2>4. d \in Datagram
    BY <1>0, <2>1
  <2>5. Accounted' /\ TypeOK'
    BY <1>6, ReplyInv DEF IInv
  <2>6. got \in Nat
    <3>1. Processed(d, decoded_count, max_messages) \in Nat
      BY <1>0, <2>4, ProcessedFacts
    <3>2. got_in_chunk \in Nat
      BY <1>0 DEF TypeOK
    <3> HIDE DEF d
    <3> QED
      BY <3>1, <3>2
  <2> HIDE DEF d, got
  <2>7. CASE StopsAt(d, decoded_count, max_messages)
    <3>1. Bounded /\ decoded_count' = max_messages
      BY <1>0, <1>4, <2>1, <2>4, <2>7, LimitFacts DEF StopsAt, Bounded
    <3>2. /\ current_seq' = StartSeq + total_received'
          /\ max_messages = total_received' + got_in_chunk'
          /\ total_received' \in Nat /\ got_in_chunk' \in Nat
      BY <1>0, <2>5, <3>1 DEF Accounted, TypeOK
    <3>3. NextDue' = StartSeq + max_messages
      BY <1>0, <3>2 DEF NextDue
    <3>4. NextDue' <= Last + 1
      BY <1>0, <2>3, <3>1, <3>3 DEF Bounded
    <3>5. Least(StartSeq + max_messages - 1, Last) = NextDue' - 1
      BY <1>0, <3>3, <3>4 DEF Least
    <3> QED
      BY <1>0, <2>3, <3>1, <3>5
  <2>8. CASE ~StopsAt(d, decoded_count, max_messages) /\ EndChunk(got) /\ got >= req_count
    <3>1. req_count \in Nat \ {0}
      BY <2>1, <2>2, Awaiting
    <3>2. got # 0
      BY <2>6, <2>8, <3>1
    <3>3. Bounded /\ remaining' = 0 /\ got_in_chunk' = 0
      BY <1>4, <2>1, <2>8, <3>2 DEF EndChunk, TakeChunk, Return
    <3>4. decoded_count' < max_messages
      BY <1>0, <1>4, <2>1, <2>4, <2>8, <3>3, LimitFacts DEF Bounded
    <3>5. decoded_count' = max_messages
      BY <1>0, <2>5, <3>3 DEF Accounted, TypeOK
    <3> QED
      BY <1>0, <3>4, <3>5
  <2>9. CASE ~StopsAt(d, decoded_count, max_messages) /\ StayInChunk(got)
    BY <1>4, <2>1, <2>9 DEF StayInChunk
  <2> QED
    BY <2>1, <2>7, <2>8, <2>9
<1> QED
  BY <1>1, <1>2, <1>3, <1>5, <1>6 DEF Next, Terminated, Transfer

\* If the server answered every request in full and in time, a download that
\* reports success has printed exactly the messages asked for that it has.
THEOREM SuccessIsComplete == Spec => []DownloadComplete
<1>1. Init => DownloadComplete
  BY DEF Init, DownloadComplete
<1> QED
  BY <1>1, ClosingInit, ClosingStep, CompleteStep, Invariance, RepliesInOrder, PTL
     DEF Spec
=============================================================================
