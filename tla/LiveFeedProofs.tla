--------------------------- MODULE LiveFeedProofs ---------------------------
(***************************************************************************)
(* The safety properties of live mode, for every feed, server, limit and   *)
(* request size.  IInv of LiveFeed is inductive; the properties follow.    *)
(***************************************************************************)
EXTENDS LiveFeed, PacketLemmas

\* What the history holds stays typed.
LEMMA HistoryType ==
  ASSUME NEW o \in History,
         NEW batch \in SUBSET Nat, NEW w \in BOOLEAN
  PROVE  /\ PrintLive(o, batch, w) \in History
         /\ PrintLive(o, batch, w).live = o.live \cup batch
         /\ PrintLive(o, batch, w).again = o.again \cup (o.live \cap batch)
BY DEF PrintLive, History

\* Replies leave the history of the multicast as it was.
LEMMA FilledType ==
  ASSUME NEW o \in History, NEW batch \in SUBSET Nat
  PROVE  /\ PrintFilled(o, batch) \in History
         /\ PrintFilled(o, batch).live = o.live
         /\ PrintFilled(o, batch).again = o.again
BY DEF PrintFilled, History

\* A stay begins with an empty history.
LEMMA BlankType ==
  ASSUME NEW n \in Nat
  PROVE  /\ Blank(n) \in History
         /\ Blank(n).live = {}
         /\ Blank(n).again = {}
BY DEF Blank, History

\* Decoding a packet that lies above everything printed before keeps the
\* types, and puts expected_seq above everything printed since.
LEMMA DecodeLiveKeeps ==
  ASSUME decoded_count \in Nat, max_messages \in Nat, NEW d \in Datagram,
         NEW o \in History,
         DecodeLive(d, o)
  PROVE  /\ pc' \in {"recv", "done"}
         /\ decoded_count' \in Nat
         /\ expected_seq' \in Nat
         /\ d.seq <= expected_seq'
         /\ out' \in History
         /\ \A n \in out'.live \ o.live : d.seq <= n /\ n < expected_seq'
         /\ o.live \subseteq out'.live
         /\ (\A n \in o.live : n < d.seq)
              => /\ out'.again = o.again
                 /\ \A n \in out'.live : n < expected_seq'
<1> DEFINE batch == Numbers(d, decoded_count, max_messages)
<1>1. /\ d.seq \in Nat /\ d.count \in Nat
      /\ Tally(d, decoded_count, max_messages) \in Nat
      /\ batch \subseteq Nat
      /\ \A n \in batch : d.seq <= n /\ n < d.seq + d.count
  BY ProcessedFacts
<1>2. /\ out' = PrintLive(o, batch, d.fit = d.count)
      /\ expected_seq' = d.seq + d.count
      /\ decoded_count' = Tally(d, decoded_count, max_messages)
      /\ pc' \in {"recv", "done"}
  BY DEF DecodeLive
<1>3. /\ out' \in History
      /\ out'.live = o.live \cup batch
      /\ out'.again = o.again \cup (o.live \cap batch)
  BY <1>1, <1>2, HistoryType
<1>4. expected_seq' \in Nat /\ d.seq <= expected_seq'
  BY <1>1, <1>2
<1>5. \A n \in batch : d.seq <= n /\ n < expected_seq'
  BY <1>1, <1>2
<1>6. ASSUME \A n \in o.live : n < d.seq
      PROVE  /\ out'.again = o.again
             /\ \A n \in out'.live : n < expected_seq'
  <2>1. o.live \cap batch = {}
    <3> SUFFICES ASSUME NEW n \in o.live, n \in batch
                 PROVE  FALSE
      OBVIOUS
    <3> QED
      BY <1>1, <1>6
  <2>2. \A n \in o.live : n < expected_seq'
    <3> SUFFICES ASSUME NEW n \in o.live
                 PROVE  n < expected_seq'
      OBVIOUS
    <3>1. n \in Nat /\ n < d.seq
      BY <1>6 DEF History
    <3> QED
      BY <1>1, <1>4, <3>1
  <2> QED
    BY <1>3, <1>5, <2>1, <2>2
<1> QED
  BY <1>1, <1>2, <1>3, <1>4, <1>5, <1>6

\* At the end of a chunk gap_fill returns or goes on behind what it got.
LEMMA EndChunkKeeps ==
  ASSUME TypeOK, Filling, pc = "await", NEW got \in Nat, EndChunk(got),
         UNCHANGED <<enable_recovery, tracking, header>>
  PROVE  /\ pc' \in {"ask", "resume"}
         /\ got_in_chunk' \in Nat
         /\ current_seq' \in Nat
         /\ remaining' \in Nat
         /\ Filling'
<1>1. /\ pc' \in {"ask", "resume"} /\ got_in_chunk' \in Nat
      /\ current_seq' \in Nat /\ remaining' \in Nat
  BY DEF EndChunk, TypeOK
<1>2. pc' = "ask" => /\ current_seq' = current_seq + got
                     /\ remaining' = remaining - got
                     /\ got < remaining
  BY DEF EndChunk, TypeOK
<1>3. /\ header \in Datagram /\ header.seq \in Nat
      /\ expected_seq \in Nat /\ current_seq \in Nat /\ remaining \in Nat
      /\ expected_seq <= current_seq
      /\ current_seq + remaining = header.seq
  BY DEF TypeOK, Filling, Datagram
<1>4. pc' = "ask" => /\ remaining' > 0
                     /\ expected_seq' <= current_seq'
                     /\ current_seq' + remaining' = header'.seq
  BY <1>2, <1>3 DEF tracking
<1> QED
  BY <1>1, <1>4 DEF Filling, tracking

\* A receive that brought nothing keeps the types and the arithmetic.
LEMMA SilenceKeeps ==
  ASSUME TypeOK, Filling, pc = "await", CountSilence,
         UNCHANGED <<enable_recovery, tracking, header, req_count>>
  PROVE  /\ pc' \in {"ask", "await", "resume"}
         /\ got_in_chunk' \in Nat
         /\ current_seq' \in Nat
         /\ remaining' \in Nat
         /\ timeouts' \in 0..3
         /\ Filling'
<1>1. got_in_chunk \in Nat /\ timeouts \in 0..2
  BY DEF TypeOK, Filling
<1>2. timeouts' \in 0..3
  BY <1>1 DEF CountSilence
<1>3. CASE EndChunk(got_in_chunk)
  BY <1>1, <1>2, <1>3, EndChunkKeeps
<1>4. CASE /\ StayInChunk(got_in_chunk)
           /\ timeouts' = timeouts + 1
           /\ ~(timeouts + 1 >= 3)
  <2>1. /\ pc' = "await" /\ UNCHANGED <<got_in_chunk, current_seq, remaining>>
        /\ timeouts' < 3
    BY <1>1, <1>4 DEF StayInChunk
  <2> QED
    BY <1>2, <2>1 DEF Filling, TypeOK, tracking
<1> QED
  BY <1>3, <1>4 DEF CountSilence
-----------------------------------------------------------------------------
(***************************************************************************)
(* IInv holds at the start and every step keeps it.                        *)
(***************************************************************************)

\* Live mode begins outside any gap, with nothing printed.
LEMMA InitInv == Init => IInv
<1> SUFFICES ASSUME Init PROVE IInv
  OBVIOUS
<1>1. TypeOK
  <2>1. Blank(0) \in History /\ <<>> \in Seq(Datagram)
    BY BlankType
  <2>2. replies \in Seq(Datagram) /\ out \in History
    BY <2>1 DEF Init
  <2>3. /\ pc \in {"recv", "ask", "await", "resume", "done"}
        /\ current_session \in Sessions \cup {NoSession}
        /\ joined \in BOOLEAN
        /\ header \in Datagram \cup {NoHeader}
        /\ errno \in {"again", "other"}
        /\ enable_recovery \in BOOLEAN
    BY DEF Init
  <2>4. /\ expected_seq \in Nat /\ decoded_count \in Nat
        /\ current_seq \in Nat /\ remaining \in Nat
        /\ req_count \in Nat /\ got_in_chunk \in Nat /\ timeouts \in 0..3
        /\ max_messages \in Nat
    BY LiveAssumption DEF Init
  <2> QED
    BY <2>2, <2>3, <2>4 DEF TypeOK
<1>2. Filling
  BY LiveAssumption DEF Init, Filling
<1>3. Tracked
  BY BlankType DEF Init, Tracked, SkipsDuplicates
<1> QED
  BY <1>1, <1>2, <1>3 DEF IInv

\* Reading the multicast keeps the invariant.
LEMMA ReceiveInv == IInv /\ Receive => IInv'
<1> SUFFICES ASSUME TypeOK, Filling, Tracked, Receive
             PROVE  TypeOK' /\ Filling' /\ Tracked'
  BY DEF IInv
<1>0. UNCHANGED <<enable_recovery, max_messages>>
  BY DEF Receive, options
<1> USE <1>0
<1>1. CASE ReceiveError
  BY <1>1 DEF ReceiveError, TypeOK, Filling, Tracked, SkipsDuplicates,
              tracking, gap, chunk
<1>2. ASSUME UNCHANGED vars
      PROVE  TypeOK' /\ Filling' /\ Tracked'
  BY <1>2 DEF TypeOK, Filling, Tracked, SkipsDuplicates,
              vars, options, tracking, gap, chunk
<1>3. SUFFICES ASSUME NEW d \in Feed, d \in Datagram,
                      \/ ReceiveUntracked(d)
                      \/ ReceiveNewSession(d)
                      \/ ReceiveExpected(d)
                      \/ ReceiveAhead(d)
               PROVE  TypeOK' /\ Filling' /\ Tracked'
  BY <1>1, <1>2, LiveAssumption DEF Receive, ReceiveIgnored, SkipDuplicate
<1>4. d.seq \in Nat /\ d.session \in Sessions
  BY <1>3, ProcessedFacts
<1>5. CASE ReceiveUntracked(d)
  <2>1. DecodeLive(d, out) /\ ~enable_recovery
        /\ UNCHANGED <<current_session, joined, gap, errno, replies>>
    BY <1>5 DEF ReceiveUntracked
  <2>2. /\ pc' \in {"recv", "done"} /\ decoded_count' \in Nat
        /\ expected_seq' \in Nat
        /\ out' \in History
    BY <1>3, <2>1, DecodeLiveKeeps DEF TypeOK
  <2>3. TypeOK'
    BY <2>1, <2>2 DEF TypeOK, gap, chunk
  <2> QED
    BY <2>1, <2>2, <2>3 DEF Filling, Tracked
<1>6. CASE ReceiveNewSession(d)
  <2>1. /\ DecodeLive(d, Blank(d.seq))
        /\ current_session' = d.session /\ joined'
        /\ joined' = TRUE
        /\ UNCHANGED <<gap, errno, replies>>
    BY <1>6 DEF ReceiveNewSession
  <2>2. /\ Blank(d.seq) \in History
        /\ Blank(d.seq).live = {}
        /\ Blank(d.seq).again = {}
    BY <1>4, BlankType
  <2>3. /\ pc' \in {"recv", "done"} /\ decoded_count' \in Nat
        /\ expected_seq' \in Nat
        /\ out' \in History
        /\ out'.again = {}
        /\ \A n \in out'.live : n < expected_seq'
    BY <1>3, <2>1, <2>2, DecodeLiveKeeps DEF TypeOK
  <2>4. TypeOK'
    BY <1>4, <2>1, <2>3 DEF TypeOK, gap, chunk
  <2>5. Filling'
    BY <1>4, <2>1, <2>3, LiveAssumption DEF Filling
  <2>6. Tracked'
    BY <2>3 DEF Tracked, SkipsDuplicates
  <2> QED
    BY <2>4, <2>5, <2>6
<1>7. CASE ReceiveExpected(d)
  <2>1. /\ DecodeLive(d, out) /\ enable_recovery /\ d.seq = expected_seq
        /\ UNCHANGED <<current_session, joined, gap, errno, replies>>
    BY <1>7 DEF ReceiveExpected, Follows
  <2>2. \A n \in out.live : n < d.seq
    BY <2>1 DEF Tracked
  <2>3. /\ pc' \in {"recv", "done"} /\ decoded_count' \in Nat
        /\ expected_seq' \in Nat
        /\ out' \in History
        /\ out'.again = out.again
        /\ \A n \in out'.live : n < expected_seq'
    BY <1>3, <2>1, <2>2, DecodeLiveKeeps DEF TypeOK
  <2>4. TypeOK'
    BY <2>1, <2>3 DEF TypeOK, gap, chunk
  <2>5. Filling'
    BY <2>1, <2>3 DEF Filling
  <2>6. Tracked'
    BY <2>1, <2>3 DEF Tracked, SkipsDuplicates
  <2> QED
    BY <2>4, <2>5, <2>6
<1>8. CASE ReceiveAhead(d)
  <2>1. /\ pc' = "ask" /\ header' = d
        /\ current_seq' = expected_seq /\ remaining' = d.seq - expected_seq
        /\ d.seq > expected_seq
        /\ enable_recovery /\ joined /\ d.session = current_session
        /\ UNCHANGED <<tracking, decoded_count, chunk, errno, replies, out>>
    BY <1>8 DEF ReceiveAhead, Follows
  <2>2. expected_seq \in Nat /\ current_seq' \in Nat /\ remaining' \in Nat
        /\ remaining' > 0 /\ current_seq' + remaining' = d.seq
    BY <1>4, <2>1 DEF TypeOK
  <2>3. TypeOK'
    BY <1>3, <2>1, <2>2 DEF TypeOK, tracking, chunk
  <2>4. Filling'
    BY <1>3, <1>4, <2>1, <2>2 DEF Filling, tracking
  <2>5. Tracked'
    BY <2>1 DEF Tracked, SkipsDuplicates, tracking
  <2> QED
    BY <2>3, <2>4, <2>5
<1> QED
  BY <1>3, <1>5, <1>6, <1>7, <1>8

\* Filling a gap keeps the invariant.
LEMMA GapFillInv == IInv /\ GapFill => IInv'
<1> SUFFICES ASSUME TypeOK, Filling, Tracked, GapFill
             PROVE  TypeOK' /\ Filling' /\ Tracked'
  BY DEF IInv
<1>0. UNCHANGED <<enable_recovery, max_messages>>
  BY DEF GapFill, options
<1> USE <1>0
<1>1. CASE SendRequest
  <2>1. /\ pc = "ask" /\ pc' = "await"
        /\ req_count' = Least(remaining, MaxPerRequest)
        /\ got_in_chunk' = 0 /\ timeouts' = 0
        /\ UNCHANGED <<tracking, decoded_count, header, current_seq, remaining,
                       errno>>
    BY <1>1 DEF SendRequest, RequestCount
  <2>2. header \in Datagram /\ header.session \in Sessions
    BY <2>1, ProcessedFacts DEF Filling, TypeOK
  <2>3. req_count' \in Nat
    BY <2>1, LiveAssumption DEF Least, TypeOK
  <2>4. PICK ans \in Answers(header.session, current_seq, req_count') :
          replies' = replies \o ans
    BY <1>1 DEF SendRequest
  <2>5. ans \in Seq(Datagram)
    BY <2>2, <2>3, <2>4, AnswersAreDatagrams DEF TypeOK
  <2>6. replies' \in Seq(Datagram)
    BY <2>4, <2>5 DEF TypeOK
  <2>10. out' \in History /\ out'.live = out.live /\ out'.again = out.again
    BY <1>1 DEF SendRequest, TypeOK, History, Full
  <2>7. TypeOK'
    BY <2>1, <2>3, <2>6, <2>10 DEF TypeOK, tracking
  <2>8. Filling'
    BY <2>1 DEF Filling, tracking
  <2>9. Tracked'
    BY <2>1, <2>10 DEF Tracked, SkipsDuplicates, tracking
  <2> QED
    BY <2>7, <2>8, <2>9
<1>2. CASE SendRequestFails
  <2>1. /\ pc = "ask" /\ pc' = "resume" /\ errno' = "other"
        /\ UNCHANGED <<tracking, decoded_count, gap, replies>>
    BY <1>2 DEF SendRequestFails
  <2>4. out' \in History /\ out'.live = out.live /\ out'.again = out.again
    BY <1>2 DEF SendRequestFails, TypeOK, History
  <2>2. TypeOK'
    BY <2>1, <2>4 DEF TypeOK, tracking, gap, chunk
  <2>3. Filling'
    BY <2>1 DEF Filling, tracking, gap, chunk
  <2> QED
    BY <2>1, <2>2, <2>3, <2>4 DEF Tracked, SkipsDuplicates, tracking
<1>3. ASSUME pc = "await", CountSilence, errno' \in {"again", "other"},
             replies' \in Seq(Datagram),
             UNCHANGED <<tracking, decoded_count, header, req_count, out>>
      PROVE  TypeOK' /\ Filling' /\ Tracked'
  <2>1. /\ pc' \in {"ask", "await", "resume"}
        /\ got_in_chunk' \in Nat /\ current_seq' \in Nat
        /\ remaining' \in Nat /\ timeouts' \in 0..3
        /\ Filling'
    BY <1>3, SilenceKeeps
  <2>2. TypeOK'
    BY <1>3, <2>1 DEF TypeOK, tracking
  <2>3. Tracked'
    BY <1>3 DEF Tracked, SkipsDuplicates, tracking
  <2> QED
    BY <2>1, <2>2, <2>3
<1>4. CASE ReceiveTimeout
  BY <1>3, <1>4 DEF ReceiveTimeout, TypeOK
<1>5. CASE ReceiveFails
  BY <1>3, <1>5 DEF ReceiveFails, TypeOK
<1>6. CASE ReceiveEmptyReply
  <2>1. replies' \in Seq(Datagram)
    BY <1>6 DEF ReceiveEmptyReply, TypeOK
  <2>2. errno' \in {"again", "other"}
    BY <1>6 DEF ReceiveEmptyReply, TypeOK
  <2> QED
    BY <1>3, <1>6, <2>1, <2>2 DEF ReceiveEmptyReply
<1>7. CASE ReceiveReply
  <2> DEFINE d == Head(replies)
             got == got_in_chunk + Processed(d, decoded_count, max_messages)
  <2>1. replies # <<>> /\ replies \in Seq(Datagram)
    BY <1>7 DEF ReceiveReply, TypeOK
  <2>2. d \in Datagram /\ Tail(replies) \in Seq(Datagram)
    BY <2>1
  <2>3. /\ Processed(d, decoded_count, max_messages) \in Nat
        /\ Tally(d, decoded_count, max_messages) \in Nat
        /\ Numbers(d, decoded_count, max_messages) \in SUBSET Nat
    BY <2>2, ProcessedFacts DEF TypeOK
  <2>4. got \in Nat
    BY <2>3 DEF TypeOK
  <2>5. /\ pc = "await"
        /\ decoded_count' \in Nat
        /\ replies' \in Seq(Datagram)
        /\ UNCHANGED <<tracking, header, req_count, timeouts, errno>>
    BY <1>7, <2>2, <2>3 DEF ReceiveReply
  <2>6. out' \in History /\ out'.live = out.live /\ out'.again = out.again
    <3>1. \/ out' = PrintFilled(out, Numbers(d, decoded_count, max_messages))
          \/ out' = out
      BY <1>7 DEF ReceiveReply
    <3> QED
      BY <2>3, <3>1, FilledType DEF TypeOK
  <2> HIDE DEF d, got
  <2>7. /\ pc' \in {"ask", "await", "resume", "done"}
        /\ got_in_chunk' \in Nat /\ current_seq' \in Nat /\ remaining' \in Nat
        /\ Filling'
    <3>1. CASE EndChunk(got)
      BY <2>4, <2>5, <3>1, EndChunkKeeps
    <3>2. CASE StayInChunk(got)
      <4>1. UNCHANGED <<pc, current_seq, remaining>> /\ got_in_chunk' = got
        BY <3>2 DEF StayInChunk
      <4> QED
        BY <2>4, <2>5, <4>1 DEF Filling, TypeOK, tracking
    <3>3. CASE /\ pc' = "done" /\ got_in_chunk' = got
               /\ UNCHANGED <<current_seq, remaining>>
      BY <2>4, <2>5, <3>3 DEF Filling, TypeOK, tracking
    <3> QED
      BY <1>7, <3>1, <3>2, <3>3 DEF ReceiveReply, d, got
  <2>8. TypeOK'
    BY <2>5, <2>6, <2>7 DEF TypeOK, tracking
  <2>9. Tracked'
    BY <2>5, <2>6 DEF Tracked, SkipsDuplicates, tracking
  <2> QED
    BY <2>7, <2>8, <2>9
<1>8. CASE Resume
  <2>1. /\ pc = "resume" /\ DecodeLive(header, out)
        /\ header' = NoHeader /\ current_seq' = 0 /\ remaining' = 0
        /\ req_count' = 0 /\ got_in_chunk' = 0 /\ timeouts' = 0
        /\ UNCHANGED <<current_session, joined, errno, replies>>
    BY <1>8 DEF Resume
  <2>2. /\ header \in Datagram /\ header.seq \in Nat
        /\ expected_seq \in Nat /\ expected_seq <= header.seq
        /\ enable_recovery
    BY <2>1, ProcessedFacts DEF Filling, TypeOK
  <2>3. \A n \in out.live : n < header.seq
    <3> SUFFICES ASSUME NEW n \in out.live
                 PROVE  n < header.seq
      OBVIOUS
    <3>1. n \in Nat /\ n < expected_seq
      BY <2>2 DEF Tracked, TypeOK, History
    <3> QED
      BY <2>2, <3>1
  <2>4. /\ pc' \in {"recv", "done"} /\ decoded_count' \in Nat
        /\ expected_seq' \in Nat
        /\ out' \in History
        /\ out'.again = out.again
        /\ \A n \in out'.live : n < expected_seq'
    BY <2>1, <2>2, <2>3, DecodeLiveKeeps DEF TypeOK
  <2>5. TypeOK'
    BY <2>1, <2>4 DEF TypeOK
  <2>6. Filling'
    BY <2>1, <2>4 DEF Filling
  <2>7. Tracked'
    BY <2>2, <2>4 DEF Tracked, SkipsDuplicates
  <2> QED
    BY <2>5, <2>6, <2>7
<1> QED
  BY <1>1, <1>2, <1>4, <1>5, <1>6, <1>7, <1>8 DEF GapFill

\* The invariant holds in every reachable state.
THEOREM Invariance == Spec => []IInv
<1>1. IInv /\ [Next]_vars => IInv'
  <2> SUFFICES ASSUME IInv, [Next]_vars PROVE IInv'
    OBVIOUS
  <2>1. CASE UNCHANGED vars
    BY <2>1 DEF IInv, TypeOK, Filling, Tracked, SkipsDuplicates,
                vars, options, tracking, gap, chunk
  <2> QED
    BY <2>1, ReceiveInv, GapFillInv DEF Next, Terminated
<1> QED
  BY InitInv, <1>1, PTL DEF Spec

\* The variables keep the types of the code's.
THEOREM TypeCorrect == Spec => []TypeOK
BY Invariance, PTL DEF IInv
-----------------------------------------------------------------------------
(***************************************************************************)
(* The properties.                                                         *)
(***************************************************************************)

\* A request of gap_fill lies inside the gap and keeps to the configured
\* size, whatever replies came before it.
THEOREM RequestsWithinGap == Spec => []RequestWithinGap
<1>1. IInv => RequestWithinGap
  <2> SUFFICES ASSUME IInv, pc = "await"
               PROVE  /\ req_count \in 1..MaxPerRequest
                      /\ expected_seq <= current_seq
                      /\ current_seq + req_count <= header.seq
                      /\ header.session = current_session
    BY DEF RequestWithinGap
  <2>1. /\ remaining \in Nat \ {0} /\ current_seq \in Nat
        /\ expected_seq <= current_seq
        /\ current_seq + remaining = header.seq
        /\ header.session = current_session
        /\ req_count = Least(remaining, MaxPerRequest)
    BY DEF IInv, Filling, TypeOK
  <2>2. req_count \in 1..MaxPerRequest /\ req_count <= remaining
    BY <2>1, LiveAssumption DEF Least
  <2>3. current_seq + req_count <= current_seq + remaining
    BY <2>1, <2>2
  <2> QED
    BY <2>1, <2>2, <2>3
<1> QED
  BY <1>1, Invariance, PTL

\* With -g nothing of a stay is decoded twice from the multicast.
THEOREM NothingTwiceLive == Spec => []NoLiveRepeat
<1>1. IInv => NoLiveRepeat
  BY DEF IInv, Tracked, NoLiveRepeat
<1> QED
  BY <1>1, Invariance, PTL

\* Live packets and replies count against one limit, which ends the program
\* exactly when it is reached.
THEOREM LimitKept == Spec => []WithinLimit
<1>1. Init => WithinLimit
  BY LiveAssumption DEF Init, WithinLimit
<1>2. IInv /\ WithinLimit /\ [Next]_vars => WithinLimit'
  <2> SUFFICES ASSUME TypeOK, Filling, WithinLimit, [Next]_vars, max_messages # 0
               PROVE  /\ decoded_count' <= max_messages
                      /\ pc' = "done" <=> decoded_count' = max_messages
    <3>1. [Next]_vars => UNCHANGED max_messages
      BY DEF Next, Receive, GapFill, Terminated, vars, options
    <3> QED
      BY <3>1 DEF IInv, WithinLimit
  <2>1. /\ decoded_count \in Nat /\ decoded_count <= max_messages
        /\ max_messages \in Nat
        /\ pc = "done" <=> decoded_count = max_messages
    BY DEF WithinLimit, TypeOK
  <2>2. ASSUME NEW d \in Datagram, NEW o, DecodeLive(d, o), pc # "done"
        PROVE  /\ decoded_count' <= max_messages
               /\ pc' = "done" <=> decoded_count' = max_messages
    <3>1. decoded_count < max_messages
      BY <2>1, <2>2
    <3>2. Tally(d, decoded_count, max_messages) \in Nat
      BY <2>1, <2>2, ProcessedFacts
    <3> QED
      BY <2>1, <2>2, <3>1, <3>2, LimitFacts DEF DecodeLive
  <2>3. ASSUME UNCHANGED decoded_count, pc # "done", pc' # "done"
        PROVE  /\ decoded_count' <= max_messages
               /\ pc' = "done" <=> decoded_count' = max_messages
    BY <2>1, <2>3
  <2>4. CASE UNCHANGED vars
    BY <2>1, <2>4 DEF vars
  <2>5. CASE ReceiveError
    BY <2>3, <2>5 DEF ReceiveError
  <2>6. ASSUME NEW d \in Feed,
               \/ ReceiveUntracked(d) \/ ReceiveNewSession(d)
               \/ ReceiveExpected(d)  \/ ReceiveAhead(d)
        PROVE  /\ decoded_count' <= max_messages
               /\ pc' = "done" <=> decoded_count' = max_messages
    <3>1. d \in Datagram
      BY LiveAssumption
    <3>2. CASE ReceiveAhead(d)
      BY <2>3, <3>2 DEF ReceiveAhead, Follows, Receives
    <3>3. pc = "recv" /\ ((\E o : DecodeLive(d, o)) \/ ReceiveAhead(d))
      BY <2>6 DEF ReceiveUntracked, ReceiveNewSession, ReceiveExpected,
                  ReceiveAhead, Follows, Receives
    <3> QED
      BY <2>2, <3>1, <3>2, <3>3
  <2>7. CASE SendRequest \/ SendRequestFails
    BY <2>3, <2>7 DEF SendRequest, SendRequestFails
  <2>8. ASSUME NEW got, EndChunk(got) PROVE pc' # "done"
    BY <2>8 DEF EndChunk
  <2>9. CASE ReceiveTimeout \/ ReceiveFails \/ ReceiveEmptyReply
    <3>1. pc = "await" /\ UNCHANGED decoded_count /\ CountSilence
      BY <2>9 DEF ReceiveTimeout, ReceiveFails, ReceiveEmptyReply
    <3>2. pc' # "done"
      BY <2>8, <3>1 DEF CountSilence, StayInChunk
    <3> QED
      BY <2>3, <3>1, <3>2
  <2>10. CASE ReceiveReply
    <3> DEFINE d == Head(replies)
               got == got_in_chunk + Processed(d, decoded_count, max_messages)
    <3>1. pc = "await" /\ d \in Datagram
      BY <2>10 DEF ReceiveReply, TypeOK
    <3>2. /\ decoded_count' = Tally(d, decoded_count, max_messages)
          /\ IF StopsAt(d, decoded_count, max_messages) THEN pc' = "done"
             ELSE EndChunk(got) \/ StayInChunk(got)
      BY <2>10 DEF ReceiveReply
    <3> HIDE DEF d, got
    <3>3. decoded_count < max_messages /\ Tally(d, decoded_count, max_messages) \in Nat
      BY <2>1, <3>1, ProcessedFacts
    <3>4. StopsAt(d, decoded_count, max_messages) <=> pc' = "done"
      BY <2>8, <3>1, <3>2 DEF StayInChunk
    <3> QED
      BY <2>1, <3>1, <3>2, <3>3, <3>4, LimitFacts
  <2>11. CASE Resume
    <3>1. pc = "resume" /\ header \in Datagram /\ DecodeLive(header, out)
      BY <2>11 DEF Resume, Filling
    <3> QED
      BY <2>2, <3>1
  <2> QED
    BY <2>4, <2>5, <2>6, <2>7, <2>9, <2>10, <2>11
       DEF Next, Receive, GapFill, Terminated, ReceiveIgnored, SkipDuplicate
<1> QED
  BY <1>1, <1>2, Invariance, PTL DEF Spec

\* With -g, live mode implements OrderedFeed as far as the multicast goes: a
\* stay's numbers go up, whatever the feed and the server do.
THEOREM LiveImplementsOrder == Spec => LiveInOrder
<1>1. Init => LiveOrder!Init
  BY BlankType DEF Init, LiveOrder!Init, IfTracked
<1>2. IInv /\ [Next]_vars => [LiveOrder!Next]_(LiveOrder!vars)
  <2> SUFFICES ASSUME IInv, [Next]_vars
               PROVE  LiveOrder!Next \/ UNCHANGED LiveOrder!vars
    OBVIOUS
  <2>0. UNCHANGED enable_recovery
    BY DEF Next, Receive, GapFill, Terminated, vars, options
  <2>1. /\ TypeOK /\ Filling /\ Tracked
        /\ out.live \subseteq Nat /\ out \in History
        /\ expected_seq \in Nat /\ decoded_count \in Nat
    BY DEF IInv, TypeOK, History
  <2>2. ASSUME UNCHANGED <<current_session, expected_seq>>,
               out'.live = out.live, out'.again = out.again
        PROVE  UNCHANGED LiveOrder!vars
    BY <2>0, <2>2 DEF LiveOrder!vars, IfTracked
  <2>3. ASSUME NEW d \in Datagram, DecodeLive(d, out), expected_seq <= d.seq,
               current_session # NoSession, UNCHANGED current_session,
               enable_recovery
        PROVE  LiveOrder!Advance
    <3>1. \A n \in out.live : n < d.seq
      <4> SUFFICES ASSUME NEW n \in out.live PROVE n < d.seq
        OBVIOUS
      <4>1. n \in Nat /\ n < expected_seq /\ d.seq \in Nat
        BY <2>1, <2>3, ProcessedFacts DEF Tracked
      <4> QED
        BY <2>1, <2>3, <4>1
    <3>2. /\ expected_seq' \in Nat /\ d.seq <= expected_seq'
          /\ out' \in History
          /\ \A n \in out'.live \ out.live : d.seq <= n /\ n < expected_seq'
          /\ out.live \subseteq out'.live
          /\ out'.again = out.again
      BY <2>1, <2>3, <3>1, DecodeLiveKeeps DEF TypeOK
    <3>3. d.seq \in Nat /\ expected_seq <= expected_seq'
      BY <2>1, <2>3, <3>2, ProcessedFacts
    <3>4. \A n \in out'.live \ out.live : expected_seq <= n /\ n < expected_seq'
      <4> SUFFICES ASSUME NEW n \in out'.live \ out.live
                   PROVE  expected_seq <= n /\ n < expected_seq'
        OBVIOUS
      <4>1. n \in Nat /\ d.seq <= n /\ n < expected_seq'
        BY <3>2 DEF History
      <4> QED
        BY <2>1, <2>3, <3>3, <4>1
    <3> QED
      BY <2>0, <2>1, <2>3, <3>2, <3>3, <3>4 DEF LiveOrder!Advance, IfTracked
  <2>4. CASE UNCHANGED vars
    BY <2>2, <2>4 DEF vars, tracking
  <2>5. CASE ReceiveError
    BY <2>2, <2>5 DEF ReceiveError, tracking
  <2>6. ASSUME NEW d \in Feed,
               \/ ReceiveUntracked(d) \/ ReceiveNewSession(d)
               \/ ReceiveExpected(d)  \/ ReceiveAhead(d)
        PROVE  LiveOrder!Next \/ UNCHANGED LiveOrder!vars
    <3>1. /\ d \in Datagram /\ d.seq \in Nat /\ d.session \in Sessions
      BY LiveAssumption, ProcessedFacts, <2>1
    <3>2. CASE ReceiveUntracked(d)
      BY <2>0, <3>2 DEF ReceiveUntracked, LiveOrder!vars, IfTracked
    <3>3. CASE ReceiveNewSession(d)
      <4>1. /\ DecodeLive(d, Blank(d.seq))
            /\ current_session' = d.session
            /\ ~joined \/ d.session # current_session
            /\ enable_recovery
        BY <3>3 DEF ReceiveNewSession
      <4>2. d.session # current_session
        BY <2>1, <3>1, <4>1, LiveAssumption DEF Filling
      <4>3. /\ expected_seq' \in Nat
            /\ out'.again = {}
            /\ \A n \in out'.live : n < expected_seq'
        BY <2>1, <3>1, <4>1, BlankType, DecodeLiveKeeps DEF TypeOK
      <4>4. LiveOrder!Enter(d.session)
        BY <2>0, <2>1, <4>1, <4>2, <4>3
           DEF LiveOrder!Enter, IfTracked, Tracked, SkipsDuplicates
      <4> QED
        BY <3>1, <4>4 DEF LiveOrder!Next
    <3>4. CASE ReceiveExpected(d)
      <4>1. /\ DecodeLive(d, out) /\ d.seq = expected_seq
            /\ joined /\ enable_recovery /\ UNCHANGED current_session
        BY <3>4 DEF ReceiveExpected, Follows
      <4>2. current_session # NoSession /\ expected_seq <= d.seq
        BY <2>1, <3>1, <4>1 DEF Filling
      <4> QED
        BY <2>3, <3>1, <4>1, <4>2 DEF LiveOrder!Next
    <3>5. CASE ReceiveAhead(d)
      BY <2>2, <3>5 DEF ReceiveAhead, tracking
    <3> QED
      BY <2>6, <3>2, <3>3, <3>4, <3>5
  <2>7. CASE SendRequest \/ SendRequestFails
    BY <2>1, <2>2, <2>7 DEF SendRequest, SendRequestFails, History, tracking
  <2>8. CASE ReceiveTimeout \/ ReceiveFails \/ ReceiveEmptyReply
    BY <2>2, <2>8 DEF ReceiveTimeout, ReceiveFails, ReceiveEmptyReply, tracking
  <2>9. CASE ReceiveReply
    <3>1. Head(replies) \in Datagram
      BY <2>1, <2>9 DEF ReceiveReply, TypeOK
    <3>2. Numbers(Head(replies), decoded_count, max_messages) \in SUBSET Nat
      BY <2>1, <3>1, ProcessedFacts DEF TypeOK
    <3>3. \/ out' = PrintFilled(out, Numbers(Head(replies), decoded_count, max_messages))
          \/ out' = out
      BY <2>9 DEF ReceiveReply
    <3>4. out'.live = out.live /\ out'.again = out.again
      BY <2>1, <3>2, <3>3, FilledType
    <3> QED
      BY <2>2, <2>9, <3>4 DEF ReceiveReply, tracking
  <2>10. CASE Resume
    <3>1. /\ pc = "resume" /\ DecodeLive(header, out)
          /\ UNCHANGED current_session
      BY <2>10 DEF Resume
    <3>2. /\ header \in Datagram /\ expected_seq <= header.seq
          /\ current_session # NoSession /\ enable_recovery
      BY <2>1, <3>1 DEF Filling
    <3> QED
      BY <2>3, <3>1, <3>2 DEF LiveOrder!Next
  <2> QED
    BY <2>4, <2>5, <2>6, <2>7, <2>8, <2>9, <2>10
       DEF Next, Receive, GapFill, Terminated, ReceiveIgnored, SkipDuplicate
<1> QED
  BY <1>1, <1>2, Invariance, PTL DEF Spec, LiveInOrder, LiveOrder!Spec
-----------------------------------------------------------------------------
(***************************************************************************)
(* Everything a stay prints is in order, if the server answers in order    *)
(* and never late.  Replying is inductive relative to IInv.                *)
(***************************************************************************)

\* What a call of decode_packet_messages on the multicast adds to a history
\* that lies below the packet.
LEMMA DecodeLiveAdds ==
  ASSUME decoded_count \in Nat, max_messages \in Nat, NEW d \in Datagram,
         NEW o \in History, DecodeLive(d, o),
         \A n \in o.live \cup o.filled : n < d.seq
  PROVE  /\ pc' \in {"recv", "done"}
         /\ expected_seq' \in Nat /\ d.seq \in Nat /\ d.seq <= expected_seq'
         /\ out'.first = o.first
         /\ out'.filled = o.filled
         /\ o.live \subseteq out'.live
         /\ out'.again = o.again
         /\ out'.refilled = o.refilled
         /\ \A n \in out'.live \cup out'.filled : n < expected_seq'
         /\ \A n \in out'.live \ o.live : d.seq <= n /\ n < expected_seq'
         /\ out'.whole <=> o.whole /\ d.fit = d.count
         /\ parse_mold_header(d) /\ out'.whole /\ pc' # "done"
              => d.seq..(expected_seq' - 1) \subseteq out'.live
<1> DEFINE batch == Numbers(d, decoded_count, max_messages)
<1>1. /\ out' = PrintLive(o, batch, d.fit = d.count)
      /\ expected_seq' = d.seq + d.count
      /\ pc' = IF StopsAt(d, decoded_count, max_messages) THEN "done" ELSE "recv"
  BY DEF DecodeLive
<1>2. /\ d.seq \in Nat /\ d.count \in Nat /\ batch \subseteq Nat
      /\ \A n \in batch : d.seq <= n /\ n < d.seq + d.count
  BY ProcessedFacts
<1>3. expected_seq' \in Nat /\ d.seq <= expected_seq'
  BY <1>1, <1>2
<1>4. ~StopsAt(d, decoded_count, max_messages) /\ d.fit = d.count /\ parse_mold_header(d)
        => batch = d.seq..(expected_seq' - 1)
  <2> SUFFICES ASSUME ~StopsAt(d, decoded_count, max_messages), d.fit = d.count,
                      parse_mold_header(d)
               PROVE  batch = d.seq..(expected_seq' - 1)
    OBVIOUS
  <2>1. Processed(d, decoded_count, max_messages) = d.count
    <3>1. CASE Carries(d)
      BY <3>1, TakenFacts
    <3>2. CASE ~Carries(d)
      <4>1. Processed(d, decoded_count, max_messages) = 0
        BY <3>2, TakenFacts
      <4>2. ~(d.count > 0)
        BY <3>2 DEF Carries
      <4> QED
        BY <1>2, <4>1, <4>2
    <3> QED
      BY <3>1, <3>2
  <2>2. batch = d.seq..(d.seq + d.count - 1)
    BY <2>1 DEF Numbers
  <2>3. d.seq + d.count - 1 = expected_seq' - 1
    BY <1>1, <1>2
  <2> QED
    BY <2>2, <2>3, Zenon
<1> HIDE DEF batch
<1>5. o.live \cap batch = {} /\ o.filled \cap batch = {}
  <2> SUFFICES ASSUME NEW n \in o.live \cup o.filled, n \in batch PROVE FALSE
    OBVIOUS
  <2>1. n \in Nat /\ n < d.seq /\ d.seq <= n
    BY <1>2 DEF History
  <2> QED
    BY <1>2, <2>1
<1>6. /\ out'.first = o.first /\ out'.filled = o.filled
      /\ out'.live = o.live \cup batch
      /\ out'.again = o.again \cup (o.live \cap batch)
      /\ out'.refilled = o.refilled \cup (o.filled \cap batch)
      /\ out'.whole = (o.whole /\ d.fit = d.count)
  BY <1>1 DEF PrintLive, History
<1>7. \A n \in o.live \cup o.filled : n < expected_seq'
  <2> SUFFICES ASSUME NEW n \in o.live \cup o.filled PROVE n < expected_seq'
    OBVIOUS
  <2>1. n \in Nat /\ n < d.seq
    BY DEF History
  <2> QED
    BY <1>2, <1>3, <2>1
<1>8. \A n \in batch : d.seq <= n /\ n < expected_seq'
  BY <1>1, <1>2
<1> QED
  BY <1>1, <1>2, <1>3, <1>4, <1>5, <1>6, <1>7, <1>8

\* What a reply adds.
LEMMA FilledAdds ==
  ASSUME NEW o \in History, NEW batch \in SUBSET Nat, NEW p \in Nat,
         \A n \in o.live \cup o.filled : n < p,
         \A n \in batch : p <= n
  PROVE  /\ PrintFilled(o, batch).first = o.first
         /\ PrintFilled(o, batch).live = o.live
         /\ PrintFilled(o, batch).filled = o.filled \cup batch
         /\ PrintFilled(o, batch).again = o.again
         /\ PrintFilled(o, batch).refilled = o.refilled
         /\ PrintFilled(o, batch).whole = o.whole
<1>1. (o.live \cup o.filled) \cap batch = {}
  <2> SUFFICES ASSUME NEW n \in o.live \cup o.filled, n \in batch PROVE FALSE
    OBVIOUS
  <2>1. n \in Nat /\ n < p /\ p <= n
    BY DEF History
  <2> QED
    BY <2>1
<1> QED
  BY <1>1 DEF PrintFilled, History

\* The end of a chunk moves the position by what arrived, and nothing else of
\* what counts for the order.
LEMMA EndChunkPosition ==
  ASSUME current_seq \in Nat, remaining \in Nat, NEW got \in Nat, EndChunk(got)
  PROVE  /\ got_in_chunk' = 0
         /\ current_seq' + got_in_chunk' = current_seq + got
         /\ pc' \in {"ask", "resume"}
         /\ pc' = "resume" /\ got > 0 => got >= remaining
BY DEF EndChunk

\* Replying says nothing without -g or with another server.
LEMMA NotReplying ==
  ASSUME UNCHANGED enable_recovery, ~(Server = "prompt" /\ enable_recovery)
  PROVE  Replying'
BY DEF Replying

\* Live mode begins with nothing printed and nothing on its way.
LEMMA ReplyingInit == Init => Replying
<1> SUFFICES ASSUME Init PROVE Replying
  OBVIOUS
<1>1. replies = <<>> /\ header = NoHeader /\ pc = "recv" /\ got_in_chunk = 0
  BY DEF Init
<1>2. FromServer(replies, current_session) /\ BringsNothing(replies)
  BY <1>1 DEF FromServer, BringsNothing
<1>3. out.live = {} /\ out.filled = {} /\ out.again = {} /\ out.refilled = {}
  BY DEF Init, Blank
<1> QED
  BY <1>1, <1>2, <1>3 DEF Replying

\* Outside a gap a packet below which everything printed lies is decoded.
LEMMA ReplyingDecode ==
  ASSUME TypeOK, NEW d \in Datagram, NEW o \in History, DecodeLive(d, o),
         o.again = {}, o.refilled = {},
         \A n \in o.live \cup o.filled : n < d.seq,
         header' = NoHeader, got_in_chunk' = 0, replies' = replies,
         BringsNothing(replies), FromServer(replies, current_session')
  PROVE  Replying'
<1>1. /\ pc' \in {"recv", "done"}
      /\ out'.again = {} /\ out'.refilled = {}
      /\ \A n \in out'.live \cup out'.filled : n < expected_seq'
  BY DecodeLiveAdds DEF TypeOK
<1>2. BringsNothing(replies') /\ FromServer(replies', current_session')
  OBVIOUS
<1>3. NextDue' = expected_seq'
  BY DEF NextDue
<1> QED
  BY <1>1, <1>2, <1>3 DEF Replying

\* What is on its way without a message may belong to any session.
LEMMA FromServerAny ==
  ASSUME NEW q, BringsNothing(q), NEW s, FromServer(q, s), NEW t
  PROVE  FromServer(q, t)
BY DEF BringsNothing, FromServer

\* Reading the multicast keeps Replying.
LEMMA ReplyingReceive == IInv /\ Replying /\ Receive => Replying'
<1> SUFFICES ASSUME TypeOK, Filling, Tracked, Replying, Receive,
                    Server = "prompt", enable_recovery
             PROVE  Replying'
  BY NotReplying DEF IInv, Receive, options
<1>0. UNCHANGED <<enable_recovery, max_messages>>
  BY DEF Receive, options
<1>1. ASSUME UNCHANGED <<pc, tracking, gap, replies, out>>
      PROVE  Replying'
  <2>1. UNCHANGED <<pc, current_session, joined, expected_seq, header,
                    current_seq, got_in_chunk, req_count, replies, out>>
    BY <1>1 DEF tracking, gap, chunk
  <2> QED
    BY <1>0, <2>1 DEF Replying, NextDue
<1>2. SUFFICES ASSUME NEW d \in Feed, d \in Datagram, pc = "recv",
                      \/ ReceiveUntracked(d)
                      \/ ReceiveNewSession(d)
                      \/ ReceiveExpected(d)
                      \/ ReceiveAhead(d)
               PROVE  Replying'
  BY <1>1, LiveAssumption DEF Receive, ReceiveError, ReceiveIgnored, SkipDuplicate,
          vars, ReceiveUntracked, ReceiveNewSession, ReceiveExpected,
          ReceiveAhead, Follows, Receives
<1>3. /\ FromServer(replies, current_session) /\ BringsNothing(replies)
      /\ header = NoHeader /\ got_in_chunk = 0
      /\ out \in History /\ out.again = {} /\ out.refilled = {}
      /\ NextDue = expected_seq
      /\ \A n \in out.live \cup out.filled : n < expected_seq
  BY <1>2 DEF Replying, TypeOK, NextDue
<1>4. d.seq \in Nat /\ expected_seq \in Nat
  BY <1>2, ProcessedFacts DEF TypeOK
<1>5. CASE ReceiveUntracked(d)
  BY <1>5 DEF ReceiveUntracked
<1>6. CASE ReceiveNewSession(d)
  <2>1. DecodeLive(d, Blank(d.seq)) /\ UNCHANGED <<gap, replies>>
    BY <1>6 DEF ReceiveNewSession
  <2>2. Blank(d.seq) \in History /\ Blank(d.seq).again = {} /\ Blank(d.seq).refilled = {}
        /\ Blank(d.seq).live = {} /\ Blank(d.seq).filled = {}
    BY <1>4 DEF Blank, History
  <2>3. FromServer(replies, current_session')
    BY <1>3, FromServerAny
  <2> QED
    BY <1>2, <1>3, <2>1, <2>2, <2>3, ReplyingDecode DEF gap, chunk
<1>7. CASE ReceiveExpected(d)
  <2>1. /\ DecodeLive(d, out) /\ d.seq = expected_seq
        /\ UNCHANGED <<current_session, gap, replies>>
    BY <1>7 DEF ReceiveExpected, Follows
  <2> QED
    BY <1>2, <1>3, <2>1, ReplyingDecode DEF gap, chunk
<1>8. CASE ReceiveAhead(d)
  <2>1. /\ pc' = "ask" /\ header' = d /\ current_seq' = expected_seq
        /\ got_in_chunk' = 0
        /\ UNCHANGED <<current_session, replies, out>>
    BY <1>3, <1>8 DEF ReceiveAhead, tracking, chunk
  <2>2. header' # NoHeader
    BY <1>2, <2>1, LiveAssumption
  <2>3. NextDue' = expected_seq
    BY <1>4, <2>1, <2>2 DEF NextDue
  <2> QED
    BY <1>3, <2>1, <2>3 DEF Replying
<1> QED
  BY <1>2, <1>5, <1>6, <1>7, <1>8

\* The facts about a request under way that the next reply is read against.
LEMMA Awaiting ==
  ASSUME TypeOK, Filling, Replying, Server = "prompt", enable_recovery, pc = "await"
  PROVE  /\ current_seq \in Nat /\ remaining \in Nat \ {0}
         /\ req_count \in Nat \ {0} /\ req_count <= remaining
         /\ got_in_chunk \in Nat /\ got_in_chunk < req_count
         /\ header \in Datagram /\ header # NoHeader /\ header.seq \in Nat
         /\ header.session = current_session
         /\ current_seq + remaining = header.seq
         /\ NextDue = current_seq + got_in_chunk /\ NextDue \in Nat
         /\ FromServer(replies, current_session)
         /\ out.again = {} /\ out.refilled = {}
         /\ \A n \in out.live \cup out.filled : n < NextDue
         /\ \E next \in NextDue..(current_seq + req_count) :
              Conveys(replies, NextDue, next)
<1>1. /\ current_seq \in Nat /\ remaining \in Nat \ {0} /\ got_in_chunk \in Nat
      /\ header \in Datagram /\ header # NoHeader
      /\ header.session = current_session
      /\ current_seq + remaining = header.seq
      /\ req_count = Least(remaining, MaxPerRequest)
  BY LiveAssumption DEF TypeOK, Filling
<1>2. req_count \in Nat \ {0} /\ req_count <= remaining /\ header.seq \in Nat
  BY <1>1, LiveAssumption DEF Least
<1>3. NextDue = current_seq + got_in_chunk /\ NextDue \in Nat
  BY <1>1 DEF NextDue
<1> QED
  BY <1>1, <1>2, <1>3 DEF Replying

\* A prompt server is never silent before the last reply has been read, and
\* none of its datagrams reads as silence.
LEMMA PromptSilence ==
  ASSUME TypeOK, Filling, Replying, Server = "prompt", enable_recovery,
         ReceiveTimeout \/ ReceiveFails \/ ReceiveEmptyReply
  PROVE  ReceiveTimeout /\ pc = "await" /\ replies = <<>>
<1>1. ~ReceiveFails
  BY DEF ReceiveFails
<1>2. ~ReceiveEmptyReply
  <2> SUFFICES ASSUME ReceiveEmptyReply PROVE FALSE
    OBVIOUS
  <2>1. replies \in Seq(Datagram) /\ replies # <<>> /\ Head(replies).kind = "empty"
        /\ FromServer(replies, current_session)
    BY DEF ReceiveEmptyReply, TypeOK, Replying
  <2> QED
    BY <2>1, QueueFacts
<1> QED
  BY <1>1, <1>2 DEF ReceiveTimeout

\* A reply of a prompt server is the next one due: what it brings is printed
\* for the first time, NextDue moves behind it, and what is left on the way
\* continues there.
LEMMA ReplyStep ==
  ASSUME TypeOK, Filling, Replying, Server = "prompt", enable_recovery,
         ReceiveReply, UNCHANGED <<enable_recovery, max_messages>>
  PROVE  /\ NextDue \in Nat /\ NextDue' \in Nat /\ NextDue <= NextDue'
         /\ out'.first = out.first
         /\ out'.live = out.live
         /\ out'.filled = out.filled \cup (NextDue..(NextDue' - 1))
         /\ out'.again = out.again
         /\ out'.refilled = out.refilled
         /\ out'.whole = out.whole
         /\ \A e \in Nat : NextDue <= e /\ Conveys(replies, NextDue, e)
              => /\ NextDue' <= e
                 /\ pc' # "done" => Conveys(replies', NextDue', e)
         /\ FromServer(replies', current_session)
         /\ pc' \in {"ask", "await", "resume", "done"}
         /\ pc' \in {"ask", "resume"} =>
              got_in_chunk' = 0 /\ NextDue' >= current_seq + req_count
         /\ pc' = "resume" => NextDue' = header.seq
         /\ pc' = "await" =>
              current_seq' = current_seq /\ got_in_chunk' < req_count
<1> DEFINE d == Head(replies)
           x == Processed(d, decoded_count, max_messages)
           got == got_in_chunk + x
           p == NextDue
<1>1. /\ pc = "await" /\ replies # <<>> /\ replies' = Tail(replies)
      /\ out' = IF d.session = current_session
                THEN PrintFilled(out, Numbers(d, decoded_count, max_messages)) ELSE out
      /\ IF StopsAt(d, decoded_count, max_messages)
         THEN /\ pc' = "done"
              /\ got_in_chunk' = got
              /\ UNCHANGED <<current_seq, remaining>>
         ELSE IF got >= req_count THEN EndChunk(got) ELSE StayInChunk(got)
      /\ UNCHANGED <<tracking, header, req_count>>
  BY DEF ReceiveReply
<1>2. /\ current_seq \in Nat /\ remaining \in Nat \ {0}
      /\ req_count \in Nat \ {0} /\ req_count <= remaining
      /\ got_in_chunk \in Nat /\ got_in_chunk < req_count
      /\ header # NoHeader /\ header.seq \in Nat
      /\ current_seq + remaining = header.seq
      /\ p = current_seq + got_in_chunk /\ p \in Nat
      /\ FromServer(replies, current_session)
      /\ \A n \in out.live \cup out.filled : n < p
      /\ \E next \in p..(current_seq + req_count) : Conveys(replies, p, next)
  BY <1>1, Awaiting
<1>3. /\ replies \in Seq(Datagram) /\ d \in Datagram
      /\ decoded_count \in Nat /\ max_messages \in Nat /\ out \in History
  BY <1>1 DEF TypeOK
<1> HIDE DEF d, x, p, got
<1>4. ASSUME NEW e \in Nat, p <= e, Conveys(replies, p, e)
      PROVE  /\ x \in Nat
             /\ p + x <= e
             /\ d.session = current_session =>
                  Numbers(d, decoded_count, max_messages) = p..(p + x - 1)
             /\ d.session # current_session => x = 0
             /\ ~StopsAt(d, decoded_count, max_messages) => Conveys(Tail(replies), p + x, e)
  <2>1. /\ replies \in Seq(Datagram) /\ replies # <<>>
        /\ p \in Nat /\ e \in Nat /\ p <= e /\ Conveys(replies, p, e)
        /\ FromServer(replies, current_session)
        /\ decoded_count \in Nat /\ max_messages \in Nat
    BY <1>1, <1>2, <1>3, <1>4
  <2>2. TakesNext(replies, current_session, p, e, decoded_count, max_messages)
    BY <2>1, NextReply
  <2> QED
    BY <2>2 DEF TakesNext, d, x
<1>5. PICK e0 \in Nat : /\ p <= e0 /\ e0 <= current_seq + req_count
                        /\ Conveys(replies, p, e0)
  <2>1. PICK next \in p..(current_seq + req_count) : Conveys(replies, p, next)
    BY <1>2
  <2>2. next \in Nat /\ p <= next /\ next <= current_seq + req_count
    BY <1>2, <2>1
  <2> QED
    BY <2>1, <2>2
<1>6. /\ x \in Nat /\ p + x <= e0
      /\ d.session = current_session =>
           Numbers(d, decoded_count, max_messages) = p..(p + x - 1)
      /\ d.session # current_session => x = 0
  BY <1>4, <1>5
<1>7. got \in Nat /\ got = got_in_chunk + x /\ current_seq + got = p + x
  BY <1>2, <1>6 DEF got
<1>8. header' = header /\ header' # NoHeader /\ req_count' = req_count
  BY <1>1, <1>2
<1>9. NextDue' = p + x
  <2>1. NextDue' = current_seq' + got_in_chunk'
    BY <1>8 DEF NextDue
  <2>2. CASE StopsAt(d, decoded_count, max_messages)
    BY <1>1, <1>7, <2>1, <2>2
  <2>3. CASE EndChunk(got)
    BY <1>2, <1>7, <2>1, <2>3, EndChunkPosition
  <2>4. CASE StayInChunk(got)
    BY <1>7, <2>1, <2>4 DEF StayInChunk
  <2> QED
    BY <1>1, <2>2, <2>3, <2>4
<1>10. NextDue' \in Nat /\ p <= NextDue'
  BY <1>2, <1>6, <1>9, SMTT(20)
<1>11. /\ out'.first = out.first /\ out'.live = out.live
       /\ out'.filled = out.filled \cup (p..(p + x - 1))
       /\ out'.again = out.again /\ out'.refilled = out.refilled
       /\ out'.whole = out.whole
  <2>1. CASE d.session = current_session
    <3>1. p..(p + x - 1) \in SUBSET Nat /\ \A n \in p..(p + x - 1) : p <= n
      BY <1>2, <1>6
    <3>2. out' = PrintFilled(out, p..(p + x - 1))
      BY <1>1, <1>6, <2>1
    <3> QED
      BY <1>2, <1>3, <3>1, <3>2, FilledAdds
  <2>2. CASE d.session # current_session
    <3>1. out' = out /\ p..(p + x - 1) = {}
      BY <1>1, <1>2, <1>6, <2>2
    <3> QED
      BY <3>1
  <2> QED
    BY <2>1, <2>2
<1>12. ASSUME NEW e \in Nat, p <= e, Conveys(replies, p, e)
       PROVE  /\ NextDue' <= e
              /\ pc' # "done" => Conveys(replies', NextDue', e)
  BY <1>1, <1>4, <1>9, <1>12
<1>13. FromServer(replies', current_session)
  BY <1>1, <1>2, <1>3, QueueFacts
<1>14. pc' \in {"ask", "resume"} =>
         got_in_chunk' = 0 /\ NextDue' >= current_seq + req_count /\ got >= req_count
           /\ EndChunk(got)
  BY <1>1, <1>2, <1>7, <1>9, EndChunkPosition DEF StayInChunk
<1>15. pc' = "resume" => NextDue' = header.seq
  <2> SUFFICES ASSUME pc' = "resume" PROVE NextDue' = header.seq
    OBVIOUS
  <2>1. got >= req_count /\ EndChunk(got)
    BY <1>14
  <2>2. got >= remaining
    BY <1>2, <1>7, <2>1, EndChunkPosition
  <2>3. p + x <= current_seq + req_count
    BY <1>2, <1>5, <1>6
  <2> QED
    BY <1>2, <1>7, <1>9, <2>2, <2>3
<1>16. pc' = "await" => current_seq' = current_seq /\ got_in_chunk' < req_count
  <2>1. pc' = "await" => StayInChunk(got) /\ ~(got >= req_count)
    BY <1>1, <1>2, <1>7, EndChunkPosition
  <2> QED
    BY <1>2, <1>7, <2>1 DEF StayInChunk
<1>17. pc' \in {"ask", "await", "resume", "done"}
  BY <1>1, <1>2, <1>7, EndChunkPosition DEF StayInChunk
<1> QED
  <2>1. out'.filled = out.filled \cup (p..(NextDue' - 1))
    BY <1>2, <1>6, <1>9, <1>11
  <2> QED
    BY <1>2, <1>10, <1>11, <1>12, <1>13, <1>14, <1>15, <1>16, <1>17, <2>1, Zenon
       DEF p

\* Filling a gap keeps Replying.
LEMMA ReplyingGapFill == IInv /\ Replying /\ GapFill => Replying'
<1> SUFFICES ASSUME TypeOK, Filling, Tracked, Replying, GapFill,
                    Server = "prompt", enable_recovery
             PROVE  Replying'
  BY NotReplying DEF IInv, GapFill, options
<1>0. UNCHANGED <<enable_recovery, max_messages>>
  BY DEF GapFill, options
<1>1. /\ out \in History /\ replies \in Seq(Datagram)
      /\ current_seq \in Nat /\ req_count \in Nat
      /\ FromServer(replies, current_session)
      /\ out.again = {} /\ out.refilled = {}
      /\ \A n \in out.live \cup out.filled : n < NextDue
  BY DEF TypeOK, Replying
<1>2. ASSUME pc \in {"ask", "resume"}
      PROVE  /\ header \in Datagram /\ header # NoHeader
             /\ header.session = current_session
             /\ got_in_chunk = 0 /\ BringsNothing(replies) /\ NextDue = current_seq
  BY <1>1, <1>2, LiveAssumption DEF Filling, Replying, NextDue
<1>3. CASE SendRequest
  <2>1. /\ pc = "ask" /\ pc' = "await" /\ got_in_chunk' = 0
        /\ req_count' = Least(remaining, MaxPerRequest)
        /\ UNCHANGED <<current_session, header, current_seq>>
    BY <1>3 DEF SendRequest, RequestCount, tracking
  <2>2. req_count' \in Nat \ {0}
    BY <2>1, LiveAssumption DEF Least, TypeOK, Filling
  <2>3. PICK ans \in Answers(header.session, current_seq, req_count') :
          /\ replies' = replies \o ans
          /\ out' = [out EXCEPT !.whole = @ /\ Full(ans, current_seq, req_count')]
    BY <1>3 DEF SendRequest
  <2>4. header.session \in Sessions
    BY <1>2, <2>1, ProcessedFacts DEF TypeOK
  <2>5. /\ ans \in Seq(Datagram)
        /\ FromServer(ans, current_session)
        /\ Reach(ans, current_seq) \in current_seq..(current_seq + req_count')
        /\ Conveys(ans, current_seq, Reach(ans, current_seq))
    BY <1>1, <1>2, <2>1, <2>2, <2>4, PromptAnswers, AnswersAreDatagrams
  <2>6. Conveys(replies', current_seq, Reach(ans, current_seq))
    BY <1>1, <1>2, <2>1, <2>3, <2>5, ConveysBehind
  <2>7. FromServer(replies', current_session)
    BY <1>1, <2>3, <2>5, QueueFacts
  <2>8. NextDue' = current_seq /\ NextDue = current_seq
    BY <1>1, <1>2, <2>1 DEF NextDue
  <2>9. /\ out'.live = out.live /\ out'.filled = out.filled
        /\ out'.again = out.again /\ out'.refilled = out.refilled
    BY <1>1, <2>3 DEF History
  <2>10. got_in_chunk' < req_count'
    BY <2>1, <2>2
  <2>11. \E next \in NextDue'..(current_seq' + req_count') :
           Conveys(replies', NextDue', next)
    BY <2>1, <2>5, <2>6, <2>8
  <2> QED
    BY <1>1, <2>1, <2>7, <2>8, <2>9, <2>10, <2>11 DEF Replying
<1>4. CASE SendRequestFails
  <2>1. /\ pc = "ask" /\ pc' = "resume"
        /\ UNCHANGED <<current_session, header, current_seq, got_in_chunk, replies>>
    BY <1>4 DEF SendRequestFails, tracking, gap, chunk
  <2>2. /\ out'.live = out.live /\ out'.filled = out.filled
        /\ out'.again = out.again /\ out'.refilled = out.refilled
    BY <1>1, <1>4 DEF SendRequestFails, History
  <2>3. NextDue' = NextDue
    BY <1>2, <2>1 DEF NextDue
  <2>4. NextDue' <= header'.seq
    <3>1. header.seq \in Nat
      BY <1>2, <2>1, ProcessedFacts DEF TypeOK
    <3> QED
      BY <1>1, <1>2, <2>1, <2>3, <3>1 DEF Filling, TypeOK
  <2> QED
    BY <1>1, <1>2, <2>1, <2>2, <2>3, <2>4 DEF Replying
<1>5. CASE ReceiveTimeout \/ ReceiveFails \/ ReceiveEmptyReply
  <2>1. ReceiveTimeout /\ pc = "await" /\ replies = <<>>
    BY <1>5, PromptSilence
  <2>2. /\ CountSilence
        /\ UNCHANGED <<current_session, header, req_count, replies, out>>
    BY <2>1 DEF ReceiveTimeout, tracking
  <2>3. /\ remaining \in Nat \ {0} /\ req_count <= remaining
        /\ got_in_chunk \in Nat /\ got_in_chunk < req_count
        /\ header # NoHeader /\ header.seq \in Nat
        /\ current_seq + remaining = header.seq
        /\ NextDue = current_seq + got_in_chunk
        /\ \E next \in NextDue..(current_seq + req_count) :
             Conveys(replies, NextDue, next)
    BY <2>1, Awaiting
  <2>4. FromServer(replies', current_session') /\ BringsNothing(replies')
    BY <1>1, <2>1, <2>2 DEF BringsNothing
  <2>5. CASE EndChunk(got_in_chunk)
    <3>1. /\ got_in_chunk' = 0 /\ pc' \in {"ask", "resume"}
          /\ current_seq' + got_in_chunk' = current_seq + got_in_chunk
      BY <1>1, <2>3, <2>5, EndChunkPosition
    <3>2. NextDue' = NextDue
      BY <2>2, <2>3, <3>1 DEF NextDue
    <3>3. NextDue' <= header'.seq
      BY <1>1, <2>2, <2>3, <3>2
    <3> QED
      BY <1>1, <2>2, <2>4, <3>1, <3>2, <3>3 DEF Replying
  <2>6. CASE StayInChunk(got_in_chunk)
    <3>1. UNCHANGED <<pc, current_seq, got_in_chunk>>
      BY <2>6 DEF StayInChunk
    <3>2. NextDue' = NextDue
      BY <2>2, <2>3, <3>1 DEF NextDue
    <3> QED
      BY <1>1, <2>1, <2>2, <2>3, <2>4, <3>1, <3>2 DEF Replying
  <2> QED
    BY <2>2, <2>5, <2>6 DEF CountSilence
<1>6. CASE ReceiveReply
  <2>1. /\ NextDue \in Nat /\ NextDue' \in Nat /\ NextDue <= NextDue'
        /\ out'.live = out.live
        /\ out'.filled = out.filled \cup (NextDue..(NextDue' - 1))
        /\ out'.again = out.again
        /\ out'.refilled = out.refilled
        /\ \A e \in Nat : NextDue <= e /\ Conveys(replies, NextDue, e)
             => /\ NextDue' <= e
                /\ pc' # "done" => Conveys(replies', NextDue', e)
        /\ FromServer(replies', current_session)
        /\ pc' \in {"ask", "await", "resume", "done"}
        /\ pc' \in {"ask", "resume"} =>
             got_in_chunk' = 0 /\ NextDue' >= current_seq + req_count
        /\ pc' = "resume" => NextDue' = header.seq
        /\ pc' = "await" =>
             current_seq' = current_seq /\ got_in_chunk' < req_count
    BY <1>0, <1>6, ReplyStep
  <2>2. /\ pc = "await" /\ replies' = Tail(replies) /\ replies # <<>>
        /\ UNCHANGED <<current_session, header, req_count>>
    BY <1>6 DEF ReceiveReply, tracking
  <2>3. PICK e \in Nat : /\ NextDue <= e /\ e <= current_seq + req_count
                         /\ Conveys(replies, NextDue, e)
    <3>1. PICK next \in NextDue..(current_seq + req_count) :
            Conveys(replies, NextDue, next)
      BY <2>2, Awaiting
    <3>2. next \in Nat /\ NextDue <= next /\ next <= current_seq + req_count
      BY <1>1, <2>1
    <3> QED
      BY <3>1, <3>2
  <2>4. NextDue' <= e /\ (pc' # "done" => Conveys(replies', NextDue', e))
    BY <2>1, <2>3
  <2>5. replies' \in Seq(Datagram)
    BY <1>1, <2>2
  <2>6. pc' \in {"ask", "resume"} => BringsNothing(replies')
    <3> SUFFICES ASSUME pc' \in {"ask", "resume"} PROVE BringsNothing(replies')
      OBVIOUS
    <3>1. e = NextDue'
      BY <1>1, <2>1, <2>3, <2>4
    <3> QED
      BY <2>1, <2>4, <2>5, <3>1, ConveysNothing
  <2>7. \A n \in out'.live \cup out'.filled : n < NextDue'
    <3> SUFFICES ASSUME NEW n \in out'.live \cup out'.filled PROVE n < NextDue'
      OBVIOUS
    <3>1. CASE n \in NextDue..(NextDue' - 1)
      BY <2>1, <3>1
    <3>2. CASE n \in out.live \cup out.filled
      <4>1. n \in Nat /\ n < NextDue
        BY <1>1, <3>2 DEF History
      <4> QED
        BY <2>1, <4>1
    <3> QED
      BY <2>1, <3>1, <3>2
  <2>8. pc' = "await" => \E next \in NextDue'..(current_seq' + req_count') :
                           Conveys(replies', NextDue', next)
    BY <1>1, <2>1, <2>2, <2>3, <2>4
  <2>9. pc' = "resume" => NextDue' <= header'.seq
    BY <2>1, <2>2
  <2> QED
    BY <1>1, <2>1, <2>2, <2>6, <2>7, <2>8, <2>9 DEF Replying
<1>7. CASE Resume
  <2>1. /\ pc = "resume" /\ DecodeLive(header, out)
        /\ header' = NoHeader /\ got_in_chunk' = 0
        /\ UNCHANGED <<current_session, replies>>
    BY <1>7 DEF Resume
  <2>2. header.seq \in Nat /\ NextDue <= header.seq /\ NextDue \in Nat
    BY <1>1, <1>2, <2>1, ProcessedFacts DEF Replying, TypeOK
  <2>3. \A n \in out.live \cup out.filled : n < header.seq
    <3> SUFFICES ASSUME NEW n \in out.live \cup out.filled PROVE n < header.seq
      OBVIOUS
    <3>1. n \in Nat /\ n < NextDue
      BY <1>1 DEF History
    <3> QED
      BY <2>2, <3>1
  <2> QED
    BY <1>1, <1>2, <2>1, <2>3, ReplyingDecode
<1> QED
  BY <1>3, <1>4, <1>5, <1>6, <1>7 DEF GapFill

\* Replying holds in every reachable state.
THEOREM RepliesInOrder == Spec => []Replying
<1>1. IInv /\ Replying /\ [Next]_vars => Replying'
  <2> SUFFICES ASSUME IInv, Replying, [Next]_vars PROVE Replying'
    OBVIOUS
  <2>1. CASE UNCHANGED vars
    BY <2>1 DEF Replying, NextDue, vars, options, tracking, gap, chunk
  <2> QED
    BY <2>1, ReplyingReceive, ReplyingGapFill DEF Next, Terminated
<1> QED
  BY ReplyingInit, <1>1, Invariance, PTL DEF Spec

\* One step of live mode is a step of OrderedFeed, or none.
LEMMA WholeStep ==
  ASSUME Server = "prompt", IInv, Replying, [Next]_vars
  PROVE  WholeOrder!Next \/ UNCHANGED WholeOrder!vars
<1>0. /\ UNCHANGED enable_recovery /\ TypeOK /\ Filling /\ Tracked
      /\ out \in History /\ decoded_count \in Nat /\ max_messages \in Nat
      /\ out.live \subseteq Nat /\ out.filled \subseteq Nat
      /\ expected_seq \in Nat
  BY DEF Next, Receive, GapFill, Terminated, vars, options, IInv, TypeOK, History
<1>1. ASSUME ~enable_recovery PROVE UNCHANGED WholeOrder!vars \/ WholeOrder!Next
  <2>2. UNCHANGED current_session
    <3>1. \A d \in Feed : ~ReceiveNewSession(d) /\ ~ReceiveExpected(d) /\ ~ReceiveAhead(d)
      BY <1>1 DEF ReceiveNewSession, ReceiveExpected, ReceiveAhead, Follows
    <3>2. pc \notin {"ask", "await", "resume"}
      BY <1>0, <1>1 DEF Filling
    <3> QED
      BY <3>1, <3>2 DEF Next, Receive, GapFill, Terminated, ReceiveError,
         ReceiveIgnored, ReceiveUntracked, SkipDuplicate, SendRequest,
         SendRequestFails, ReceiveTimeout, ReceiveFails, ReceiveEmptyReply,
         ReceiveReply, Resume, vars, tracking
  <2> QED
    BY <1>0, <1>1, <2>2 DEF WholeOrder!vars, IfTracked
<1> SUFFICES ASSUME enable_recovery
             PROVE  WholeOrder!Next \/ UNCHANGED WholeOrder!vars
  BY <1>1
<1>2. /\ out.again = {} /\ out.refilled = {}
      /\ \A n \in out.live \cup out.filled : n < NextDue
      /\ NextDue \in Nat
  BY <1>0 DEF Replying, NextDue, TypeOK
<1>3. ASSUME UNCHANGED <<current_session, NextDue>>,
             out'.live = out.live, out'.filled = out.filled,
             out'.again = out.again, out'.refilled = out.refilled
      PROVE  UNCHANGED WholeOrder!vars
  BY <1>0, <1>3 DEF WholeOrder!vars, IfTracked
<1>4. ASSUME NEW d \in Datagram, DecodeLive(d, out), NextDue <= d.seq,
             header' = NoHeader,
             current_session # NoSession, UNCHANGED current_session
      PROVE  WholeOrder!Advance
  <2>0. d.seq \in Nat
    BY ProcessedFacts, <1>0
  <2>1. \A n \in out.live \cup out.filled : n < d.seq
    <3> SUFFICES ASSUME NEW n \in out.live \cup out.filled PROVE n < d.seq
      OBVIOUS
    <3>1. n \in Nat /\ n < NextDue
      BY <1>0, <1>2
    <3> QED
      BY <1>2, <1>4, <2>0, <3>1
  <2>2. /\ expected_seq' \in Nat /\ d.seq <= expected_seq'
        /\ out'.filled = out.filled /\ out.live \subseteq out'.live
        /\ out'.again = out.again /\ out'.refilled = out.refilled
        /\ \A n \in out'.live \ out.live : d.seq <= n /\ n < expected_seq'
    BY <1>0, <1>4, <2>1, DecodeLiveAdds
  <2>3. NextDue' = expected_seq' /\ NextDue <= NextDue' /\ NextDue' \in Nat
    BY <1>2, <1>4, <2>0, <2>2 DEF NextDue
  <2>4. out' \in History
    <3>1. \A n \in out.live : n < d.seq
      BY <2>1
    <3> QED
      BY <1>0, <1>4, <3>1, DecodeLiveKeeps
  <2>5. \A n \in (out'.live \cup out'.filled) \ (out.live \cup out.filled) :
          NextDue <= n /\ n < NextDue'
    <3> SUFFICES ASSUME NEW n \in out'.live \ out.live
                 PROVE  NextDue <= n /\ n < NextDue'
      BY <2>2
    <3>1. n \in Nat /\ d.seq <= n /\ n < expected_seq'
      BY <2>2, <2>4 DEF History
    <3> QED
      BY <1>2, <1>4, <2>0, <2>3, <3>1
  <2> QED
    BY <1>0, <1>4, <2>2, <2>3, <2>5 DEF WholeOrder!Advance, IfTracked
<1>5. CASE UNCHANGED vars
  BY <1>3, <1>5 DEF vars, tracking, gap, chunk, NextDue
<1>6. CASE ReceiveError
  BY <1>3, <1>6 DEF ReceiveError, tracking, gap, chunk, NextDue
<1>7. ASSUME NEW d \in Feed, pc = "recv",
             \/ ReceiveUntracked(d) \/ ReceiveNewSession(d)
             \/ ReceiveExpected(d)  \/ ReceiveAhead(d)
      PROVE  WholeOrder!Next \/ UNCHANGED WholeOrder!vars
  <2>1. d \in Datagram /\ d.seq \in Nat /\ d.session \in Sessions
    BY <1>0, LiveAssumption, ProcessedFacts
  <2>2. header = NoHeader /\ got_in_chunk = 0 /\ NextDue = expected_seq
    BY <1>7 DEF Replying, NextDue
  <2>3. CASE ReceiveUntracked(d)
    BY <2>3 DEF ReceiveUntracked
  <2>4. CASE ReceiveNewSession(d)
    <3>1. /\ DecodeLive(d, Blank(d.seq))
          /\ current_session' = d.session /\ header' = NoHeader
          /\ ~joined \/ d.session # current_session
      BY <2>2, <2>4 DEF ReceiveNewSession, gap
    <3>2. d.session # current_session
      BY <1>0, <2>1, <3>1, LiveAssumption DEF Filling
    <3>3. /\ Blank(d.seq) \in History
          /\ Blank(d.seq).live = {} /\ Blank(d.seq).filled = {}
          /\ Blank(d.seq).again = {} /\ Blank(d.seq).refilled = {}
      BY <2>1 DEF Blank, History
    <3>4. /\ expected_seq' \in Nat
          /\ out'.again = {} /\ out'.refilled = {}
          /\ \A n \in out'.live \cup out'.filled : n < expected_seq'
      BY <1>0, <2>1, <3>1, <3>3, DecodeLiveAdds
    <3>5. NextDue' = expected_seq'
      BY <3>1 DEF NextDue
    <3>6. WholeOrder!Enter(d.session)
      BY <1>0, <1>2, <3>1, <3>2, <3>4, <3>5 DEF WholeOrder!Enter, IfTracked
    <3> QED
      BY <2>1, <3>6 DEF WholeOrder!Next
  <2>5. CASE ReceiveExpected(d)
    <3>1. /\ DecodeLive(d, out) /\ d.seq = expected_seq /\ joined
          /\ header' = NoHeader /\ UNCHANGED current_session
      BY <2>2, <2>5 DEF ReceiveExpected, Follows, gap
    <3>2. current_session # NoSession /\ NextDue <= d.seq
      BY <1>0, <2>1, <2>2, <3>1 DEF Filling
    <3> QED
      BY <1>4, <2>1, <3>1, <3>2 DEF WholeOrder!Next
  <2>6. CASE ReceiveAhead(d)
    <3>1. /\ header' = d /\ current_seq' = expected_seq /\ got_in_chunk' = 0
          /\ UNCHANGED <<current_session, out>>
      BY <2>2, <2>6 DEF ReceiveAhead, tracking, chunk
    <3>2. NextDue' = NextDue
      BY <1>0, <2>1, <2>2, <3>1, LiveAssumption DEF NextDue
    <3> QED
      BY <1>3, <3>1, <3>2
  <2> QED
    BY <1>7, <2>3, <2>4, <2>5, <2>6
<1>8. CASE SendRequest \/ SendRequestFails
  <2>1. /\ header # NoHeader /\ got_in_chunk = 0
    BY <1>0, <1>8, LiveAssumption DEF Filling, Replying, SendRequest, SendRequestFails
  <2>2. /\ got_in_chunk' = 0
        /\ UNCHANGED <<current_session, header, current_seq>>
    BY <1>8, <2>1 DEF SendRequest, SendRequestFails, tracking, gap, chunk
  <2>3. NextDue' = NextDue
    BY <2>1, <2>2 DEF NextDue
  <2>4. /\ out'.live = out.live /\ out'.filled = out.filled
        /\ out'.again = out.again /\ out'.refilled = out.refilled
    BY <1>0, <1>8 DEF SendRequest, SendRequestFails, History
  <2> QED
    BY <1>3, <2>2, <2>3, <2>4
<1>9. CASE ReceiveTimeout \/ ReceiveFails \/ ReceiveEmptyReply
  <2>1. ReceiveTimeout /\ pc = "await"
    BY <1>0, <1>9, PromptSilence
  <2>2. CountSilence /\ UNCHANGED <<current_session, expected_seq, header, out>>
    BY <2>1 DEF ReceiveTimeout, tracking
  <2>3. /\ header # NoHeader /\ got_in_chunk \in Nat
        /\ current_seq \in Nat /\ remaining \in Nat
        /\ NextDue = current_seq + got_in_chunk
    BY <1>0, <2>1, Awaiting
  <2>4. current_seq' + got_in_chunk' = current_seq + got_in_chunk
    BY <2>2, <2>3, EndChunkPosition DEF CountSilence, StayInChunk
  <2>5. NextDue' = NextDue
    BY <2>2, <2>3, <2>4 DEF NextDue
  <2> QED
    BY <1>3, <2>2, <2>5
<1>10. CASE ReceiveReply /\ UNCHANGED max_messages
  <2>1. /\ NextDue' \in Nat /\ NextDue <= NextDue'
        /\ out'.live = out.live
        /\ out'.filled = out.filled \cup (NextDue..(NextDue' - 1))
        /\ out'.again = out.again /\ out'.refilled = out.refilled
    BY <1>0, <1>10, ReplyStep
  <2>2. /\ current_session # NoSession /\ UNCHANGED current_session
    BY <1>0, <1>10, LiveAssumption DEF ReceiveReply, tracking, Filling
  <2>3. \A n \in (out'.live \cup out'.filled) \ (out.live \cup out.filled) :
          NextDue <= n /\ n < NextDue'
    BY <1>2, <2>1
  <2> QED
    BY <1>0, <2>1, <2>2, <2>3 DEF WholeOrder!Next, WholeOrder!Advance, IfTracked
<1>11. CASE Resume
  <2>1. /\ pc = "resume" /\ DecodeLive(header, out)
        /\ header' = NoHeader /\ UNCHANGED current_session
    BY <1>11 DEF Resume
  <2>2. /\ header \in Datagram /\ NextDue <= header.seq
        /\ current_session # NoSession
    BY <1>0, <2>1 DEF Filling, Replying
  <2> QED
    BY <1>4, <2>1, <2>2 DEF WholeOrder!Next
<1>12. CASE Receive
  <2>1. \/ ReceiveError \/ UNCHANGED vars
        \/ \E d \in Feed : \/ ReceiveUntracked(d) \/ ReceiveNewSession(d)
                           \/ ReceiveExpected(d)  \/ ReceiveAhead(d)
    BY <1>12 DEF Receive, ReceiveIgnored, SkipDuplicate
  <2>2. \A d \in Feed : ReceiveUntracked(d) \/ ReceiveNewSession(d)
                        \/ ReceiveExpected(d)  \/ ReceiveAhead(d) => pc = "recv"
    BY DEF ReceiveUntracked, ReceiveNewSession, ReceiveExpected, ReceiveAhead,
           Follows, Receives
  <2> QED
    BY <1>5, <1>6, <1>7, <2>1, <2>2
<1>13. CASE GapFill
  BY <1>8, <1>9, <1>10, <1>11, <1>13 DEF GapFill, options
<1> QED
  BY <1>5, <1>12, <1>13 DEF Next, Terminated

\* With -g and a server that answers in order and never late, live mode
\* implements OrderedFeed in all it prints: recovered messages come before the
\* packet that revealed their absence, and none is printed a second time.
THEOREM WholeImplementsOrder ==
  ASSUME Server = "prompt"
  PROVE  Spec => WholeInOrder
<1>1. Init => WholeOrder!Init
  BY DEF Init, Blank, NextDue, WholeOrder!Init, IfTracked
<1>2. IInv /\ Replying /\ [Next]_vars => [WholeOrder!Next]_(WholeOrder!vars)
  BY WholeStep
<1> QED
  BY <1>1, <1>2, Invariance, RepliesInOrder, PTL
     DEF Spec, WholeInOrder, WholeOrder!Spec
-----------------------------------------------------------------------------
(***************************************************************************)
(* Nothing is missed while the server answers in full.  Closing is         *)
(* inductive relative to IInv and Replying.                                *)
(***************************************************************************)

\* With ranges that follow one another, nothing lies between them.
LEMMA RangesMeet ==
  ASSUME NEW a \in Nat, NEW b \in Nat, NEW c \in Nat,
         NEW S, a..(b - 1) \subseteq S, NEW T, b..(c - 1) \subseteq T
  PROVE  a..(c - 1) \subseteq S \cup T
<1> SUFFICES ASSUME NEW n \in a..(c - 1) PROVE n \in S \cup T
  OBVIOUS
<1>1. n \in a..(b - 1) \/ n \in b..(c - 1)
  OBVIOUS
<1> QED
  BY <1>1

\* An answer in full to a request for numbers the server has brings them all.
LEMMA FullAnswer ==
  ASSUME NEW a \in Nat, NEW n \in Nat, n > 0, a + n <= Last + 1
  PROVE  AnswerEnd(a, n) = a + n
BY ServerAssumption DEF AnswerEnd, Least

\* At the start no session is joined.
LEMMA ClosingInit == Init => Closing
<1> SUFFICES ASSUME Init PROVE Closing
  OBVIOUS
<1>1. joined = FALSE /\ pc = "recv" /\ header = NoHeader
  BY DEF Init
<1>2. out.whole => Server = "prompt"
  BY DEF Init, Blank
<1> QED
  BY <1>1, <1>2 DEF Closing

\* Decoding a packet that continues what was printed.
LEMMA ClosingDecode ==
  ASSUME IInv, NEW d \in Datagram, parse_mold_header(d), NEW o \in History,
         DecodeLive(d, o),
         \A n \in o.live \cup o.filled : n < d.seq,
         header' = NoHeader, joined' => enable_recovery',
         o.whole => /\ Server = "prompt"
                    /\ o.first..(d.seq - 1) \subseteq o.live \cup o.filled
  PROVE  Closing'
<1>1. decoded_count \in Nat /\ max_messages \in Nat
  BY DEF IInv, TypeOK
<1>2. /\ pc' \in {"recv", "done"}
      /\ expected_seq' \in Nat /\ d.seq \in Nat
      /\ out'.first = o.first /\ out'.filled = o.filled
      /\ o.live \subseteq out'.live
      /\ out'.whole => o.whole
      /\ out'.whole /\ pc' # "done" => d.seq..(expected_seq' - 1) \subseteq out'.live
  BY <1>1, DecodeLiveAdds
<1>3. o.first \in Nat
  BY DEF History
<1>4. NextDue' = expected_seq'
  BY DEF NextDue
<1>5. out'.whole /\ pc' # "done"
        => out'.first..(NextDue' - 1) \subseteq out'.live \cup out'.filled
  <2> SUFFICES ASSUME out'.whole, pc' # "done"
               PROVE  o.first..(expected_seq' - 1) \subseteq out'.live \cup out'.filled
    BY <1>2, <1>4
  <2>1. o.first..(expected_seq' - 1) \subseteq (o.live \cup o.filled) \cup out'.live
    BY <1>2, <1>3, RangesMeet
  <2> QED
    BY <1>2, <2>1
<1> QED
  BY <1>2, <1>5 DEF Closing

\* A stay that is not whole any more says nothing.
LEMMA ClosingNotWhole ==
  ASSUME NEW d, NEW o \in History, DecodeLive(d, o), ~o.whole,
         header' = NoHeader, joined' => enable_recovery'
  PROVE  Closing'
BY DEF DecodeLive, PrintLive, History, Closing

\* Reading the multicast keeps Closing.
LEMMA ClosingReceive ==
  ASSUME ServerKeepsFeed, IInv, Replying, Closing, Receive
  PROVE  Closing'
<1>1. TypeOK /\ Filling /\ Tracked
  BY DEF IInv
<1>2. ASSUME UNCHANGED <<pc, joined, expected_seq, header, current_seq,
                         got_in_chunk, req_count, replies, out>>
      PROVE  Closing'
  <2>1. UNCHANGED enable_recovery
    BY DEF Receive, options
  <2> QED
    BY <1>2, <2>1 DEF Closing, NextDue
<1>3. SUFFICES ASSUME NEW d \in Feed, d \in Datagram, Receives(d),
                      \/ ReceiveUntracked(d)
                      \/ ReceiveNewSession(d)
                      \/ ReceiveExpected(d)
                      \/ ReceiveAhead(d)
               PROVE  Closing'
  BY <1>2, LiveAssumption DEF Receive, ReceiveError, ReceiveIgnored, SkipDuplicate,
          vars, tracking, gap, chunk, ReceiveUntracked, ReceiveNewSession,
          ReceiveExpected, ReceiveAhead, Follows
<1>4. /\ parse_mold_header(d) /\ ~IsEndSession(d) /\ pc = "recv"
      /\ d.seq \in Nat /\ d.seq <= Last + 1
      /\ expected_seq \in Nat /\ out \in History
  BY <1>1, <1>3, ProcessedFacts DEF Receives, ServerKeepsFeed, TypeOK
<1>0. UNCHANGED enable_recovery /\ header = NoHeader
  BY <1>4 DEF Receive, options, Closing
<1>5. CASE ReceiveUntracked(d)
  <2>1. /\ ~enable_recovery /\ DecodeLive(d, out) /\ ~joined
        /\ UNCHANGED <<joined, header>>
    BY <1>5 DEF ReceiveUntracked, gap, Closing
  <2>2. out'.whole => out.whole
    BY <1>4, <2>1 DEF DecodeLive, PrintLive, History
  <2> QED
    BY <1>0, <2>1, <2>2 DEF Closing
<1>6. CASE ReceiveNewSession(d)
  <2>1. DecodeLive(d, Blank(d.seq)) /\ UNCHANGED header /\ enable_recovery
    BY <1>6 DEF ReceiveNewSession, gap
  <2>2. /\ Blank(d.seq) \in History /\ Blank(d.seq).first = d.seq
        /\ Blank(d.seq).live = {} /\ Blank(d.seq).filled = {}
        /\ Blank(d.seq).whole => Server = "prompt"
    BY <1>4 DEF Blank, History
  <2>3. d.seq..(d.seq - 1) = {}
    BY <1>4
  <2> QED
    BY <1>0, <1>3, <1>4, <2>1, <2>2, <2>3, ClosingDecode
<1>7. CASE ReceiveExpected(d)
  <2>1. /\ DecodeLive(d, out) /\ d.seq = expected_seq /\ joined
        /\ enable_recovery /\ UNCHANGED header
    BY <1>7 DEF ReceiveExpected, Follows, gap
  <2>2. NextDue = expected_seq
    BY <1>0 DEF NextDue
  <2>3. out.whole => /\ Server = "prompt"
                     /\ out.first..(d.seq - 1) \subseteq out.live \cup out.filled
                     /\ \A n \in out.live \cup out.filled : n < d.seq
    BY <1>4, <2>1, <2>2 DEF Closing, Replying
  <2>4. CASE out.whole
    BY <1>0, <1>3, <1>4, <2>1, <2>3, <2>4, ClosingDecode
  <2>5. CASE ~out.whole
    BY <1>0, <1>4, <2>1, <2>5, ClosingNotWhole
  <2> QED
    BY <2>4, <2>5
<1>8. CASE ReceiveAhead(d)
  <2>1. /\ pc' = "ask" /\ header' = d
        /\ current_seq' = expected_seq /\ got_in_chunk' = got_in_chunk
        /\ UNCHANGED <<joined, out>>
    BY <1>8 DEF ReceiveAhead, tracking, chunk
  <2>2. header' # NoHeader
    BY <1>3, <2>1, LiveAssumption
  <2>3. out.whole /\ joined => NextDue' = expected_seq /\ NextDue = expected_seq
    <3>1. out.whole /\ joined => got_in_chunk = 0
      BY <1>4 DEF Closing, Replying
    <3> QED
      BY <1>0, <1>4, <2>1, <2>2, <3>1 DEF NextDue
  <2> QED
    BY <1>0, <1>4, <2>1, <2>2, <2>3 DEF Closing
<1> QED
  BY <1>3, <1>5, <1>6, <1>7, <1>8

\* Filling a gap keeps Closing.
LEMMA ClosingGapFill ==
  ASSUME IInv, Replying, Closing, GapFill
  PROVE  Closing'
<1>0. /\ TypeOK /\ Filling /\ Tracked /\ UNCHANGED <<enable_recovery, max_messages>>
      /\ out \in History
  BY DEF IInv, GapFill, options, TypeOK
<1>1. ASSUME pc \in {"ask", "await", "resume"}
      PROVE  /\ enable_recovery /\ joined
             /\ header \in Datagram /\ header # NoHeader
             /\ header.session = current_session
             /\ parse_mold_header(header) /\ header.seq <= Last + 1
             /\ header.seq \in Nat
             /\ NextDue = current_seq + got_in_chunk
  BY <1>0, <1>1, LiveAssumption, ProcessedFacts DEF Filling, Closing, NextDue, TypeOK
<1>2. ASSUME pc' # "recv", ~out'.whole, UNCHANGED <<joined, header>>
      PROVE  Closing'
  BY <1>0, <1>2 DEF Closing
<1>3. CASE SendRequest
  <2>1. /\ pc = "ask" /\ pc' = "await" /\ got_in_chunk' = 0
        /\ req_count' = Least(remaining, MaxPerRequest)
        /\ UNCHANGED <<joined, current_session, header, current_seq>>
    BY <1>3 DEF SendRequest, RequestCount, tracking
  <2>2. /\ req_count' \in Nat \ {0} /\ current_seq \in Nat
        /\ current_seq + req_count' <= header.seq
    BY <1>0, <1>1, <2>1, LiveAssumption DEF Least, TypeOK, Filling
  <2>3. PICK ans \in Answers(header.session, current_seq, req_count') :
          /\ replies' = replies \o ans
          /\ out' = [out EXCEPT !.whole = @ /\ Full(ans, current_seq, req_count')]
    BY <1>3 DEF SendRequest
  <2>4. CASE ~out'.whole
    BY <1>2, <2>1, <2>4
  <2>5. CASE out'.whole
    <3>1. /\ out.whole /\ Full(ans, current_seq, req_count')
          /\ out'.first = out.first /\ out'.live = out.live
          /\ out'.filled = out.filled
      BY <1>0, <2>3, <2>5 DEF History
    <3>2. /\ Server = "prompt"
          /\ out.first..(NextDue - 1) \subseteq out.live \cup out.filled
          /\ got_in_chunk = 0 /\ BringsNothing(replies)
      BY <1>1, <2>1, <3>1 DEF Closing, Replying
    <3>3. NextDue' = current_seq /\ NextDue = current_seq
      BY <1>1, <2>1, <2>2, <3>2 DEF NextDue
    <3>4. AnswerEnd(current_seq, req_count') = current_seq + req_count'
      BY <1>1, <2>1, <2>2, ServerAssumption, FullAnswer
    <3>5. header.session \in Sessions
      BY <1>0, <1>1, <2>1, ProcessedFacts DEF TypeOK
    <3>6. ans \in Seq(Datagram) /\ Conveys(ans, current_seq, current_seq + req_count')
      BY <2>2, <2>3, <3>1, <3>2, <3>4, <3>5, PromptAnswers, AnswersAreDatagrams
         DEF Full
    <3>7. current_seq + req_count' \in Nat
      <4>1. \A m, n \in Nat : m + n \in Nat
        OBVIOUS
      <4>2. current_seq \in Nat /\ req_count' \in Nat
        BY <2>2
      <4> QED
        BY <4>1, <4>2, Zenon
    <3>8. Conveys(replies', NextDue', current_seq' + req_count')
      BY <1>0, <2>1, <2>2, <2>3, <3>2, <3>3, <3>6, <3>7, ConveysBehind DEF TypeOK
    <3> QED
      BY <1>0, <1>1, <2>1, <3>1, <3>2, <3>3, <3>8 DEF Closing
  <2> QED
    BY <2>4, <2>5
<1>4. CASE SendRequestFails
  <2>1. /\ pc' = "resume" /\ UNCHANGED <<joined, header>>
    BY <1>4 DEF SendRequestFails, tracking, gap
  <2>2. ~out'.whole
    BY <1>0, <1>4 DEF SendRequestFails, History
  <2> QED
    BY <1>2, <2>1, <2>2
<1>5. CASE ReceiveTimeout \/ ReceiveFails \/ ReceiveEmptyReply
  <2>1. /\ pc = "await" /\ CountSilence /\ UNCHANGED <<joined, header, out>>
    BY <1>5 DEF ReceiveTimeout, ReceiveFails, ReceiveEmptyReply, tracking
  <2>2. pc' # "recv"
    BY <2>1 DEF CountSilence, EndChunk, StayInChunk
  <2>3. ~out.whole
    <3> SUFFICES ASSUME out.whole PROVE FALSE
      OBVIOUS
    <3>1. /\ Server = "prompt" /\ enable_recovery
          /\ Conveys(replies, NextDue, current_seq + req_count)
      BY <1>1, <2>1 DEF Closing
    <3>2. replies = <<>>
      BY <1>0, <1>5, <3>1, PromptSilence
    <3>3. NextDue = current_seq + req_count
      BY <3>1, <3>2, ConveysEmpty
    <3>4. /\ NextDue = current_seq + got_in_chunk
          /\ current_seq \in Nat /\ got_in_chunk \in Nat /\ req_count \in Nat
          /\ got_in_chunk < req_count
      BY <1>0, <2>1, <3>1, Awaiting
    <3> QED
      BY <3>3, <3>4
  <2> QED
    BY <1>2, <2>1, <2>2, <2>3
<1>6. CASE ReceiveReply
  <2>1. /\ pc = "await" /\ UNCHANGED <<joined, header, req_count>>
    BY <1>6 DEF ReceiveReply, tracking
  <2>2. pc' # "recv"
    BY <1>6 DEF ReceiveReply, EndChunk, StayInChunk
  <2>3. CASE ~out'.whole
    BY <1>2, <2>1, <2>2, <2>3
  <2>4. CASE out'.whole
    <3>1. out.whole
      BY <1>0, <1>6, <2>4 DEF ReceiveReply, PrintFilled, History
    <3>2. /\ Server = "prompt" /\ enable_recovery
          /\ out.first..(NextDue - 1) \subseteq out.live \cup out.filled
          /\ Conveys(replies, NextDue, current_seq + req_count)
      BY <1>1, <2>1, <3>1 DEF Closing
    <3>3. /\ NextDue \in Nat /\ NextDue' \in Nat
          /\ out'.first = out.first /\ out'.live = out.live
          /\ out'.filled = out.filled \cup (NextDue..(NextDue' - 1))
          /\ \A e \in Nat : NextDue <= e /\ Conveys(replies, NextDue, e)
               => /\ NextDue' <= e
                  /\ pc' # "done" => Conveys(replies', NextDue', e)
          /\ pc' = "resume" => NextDue' = header.seq
          /\ pc' = "await" => current_seq' = current_seq
      BY <1>0, <1>6, <3>2, ReplyStep
    <3>4. current_seq + req_count \in Nat /\ NextDue <= current_seq + req_count
      BY <1>0, <2>1, <3>2, Awaiting
    <3>5. pc' = "await" => Conveys(replies', NextDue', current_seq' + req_count')
      BY <2>1, <3>2, <3>3, <3>4
    <3>6. out.first \in Nat
      BY <1>0 DEF History
    <3>7. out.first..(NextDue' - 1)
            \subseteq (out.live \cup out.filled) \cup (NextDue..(NextDue' - 1))
      BY <3>2, <3>3, <3>6, RangesMeet
    <3>8. out'.first..(NextDue' - 1) \subseteq out'.live \cup out'.filled
      BY <3>3, <3>7
    <3> QED
      BY <1>0, <1>1, <2>1, <2>2, <3>2, <3>3, <3>5, <3>8 DEF Closing
  <2> QED
    BY <2>3, <2>4
<1>7. CASE Resume
  <2>1. /\ pc = "resume" /\ DecodeLive(header, out)
        /\ header' = NoHeader /\ UNCHANGED joined
    BY <1>7 DEF Resume
  <2>2. out.whole => /\ Server = "prompt"
                     /\ out.first..(header.seq - 1) \subseteq out.live \cup out.filled
                     /\ \A n \in out.live \cup out.filled : n < header.seq
    BY <1>1, <2>1 DEF Closing, Replying
  <2>3. CASE out.whole
    BY <1>0, <1>1, <2>1, <2>2, <2>3, ClosingDecode
  <2>4. CASE ~out.whole
    BY <1>0, <1>1, <2>1, <2>4, ClosingNotWhole
  <2> QED
    BY <2>3, <2>4
<1> QED
  BY <1>3, <1>4, <1>5, <1>6, <1>7 DEF GapFill

\* As long as no packet of it was cut short and the server answered every
\* request in full and in time, a stay has printed every number between its
\* first packet and the next one it expects, provided the server has what
\* comes before the packets of the feed.
THEOREM NoneMissed ==
  ASSUME ServerKeepsFeed
  PROVE  Spec => []NothingMissed
<1>1. IInv /\ Replying /\ Closing /\ [Next]_vars => Closing'
  <2> SUFFICES ASSUME IInv, Replying, Closing, [Next]_vars PROVE Closing'
    OBVIOUS
  <2>1. CASE UNCHANGED vars
    BY <2>1 DEF Closing, NextDue, vars, options, tracking, gap, chunk
  <2> QED
    BY <2>1, ClosingReceive, ClosingGapFill DEF Next, Terminated
<1>2. Closing => NothingMissed
  BY DEF Closing, NothingMissed, NextDue
<1> QED
  BY ClosingInit, <1>1, <1>2, Invariance, RepliesInOrder, PTL DEF Spec
=============================================================================
