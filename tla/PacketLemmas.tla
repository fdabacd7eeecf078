---------------------------- MODULE PacketLemmas ----------------------------
(***************************************************************************)
(* Facts about one call of decode_packet_messages, and about what comes    *)
(* back from the server, that the proofs of both receive loops rest on.    *)
(***************************************************************************)
EXTENDS RerequestServer, Induction

\* A call walks at most the blocks that are there, and numbers them from the
\* header's sequence number on.
LEMMA ProcessedFacts ==
  ASSUME NEW d \in Datagram, NEW c \in Nat, NEW m \in Nat
  PROVE  /\ d.seq \in Nat /\ d.count \in Nat /\ d.session \in Sessions
         /\ Processed(d, c, m) \in Nat
         /\ Processed(d, c, m) <= d.count
         /\ Tally(d, c, m) \in Nat
         /\ Numbers(d, c, m) \subseteq Nat
         /\ \A n \in Numbers(d, c, m) : d.seq <= n /\ n < d.seq + d.count
<1>1. /\ d.seq \in Nat /\ d.count \in Nat /\ d.session \in Sessions
      /\ d.fit \in Nat /\ d.fit <= d.count
  BY EndCountAssumption DEF Datagram
<1>2. Room(c, m) \in Nat \ {0}
  BY DEF Room
<1>3. Processed(d, c, m) \in Nat /\ Processed(d, c, m) <= d.fit
  BY <1>1, <1>2 DEF Processed, Least
<1>4. Tally(d, c, m) \in Nat
  BY <1>3 DEF Tally
<1>5. \A n \in Numbers(d, c, m) : n \in Nat /\ d.seq <= n /\ n < d.seq + d.count
  BY <1>1, <1>3 DEF Numbers
<1> QED
  BY <1>1, <1>3, <1>4, <1>5

\* Below the limit, a call either stops exactly at it or stays below it.
LEMMA LimitFacts ==
  ASSUME NEW d \in Datagram, NEW c \in Nat, NEW m \in Nat, c < m
  PROVE  /\ StopsAt(d, c, m) => Tally(d, c, m) = m
         /\ ~StopsAt(d, c, m) => Tally(d, c, m) < m
<1>1. Processed(d, c, m) \in Nat
  BY ProcessedFacts
<1>2. Processed(d, c, m) <= m - c
  BY <1>1, EndCountAssumption
     DEF Processed, Least, Room, Datagram
<1> QED
  BY <1>1, <1>2 DEF StopsAt, Tally

\* What the server sends is datagrams.
LEMMA AnswersAreDatagrams ==
  ASSUME NEW s \in Sessions, NEW a \in Nat, NEW n \in Nat,
         NEW ans \in Answers(s, a, n)
  PROVE  ans \in Seq(Datagram)
<1>1. ReplyPackets(s, a, n) \subseteq Datagram
  <2> SUFFICES ASSUME NEW b \in a..(a + n), NEW c \in 1..PerPacket
               PROVE  Packet(s, b, c) \in Datagram
    BY DEF ReplyPackets
  <2>1. b \in Nat /\ c \in 0..EndCount
    BY ServerAssumption, EndCountAssumption
  <2> QED
    BY <2>1 DEF Packet, Datagram
<1>2. ReplyPackets(s, a, n) \cup Noise \subseteq Datagram
  BY <1>1, ServerAssumption
<1>3. PICK k \in 0..MaxReplies : ans \in [1..k -> ReplyPackets(s, a, n) \cup Noise]
  BY DEF Answers, Scripts
<1>4. k \in Nat /\ ans \in [1..k -> Datagram]
  BY <1>2, <1>3, ServerAssumption
<1> QED
  BY <1>4
-----------------------------------------------------------------------------
(***************************************************************************)
(* Positions in an answer, and what is left of one on the way.             *)
(***************************************************************************)

\* Position is what its recursive definition says.
LEMMA PositionFacts ==
  ASSUME NEW ans \in Seq(Datagram), NEW a \in Nat
  PROVE  /\ Position(ans, a) \in [0..Len(ans) -> Nat]
         /\ Position(ans, a)[0] = a
         /\ \A i \in 1..Len(ans) :
              Position(ans, a)[i] =
                IF Carries(ans[i]) THEN ans[i].seq + ans[i].fit
                                   ELSE Position(ans, a)[i - 1]
<1> DEFINE n == Len(ans)
           step == [s \in (1..n) \X Nat |->
                      IF Carries(ans[s[1]]) THEN ans[s[1]].seq + ans[s[1]].fit
                                            ELSE s[2]]
           Run(f) == f = [i \in 0..n |->
                            IF i = 0 THEN a
                            ELSE IF Carries(ans[i]) THEN ans[i].seq + ans[i].fit
                                                    ELSE f[i - 1]]
<1>0. n \in Nat
  OBVIOUS
<1>1. n \in Nat /\ \A i \in 1..n : ans[i].seq + ans[i].fit \in Nat
  BY EndCountAssumption DEF Datagram
<1>2. step \in [(1..n) \X Nat -> Nat]
  BY <1>1
<1>3. \A i \in 1..n : \A p \in Nat :
        step[<<i, p>>] = IF Carries(ans[i]) THEN ans[i].seq + ans[i].fit ELSE p
  OBVIOUS
<1> HIDE DEF step, n
<1>4. PICK f : IsRun(f, n, Nat, a, step)
  BY <1>0, <1>2, Iteration
<1>5. \A i \in 1..n : f[i - 1] \in Nat
  BY <1>1, <1>4 DEF IsRun
<1>6. Run(f)
  <2>1. ASSUME NEW i \in 0..n
        PROVE  f[i] = IF i = 0 THEN a
                      ELSE IF Carries(ans[i]) THEN ans[i].seq + ans[i].fit
                                              ELSE f[i - 1]
    <3>1. i = 0 \/ i \in 1..n
      BY <1>1
    <3>2. CASE i = 0
      BY <1>4, <3>2 DEF IsRun
    <3>3. CASE i \in 1..n
      <4>1. i # 0
        BY <3>3
      <4> QED
        BY <1>3, <1>4, <1>5, <3>3, <4>1 DEF IsRun
    <3> QED
      BY <3>1, <3>2, <3>3
  <2> QED
    BY <1>4, <2>1 DEF IsRun
<1>7. Position(ans, a) = CHOOSE at : Run(at)
  BY DEF Position, n
<1>8. Run(Position(ans, a))
  BY <1>6, <1>7
<1> DEFINE at == Position(ans, a)
<1>9. /\ at = [i \in 0..n |-> at[i]] /\ at[0] = a
      /\ \A i \in 1..n : at[i] = IF Carries(ans[i]) THEN ans[i].seq + ans[i].fit
                                                    ELSE at[i - 1]
  <2> HIDE DEF at
  <2>1. at = [i \in 0..n |-> IF i = 0 THEN a
                             ELSE IF Carries(ans[i]) THEN ans[i].seq + ans[i].fit
                                                     ELSE at[i - 1]]
    BY <1>8 DEF at
  <2>2. 0 \in 0..n /\ \A i \in 1..n : i \in 0..n /\ i # 0
    BY <1>1
  <2> QED
    BY <2>1, <2>2
<1> HIDE DEF at
<1>10. 0..n \subseteq {i \in 0..n : at[i] \in Nat}
  <2> DEFINE P == {i \in 0..n : at[i] \in Nat}
  <2>1. 0 \in P
    BY <1>1, <1>9
  <2>2. ASSUME NEW i \in 0..(n - 1), i \in P
        PROVE  i + 1 \in P
    <3>1. i + 1 \in 1..n /\ (i + 1) - 1 = i /\ at[i] \in Nat
      BY <1>1, <2>2
    <3> QED
      <4>1. at[i + 1] \in Nat
        BY <1>1, <1>9, <3>1
      <4>2. i + 1 \in 0..n
        BY <1>1
      <4> QED
        BY <4>1, <4>2
  <2> HIDE DEF P
  <2>3. 0..n \subseteq P
    BY <1>1, <2>1, <2>2, BoundedInduction
  <2> QED
    BY <2>3 DEF P
<1>11. at \in [0..n -> Nat]
  BY <1>9, <1>10
<1> QED
  BY <1>9, <1>11 DEF at, n

\* An answer in step conveys the numbers from the one asked for to the one it
\* reaches.
LEMMA InStepConveys ==
  ASSUME NEW ans \in Seq(Datagram), NEW a \in Nat, InStep(ans, a)
  PROVE  /\ Reach(ans, a) \in Nat /\ a <= Reach(ans, a)
         /\ Conveys(ans, a, Reach(ans, a))
<1> DEFINE n == Len(ans)
           at == Position(ans, a)
           P == {j \in 0..n : \A i \in 0..j : at[i] <= at[j]}
<1>1. n \in Nat /\ \A i \in 1..n : ans[i].fit \in Nat
  BY EndCountAssumption DEF Datagram
<1>2. /\ at \in [0..n -> Nat]
      /\ at[0] = a
      /\ \A i \in 1..n :
           IF Carries(ans[i])
           THEN ans[i].seq = at[i - 1] /\ at[i] = at[i - 1] + ans[i].fit
           ELSE at[i] = at[i - 1]
  BY PositionFacts, SMTT(20) DEF InStep
<1> HIDE DEF at, n
<1>3. 0 \in P
  BY <1>1, <1>2
<1>4. ASSUME NEW j \in 0..(n - 1), j \in P
      PROVE  j + 1 \in P
  <2>1. j + 1 \in 1..n /\ (j + 1) - 1 = j /\ at[j] \in Nat /\ at[j + 1] \in Nat
    BY <1>1, <1>2
  <2>2. at[j] <= at[j + 1]
    <3>1. CASE Carries(ans[j + 1])
      <4>1. at[j + 1] = at[j] + ans[j + 1].fit /\ ans[j + 1].fit \in Nat
        BY <1>1, <1>2, <2>1, <3>1
      <4> QED
        BY <2>1, <4>1
    <3>2. CASE ~Carries(ans[j + 1])
      BY <1>2, <2>1, <3>2
    <3> QED
      BY <3>1, <3>2
  <2>3. \A i \in 0..(j + 1) : at[i] <= at[j + 1]
    <3> SUFFICES ASSUME NEW i \in 0..(j + 1) PROVE at[i] <= at[j + 1]
      OBVIOUS
    <3>1. CASE i = j + 1
      BY <2>1, <3>1
    <3>2. CASE i \in 0..j
      <4>1. at[i] \in Nat /\ at[i] <= at[j]
        BY <1>1, <1>2, <1>4, <3>2
      <4> QED
        BY <2>1, <2>2, <4>1
    <3> QED
      BY <3>1, <3>2
  <2> QED
    BY <2>1, <2>3
<1> HIDE DEF P
<1>5. 0..n \subseteq P
  BY <1>1, <1>3, <1>4, BoundedInduction
<1>6. \A i, j \in 0..n : i <= j => at[i] <= at[j]
  BY <1>1, <1>5 DEF P
<1>7. at[n] \in Nat /\ \A i \in 0..n : at[i] \in a..at[n]
  BY <1>1, <1>2, <1>6
<1>8. at \in [0..n -> a..at[n]] /\ a <= at[n]
  BY <1>1, <1>2, <1>7
<1>9. Reach(ans, a) = at[n]
  BY DEF Reach, at, n
<1> QED
  BY <1>2, <1>6, <1>7, <1>8, <1>9 DEF Conveys, n

\* A queue that leads nowhere brings nothing.
LEMMA ConveysNothing ==
  ASSUME NEW q \in Seq(Datagram), NEW p \in Nat, Conveys(q, p, p)
  PROVE  BringsNothing(q)
<1> SUFFICES ASSUME NEW i \in 1..Len(q), Carries(q[i])
             PROVE  FALSE
  BY DEF BringsNothing
<1>1. PICK at \in [0..Len(q) -> p..p] :
        \A j \in 1..Len(q) :
          IF Carries(q[j]) THEN q[j].seq = at[j - 1] /\ at[j] = at[j - 1] + q[j].fit
                           ELSE at[j] = at[j - 1]
  BY DEF Conveys
<1>2. at[i] = p /\ at[i - 1] = p /\ at[i] = at[i - 1] + q[i].fit
  BY <1>1
<1>3. q[i].fit \in Nat /\ q[i].fit > 0
  BY EndCountAssumption DEF Carries, Datagram
<1> QED
  BY <1>2, <1>3

\* When nothing is on its way any more, nothing more comes.
LEMMA ConveysEmpty ==
  ASSUME NEW p, NEW e, Conveys(<<>>, p, e)
  PROVE  p = e
BY DEF Conveys

\* Positions only go up.
LEMMA ConveysUp ==
  ASSUME NEW q \in Seq(Datagram), NEW p \in Nat, NEW e \in Nat, Conveys(q, p, e)
  PROVE  p <= e
<1>1. PICK at \in [0..Len(q) -> p..e] : at[0] = p
  BY DEF Conveys
<1>2. at[0] \in p..e
  BY <1>1
<1> QED
  BY <1>1, <1>2

\* The first datagram of a queue takes it to the position after its messages.
LEMMA ConveysHead ==
  ASSUME NEW q \in Seq(Datagram), q # <<>>, NEW p \in Nat, NEW e \in Nat,
         Conveys(q, p, e)
  PROVE  /\ Carries(Head(q)) => /\ Head(q).seq = p
                                /\ p + Head(q).fit <= e
                                /\ Conveys(Tail(q), p + Head(q).fit, e)
         /\ ~Carries(Head(q)) => Conveys(Tail(q), p, e)
<1>1. PICK at \in [0..Len(q) -> p..e] :
        /\ at[0] = p
        /\ at[Len(q)] = e
        /\ \A i, j \in 0..Len(q) : i <= j => at[i] <= at[j]
        /\ \A i \in 1..Len(q) :
             IF Carries(q[i]) THEN q[i].seq = at[i - 1] /\ at[i] = at[i - 1] + q[i].fit
                              ELSE at[i] = at[i - 1]
  BY DEF Conveys
<1> DEFINE t == Tail(q)
           f == [i \in 0..Len(t) |-> at[i + 1]]
<1>2. /\ Len(q) \in Nat \ {0} /\ Len(t) = Len(q) - 1 /\ t \in Seq(Datagram)
      /\ q[1] = Head(q) /\ \A i \in 1..Len(t) : t[i] = q[i + 1]
  OBVIOUS
<1>3. at[1] \in p..e /\ at[1] \in Nat
  BY <1>1, <1>2
<1>4. Conveys(t, at[1], e)
  <2> HIDE DEF t
  <2>1. \A i \in 0..Len(t) : i + 1 \in 0..Len(q) /\ at[i + 1] \in at[1]..e
    <3> SUFFICES ASSUME NEW i \in 0..Len(t)
                 PROVE  i + 1 \in 0..Len(q) /\ at[i + 1] \in at[1]..e
      OBVIOUS
    <3>1. i + 1 \in 0..Len(q) /\ 1 \in 0..Len(q) /\ 1 <= i + 1
      BY <1>2
    <3>2. at[i + 1] \in p..e /\ at[1] <= at[i + 1]
      BY <1>1, <3>1
    <3> QED
      BY <1>3, <3>1, <3>2
  <2>2. f \in [0..Len(t) -> at[1]..e] /\ \A i \in 0..Len(t) : f[i] = at[i + 1]
    BY <2>1
  <2> HIDE DEF f
  <2>3. f[0] = at[1] /\ f[Len(t)] = e
    BY <1>1, <1>2, <2>2
  <2>4. \A i, j \in 0..Len(t) : i <= j => f[i] <= f[j]
    BY <1>1, <1>2, <2>1, <2>2
  <2>5. ASSUME NEW i \in 1..Len(t)
        PROVE  IF Carries(t[i]) THEN t[i].seq = f[i - 1] /\ f[i] = f[i - 1] + t[i].fit
                                ELSE f[i] = f[i - 1]
    <3>1. /\ i + 1 \in 1..Len(q) /\ (i + 1) - 1 = (i - 1) + 1
          /\ i \in 0..Len(t) /\ i - 1 \in 0..Len(t)
      BY <1>2
    <3>2. f[i] = at[i + 1] /\ f[i - 1] = at[(i + 1) - 1] /\ t[i] = q[i + 1]
      BY <1>2, <2>2, <3>1
    <3> QED
      BY <1>1, <3>1, <3>2
  <2> QED
    BY <2>2, <2>3, <2>4, <2>5 DEF Conveys
<1>5. /\ Carries(q[1]) => q[1].seq = p /\ at[1] = p + q[1].fit
      /\ ~Carries(q[1]) => at[1] = p
  BY <1>1, <1>2
<1> QED
  BY <1>2, <1>3, <1>4, <1>5

\* Datagrams without a message in front of a queue do not change what it brings.
LEMMA ConveysBehind ==
  ASSUME NEW q \in Seq(Datagram), BringsNothing(q),
         NEW r \in Seq(Datagram), NEW p \in Nat, NEW e \in Nat, Conveys(r, p, e)
  PROVE  Conveys(q \o r, p, e)
<1>1. PICK at \in [0..Len(r) -> p..e] :
        /\ at[0] = p
        /\ at[Len(r)] = e
        /\ \A i, j \in 0..Len(r) : i <= j => at[i] <= at[j]
        /\ \A i \in 1..Len(r) :
             IF Carries(r[i]) THEN r[i].seq = at[i - 1] /\ at[i] = at[i - 1] + r[i].fit
                              ELSE at[i] = at[i - 1]
  BY DEF Conveys
<1> DEFINE s == q \o r
           k == Len(q)
           f == [i \in 0..Len(s) |-> IF i <= k THEN p ELSE at[i - k]]
<1>2. /\ k \in Nat /\ Len(r) \in Nat /\ Len(s) = k + Len(r)
      /\ \A i \in 1..k : s[i] = q[i]
      /\ \A i \in (k + 1)..Len(s) : s[i] = r[i - k]
  OBVIOUS
<1>3. \A i \in 0..Len(r) : at[i] \in p..e /\ p <= at[i]
  BY <1>1
<1>0. \A i \in 1..k : ~Carries(q[i])
  BY DEF BringsNothing
<1> HIDE DEF k, s
<1>4. /\ \A i \in 0..Len(s) : i <= k => f[i] = p
      /\ \A i \in 0..Len(s) : i >= k => i - k \in 0..Len(r) /\ f[i] = at[i - k]
  BY <1>1, <1>2
<1>5. f \in [0..Len(s) -> p..e]
  <2> SUFFICES ASSUME NEW i \in 0..Len(s) PROVE f[i] \in p..e
    OBVIOUS
  <2>1. p \in p..e
    BY <1>1, <1>3, <1>2
  <2> QED
    BY <1>2, <1>3, <1>4, <2>1
<1> HIDE DEF f
<1>6. f[0] = p /\ f[Len(s)] = e
  BY <1>1, <1>2, <1>4
<1>7. ASSUME NEW i \in 0..Len(s), NEW j \in 0..Len(s), i <= j
      PROVE  f[i] <= f[j]
  <2>1. CASE j <= k
    <3>1. i <= k
      BY <1>2, <1>7, <2>1
    <3>2. f[i] = p /\ f[j] = p
      BY <1>4, <2>1, <3>1
    <3> QED
      BY <3>2
  <2>2. CASE i <= k /\ k <= j
    BY <1>2, <1>3, <1>4, <1>7, <2>2
  <2>3. CASE k <= i
    <3>1. /\ k <= j /\ i - k \in 0..Len(r) /\ j - k \in 0..Len(r) /\ i - k <= j - k
          /\ f[i] = at[i - k] /\ f[j] = at[j - k]
      BY <1>2, <1>4, <1>7, <2>3
    <3> QED
      BY <1>1, <3>1
  <2> QED
    BY <1>2, <2>1, <2>2, <2>3
<1>8. ASSUME NEW i \in 1..Len(s)
      PROVE  IF Carries(s[i]) THEN s[i].seq = f[i - 1] /\ f[i] = f[i - 1] + s[i].fit
                              ELSE f[i] = f[i - 1]
  <2>1. CASE i <= k
    <3>1. /\ i \in 1..k /\ i \in 0..Len(s) /\ i - 1 \in 0..Len(s)
          /\ i <= k /\ i - 1 <= k
      BY <1>2, <2>1
    <3>2. ~Carries(s[i]) /\ f[i] = p /\ f[i - 1] = p
      BY <1>0, <1>2, <1>4, <3>1
    <3> QED
      BY <3>2
  <2>2. CASE i > k
    <3>1. /\ i \in (k + 1)..Len(s) /\ i \in 0..Len(s) /\ i - 1 \in 0..Len(s)
          /\ i >= k /\ i - 1 >= k
          /\ i - k \in 1..Len(r) /\ (i - 1) - k = (i - k) - 1
      BY <1>2, <2>2
    <3>2. s[i] = r[i - k] /\ f[i] = at[i - k] /\ f[i - 1] = at[(i - k) - 1]
      BY <1>2, <1>4, <3>1
    <3> QED
      BY <1>1, <3>1, <3>2
  <2> QED
    BY <1>2, <2>1, <2>2
<1> QED
  BY <1>5, <1>6, <1>7, <1>8 DEF Conveys, s

\* What holds of each datagram of a queue holds of the rest of it, and of
\* two queues together.
LEMMA QueueFacts ==
  ASSUME NEW q \in Seq(Datagram), NEW r \in Seq(Datagram), NEW s
  PROVE  /\ q # <<>> /\ BringsNothing(q) => BringsNothing(Tail(q))
         /\ q # <<>> /\ FromServer(q, s) =>
              /\ FromServer(Tail(q), s)
              /\ Head(q).kind # "empty"
              /\ Carries(Head(q)) => /\ Head(q).session = s
                                     /\ Head(q).seq + Head(q).fit <= Last + 1
         /\ FromServer(q, s) /\ FromServer(r, s) => FromServer(q \o r, s)
<1>1. ASSUME q # <<>>
      PROVE  /\ Head(q) = q[1] /\ 1 \in 1..Len(q)
             /\ \A i \in 1..Len(Tail(q)) : i + 1 \in 1..Len(q) /\ Tail(q)[i] = q[i + 1]
  BY <1>1
<1>2. \A i \in 1..Len(q \o r) :
        \/ i \in 1..Len(q) /\ (q \o r)[i] = q[i]
        \/ i - Len(q) \in 1..Len(r) /\ (q \o r)[i] = r[i - Len(q)]
  OBVIOUS
<1> QED
  BY <1>1, <1>2 DEF BringsNothing, FromServer

\* What a prompt server sends: messages it has, of the session asked for, in
\* order from the number asked for and none beyond the request.
LEMMA PromptAnswers ==
  ASSUME Server = "prompt",
         NEW s \in Sessions, NEW a \in Nat, NEW n \in Nat,
         NEW ans \in Answers(s, a, n)
  PROVE  /\ FromServer(ans, s)
         /\ Reach(ans, a) \in a..(a + n)
         /\ Conveys(ans, a, Reach(ans, a))
<1>1. ans \in Seq(Datagram) /\ InStep(ans, a)
  BY AnswersAreDatagrams DEF Answers
<1>2. \A i \in 1..Len(ans) : ans[i] \in ReplyPackets(s, a, n) \cup Noise
  BY ServerAssumption DEF Answers, Scripts
<1>3. ASSUME NEW d \in ReplyPackets(s, a, n)
      PROVE  /\ d.kind # "empty" /\ d.session = s
             /\ d.seq + d.fit \in Nat
             /\ d.seq + d.fit <= a + n /\ d.seq + d.fit <= Last + 1
  <2>1. PICK b \in a..(a + n), c \in 1..PerPacket :
          d = Packet(s, b, c) /\ d.seq + d.count <= Least(a + n, Last + 1)
    BY DEF ReplyPackets
  <2>2. b \in Nat /\ c \in Nat /\ d.kind = "mold" /\ d.session = s
        /\ d.seq = b /\ d.fit = c /\ d.count = c
    BY <2>1, ServerAssumption DEF Packet
  <2>3. b + c <= Least(a + n, Last + 1)
    BY <2>1, <2>2
  <2> QED
    BY <2>2, <2>3, ServerAssumption DEF Least
<1>4. FromServer(ans, s)
  BY <1>2, <1>3, ServerAssumption DEF FromServer
<1>5. /\ Reach(ans, a) \in Nat /\ a <= Reach(ans, a)
      /\ Conveys(ans, a, Reach(ans, a))
  BY <1>1, InStepConveys
<1>6. Reach(ans, a) <= a + n
  <2> DEFINE k == Len(ans)
             at == Position(ans, a)
             P == {i \in 0..k : at[i] <= a + n}
  <2>1. k \in Nat
    BY <1>1
  <2>2. /\ at[0] = a
        /\ \A i \in 1..k : at[i] = IF Carries(ans[i]) THEN ans[i].seq + ans[i].fit
                                                      ELSE at[i - 1]
    BY <1>1, PositionFacts
  <2>3. \A i \in 1..k : Carries(ans[i]) => ans[i].seq + ans[i].fit <= a + n
    BY <1>2, <1>3, ServerAssumption
  <2> HIDE DEF k, at
  <2>4. 0 \in P
    BY <2>1, <2>2
  <2>5. ASSUME NEW i \in 0..(k - 1), i \in P
        PROVE  i + 1 \in P
    <3>1. i + 1 \in 1..k /\ i + 1 \in 0..k /\ (i + 1) - 1 = i /\ at[i] <= a + n
      BY <2>1, <2>5
    <3>2. CASE Carries(ans[i + 1])
      BY <2>2, <2>3, <3>1, <3>2
    <3>3. CASE ~Carries(ans[i + 1])
      BY <2>2, <3>1, <3>3
    <3> QED
      BY <3>2, <3>3
  <2> HIDE DEF P
  <2>6. 0..k \subseteq P
    BY <2>1, <2>4, <2>5, BoundedInduction
  <2>7. k \in P
    BY <2>1, <2>6
  <2> QED
    BY <2>7 DEF P, Reach, at, k
<1> QED
  BY <1>4, <1>5, <1>6

\* A datagram without a message leaves a call of decode_packet_messages with
\* nothing to do; otherwise it takes all of it, unless it stops at the limit.
LEMMA TakenFacts ==
  ASSUME NEW d \in Datagram, NEW c \in Nat, NEW m \in Nat
  PROVE  /\ Processed(d, c, m) \in Nat
         /\ ~Carries(d) => /\ Processed(d, c, m) = 0
                           /\ Numbers(d, c, m) = {}
                           /\ ~StopsAt(d, c, m)
         /\ Carries(d) => /\ Processed(d, c, m) <= d.fit
                          /\ d.fit \in Nat
         /\ Carries(d) /\ ~StopsAt(d, c, m) => Processed(d, c, m) = d.fit
<1>1. d.seq \in Nat /\ d.fit \in Nat /\ d.fit <= d.count
  BY EndCountAssumption DEF Datagram
<1>2. Room(c, m) \in Nat \ {0} /\ (c < m => Room(c, m) = m - c)
  BY DEF Room
<1>3. Processed(d, c, m) \in Nat /\ Processed(d, c, m) <= d.fit
  BY <1>1, <1>2 DEF Processed, Least
<1>4. ASSUME ~Carries(d)
      PROVE  Processed(d, c, m) = 0 /\ Numbers(d, c, m) = {} /\ ~StopsAt(d, c, m)
  <2>1. Processed(d, c, m) = 0
    BY <1>1, <1>2, <1>4 DEF Processed, Least, Carries
  <2> QED
    BY <1>1, <2>1 DEF Numbers, StopsAt
<1>5. ASSUME Carries(d), ~StopsAt(d, c, m)
      PROVE  Processed(d, c, m) = d.fit
  <2>1. CASE m = 0
    BY <1>5, <2>1 DEF Processed, Carries
  <2>2. CASE m # 0 /\ d.fit <= Room(c, m)
    BY <1>5, <2>2 DEF Processed, Carries, Least
  <2>3. CASE m # 0 /\ ~(d.fit <= Room(c, m))
    <3>1. Processed(d, c, m) = Room(c, m)
      BY <1>5, <2>3 DEF Processed, Carries, Least
    <3>2. c + Room(c, m) >= m
      BY DEF Room
    <3> QED
      BY <1>2, <1>5, <2>3, <3>1, <3>2 DEF StopsAt, Tally
  <2> QED
    BY <2>1, <2>2, <2>3
<1> QED
  BY <1>1, <1>3, <1>4, <1>5

\* The first datagram of queue, which leads from p to e, read with count
\* messages decoded: it brings the numbers from p on, of session s, and unless
\* it stops the program the rest of the queue continues after them.
TakesNext(queue, s, p, e, count, limit) ==
  LET d == Head(queue)
      taken == Processed(d, count, limit)
  IN
  /\ taken \in Nat
  /\ p + taken <= e
  /\ d.session = s => Numbers(d, count, limit) = p..(p + taken - 1)
  /\ d.session # s => taken = 0
  /\ taken > 0 => p + taken <= Last + 1
  /\ ~StopsAt(d, count, limit) => Conveys(Tail(queue), p + taken, e)

\* Every reply of a prompt server does.
LEMMA NextReply ==
  ASSUME NEW q \in Seq(Datagram), q # <<>>, NEW s,
         NEW p \in Nat, NEW e \in Nat, p <= e,
         Conveys(q, p, e), FromServer(q, s),
         NEW c \in Nat, NEW m \in Nat
  PROVE  TakesNext(q, s, p, e, c, m)
<1> DEFINE d == Head(q)
           x == Processed(d, c, m)
<1>1. d \in Datagram /\ d.seq \in Nat /\ d.fit \in Nat
  BY EndCountAssumption DEF Datagram
<1>0. x = Processed(d, c, m) /\ d = Head(q)
  OBVIOUS
<1> SUFFICES /\ x \in Nat
             /\ p + x <= e
             /\ d.session = s => Numbers(d, c, m) = p..(p + x - 1)
             /\ d.session # s => x = 0
             /\ x > 0 => p + x <= Last + 1
             /\ ~StopsAt(d, c, m) => Conveys(Tail(q), p + x, e)
  BY DEF TakesNext
<1> HIDE DEF d, x
<1>2. CASE ~Carries(d)
  <2>1. x = 0 /\ Numbers(d, c, m) = {} /\ ~StopsAt(d, c, m)
    BY <1>0, <1>1, <1>2, TakenFacts
  <2>2. Conveys(Tail(q), p, e)
    BY <1>0, <1>2, ConveysHead
  <2>3. p + x = p /\ p + x <= e
    BY <2>1
  <2>4. p..(p + x - 1) = {}
    BY <2>1
  <2>5. Conveys(Tail(q), p + x, e)
    BY <2>2, <2>3
  <2>6. Numbers(d, c, m) = p..(p + x - 1)
    BY <2>1, <2>4
  <2>7. x \in Nat /\ ~(x > 0)
    BY <2>1
  <2> QED
    BY <2>1, <2>3, <2>5, <2>6, <2>7, Zenon
<1>3. CASE Carries(d)
  <2>1. /\ x \in Nat /\ x <= d.fit
        /\ ~StopsAt(d, c, m) => x = d.fit
    BY <1>0, <1>1, <1>3, TakenFacts
  <2>2. d.seq = p /\ p + d.fit <= e /\ Conveys(Tail(q), p + d.fit, e)
    BY <1>0, <1>3, ConveysHead
  <2>3. d.session = s /\ p + d.fit <= Last + 1
    BY <1>0, <1>3, <2>2, QueueFacts
  <2>4. Numbers(d, c, m) = p..(p + x - 1)
    BY <1>0, <2>2 DEF Numbers
  <2>5. p + x <= e /\ p + x <= Last + 1
    BY <1>1, <2>1, <2>2, <2>3, ServerAssumption
  <2> QED
    BY <2>1, <2>2, <2>3, <2>4, <2>5
<1> QED
  BY <1>2, <1>3
=============================================================================
