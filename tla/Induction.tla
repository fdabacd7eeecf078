----------------------------- MODULE Induction -----------------------------
(***************************************************************************)
(* Induction over the natural numbers with a set in place of a predicate,  *)
(* which every backend can instantiate: to show a property of all numbers, *)
(* show that the set of those that have it contains 0 and is closed under  *)
(* taking the next.  It rests on the order of Nat being well-founded.      *)
(* With it: what a definition by recursion gives, and listings in order.   *)
(***************************************************************************)
EXTENDS Listing, NaturalsInduction, WellFoundedInduction, FiniteSetTheorems, TLAPS

\* A set of naturals that is not empty has a smallest element.
LEMMA SmallestElement ==
  ASSUME NEW T \in SUBSET Nat, T # {}
  PROVE  \E x \in T : \A y \in T : x <= y
<1> DEFINE R == {ss \in Nat \X Nat : ss[1] < ss[2]}
<1>1. IsWellFoundedOn(R, Nat)
  BY NatLessThanWellFounded DEF OpToRel
<1> HIDE DEF R
<1>2. PICK x \in T : \A y \in T : ~(<<y, x>> \in R)
  BY <1>1, WFMin
<1>3. ASSUME NEW y \in T PROVE x <= y
  <2>1. x \in Nat /\ y \in Nat /\ <<y, x>> \in Nat \X Nat
    OBVIOUS
  <2>2. ~(<<y, x>> \in R)
    BY <1>2
  <2>3. ~(y < x)
    BY <2>1, <2>2 DEF R
  <2> QED
    BY <2>1, <2>3
<1> QED
  BY <1>3

\* A set of numbers with a bound has a greatest one.
LEMMA Greatest ==
  ASSUME NEW T \in SUBSET Nat, NEW bound \in Nat, \A t \in T : t <= bound, T # {}
  PROVE  \E m \in T : \A t \in T : t <= m
<1> DEFINE Below == {bound - t : t \in T}
           Less == {ss \in Nat \X Nat : ss[1] < ss[2]}
<1>1. Below \subseteq Nat /\ Below # {}
  <2>1. \A t \in T : bound - t \in Nat
    OBVIOUS
  <2>2. PICK t \in T : TRUE
    OBVIOUS
  <2>3. bound - t \in Below
    OBVIOUS
  <2> QED  BY <2>1, <2>3
<1>2. IsWellFoundedOn(Less, Nat)
  BY NatLessThanWellFounded DEF OpToRel
<1>3. \E x \in Below : \A y \in Below : <<y, x>> \notin Less
  <2> HIDE DEF Below, Less
  <2> QED  BY <1>1, <1>2, WFMin
<1>4. PICK x \in Below : \A y \in Below : <<y, x>> \notin Less
  BY <1>3
<1>5. PICK m \in T : x = bound - m
  OBVIOUS
<1>6. ASSUME NEW t \in T
      PROVE  t <= m
  <2>1. <<bound - t, x>> \notin Less
    BY <1>4, <1>6
  <2>2. bound - t \in Nat /\ x \in Nat
    BY <1>1
  <2>3. ~(bound - t < x)
    BY <2>1, <2>2
  <2> QED  BY <2>3, <1>5
<1> QED  BY <1>6

\* Induction up to a bound.
LEMMA BoundedInduction ==
  ASSUME NEW n \in Nat, NEW P,
         0 \in P,
         \A i \in 0..(n - 1) : i \in P => i + 1 \in P
  PROVE  0..n \subseteq P
<1> DEFINE T == {i \in 0..n : i \notin P}
<1>1. SUFFICES ASSUME T # {} PROVE FALSE
  OBVIOUS
<1>2. T \in SUBSET Nat
  OBVIOUS
<1>3. PICK x \in T : \A y \in T : x <= y
  BY <1>1, <1>2, SmallestElement
<1>4. x \in 1..n /\ x \notin P
  OBVIOUS
<1>5. x - 1 \in 0..(n - 1) /\ x - 1 \in 0..n /\ ~(x <= x - 1)
  BY <1>4
<1>6. x - 1 \in P
  BY <1>3, <1>5
<1>7. (x - 1) + 1 \in P
  BY <1>5, <1>6
<1> QED
  BY <1>4, <1>7

\* f is a run of n steps from a through S: step says which state follows
\* which in the i-th step.
IsRun(f, n, S, a, step) ==
  /\ f \in [0..n -> S]
  /\ f[0] = a
  /\ \A i \in 1..n : f[i] = step[<<i, f[i - 1]>>]

\* A step that can be taken from every state can be taken again and again.
LEMMA Iteration ==
  ASSUME NEW n \in Nat, NEW S, NEW a \in S,
         NEW step \in [(1..n) \X S -> S]
  PROVE  \E f : IsRun(f, n, S, a, step)
<1> DEFINE Run(m, f) == IsRun(f, m, S, a, step)
           P == {m \in 0..n : \E f : Run(m, f)}
<1> USE DEF IsRun
<1>1. 0 \in P
  <2> DEFINE f == [i \in 0..0 |-> a]
  <2>1. Run(0, f)
    OBVIOUS
  <2> HIDE DEF f
  <2> QED
    BY <2>1
<1>2. ASSUME NEW m \in 0..(n - 1), m \in P
      PROVE  m + 1 \in P
  <2>1. PICK f : Run(m, f)
    BY <1>2
  <2> DEFINE s == step[<<m + 1, f[m]>>]
             g == [i \in 0..(m + 1) |-> IF i = m + 1 THEN s ELSE f[i]]
  <2>2. f[m] \in S /\ m + 1 \in 1..n
    BY <2>1
  <2>3. s \in S
    BY <2>2
  <2> HIDE DEF s
  <2>4. g \in [0..(m + 1) -> S]
    BY <2>1, <2>3
  <2>5. g[0] = a /\ g[m + 1] = s /\ \A i \in 0..m : g[i] = f[i]
    BY <2>1
  <2> HIDE DEF g
  <2>6. ASSUME NEW i \in 1..(m + 1)
        PROVE  g[i] = step[<<i, g[i - 1]>>]
    <3>1. CASE i = m + 1
      BY <2>5, <3>1 DEF s
    <3>2. CASE i \in 1..m
      BY <2>1, <2>5, <3>2
    <3> QED
      BY <3>1, <3>2
  <2> QED
    BY <2>2, <2>4, <2>5, <2>6
<1> HIDE DEF P
<1>3. 0..n \subseteq P
  BY <1>1, <1>2, BoundedInduction
<1> QED
  BY <1>3 DEF P
-----------------------------------------------------------------------------
(***************************************************************************)
(* Listings.                                                               *)
(***************************************************************************)

\* An increasing sequence lists what is in it with the smallest first.
LEMMA ListedInOrder ==
  ASSUME NEW n \in Nat, NEW o \in [1..n -> Nat],
         \A a, b \in 1..n : a < b => o[a] < o[b]
  PROVE  InOrder({o[k] : k \in 1..n}) = o
<1> DEFINE S == {o[k] : k \in 1..n}
           Rank(i) == Cardinality({j \in S : j < i})
<1>1. ASSUME NEW m \in 0..n
      PROVE  Cardinality({o[k] : k \in 1..m}) = m
  <2> DEFINE T == {o[k] : k \in 1..m}
             f == [k \in 1..m |-> o[k]]
  <2>1. f \in Bijection(1..m, T)
    <3>1. f \in [1..m -> T] /\ \A y \in T : \E k \in 1..m : f[k] = y
      OBVIOUS
    <3>2. \A a, b \in 1..m : f[a] = f[b] => a = b
      <4>1. \A a, b \in 1..m : a # b => a < b \/ b < a
        OBVIOUS
      <4>2. \A a \in 1..m : a \in 1..n /\ o[a] \in Nat
        OBVIOUS
      <4> QED  BY <4>1, <4>2
    <3> HIDE DEF f, T
    <3> QED  BY <3>1, <3>2 DEF Bijection, Injection, Surjection, IsInjective
  <2>2. IsFiniteSet(1..m) /\ Cardinality(1..m) = m
    BY FS_Interval
  <2>3. ExistsBijection(1..m, T)
    BY <2>1 DEF ExistsBijection
  <2> HIDE DEF T
  <2> QED  BY <2>2, <2>3, FS_Bijection DEF T
<1>2. ASSUME NEW k \in 1..n
      PROVE  Rank(o[k]) = k - 1
  <2>1. {j \in S : j < o[k]} = {o[m] : m \in 1..(k - 1)}
    <3>1. \A m \in 1..n : o[m] < o[k] <=> m \in 1..(k - 1)
      <4>1. ASSUME NEW m \in 1..n PROVE o[m] < o[k] <=> m < k
        <5>1. m < k \/ m = k \/ k < m
          OBVIOUS
        <5>2. o[m] \in Nat /\ o[k] \in Nat
          OBVIOUS
        <5>3. /\ m < k => o[m] < o[k]
              /\ k < m => o[k] < o[m]
          OBVIOUS
        <5> QED  BY <5>1, <5>2, <5>3
      <4> QED  BY <4>1
    <3>2. 1..(k - 1) \subseteq 1..n
      OBVIOUS
    <3> QED  BY <3>1, <3>2
  <2>2. k - 1 \in 0..n
    OBVIOUS
  <2> HIDE DEF S
  <2> QED  BY <1>1, <2>1, <2>2
<1>3. Cardinality(S) = n
  BY <1>1
<1>4. ASSUME NEW k \in 1..n
      PROVE  (CHOOSE i \in S : Rank(i) = k - 1) = o[k]
  <2>1. o[k] \in S /\ Rank(o[k]) = k - 1
    BY <1>2
  <2>2. ASSUME NEW i \in S, Rank(i) = k - 1
        PROVE  i = o[k]
    <3>1. PICK m \in 1..n : i = o[m]
      OBVIOUS
    <3>2. Rank(i) = m - 1
      <4> HIDE DEF Rank
      <4> QED  BY <1>2, <3>1
    <3> HIDE DEF Rank
    <3> QED  BY <2>2, <3>1, <3>2
  <2> HIDE DEF Rank, S
  <2> QED  BY <2>1, <2>2
<1>5. InOrder(S) = [k \in 1..Cardinality(S) |-> CHOOSE i \in S : Rank(i) = k - 1]
  BY DEF InOrder
<1> HIDE DEF Rank, S
<1>6. InOrder(S) = [k \in 1..n |-> o[k]]
  BY <1>3, <1>4, <1>5
<1> QED  BY <1>6 DEF S

\* The same of things with a place.
LEMMA ListedByPlace ==
  ASSUME NEW S, NEW o \in Seq(S), Lists(o, S), \A x \in S : x.at \in Nat
  PROVE  ByPlace(S) = o
<1> DEFINE n == Len(o)
           places == [k \in 1..n |-> o[k].at]
<1>1. /\ n \in Nat /\ o = [k \in 1..n |-> o[k]] /\ \A k \in 1..n : o[k] \in S
      /\ \A x \in S : \E k \in 1..n : o[k] = x
      /\ \A j, k \in 1..n : j < k => o[j].at < o[k].at
  BY DEF Lists
<1>2. places \in [1..n -> Nat]
  BY <1>1
<1>3. \A j, k \in 1..n : j < k => places[j] < places[k]
  BY <1>1
<1>4. {x.at : x \in S} = {places[k] : k \in 1..n}
  BY <1>1
<1>5. \A j, k \in 1..n : places[j] = places[k] => j = k
  <2>1. \A j, k \in 1..n : j # k => j < k \/ k < j
    BY <1>1
  <2>2. \A j, k \in 1..n : j < k => places[j] # places[k]
    BY <1>2, <1>3
  <2> QED  BY <2>1, <2>2
<1>6. \A k \in 1..n : places[k] = o[k].at
  OBVIOUS
<1> HIDE DEF n, places
<1>7. InOrder({x.at : x \in S}) = places
  BY <1>1, <1>2, <1>3, <1>4, ListedInOrder
<1>8. ASSUME NEW k \in 1..n
      PROVE  (CHOOSE x \in S : x.at = places[k]) = o[k]
  <2>1. o[k] \in S /\ o[k].at = places[k]
    BY <1>1, <1>6
  <2>2. \A x \in S : x.at = places[k] => x = o[k]
    BY <1>1, <1>5, <1>6
  <2> QED  BY <2>1, <2>2
<1>9. DOMAIN places = 1..n
  BY <1>2
<1>10. ByPlace(S) = [k \in 1..n |-> o[k]]
  BY <1>7, <1>8, <1>9 DEF ByPlace
<1> QED  BY <1>1, <1>10

\* A thing behind all others comes last.
LEMMA OneMoreListed ==
  ASSUME NEW S, Lists(ByPlace(S), S), NEW x,
         x.at \in Nat, \A y \in S : y.at \in Nat /\ y.at < x.at
  PROVE  /\ ByPlace(S \cup {x}) = Append(ByPlace(S), x)
         /\ Lists(ByPlace(S \cup {x}), S \cup {x})
<1> DEFINE o == ByPlace(S)
           T == S \cup {x}
           more == Append(o, x)
           n == Len(o)
<1>1. /\ o \in Seq(S) /\ n \in Nat /\ \A k \in 1..n : o[k] \in S
      /\ \A y \in S : \E k \in 1..n : o[k] = y
      /\ \A j, k \in 1..n : j < k => o[j].at < o[k].at
  BY DEF Lists
<1> HIDE DEF o
<1>2. /\ more \in Seq(T) /\ Len(more) = n + 1 /\ more[n + 1] = x
      /\ \A k \in 1..n : more[k] = o[k]
  <2>1. o \in Seq(T)
    BY <1>1
  <2> QED  BY <1>1, <2>1
<1>3. DOMAIN more = 1..(n + 1) /\ 1..(n + 1) = 1..n \cup {n + 1}
  BY <1>1, <1>2
<1> HIDE DEF more, n
<1>4. \A y \in T : \E k \in DOMAIN more : more[k] = y
  BY <1>1, <1>2, <1>3
<1>5. \A j, k \in DOMAIN more : j < k => more[j].at < more[k].at
  <2>1. \A j, k \in 1..n : j < k => more[j].at < more[k].at
    BY <1>1, <1>2
  <2>2. \A j \in 1..n : more[j].at < more[n + 1].at
    BY <1>1, <1>2
  <2>3. \A j, k \in 1..(n + 1) : j < k => j \in 1..n
    BY <1>1
  <2> QED  BY <1>3, <2>1, <2>2, <2>3
<1>6. Lists(more, T)
  BY <1>2, <1>4, <1>5 DEF Lists
<1>7. \A y \in T : y.at \in Nat
  OBVIOUS
<1> HIDE DEF T
<1>8. ByPlace(T) = more
  BY <1>2, <1>6, <1>7, ListedByPlace
<1> QED  BY <1>6, <1>8 DEF T, more, o
=============================================================================
