------------------------------ MODULE Listing ------------------------------
(***************************************************************************)
(* The members of a finite set as a sequence, by a number each of them     *)
(* has: how the order of the lines of a file, and of the messages in one,  *)
(* is said without saying how they are gone through.                       *)
(***************************************************************************)
EXTENDS Integers, Sequences, FiniteSets

\* The numbers in S, the smallest first.
InOrder(S) ==
  [k \in 1..Cardinality(S) |->
     CHOOSE i \in S : Cardinality({j \in S : j < i}) = k - 1]

\* Things with a place each, the first one first.
ByPlace(S) ==
  LET order == InOrder({x.at : x \in S})
  IN [k \in DOMAIN order |-> CHOOSE x \in S : x.at = order[k]]

\* The sequence o goes through S from place to place.
Lists(o, S) ==
  /\ o \in Seq(S)
  /\ \A x \in S : \E k \in DOMAIN o : o[k] = x
  /\ \A j, k \in DOMAIN o : j < k => o[j].at < o[k].at
=============================================================================
