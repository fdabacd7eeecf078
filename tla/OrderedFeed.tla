----------------------------- MODULE OrderedFeed -----------------------------
(***************************************************************************)
(* What a reader of the output may rely on: within one stay in a session   *)
(* the message numbers only go up, so that no message is printed twice.    *)
(* Numbers may be passed over; a new session starts from anywhere.         *)
(***************************************************************************)
EXTENDS Naturals

CONSTANTS Sessions, NoSession

VARIABLES
  session,      \* the session of this stay, NoSession before the first one
  next,         \* every number printed in this stay is below it
  printed,      \* the numbers printed in this stay
  repeated      \* numbers printed although the stay had printed them before

vars == <<session, next, printed, repeated>>

Init ==
  /\ session = NoSession
  /\ next = 0
  /\ printed = {}
  /\ repeated = {}

\* The stay in s begins and may print at once.
Enter(s) ==
  /\ s # session
  /\ session' = s
  /\ next' \in Nat
  /\ \A n \in printed' : n < next'
  /\ UNCHANGED repeated

\* Print none, some or all of the numbers passed over, each of them once.
Advance ==
  /\ session # NoSession
  /\ next' \in Nat
  /\ next <= next'
  /\ printed \subseteq printed'
  /\ \A n \in printed' \ printed : next <= n /\ n < next'
  /\ UNCHANGED <<session, repeated>>

Next == Advance \/ \E s \in Sessions : Enter(s)

Spec == Init /\ [][Next]_vars
=============================================================================
