------------------------------ MODULE Sockets ------------------------------
(***************************************************************************)
(* The sockets of the receiver: Socket::connect_socket, Rerequester::open, *)
(* and what closes them, one step for each system call that may fail.      *)
(***************************************************************************)
EXTENDS Integers

CONSTANTS
  Descriptors,    \* those the process can get
  Addresses,      \* the texts that inet_addr takes for an address
  Groups,         \* those of them that name a multicast group
  NoConfig        \* before load_config

\* get_session_id's socket, the one of live mode, and either mode's rerequester.
Objects == {"probe", "sock", "rr"}

None == -1

\* What inet_addr returns for a text that is no address, and dst_addr's zeroes.
INADDR_NONE == "255.255.255.255"
Zeroes == "0.0.0.0"

ASSUME SocketsAssumption ==
  /\ Descriptors \subseteq Nat
  /\ Groups \subseteq Addresses
  /\ {INADDR_NONE, Zeroes, "", "none", "any"} \cap Addresses = {}

VARIABLES
  cfg,            \* the configuration, where the calls take their arguments from
  kernel,         \* what is behind each descriptor
  fd,             \* the member fd of each object
  dst_addr,       \* the address that requests go to
  call            \* the call of connect_socket or open, and how far it is

sockets == <<cfg, kernel, fd, dst_addr, call>>

\* member: "none", "any" source of the group, or the one source of the group.
Closed == [open |-> FALSE, bound |-> FALSE, timeout |-> FALSE, member |-> "none"]

Idle == [object |-> "none", at |-> "idle"]

SocketsInit ==
  /\ cfg = NoConfig
  /\ kernel = [d \in Descriptors |-> Closed]
  /\ fd = [o \in Objects |-> None]
  /\ dst_addr = Zeroes
  /\ call = Idle

inet_addr(text) == IF text \in Addresses THEN text ELSE INADDR_NONE

\* Mutant: 0 is not taken for a descriptor.
HeldAboveZero(objects) == {fd[o] : o \in objects} \ {None, 0}

\* What the objects hold; there is something to close only where fd >= 0.
Held(objects) == {fd[o] : o \in objects} \ {None}

Reset(objects) == [o \in Objects |-> IF o \in objects THEN None ELSE fd[o]]

\* close() of each of the objects.
close(objects) ==
  /\ kernel' = [d \in Descriptors |->
                  IF d \in Held(objects) THEN Closed ELSE kernel[d]]
  /\ fd' = Reset(objects)

RerequesterGiven ==
  cfg.mcast_rerequester_ip # "" /\ cfg.mcast_rerequester_port # 0

\* connect_socket or open is called: what the object had open is closed.
Enter(object) ==
  /\ call' = [object |-> object,
              at |-> IF object = "rr" /\ ~RerequesterGiven THEN "failed" ELSE "socket"]
  /\ close({object})
  /\ UNCHANGED <<cfg, dst_addr>>

At(step) == call.at = step
Proceed(step) == call' = [call EXCEPT !.at = step]

SocketFails ==
  /\ At("socket")
  /\ Proceed("failed")
  /\ UNCHANGED <<cfg, kernel, fd, dst_addr>>

\* With the options set: the timeout is the rerequester's; a reuse of the
\* address and the sizes of buffers may fail and nobody asks.
Fresh(object) ==
  [open |-> TRUE, bound |-> FALSE, timeout |-> object = "rr", member |-> "none"]

\* The lowest descriptor that is free.
SocketMade ==
  /\ At("socket")
  /\ \E d \in Descriptors :
       /\ ~kernel[d].open
       /\ \A e \in Descriptors : e < d => kernel[e].open
       /\ kernel' = [kernel EXCEPT ![d] = Fresh(call.object)]
       /\ fd' = [fd EXCEPT ![call.object] = d]
  /\ Proceed("bind")
  /\ UNCHANGED <<cfg, dst_addr>>

\* What both calls do before they return false.
Fail == close({call.object})

BindFails ==
  /\ At("bind")
  /\ Fail
  /\ Proceed("failed")
  /\ UNCHANGED <<cfg, dst_addr>>

Bound ==
  /\ At("bind")
  /\ kernel' = [kernel EXCEPT ![fd[call.object]].bound = TRUE]
  /\ Proceed(IF call.object = "rr" THEN "address" ELSE "join")
  /\ UNCHANGED <<cfg, fd, dst_addr>>

\* IP_ADD_MEMBERSHIP or IP_ADD_SOURCE_MEMBERSHIP fails, for one because the
\* group is none.
JoinFails ==
  /\ At("join")
  /\ Fail
  /\ Proceed("failed")
  /\ UNCHANGED <<cfg, dst_addr>>

\* Nothing looks at what inet_addr makes of the source.
Membership ==
  IF cfg.mcast_source_ip = "" THEN "any" ELSE inet_addr(cfg.mcast_source_ip)

Joined ==
  /\ At("join")
  /\ inet_addr(cfg.mcast_ip) \in Groups
  /\ kernel' = [kernel EXCEPT ![fd[call.object]].member = Membership]
  /\ Proceed("succeeded")
  /\ UNCHANGED <<cfg, fd, dst_addr>>

AddressFails ==
  /\ At("address")
  /\ inet_addr(cfg.mcast_rerequester_ip) = INADDR_NONE
  /\ Fail
  /\ dst_addr' = Zeroes
  /\ Proceed("failed")
  /\ UNCHANGED cfg

AddressSet ==
  /\ At("address")
  /\ inet_addr(cfg.mcast_rerequester_ip) # INADDR_NONE
  /\ dst_addr' = inet_addr(cfg.mcast_rerequester_ip)
  /\ Proceed("succeeded")
  /\ UNCHANGED <<cfg, kernel, fd>>

Calls ==
  \/ SocketFails \/ SocketMade
  \/ BindFails \/ Bound
  \/ JoinFails \/ Joined
  \/ AddressFails \/ AddressSet
=============================================================================
