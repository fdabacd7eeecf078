------------------------------ MODULE Startup ------------------------------
(***************************************************************************)
(* The receiver from its command line to one of its loops, and from there  *)
(* to its exit: main, Application::run around the loops, get_session_id.   *)
(* What the loops do is in LiveFeed, Download and RawFile, what            *)
(* load_config does in YamlConfig.                                         *)
(***************************************************************************)
EXTENDS CommandLine, Sockets

CONSTANT Configs    \* what load_config may store

ASSUME StartupAssumption ==
  /\ Configs \subseteq [mcast_ip: STRING, mcast_source_ip: STRING,
                        mcast_rerequester_ip: STRING, mcast_rerequester_port: Nat]
  /\ NoConfig \notin Configs

VARIABLES
  pc,       \* the part of the program that runs; "exited" and "terminated" at its end
  scope,    \* the objects that are constructed and not yet destroyed
  rr_open,  \* the flag of live mode
  exit      \* the exit status, -1 while there is none

vars == <<commandLine, sockets, pc, scope, rr_open, exit>>

Init ==
  /\ CommandLineInit
  /\ SocketsInit
  /\ pc = "parse"
  /\ scope = {}
  /\ rr_open = FALSE
  /\ exit = -1

\* return with this status, once these have been closed; then the objects in
\* scope are destroyed.
Return(status, objects) ==
  /\ pc' = "leave"
  /\ exit' = status
  /\ close(objects)
  /\ UNCHANGED <<commandLine, cfg, dst_addr, call, scope, rr_open>>

\* The destructors.
Leave ==
  /\ pc = "leave"
  /\ close(scope)
  /\ scope' = {}
  /\ pc' = "exited"
  /\ UNCHANGED <<commandLine, cfg, dst_addr, call, rr_open, exit>>
-----------------------------------------------------------------------------
(***************************************************************************)
(* main and the choice of the mode.                                        *)
(***************************************************************************)

ParseOption ==
  /\ pc = "parse"
  /\ ReadOption
  /\ UNCHANGED <<sockets, pc, scope, rr_open, exit>>

Help ==
  /\ pc = "parse" /\ next < Len(args) /\ Current.opt = "h"
  /\ Return(0, {})

Malformed ==
  /\ pc = "parse" /\ next < Len(args) /\ Current.opt = "malformed"
  /\ Return(1, {})

EndOfOptions ==
  /\ pc = "parse" /\ next = Len(args)
  /\ pc' = "load"
  /\ UNCHANGED <<commandLine, sockets, scope, rr_open, exit>>

LoadFails ==
  /\ pc = "load"
  /\ Return(1, {})

\* The exception of load_spec: nothing has been opened.
LoadThrows ==
  /\ pc = "load"
  /\ pc' = "terminated"
  /\ UNCHANGED <<commandLine, sockets, scope, rr_open, exit>>

LoadConfig ==
  /\ pc = "load"
  /\ cfg' \in Configs
  /\ pc' = "dispatch"
  /\ UNCHANGED <<commandLine, kernel, fd, dst_addr, call, scope, rr_open, exit>>

\* decode_file, RawFile's Init, opens and closes the file itself.
StartDecode ==
  /\ pc = "dispatch" /\ options.decode_file_path # ""
  /\ pc' = "decode"
  /\ UNCHANGED <<commandLine, sockets, scope, rr_open, exit>>

DecodeEnds ==
  /\ pc = "decode"
  /\ \E status \in {0, 1} : Return(status, {})

Downloads == options.decode_file_path = "" /\ options.has_start_seq
Listens == options.decode_file_path = "" /\ ~options.has_start_seq

NothingToAsk ==
  /\ pc = "dispatch" /\ Downloads /\ ~RerequesterGiven
  /\ Return(1, {})

\* get_session_id connects a socket of its own, live mode the one it keeps.
Connect(object) ==
  /\ pc' = "connect"
  /\ scope' = {object}
  /\ Enter(object)
  /\ UNCHANGED <<commandLine, rr_open, exit>>

StartProbe == pc = "dispatch" /\ Downloads /\ RerequesterGiven /\ Connect("probe")

StartLive == pc = "dispatch" /\ Listens /\ Connect("sock")
-----------------------------------------------------------------------------
(***************************************************************************)
(* The sockets of a mode.                                                  *)
(***************************************************************************)

\* A step inside connect_socket or open.
CallStep ==
  /\ pc \in {"connect", "open"}
  /\ Calls
  /\ UNCHANGED <<commandLine, pc, scope, rr_open, exit>>

\* Mutant: a failure is reported and not returned.
ConnectFailsContent == pc = "connect" /\ At("failed") /\ Return(0, {})

ConnectFails == pc = "connect" /\ At("failed") /\ Return(1, {})

Probing ==
  /\ pc = "connect" /\ At("succeeded") /\ call.object = "probe"
  /\ pc' = "probe"
  /\ UNCHANGED <<commandLine, sockets, scope, rr_open, exit>>

\* A header has come, as in Download's ProbeSession: the probe's socket is
\* closed and its object gone before the rerequester's is opened.
ProbeSession ==
  /\ pc = "probe"
  /\ close({"probe"})
  /\ scope' = {}
  /\ pc' = "rerequester"
  /\ UNCHANGED <<commandLine, cfg, dst_addr, call, rr_open, exit>>

OpenProbed ==
  /\ pc = "rerequester" /\ Downloads
  /\ scope' = {"rr"}
  /\ Enter("rr")
  /\ pc' = "open"
  /\ UNCHANGED <<commandLine, rr_open, exit>>

Connected ==
  /\ pc = "connect" /\ At("succeeded") /\ call.object = "sock"
  /\ scope' = {"sock", "rr"}
  /\ pc' = "rerequester"
  /\ UNCHANGED <<commandLine, sockets, rr_open, exit>>

\* Without -g the rerequester is never opened.
ReceiveOnly ==
  /\ pc = "rerequester" /\ Listens /\ ~options.enable_recovery
  /\ pc' = "receive"
  /\ UNCHANGED <<commandLine, sockets, scope, rr_open, exit>>

NoRecovery ==
  /\ pc = "rerequester" /\ Listens /\ options.enable_recovery
  /\ ~RerequesterGiven
  /\ Return(1, {"sock"})

OpenLive ==
  /\ pc = "rerequester" /\ Listens /\ options.enable_recovery
  /\ RerequesterGiven
  /\ Enter("rr")
  /\ pc' = "open"
  /\ UNCHANGED <<commandLine, scope, rr_open, exit>>

\* Mutant: live mode does without the rerequester.
OpenFailsContent ==
  /\ pc = "open" /\ At("failed")
  /\ IF Listens
     THEN /\ pc' = "receive"
          /\ UNCHANGED <<commandLine, sockets, scope, rr_open, exit>>
     ELSE Return(1, {})

\* Live mode closes its own socket first.
OpenFails ==
  /\ pc = "open" /\ At("failed")
  /\ Return(1, IF Listens THEN {"sock"} ELSE {})

Opened ==
  /\ pc = "open" /\ At("succeeded")
  /\ rr_open' = Listens
  /\ pc' = IF Listens THEN "receive" ELSE "transfer"
  /\ UNCHANGED <<commandLine, sockets, scope, exit>>
-----------------------------------------------------------------------------
(***************************************************************************)
(* The ends of the loops.                                                  *)
(***************************************************************************)

\* The limit is reached by a packet of the multicast; rr is left to its destructor ...
LiveStops ==
  /\ pc = "receive" /\ options.max_messages # 0
  /\ Return(0, {"sock"})

\* ... or by a reply, while a gap is filled.
GapFillStops ==
  /\ pc = "receive" /\ rr_open /\ options.max_messages # 0
  /\ Return(0, {"rr", "sock"})

TransferEnds ==
  /\ pc = "transfer"
  /\ \E status \in {0, 1} : Return(status, {"rr"})

\* A turn of the live loop, which opens and closes nothing.
Receiving == pc = "receive" /\ UNCHANGED vars

Terminated == pc \in {"exited", "terminated"} /\ UNCHANGED vars

Next ==
  \/ ParseOption \/ Help \/ Malformed \/ EndOfOptions
  \/ LoadFails \/ LoadThrows \/ LoadConfig
  \/ StartDecode \/ DecodeEnds
  \/ NothingToAsk \/ StartProbe \/ StartLive
  \/ CallStep \/ ConnectFails \/ Probing \/ ProbeSession \/ OpenProbed
  \/ Connected \/ ReceiveOnly \/ NoRecovery \/ OpenLive \/ OpenFails \/ Opened
  \/ Receiving \/ LiveStops \/ GapFillStops \/ TransferEnds
  \/ Leave \/ Terminated

Spec == Init /\ [][Next]_vars
-----------------------------------------------------------------------------
(***************************************************************************)
(* Properties.                                                             *)
(***************************************************************************)

Behind == [open: BOOLEAN, bound: BOOLEAN, timeout: BOOLEAN,
           member: Addresses \cup {"none", "any", INADDR_NONE}]

\* The variables hold values of their C++ types.
TypeOK ==
  /\ args \in CommandLines
  /\ next \in 0..Len(args)
  /\ options \in Options
  /\ cfg \in Configs \cup {NoConfig}
  /\ kernel \in [Descriptors -> Behind]
  /\ fd \in [Objects -> Descriptors \cup {None}]
  /\ dst_addr \in Addresses \cup {Zeroes}
  /\ call \in [object: Objects \cup {"none"},
               at: {"idle", "socket", "bind", "join", "address", "failed", "succeeded"}]
  /\ pc \in {"parse", "load", "dispatch", "decode", "connect", "probe", "rerequester",
             "open", "receive", "transfer", "leave", "exited", "terminated"}
  /\ scope \subseteq Objects
  /\ rr_open \in BOOLEAN
  /\ exit \in {-1, 0, 1}

\* On every path in and out of the modes, with every system call failing where
\* it can: an object never names a descriptor that is closed or another's, so
\* that close() cannot hit a stranger's; what is open is held by an object that
\* still exists, so that at the end nothing is open (socket.cpp 10-19, 43-76,
\* recovery.cpp 23-83, application.cpp 124, 529-543, 603-624).
Owned ==
  /\ \A o \in Objects :
       fd[o] # None => o \in scope /\ kernel[fd[o]].open
  /\ \A o, p \in Objects : fd[o] = fd[p] /\ fd[o] # None => o = p
  /\ \A d \in Descriptors : kernel[d].open => \E o \in Objects : fd[o] = d

\* Whoever waits for the multicast has joined the group, for the source
\* configured if there is one, and waits without a timeout; and there is a
\* rerequester, bound, addressed, and with a timeout, exactly where it is
\* used: in a download, which has let go of the multicast, and with -g, where
\* rr_open says so.  The loops of Download and LiveFeed end because of it.
Receiver(object) ==
  /\ fd[object] # None
  /\ LET socket == kernel[fd[object]] IN
       /\ socket.bound /\ ~socket.timeout
       /\ socket.member = IF cfg.mcast_source_ip = "" THEN "any"
                          ELSE inet_addr(cfg.mcast_source_ip)

Requester ==
  /\ fd["rr"] # None
  /\ LET socket == kernel[fd["rr"]] IN
       socket.bound /\ socket.timeout /\ socket.member = "none"
  /\ dst_addr = cfg.mcast_rerequester_ip

ReadyToReceive ==
  /\ pc = "probe" => Receiver("probe") /\ fd["rr"] = None
  /\ pc = "receive" =>
       /\ Receiver("sock")
       /\ rr_open <=> options.enable_recovery
       /\ IF options.enable_recovery THEN Requester ELSE fd["rr"] = None
  /\ pc = "transfer" =>
       /\ Requester
       /\ \A d \in Descriptors : kernel[d].open => kernel[d].member = "none"

Given(name) == {n \in 1..next : args[n].opt = name}

\* Of the options with this name the last one counts.
LastGiven(name) ==
  args[CHOOSE n \in Given(name) : \A m \in Given(name) : m <= n]

\* What runs is what the command line asks for, in whatever order it does: a
\* file before a download before live mode, the numbers as they are written,
\* if they are numbers of 64 bits, the last one of several, and all the types
\* (main.cpp 46-117, application.cpp 378-384).
AsAsked ==
  /\ pc = "decode" => \E n \in Given("d") : args[n].arg # ""
  /\ pc \in {"probe", "transfer"} => Given("s") # {}
  /\ pc = "receive" =>
       /\ Given("s") = {}
       /\ options.enable_recovery <=> Given("g") # {}
  /\ pc \in {"probe", "transfer", "receive"} =>
       \A n \in Given("d") : args[n].arg = ""
  /\ Given("s") # {} /\ LastGiven("s").number \in 0..(Word - 1) =>
       options.start_seq = LastGiven("s").number
  /\ IF Given("n") = {} THEN options.max_messages = 0
     ELSE LastGiven("n").number \in 0..(Word - 1) =>
            options.max_messages = LastGiven("n").number
  /\ options.type_allowed = {args[n].arg : n \in Given("type")}

\* A failure to load, join or open is never reported as success: with status 0
\* the program has shown its help, decoded a file, or worked with a group that
\* can be joined and, where it needs one, a rerequester that can be asked; and
\* live mode ends well at its limit only (application.cpp 371-411, 505-543, 603-629).
Workable ==
  /\ cfg # NoConfig
  /\ inet_addr(cfg.mcast_ip) \in Groups
  /\ options.has_start_seq \/ options.enable_recovery =>
       RerequesterGiven /\ cfg.mcast_rerequester_ip \in Addresses
  /\ options.has_start_seq \/ options.max_messages # 0

SuccessEarned ==
  exit = 0 =>
    \/ next < Len(args) /\ Current.opt = "h"
    \/ options.decode_file_path # ""
    \/ Workable

(***************************************************************************)
(* The inductive invariant for Owned and ReadyToReceive.                   *)
(***************************************************************************)

\* Which objects exist, and in which mode.
Scoped ==
  /\ pc \in {"parse", "load", "dispatch", "decode", "exited", "terminated"} =>
       scope = {}
  /\ pc = "connect" =>
       /\ call.object \in {"probe", "sock"} /\ scope = {call.object}
       /\ IF call.object = "sock" THEN Listens ELSE Downloads
  /\ pc = "probe" => scope = {"probe"} /\ Downloads
  /\ pc = "rerequester" =>
       scope = IF Listens THEN {"sock", "rr"} ELSE {}
  /\ pc = "open" =>
       /\ call.object = "rr"
       /\ scope = IF Listens THEN {"sock", "rr"} ELSE {"rr"}
  /\ pc = "receive" => scope = {"sock", "rr"}
  /\ pc = "transfer" => scope = {"rr"}

\* What a call has reached with the socket of its object.
Stages ==
  pc \in {"connect", "open"} =>
    LET Reached(socket) ==
          fd[call.object] # None /\ kernel[fd[call.object]] = socket
    IN
      /\ At("socket") => fd[call.object] = None
      /\ At("bind") => Reached(Fresh(call.object))
      /\ At("join") => call.object # "rr" /\ Reached([Fresh(call.object) EXCEPT !.bound = TRUE])
      /\ At("address") => call.object = "rr" /\ Reached([Fresh(call.object) EXCEPT !.bound = TRUE])
      /\ At("succeeded") =>
           IF call.object = "rr" THEN Requester ELSE Receiver(call.object)

\* Live mode keeps its socket while it opens the other.
Waiting ==
  /\ rr_open => pc \in {"receive", "leave", "exited"}
  /\ pc = "rerequester" =>
       /\ fd["rr"] = None
       /\ Listens => Receiver("sock")
  /\ pc = "open" /\ Listens => Receiver("sock") /\ options.enable_recovery

IInv == TypeOK /\ Owned /\ Scoped /\ Stages /\ Waiting /\ ReadyToReceive

Working == {"connect", "probe", "rerequester", "open", "receive", "transfer"}

\* For SuccessEarned: what each part of the program has behind it.
Earning ==
  /\ pc \notin {"leave", "exited"} => exit = -1
  /\ pc = "decode" => options.decode_file_path # ""
  /\ pc \in Working => options.decode_file_path = ""
  /\ pc \in Working \cup {"dispatch"} => cfg # NoConfig
  /\ pc \in Working /\ (pc = "connect" => At("succeeded")) =>
       inet_addr(cfg.mcast_ip) \in Groups
  /\ pc \in Working /\ (Downloads \/ pc = "open" \/ rr_open) => RerequesterGiven
  /\ pc = "transfer" \/ rr_open \/ (pc = "open" /\ At("succeeded")) =>
       cfg.mcast_rerequester_ip \in Addresses
  /\ pc = "receive" => Listens
  /\ pc = "transfer" => Downloads
  /\ SuccessEarned

\* For AsAsked: what the options read so far have left in the members.
Asked ==
  /\ options.type_allowed = {args[n].arg : n \in Given("type")}
  /\ options.enable_recovery <=> Given("g") # {}
  /\ options.has_start_seq <=> Given("s") # {}
  /\ options.decode_file_path = "" <=> \A n \in Given("d") : args[n].arg = ""
  /\ Given("s") # {} => options.start_seq = strtoull(LastGiven("s").number)
  /\ options.max_messages =
       IF Given("n") = {} THEN 0 ELSE strtoull(LastGiven("n").number)
=============================================================================
