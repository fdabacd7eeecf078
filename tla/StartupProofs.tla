--------------------------- MODULE StartupProofs ---------------------------
(***************************************************************************)
(* For every set of descriptors, configurations and command lines: the     *)
(* program keeps hold of its sockets, and each of its loops begins with    *)
(* the sockets it needs and no other; and what runs is what was asked for. *)
(***************************************************************************)
EXTENDS Startup, TLAPS

(***************************************************************************)
(* The command line.                                                       *)
(***************************************************************************)

\* A remainder modulo the word is a number of its range.
LEMMA Remainder == ASSUME NEW w \in Nat \ {0}, NEW v \in Int
                   PROVE  v % w \in 0..(w - 1)
  OBVIOUS

\* strtoull returns a number of 64 bits for any text it takes.
LEMMA StrtoullRange == ASSUME NEW v \in Int PROVE strtoull(v) \in 0..(Word - 1)
  <1>1. Word \in Nat \ {0}
    BY CommandLineAssumption
  <1>2. v % Word \in 0..(Word - 1)
    BY <1>1, Remainder
  <1>. QED BY <1>1, <1>2 DEF strtoull

\* Reading an option keeps the members of Application in their types.
LEMMA OptionsType ==
  ASSUME args \in CommandLines, next \in 0..Len(args), options \in Options, ReadOption
  PROVE  args' = args /\ next' \in 0..Len(args') /\ options' \in Options
  <1>1. args \in Seq(Option) /\ next < Len(args) /\ next' = next + 1 /\ args' = args
    BY CommandLineAssumption
    DEF ReadOption, ReadType, ReadConfigPath, ReadDecodeFile, ReadStartSeq,
        ReadMaxMessages, ReadRecovery, ReadVerbose, Reads
  <1>2. Current \in Option
    BY <1>1 DEF Current
  <1>3. options' \in Options
    <2>1. CASE ReadType
      <3>1. Current.arg \in Characters
        BY <1>2, <2>1 DEF ReadType, Reads, Option
      <3>. QED BY <2>1, <3>1 DEF ReadType, Options
    <2>2. CASE ReadConfigPath
      <3>1. Current.arg \in Paths
        BY <1>2, <2>2 DEF ReadConfigPath, Reads, Option
      <3>. QED BY <2>2, <3>1 DEF ReadConfigPath, Options
    <2>3. CASE ReadDecodeFile
      <3>1. Current.arg \in Paths
        BY <1>2, <2>3 DEF ReadDecodeFile, Reads, Option
      <3>. QED BY <2>3, <3>1 DEF ReadDecodeFile, Options
    <2>4. CASE ReadStartSeq
      <3>1. strtoull(Current.number) \in 0..(Word - 1)
        BY <1>2, <2>4, StrtoullRange DEF ReadStartSeq, Reads, Option
      <3>. QED BY <2>4, <3>1 DEF ReadStartSeq, Options
    <2>5. CASE ReadMaxMessages
      <3>1. strtoull(Current.number) \in 0..(Word - 1)
        BY <1>2, <2>5, StrtoullRange DEF ReadMaxMessages, Reads, Option
      <3>. QED BY <2>5, <3>1 DEF ReadMaxMessages, Options
    <2>6. CASE ReadRecovery
      BY <2>6 DEF ReadRecovery, Options
    <2>7. CASE ReadVerbose
      BY <2>7 DEF ReadVerbose, Options
    <2>. QED BY <2>1, <2>2, <2>3, <2>4, <2>5, <2>6, <2>7 DEF ReadOption
  <1>. QED BY <1>1, <1>3

(***************************************************************************)
(* Closing.                                                                *)
(***************************************************************************)

\* The descriptors without the scopes: what is named is open, by one object
\* only, and what is open is named.
Paired ==
  /\ kernel \in [Descriptors -> Behind]
  /\ fd \in [Objects -> Descriptors \cup {None}]
  /\ \A o \in Objects : fd[o] # None => kernel[fd[o]].open
  /\ \A o, p \in Objects : fd[o] = fd[p] /\ fd[o] # None => o = p
  /\ \A d \in Descriptors : kernel[d].open => \E o \in Objects : fd[o] = d

\* No descriptor is taken for none.
LEMMA NoneFree == \A d \in Descriptors : d # None
  <1>1. Descriptors \subseteq Nat
    BY SocketsAssumption
  <1>. QED BY <1>1 DEF None

\* Closing some objects leaves the others what they have.
LEMMA Closing ==
  ASSUME Paired, NEW objects \in SUBSET Objects, close(objects)
  PROVE  /\ Paired'
         /\ \A o \in objects : fd'[o] = None
         /\ \A o \in Objects \ objects :
              fd'[o] = fd[o] /\ (fd[o] # None => kernel'[fd[o]] = kernel[fd[o]])
  <1>1. Closed \in Behind /\ ~Closed.open
    BY DEF Closed, Behind
  <1>2. \A o \in objects : fd'[o] = None
    BY DEF close, Reset
  <1>3. \A o \in Objects \ objects : fd'[o] = fd[o]
    BY DEF close, Reset
  <1>4. \A o \in Objects \ objects : fd[o] # None => fd[o] \notin Held(objects)
    BY DEF Held, Paired
  <1>5. \A o \in Objects \ objects : fd[o] # None => kernel'[fd[o]] = kernel[fd[o]]
    BY <1>4 DEF close, Paired
  <1>6. kernel' \in [Descriptors -> Behind] /\ fd' \in [Objects -> Descriptors \cup {None}]
    BY <1>1 DEF close, Reset, Paired
  <1>7. \A d \in Descriptors : kernel'[d].open => \E o \in Objects : fd'[o] = d
    <2>. SUFFICES ASSUME NEW d \in Descriptors, kernel'[d].open
                  PROVE  \E o \in Objects : fd'[o] = d
      OBVIOUS
    <2>1. d \notin Held(objects) /\ kernel'[d] = kernel[d]
      BY <1>1 DEF close
    <2>2. PICK o \in Objects : fd[o] = d
      BY <2>1 DEF Paired
    <2>3. d # None
      BY NoneFree
    <2>4. o \notin objects
      BY <2>1, <2>2, <2>3 DEF Held
    <2>. QED BY <1>3, <2>2, <2>4
  <1>8. \A o \in Objects : fd'[o] # None => kernel'[fd'[o]].open
    BY <1>2, <1>3, <1>5 DEF Paired
  <1>9. \A o, p \in Objects : fd'[o] = fd'[p] /\ fd'[o] # None => o = p
    BY <1>2, <1>3 DEF Paired
  <1>. QED BY <1>2, <1>3, <1>5, <1>6, <1>7, <1>8, <1>9 DEF Paired

(***************************************************************************)
(* The parts of the invariant, put together and kept.                      *)
(***************************************************************************)

\* Owned is Paired with the scopes.
LEMMA OwnedParts ==
  ASSUME TypeOK
  PROVE  Owned <=> Paired /\ \A o \in Objects : fd[o] # None => o \in scope
  BY DEF TypeOK, Owned, Paired

\* The same of the state after a step.
LEMMA OwnedAfter ==
  ASSUME Paired', \A o \in Objects : fd'[o] # None => o \in scope'
  PROVE  Owned'
  BY DEF Owned, Paired, Objects

\* A socket that a step leaves alone is still joined.
LEMMA ReceiverKept ==
  ASSUME NEW o \in Objects, Receiver(o), fd'[o] = fd[o],
         kernel'[fd[o]] = kernel[fd[o]], cfg' = cfg
  PROVE  Receiver(o)'
  BY DEF Receiver, inet_addr

\* What TypeOK says of everything but the sockets.
OtherTypes ==
  /\ args \in CommandLines
  /\ next \in 0..Len(args)
  /\ options \in Options
  /\ cfg \in Configs \cup {NoConfig}
  /\ dst_addr \in Addresses \cup {Zeroes}
  /\ call \in [object: Objects \cup {"none"},
               at: {"idle", "socket", "bind", "join", "address", "failed", "succeeded"}]
  /\ pc \in {"parse", "load", "dispatch", "decode", "connect", "probe", "rerequester",
             "open", "receive", "transfer", "leave", "exited", "terminated"}
  /\ scope \subseteq Objects
  /\ rr_open \in BOOLEAN
  /\ exit \in {-1, 0, 1}

\* TypeOK from the types of the sockets and of the rest, after a step.
LEMMA TypeAfter ==
  ASSUME Paired', OtherTypes'
  PROVE  TypeOK'
  BY DEF TypeOK, Paired, OtherTypes

\* The invariant in these terms.
LEMMA Parts ==
  ASSUME IInv
  PROVE  /\ OtherTypes /\ Paired /\ Scoped /\ Stages /\ Waiting /\ ReadyToReceive
         /\ \A o \in Objects : fd[o] # None => o \in scope
  <1>1. TypeOK
    BY DEF IInv
  <1>. QED BY <1>1, OwnedParts DEF IInv, TypeOK, OtherTypes

\* The invariant after a step, from its parts.
LEMMA Whole ==
  ASSUME OtherTypes', Paired', Scoped', Stages', Waiting', ReadyToReceive',
         \A o \in Objects : fd'[o] # None => o \in scope'
  PROVE  IInv'
  BY OwnedAfter, TypeAfter DEF IInv

\* No option has been read at the start.
LEMMA NoOptionRead ==
  ASSUME CommandLineInit
  PROVE  args \in CommandLines /\ next \in 0..Len(args) /\ options \in Options
  <1>1. args \in Seq(Option)
    BY CommandLineAssumption DEF CommandLineInit
  <1>2. Len(args) \in Nat
    BY <1>1
  <1>3. next \in 0..Len(args)
    <2>1. next = 0
      BY DEF CommandLineInit
    <2>. QED BY <1>2, <2>1
  <1>4. Word \in Nat \ {0}
    BY CommandLineAssumption
  <1>5. 0 \in 0..(Word - 1)
    BY <1>4
  <1>6. options \in Options
    BY <1>5, CommandLineAssumption DEF CommandLineInit, Options
  <1>. QED BY <1>3, <1>6 DEF CommandLineInit

\* At the start nothing is open and nothing in scope.
LEMMA InitIInv == Init => IInv
  <1>. SUFFICES ASSUME Init PROVE IInv
    OBVIOUS
  <1>0. CommandLineInit /\ SocketsInit
    BY DEF Init
  <1>1. kernel \in [Descriptors -> Behind] /\ \A d \in Descriptors : ~kernel[d].open
    BY <1>0 DEF SocketsInit, Closed, Behind
  <1>2. fd \in [Objects -> Descriptors \cup {None}] /\ \A o \in Objects : fd[o] = None
    BY <1>0 DEF SocketsInit
  <1>3. TypeOK
    <2>1. call \in [object: Objects \cup {"none"},
                   at: {"idle", "socket", "bind", "join", "address", "failed", "succeeded"}]
      BY <1>0 DEF SocketsInit, Idle
    <2>2. cfg \in Configs \cup {NoConfig} /\ dst_addr \in Addresses \cup {Zeroes}
      BY <1>0 DEF SocketsInit
    <2>. QED BY <1>0, <1>1, <1>2, <2>1, <2>2, NoOptionRead DEF TypeOK, Init
  <1>4. Owned
    BY <1>1, <1>2 DEF Owned
  <1>5. Scoped /\ Stages /\ Waiting /\ ReadyToReceive
    BY DEF Init, Scoped, Stages, Waiting, ReadyToReceive
  <1>. QED BY <1>3, <1>4, <1>5 DEF IInv

(***************************************************************************)
(* Steps out of the modes.                                                 *)
(***************************************************************************)

\* Every return closes what it closes, and leaves the rest in scope.
LEMMA ReturnKeeps ==
  ASSUME IInv, NEW status \in {0, 1}, NEW objects \in SUBSET Objects,
         Return(status, objects)
  PROVE  IInv'
  <1>0. OtherTypes /\ Paired /\ \A o \in Objects : fd[o] # None => o \in scope
    BY Parts
  <1>1. close(objects) /\ pc' = "leave" /\ scope' = scope
    BY DEF Return
  <1>2. Paired' /\ \A o \in Objects : fd'[o] # None => fd[o] # None
    BY <1>0, <1>1, Closing
  <1>3. OtherTypes'
    BY <1>0 DEF Return, OtherTypes, commandLine
  <1>4. Scoped' /\ Stages' /\ Waiting' /\ ReadyToReceive'
    BY <1>1 DEF Scoped, Stages, Waiting, ReadyToReceive
  <1>. QED BY <1>0, <1>1, <1>2, <1>3, <1>4, Whole

\* The destructors close the rest.
LEMMA LeaveKeeps ==
  ASSUME IInv, Leave
  PROVE  IInv'
  <1>0. OtherTypes /\ Paired /\ \A o \in Objects : fd[o] # None => o \in scope
    BY Parts
  <1>1. close(scope) /\ scope \in SUBSET Objects /\ pc' = "exited" /\ scope' = {}
    BY <1>0 DEF Leave, OtherTypes
  <1>2. Paired' /\ \A o \in Objects : fd'[o] = None
    BY <1>0, <1>1, Closing
  <1>3. OtherTypes'
    BY <1>0 DEF Leave, OtherTypes, commandLine
  <1>4. Scoped' /\ Stages' /\ Waiting' /\ ReadyToReceive'
    BY <1>1 DEF Scoped, Stages, Waiting, ReadyToReceive
  <1>. QED BY <1>2, <1>3, <1>4, Whole

(***************************************************************************)
(* Steps that touch no socket.                                             *)
(***************************************************************************)

\* What is kept when nothing is opened, closed or configured.
LEMMA QuietKeeps ==
  ASSUME Paired, UNCHANGED <<kernel, fd>>
  PROVE  Paired' /\ \A o \in Objects : fd'[o] = fd[o] /\ kernel'[fd[o]] = kernel[fd[o]]
  BY DEF Paired

\* Before the mode is chosen there is nothing to keep.
LEMMA EarlyKeeps ==
  ASSUME IInv,
         ParseOption \/ EndOfOptions \/ LoadThrows \/ LoadConfig \/ StartDecode
  PROVE  IInv'
  <1>0. OtherTypes /\ Paired /\ Scoped /\ Waiting /\ \A o \in Objects : fd[o] # None => o \in scope
    BY Parts
  <1>1. /\ UNCHANGED <<kernel, fd, scope, rr_open, dst_addr, call, exit>>
        /\ pc \in {"parse", "load", "dispatch"}
        /\ pc' \in {"parse", "load", "dispatch", "decode", "terminated"}
    BY DEF ParseOption, EndOfOptions, LoadThrows, LoadConfig, StartDecode, sockets
  <1>2. Paired' /\ \A o \in Objects : fd'[o] # None => o \in scope'
    BY <1>0, <1>1, QuietKeeps
  <1>3. OtherTypes'
    <2>1. args \in CommandLines /\ next \in 0..Len(args) /\ options \in Options
      BY <1>0 DEF OtherTypes
    <2>2. args' \in CommandLines /\ next' \in 0..Len(args') /\ options' \in Options
      <3>1. CASE ParseOption
        BY <2>1, <3>1, OptionsType DEF ParseOption
      <3>2. CASE ~ParseOption
        BY <2>1, <3>2 DEF EndOfOptions, LoadThrows, LoadConfig, StartDecode, commandLine
      <3>. QED BY <3>1, <3>2
    <2>3. cfg' \in Configs \cup {NoConfig}
      BY <1>0 DEF ParseOption, EndOfOptions, LoadThrows, LoadConfig, StartDecode, sockets,
                  OtherTypes
    <2>. QED BY <1>0, <1>1, <2>2, <2>3 DEF OtherTypes
  <1>4. Scoped' /\ Stages' /\ Waiting' /\ ReadyToReceive'
    BY <1>0, <1>1 DEF Scoped, Stages, Waiting, ReadyToReceive
  <1>. QED BY <1>2, <1>3, <1>4, Whole

\* A socket is joined and the mode goes on with it.
LEMMA ArrivalKeeps ==
  ASSUME IInv, Probing \/ Connected \/ ReceiveOnly \/ Opened
  PROVE  IInv'
  <1>0. /\ OtherTypes /\ Paired /\ Scoped /\ Stages /\ Waiting /\ ReadyToReceive
        /\ \A o \in Objects : fd[o] # None => o \in scope
    BY Parts
  <1>1. UNCHANGED <<commandLine, cfg, kernel, fd, dst_addr, call, exit>> /\ scope \subseteq scope'
    BY <1>0 DEF Probing, Connected, ReceiveOnly, Opened, sockets, Scoped
  <1>2. Paired' /\ \A o \in Objects : fd'[o] # None => o \in scope'
    BY <1>0, <1>1, QuietKeeps
  <1>3. OtherTypes'
    <2>1. /\ scope' \subseteq Objects /\ rr_open' \in BOOLEAN
          /\ pc' \in {"probe", "rerequester", "receive", "transfer"}
      BY <1>0 DEF Probing, Connected, ReceiveOnly, Opened, OtherTypes, Objects, Listens
    <2>. QED BY <1>0, <1>1, <2>1 DEF OtherTypes, commandLine
  <1>4. ASSUME NEW o \in Objects PROVE Receiver(o)' <=> Receiver(o)
    BY <1>1 DEF Receiver, inet_addr
  <1>5. /\ Requester' <=> Requester
        /\ Listens' <=> Listens
        /\ Downloads' <=> Downloads
    BY <1>1 DEF Requester, Listens, Downloads, commandLine
  <1>6. "probe" \in Objects /\ "sock" \in Objects /\ "rr" \in Objects
    BY DEF Objects
  <1>7. options' = options
    BY <1>1 DEF commandLine
  <1>8. Scoped' /\ Stages'
    BY <1>0, <1>1, <1>5 DEF Probing, Connected, ReceiveOnly, Opened, Scoped, Stages
  <1>9. CASE Probing
    <2>1. fd["rr"] = None /\ Receiver("probe")
      BY <1>0, <1>6, <1>9 DEF Probing, Scoped, Stages, At
    <2>2. pc' = "probe" /\ rr_open' = rr_open /\ ~rr_open
      BY <1>0, <1>9 DEF Probing, Waiting
    <2>3. Waiting' /\ ReadyToReceive'
      BY <1>1, <1>4, <1>6, <2>1, <2>2 DEF Waiting, ReadyToReceive
    <2>. QED BY <1>2, <1>3, <1>8, <2>3, Whole
  <1>10. CASE Connected
    <2>1. fd["rr"] = None /\ Receiver("sock")
      BY <1>0, <1>6, <1>10 DEF Connected, Scoped, Stages, At
    <2>2. pc' = "rerequester" /\ rr_open' = rr_open /\ ~rr_open
      BY <1>0, <1>10 DEF Connected, Waiting
    <2>3. Waiting' /\ ReadyToReceive'
      BY <1>1, <1>4, <1>6, <2>1, <2>2 DEF Waiting, ReadyToReceive
    <2>. QED BY <1>2, <1>3, <1>8, <2>3, Whole
  <1>11. CASE ReceiveOnly
    <2>1. fd["rr"] = None /\ Receiver("sock")
      BY <1>0, <1>11 DEF ReceiveOnly, Waiting
    <2>2. pc' = "receive" /\ rr_open' = rr_open /\ ~rr_open /\ ~options.enable_recovery
      BY <1>0, <1>11 DEF ReceiveOnly, Waiting
    <2>3. Waiting' /\ ReadyToReceive'
      BY <1>1, <1>4, <1>6, <1>7, <2>1, <2>2 DEF Waiting, ReadyToReceive
    <2>. QED BY <1>2, <1>3, <1>8, <2>3, Whole
  <1>12. CASE Opened
    <2>1. Requester
      BY <1>0, <1>12 DEF Opened, Scoped, Stages, At
    <2>2. CASE Listens
      <3>1. Receiver("sock") /\ options.enable_recovery /\ pc' = "receive" /\ rr_open'
        BY <1>0, <1>12, <2>2 DEF Opened, Waiting
      <3>2. Waiting' /\ ReadyToReceive'
        BY <1>4, <1>5, <1>6, <1>7, <2>1, <3>1 DEF Waiting, ReadyToReceive
      <3>. QED BY <1>2, <1>3, <1>8, <3>2, Whole
    <2>3. CASE ~Listens
      <3>1. pc' = "transfer" /\ ~rr_open' /\ scope = {"rr"}
        BY <1>0, <1>12, <2>3 DEF Opened, Scoped
      <3>2. ASSUME NEW d \in Descriptors, kernel[d].open
            PROVE  kernel[d].member = "none"
        <4>1. PICK o \in Objects : fd[o] = d
          BY <1>0, <3>2 DEF Paired
        <4>2. o = "rr"
          BY <1>0, <3>1, <4>1, NoneFree
        <4>. QED BY <2>1, <4>1, <4>2 DEF Requester
      <3>3. Waiting' /\ ReadyToReceive'
        BY <1>1, <1>5, <2>1, <3>1, <3>2 DEF Waiting, ReadyToReceive
      <3>. QED BY <1>2, <1>3, <1>8, <3>3, Whole
    <2>. QED BY <2>2, <2>3
  <1>. QED BY <1>9, <1>10, <1>11, <1>12

(***************************************************************************)
(* Calls of connect_socket and open.                                       *)
(***************************************************************************)

\* A call begins with an object that has just been constructed, or holds
\* nothing yet.
LEMMA EnterKeeps ==
  ASSUME IInv, StartProbe \/ StartLive \/ OpenProbed \/ OpenLive
  PROVE  IInv'
  <1>0. /\ OtherTypes /\ Paired /\ Scoped /\ Stages /\ Waiting
        /\ \A o \in Objects : fd[o] # None => o \in scope
    BY Parts
  <1>. DEFINE object == IF StartProbe THEN "probe" ELSE IF StartLive THEN "sock" ELSE "rr"
  <1>1. /\ Enter(object) /\ object \in Objects
        /\ UNCHANGED <<commandLine, rr_open, exit>>
    BY DEF StartProbe, StartLive, OpenProbed, OpenLive, Connect, Objects
  <1>2. /\ close({object}) /\ UNCHANGED <<cfg, dst_addr>>
        /\ call'.object = object /\ call'.at \in {"socket", "failed"}
        /\ call' \in [object: Objects \cup {"none"},
             at: {"idle", "socket", "bind", "join", "address", "failed", "succeeded"}]
    BY <1>1 DEF Enter
  <1>3. /\ pc' \in {"connect", "open"} /\ scope' \subseteq Objects /\ object \in scope'
        /\ \A o \in scope : o \in scope'
        /\ pc' = "open" <=> object = "rr"
        /\ pc' = "connect" =>
              scope' = {object} /\ IF object = "sock" THEN Listens ELSE Downloads
        /\ pc' = "open" =>
             /\ scope' = IF Listens THEN {"sock", "rr"} ELSE {"rr"}
             /\ pc = "rerequester" /\ (Listens => options.enable_recovery)
    BY <1>0 DEF StartProbe, StartLive, OpenProbed, OpenLive, Connect, Scoped, Objects,
                Listens, Downloads
  <1>4. /\ Paired' /\ fd'[object] = None
        /\ \A o \in Objects : o # object =>
             fd'[o] = fd[o] /\ (fd[o] # None => kernel'[fd[o]] = kernel[fd[o]])
    BY <1>0, <1>1, <1>2, Closing
  <1>5. \A o \in Objects : fd'[o] # None => o \in scope'
    BY <1>0, <1>3, <1>4
  <1>6. /\ Listens' <=> Listens
        /\ Downloads' <=> Downloads
        /\ options' = options
    BY <1>1 DEF commandLine, Listens, Downloads
  <1>7. OtherTypes'
    BY <1>0, <1>1, <1>2, <1>3 DEF OtherTypes, commandLine
  <1>. HIDE DEF object
  <1>8. Scoped'
    BY <1>1, <1>2, <1>3, <1>6 DEF Scoped, Objects
  <1>9. Stages'
    BY <1>2, <1>4 DEF Stages, At
  <1>10. Waiting'
    <2>1. ~rr_open'
      BY <1>0, <1>1 DEF Waiting, StartProbe, StartLive, OpenProbed, OpenLive
    <2>2. ASSUME pc' = "open", Listens PROVE Receiver("sock")'
      <3>1. Receiver("sock") /\ object = "rr"
        BY <1>0, <1>3, <2>2 DEF Waiting
      <3>2. "sock" \in Objects /\ fd["sock"] # None /\ "sock" # object
        BY <3>1 DEF Receiver, Objects
      <3>. QED BY <1>2, <1>4, <3>1, <3>2, ReceiverKept
    <2>. QED BY <1>3, <1>6, <2>1, <2>2 DEF Waiting
  <1>11. ReadyToReceive'
    BY <1>3 DEF ReadyToReceive
  <1>. QED BY <1>4, <1>5, <1>7, <1>8, <1>9, <1>10, <1>11, Whole

\* The probe is closed and gone.
LEMMA ProbeKeeps ==
  ASSUME IInv, ProbeSession
  PROVE  IInv'
  <1>0. /\ OtherTypes /\ Paired /\ Scoped /\ Waiting
        /\ \A o \in Objects : fd[o] # None => o \in scope
    BY Parts
  <1>1. close({"probe"}) /\ {"probe"} \in SUBSET Objects /\ scope = {"probe"} /\ Downloads
    BY <1>0 DEF ProbeSession, Scoped, Objects
  <1>2. Paired' /\ \A o \in Objects : fd'[o] = None
    BY <1>0, <1>1, Closing
  <1>3. OtherTypes'
    BY <1>0 DEF ProbeSession, OtherTypes, commandLine
  <1>4. pc' = "rerequester" /\ scope' = {} /\ ~Listens' /\ ~rr_open'
    BY <1>0, <1>1 DEF ProbeSession, Waiting, Listens, Downloads, commandLine
  <1>5. Scoped' /\ Stages' /\ Waiting' /\ ReadyToReceive'
    BY <1>2, <1>4 DEF Scoped, Stages, Waiting, ReadyToReceive, Objects
  <1>. QED BY <1>2, <1>3, <1>5, Whole

\* The object of a call in progress, and that all but it is left alone.
Aside ==
  \A o \in Objects : o # call.object =>
    fd'[o] = fd[o] /\ (fd[o] # None => kernel'[fd[o]] = kernel[fd[o]])

\* A step of a call keeps the invariant if it keeps the pairs, leaves the other
\* objects alone and arrives at its next stage.
LEMMA StepKeeps ==
  ASSUME IInv, CallStep, Paired', Aside, Stages',
         cfg' = cfg, dst_addr' \in Addresses \cup {Zeroes},
         call'.object = call.object,
         call' \in [object: Objects \cup {"none"},
           at: {"idle", "socket", "bind", "join", "address", "failed", "succeeded"}]
  PROVE  IInv'
  <1>0. /\ OtherTypes /\ Scoped /\ Waiting
        /\ \A o \in Objects : fd[o] # None => o \in scope
    BY Parts
  <1>1. /\ pc \in {"connect", "open"}
        /\ UNCHANGED <<commandLine, pc, scope, rr_open, exit>>
    BY DEF CallStep
  <1>2. call.object \in scope
    BY <1>0, <1>1 DEF Scoped
  <1>3. \A o \in Objects : fd'[o] # None => o \in scope'
    BY <1>0, <1>1, <1>2 DEF Aside
  <1>4. OtherTypes'
    BY <1>0, <1>1 DEF OtherTypes, commandLine
  <1>5. /\ Listens' <=> Listens
        /\ Downloads' <=> Downloads
        /\ options' = options
    BY <1>1 DEF commandLine, Listens, Downloads
  <1>6. Scoped'
    BY <1>0, <1>1, <1>5 DEF Scoped
  <1>7. Waiting'
    <2>1. ASSUME pc = "open", Listens PROVE Receiver("sock")'
      <3>1. Receiver("sock") /\ call.object = "rr"
        BY <1>0, <2>1 DEF Waiting, Scoped
      <3>2. "sock" \in Objects /\ fd["sock"] # None /\ "sock" # call.object
        BY <3>1 DEF Receiver, Objects
      <3>. QED BY <3>1, <3>2, ReceiverKept DEF Aside
    <2>. QED BY <1>0, <1>1, <1>5, <2>1 DEF Waiting
  <1>8. ReadyToReceive'
    BY <1>1 DEF ReadyToReceive
  <1>. QED BY <1>3, <1>4, <1>6, <1>7, <1>8, Whole

\* Steps that fail close the object's socket.
LEMMA FailureKeeps ==
  ASSUME IInv, CallStep, SocketFails \/ BindFails \/ JoinFails \/ AddressFails
  PROVE  IInv'
  <1>0. OtherTypes /\ Paired /\ Scoped
    BY Parts
  <1>1. call.object \in Objects /\ call' = [call EXCEPT !.at = "failed"] /\ cfg' = cfg
    BY <1>0 DEF CallStep, Scoped, Objects, SocketFails, BindFails, JoinFails, AddressFails, Proceed
  <1>2. /\ call'.object = call.object /\ call'.at = "failed"
        /\ call' \in [object: Objects \cup {"none"},
             at: {"idle", "socket", "bind", "join", "address", "failed", "succeeded"}]
    BY <1>0, <1>1 DEF OtherTypes
  <1>3. Paired' /\ Aside
    <2>1. CASE SocketFails
      BY <1>0, <2>1, QuietKeeps DEF SocketFails, Aside
    <2>2. CASE ~SocketFails
      <3>1. close({call.object}) /\ {call.object} \in SUBSET Objects
        BY <1>1, <2>2 DEF BindFails, JoinFails, AddressFails, Fail
      <3>. QED BY <1>0, <3>1, Closing DEF Aside
    <2>. QED BY <2>1, <2>2
  <1>4. Stages'
    BY <1>2 DEF Stages, At
  <1>5. dst_addr' \in Addresses \cup {Zeroes}
    BY <1>0 DEF SocketFails, BindFails, JoinFails, AddressFails, OtherTypes
  <1>. QED BY <1>1, <1>2, <1>3, <1>4, <1>5, StepKeeps

\* A new socket is on a descriptor that nobody had.
LEMMA SocketKeeps ==
  ASSUME IInv, CallStep, SocketMade
  PROVE  IInv'
  <1>0. OtherTypes /\ Paired /\ Scoped /\ Stages
    BY Parts
  <1>1. call.object \in Objects /\ call' = [call EXCEPT !.at = "bind"]
    BY <1>0 DEF CallStep, Scoped, Objects, SocketMade, Proceed
  <1>2. /\ call'.object = call.object /\ call'.at = "bind"
        /\ call' \in [object: Objects \cup {"none"},
             at: {"idle", "socket", "bind", "join", "address", "failed", "succeeded"}]
    BY <1>0, <1>1 DEF OtherTypes
  <1>3. fd[call.object] = None
    BY <1>0 DEF CallStep, SocketMade, Stages
  <1>. DEFINE made == Fresh(call.object)
  <1>4. PICK d \in Descriptors :
          /\ ~kernel[d].open
          /\ kernel' = [kernel EXCEPT ![d] = made]
          /\ fd' = [fd EXCEPT ![call.object] = d]
    BY DEF SocketMade
  <1>5. made \in Behind /\ made.open
    BY DEF Fresh, Behind
  <1>. HIDE DEF made
  <1>6. /\ fd'[call.object] = d /\ d # None /\ kernel'[d] = made
        /\ \A o \in Objects : o # call.object => fd'[o] = fd[o]
        /\ \A e \in Descriptors : e # d => kernel'[e] = kernel[e]
    BY <1>0, <1>1, <1>4, NoneFree DEF Paired
  <1>7. \A o \in Objects : fd[o] # d
    BY <1>0, <1>4, NoneFree DEF Paired
  <1>8. Paired'
    <2>1. kernel' \in [Descriptors -> Behind] /\ fd' \in [Objects -> Descriptors \cup {None}]
      BY <1>0, <1>4, <1>5 DEF Paired
    <2>2. \A o \in Objects : fd'[o] # None => kernel'[fd'[o]].open
      BY <1>0, <1>5, <1>6, <1>7 DEF Paired
    <2>3. \A o, p \in Objects : fd'[o] = fd'[p] /\ fd'[o] # None => o = p
      BY <1>0, <1>6, <1>7 DEF Paired
    <2>4. \A e \in Descriptors : kernel'[e].open => \E o \in Objects : fd'[o] = e
      <3>. SUFFICES ASSUME NEW e \in Descriptors, kernel'[e].open
                    PROVE  \E o \in Objects : fd'[o] = e
        OBVIOUS
      <3>1. CASE e = d
        BY <1>1, <1>6, <3>1
      <3>2. CASE e # d
        <4>1. PICK o \in Objects : fd[o] = e
          BY <1>0, <1>6, <3>2 DEF Paired
        <4>2. o # call.object
          BY <1>3, <4>1, NoneFree
        <4>. QED BY <1>6, <4>1, <4>2
      <3>. QED BY <3>1, <3>2
    <2>. QED BY <2>1, <2>2, <2>3, <2>4 DEF Paired
  <1>9. Aside
    BY <1>0, <1>6, <1>7 DEF Aside, Paired
  <1>10. Stages'
    <2>1. fd'[call'.object] # None
      BY <1>2, <1>6
    <2>2. kernel'[fd'[call'.object]] = Fresh(call'.object)
      BY <1>2, <1>6 DEF made
    <2>. QED BY <1>2, <2>1, <2>2 DEF Stages, At
  <1>. QED BY <1>0, <1>2, <1>8, <1>9, <1>10, StepKeeps DEF SocketMade, OtherTypes

\* The socket of the call is changed where it is: bound, or joined.
LEMMA InPlace ==
  ASSUME Paired, NEW o \in Objects, fd[o] # None, NEW socket \in Behind, socket.open,
         fd' = fd, kernel' = [kernel EXCEPT ![fd[o]] = socket]
  PROVE  /\ Paired'
         /\ kernel'[fd[o]] = socket
         /\ \A p \in Objects : p # o =>
              fd'[p] = fd[p] /\ (fd[p] # None => kernel'[fd[p]] = kernel[fd[p]])
  <1>1. fd[o] \in Descriptors
    BY DEF Paired
  <1>2. kernel' \in [Descriptors -> Behind] /\ kernel'[fd[o]] = socket
    BY <1>1 DEF Paired
  <1>3. \A p \in Objects : fd[p] # None /\ p # o => kernel'[fd[p]] = kernel[fd[p]]
    BY <1>1 DEF Paired
  <1>4. \A d \in Descriptors : kernel'[d].open => kernel[d].open
    BY <1>1 DEF Paired
  <1>5. \A p \in Objects : fd[p] # None => kernel'[fd[p]].open
    BY <1>2, <1>3 DEF Paired
  <1>. QED BY <1>2, <1>3, <1>4, <1>5 DEF Paired

\* Binding takes the call to its last step.
LEMMA BindKeeps ==
  ASSUME IInv, CallStep, Bound
  PROVE  IInv'
  <1>0. OtherTypes /\ Paired /\ Scoped /\ Stages
    BY Parts
  <1>. DEFINE o == call.object
              socket == [Fresh(call.object) EXCEPT !.bound = TRUE]
  <1>1. o \in Objects
    BY <1>0 DEF CallStep, Scoped, Objects
  <1>2. fd[o] # None /\ kernel[fd[o]] = Fresh(o)
    BY <1>0 DEF CallStep, Bound, Stages
  <1>3. fd' = fd /\ kernel' = [kernel EXCEPT ![fd[o]] = socket]
    BY <1>2 DEF Bound
  <1>4. socket \in Behind /\ socket.open
    BY DEF Fresh, Behind
  <1>5. /\ call'.object = o /\ call'.at = IF o = "rr" THEN "address" ELSE "join"
        /\ call' \in [object: Objects \cup {"none"},
             at: {"idle", "socket", "bind", "join", "address", "failed", "succeeded"}]
    BY <1>0 DEF Bound, Proceed, OtherTypes
  <1>. HIDE DEF socket
  <1>6. Paired' /\ Aside /\ kernel'[fd[o]] = socket
    BY <1>0, <1>1, <1>2, <1>3, <1>4, InPlace DEF Aside
  <1>7. fd'[call'.object] # None /\ kernel'[fd'[call'.object]] =
          [Fresh(call'.object) EXCEPT !.bound = TRUE]
    BY <1>2, <1>3, <1>5, <1>6 DEF socket
  <1>8. Stages'
    BY <1>5, <1>7 DEF Stages, At
  <1>. QED BY <1>0, <1>5, <1>6, <1>8, StepKeeps DEF Bound, OtherTypes

\* Joining makes a receiver of the socket.
LEMMA JoinKeeps ==
  ASSUME IInv, CallStep, Joined
  PROVE  IInv'
  <1>0. OtherTypes /\ Paired /\ Scoped /\ Stages
    BY Parts
  <1>. DEFINE o == call.object
              before == [Fresh(call.object) EXCEPT !.bound = TRUE]
              socket == [before EXCEPT !.member = Membership]
  <1>1. o \in Objects
    BY <1>0 DEF CallStep, Scoped, Objects
  <1>2. o # "rr" /\ fd[o] # None /\ kernel[fd[o]] = before
    BY <1>0 DEF CallStep, Joined, Stages
  <1>3. fd' = fd /\ kernel' = [kernel EXCEPT ![fd[o]] = socket] /\ cfg' = cfg
    BY <1>2 DEF Joined
  <1>4. Membership \in Addresses \cup {"none", "any", INADDR_NONE}
    BY DEF Membership, inet_addr
  <1>5. /\ socket \in Behind /\ socket.open /\ socket.bound /\ ~socket.timeout
        /\ socket.member = Membership
    BY <1>2, <1>4 DEF Fresh, Behind
  <1>6. /\ call'.object = o /\ call'.at = "succeeded"
        /\ call' \in [object: Objects \cup {"none"},
             at: {"idle", "socket", "bind", "join", "address", "failed", "succeeded"}]
    BY <1>0 DEF Joined, Proceed, OtherTypes
  <1>. HIDE DEF before, socket
  <1>7. Paired' /\ Aside /\ kernel'[fd[o]] = socket
    BY <1>0, <1>1, <1>2, <1>3, <1>5, InPlace DEF Aside
  <1>8. Receiver(o)'
    BY <1>2, <1>3, <1>5, <1>6, <1>7 DEF Receiver, Membership, inet_addr
  <1>9. Stages'
    BY <1>2, <1>6, <1>8 DEF Stages, At
  <1>. QED BY <1>0, <1>3, <1>6, <1>7, <1>9, StepKeeps DEF Joined, OtherTypes

\* With an address to send to the rerequester can be used.
LEMMA AddressKeeps ==
  ASSUME IInv, CallStep, AddressSet
  PROVE  IInv'
  <1>0. OtherTypes /\ Paired /\ Scoped /\ Stages
    BY Parts
  <1>1. call.object = "rr" /\ "rr" \in Objects
    BY <1>0 DEF CallStep, AddressSet, Stages, Objects
  <1>2. fd["rr"] # None /\ kernel[fd["rr"]] = [Fresh("rr") EXCEPT !.bound = TRUE]
    BY <1>0, <1>1 DEF CallStep, AddressSet, Stages
  <1>3. /\ UNCHANGED <<cfg, kernel, fd>>
        /\ dst_addr' = cfg.mcast_rerequester_ip /\ dst_addr' \in Addresses
    BY DEF AddressSet, inet_addr
  <1>4. /\ call'.object = "rr" /\ call'.at = "succeeded"
        /\ call' \in [object: Objects \cup {"none"},
             at: {"idle", "socket", "bind", "join", "address", "failed", "succeeded"}]
    BY <1>0, <1>1 DEF AddressSet, Proceed, OtherTypes
  <1>5. Paired' /\ Aside
    BY <1>0, <1>3, QuietKeeps DEF Aside
  <1>6. Requester'
    BY <1>2, <1>3 DEF Requester, Fresh
  <1>7. Stages'
    BY <1>4, <1>6 DEF Stages, At
  <1>. QED BY <1>1, <1>3, <1>4, <1>5, <1>7, StepKeeps

(***************************************************************************)
(* Success.                                                                *)
(***************************************************************************)

\* Nothing is behind the program at its start.
LEMMA InitEarning == Init => Earning
  BY DEF Init, Earning, Working, SuccessEarned

\* What Workable and the rest speak of changes with the command line and the
\* configuration only.
LEMMA SameGrounds ==
  ASSUME UNCHANGED <<args, next, options, cfg>>
  PROVE  /\ Workable' <=> Workable
         /\ RerequesterGiven' <=> RerequesterGiven
         /\ inet_addr(cfg'.mcast_ip) \in Groups <=> inet_addr(cfg.mcast_ip) \in Groups
         /\ Listens' <=> Listens
         /\ Downloads' <=> Downloads
         /\ exit' = exit /\ SuccessEarned => SuccessEarned'
  BY DEF Workable, RerequesterGiven, inet_addr, Listens, Downloads, SuccessEarned, Current

\* A return with success is earned where it stands.
LEMMA ReturnEarned ==
  ASSUME Earning, NEW status \in {0, 1}, NEW objects, Return(status, objects),
         status = 0 => \/ next < Len(args) /\ Current.opt = "h"
                       \/ options.decode_file_path # ""
                       \/ Workable
  PROVE  Earning'
  <1>1. /\ UNCHANGED <<args, next, options, cfg, rr_open, call>>
        /\ pc' = "leave" /\ exit' = status
    BY DEF Return, commandLine
  <1>2. SuccessEarned'
    BY <1>1, SameGrounds DEF SuccessEarned, Current
  <1>3. rr_open' => cfg'.mcast_rerequester_ip \in Addresses
    BY <1>1 DEF Earning
  <1>. QED BY <1>1, <1>2, <1>3 DEF Earning, Working

\* Steps from the command line to the mode.
LEMMA EarlyEarned ==
  ASSUME IInv, Earning,
         ParseOption \/ EndOfOptions \/ LoadThrows \/ LoadConfig \/ StartDecode
  PROVE  Earning'
  <1>1. /\ pc \in {"parse", "load", "dispatch"} /\ exit = -1 /\ exit' = exit /\ ~rr_open
        /\ rr_open' = rr_open
    BY DEF ParseOption, EndOfOptions, LoadThrows, LoadConfig, StartDecode, Earning, IInv,
           Waiting
  <1>2. /\ pc' \in {"parse", "load", "dispatch", "decode", "terminated"}
        /\ pc' = "decode" => options'.decode_file_path # ""
    BY DEF ParseOption, EndOfOptions, LoadThrows, LoadConfig, StartDecode, commandLine
  <1>3. pc' = "dispatch" => cfg' # NoConfig
    BY StartupAssumption DEF ParseOption, EndOfOptions, LoadThrows, LoadConfig, StartDecode
  <1>4. SuccessEarned'
    <2>1. exit' # 0
      BY <1>1
    <2>. QED BY <2>1 DEF SuccessEarned
  <1>. QED BY <1>1, <1>2, <1>3, <1>4 DEF Earning, Working

\* Steps of the modes: a group joined and an address set are behind what follows.
LEMMA ModeEarned ==
  ASSUME IInv, Earning,
         \/ StartProbe \/ StartLive \/ CallStep \/ Probing \/ ProbeSession \/ OpenProbed
         \/ Connected \/ ReceiveOnly \/ OpenLive \/ Opened
  PROVE  Earning'
  <1>0. Scoped /\ Stages /\ Waiting
    BY DEF IInv
  <1>12. ASSUME NEW step, Proceed(step) PROVE call'.at = step
    BY <1>12 DEF Proceed, IInv, TypeOK
  <1>1. /\ UNCHANGED <<args, next, options, cfg, exit>>
        /\ pc \in Working \cup {"dispatch"} /\ pc' \in Working
    <2>1. CASE CallStep
      BY <2>1 DEF CallStep, Calls, SocketFails, SocketMade, BindFails, Bound, JoinFails,
         Joined, AddressFails, AddressSet, commandLine, Working
    <2>2. CASE ~CallStep
      BY <2>2 DEF StartProbe, StartLive, Probing, ProbeSession, OpenProbed, Connected,
         ReceiveOnly, OpenLive, Opened, Connect, Enter, commandLine, sockets, Working
    <2>. QED BY <2>1, <2>2
  <1>2. /\ RerequesterGiven' <=> RerequesterGiven
        /\ inet_addr(cfg'.mcast_ip) \in Groups <=> inet_addr(cfg.mcast_ip) \in Groups
        /\ Listens' <=> Listens
        /\ Downloads' <=> Downloads
        /\ SuccessEarned'
    BY <1>1, SameGrounds DEF Earning
  <1>3. exit' = -1 /\ cfg' # NoConfig
    BY <1>1 DEF Earning, Working
  <1>4. options'.decode_file_path = ""
    <2>1. CASE pc \in Working
      BY <1>1, <2>1 DEF Earning
    <2>2. CASE pc = "dispatch"
      <3>1. StartProbe \/ StartLive
        BY <2>2 DEF CallStep, Probing, ProbeSession, OpenProbed, Connected, ReceiveOnly,
           OpenLive, Opened
      <3>. QED BY <1>1, <3>1 DEF StartProbe, StartLive, Listens, Downloads
    <2>. QED BY <1>1, <2>1, <2>2
  <1>5. pc' = "connect" /\ At("succeeded")' => inet_addr(cfg'.mcast_ip) \in Groups
    <2>. SUFFICES ASSUME pc' = "connect", At("succeeded")'
                  PROVE  inet_addr(cfg.mcast_ip) \in Groups
      BY <1>2
    <2>1. CASE CallStep
      <3>1. pc = "connect" /\ call.object # "rr"
        BY <1>0, <2>1 DEF CallStep, Scoped
      <3>2. ~AddressSet
        BY <1>0, <3>1 DEF AddressSet, Stages
      <3>3. Joined
        <4>1. ASSUME ~Joined PROVE call'.at # "succeeded"
          BY <1>12, <2>1, <3>2, <4>1 DEF CallStep, Calls, SocketFails, SocketMade, BindFails,
             Bound, JoinFails, AddressFails
        <4>. QED BY <4>1 DEF At
      <3>. QED BY <3>3 DEF Joined
    <2>2. CASE StartProbe \/ StartLive
      BY <2>2 DEF StartProbe, StartLive, Connect, Enter, At
    <2>. QED BY <2>1, <2>2 DEF Probing, ProbeSession, OpenProbed, Connected, ReceiveOnly,
                OpenLive, Opened, At
  <1>6. pc' # "connect" => inet_addr(cfg.mcast_ip) \in Groups
    BY DEF Earning, StartProbe, StartLive, CallStep, Probing, ProbeSession, OpenProbed,
           Connected, ReceiveOnly, OpenLive, Opened, Connect, Working
  <1>7. Downloads \/ pc' = "open" \/ rr_open' => RerequesterGiven
    <2>1. CASE pc \in Working
      <3>1. Downloads \/ pc = "open" \/ rr_open => RerequesterGiven
        BY <2>1 DEF Earning
      <3>2. (pc' = "open" \/ rr_open') =>
              pc = "open" \/ rr_open \/ Downloads \/ RerequesterGiven
        BY <2>1 DEF StartProbe, StartLive, CallStep, Probing, ProbeSession, OpenProbed,
           Connected, ReceiveOnly, OpenLive, Opened, Connect
      <3>. QED BY <3>1, <3>2
    <2>2. CASE pc = "dispatch"
      BY <1>0, <2>2 DEF StartProbe, StartLive, CallStep, Probing, ProbeSession, OpenProbed,
         Connected, ReceiveOnly, OpenLive, Opened, Connect, Waiting, Listens, Downloads
    <2>. QED BY <1>1, <2>1, <2>2
  <1>8. (pc' = "transfer" \/ rr_open') => cfg.mcast_rerequester_ip \in Addresses
    BY <1>0 DEF Earning, StartProbe, StartLive, CallStep, Probing, ProbeSession, OpenProbed,
           Connected, ReceiveOnly, OpenLive, Opened, Connect, Waiting
  <1>9. pc' = "open" /\ At("succeeded")' => cfg.mcast_rerequester_ip \in Addresses
    <2>. SUFFICES ASSUME pc' = "open", At("succeeded")'
                  PROVE  cfg.mcast_rerequester_ip \in Addresses
      OBVIOUS
    <2>1. CASE CallStep
      <3>1. call.object = "rr"
        BY <1>0, <2>1 DEF CallStep, Scoped
      <3>2. ~Joined
        BY <1>0, <2>1, <3>1 DEF CallStep, Joined, Stages
      <3>3. AddressSet
        <4>1. ASSUME ~AddressSet PROVE call'.at # "succeeded"
          BY <1>12, <2>1, <3>2, <4>1 DEF CallStep, Calls, SocketFails, SocketMade, BindFails,
             Bound, JoinFails, AddressFails
        <4>. QED BY <4>1 DEF At
      <3>. QED BY <3>3 DEF AddressSet, inet_addr
    <2>2. CASE OpenProbed \/ OpenLive
      BY <2>2 DEF OpenProbed, OpenLive, Enter, At
    <2>. QED BY <2>1, <2>2 DEF StartProbe, StartLive, Connect, Probing, ProbeSession,
                Connected, ReceiveOnly, Opened
  <1>10. /\ pc' = "receive" => Listens
         /\ pc' = "transfer" => Downloads
    <2>1. CASE Opened
      <3>1. options.decode_file_path = ""
        BY <2>1 DEF Opened, Earning, Working
      <3>. QED BY <2>1, <3>1 DEF Opened, Listens, Downloads
    <2>. QED BY <2>1 DEF StartProbe, StartLive, CallStep, Probing, ProbeSession, OpenProbed,
                Connected, ReceiveOnly, OpenLive, Connect
  <1>11. pc' \notin {"decode", "dispatch"}
    BY <1>1 DEF Working
  <1>. QED BY <1>1, <1>2, <1>3, <1>4, <1>5, <1>6, <1>7, <1>8, <1>9, <1>10, <1>11
           DEF Earning

\* The returns with success, and those that report a failure.
LEMMA EndEarned ==
  ASSUME IInv, Earning,
         \/ Help \/ Malformed \/ LoadFails \/ DecodeEnds \/ NothingToAsk \/ ConnectFails
         \/ NoRecovery \/ OpenFails \/ LiveStops \/ GapFillStops \/ TransferEnds
  PROVE  Earning'
  <1>1. CASE Help
    BY <1>1, ReturnEarned DEF Help
  <1>2. CASE Malformed \/ LoadFails \/ NothingToAsk \/ ConnectFails \/ NoRecovery \/ OpenFails
    <2>1. PICK objects : Return(1, objects)
      BY <1>2 DEF Malformed, LoadFails, NothingToAsk, ConnectFails, NoRecovery, OpenFails
    <2>2. 1 \in {0, 1} /\ 1 # 0
      OBVIOUS
    <2>. QED BY <2>1, <2>2, ReturnEarned
  <1>3. CASE DecodeEnds
    <2>1. options.decode_file_path # "" /\ \E status \in {0, 1} : Return(status, {})
      BY <1>3 DEF DecodeEnds, Earning
    <2>. QED BY <2>1, ReturnEarned
  <1>4. CASE LiveStops \/ GapFillStops \/ TransferEnds
    <2>1. Workable
      <3>1. cfg # NoConfig /\ inet_addr(cfg.mcast_ip) \in Groups
        BY <1>4 DEF LiveStops, GapFillStops, TransferEnds, Earning, Working
      <3>2. CASE TransferEnds
        <4>1. /\ options.has_start_seq /\ RerequesterGiven
              /\ cfg.mcast_rerequester_ip \in Addresses
          BY <3>2 DEF TransferEnds, Earning, Working, Downloads
        <4>. QED BY <3>1, <4>1 DEF Workable
      <3>3. CASE LiveStops \/ GapFillStops
        <4>1. /\ ~options.has_start_seq /\ options.max_messages # 0
              /\ rr_open <=> options.enable_recovery
          BY <3>3 DEF LiveStops, GapFillStops, Earning, Listens, IInv, ReadyToReceive
        <4>2. rr_open => RerequesterGiven /\ cfg.mcast_rerequester_ip \in Addresses
          BY <3>3 DEF LiveStops, GapFillStops, Earning, Working
        <4>. QED BY <3>1, <4>1, <4>2 DEF Workable
      <3>. QED BY <1>4, <3>2, <3>3
    <2>2. \E status \in {0, 1}, objects \in SUBSET Objects : Return(status, objects)
      BY <1>4 DEF LiveStops, GapFillStops, TransferEnds, Objects
    <2>. QED BY <2>1, <2>2, ReturnEarned
  <1>. QED BY <1>1, <1>2, <1>3, <1>4

\* The destructors, and a step that changes nothing.
LEMMA LastEarned ==
  ASSUME Earning, Leave \/ UNCHANGED vars
  PROVE  Earning'
  <1>1. /\ UNCHANGED <<args, next, options, cfg, exit, rr_open, call>>
        /\ pc' = pc \/ pc' = "exited"
    BY DEF Leave, vars, commandLine, sockets
  <1>2. SuccessEarned' /\ (Listens' <=> Listens) /\ (Downloads' <=> Downloads)
        /\ (RerequesterGiven' <=> RerequesterGiven)
        /\ (inet_addr(cfg'.mcast_ip) \in Groups <=> inet_addr(cfg.mcast_ip) \in Groups)
    BY <1>1, SameGrounds DEF Earning
  <1>. QED BY <1>1, <1>2 DEF Earning, At, Working

\* Every step keeps what SuccessEarned rests on.
LEMMA NextEarning == IInv /\ Earning /\ [Next]_vars => Earning'
  BY EarlyEarned, ModeEarned, EndEarned, LastEarned DEF Next, Receiving, Terminated

(***************************************************************************)
(* The command line in what runs.                                          *)
(***************************************************************************)

\* One option more has been read: it is the last of its name, and nothing is
\* new about the others.
LEMMA GivenGrows ==
  ASSUME args \in CommandLines, next \in 0..Len(args), NEW name, ReadOption
  PROVE  /\ name = Current.opt =>
              /\ Given(name)' = Given(name) \cup {next + 1}
              /\ LastGiven(name)' = Current
         /\ name # Current.opt =>
              Given(name)' = Given(name) /\ LastGiven(name)' = LastGiven(name)
  <1>0. args \in Seq(Option)
    BY CommandLineAssumption
  <1>1. next \in Nat
    <2>1. Len(args) \in Nat
      BY <1>0
    <2>. QED BY <2>1
  <1>2. next' = next + 1 /\ args' = args
    BY DEF ReadOption, ReadType, ReadConfigPath, ReadDecodeFile, ReadStartSeq,
        ReadMaxMessages, ReadRecovery, ReadVerbose, Reads
  <1>3. 1..next' = (1..next) \cup {next + 1}
    BY <1>1, <1>2
  <1>4. CASE name = Current.opt
    <2>1. Given(name)' = Given(name) \cup {next + 1}
      BY <1>2, <1>3, <1>4 DEF Given, Current
    <2>2. \A m \in Given(name)' : m <= next + 1
      BY <1>1, <1>2 DEF Given
    <2>3. ASSUME NEW n \in Given(name)', \A m \in Given(name)' : m <= n
          PROVE  n = next + 1
      <3>1. n \in 1..(next + 1) /\ next + 1 <= n
        BY <1>2, <2>1, <2>3 DEF Given
      <3>. QED BY <1>1, <3>1
    <2>4. (CHOOSE n \in Given(name)' : \A m \in Given(name)' : m <= n) = next + 1
      BY <2>1, <2>2, <2>3
    <2>5. LastGiven(name)' = args[next + 1]
      BY <1>2, <2>4 DEF LastGiven
    <2>. QED BY <1>4, <2>1, <2>5 DEF Current
  <1>5. CASE name # Current.opt
    <2>1. Given(name)' = Given(name)
      BY <1>2, <1>3, <1>5 DEF Given, Current
    <2>. QED BY <1>2, <1>5, <2>1 DEF LastGiven
  <1>. QED BY <1>4, <1>5

\* At the start nothing is asked.
LEMMA InitAsked == Init => Asked
  <1>. SUFFICES ASSUME Init PROVE Asked
    OBVIOUS
  <1>1. next = 0
    BY DEF Init, CommandLineInit
  <1>2. \A name : Given(name) = {}
    BY <1>1 DEF Given
  <1>. QED BY <1>2 DEF Init, CommandLineInit, Asked

\* The parts of Asked.
TypesAsked == options.type_allowed = {args[n].arg : n \in Given("type")}

RecoveryAsked == options.enable_recovery <=> Given("g") # {}

StartAsked ==
  /\ options.has_start_seq <=> Given("s") # {}
  /\ Given("s") # {} => options.start_seq = strtoull(LastGiven("s").number)

PathAsked == options.decode_file_path = "" <=> \A n \in Given("d") : args[n].arg = ""

LimitAsked ==
  options.max_messages =
    IF Given("n") = {} THEN 0 ELSE strtoull(LastGiven("n").number)

LEMMA AskedParts ==
  Asked <=> TypesAsked /\ RecoveryAsked /\ StartAsked /\ PathAsked /\ LimitAsked
  BY Zenon DEF Asked, TypesAsked, RecoveryAsked, StartAsked, PathAsked, LimitAsked

LEMMA AskedPartsNext ==
  Asked' <=> (TypesAsked' /\ RecoveryAsked' /\ StartAsked' /\ PathAsked' /\ LimitAsked')
  BY AskedParts, PTL

\* An option that is not the one it is about leaves each of them alone.
LEMMA PartsKept ==
  ASSUME Asked, args' = args
  PROVE  /\ /\ Given("type")' = Given("type")
            /\ options'.type_allowed = options.type_allowed
            => TypesAsked'
         /\ /\ Given("g")' = Given("g")
            /\ options'.enable_recovery = options.enable_recovery
            => RecoveryAsked'
         /\ /\ Given("s")' = Given("s") /\ LastGiven("s")' = LastGiven("s")
            /\ options'.has_start_seq = options.has_start_seq
            /\ options'.start_seq = options.start_seq
            => StartAsked'
         /\ /\ Given("d")' = Given("d")
            /\ options'.decode_file_path = options.decode_file_path
            => PathAsked'
         /\ /\ Given("n")' = Given("n") /\ LastGiven("n")' = LastGiven("n")
            /\ options'.max_messages = options.max_messages
            => LimitAsked'
  <1>1. TypesAsked /\ RecoveryAsked /\ StartAsked /\ PathAsked /\ LimitAsked
    BY AskedParts
  <1>2. /\ Given("type")' = Given("type")
        /\ options'.type_allowed = options.type_allowed
        => TypesAsked'
    BY <1>1 DEF TypesAsked
  <1>3. /\ Given("g")' = Given("g")
        /\ options'.enable_recovery = options.enable_recovery
        => RecoveryAsked'
    BY <1>1 DEF RecoveryAsked
  <1>4. /\ Given("s")' = Given("s") /\ LastGiven("s")' = LastGiven("s")
        /\ options'.has_start_seq = options.has_start_seq
        /\ options'.start_seq = options.start_seq
        => StartAsked'
    BY <1>1 DEF StartAsked
  <1>5. /\ Given("d")' = Given("d")
        /\ options'.decode_file_path = options.decode_file_path
        => PathAsked'
    BY <1>1 DEF PathAsked
  <1>6. /\ Given("n")' = Given("n") /\ LastGiven("n")' = LastGiven("n")
        /\ options'.max_messages = options.max_messages
        => LimitAsked'
    BY <1>1 DEF LimitAsked
  <1>. QED BY <1>2, <1>3, <1>4, <1>5, <1>6

\* Each option leaves its own mark.
LEMMA OptionAsked ==
  ASSUME IInv, Asked, ReadOption
  PROVE  Asked'
  <1>0. /\ args \in CommandLines /\ next \in 0..Len(args) /\ options \in Options
        /\ args' = args
    BY OptionsType DEF IInv, TypeOK
  <1>1. /\ args[next + 1] = Current
        /\ Current.opt \in {"type", "c", "d", "s", "n", "g", "v"}
    BY DEF Current, ReadOption, ReadType, ReadConfigPath, ReadDecodeFile, ReadStartSeq,
           ReadMaxMessages, ReadRecovery, ReadVerbose, Reads
  <1>2. ASSUME NEW name, name = Current.opt
        PROVE  /\ Given(name)' = Given(name) \cup {next + 1}
               /\ LastGiven(name)' = Current
    BY <1>0, <1>2, GivenGrows
  <1>3. ASSUME NEW name, name # Current.opt
        PROVE  Given(name)' = Given(name) /\ LastGiven(name)' = LastGiven(name)
    BY <1>0, <1>3, GivenGrows
  <1>. DEFINE
         SameTypes == options'.type_allowed = options.type_allowed
         SameRecovery == options'.enable_recovery = options.enable_recovery
         SameStart == /\ options'.has_start_seq = options.has_start_seq
                      /\ options'.start_seq = options.start_seq
         SamePath == options'.decode_file_path = options.decode_file_path
         SameLimit == options'.max_messages = options.max_messages
  <1>4. /\ Current.opt # "type" /\ SameTypes => TypesAsked'
        /\ Current.opt # "g" /\ SameRecovery => RecoveryAsked'
        /\ Current.opt # "s" /\ SameStart => StartAsked'
        /\ Current.opt # "d" /\ SamePath => PathAsked'
        /\ Current.opt # "n" /\ SameLimit => LimitAsked'
    <2>1. Current.opt # "type" /\ SameTypes => TypesAsked'
      BY <1>0, <1>3, PartsKept
    <2>2. Current.opt # "g" /\ SameRecovery => RecoveryAsked'
      BY <1>0, <1>3, PartsKept
    <2>3. Current.opt # "s" /\ SameStart => StartAsked'
      BY <1>0, <1>3, PartsKept
    <2>4. Current.opt # "d" /\ SamePath => PathAsked'
      BY <1>0, <1>3, PartsKept
    <2>5. Current.opt # "n" /\ SameLimit => LimitAsked'
      BY <1>0, <1>3, PartsKept
    <2>. QED BY <2>1, <2>2, <2>3, <2>4, <2>5
  <1>5. CASE ReadType
    <2>1. Current.opt = "type"
      BY <1>5 DEF ReadType, Reads
    <2>2. /\ options'.type_allowed = options.type_allowed \cup {Current.arg}
          /\ SameRecovery /\ SameStart /\ SamePath /\ SameLimit
      BY <1>0, <1>5 DEF ReadType, Options
    <2>3. {args'[n].arg : n \in Given("type")'}
            = {args[n].arg : n \in Given("type")} \cup {Current.arg}
      BY <1>0, <1>1, <1>2, <2>1
    <2>4. TypesAsked
      BY AskedParts
    <2>5. TypesAsked'
      BY <2>2, <2>3, <2>4 DEF TypesAsked
    <2>. QED BY <1>4, <2>1, <2>2, <2>5, AskedPartsNext
  <1>6. CASE ReadConfigPath
    <2>1. Current.opt = "c"
      BY <1>6 DEF ReadConfigPath, Reads
    <2>2. SameTypes /\ SameRecovery /\ SameStart /\ SamePath /\ SameLimit
      BY <1>0, <1>6 DEF ReadConfigPath, Options
    <2>. QED BY <1>4, <2>1, <2>2, AskedPartsNext
  <1>7. CASE ReadDecodeFile
    <2>1. Current.opt = "d"
      BY <1>7 DEF ReadDecodeFile, Reads
    <2>2. /\ options'.decode_file_path =
               IF Current.arg = "" THEN options.decode_file_path ELSE Current.arg
          /\ SameTypes /\ SameRecovery /\ SameStart /\ SameLimit
      BY <1>0, <1>7 DEF ReadDecodeFile, Options
    <2>3. (\A n \in Given("d")' : args'[n].arg = "")
            <=> (\A n \in Given("d") : args[n].arg = "") /\ Current.arg = ""
      BY <1>0, <1>1, <1>2, <2>1
    <2>4. PathAsked
      BY AskedParts
    <2>5. PathAsked'
      BY <2>2, <2>3, <2>4 DEF PathAsked
    <2>. QED BY <1>4, <2>1, <2>2, <2>5, AskedPartsNext
  <1>8. CASE ReadStartSeq
    <2>1. Current.opt = "s"
      BY <1>8 DEF ReadStartSeq, Reads
    <2>2. /\ options'.has_start_seq = TRUE
          /\ options'.start_seq = strtoull(Current.number)
          /\ SameTypes /\ SameRecovery /\ SamePath /\ SameLimit
      BY <1>0, <1>8 DEF ReadStartSeq, Options
    <2>3. Given("s")' # {} /\ LastGiven("s")' = Current
      BY <1>2, <2>1
    <2>4. StartAsked'
      BY <2>2, <2>3 DEF StartAsked
    <2>. QED BY <1>4, <2>1, <2>2, <2>4, AskedPartsNext
  <1>9. CASE ReadMaxMessages
    <2>1. Current.opt = "n"
      BY <1>9 DEF ReadMaxMessages, Reads
    <2>2. /\ options'.max_messages = strtoull(Current.number)
          /\ SameTypes /\ SameRecovery /\ SameStart /\ SamePath
      BY <1>0, <1>9 DEF ReadMaxMessages, Options
    <2>3. Given("n")' # {} /\ LastGiven("n")' = Current
      BY <1>2, <2>1
    <2>4. LimitAsked'
      BY <2>2, <2>3 DEF LimitAsked
    <2>. QED BY <1>4, <2>1, <2>2, <2>4, AskedPartsNext
  <1>10. CASE ReadRecovery
    <2>1. Current.opt = "g"
      BY <1>10 DEF ReadRecovery, Reads
    <2>2. /\ options'.enable_recovery = TRUE
          /\ SameTypes /\ SameStart /\ SamePath /\ SameLimit
      BY <1>0, <1>10 DEF ReadRecovery, Options
    <2>3. Given("g")' # {}
      BY <1>2, <2>1
    <2>4. RecoveryAsked'
      BY <2>2, <2>3 DEF RecoveryAsked
    <2>. QED BY <1>4, <2>1, <2>2, <2>4, AskedPartsNext
  <1>11. CASE ReadVerbose
    <2>1. Current.opt = "v"
      BY <1>11 DEF ReadVerbose, Reads
    <2>2. SameTypes /\ SameRecovery /\ SameStart /\ SamePath /\ SameLimit
      BY <1>0, <1>11 DEF ReadVerbose, Options
    <2>. QED BY <1>4, <2>1, <2>2, AskedPartsNext
  <1>. QED BY <1>5, <1>6, <1>7, <1>8, <1>9, <1>10, <1>11 DEF ReadOption

\* Nothing else touches the options.
LEMMA NextAsked == IInv /\ Asked /\ [Next]_vars => Asked'
  <1>. SUFFICES ASSUME IInv, Asked, [Next]_vars PROVE Asked'
    OBVIOUS
  <1>1. CASE ParseOption
    BY <1>1, OptionAsked DEF ParseOption
  <1>2. CASE UNCHANGED commandLine
    <2>1. UNCHANGED <<args, next, options>>
      BY <1>2 DEF commandLine
    <2>2. ASSUME NEW name
          PROVE  Given(name)' = Given(name) /\ LastGiven(name)' = LastGiven(name)
      BY <2>1 DEF Given, LastGiven
    <2>3. /\ Given("type")' = Given("type")
          /\ Given("g")' = Given("g")
          /\ Given("d")' = Given("d")
          /\ Given("s")' = Given("s") /\ LastGiven("s")' = LastGiven("s")
          /\ Given("n")' = Given("n") /\ LastGiven("n")' = LastGiven("n")
      BY <2>2
    <2>4. options'.decode_file_path = "" <=> \A n \in Given("d")' : args'[n].arg = ""
      BY <2>1, <2>3 DEF Asked
    <2>5. options'.type_allowed = {args'[n].arg : n \in Given("type")'}
      BY <2>1, <2>3 DEF Asked
    <2>6. /\ options'.enable_recovery <=> Given("g")' # {}
          /\ options'.has_start_seq <=> Given("s")' # {}
      BY <2>1, <2>3 DEF Asked
    <2>7. Given("s")' # {} => options'.start_seq = strtoull(LastGiven("s")'.number)
      BY <2>1, <2>3 DEF Asked
    <2>8. options'.max_messages =
            IF Given("n")' = {} THEN 0 ELSE strtoull(LastGiven("n")'.number)
      BY <2>1, <2>3 DEF Asked
    <2>. QED BY <2>4, <2>5, <2>6, <2>7, <2>8, Zenon DEF Asked
  <1>3. ParseOption \/ UNCHANGED commandLine
    BY DEF Next, vars, Help, Malformed, EndOfOptions, LoadFails, LoadThrows, LoadConfig,
           StartDecode, DecodeEnds, NothingToAsk, StartProbe, StartLive, Connect, CallStep,
           ConnectFails, Probing, ProbeSession, OpenProbed, Connected, ReceiveOnly,
           NoRecovery, OpenLive, OpenFails, Opened, Receiving, LiveStops, GapFillStops,
           TransferEnds, Leave, Terminated, Return
  <1>. QED BY <1>1, <1>2, <1>3

\* A number of the word is taken as it is.
LEMMA StrtoullExact ==
  ASSUME NEW v \in 0..(Word - 1)
  PROVE  strtoull(v) = v
  <1>1. Word \in Nat \ {0}
    BY CommandLineAssumption
  <1>2. v % Word = v
    BY <1>1
  <1>. QED BY <1>1, <1>2 DEF strtoull

(***************************************************************************)
(* The theorems.                                                           *)
(***************************************************************************)

\* Every step keeps the invariant.
LEMMA NextIInv == IInv /\ [Next]_vars => IInv'
  <1>. SUFFICES ASSUME IInv, [Next]_vars PROVE IInv'
    OBVIOUS
  <1>1. ASSUME CallStep PROVE IInv'
    BY <1>1, FailureKeeps, SocketKeeps, BindKeeps, JoinKeeps, AddressKeeps
    DEF CallStep, Calls
  <1>2. ASSUME Help \/ Malformed \/ LoadFails \/ DecodeEnds \/ NothingToAsk \/ ConnectFails
        PROVE  IInv'
    <2>1. \E status \in {0, 1} : Return(status, {})
      BY <1>2 DEF Help, Malformed, LoadFails, DecodeEnds, NothingToAsk, ConnectFails
    <2>. QED BY <2>1, ReturnKeeps
  <1>3. ASSUME NoRecovery \/ OpenFails \/ LiveStops \/ GapFillStops \/ TransferEnds
        PROVE  IInv'
    <2>1. \E status \in {0, 1}, objects \in SUBSET Objects : Return(status, objects)
      BY <1>3 DEF NoRecovery, OpenFails, LiveStops, GapFillStops, TransferEnds, Objects
    <2>. QED BY <2>1, ReturnKeeps
  <1>4. ASSUME UNCHANGED vars PROVE IInv'
    <2>. USE <1>4 DEF vars, commandLine, sockets
    <2>1. TypeOK' /\ Owned'
      BY DEF IInv, TypeOK, Owned
    <2>2. Scoped'
      BY DEF IInv, Scoped, Listens, Downloads
    <2>3. /\ \A o \in Objects : Receiver(o)' <=> Receiver(o)
          /\ Requester' <=> Requester
          /\ Listens' <=> Listens
      BY DEF Receiver, Requester, inet_addr, Listens
    <2>4. "probe" \in Objects /\ "sock" \in Objects
      BY DEF Objects
    <2>5. Waiting' /\ ReadyToReceive'
      BY <2>3, <2>4 DEF IInv, Waiting, ReadyToReceive
    <2>6. Stages'
      <3>1. ASSUME pc \in {"connect", "open"} PROVE call.object \in Objects
        BY <3>1 DEF IInv, Scoped, Objects
      <3>. QED BY <2>3, <3>1 DEF IInv, Stages, At
    <2>. QED BY <2>1, <2>2, <2>5, <2>6 DEF IInv
  <1>. QED BY <1>1, <1>2, <1>3, <1>4, EarlyKeeps, ArrivalKeeps, EnterKeeps, ProbeKeeps,
              LeaveKeeps DEF Next, Receiving, Terminated

\* The invariant holds throughout.
THEOREM Invariance == Spec => []IInv
  BY InitIInv, NextIInv, PTL DEF Spec

\* The start keeps its types, whatever the options and the configuration are.
THEOREM TypeCorrect == Spec => []TypeOK
  <1>1. IInv => TypeOK
    BY DEF IInv
  <1>. QED BY <1>1, Invariance, PTL

\* No path through the modes, and no failure of a system call on it, leaks a
\* descriptor or lets an object name one that is not its own.
THEOREM SocketsOwned == Spec => []Owned
  <1>1. IInv => Owned
    BY DEF IInv
  <1>. QED BY <1>1, Invariance, PTL

\* Once the program has ended, whichever way it went, no descriptor is open.
THEOREM NothingLeftOpen ==
  Spec => [](pc \in {"exited", "terminated"} => \A d \in Descriptors : ~kernel[d].open)
  <1>1. IInv => (pc \in {"exited", "terminated"} => \A d \in Descriptors : ~kernel[d].open)
    <2>. SUFFICES ASSUME IInv, pc \in {"exited", "terminated"}, NEW d \in Descriptors
                  PROVE  ~kernel[d].open
      OBVIOUS
    <2>1. scope = {}
      BY DEF IInv, Scoped
    <2>2. d # None
      BY NoneFree
    <2>3. \A o \in Objects : fd[o] = None
      BY <2>1 DEF IInv, Owned
    <2>. QED BY <2>2, <2>3 DEF IInv, Owned
  <1>. QED BY <1>1, Invariance, PTL

\* Each loop that waits on sockets begins with those it needs and no other.
THEOREM LoopsReady == Spec => []ReadyToReceive
  <1>1. IInv => ReadyToReceive
    BY DEF IInv
  <1>. QED BY <1>1, Invariance, PTL

\* The program reports success only where it has worked with what it was given.
THEOREM SuccessIsEarned == Spec => []SuccessEarned
  <1>1. Earning => SuccessEarned
    BY DEF Earning
  <1>. QED BY <1>1, InitEarning, NextEarning, Invariance, PTL DEF Spec
\* What runs is what the command line asks for, however its options are
\* ordered and repeated.
THEOREM RunsAsAsked == Spec => []AsAsked
  <1>1. IInv /\ Earning /\ Asked => AsAsked
    <2>. SUFFICES ASSUME IInv, Earning, Asked PROVE AsAsked
      OBVIOUS
    <2>1. /\ pc = "decode" => options.decode_file_path # ""
          /\ pc \in {"probe", "transfer"} => Downloads
          /\ pc = "receive" => Listens /\ (rr_open <=> options.enable_recovery)
      BY DEF Earning, IInv, Scoped, ReadyToReceive
    <2>2. /\ pc = "decode" => \E n \in Given("d") : args[n].arg # ""
          /\ pc \in {"probe", "transfer"} => Given("s") # {}
          /\ pc = "receive" =>
               /\ Given("s") = {}
               /\ options.enable_recovery <=> Given("g") # {}
          /\ pc \in {"probe", "transfer", "receive"} =>
               \A n \in Given("d") : args[n].arg = ""
      BY <2>1 DEF Asked, Downloads, Listens
    <2>3. Given("s") # {} /\ LastGiven("s").number \in 0..(Word - 1) =>
            options.start_seq = LastGiven("s").number
      BY StrtoullExact DEF Asked
    <2>4. IF Given("n") = {} THEN options.max_messages = 0
          ELSE LastGiven("n").number \in 0..(Word - 1) =>
                 options.max_messages = LastGiven("n").number
      BY StrtoullExact DEF Asked
    <2>. QED BY <2>2, <2>3, <2>4 DEF AsAsked, Asked
  <1>. QED BY <1>1, InitAsked, NextAsked, InitEarning, NextEarning, Invariance, PTL DEF Spec
=============================================================================
