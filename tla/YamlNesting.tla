----------------------------- MODULE YamlNesting ----------------------------
(***************************************************************************)
(* What a configuration file says, without a stack: which sections a line  *)
(* is in, and the value a path has.                                        *)
(***************************************************************************)
EXTENDS YamlConfig, Listing, SequencesExt

Entries(n) == {i \in 1..n : file[i] # Skipped}

\* The line j opens a section that the line i is in: i is indented deeper,
\* and so is everything between them.
Encloses(j, i) ==
  /\ file[j].value = ""
  /\ \A k \in Entries(i) : k > j => file[k].indent > file[j].indent

Sections(i) == {j \in Entries(i - 1) : Encloses(j, i)}

PathOf(i) ==
  LET order == InOrder(Sections(i) \cup {i})
  IN FlattenSeq([k \in DOMAIN order |-> file[order[k]].key])

Leaves(n) == {i \in Entries(n) : file[i].value # ""}

\* What the first n lines say of a path: the last line counts.
Written(path, n) ==
  LET leaves == {i \in Leaves(n) : PathOf(i) = path}
  IN IF leaves = {} THEN "" ELSE file[Max(leaves)].value

\* read_yaml gives each leaf the path of the sections it is in, a line without
\* a value captures those indented below it and no others, and the last of
\* several lines with one path counts.
NestingRight ==
  pc = "read" =>
    /\ DOMAIN settings = {PathOf(i) : i \in Leaves(line)}
    /\ \A p \in DOMAIN settings : settings[p] = Written(p, line)

Says(section, key) == Written(Itch(section, key), Len(file))

SpecSaid == Written(<<"itch_udp_settings", "spec">>, Len(file))

\* What becomes of a number that is stored in 16 bits; of the count, where 0
\* stands for 5000; and when it is no port to join.
PortKept(number, port) == number <= 65535 => port = number

CountKept(number, count) ==
  /\ 1 <= number /\ number <= 65535 => count = number
  /\ number = 0 => count = 5000

NoPort(number) == number = 0 \/ number > 65535

\* From the lines of the file to the AppConfig: addresses are as written,
\* numbers too as far as 16 bits hold them, the specification lies beside the
\* file; and what is refused lacks something or has a port that 16 bits do
\* not hold.
LoadedAsWritten ==
  LET port == Number[Says("realtime", "multicast_port")]
      reply_port == Number[Says("recovery", "rerequester_port")]
      count == Number[Says("recovery", "max_recovery_message_count")]
  IN
  /\ app_config # NoConfig =>
       /\ app_config.mcast_ip = Says("realtime", "multicast_address")
       /\ app_config.interface_ip = Says("realtime", "interface")
       /\ app_config.mcast_source_ip = Says("realtime", "source_address")
       /\ app_config.mcast_rerequester_ip = Says("recovery", "rerequester_address")
       /\ PortKept(port, app_config.mcast_port)
       /\ PortKept(reply_port, app_config.mcast_rerequester_port)
       /\ CountKept(count, app_config.max_recovery_message_count)
       /\ app_config.protocol_spec.name = SpecSaid
  /\ pc = "done" /\ line = Len(file) /\ line > 0 /\ app_config = NoConfig =>
       \/ "" \in {Says("realtime", "multicast_address"),
                  Says("realtime", "interface"), SpecSaid}
       \/ NoPort(port)
-----------------------------------------------------------------------------
(***************************************************************************)
(* The invariants behind the two.                                          *)
(***************************************************************************)

\* At each moment the settings are what the lines read so far say.
Settled ==
  /\ DOMAIN settings = {PathOf(i) : i \in Leaves(line)}
  /\ \A p \in DOMAIN settings : settings[p] = Written(p, line)

\* A configuration is made, or refused, from the settings of the whole file.
Taken ==
  /\ pc = "open" => line = 0
  /\ pc \in {"load", "spec", "terminated"} => line = Len(file)
  /\ app_config # NoConfig =>
       /\ pc \in {"spec", "done", "terminated"}
       /\ line = Len(file)
       /\ app_config = Configured
  /\ pc = "done" /\ line > 0 /\ app_config = NoConfig => ~Complete(Configured)
=============================================================================
