----------------------------- MODULE YamlConfig -----------------------------
(***************************************************************************)
(* load_config: read_yaml turns the lines of a file into settings under    *)
(* dotted paths, with a stack of open sections; the settings that matter   *)
(* become an AppConfig, which is checked and then stored.  What load_spec  *)
(* does with the specification it names is in ItchDecode.                  *)
(***************************************************************************)
EXTENDS Integers, Sequences

CONSTANTS
  Names,        \* the parts of keys between dots
  Values,       \* what may stand behind the colon, stripped; "" is nothing
  Number,       \* what strtoul makes of a value; 0 if it has no digits
  AbsolutePaths,\* the values that begin with a slash
  ConfigDir,    \* the directory of the file; "" if its path has no slash
  Skipped,      \* a line that is blank, all comment, or without a colon
  NoConfig,     \* before load_config
  Files         \* the files to consider, as sequences of lines

PortWord == 65536

DefaultCount == 5000

\* A line with a colon, its comment cut off: leading spaces, key, value.
Entry == [indent: Nat, key: Seq(Names), value: Values]

\* The parts of an AppConfig that load_config fills from the file.
AppConfig ==
  [protocol_spec: [dir: {"", ConfigDir}, name: Values],
   next_sequence_number: Nat,
   mcast_ip: Values, mcast_port: 0..(PortWord - 1),
   interface_ip: Values, mcast_source_ip: Values,
   mcast_rerequester_ip: Values, mcast_rerequester_port: 0..(PortWord - 1),
   max_recovery_message_count: 0..(PortWord - 1)]

ASSUME YamlAssumption ==
  /\ "" \in Values
  /\ Number \in [Values -> Nat]
  /\ Number[""] = 0
  /\ Skipped \notin Entry
  /\ NoConfig \notin AppConfig
  /\ Files \subseteq Seq(Entry \cup {Skipped})

VARIABLES
  file,
  pc,           \* "open", "read", "load", "spec", "done" or "terminated"
  line,         \* how many lines have been read
  indent_stack, key_stack,
  open_lines,   \* history: the lines the entries of the stacks are from
  settings,     \* the FlatMap: from paths to values
  app_config,
  loaded        \* what load_config returns

stacks == <<indent_stack, key_stack, open_lines>>
vars == <<file, pc, line, stacks, settings, app_config, loaded>>

\* A path is the sequence of the parts between its dots.
Dotted(keys) ==
  LET joined[i \in 0..Len(keys)] ==
        IF i = 0 THEN <<>> ELSE joined[i - 1] \o keys[i]
  IN joined[Len(keys)]

Init ==
  /\ file \in Files
  /\ pc = "open"
  /\ line = 0
  /\ indent_stack = <<>>
  /\ key_stack = <<>>
  /\ open_lines = <<>>
  /\ settings = [p \in {} |-> ""]
  /\ app_config = NoConfig
  /\ loaded = FALSE

OpenFails ==
  /\ pc = "open"
  /\ pc' = "done"
  /\ UNCHANGED <<file, line, stacks, settings, app_config, loaded>>

Open ==
  /\ pc = "open"
  /\ pc' = "read"
  /\ UNCHANGED <<file, line, stacks, settings, app_config, loaded>>

\* Mutant: sections at the same indent stay open.
StaysOpenAtIndent(i, indent) == indent_stack[i] <= indent

\* The section at i of the stack is not popped by a line at this indent.
StaysOpen(i, indent) == indent_stack[i] < indent

\* Mutant: one section is popped at most.
LeftByOne(indent) ==
  LET n == Len(indent_stack) IN
  IF n > 0 /\ ~StaysOpen(n, indent) THEN n - 1 ELSE n

\* How many sections are left when those at this indent or deeper, from the
\* top down to the first that is not, are popped.
Left(indent) ==
  CHOOSE n \in 0..Len(indent_stack) :
    /\ n # 0 => StaysOpen(n, indent)
    /\ \A i \in (n + 1)..Len(indent_stack) : ~StaysOpen(i, indent)

Current == file[line + 1]

ReadSkipped ==
  /\ pc = "read" /\ line < Len(file)
  /\ Current = Skipped
  /\ line' = line + 1
  /\ UNCHANGED <<file, pc, stacks, settings, app_config, loaded>>

ReadSection ==
  /\ pc = "read" /\ line < Len(file)
  /\ Current # Skipped /\ Current.value = ""
  /\ LET n == Left(Current.indent) IN
       /\ indent_stack' = Append(SubSeq(indent_stack, 1, n), Current.indent)
       /\ key_stack' = Append(SubSeq(key_stack, 1, n), Current.key)
       /\ open_lines' = Append(SubSeq(open_lines, 1, n), line + 1)
  /\ line' = line + 1
  /\ UNCHANGED <<file, pc, settings, app_config, loaded>>

\* The path of a leaf, once the sections it is not in are closed.
ReadLeaf ==
  /\ pc = "read" /\ line < Len(file)
  /\ Current # Skipped /\ Current.value # ""
  /\ LET n == Left(Current.indent)
         path == Dotted(Append(SubSeq(key_stack, 1, n), Current.key))
     IN
       /\ indent_stack' = SubSeq(indent_stack, 1, n)
       /\ key_stack' = SubSeq(key_stack, 1, n)
       /\ open_lines' = SubSeq(open_lines, 1, n)
       /\ settings' = [p \in DOMAIN settings \cup {path} |->
                         IF p = path THEN Current.value ELSE settings[p]]
  /\ line' = line + 1
  /\ UNCHANGED <<file, pc, app_config, loaded>>

EndOfFile ==
  /\ pc = "read" /\ line = Len(file)
  /\ pc' = "load"
  /\ UNCHANGED <<file, line, stacks, settings, app_config, loaded>>

(***************************************************************************)
(* From the settings to the AppConfig.                                     *)
(***************************************************************************)

Setting(path) == IF path \in DOMAIN settings THEN settings[path] ELSE ""

Itch(section, key) == <<"itch_udp_settings", section, key>>

\* A name without a slash in front is looked for beside the configuration.
resolve_path(value) ==
  [dir |-> IF value = "" \/ value \in AbsolutePaths THEN "" ELSE ConfigDir,
   name |-> value]

\* Mutant: the number is not narrowed.
NotNarrowed(value) == Number[value]

\* Mutant: one less than there are 16-bit numbers.
NarrowedByMaximum(value) == Number[value] % (PortWord - 1)

Narrowed(value) == Number[value] % PortWord

\* Mutant: the default is chosen before the number is narrowed.
RecoveryCountEarly(value) ==
  IF Number[value] = 0 THEN DefaultCount ELSE Narrowed(value)

RecoveryCount(value) ==
  IF Narrowed(value) = 0 THEN DefaultCount ELSE Narrowed(value)

Configured ==
  [protocol_spec |-> resolve_path(Setting(<<"itch_udp_settings", "spec">>)),
   next_sequence_number |-> Number[Setting(Itch("realtime", "next_sequence_number"))],
   mcast_ip |-> Setting(Itch("realtime", "multicast_address")),
   mcast_port |-> Narrowed(Setting(Itch("realtime", "multicast_port"))),
   interface_ip |-> Setting(Itch("realtime", "interface")),
   mcast_source_ip |-> Setting(Itch("realtime", "source_address")),
   mcast_rerequester_ip |-> Setting(Itch("recovery", "rerequester_address")),
   mcast_rerequester_port |-> Narrowed(Setting(Itch("recovery", "rerequester_port"))),
   max_recovery_message_count |->
     RecoveryCount(Setting(Itch("recovery", "max_recovery_message_count")))]

Complete(c) ==
  /\ c.mcast_ip # ""
  /\ c.mcast_port # 0
  /\ c.interface_ip # ""
  /\ c.protocol_spec.name # ""

Refuse ==
  /\ pc = "load"
  /\ ~Complete(Configured)
  /\ pc' = "done"
  /\ UNCHANGED <<file, line, stacks, settings, app_config, loaded>>

Store ==
  /\ pc = "load"
  /\ Complete(Configured)
  /\ app_config' = Configured
  /\ pc' = "spec"
  /\ UNCHANGED <<file, line, stacks, settings, loaded>>

\* load_spec finds the file or does not; the configuration is stored by then.
LoadSpec ==
  /\ pc = "spec"
  /\ loaded' \in BOOLEAN
  /\ pc' = "done"
  /\ UNCHANGED <<file, line, stacks, settings, app_config>>

\* The file is not JSON, or not of the shape load_spec takes for granted: an
\* exception that nothing catches.
SpecThrows ==
  /\ pc = "spec"
  /\ pc' = "terminated"
  /\ UNCHANGED <<file, line, stacks, settings, app_config, loaded>>

Terminated == pc \in {"done", "terminated"} /\ UNCHANGED vars

Next ==
  \/ OpenFails \/ Open
  \/ ReadSkipped \/ ReadSection \/ ReadLeaf \/ EndOfFile
  \/ Refuse \/ Store \/ LoadSpec \/ SpecThrows
  \/ Terminated

Spec == Init /\ [][Next]_vars
-----------------------------------------------------------------------------
(***************************************************************************)
(* Properties.                                                             *)
(***************************************************************************)

\* The variables hold values of their C++ types.
TypeOK ==
  /\ file \in Files
  /\ pc \in {"open", "read", "load", "spec", "done", "terminated"}
  /\ line \in 0..Len(file)
  /\ indent_stack \in Seq(Nat)
  /\ key_stack \in Seq(Seq(Names))
  /\ open_lines \in Seq(Nat)
  /\ \A p \in DOMAIN settings : settings[p] \in Values
  /\ app_config \in AppConfig \cup {NoConfig}
  /\ loaded \in BOOLEAN

\* The section at line j is open after n lines: all that follows it is
\* indented deeper.
OpenAfter(j, n) ==
  /\ file[j] # Skipped /\ file[j].value = ""
  /\ \A k \in (j + 1)..n : file[k] # Skipped => file[k].indent > file[j].indent

\* The two stacks of read_yaml are one stack, and on it are exactly the
\* sections that are open where the file has been read to, outermost first:
\* none is popped too early and none stays (75-86).
StackOpen ==
  /\ Len(indent_stack) = Len(open_lines)
  /\ Len(key_stack) = Len(open_lines)
  /\ \A i \in 1..Len(open_lines) :
       /\ open_lines[i] \in 1..line
       /\ OpenAfter(open_lines[i], line)
       /\ indent_stack[i] = file[open_lines[i]].indent
       /\ key_stack[i] = file[open_lines[i]].key
  /\ \A i, j \in 1..Len(open_lines) : i < j => open_lines[i] < open_lines[j]
  /\ \A j \in 1..line :
       OpenAfter(j, line) => \E i \in 1..Len(open_lines) : open_lines[i] = j

\* A configuration that load_config stores is one the modes can work with: a
\* group and port to join, an interface, a specification, and a request size
\* that is not zero, also after the numbers were narrowed to 16 bits.
Usable ==
  app_config # NoConfig =>
    /\ app_config.mcast_ip # ""
    /\ app_config.interface_ip # ""
    /\ app_config.protocol_spec.name # ""
    /\ app_config.mcast_port \in 1..(PortWord - 1)
    /\ app_config.max_recovery_message_count \in 1..(PortWord - 1)

\* The inductive invariant: load_config returns true with a configuration.
IInv ==
  /\ TypeOK
  /\ StackOpen
  /\ Usable
  /\ pc = "spec" \/ loaded => app_config # NoConfig
=============================================================================
