---------------------------- MODULE CommandLine ----------------------------
(***************************************************************************)
(* The options of the receiver: the loop around getopt_long in main.cpp,   *)
(* and the setters of Application that it calls.  getopt_long hands out    *)
(* the options in their order; operands between them are never looked at.  *)
(***************************************************************************)
EXTENDS Integers, Sequences

CONSTANTS
  Word,           \* 2^64
  Characters,     \* arguments of --type
  Paths,          \* arguments of -c and -d; "" is an empty one
  CommandLines    \* the command lines to consider

DefaultPath == "config/config.yaml"

\* -s and -n take a number, of any length and with a sign.  "malformed" is what
\* is refused: an unknown option, one without its argument, a --type of other
\* than one character, a -s or -n that strtoull does not take to its end.
Option ==
  [opt: {"type"}, arg: Characters]
    \cup [opt: {"c", "d"}, arg: Paths]
    \cup [opt: {"s", "n"}, number: Int]
    \cup [opt: {"g", "v", "h", "malformed"}]

ASSUME CommandLineAssumption ==
  /\ Word \in Nat \ {0}
  /\ "" \in Paths /\ DefaultPath \in Paths
  /\ CommandLines \subseteq Seq(Option)

VARIABLES
  args, next,     \* the options, and how many of them have been read
  options         \* the members of Application

commandLine == <<args, next, options>>

Options ==
  [type_allowed: SUBSET Characters, config_path: Paths, decode_file_path: Paths,
   enable_recovery: BOOLEAN, has_start_seq: BOOLEAN, start_seq: 0..(Word - 1),
   max_messages: 0..(Word - 1), verbose: BOOLEAN]

CommandLineInit ==
  /\ args \in CommandLines
  /\ next = 0
  /\ options = [type_allowed |-> {}, config_path |-> DefaultPath,
                decode_file_path |-> "", enable_recovery |-> FALSE,
                has_start_seq |-> FALSE, start_seq |-> 0, max_messages |-> 0,
                verbose |-> FALSE]

Current == args[next + 1]

\* getopt_long returns the option of this name.
Reads(name) ==
  /\ next < Len(args)
  /\ Current.opt = name
  /\ next' = next + 1
  /\ UNCHANGED args

\* Mutant: the number is not brought into 64 bits.
Unbounded(v) == v

\* Mutant: the number passes through a signed one.
SignedNumber(v) ==
  IF v < Word \div 2 THEN v % Word ELSE Word \div 2 - 1

\* A number below zero is negated in 64 bits, one that is too large in either
\* direction becomes the largest; neither is refused.
strtoull(v) == IF -Word < v /\ v < Word THEN v % Word ELSE Word - 1

ReadType ==
  /\ Reads("type")
  /\ options' = [options EXCEPT !.type_allowed = @ \cup {Current.arg}]

\* An empty path leaves what was there.
ReadConfigPath ==
  /\ Reads("c")
  /\ options' = [options EXCEPT
       !.config_path = IF Current.arg = "" THEN @ ELSE Current.arg]

ReadDecodeFile ==
  /\ Reads("d")
  /\ options' = [options EXCEPT
       !.decode_file_path = IF Current.arg = "" THEN @ ELSE Current.arg]

ReadStartSeq ==
  /\ Reads("s")
  /\ options' = [options EXCEPT
       !.start_seq = strtoull(Current.number), !.has_start_seq = TRUE]

ReadMaxMessages ==
  /\ Reads("n")
  /\ options' = [options EXCEPT !.max_messages = strtoull(Current.number)]

ReadRecovery ==
  /\ Reads("g")
  /\ options' = [options EXCEPT !.enable_recovery = TRUE]

ReadVerbose ==
  /\ Reads("v")
  /\ options' = [options EXCEPT !.verbose = TRUE]

ReadOption ==
  \/ ReadType \/ ReadConfigPath \/ ReadDecodeFile
  \/ ReadStartSeq \/ ReadMaxMessages \/ ReadRecovery \/ ReadVerbose
=============================================================================
