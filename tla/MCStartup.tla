----------------------------- MODULE MCStartup -----------------------------
(***************************************************************************)
(* Small command lines and configurations for TLC.                         *)
(***************************************************************************)
EXTENDS Startup, SequencesExt

\* Numbers inside the word, at its end, and outside it in both directions.
SomeOptions ==
  [opt: {"type"}, arg: {"A", "P"}]
    \cup [opt: {"c", "d"}, arg: {"", "itch.bin"}]
    \cup [opt: {"s"}, number: {0, 5, 8, 16, -3, -20}]
    \cup [opt: {"n"}, number: {0, 2, 15}]
    \cup [opt: {"g", "v", "h", "malformed"}]

\* All of up to two options, and longer ones of those that choose the mode.
AllCommandLines ==
  SeqOf(SomeOptions, 2)
    \cup SeqOf([opt: {"d"}, arg: {"", "itch.bin"}]
                 \cup [opt: {"s", "n"}, number: {2, 9}] \cup [opt: {"g"}], 3)

\* The group of config/config.yaml is none: its first number is above 255.
AllConfigs ==
  [mcast_ip: {"239.1.1.1", "272.0.0.1"},
   mcast_source_ip: {"", "127.0.0.1", "publisher"},
   mcast_rerequester_ip: {"", "127.0.0.1", "rerequester"},
   mcast_rerequester_port: {0, 12003}]
=============================================================================
