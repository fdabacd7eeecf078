---------------------------- MODULE MCYamlConfig ----------------------------
(***************************************************************************)
(* Small files for TLC, and the shipped config.yaml with other values.     *)
(***************************************************************************)
EXTENDS YamlNesting

Line(indent, key, value) == [indent |-> indent, key |-> key, value |-> value]

Lines(keys, values) ==
  {Line(i, k, v) : i \in 0..2, k \in keys, v \in values} \cup {Skipped}

\* Sections and leaves at three depths, one key with a dot in it, values that
\* replace each other, and longer files of sections and leaves alone.
Nested ==
  SeqOf(Lines({<<"a">>, <<"b">>, <<"a", "b">>}, {"", "1", "2"}), 3)
    \cup SeqOf(Lines({<<"a">>, <<"b">>}, {"", "1"}), 4)
    \cup SeqOf(Lines({<<"a">>}, {"", "1"}), 5)

\* The lines of config/config.yaml.
Shipped(spec, address, port, interface, source, reply_port, count) ==
  <<Line(0, <<"itch_udp_settings">>, ""),
    Line(4, <<"spec">>, spec),
    Line(4, <<"realtime">>, ""),
    Line(6, <<"next_sequence_number">>, "0"),
    Line(6, <<"multicast_address">>, address),
    Line(6, <<"multicast_port">>, port),
    Line(6, <<"interface">>, interface),
    Line(6, <<"source_address">>, source),
    Line(4, <<"recovery">>, ""),
    Line(6, <<"rerequester_address">>, "127.0.0.1"),
    Line(6, <<"rerequester_port">>, reply_port),
    Line(6, <<"max_recovery_message_count">>, count)>>

Variants ==
  {Shipped(s, a, p, i, f, r, c) :
     s \in {"", "specs/XrossingMD.json", "/XrossingMD.json"},
     a \in {"", "239.1.1.1"},
     p \in {"", "12002", "65535", "65536", "65537"},
     i \in {"", "127.0.0.1"},
     f \in {"", "127.0.0.1"},
     r \in {"12003", "65536"},
     c \in {"", "5000", "65536"}}

AllFiles == Nested \cup Variants

AllNames ==
  {"a", "b", "itch_udp_settings", "realtime", "recovery", "spec",
   "next_sequence_number", "multicast_address", "multicast_port",
   "interface", "source_address", "rerequester_address", "rerequester_port",
   "max_recovery_message_count"}

AllNumbers ==
  [v \in {"", "1", "2", "0", "5000", "12002", "12003", "65535", "65536",
          "65537", "127.0.0.1", "239.1.1.1", "specs/XrossingMD.json",
          "/XrossingMD.json"} |->
     CASE v = "1" -> 1 [] v = "2" -> 2 [] v = "5000" -> 5000
       [] v = "12002" -> 12002 [] v = "12003" -> 12003
       [] v = "65535" -> 65535 [] v = "65536" -> 65536
       [] v = "65537" -> 65537 [] v = "127.0.0.1" -> 127
       [] v = "239.1.1.1" -> 239 [] OTHER -> 0]

AllValues == DOMAIN AllNumbers

Absolute == {"/XrossingMD.json"}
=============================================================================
