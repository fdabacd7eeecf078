# A verification project for the MoldUDP64 receiver

The program (`src/`, C++) joins a multicast group that carries MoldUDP64
packets, prints every ITCH message in them, and, with `-g`, asks a
retransmission server ("rerequester") for the messages it missed. With `-s` it
downloads a range of messages from that server instead, and with `-d` it decodes
a file of packets. This directory models it in TLA+, checks the models with TLC,
and proves every safety property that TLC checks with TLAPS.

    tlc -workers 2 -config live_any.cfg MCLiveFeed     # any run of PROJECT.json
    tlapm LiveFeedProofs.tla                           # the proofs

Contents: [inventory](#inventory), [plan](#plan),
[what the models say](#what-the-models-say), [runs](#runs),
[fairness](#fairness), [proofs](#proofs), [findings](#findings),
[not modelled](#not-modelled).

## Inventory

The program is one thread with blocking sockets. Nothing in it runs
concurrently with itself; what makes it hard to test is everything around it:
two sockets with separate buffers, a network that loses, repeats and reorders,
and a server that may answer late, in part, or not at all.

| Component | State | Operations | Works with |
|---|---|---|---|
| **Live receive loop** `application.cpp` 505-630, `check_sequence_gap` 59-84 | `current_session`, `joined`, `expected_seq`, `decoded_count` | one iteration per datagram: drop it, adopt its session, decode it, skip it as a duplicate, or recover first | multicast socket, gap filling, packet walk |
| **Gap filling** `gap_fill` 175-245 | `current_seq`, `remaining`, and per request `req_count`, `got_in_chunk`, `timeouts`; reads `errno` | request a chunk, receive replies, end the chunk, give up | called by the live loop, calls the rerequester and the packet walk |
| **Download mode** 385-503 | as gap filling, and `total_received`, the exit status | the same loop with its own ending rules | session probe, rerequester, packet walk |
| **Session probe** `get_session_id` 87-127 | its own multicast socket | wait for the first header | before a download |
| **Packet walk** `parse_mold_header`, `next_mold_message` (`decoder.cpp` 85-132), `decode_packet_messages` (`application.cpp` 130-172) | `offset`, `remaining`, `index`, `processed`, and by reference `decoded_count`, `stop_now` | walk the blocks of one packet, filter, decode, count, stop at `-n` | every receive loop |
| **Rerequester** `recovery.cpp` | a descriptor, the server's address | open, send_request, receive_packet, close | gap filling, download |
| **Multicast socket** `socket.cpp` | a descriptor | connect_socket, receive_bytes, set_receive_buffer, close | live loop, probe |
| **Raw file decoder** `decode_file` 248-368 | `cursor`, `packet_count`, `decoded_count` | read a length prefix, check it, decode the packet | packet walk |
| **ITCH decoder** `decoder.cpp` 7-83, 134-187 | none | decode one message against its specification | packet walk, configuration |
| **Configuration** `yaml_config.cpp` | stacks of sections; `AppConfig` with the fields and offsets of each message type | `read_yaml`, `load_spec`, `load_config` | read once by `run` |
| **Command line, dispatch** `main.cpp`, `application.cpp` 14-57, 370-411, 505-546 | the options; the objects in scope; the exit status | parse, choose the mode, open and close its sockets | all modes |
| **Message specifications** `config/specs/*.json` | data | | read by `load_spec` |

Four behaviours are hard.

* *Ordering on the multicast.* A packet may be overtaken, repeated, or come
  again cut differently; packets of another session may interleave. `expected_seq`
  is rewritten in three places, one of them after a recovery that read many
  other datagrams meanwhile (574-620).
* *Replies.* They are counted, not matched: whatever arrives on the reply socket
  (late, repeated, of an earlier request) moves the position by the messages it
  holds (222, 234-241, 465, 489-498). The subtraction is of unsigned numbers.
* *Ending.* Timeouts, a stale `errno`, the give-up rule and the `-n` limit end
  loops that are nested in each other; the limit must get out of all of them
  (203-232, 447-487, 603-607, 622-625).
* *Getting there and out again.* Between the command line and a loop any of a dozen
  system calls may fail, in two classes that own descriptors and three functions
  that return from the middle; and what a file says is narrowed to 16 and 32 bits
  on its way to the loops.

What makes each component correct:

* live loop: with `-g` a stay in a session prints numbers in ascending order and
  none twice, whatever the network does; with a prompt server the recovered ones
  come in their place and nothing is missing;
* gap filling: it asks only for what is missing, and it always ends;
* download: its four counters agree, requests stay in the range asked for, it
  ends, and what it reports agrees with what it decoded; with a prompt server the
  output is exactly the range;
* limit: live packets and replies together stop the program exactly at `-n`;
* packet walk: whatever lengths the blocks announce, the walk stays in the datagram,
  what it prints depends on no byte behind it, and the blocks come in order with
  consecutive numbers;
* raw file: each packet before the first bad one is decoded, none after it, and
  the loop ends;
* sockets: on every path each descriptor opened is closed once, and a loop starts
  only with the sockets it relies on;
* command line: the mode and the numbers are those asked for, and status 0 is
  never a failure to start;
* configuration: the path of a leaf is that of the sections that enclose it, and
  what is stored has no zero where the modes divide their work by it;
* ITCH decoder: the fields printed are those the message holds whole, and a field
  that is as large as its type is read inside the message.

## Plan

The order is by what matters most to someone who relies on the output.

1. `MoldPacket`, `RerequestServer`: what a loop sees of a datagram, and what
   is assumed of the server. *Done.*
2. `LiveFeed` (live loop and gap filling) with the abstract `OrderedFeed`;
   runs `live_*`; proofs `LiveFeedProofs`. *Done.*
3. `Download` (probe and download loop); runs `download_*`; proofs
   `DownloadProofs`. *Done.*
4. `PacketWalk`, `decode_packet_messages` over the bytes of a packet, with the type
   filter, and `RawFile`, which calls it; `RawFormat`, what a file means; runs
   `raw_*`; proofs `RawFileProofs`. *Done.*
5. `YamlConfig`: the stack of sections and the conversions of `load_config`,
   against `YamlNesting`, which says what a file means without a stack; run
   `config_file`; proofs `YamlConfigProofs`. *Done.*
6. `ItchDecode`: `load_spec`'s offsets and `decode_itch_message`'s bounds
   against the width `print_field_value` really reads, and `ItchLayout`, what a
   specification says of a message; run `itch_decode`; proofs `ItchDecodeProofs`.
   *Done.*
7. `CommandLine` (the options) and `Sockets` (the life of the descriptors),
   composed by `Startup`, the program from its command line to a loop and from
   the loop to its exit; run `startup`; proofs `StartupProofs`. *Done.*
8. Proofs of what depends on data and on the replies under way: with the prompt
   server, `WholeInOrder`, `NothingMissed`, `Contiguous` and `DownloadComplete`; what a
   file, a configuration, a specification and a command line say (`FileDecoded`,
   `WalkMatches`, `NestingRight`, `LoadedAsWritten`, `SpecOfOwnEntry`, `PrintsWhatFits`,
   `AsAsked`), with `Induction` and `Listing`. *Done.*
9. Proofs of what liveness rests on: for `GapFillEnds`, `TransferEnds` and `FileDone`,
   a measure that every step of these loops makes smaller. *Left.*

## What the models say

**`MoldPacket`**, a datagram as `[kind, session, seq, count, fit]`: `count` is the
header's message count, `fit` the number of leading blocks that
`next_mold_message` can walk (fewer than `count` when the datagram is cut).
`Processed`, `Numbers`, `Tally` and `StopsAt` are what a call of
`decode_packet_messages` returns, prints, adds to `decoded_count` and leaves in
`stop_now`. The limit is tested after a message was counted, hence `Room`.
`EndCount` stands for 65535.

**`RerequestServer`** is external: no server is in the repository. A request is
answered by a sequence of datagrams read from the reply socket. With
`Server = "any"` that is any sequence of packets cut from the request's range,
mixed with heartbeats, runts, cut and empty datagrams, in any order, repeated or
missing, and late ones stay queued for the next request. With `"prompt"` the
packets are in order and none is late (no timeout while one is queued), but the
server may stop anywhere. `Full` says that it did not: `Position` is the number that
is due after each datagram, and it has come to `AnswerEnd`. Noise is datagrams that
carry nothing; for the prompt server none of it is empty, since a `recvfrom` of 0
counts as a second of silence.

**`LiveFeed`** starts where the loop of `run` does, with the sockets open. The
state is the code's locals (same names), `pc`, the global `errno`, the queue of
replies, and a history `out` of what was printed. A step runs from one socket
call to the next:

| Action | Code |
|---|---|
| `ReceiveError`, `ReceiveIgnored` | the `continue`s for errors, empty and short datagrams, end of session (549-572) |
| `ReceiveUntracked` | a packet without `-g` (610-625) |
| `ReceiveNewSession` | `check_sequence_gap` adopts session and number (63-74), then decode |
| `ReceiveExpected`, `SkipDuplicate` | 610-625 |
| `ReceiveAhead` | a gap (76-84, 579-584): the packet is kept in `header` |
| `SendRequest`, `SendRequestFails` | 190-201 |
| `ReceiveTimeout`, `ReceiveFails`, `ReceiveEmptyReply` | the test on `errno` (205-215) after a receive of -1 or 0 |
| `ReceiveReply` | 217-228, and the end of the chunk when it is full (230-241) |
| `Resume` | back in the loop: the packet that revealed the gap is decoded (610-625) |

`recvfrom` returning 0 leaves `errno` as it was, so `ReceiveEmptyReply` reads a
value of some earlier call: a variable, not a choice. On the multicast socket an
error is never `EAGAIN`, as that socket has no timeout. The options `-g` and `-n`
are variables that `Init` chooses and nothing changes, so that one run covers
all modes.

**`OrderedFeed`** is the promise to the reader of the output: within a stay,
numbers only go up. `LiveFeed` implements it twice: on what was printed from the
multicast, for any server (`LiveInOrder`), and on everything printed, for a
prompt one (`WholeInOrder`). The refinement mapping takes `next` to be
`expected_seq`, and in the second case `current_seq + got_in_chunk` while a gap
is being filled.

**`Download`** has the probe, its failures, and the loop with its own rules at
the end of a chunk: `GiveUp` (473-487) and `TakeChunk` (489-498). `exit` is what
`run` returns.

**`PacketWalk`** has one call of `decode_packet_messages`: `Call`, then one
`WalkMessage` per block, over the bytes of a packet's body as
`next_mold_message` reads them (`MessageFollows` is when it returns true), with
`--type` (`Shows`) and the limit. `read` is a history: one behind the last byte of the
buffer that has been read, by `next_mold_message`, by the filter or by
`decode_itch_message` for the type (the fields behind it are in `ItchDecode`). The filter
looks at the first byte of a message (156) before its length is looked at
(`decoder.cpp` 138), so for an empty block it takes a byte of the next one or, when
the block ends the packet, one that is behind the packet. `Found` is what may be there:
a byte of an earlier datagram, of the next frame, or, behind `file_bytes` when the packet ends
the file, anything; one of all values is chosen. **`RawFile`** is `decode_file` around it:
a file is what its bytes say at each offset the loop may come to, `FrameFits` the
three tests that lead to a `break`. **`RawFormat`** says from the writer's side which
blocks a packet holds (`Carries`: the body begins with the encoding of these
lengths) and which messages a file does: a set, each message with its place, and
`ByPlace` of `Listing` puts it in order. `WalkMatches` ties the byte-level walk to
the one-step operators of `MoldPacket` that the network modes use.

**`YamlConfig`** is `load_config`. A line of the file is skipped or an `Entry`, its
leading spaces, its key (a sequence of the parts between dots, since a key may
hold dots itself) and its value, stripped. `open_lines` is a history beside the two
stacks: the line each section on them is from.

| Action | Code (`yaml_config.cpp`) |
|---|---|
| `OpenFails`, `Open` | 46-54, 195-198 |
| `ReadSkipped` | the `continue`s for blank lines and those without a colon (57-77) |
| `ReadSection` | pop (`Left`, 82-86), push (88-93) |
| `ReadLeaf` | pop, the dotted path, the map (95-102) |
| `Refuse`, `Store` | the conversions (`Configured`, 200-220), the four checks, 239 |
| `LoadSpec`, `SpecThrows` | 240-245; an exception of the JSON library, or one of its assertions, which ends the program |

`Store` comes before `LoadSpec`: when `load_spec` fails the configuration is in place
all the same, and only the `false` it returns keeps the program from using it.

**`YamlNesting`** says what a file means from its lines alone: which lines enclose
a line (a set, which `InOrder` of `Listing` puts in order), the path that gives it, and
that the last line with a path counts.

**`ItchDecode`** has `load_spec` (one `LoadField` per field, one `LoadEntry` or
`SkipEntry` per key) and then one call of `decode_itch_message`: `DecodeEmpty`,
`DecodeUnknown` or `DecodeKnown`, and a `PrintField` or `TruncField` per field.
`Size` and the sums wrap at `SizeWord` (2^32), the length that is compared at
`LengthWord` (2^16). `Width` is how far `print_field_value` reads: by the type for
numbers, by the size for the others, and without an end for a string whose size is
below zero as an `int`. `reads` remembers it. **`ItchLayout`** gives what
a specification says without a running offset: the layout by the sums of its sizes.

**`CommandLine`** has the members of `Application` and one action per option.
`getopt_long` is taken to hand out the options in their order; whatever it or `main`
refuses is one option, `malformed`. `strtoull` does not refuse a sign or a number
that is too large. **`Sockets`** has `connect_socket` and `open` as one machine,
as they are the same steps (socket, options, bind) up to their ends (join a group,
prepare an address): one action for each system call, its success and its failure,
each of which happens to either object. `kernel` is what is behind each
descriptor, `fd` the member of each object. A descriptor is the lowest that is
free; with none free `socket` fails. **`Startup`** composes them:

| Action | Code |
|---|---|
| `ParseOption`, `Help`, `Malformed`, `EndOfOptions` | `main.cpp` 46-119 |
| `LoadFails`, `LoadThrows`, `LoadConfig` | `application.cpp` 371-376; `YamlConfig` in one step |
| `StartDecode`, `NothingToAsk`, `StartProbe`, `StartLive` | the choice of the mode (378-394, 505-507) |
| `CallStep` | a step inside `connect_socket` or `open` |
| `ConnectFails`, `Probing`, `ProbeSession`, `OpenProbed` | `get_session_id` (93-126) and behind it (398-411) |
| `Connected`, `ReceiveOnly`, `NoRecovery`, `OpenLive`, `OpenFails`, `Opened` | 507-546 |
| `DecodeEnds`, `LiveStops`, `GapFillStops`, `TransferEnds` | the loops' ends: `RawFile`, `LiveFeed` (622-625), `LiveFeed` in a gap (603-607), `Download` (438-502) |
| `Leave` | the destructors (`socket.cpp` 10-12, `recovery.cpp` 23-25) |

*How the modules fit together.* `Startup` ends where `LiveFeed`, `Download` and
`RawFile` begin. `StoredIsUsable` gives the request size that is not zero,
which `LiveAssumption` and `DownloadAssumption` ask for (and which makes 413-416 and
523-526 superfluous). `LoopsReady` gives what their `Init` and fairness take for granted: in
live mode `rr_open` holds exactly with `-g`, the rerequester's socket
has a receive timeout, the multicast's has none.

## Runs

| Run | Question | States |
|---|---|---|
| `live_any` | any feed, any server, with and without `-g` and `-n`: `RequestWithinGap`, `NoLiveRepeat`, `WithinLimit`, `LiveInOrder`, `GapFillEnds` | 571,490 |
| `live_prompt` | two sessions, prompt server: `WholeInOrder`, `NothingMissed` | 64,251 |
| `live_repeat_without_g` | violated: duplicates are skipped | |
| `download_any` | any server, bounded or not: `Accounted`, `RequestWithinRange`, `StatusAgrees`, `TransferEnds` | 339,185 |
| `download_prompt` | prompt server: `Contiguous`, `DownloadComplete` | 13,809 |
| `download_short` | violated: a download cut short reports failure | |
| `download_holes` | violated: a chunk is decoded before the next is asked for | |
| `raw_file` | any small packet, files of up to three frames: `LimitEnds`, `ReadsInPacket`, `WalkMatches`, `CursorOnFrame`, `FileDecoded`, `FileDone` | 57,078 |
| `raw_limit` | violated: `-n` stops after that many decoded messages | |
| `config_file` | any small file and the shipped one with other values: `StackOpen`, `Usable`, `NestingRight`, `LoadedAsWritten` | 618,851 |
| `itch_decode` | any small specification, messages of any length: `ReadsInside`, `SpecOfOwnEntry`, `PrintsWhatFits` | 124,389 |
| `startup` | any short command line, any system call failing: `Owned`, `ReadyToReceive`, `AsAsked`, `SuccessEarned` | 179,517 |

*Bounds, and why they are enough.* The multicast may return any datagram of
`Feed` at any time: every way of cutting the numbers 1 to `MaxSeq` into packets of
up to `MaxCount`, heartbeats at every number, cut packets, a runt, the end of the
session. A loss is a datagram never returned, a repetition one returned twice,
so nothing bounds the length of a run. Four or five numbers and two per packet
give gaps of up to four, all overlaps of two packets, and gaps of more than one
chunk (`MaxPerRequest` 2 and 3). A request is answered by up to two datagrams and
the reply buffer holds one more (`ReplyBuffer`), so late replies of one request meet
the next and outlive a gap. `EndCount` 9 keeps end of session apart from counts.
The limits `-n` fall inside a packet, at its end, inside a chunk and beyond what
there is (`download_prompt`: 6 and 20 of 10 messages). `live_prompt` needs room for
a whole answer, which the buffer of four datagrams gives. `raw_file` takes every body
of up to four bytes 0 to 2 with every count up to 3 (blocks that end with
the packet, one byte before and one behind it, two empty ones, a length cut in half),
and every sequence of up to three frames out of six (short, heartbeat, end of
session, whole with an empty block, whole, cut), of which 0, 1 or 22 bytes at the end
are missing; limits 2 and 3 fall inside packets, at their ends and between them.

`config_file` takes every file of up to three lines at three depths, with keys of
one and two parts and two values, and files of four and five lines with fewer:
enough for three open sections, for two that close on one line, for a section that is opened
twice and a leaf that replaces another. The lines of `config/config.yaml` come with the
numbers 65535, 65536 and 65537, and with each setting that is checked left out;
`PortWord` is the code's 65536. `itch_decode` scales the words down: lengths below
16, sizes below 64. Every specification of up to three fields out of ten (sound ones, one too small
for its type, one of size zero, one below zero, one beyond the word, an unknown type)
meets messages one byte short, exact, and longer; the offsets wrap with a size
below zero or beyond the word. `startup` has a `Word` of 16 for 2^64, with numbers at its end, beyond it
and below zero; all pairs of options, and triples of those that choose the mode.
`Descriptors` 0 and 3 are what a mode can have open at once, and 0 is the one a wrong
test would miss. The group 272.0.0.1 of the shipped `config.yaml` is not an address, so that
`JoinFails` is the only way on from it.

Every run checks for deadlock: `Terminated` is the one state a program may stay in, and
`Receiving` in `Startup` a turn of the live loop, so a state in which no branch of the
code is modelled would be reported.

## Fairness

`WF_vars(GapFill)` and `WF_vars(Transfer)`: while a gap is filled or a download
runs, the next step is eventually taken. The code justifies it: the reply socket
has `SO_RCVTIMEO` of 1000 ms (`recovery.cpp` 42-49, `application.cpp` 405, 535), so
each `recvfrom` returns, and nothing else in those loops waits. `WF_vars(Decode)`:
nothing in `decode_file` waits for anything but the file. Nothing is assumed of
the multicast socket, which may be silent for ever, nor of the probe, which waits
on it without a timeout; `GapFillEnds` and `TransferEnds` start after it. They hold for a
server that answers a request with finitely many datagrams: one that sends
heartbeats without end keeps the loop of a chunk running, as these are neither
progress nor a timeout.

## Proofs

`tlapm` proves, for every feed, server, limit, start and request size:

| Theorem | Property |
|---|---|
| `LiveFeedProofs!TypeCorrect` | `TypeOK`: in particular `remaining` never goes below zero |
| `LiveFeedProofs!RequestsWithinGap` | `RequestWithinGap` |
| `LiveFeedProofs!NothingTwiceLive` | `NoLiveRepeat` |
| `LiveFeedProofs!LimitKept` | `WithinLimit` |
| `LiveFeedProofs!LiveImplementsOrder` | `LiveInOrder`, the refinement of `OrderedFeed` |
| `LiveFeedProofs!RepliesInOrder` | `Replying`, the invariant that ties the replies under way to the position |
| `LiveFeedProofs!WholeImplementsOrder` | `WholeInOrder`, the refinement on all that is printed; if `Server = "prompt"` |
| `LiveFeedProofs!NoneMissed` | `NothingMissed`; if `ServerKeepsFeed` |
| `DownloadProofs!TypeCorrect` | `TypeOK` |
| `DownloadProofs!CountersAgree` | `Accounted` |
| `DownloadProofs!RequestsWithinRange` | `RequestWithinRange` |
| `DownloadProofs!StatusSound` | `StatusAgrees` |
| `DownloadProofs!RepliesInOrder` | `Replying` of `Download` |
| `DownloadProofs!PrintedContiguous` | `Contiguous`; if `Server = "prompt"` |
| `DownloadProofs!SuccessIsComplete` | `DownloadComplete` |
| `RawFileProofs!TypeCorrect` | `TypeOK` |
| `RawFileProofs!ReadsStayInPacket` | `ReadsInPacket`: what is read behind a packet is at most the one byte for the filter |
| `RawFileProofs!StaysOnFrames` | `CursorOnFrame` |
| `RawFileProofs!LimitKept` | `LimitEnds` |
| `RawFileProofs!WalkOnBlocks` | `AtBlock`: the walk is at a block of its packet |
| `RawFileProofs!WalkIsMoldPacket` | `WalkMatches` |
| `RawFileProofs!DecodesAsItGoes` | `Progress`: what lies before the cursor has been decoded, and nothing else |
| `RawFileProofs!DecodesTheFile` | `FileDecoded` |
| `YamlConfigProofs!TypeCorrect` | `TypeOK`: the numbers stored are 16-bit ones |
| `YamlConfigProofs!StackHoldsOpenSections` | `StackOpen` |
| `YamlConfigProofs!StoredIsUsable` | `Usable` |
| `YamlConfigProofs!SettledThroughout` | `Settled`, `Taken`: the settings are what the lines read so far say |
| `YamlConfigProofs!EveryFileNested` | `NestingRight` |
| `YamlConfigProofs!ConfigIsAsWritten` | `LoadedAsWritten` |
| `ItchDecodeProofs!TypeCorrect` | `TypeOK` |
| `ItchDecodeProofs!SoundFieldsInside` | `ReadsInside` |
| `ItchDecodeProofs!AllLoaded` | `Loaded`: each type has its own fields, at the sums of the sizes |
| `ItchDecodeProofs!OwnEntryOnly` | `SpecOfOwnEntry` |
| `ItchDecodeProofs!PrintedWhatFits` | `PrintsWhatFits` |
| `StartupProofs!TypeCorrect` | `TypeOK` |
| `StartupProofs!SocketsOwned` | `Owned` |
| `StartupProofs!NothingLeftOpen` | no descriptor is open once the program has ended |
| `StartupProofs!LoopsReady` | `ReadyToReceive` |
| `StartupProofs!SuccessIsEarned` | `SuccessEarned` |
| `StartupProofs!RunsAsAsked` | `AsAsked` |

The assumptions are those the modules name: `EndCountAssumption`,
`ServerAssumption`, `LiveAssumption`, `DownloadAssumption`, `WalkAssumption`,
`NoPacketAssumption`, `FilesAssumption`, `YamlAssumption`, `ItchAssumption`,
`CommandLineAssumption`, `SocketsAssumption`, `StartupAssumption`. They type the
constants and say that `MaxPerRequest` is not zero, which `StoredIsUsable` and 413-416,
523-526 establish; that a file is described wherever the loop may look for a
length, and that its frames do not overlap (`FilesAssumption`); that no key stands
twice in a specification, as in any JSON object, and that a length has fewer bits than
a size, 16 and 32 in the code (`ItchAssumption`); that the noise on the way from the
server carries no message, and none of a prompt server's reads as silence
(`ServerAssumption`); and that no text inet_addr takes for an address is one of
the texts that mean something else in the model (`SocketsAssumption`).
`ServerKeepsFeed` is a hypothesis of `NoneMissed` alone: the server has what comes
before each packet of the multicast. It holds in `live_prompt`; without it a server
that answers "in full" may still not have what is missing.

*The argument.* The invariant of `LiveFeed` is `IInv == TypeOK /\ Filling /\ Tracked`.
`RequestWithinGap` is not inductive: it says nothing between two requests. `Filling`
adds what holds there: `current_seq + remaining = header.seq`, with
`expected_seq <= current_seq`, a packet held back, and fewer than three timeouts.
The step that matters is `EndChunk`, where `got` may exceed `remaining`: then the
recovery is over, and the sum need not hold any more. `Tracked` puts every number
printed from the multicast below `expected_seq`; a packet that is decoded begins
at it or above, hence nothing is printed twice. The refinement follows from the
same fact. `LimitKept` needs an induction of its own on top of `IInv`, with
`LimitFacts`: below the limit, one call either stops exactly at it or stays below.
The invariant of `Download` adds to the counters that, until `run` returns, the
limit is not reached (`Running`), so that `got` is less than `remaining` at the end
of each bounded chunk. `PacketLemmas` holds what both rest on.

With a prompt server, what is printed depends on what is still in the queue of replies.
`Conveys(queue, first, next)` says of a queue that, read in turn, it brings the numbers
from `first` to `next - 1`, each once. The invariant `Replying` of both loops says that the
replies under way convey what follows the position, up to some number inside the
request; and that between requests nothing but noise is left over, so that a late reply
never counts for the next request. It is preserved because a chunk ends only when it is
full, and then what was conveyed has been used up, or in a timeout, and then the queue is empty.
Everything printed lies below the position (`LiveFeed`) or is all of what lies below
it (`Download`), which gives `WholeInOrder` and `Contiguous`. `Closing` strengthens it
while the server answers in full: the replies convey *all* the rest of the request,
hence the position is `header.seq` when the packet held back is decoded.

The invariant of `RawFile` ties the counters of a call together (`Walking`) and remembers, while a
packet is decoded, that it fits the file, which the step to the next frame needs.
`WithinPacket`, the guard of the walk made an invariant, keeps `offset` in the packet;
`ReadBehind` says how far behind `offset` a byte has been read, none or the one that follows
an empty message, and from both `ReadsInPacket` follows. `WalkShows` is why the choice in
`Found` does not matter to what is printed: a message that is not empty has its type inside.
`AtBlock` adds what the bytes are: the walk is at the beginning of a block of
`Blocks(packet)`, a sequence that is defined by what it encodes and not by a walk. It is
the longest one that fits, and `NextBlock` shows that after `k` blocks there is another
exactly if `next_mold_message` finds one: if it did not belong to `Blocks`, the sequence
with it added would be longer. `Progress` says that the messages before the position
have been decoded and listed, and no others. Each step changes the set of messages
before the position by what `FrameAdds` says lies between the old and the new one, that is
nothing, or one message behind all others; `OneMoreListed` then extends the listing.

`StackOpen` of `YamlConfig` is inductive as it stands, because it says both that what is
on the stack is open and that what is open is on the stack. The first half alone
would let a section be popped too early, and the second needs the order of the
lines: of two open sections the later is indented deeper (otherwise it would have closed
the earlier), so the sections a line closes are at the top and `Left` finds them. `Usable`
follows from `RecoveryCount` being tested after it was narrowed. From `StackOpen` the
path of a leaf follows: the lines of the open sections are increasing (`open_lines`), so
`InOrder` lists just them, and they are the sections that enclose the leaf. `Settled` then
holds from line to line.

`ReadsInside` speaks of the reads that have happened; `IInv` of `ItchDecode` adds that
each of them was of the field in the same place, which had passed the test, whose
sum then does not wrap for a `SoundField`. `Loaded` follows `load_spec` through its entries:
the one under way is laid out as far as it has been read, those behind it are stored under
their letter, and a key with several letters under none. It says so of all sizes, those
below zero and beyond the word too, as a sum of remainders has the remainder of the sum
(`SumOfRemainders`); hence `SpecOfOwnEntry`, which compares whole layouts. For `PrintsWhatFits`, `Decoding` says
why `decode_itch_message` has ended where it did; as the ends of sensible fields go up and do
not wrap, stopping at the first that does not fit is stopping behind the last that does.

The invariant of `Startup` adds to `Owned` which objects exist where (`Scoped`), what a call
has reached with its socket (`Stages`), and that live mode keeps its group while
the rerequester is opened (`Waiting`). `Owned` splits into one half about
descriptors and objects and one about scopes, as the steps disturb one or the
other. `Earning`, on top of it, carries what has been established on the way to
each part of the program: `SuccessEarned` alone says nothing before there is a status.
`Asked` says what the options read so far have left in the members, which at the end
of the options is what `AsAsked` compares with.

*Induction.* The library's induction theorems take an operator, which none of the
provers used here can instantiate. `Induction` derives from the well-foundedness of the naturals
an induction with a set in place of the predicate, and from it what a recursive function
computes (`Iteration`), that a bounded set has a greatest element, and that an increasing
sequence is the listing of its members (`ListedInOrder`, `ListedByPlace`). They are lemmas
of four of these modules and say nothing of the code by themselves. This is why the
definitions that say what data means are sets, listed by `Listing`, and recursive
functions over an interval (`Starts`, `Position`), but no folds and no `RECURSIVE` operators.

*Only model-checked:* liveness (`GapFillEnds`, `TransferEnds`, `FileDone`), which needs
fairness and `ENABLED`, out of TLAPS's reach. Every other property of the passing runs is
a theorem.

## Findings

* `live_repeat_without_g`: "Skip Duplicate" (`application.cpp` 610) does nothing
  without `-g`, as only `check_sequence_gap` sets `joined` and `expected_seq` is not
  looked at otherwise.
* `download_short`: "if bounded and didn't get all (-s .. -n ..) exit 1" (482) is
  reached only if no chunk at all brought anything; a download that stops half-way
  exits with 0 (477-479).
* `download_holes`: "Receive enough reply packets to decode this chunk" (443): the
  position moves by the number of messages that came, whichever they were, so
  that a lost reply followed by a later one leaves a hole that is not asked
  for again.
* `raw_limit`: "-n <count> stops after decoding <count> msg" (`main.cpp` 17):
  messages that `--type` keeps back and empty ones count as well
  (`application.cpp` 154-163).

Seen on the way, where no line of the repository says otherwise: with `--type`, an empty
block at the end of a packet makes the filter read the byte behind the packet
(`application.cpp` 156), with the last packet of a raw file the one behind its buffer;
`ReadsInPacket` shows that this is the only such byte, and `FileDecoded` that
nothing printed depends on it; `SoundField` and
`Sensible` are preconditions nobody checks, as `load_spec` takes any size for any type;
a source address that is no address (`socket.cpp` 54) is joined as
255.255.255.255 and then nothing is heard, which `Membership` shows; the group of the shipped
`config.yaml` cannot be joined; `-s -1` starts at 2^64 - 1.

## Not modelled

* `nlohmann/json.hpp`: vendored, and with 25,526 of the 27,121 lines of the
  repository's code the reason why no model of the receiver can
  stand for a large share of them. Of the receiver's own 1,600 lines most are
  modelled. What it does for `load_spec` is a choice: an object of keys and
  fields, or an exception (`SpecThrows`).
* `receive_batch` (nothing calls it), the build.
* Payloads and the text that is printed, `-v` included, which only changes that text.
  The loops never look at payloads, but for the type byte, which `PacketWalk` has.
* Cutting a line of `config.yaml` into indent, key and value: `strip`, quotes, the `#`
  (which cuts quoted values too) and tabs, which do not count as indent.
* The file of `-d` as a descriptor: a `FILE` of `decode_file`, whose
  every path is in `RawFile`.
* The results of `setsockopt` for reuse, buffers and the receive timeout, which nobody
  asks for. If setting the timeout failed, a silent server would stop the
  program for ever; `LoopsReady` and the fairness assume it does not.
* A signal or a crash: nothing is persisted, so there is no recovery to speak of.
* File lengths of 2^31 and more, where `(int)packet_length` would matter.
* Sequence numbers are natural numbers; the code's are 64-bit and are taken not to
  wrap. The counters that could go below zero are checked (`TypeOK`).
* With no limit `decoded_count` is not counted, as nothing reads it.
* `received` and `recovered` counts that are only returned and ignored.
* The `printf` calls between a `recvfrom` and the test of `errno`: none lies
  there, so `errno` is that of the receive; one that fails elsewhere might leave
  another value behind for an empty datagram, which the models do not show.
