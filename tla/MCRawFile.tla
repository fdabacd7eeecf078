----------------------------- MODULE MCRawFile -----------------------------
(***************************************************************************)
(* Small files for TLC.                                                    *)
(***************************************************************************)
EXTENDS RawFormat

CONSTANTS Session, MaxBody

\* Frames that hold packets with bodies of these bytes, announcing 0, 1, 2 or
\* 3 messages or the end of the session.
Frame(body, count) ==
  [length |-> HeaderLength + Len(body),
   packet |-> [session |-> Session, seq |-> 7, count |-> count, body |-> body]]

Short == [length |-> HeaderLength - 1, packet |-> NoPacket]

\* The file of these frames without its last missing bytes.
FileOf(frames, missing) ==
  LET start == [i \in 1..(Len(frames) + 1) |->
                  FoldLeft(LAMBDA sum, f : sum + 4 + f.length, 0,
                           SubSeq(frames, 1, i - 1))]
      total == start[Len(frames) + 1] - missing
      there == {i \in DOMAIN frames : start[i] + 4 <= total}
  IN [total |-> total,
      at |-> [c \in {start[i] : i \in there} |->
                frames[CHOOSE i \in there : start[i] = c]]]

\* One packet with any body.
OnePacket ==
  {FileOf(<<Frame(b, n)>>, 0) : b \in SeqOf(0..2, MaxBody), n \in 0..3}

\* Several, one of them short, cut or no data, and a file that ends early.
SomeFrames ==
  {Short, Frame(<<>>, 0), Frame(<<0, 1, 1>>, EndCount),
   Frame(<<0, 1, 1, 0, 2, 2, 0>>, 3), Frame(<<0, 0, 0, 1, 1>>, 2),
   Frame(<<0, 1, 2, 0, 4, 1>>, 2)}

SomeFiles ==
  {FileOf(fs, m) : fs \in SeqOf(SomeFrames, 3) \ {<<>>}, m \in {0, 1, 22}}

AllFiles == OnePacket \cup SomeFiles
AllFilters == {{}, {1, 2}}
=============================================================================
