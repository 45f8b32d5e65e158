----------------------------- MODULE MCCommInput -----------------------------
(***************************************************************************)
(* Instances of TtyReader for TLC: every file of up to four lines of a     *)
(* small choice with a silent line, and a few whole files with noise,      *)
(* gaps and frames on the line.                                            *)
(***************************************************************************)
EXTENDS TtyReader, SequencesExt

L(kind, indent, name, words) ==
  [kind |-> kind, indent |-> indent, name |-> name, words |-> words]

Pieces == {
  L("section", FALSE, "tty", << >>), L("section", FALSE, "net", << >>),
  L("section", TRUE, "net", << >>), L("badSection", FALSE, "net", << >>),
  L("blank", TRUE, "", << >>), L("noEquals", FALSE, "", <<5>>),
  L("noEquals", TRUE, "", <<6, 7>>), L("pair", FALSE, "enable", <<1>>),
  L("pair", TRUE, "ttyDev", <<4>>),
  L("pair", FALSE, "ttyPara", <<9600, NaN, 2>>),
  L("pair", FALSE, "port", <<70000>>), L("pair", FALSE, "", <<3>>), L("pair", FALSE, "dataFile", <<2>>),
  L("pair", FALSE, "remoteInfo", <<3, 9000>>)}

Whole(lineNumber, timeDiff, para) == <<
  L("section", FALSE, "tty", << >>), L("pair", FALSE, "enable", <<1>>),
  L("pair", FALSE, "ttyDev", <<4>>), L("pair", FALSE, "gpsFile", <<5>>),
  L("pair", FALSE, "ttyPara", para),
  L("pair", FALSE, "gpsFileLineNumber", <<lineNumber>>),
  L("pair", FALSE, "timeDiff", <<timeDiff>>)>>

WholeFiles == {Whole(1, 20, <<9600>>), Whole(-1, -1, <<9600, 8, 1, 3>>),
               Whole(0, 0, <<9600, 7, 2>>), Whole(0, 5, <<9601>>)}

\* A sum that is easily computed, and tells the frames below apart.
MCCrc(s) == (FoldLeft(LAMBDA a, b : 3 * a + b, 7, s)) % 65536

Frame(id, data) ==
  LET head == <<255, 187, 6 + Len(data), id>> \o data
  IN  head \o <<MCCrc(head) % 256, MCCrc(head) \div 256>>

Noise == {255, 187, 4, 7, Gap}
Frames == {Frame(1, <<30, 77>>), Frame(2, <<5>>), Frame(3, << >>),
           Frame(1, <<1>>), SubSeq(Frame(1, <<30, 77>>), 1, 6)}

\* Noise of up to n bytes or gaps, a frame, and a GPS or torn frame after it.
Lines(n) ==
  {m \o f \o g \o e :
     m \in SeqOf(Noise, n), f \in Frames, g \in {<< >>, <<Gap>>},
     e \in {Frame(1, <<90, 78>>), SubSeq(Frame(2, <<5>>), 1, 5)}}

Input(f, s, c, g) == [ini |-> f, stream |-> s, clock |-> c, gpsLines |-> g]

MCInputs ==
  {Input(f, << >>, 0, << >>) : f \in SeqOf(Pieces, 3)}
    \cup {Input(Whole(1, 20, <<9600>>), s, 0, <<11, 12, 13>>) : s \in Lines(3)}
    \cup {Input(f, s, c, g) : f \in WholeFiles, s \in Lines(1),
                             c \in {25, 60}, g \in {<< >>, <<11>>}}
=============================================================================
