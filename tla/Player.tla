------------------------------- MODULE Player -------------------------------
(***************************************************************************)
(* The multi-channel player, demo/demo.cpp: the options of the command     *)
(* line, the instances that are built one after the other from the same    *)
(* options, the grid they are shown in, the start of the sources, and the  *)
(* teardown that the key q or a failed instance leads to.  What the        *)
(* callback of the source saves is in FrameDump (demo/utils.cpp).          *)
(*                                                                         *)
(* A module of the media library is a name in its instance; setProductor,  *)
(* init() and the pictures a source gives are the library's.  Options that *)
(* no decision rests on (plane, connector, zpos, port, loop, transport)    *)
(* only have to be known.  USE_COMMON_SOURCE is false; audio and OpenGL    *)
(* are built in.                                                           *)
(***************************************************************************)
EXTENDS FrameDump, FiniteSets

CONSTANTS
  CommandLines,  (* sequences of [opt, arg], what getopt_long returns       *)
  Inputs,        (* [url, type, container, para]: how the input source is   *)
                 (* named, what stat says of it, and its pictures, which    *)
                 (* are [w, h, hs, vs, fmt]                                 *)
  PlaneSizes     (* width and height of the display                         *)

\* Numbers are what atoi gives, sizes what it gives an unsigned field.
ASSUME OptionAssumption ==
  \A c \in CommandLines :
    /\ Len(c) \in Nat
    /\ \A i \in 1..Len(c) :
         /\ c[i].opt = "c" => c[i].arg \in Int
         /\ c[i].opt = "o" => c[i].arg = << >> \/ c[i].arg \in Nat \X Nat

ASSUME SizeAssumption ==
  /\ \A q \in Inputs :
       /\ q.para \in [w : Nat, h : Nat, hs : Nat, vs : Nat, fmt : STRING]
       /\ q.para.fmt \in Formats => Sizes(q.para)
  /\ PlaneSizes \subseteq Nat \X Nat

VARIABLES
  cmd, pos,      (* the command line, and how much of it is parsed          *)
  conf,          (* ori_config                                              *)
  input,         (* the input source                                        *)
  pc,            (* where main or start_instance is                         *)
  inst,          (* the index main is at, of an instance or in its loops    *)
  insts,         (* the DemoData                                            *)
  plane          (* what getPlaneSize gives                                 *)

given == <<cmd, input, plane>>
vars == <<given, pos, conf, pc, inst, insts>>

-----------------------------------------------------------------------------
Compressed == {"MJPEG", "H264", "HEVC"}
Rotations == {0, 1, 2, 90, 180, 270}
Encodings == {"h264", "h265", "mjpeg"}

\* Options that set a field to their argument, and those that turn one on.
Fields == [c |-> "count", o |-> "outSize", b |-> "outFmt", t |-> "pushType",
           s |-> "sync", r |-> "rotate", e |-> "encodeType"]
Switches == [d |-> "display", x |-> "x11", e |-> "enc", f |-> "save",
             p |-> "push", m |-> "writer", A |-> "aplay", R |-> "rtmpUrl"]
Without == {"i", "a", "C", "z", "l", "P"}

Values == {Fields[o] : o \in DOMAIN Fields}
Flags == {Switches[o] : o \in DOMAIN Switches}

Config ==
  [k \in Values \cup Flags |->
     CASE k = "count" -> 1
        [] k = "outSize" -> <<0, 0>>
        [] k = "outFmt" -> "NV12"
        [] k = "encodeType" -> "h264"
        [] k \in Flags -> FALSE
        [] OTHER -> 0]

\* Sizes without an x, unknown formats, encodings and angles are refused.
Understood(o) ==
  CASE o.opt \in {"i", "o"} -> o.arg # << >>
    [] o.opt \in {"a", "b"} -> o.arg \in Formats
    [] o.opt = "e" -> o.arg \in Encodings
    [] o.opt = "r" -> o.arg \in Rotations
    [] OTHER -> o.opt \in DOMAIN Fields \cup DOMAIN Switches \cup Without

Effect(o, c) ==
  [k \in DOMAIN c |->
     IF o.opt \in DOMAIN Fields /\ k = Fields[o.opt] THEN o.arg
     ELSE IF o.opt \in DOMAIN Switches /\ k = Switches[o.opt] THEN TRUE
     ELSE c[k]]

ParseOption ==
  /\ pc = "options" /\ pos < Len(cmd)
  /\ LET o == cmd[pos + 1]
     IN  IF Understood(o)
         THEN conf' = Effect(o, conf) /\ pos' = pos + 1 /\ pc' = pc
         ELSE pc' = "gone" /\ UNCHANGED <<conf, pos>>
  /\ UNCHANGED <<given, inst, insts>>

\* Every instance gets a copy of the configuration.
Count == IF conf.count > 1 THEN conf.count ELSE 1
NoPara == [w |-> 0, h |-> 0, hs |-> 0, vs |-> 0, fmt |-> "none"]
Instance ==
  [source |-> "none", made |-> {}, last |-> "none", from |-> NoPara,
   para |-> NoPara, dec |-> FALSE, window |-> << >>, file |-> "none",
   saved |-> << >>, on |-> FALSE]

MakeInstances ==
  /\ pc = "options" /\ pos = Len(cmd)
  /\ insts' = [i \in 0..(Count - 1) |-> Instance]
  /\ pc' = "classify"
  /\ UNCHANGED <<given, pos, conf, inst>>

-----------------------------------------------------------------------------
(***************************************************************************)
(* start_instance.  `This` is the instance at hand; a module behind p is   *)
(* made, or its init() fails and main goes to EXIT.                        *)
(***************************************************************************)
This == insts[inst]

Goto(next) == pc' = next /\ UNCHANGED <<inst, insts>>

\* The buffers of the module are passed on, as pictures like q.
Stage(c, q, next) ==
  \/ /\ insts' = [insts EXCEPT ![inst].made = @ \cup {<<This.last, c>>},
                               ![inst].last = c, ![inst].para = q]
     /\ pc' = next /\ UNCHANGED inst
  \/ Goto("exit")

\* The module is the end of the line.
Sink(c, p, next) ==
  \/ /\ insts' = [insts EXCEPT ![inst].made = @ \cup {<<p, c>>}]
     /\ pc' = next /\ UNCHANGED inst
  \/ Goto("exit")

\* exit(1) when stat fails or the file is neither a camera nor a plain file.
Classify ==
  /\ pc = "classify"
  /\ IF /\ input.url \notin {"rtsp", "rtmp"}
        /\ input.type \notin {"char", "regular"}
     THEN Goto("gone")
     ELSE /\ insts' = [insts EXCEPT
               ![inst].source = IF input.url \in {"rtsp", "rtmp"} THEN input.url
                                ELSE input.type,
               ![inst].dec = input.url = "path" /\ input.container]
          /\ pc' = "source" /\ UNCHANGED inst
  /\ UNCHANGED <<given, pos, conf>>

\* source_module is the module that has been made last.  All instances open
\* the same input, which gives the same pictures.
OpenSource ==
  /\ pc = "source"
  /\ \/ /\ insts' = [insts EXCEPT ![inst].made = {<<"none", "source">>},
                                  ![inst].last = "source",
                                  ![inst].from = input.para,
                                  ![inst].para = input.para]
        /\ pc' = "aacDec" /\ UNCHANGED inst
     \/ Goto("exit")
  /\ UNCHANGED <<given, pos, conf>>

PlayAudio ==
  /\ pc = "aacDec"
  /\ IF conf.aplay THEN Sink("aacDec", "source", "dec") ELSE Goto("dec")
  /\ UNCHANGED <<given, pos, conf>>

DecodeVideo ==
  /\ pc = "dec"
  /\ IF This.dec \/ This.from.fmt \in Compressed
     THEN Stage("dec", [This.from EXCEPT !.fmt = "NV12"], "rga")
     ELSE Goto("rga")
  /\ UNCHANGED <<given, pos, conf>>

\* output_image_para: as asked for, in eights, or as the source gives it.
Align8(n) == ((n + 7) \div 8) * 8

Output(c, q) ==
  IF c.outSize[1] = 0 \/ c.outSize[2] = 0 THEN [q EXCEPT !.fmt = c.outFmt]
  ELSE LET w == Align8(c.outSize[1])
           h == Align8(c.outSize[2])
       IN  [w |-> w, h |-> h, hs |-> w, vs |-> h, fmt |-> c.outFmt]

Turned(q) == [w |-> q.h, h |-> q.w, hs |-> q.vs, vs |-> q.hs, fmt |-> q.fmt]

\* A variant: sizes and formats are not compared.
NeedsRgaToTurn(c, q, out) == c.rotate # 0

NeedsRga(c, q, out) ==
  \/ c.rotate # 0
  \/ q.h # out.h \/ q.w # out.w \/ q.fmt # out.fmt

ConvertVideo ==
  /\ pc = "rga"
  /\ LET out == Output(conf, This.from)
     IN  IF NeedsRga(conf, This.para, out)
         THEN Stage("rga",
                    IF conf.rotate \in {90, 270} THEN Turned(out) ELSE out,
                    "display")
         ELSE Goto("display")
  /\ UNCHANGED <<given, pos, conf>>

(***************************************************************************)
(* The cell of instance i of n in a plane t, and the picture in it.        *)
(***************************************************************************)
Root(n) == CHOOSE s \in 0..n : s * s <= n /\ n < (s + 1) * (s + 1)

\* Columns and rows, hc and vc.
\* A variant: one row too few when the last one is not full.
GridShort(n) ==
  LET s == Root(n)
  IN  IF s * s < n THEN <<s + 1, s>> ELSE <<s, s>>

Grid(n) ==
  LET s == Root(n)
  IN  IF s * s < n THEN <<s + 1, IF s * (s + 1) < n THEN s + 1 ELSE s>>
      ELSE <<s, s>>

Smaller(a, b) == IF a < b THEN a ELSE b

Cell(g, i, t, q) ==
  LET dw == t[1] \div g[1]
      dh == t[2] \div g[2]
      w == Smaller(dw, q.w)
      h == Smaller(dh, q.h)
  IN  <<(dw - w) \div 2 + (i % g[1]) * dw, (dh - h) \div 2 + (i \div g[1]) * dh,
        w, h>>

Window(i, n, t, q) == Cell(Grid(n), i, t, q)

DisplayVideo ==
  /\ pc = "display"
  /\ IF conf.display
     THEN \/ /\ insts' = [insts EXCEPT
                   ![inst].made = @ \cup {<<This.last, "display">>},
                   ![inst].window = Window(inst, Count, plane, This.para)]
             /\ pc' = "enc" /\ UNCHANGED inst
          \/ Goto("exit")
     ELSE IF conf.x11 THEN Sink("x11", This.last, "enc") ELSE Goto("enc")
  /\ UNCHANGED <<given, pos, conf>>

EncodeVideo ==
  /\ pc = "enc"
  /\ IF conf.enc
     THEN Stage("enc", [This.para EXCEPT !.fmt = conf.encodeType], "writer")
     ELSE Goto("writer")
  /\ UNCHANGED <<given, pos, conf>>

WriteFile ==
  /\ pc = "writer"
  /\ IF conf.writer THEN Sink("writer", This.last, "push") ELSE Goto("push")
  /\ UNCHANGED <<given, pos, conf>>

PushVideo ==
  /\ \/ /\ pc = "push"
        /\ IF conf.push
           THEN Sink(IF conf.pushType # 0 THEN "rtmpServer" ELSE "rtspServer",
                     This.last, "rtmpUrl")
           ELSE Goto("rtmpUrl")
     \/ /\ pc = "rtmpUrl"
        /\ IF conf.rtmpUrl THEN Sink("rtmpPush", This.last, "save")
           ELSE Goto("save")
  /\ UNCHANGED <<given, pos, conf>>

\* The name has the index of the instance; the file may fail to open.
\* start_instance returns 0, and main goes to the next one or on.
SaveToFile ==
  /\ pc = "save"
  /\ IF conf.save
     THEN \E f \in {"open", "none"} : insts' = [insts EXCEPT ![inst].file = f]
     ELSE insts' = insts
  /\ IF inst + 1 < Count THEN pc' = "classify" /\ inst' = inst + 1
     ELSE pc' = "start" /\ inst' = 0
  /\ UNCHANGED <<given, pos, conf>>

-----------------------------------------------------------------------------
\* A variant: the loops take in the index behind the last.
LoopTooFar(next) ==
  IF inst < Count THEN pc' = pc /\ inst' = inst + 1
  ELSE pc' = next /\ inst' = 0

\* The next index of a loop of main over the instances.
Loop(next) ==
  IF inst + 1 < Count THEN pc' = pc /\ inst' = inst + 1
  ELSE pc' = next /\ inst' = 0

StartSource ==
  /\ pc = "start"
  /\ insts' = [insts EXCEPT ![inst].on = TRUE]
  /\ Loop("play")
  /\ UNCHANGED <<given, pos, conf>>

\* The thread of a source calls callback_dumpFrametofile.
Frame(i) ==
  /\ insts[i].on /\ conf.save
  /\ insts[i].file # "none"
  /\ insts' = [insts EXCEPT ![i].saved =
                 IF insts[i].from.fmt \in Compressed THEN << >>
                 ELSE Dumped(insts[i].from)]
  /\ UNCHANGED <<given, pos, conf, pc, inst>>

MediaThreads == \E i \in DOMAIN insts : Frame(i)

PressQ == pc = "play" /\ Goto("exit") /\ UNCHANGED <<given, pos, conf>>

\* EXIT, from wherever start_instance failed: the loops begin at 0.
Exit ==
  /\ pc = "exit"
  /\ pc' = "stop" /\ inst' = 0
  /\ UNCHANGED <<given, pos, conf, insts>>

\* stop() returns when the thread of the source has ended.
StopSource ==
  /\ pc = "stop"
  /\ insts' = [insts EXCEPT ![inst].on = FALSE]
  /\ Loop("close")
  /\ UNCHANGED <<given, pos, conf>>

CloseFile ==
  /\ pc = "close"
  /\ insts' = [insts EXCEPT ![inst].file = IF @ = "open" THEN "closed" ELSE @]
  /\ Loop("gone")
  /\ UNCHANGED <<given, pos, conf>>

-----------------------------------------------------------------------------
Init ==
  /\ cmd \in CommandLines
  /\ pos = 0
  /\ conf = Config
  /\ input \in Inputs
  /\ pc = "options"
  /\ inst = 0
  /\ insts = << >>
  /\ plane \in PlaneSizes

StartInstance ==
  \/ Classify \/ OpenSource \/ PlayAudio \/ DecodeVideo \/ ConvertVideo
  \/ DisplayVideo \/ EncodeVideo \/ WriteFile \/ PushVideo \/ SaveToFile

Main ==
  \/ ParseOption \/ MakeInstances \/ StartInstance \/ StartSource \/ PressQ
  \/ Exit \/ StopSource \/ CloseFile

Gone == pc = "gone" /\ UNCHANGED vars

Next == Main \/ MediaThreads \/ Gone

Spec == Init /\ [][Next]_vars

-----------------------------------------------------------------------------
Steps == {"options", "classify", "source", "aacDec", "dec", "rga", "display",
          "enc", "writer", "push", "rtmpUrl", "save", "start", "play", "exit",
          "stop", "close", "gone"}

InstanceOK(r) ==
  /\ r.source \in {"none", "rtsp", "rtmp", "char", "regular"}
  /\ r.last \in {"none", "source", "dec", "rga", "enc"}
  /\ r.dec \in BOOLEAN /\ r.on \in BOOLEAN
  /\ r.from \in {input.para, NoPara}
  /\ r.file \in {"none", "open", "closed"}
  /\ r.window = << >> \/ \A k \in 1..4 : r.window[k] \in Nat
  /\ \A e \in r.made : e[1] # e[2]

TypeOK ==
  /\ pos \in 0..Len(cmd)
  /\ pc \in Steps
  /\ pc # "options" /\ insts # << >> => inst \in DOMAIN insts
  /\ DOMAIN conf = DOMAIN Config
  /\ \A i \in DOMAIN insts : InstanceOK(insts[i])

(***************************************************************************)
(* Every window lies on the display, and no two of them overlap, however   *)
(* many instances there are and whatever their pictures (demo.cpp:502-532).*)
(***************************************************************************)
Inside(r, t) == r[1] + r[3] <= t[1] /\ r[2] + r[4] <= t[2]

Apart(r, s) ==
  \/ r[1] + r[3] <= s[1] \/ s[1] + s[3] <= r[1]
  \/ r[2] + r[4] <= s[2] \/ s[2] + s[4] <= r[2]

Shown == {i \in DOMAIN insts : insts[i].window # << >>}

WindowsApart ==
  \A i \in Shown :
    /\ Inside(insts[i].window, plane)
    /\ \A j \in Shown \ {i} : Apart(insts[i].window, insts[j].window)

(***************************************************************************)
(* When the sources are started, every instance passes on pictures of the  *)
(* size and format asked for, turned on their side by a rotation of 90 or  *)
(* 270 degrees and only by that, and any rotation has a module that does   *)
(* it (demo.cpp:409-484).  The encoder changes the format alone.           *)
(***************************************************************************)
Asked(q) ==
  LET own == conf.outSize[1] = 0 \/ conf.outSize[2] = 0
      w == IF own THEN q.w ELSE Align8(conf.outSize[1])
      h == IF own THEN q.h ELSE Align8(conf.outSize[2])
  IN  IF conf.rotate \in {90, 270} THEN <<h, w>> ELSE <<w, h>>

Turning(r) == conf.rotate # 0 => \E e \in r.made : e[2] = "rga"

AsAsked(r) ==
  /\ <<r.para.w, r.para.h>> = Asked(r.from)
  /\ r.para.fmt = IF conf.enc THEN conf.encodeType ELSE conf.outFmt
  /\ Turning(r)

OutputAsAsked ==
  pc \in {"start", "play"} => \A i \in DOMAIN insts : AsAsked(insts[i])

(***************************************************************************)
(* What is saved of a frame is the picture, every byte of it once and none *)
(* of the padding, whatever its strides (utils.cpp:30-213); the file is    *)
(* not closed under a callback that may still run (demo.cpp:822-845).  The *)
(* planes of YUV420 are right when no rows are padded.                     *)
(***************************************************************************)
SavedWhole ==
  \A i \in DOMAIN insts :
    LET r == insts[i]
    IN  /\ r.on => r.file # "closed"
        /\ r.saved = << >> \/ (r.from.fmt = "YUV420" /\ r.from.vs # r.from.h)
             \/ IsPicture(r.saved, r.from)
=============================================================================
