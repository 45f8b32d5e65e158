----------------------------- MODULE OsdPipeline -----------------------------
(***************************************************************************)
(* ModuleOsd::init of demo/osd.cpp: the modules of the media library that  *)
(* the configuration asks for are made one after the other, each behind    *)
(* the module it takes its buffers from; what start(), stop() and the osd  *)
(* thread use of them is stored at the end.                                *)
(*                                                                         *)
(* A module is a name.  setProductor makes it a consumer of its productor, *)
(* init() of a module may fail, and a camera may give pictures that have   *)
(* to be decoded: that belongs to the library and is chosen.  Parameters   *)
(* that no decision rests on are left out.  What the text of the frames is *)
(* initialised to is in OsdText.                                           *)
(***************************************************************************)
EXTENDS OsdConfig, FiniteSets

CONSTANTS
  PlaneSizes,   (* width and height a plane of the display may have         *)
  CameraSizes   (* width and height the pictures may have                   *)

ASSUME SizeAssumption ==
  /\ PlaneSizes \subseteq Nat \X Nat
  /\ CameraSizes \subseteq Nat \X Nat

VARIABLES
  made,       (* modules whose init() has succeeded                         *)
  consumers,  (* <<p, c>>: c is in the list of consumers of p               *)
  plane,      (* the size of the display's plane                            *)
  rect,       (* x, y, w, h last given to setPlanePara, << >> for none      *)
  members     (* modules stored in the members of the class                 *)

graphVars == <<made, consumers, members>>
vars == <<confVars, pc, graphVars, plane, rect>>

-----------------------------------------------------------------------------
Enabled(k) == para[k] = <<1>>
Given(k) == para[k] # << >>
Positive(k) == para[k][1] > 0

\* last_vmod and last_amod.
LastVideo == IF "rga" \in made THEN "rga"
             ELSE IF "dec" \in made THEN "dec" ELSE "cam"
HasAudio == "aacEnc" \in made

\* A module is made behind p; when its init() fails, so does init().
Required(c, p, next) ==
  /\ consumers' = consumers \cup {<<p, c>>}
  /\ \/ made' = made \cup {c} /\ pc' = next
     \/ made' = made /\ pc' = "failed"
  /\ UNCHANGED members

\* A variant: the consumer stays in the list.
OptionalStays(c, p, next) ==
  /\ consumers' = consumers \cup {<<p, c>>}
  /\ \/ made' = made \cup {c}
     \/ made' = made
  /\ pc' = next
  /\ UNCHANGED members

\* When its init() fails the program does without, and removeConsumer is
\* called.
Optional(c, p, next) ==
  /\ \/ made' = made \cup {c} /\ consumers' = consumers \cup {<<p, c>>}
     \/ UNCHANGED <<made, consumers>>
  /\ pc' = next
  /\ UNCHANGED members

Skip(next) == pc' = next /\ UNCHANGED graphVars

-----------------------------------------------------------------------------
OpenCamera ==
  /\ pc = "camera"
  /\ IF Given("vDev") THEN Required("cam", "none", "capture")
     ELSE Skip("failed")
  /\ UNCHANGED <<confVars, plane, rect>>

OpenCapture ==
  /\ pc = "capture"
  /\ IF Given("aDev") THEN Required("capture", "none", "aacEnc")
     ELSE Skip("dec")
  /\ UNCHANGED <<confVars, plane, rect>>

EncodeAudio ==
  /\ pc = "aacEnc"
  /\ Required("aacEnc", "capture", "dec")
  /\ UNCHANGED <<confVars, plane, rect>>

\* The pictures of the camera may be MJPEG, H264 or HEVC.
DecodeVideo ==
  /\ pc = "dec"
  /\ Required("dec", "cam", "rga") \/ Skip("rga")
  /\ UNCHANGED <<confVars, plane, rect>>

\* osdHandlerCallback is set as its callback.
ConvertVideo ==
  /\ pc = "rga"
  /\ Required("rga", LastVideo, "display")
  /\ UNCHANGED <<confVars, plane, rect>>

(***************************************************************************)
(* The picture on the plane: where displayCorp says, cut off at the edges, *)
(* or in the middle.  `size` is the size of the picture.                   *)
(***************************************************************************)
Least(a, b) == IF a < b THEN a ELSE b

\* A variant: the crop is cut off at the size of the plane, wherever it begins.
RectUncut(t, size, corp) ==
  <<Least(t[1], corp[1]), Least(t[2], corp[2]),
    Least(t[1], corp[3]), Least(t[2], corp[4])>>

\* A variant: a picture larger than the plane is centred all the same.
RectUncentred(t, size, corp) ==
  <<(t[1] - size[1]) \div 2, (t[2] - size[2]) \div 2, size[1], size[2]>>

Rect(t, size, corp) ==
  IF corp[3] > 0 /\ corp[4] > 0
  THEN LET x == Least(t[1], corp[1])
           y == Least(t[2], corp[2])
       IN  <<x, y, Least(t[1] - x, corp[3]), Least(t[2] - y, corp[4])>>
  ELSE LET w == Least(t[1], size[1])
           h == Least(t[2], size[2])
       IN  <<(t[1] - w) \div 2, (t[2] - h) \div 2, w, h>>

\* What the rga module puts out: oImgPara when both sizes are given.
OutputSizes ==
  IF para["oImgPara"][1] # 0 /\ para["oImgPara"][2] # 0
  THEN {para["oImgPara"]} ELSE CameraSizes

DisplayVideo ==
  /\ pc = "display"
  /\ IF Enabled("displayEnable") /\ para["display"][1] >= 0
     THEN Optional("display", LastVideo, "aacDec")
     ELSE Skip("aacDec")
  /\ IF "display" \in made' \ made
     THEN /\ plane' \in PlaneSizes
          /\ \E size \in OutputSizes :
               rect' = Rect(plane', size, para["displayCorp"])
     ELSE UNCHANGED <<plane, rect>>
  /\ UNCHANGED confVars

PlayAudio ==
  /\ pc = "aacDec"
  /\ IF Enabled("aplayEnable") /\ HasAudio /\ Given("aplayDev")
     THEN Optional("aacDec", "aacEnc", "pushRga")
     ELSE Skip("pushRga")
  /\ UNCHANGED <<confVars, plane, rect>>

PushVideo ==
  /\ \/ /\ pc = "pushRga"
        /\ IF Enabled("pushVideoEnable") /\ Positive("pushPort")
           THEN Required("pushRga", LastVideo, "pushEnc")
           ELSE Skip("rtspAudio")
     \/ pc = "pushEnc" /\ Required("pushEnc", "pushRga", "rtsp")
     \/ pc = "rtsp" /\ Required("rtsp", "pushEnc", "rtspAudio")
  /\ UNCHANGED <<confVars, plane, rect>>

\* The server it extends may be a null pointer.
PushAudio ==
  /\ pc = "rtspAudio"
  /\ IF Enabled("pushAudioEnable") /\ HasAudio
     THEN Optional("rtspAudio", "aacEnc", "enc")
     ELSE Skip("enc")
  /\ UNCHANGED <<confVars, plane, rect>>

WriteFile ==
  /\ \/ /\ pc = "enc"
        /\ IF Given("outputFile") THEN Required("enc", LastVideo, "writer")
           ELSE Skip("store")
     \/ pc = "writer" /\ Required("writer", "enc", "writerAudio")
     \/ /\ pc = "writerAudio"
        /\ IF HasAudio THEN Required("writerAudio", "aacEnc", "store")
           ELSE Skip("store")
  /\ UNCHANGED <<confVars, plane, rect>>

\* v_source, a_source, f_enc, writer, r_enc, rtsp and display.
StoreMembers ==
  /\ pc = "store"
  /\ members' = made \cap {"cam", "capture", "enc", "writer", "pushEnc",
                           "rtsp", "display"}
  /\ pc' = "ready"
  /\ UNCHANGED <<confVars, made, consumers, plane, rect>>

-----------------------------------------------------------------------------
Init ==
  /\ ConfInit
  /\ made = {}
  /\ consumers = {}
  /\ plane = <<0, 0>>
  /\ rect = << >>
  /\ members = {}

ReadConf == ConfNext /\ UNCHANGED <<graphVars, plane, rect>>

Returned == pc \in {"ready", "failed"} /\ UNCHANGED vars

Construct ==
  \/ OpenCamera \/ OpenCapture \/ EncodeAudio \/ DecodeVideo \/ ConvertVideo
  \/ DisplayVideo \/ PlayAudio \/ PushVideo \/ PushAudio \/ WriteFile
  \/ StoreMembers

Next == ReadConf \/ Construct \/ Returned

Spec == Init /\ [][Next]_vars

\* The thread of main runs, and no call of the library blocks for ever.
FairSpec == Spec /\ WF_vars(ReadConf \/ Construct)

-----------------------------------------------------------------------------
ModuleNames ==
  {"cam", "capture", "aacEnc", "dec", "rga", "display", "aacDec", "pushRga",
   "pushEnc", "rtsp", "rtspAudio", "enc", "writer", "writerAudio"}

Stages == {"open", "parse", "camera", "store", "ready", "failed"} \cup
          (ModuleNames \ {"cam"})

TypeOK ==
  /\ confFile \in ConfFiles
  /\ pc \in Stages
  /\ line \in 0..Len(confFile)
  /\ strFail \in BOOLEAN
  /\ temp \in {""} \cup {confFile[i].key : i \in 1..line}
  /\ DOMAIN para = Keys
  /\ made \subseteq ModuleNames
  /\ consumers \subseteq ({"none"} \cup ModuleNames) \X ModuleNames
  /\ plane \in PlaneSizes \cup {<<0, 0>>}
  /\ rect = << >> \/ (DOMAIN rect = 1..4 /\ \A i \in 1..4 : rect[i] \in Nat)
  /\ members \subseteq ModuleNames

(***************************************************************************)
(* A setting is what the last line for it says, whatever the other lines   *)
(* hold and in whichever order they come: a field is given by the last     *)
(* line of its key on which it has a word and only numbers before it       *)
(* (osd.cpp:130-622).  The three parsers that do not keep what they find   *)
(* are right as long as no line of blanks makes them run again             *)
(* (osd.cpp:614), and the duration as long as each of its lines gives one, *)
(* of at most 2147 seconds.                                                *)
(***************************************************************************)
LinesOf(k) == {i \in 1..line : confFile[i].key = k}
Words(i) == confFile[i].words
LastIn(S) == CHOOSE i \in S : \A j \in S : j <= i

\* The lines of k that say something of field f.
Saying(k, f) ==
  {i \in LinesOf(k) : f <= Len(Words(i)) /\ AllNumbers(Words(i), f - 1)}

FieldSays(k, f) ==
  IF Saying(k, f) = {} THEN Default(k)[f]
  ELSE LET word == Words(LastIn(Saying(k, f)))[f]
       IN  IF word = NaN THEN 0 ELSE word

Blanks == \E i \in 1..line : confFile[i].key = " "

NumberIsLast(k) == para[k] = [f \in DOMAIN Default(k) |-> FieldSays(k, f)]

DefaultIsLast(k) ==
  LET S == LinesOf(k)
  IN  Blanks \/ para[k] = (IF S = {} THEN Default(k)
                          ELSE IF Words(LastIn(S)) = << >> THEN Default(k)
                          ELSE <<FieldSays(k, 1)>>)

DurationIsLast ==
  LET S == LinesOf("fileMaxDuration")
  IN  \/ Blanks
      \/ \E i \in S : Words(i) = << >> \/ Words(i)[1] > 2147
      \/ para["fileMaxDuration"] =
           LET n == FieldSays("fileMaxDuration", 1)
           IN  <<IF n > 0 THEN 1000000 * n ELSE n>>

\* The lines of k with a word, or with a quotation, which may be empty.
WithWord(k) ==
  {i \in LinesOf(k) :
     Words(i) # << >> \/ (k \in TextKeys /\ confFile[i].quoted)}

WordIsLast(k) ==
  para[k] = (IF WithWord(k) = {} THEN Default(k)
             ELSE LET l == confFile[LastIn(WithWord(k))]
                  IN  IF k \in TextKeys /\ l.quoted THEN l.words
                      ELSE IF k \notin FlagKeys THEN <<l.words[1]>>
                      ELSE IF l.words[1] \in {NaN, 0} THEN <<0>> ELSE <<1>>)

LastLineWins ==
  /\ \A k \in Keys \ NumberKeys : WordIsLast(k)
  /\ \A k \in NumberKeys \ {"oRotate", "encType", "fileMaxDuration"} :
       NumberIsLast(k)
  /\ DefaultIsLast("oRotate") /\ DefaultIsLast("encType")
  /\ DurationIsLast

(***************************************************************************)
(* What init() leaves when it succeeds: a module in the list of a consumer *)
(* has been initialised, as has the module it is in the list of, which is  *)
(* the only one; from a source that start() and stop() know every module   *)
(* is reached; and the osd thread, which stops f_enc to give writer        *)
(* another file, has either both or none (osd.cpp:802-808, 960-999, 1021). *)
(***************************************************************************)
Fed(c) == {p \in made \cup {"none"} : <<p, c>> \in consumers}

Reaches[n \in Nat] ==
  IF n = 0 THEN members \cap {"cam", "capture"}
  ELSE LET R == Reaches[n - 1]
       IN  R \cup {c \in ModuleNames : \E p \in R : <<p, c>> \in consumers}

GraphSound ==
  pc = "ready" =>
    /\ members \subseteq made
    /\ \A e \in consumers : e[2] \in made
    /\ \A c \in made : Cardinality(Fed(c)) = 1
    /\ Reaches[Cardinality(ModuleNames)] = made
    /\ "enc" \in members <=> "writer" \in members

(***************************************************************************)
(* The picture is put inside the plane of the display, whatever            *)
(* displayCorp asks for: neither edge is passed, also when the crop begins *)
(* outside (the differences are unsigned: osd.cpp:815-830).                *)
(***************************************************************************)
RectInsidePlane ==
  rect # << >> =>
    /\ \A i \in 1..4 : rect[i] >= 0
    /\ rect[1] + rect[3] <= plane[1]
    /\ rect[2] + rect[4] <= plane[2]

(***************************************************************************)
(* init() returns for every file without a line that is too long for       *)
(* getline (osd.cpp:605).                                                  *)
(***************************************************************************)
NoLongLine == \A i \in 1..Len(confFile) : ~confFile[i].long

InitReturns == NoLongLine ~> pc \in {"ready", "failed"}
=============================================================================
