-------------------------- MODULE OsdPipelineProof --------------------------
(***************************************************************************)
(* Proofs about OsdPipeline for every configuration file, every size of    *)
(* plane and picture, and every choice of the modules that fail.           *)
(***************************************************************************)
EXTENDS OsdPipeline, FiniteSetTheorems, SequenceTheorems, TLAPS

-----------------------------------------------------------------------------
(***************************************************************************)
(* The inductive invariant.                                                *)
(***************************************************************************)

\* Where a module is in the order in which init() makes them, and how many
\* of them are behind init() at a stage.
Place(s) ==
  CASE s = "capture"   -> 1  [] s = "aacEnc"      -> 2
    [] s = "dec"       -> 3  [] s = "rga"         -> 4
    [] s = "display"   -> 5  [] s = "aacDec"      -> 6
    [] s = "pushRga"   -> 7  [] s = "pushEnc"     -> 8
    [] s = "rtsp"      -> 9  [] s = "rtspAudio"   -> 10
    [] s = "enc"       -> 11 [] s = "writer"      -> 12
    [] s = "writerAudio" -> 13
    [] s \in {"store", "ready"} -> 14
    [] OTHER -> 0

\* The module c is made behind.
Feeder(c) ==
  CASE c = "dec" -> "cam"
    [] c = "rga" -> IF "dec" \in made THEN "dec" ELSE "cam"
    [] c = "aacEnc" -> "capture"
    [] c \in {"display", "pushRga", "enc"} -> "rga"
    [] c \in {"aacDec", "rtspAudio", "writerAudio"} -> "aacEnc"
    [] c = "pushEnc" -> "pushRga"
    [] c = "rtsp" -> "pushEnc"
    [] c = "writer" -> "enc"
    [] OTHER -> "none"

MadeInOrder == \A c \in made : Place(c) < Place(pc) \/ c = "cam"

\* "display", "pushRga" and "enc" come after "rga".
FeederMade ==
  /\ \A c \in made : Feeder(c) \in made \cup {"none"}
  /\ pc \in {"aacEnc", "pushEnc", "rtsp", "writer"} => Feeder(pc) \in made
  /\ "cam" \in made <=> Place(pc) > 0
  /\ Place(pc) > 4 => "rga" \in made
  /\ Place(pc) > 12 /\ "enc" \in made => "writer" \in made

EdgesOfMade == consumers = {<<Feeder(c), c>> : c \in made}

MembersStored ==
  members = IF pc = "ready"
            THEN made \cap {"cam", "capture", "enc", "writer", "pushEnc",
                            "rtsp", "display"}
            ELSE {}

GraphInv ==
  pc # "failed" => MadeInOrder /\ FeederMade /\ EdgesOfMade /\ MembersStored

\* Sizes are unsigned.
SizesUnsigned ==
  /\ para["oImgPara"] \in [1..2 -> Nat]
  /\ para["displayCorp"] \in [1..4 -> Nat]

IInv == TypeOK /\ SizesUnsigned /\ GraphInv /\ RectInsidePlane

-----------------------------------------------------------------------------
(***************************************************************************)
(* Lines and the fields they are read into.                                *)
(***************************************************************************)
LineSet == [key: STRING, words: Seq(Int), quoted: BOOLEAN, long: BOOLEAN]

\* A line of the file has a first word and numbers behind it; nothing is
\* behind a word of blanks, and no number of a size is negative.
LEMMA LineType ==
  ASSUME NEW file \in ConfFiles, NEW i \in 1..Len(file)
  PROVE  /\ file[i] \in LineSet
         /\ file[i].key = " " => file[i].words = << >> /\ ~file[i].quoted
         /\ file[i].key \in UnsignedKeys =>
              \A j \in 1..Len(file[i].words) :
                file[i].words[j] >= 0 \/ file[i].words[j] = NaN
<1>1. file \in Seq(LineSet)
  BY FileAssumption DEF FileAssumption, LineSet
<1>2. file[i] \in LineSet
  BY <1>1, ElementOfSeq
<1> QED BY <1>2, FileAssumption DEF FileAssumption

\* The extractions of a sequence of fields keep their number.
LEMMA ReadNumbersNat ==
  ASSUME NEW n \in Nat, NEW old \in [1..n -> Nat], NEW words \in Seq(Int),
         \A j \in 1..Len(words) : words[j] >= 0 \/ words[j] = NaN
  PROVE  ReadNumbers(old, words) \in [1..n -> Nat]
<1>1. DOMAIN old = 1..n
  OBVIOUS
<1>2. ASSUME NEW i \in 1..n
      PROVE  (IF i <= Len(words) /\ AllNumbers(words, i - 1)
              THEN IF words[i] = NaN THEN 0 ELSE words[i]
              ELSE old[i]) \in Nat
  <2>1. CASE i <= Len(words) /\ words[i] # NaN
    <3>1. words[i] \in Int /\ words[i] >= 0
      BY <2>1
    <3> QED BY <3>1, <2>1
  <2> QED BY <2>1
<1> QED BY <1>1, <1>2 DEF ReadNumbers

LEMMA SizeDefaults ==
  /\ Default("oImgPara") = <<0, 0>>
  /\ Default("displayCorp") = <<0, 0, 0, 0>>
  /\ {"oImgPara", "displayCorp"} \subseteq Keys
  BY DEF Default, Keys, NumberKeys, SizeKeys, TextKeys, WordKeys, TextParaKeys

\* The parser of a size stores unsigned numbers.
LEMMA SizeParsed ==
  ASSUME NEW k \in {"oImgPara", "displayCorp"}, NEW n \in Nat,
         NEW old \in [1..n -> Nat], NEW l \in LineSet,
         \A j \in 1..Len(l.words) : l.words[j] >= 0 \/ l.words[j] = NaN
  PROVE  Parse(k, old, l) \in [1..n -> Nat]
<1>1. Parse(k, old, l) = ReadNumbers(old, l.words)
  BY DEF Parse, TextKeys, WordKeys, FlagKeys
<1>2. l.words \in Seq(Int)
  BY DEF LineSet
<1>3. ReadNumbers(old, l.words) \in [1..n -> Nat]
  <2> DEFINE w == l.words
  <2>1. w \in Seq(Int) /\ \A j \in 1..Len(w) : w[j] >= 0 \/ w[j] = NaN
    BY <1>2
  <2> HIDE DEF w
  <2>2. ReadNumbers(old, w) \in [1..n -> Nat]
    BY <2>1, ReadNumbersNat
  <2> QED BY <2>2 DEF w
<1> QED BY <1>1, <1>3

-----------------------------------------------------------------------------
(***************************************************************************)
(* What ReadConf does to the fields.                                       *)
(***************************************************************************)
\* The state of the reading, without that of the pipeline.
ReadType ==
  /\ confFile \in ConfFiles
  /\ line \in 0..Len(confFile)
  /\ strFail \in BOOLEAN
  /\ temp \in {""} \cup {confFile[i].key : i \in 1..line}
  /\ DOMAIN para = Keys

GraphType ==
  /\ made \subseteq ModuleNames
  /\ consumers \subseteq ({"none"} \cup ModuleNames) \X ModuleNames
  /\ members \subseteq ModuleNames

PlaneType ==
  /\ plane \in PlaneSizes \cup {<<0, 0>>}
  /\ rect = << >> \/ (DOMAIN rect = 1..4 /\ \A i \in 1..4 : rect[i] \in Nat)

LEMMA TypeParts == TypeOK <=> ReadType /\ GraphType /\ PlaneType /\ pc \in Stages
  BY DEF TypeOK, ReadType, GraphType, PlaneType

LEMMA FileType ==
  ASSUME ReadType
  PROVE  /\ confFile \in Seq(LineSet)
         /\ Len(confFile) \in Nat
         /\ line \in Nat /\ line <= Len(confFile)
<1>1. confFile \in Seq(LineSet)
  BY FileAssumption DEF FileAssumption, LineSet, ReadType
<1>2. Len(confFile) \in Nat
  BY <1>1
<1>3. line \in 0..Len(confFile)
  BY DEF ReadType
<1> QED BY <1>1, <1>2, <1>3

LEMMA ReadConfStep ==
  ASSUME ReadType, SizesUnsigned, ConfNext
  PROVE  ReadType' /\ SizesUnsigned'
<1>0. Len(confFile) \in Nat /\ line \in Nat /\ line <= Len(confFile)
  BY FileType
<1>k. temp \in {""} \cup {confFile[i].key : i \in 1..(line + 1)}
  <2>1. \A i \in 1..line : i \in 1..(line + 1)
    BY <1>0
  <2>2. temp \in {""} \cup {confFile[i].key : i \in 1..line}
    BY DEF ReadType
  <2> QED BY <2>1, <2>2
<1>1. CASE OpenConf
  BY <1>1 DEF OpenConf, confVars, ReadType, SizesUnsigned
<1>2. CASE SkipLine
  <2>0. line < Len(confFile)
    BY <1>2 DEF SkipLine
  <2>1. line + 1 \in 1..Len(confFile)
    BY <1>0, <2>0
  <2>2. confFile[line + 1].long \in BOOLEAN
    BY <2>1, LineType DEF LineSet, ReadType
  <2>3. /\ strFail' = confFile[line + 1].long
        /\ line' = line + 1
        /\ UNCHANGED <<confFile, temp, para>>
    BY <1>2 DEF SkipLine
  <2>4. temp' \in {""} \cup {confFile'[i].key : i \in 1..line'}
    BY <1>k, <2>3
  <2>5. line' \in 0..Len(confFile')
    BY <1>0, <2>1, <2>3
  <2> QED BY <2>2, <2>3, <2>4, <2>5 DEF ReadType, SizesUnsigned
<1>3. CASE ParseLine
  <2> DEFINE l == confFile[line + 1]
             k == IF l.key = " " THEN temp ELSE l.key
  <2>0. line < Len(confFile)
    BY <1>3 DEF ParseLine
  <2>1. line + 1 \in 1..Len(confFile)
    BY <1>0, <2>0
  <2>2. /\ l \in LineSet
        /\ l.key = " " => l.words = << >>
        /\ l.key \in UnsignedKeys =>
             \A j \in 1..Len(l.words) : l.words[j] >= 0 \/ l.words[j] = NaN
    BY <2>1, LineType DEF ReadType
  <2>3. l.long \in BOOLEAN
    BY <2>2 DEF LineSet
  <2>k. k \in {""} \cup {confFile[i].key : i \in 1..(line + 1)}
    <3>1. line + 1 \in 1..(line + 1)
      BY <1>0
    <3> QED BY <1>k, <3>1
  <2>4. /\ temp' = k
        /\ para' = IF k \in Keys THEN [para EXCEPT ![k] = Parse(k, para[k], l)]
                   ELSE para
        /\ strFail' = l.long
        /\ line' = line + 1
        /\ UNCHANGED <<confFile, pc>>
    BY <1>3 DEF ParseLine
  <2> HIDE DEF k, l
  <2>5. ReadType'
    <3>1. line' \in 0..Len(confFile')
      BY <1>0, <2>1, <2>4
    <3>2. DOMAIN para' = Keys
      BY <2>4 DEF ReadType
    <3>3. temp' \in {""} \cup {confFile'[i].key : i \in 1..line'}
      BY <2>k, <2>4
    <3> QED BY <2>3, <2>4, <3>1, <3>2, <3>3 DEF ReadType
  <2>6. ASSUME NEW s \in {"oImgPara", "displayCorp"}, NEW n \in Nat,
               para[s] \in [1..n -> Nat]
        PROVE  para'[s] \in [1..n -> Nat]
    <3>1. CASE k = s
      <4>1. \A j \in 1..Len(l.words) : l.words[j] >= 0 \/ l.words[j] = NaN
        <5>1. CASE l.key = " "
          <6>1. l.words = << >>
            BY <5>1, <2>2
          <6> QED BY <6>1
        <5>2. CASE l.key = s
          BY <5>2, <2>2 DEF UnsignedKeys
        <5> QED BY <5>1, <5>2, <3>1 DEF k
      <4>2. Parse(s, para[s], l) \in [1..n -> Nat]
        BY <2>6, <4>1, <2>2, SizeParsed
      <4> QED BY <4>2, <2>4, <3>1, SizeDefaults DEF ReadType
    <3>2. CASE k # s
      BY <3>2, <2>4, <2>6
    <3> QED BY <3>1, <3>2
  <2>7. SizesUnsigned'
    BY <2>6 DEF SizesUnsigned
  <2> QED BY <2>5, <2>7
<1>4. CASE SpinOnFailure
  BY <1>4 DEF SpinOnFailure, confVars, ReadType, SizesUnsigned
<1>5. CASE EndOfFile
  BY <1>5 DEF EndOfFile, confVars, ReadType, SizesUnsigned
<1> QED BY <1>1, <1>2, <1>3, <1>4, <1>5 DEF ConfNext

-----------------------------------------------------------------------------
(***************************************************************************)
(* The picture on the plane.                                               *)
(***************************************************************************)
LEMMA HalfOfRest ==
  ASSUME NEW a \in Nat, NEW b \in Nat, b <= a
  PROVE  (a - b) \div 2 \in Nat /\ (a - b) \div 2 + b <= a
  OBVIOUS

\* What is asked for does not matter: the rectangle is in the plane.
THEOREM RectInside ==
  ASSUME NEW t, t[1] \in Nat, t[2] \in Nat,
         NEW size, size[1] \in Nat, size[2] \in Nat,
         NEW corp, \A i \in 1..4 : corp[i] \in Nat,
         NEW r, r = Rect(t, size, corp)
  PROVE  /\ r # << >> /\ DOMAIN r = 1..4
         /\ \A i \in 1..4 : r[i] \in Nat
         /\ r[1] + r[3] <= t[1] /\ r[2] + r[4] <= t[2]
<1>1. CASE corp[3] > 0 /\ corp[4] > 0
  <2> DEFINE x == Least(t[1], corp[1])  y == Least(t[2], corp[2])
             w == Least(t[1] - x, corp[3])  h == Least(t[2] - y, corp[4])
  <2>1. x \in Nat /\ y \in Nat /\ x <= t[1] /\ y <= t[2]
    BY DEF Least
  <2>2. w \in Nat /\ h \in Nat /\ x + w <= t[1] /\ y + h <= t[2]
    BY <2>1 DEF Least
  <2>3. r = <<x, y, w, h>>
    BY <1>1 DEF Rect
  <2> HIDE DEF x, y, w, h
  <2> QED BY <2>1, <2>2, <2>3
<1>2. CASE ~(corp[3] > 0 /\ corp[4] > 0)
  <2> DEFINE w == Least(t[1], size[1])  h == Least(t[2], size[2])
             x == (t[1] - w) \div 2  y == (t[2] - h) \div 2
  <2>1. w \in Nat /\ h \in Nat /\ w <= t[1] /\ h <= t[2]
    BY DEF Least
  <2>2. r = <<x, y, w, h>>
    BY <1>2 DEF Rect
  <2> HIDE DEF w, h
  <2>3. x \in Nat /\ y \in Nat /\ x + w <= t[1] /\ y + h <= t[2]
    BY <2>1, HalfOfRest
  <2> HIDE DEF x, y
  <2> QED BY <2>1, <2>2, <2>3
<1> QED BY <1>1, <1>2

\* The rectangle is given when the plane is known, and stays with it.
LEMMA DisplayStep ==
  ASSUME PlaneType, RectInsidePlane, SizesUnsigned, DisplayVideo
  PROVE  PlaneType' /\ RectInsidePlane'
<1>1. CASE "display" \in made' \ made
  <2>1. plane' \in PlaneSizes
    BY <1>1 DEF DisplayVideo
  <2>2. PICK size \in OutputSizes :
          rect' = Rect(plane', size, para["displayCorp"])
    BY <1>1 DEF DisplayVideo
  <2>3. plane'[1] \in Nat /\ plane'[2] \in Nat
    BY <2>1, SizeAssumption DEF SizeAssumption
  <2>4. size[1] \in Nat /\ size[2] \in Nat
    <3>1. CASE size \in CameraSizes
      BY <3>1, SizeAssumption DEF SizeAssumption
    <3>2. CASE size = para["oImgPara"]
      BY <3>2 DEF SizesUnsigned
    <3> QED BY <2>2, <3>1, <3>2 DEF OutputSizes
  <2>5. \A i \in 1..4 : para["displayCorp"][i] \in Nat
    BY DEF SizesUnsigned
  <2>6. /\ DOMAIN rect' = 1..4
        /\ \A i \in 1..4 : rect'[i] \in Nat
        /\ rect'[1] + rect'[3] <= plane'[1]
        /\ rect'[2] + rect'[4] <= plane'[2]
    BY <2>2, <2>3, <2>4, <2>5, RectInside
  <2>7. \A i \in 1..4 : rect'[i] >= 0
    BY <2>6
  <2> QED BY <2>1, <2>6, <2>7 DEF PlaneType, RectInsidePlane
<1>2. CASE ~("display" \in made' \ made)
  BY <1>2 DEF DisplayVideo, PlaneType, RectInsidePlane
<1> QED BY <1>1, <1>2

-----------------------------------------------------------------------------
(***************************************************************************)
(* The stages: each makes at most its own module, behind its feeder.       *)
(***************************************************************************)
StageAfter(s) ==
  CASE s = "camera"  -> {"capture"}     [] s = "capture" -> {"aacEnc", "dec"}
    [] s = "aacEnc"  -> {"dec"}         [] s = "dec"     -> {"rga"}
    [] s = "rga"     -> {"display"}     [] s = "display" -> {"aacDec"}
    [] s = "aacDec"  -> {"pushRga"}
    [] s = "pushRga" -> {"pushEnc", "rtspAudio"}
    [] s = "pushEnc" -> {"rtsp"}        [] s = "rtsp"    -> {"rtspAudio"}
    [] s = "rtspAudio" -> {"enc"}       [] s = "enc"     -> {"writer", "store"}
    [] s = "writer"  -> {"writerAudio"}
    [] s = "writerAudio" -> {"store"}
    [] OTHER -> {}

ModuleOf(s) == IF s = "camera" THEN "cam" ELSE s

\* A stage makes its module, or does without it and, where another stage of
\* the same part would follow, passes that by.
MakeOne(s) ==
  /\ made' = made \cup {ModuleOf(s)}
  /\ consumers' = consumers \cup {<<Feeder(ModuleOf(s)), ModuleOf(s)>>}
  /\ Feeder(ModuleOf(s)) \in made \cup {"none"}
  /\ pc' \in StageAfter(s)
  /\ s \in {"capture", "pushRga", "enc"} =>
       pc' \in {"aacEnc", "pushEnc", "writer"}

DoWithout(s) ==
  /\ s \in {"capture", "dec", "display", "aacDec", "pushRga", "rtspAudio",
            "enc", "writerAudio"}
  /\ made' = made /\ consumers' = consumers
  /\ pc' \in StageAfter(s) \ {"aacEnc", "pushEnc", "writer"}

StageStep ==
  /\ pc \in Stages \ {"open", "parse", "store", "ready", "failed"}
  /\ members' = members
  /\ MakeOne(pc) \/ DoWithout(pc) \/ pc' = "failed"

\* The module a stage is behind is the feeder of its module.
LEMMA LastVideoIsFeeder ==
  ASSUME GraphInv, pc # "failed"
  PROVE  /\ pc = "rga" => LastVideo = Feeder("rga")
         /\ pc \in {"display", "pushRga", "enc"} => LastVideo = "rga"
         /\ pc \in {"dec", "rga"} => "cam" \in made
         /\ LastVideo \in made \/ Place(pc) = 0
<1>1. pc = "rga" => "rga" \notin made
  BY DEF GraphInv, MadeInOrder, Place
<1>2. pc \in {"display", "pushRga", "enc"} => "rga" \in made
  <2>1. Place(pc) > 4 => "rga" \in made
    BY DEF GraphInv, FeederMade
  <2>2. pc \in {"display", "pushRga", "enc"} => Place(pc) > 4
    BY DEF Place
  <2> QED BY <2>1, <2>2
<1>3. Place(pc) > 0 => "cam" \in made
  BY DEF GraphInv, FeederMade
<1>4. pc \in {"dec", "rga"} => "cam" \in made
  BY <1>3 DEF Place
<1>5. Place(pc) \in Nat
  BY DEF Place
<1> QED BY <1>1, <1>2, <1>3, <1>4, <1>5 DEF LastVideo, Feeder

LEMMA ConstructStep ==
  ASSUME GraphInv, Construct
  PROVE  StoreMembers \/ StageStep
<1> USE DEF StageStep, Stages, ModuleNames, Required, Optional, Skip, graphVars,
            MakeOne, DoWithout, ModuleOf, StageAfter, Feeder
<1>1. CASE OpenCamera
  BY <1>1 DEF OpenCamera
<1>2. CASE OpenCapture
  BY <1>2 DEF OpenCapture
<1>3. CASE EncodeAudio
  <2>1. "capture" \in made
    BY <1>3 DEF EncodeAudio, GraphInv, FeederMade
  <2> QED BY <1>3, <2>1 DEF EncodeAudio
<1>4. CASE DecodeVideo
  <2>1. "cam" \in made
    BY <1>4, LastVideoIsFeeder DEF DecodeVideo
  <2> QED BY <1>4, <2>1 DEF DecodeVideo
<1>5. CASE ConvertVideo
  <2>1. LastVideo = Feeder("rga") /\ "cam" \in made
    BY <1>5, LastVideoIsFeeder DEF ConvertVideo
  <2> QED BY <1>5, <2>1 DEF ConvertVideo
<1>6. CASE DisplayVideo
  <2>1. LastVideo = "rga" /\ "rga" \in made
    BY <1>6, LastVideoIsFeeder DEF DisplayVideo, LastVideo
  <2> QED BY <1>6, <2>1 DEF DisplayVideo
<1>7. CASE PlayAudio
  BY <1>7 DEF PlayAudio, HasAudio
<1>8. CASE PushVideo
  <2>1. pc = "pushRga" => LastVideo = "rga" /\ "rga" \in made
    BY LastVideoIsFeeder DEF LastVideo
  <2>2. /\ pc = "pushEnc" => "pushRga" \in made
        /\ pc = "rtsp" => "pushEnc" \in made
    BY DEF GraphInv, FeederMade
  <2> QED BY <1>8, <2>1, <2>2 DEF PushVideo
<1>9. CASE PushAudio
  BY <1>9 DEF PushAudio, HasAudio
<1>10. CASE WriteFile
  <2>1. pc = "enc" => LastVideo = "rga" /\ "rga" \in made
    BY LastVideoIsFeeder DEF LastVideo
  <2>2. pc = "writer" => "enc" \in made
    BY DEF GraphInv, FeederMade
  <2> QED BY <1>10, <2>1, <2>2 DEF WriteFile, HasAudio
<1> QED BY <1>1, <1>2, <1>3, <1>4, <1>5, <1>6, <1>7, <1>8, <1>9, <1>10
        DEF Construct

-----------------------------------------------------------------------------
(***************************************************************************)
(* The graph is kept.                                                      *)
(***************************************************************************)

\* The stages come one after the other.
LEMMA PlaceGrows ==
  ASSUME NEW s \in Stages, NEW n \in StageAfter(s)
  PROVE  /\ n \in Stages \ {"failed", "ready"}
         /\ Place(s) \in Nat /\ Place(n) \in Nat /\ Place(s) < Place(n)
         /\ s # "camera" => Place(s) > 0 /\ ModuleOf(s) # "cam"
         /\ s \notin {"camera", "capture", "aacEnc", "dec", "rga"} => Place(s) > 4
         /\ Place(ModuleOf(s)) = Place(s)
         /\ Place(n) > 4 => s = "rga" \/ Place(s) > 4
         /\ Place(n) > 12 =>
              s = "writer" \/ Place(s) > 12 \/ (s = "enc" /\ n = "store")
         /\ s \in {"aacEnc", "dec", "rga"} => n \notin {"aacEnc", "pushEnc", "rtsp", "writer"}
  BY DEF Place, StageAfter, ModuleOf, Stages, ModuleNames

LEMMA PlaceNat ==
  ASSUME NEW s
  PROVE  Place(s) \in Nat
  BY DEF Place

\* What is made feeds the same as before: "dec" comes before "rga".
LEMMA FeederStable ==
  ASSUME GraphInv, StageStep, pc' # "failed", NEW c \in made
  PROVE  Feeder(c)' = Feeder(c)
<1>1. CASE c = "rga"
  <2>1. pc # "dec"
    BY <1>1 DEF GraphInv, MadeInOrder, Place, StageStep
  <2>2. "dec" \in made' <=> "dec" \in made
    BY <2>1 DEF StageStep, MakeOne, DoWithout, ModuleOf
  <2> QED BY <1>1, <2>2 DEF Feeder
<1>2. CASE c # "rga"
  BY <1>2 DEF Feeder
<1> QED BY <1>1, <1>2

LEMMA GraphStep ==
  ASSUME GraphInv, StageStep, pc' # "failed"
  PROVE  GraphInv'
<1>m. PICK m : m = ModuleOf(pc)
  OBVIOUS
<1>0. /\ pc \in Stages /\ pc # "failed" /\ pc # "ready"
      /\ pc' \in StageAfter(pc)
      /\ MakeOne(pc) \/ DoWithout(pc)
  BY DEF StageStep, MakeOne, DoWithout
<1>1. MadeInOrder /\ FeederMade /\ EdgesOfMade /\ MembersStored
  BY <1>0 DEF GraphInv
<1>2. /\ pc' \in Stages \ {"failed", "ready"}
      /\ Place(pc) \in Nat /\ Place(pc') \in Nat /\ Place(pc) < Place(pc')
      /\ pc # "camera" => Place(pc) > 0 /\ ModuleOf(pc) # "cam"
      /\ Place(m) = Place(pc)
      /\ Place(pc') > 4 => pc = "rga" \/ Place(pc) > 4
      /\ Place(pc') > 12 =>
           pc = "writer" \/ Place(pc) > 12 \/ (pc = "enc" /\ pc' = "store")
  BY <1>0, <1>m, PlaceGrows
<1>3. made' = made \cup {m} \/ made' = made
  BY <1>0, <1>m DEF MakeOne, DoWithout
<1>4. \A c \in made : Feeder(c)' = Feeder(c)
  BY FeederStable
<1>5. MadeInOrder'
  <2> SUFFICES ASSUME NEW c \in made', c # "cam"
               PROVE  Place(c) < Place(pc')
    BY DEF MadeInOrder
  <2>1. Place(c) < Place(pc) \/ Place(c) = Place(pc)
    BY <1>1, <1>2, <1>3 DEF MadeInOrder
  <2> QED BY <2>1, <1>2, PlaceNat
<1>6. ASSUME MakeOne(pc)
      PROVE  Feeder(m)' = Feeder(m)
  <2>1. CASE m = "rga"
    <3>1. "dec" \in made' <=> "dec" \in made
      BY <2>1, <1>m, <1>6 DEF MakeOne
    <3> QED BY <3>1, <2>1 DEF Feeder
  <2>2. CASE m # "rga"
    BY <2>2 DEF Feeder
  <2> QED BY <2>1, <2>2
<1>7. EdgesOfMade'
  <2>1. CASE MakeOne(pc)
    <3>1. consumers' = {<<Feeder(c), c>> : c \in made} \cup {<<Feeder(m), m>>}
      BY <2>1, <1>1, <1>m DEF MakeOne, EdgesOfMade
    <3>2. made' = made \cup {m}
      BY <2>1, <1>m DEF MakeOne
    <3>3. \A c \in made' : Feeder(c)' = Feeder(c)
      BY <1>4, <1>6, <2>1, <3>2
    <3>4. consumers' = {<<Feeder(c), c>> : c \in made'}
      BY <3>1, <3>2
    <3> QED BY <3>3, <3>4 DEF EdgesOfMade
  <2>2. CASE DoWithout(pc)
    BY <2>2, <1>1, <1>4 DEF DoWithout, EdgesOfMade
  <2> QED BY <1>0, <2>1, <2>2
<1>8. FeederMade'
  <2>1. \A c \in made' : Feeder(c)' \in made' \cup {"none"}
    <3>1. \A c \in made : Feeder(c)' \in made' \cup {"none"}
      BY <1>1, <1>3, <1>4 DEF FeederMade
    <3>2. CASE MakeOne(pc)
      <4>1. Feeder(m)' \in made \cup {"none"} /\ made' = made \cup {m}
        BY <3>2, <1>6, <1>m DEF MakeOne
      <4> QED BY <4>1, <3>1
    <3>3. CASE DoWithout(pc)
      BY <3>1, <3>3 DEF DoWithout
    <3> QED BY <1>0, <3>2, <3>3
  <2>2. ASSUME pc' \in {"aacEnc", "pushEnc", "rtsp", "writer"}
        PROVE  (Feeder(pc) \in made)'
    <3>1. /\ pc' = "aacEnc" => pc = "capture"
          /\ pc' = "pushEnc" => pc = "pushRga"
          /\ pc' = "rtsp" => pc = "pushEnc"
          /\ pc' = "writer" => pc = "enc"
      BY <1>0, <2>2 DEF StageAfter
    <3>2. MakeOne(pc)
      BY <1>0, <2>2, <3>1 DEF DoWithout
    <3>3. m \in made' /\ (pc # "camera" => m = pc)
      BY <3>2, <1>m DEF MakeOne, ModuleOf
    <3> QED BY <2>2, <3>1, <3>3 DEF Feeder
  <2>3. "cam" \in made' /\ Place(pc') > 0
    <3>1. CASE pc = "camera"
      BY <3>1, <1>0, <1>2 DEF MakeOne, DoWithout, ModuleOf
    <3>2. CASE pc # "camera"
      BY <3>2, <1>1, <1>2, <1>3 DEF FeederMade
    <3> QED BY <3>1, <3>2
  <2>4. Place(pc') > 4 => "rga" \in made'
    <3>1. CASE pc = "rga"
      BY <3>1, <1>0 DEF MakeOne, DoWithout, ModuleOf
    <3>2. CASE Place(pc) > 4
      BY <3>2, <1>1, <1>3 DEF FeederMade
    <3> QED BY <1>2, <3>1, <3>2
  <2>5. ASSUME Place(pc') > 12, "enc" \in made'
        PROVE  "writer" \in made'
    <3>1. CASE pc = "writer"
      BY <3>1, <1>0 DEF MakeOne, DoWithout, ModuleOf
    <3>2. CASE Place(pc) > 12
      <4>1. m # "enc"
        BY <3>2, <1>2 DEF Place
      <4> QED BY <3>2, <4>1, <2>5, <1>1, <1>3 DEF FeederMade
    <3>3. CASE pc = "enc" /\ pc' = "store"
      <4>1. made' = made
        BY <3>3, <1>0 DEF MakeOne, DoWithout
      <4>2. "enc" \notin made
        BY <3>3, <1>1, PlaceNat DEF MadeInOrder
      <4> QED BY <4>1, <4>2, <2>5
    <3> QED BY <1>2, <2>5, <3>1, <3>2, <3>3
  <2> QED BY <2>1, <2>2, <2>3, <2>4, <2>5 DEF FeederMade
<1>9. MembersStored'
  BY <1>0, <1>1, <1>2 DEF MembersStored, StageStep
<1> QED BY <1>5, <1>7, <1>8, <1>9 DEF GraphInv

-----------------------------------------------------------------------------
(***************************************************************************)
(* Every step keeps the invariant.                                         *)
(***************************************************************************)

\* A stage changes the graph by its own module and one edge to it.
LEMMA GraphTypeStep ==
  ASSUME GraphType, NEW c \in ModuleNames, NEW p \in {"none"} \cup ModuleNames,
         /\ made' = made \cup {c} \/ made' = made
         /\ consumers' = consumers \cup {<<p, c>>} \/ consumers' = consumers
         /\ members' = members
  PROVE  GraphType'
  BY DEF GraphType

LEMMA ConstructTypes ==
  ASSUME GraphType, pc \in Stages, Construct
  PROVE  GraphType' /\ pc' \in Stages
<1>1. LastVideo \in ModuleNames
  BY DEF LastVideo, ModuleNames
<1> DEFINE Change(c, p) ==
      /\ made' = made \cup {c} \/ made' = made
      /\ consumers' = consumers \cup {<<p, c>>} \/ consumers' = consumers
      /\ members' = members
<1>2. CASE StoreMembers
  BY <1>2 DEF StoreMembers, GraphType, Stages
<1>3. CASE ~StoreMembers
  <2>1. /\ pc' \in Stages
        /\ \E c \in ModuleNames : \E p \in {"none", LastVideo} \cup ModuleNames :
             Change(c, p)
    <3> USE DEF Required, Optional, Skip, graphVars, ModuleNames, Stages
    <3>1. CASE OpenCamera
      <4>1. Change("cam", "none") /\ pc' \in Stages
        BY <3>1 DEF OpenCamera
      <4> QED BY <4>1
    <3>2. CASE OpenCapture
      <4>1. Change("capture", "none") /\ pc' \in Stages
        BY <3>2 DEF OpenCapture
      <4> QED BY <4>1
    <3>3. CASE EncodeAudio
      <4>1. Change("aacEnc", "capture") /\ pc' \in Stages
        BY <3>3 DEF EncodeAudio
      <4> QED BY <4>1
    <3>4. CASE DecodeVideo
      <4>1. Change("dec", "cam") /\ pc' \in Stages
        BY <3>4 DEF DecodeVideo
      <4> QED BY <4>1
    <3>5. CASE ConvertVideo
      <4>1. Change("rga", LastVideo) /\ pc' \in Stages
        BY <3>5 DEF ConvertVideo
      <4> QED BY <4>1
    <3>6. CASE DisplayVideo
      <4>1. Change("display", LastVideo) /\ pc' \in Stages
        BY <3>6 DEF DisplayVideo
      <4> QED BY <4>1
    <3>7. CASE PlayAudio
      <4>1. Change("aacDec", "aacEnc") /\ pc' \in Stages
        BY <3>7 DEF PlayAudio
      <4> QED BY <4>1
    <3>8. CASE PushVideo
      <4>1. CASE pc = "pushRga"
        <5>1. Change("pushRga", LastVideo) /\ pc' \in Stages
          BY <3>8, <4>1 DEF PushVideo
        <5> QED BY <5>1
      <4>2. CASE pc # "pushRga"
        <5>1. /\ Change("pushEnc", "pushRga") \/ Change("rtsp", "pushEnc")
              /\ pc' \in Stages
          BY <3>8, <4>2 DEF PushVideo
        <5> QED BY <5>1
      <4> QED BY <4>1, <4>2
    <3>9. CASE PushAudio
      <4>1. Change("rtspAudio", "aacEnc") /\ pc' \in Stages
        BY <3>9 DEF PushAudio
      <4> QED BY <4>1
    <3>10. CASE WriteFile
      <4>1. /\ \/ Change("enc", LastVideo)
               \/ Change("writer", "enc")
               \/ Change("writerAudio", "aacEnc")
            /\ pc' \in Stages
        BY <3>10 DEF WriteFile
      <4> QED BY <4>1
    <3> QED BY <1>3, <3>1, <3>2, <3>3, <3>4, <3>5, <3>6, <3>7, <3>8, <3>9,
               <3>10 DEF Construct
  <2>2. PICK c \in ModuleNames, p \in {"none", LastVideo} \cup ModuleNames :
          Change(c, p)
    BY <2>1
  <2>3. GraphType'
    BY <1>1, <2>2, GraphTypeStep
  <2> QED BY <2>1, <2>3
<1> QED BY <1>2, <1>3

LEMMA ConfGraph ==
  ASSUME GraphInv, pc \in Stages, ReadConf
  PROVE  GraphInv' /\ pc' \in Stages
<1>1. UNCHANGED graphVars
  BY DEF ReadConf
<1>2. \/ pc = "open" /\ pc' \in {"parse", "failed"}
      \/ pc = "parse" /\ pc' \in {"parse", "camera"}
  <2>1. CASE OpenConf
    BY <2>1 DEF OpenConf
  <2>2. CASE SkipLine
    BY <2>2 DEF SkipLine
  <2>3. CASE ParseLine
    BY <2>3 DEF ParseLine
  <2>4. CASE SpinOnFailure
    BY <2>4 DEF SpinOnFailure
  <2>5. CASE EndOfFile
    BY <2>5 DEF EndOfFile
  <2> QED BY <2>1, <2>2, <2>3, <2>4, <2>5 DEF ReadConf, ConfNext
<1>3. pc' \in Stages
  BY <1>2 DEF Stages
<1>4. \A c : Feeder(c)' = Feeder(c)
  BY <1>1 DEF Feeder, graphVars
<1>5. Place(pc) = 0 /\ Place(pc') = 0
  BY <1>2 DEF Place
<1>6. GraphInv'
  <2>1. MadeInOrder /\ FeederMade /\ EdgesOfMade /\ MembersStored
    BY <1>2 DEF GraphInv
  <2>2. MadeInOrder'
    BY <2>1, <1>1, <1>5 DEF MadeInOrder, graphVars
  <2>3. FeederMade'
    BY <2>1, <1>1, <1>2, <1>4, <1>5 DEF FeederMade, graphVars
  <2>4. EdgesOfMade'
    BY <2>1, <1>1, <1>4 DEF EdgesOfMade, graphVars
  <2>5. MembersStored'
    BY <2>1, <1>1, <1>2 DEF MembersStored, graphVars
  <2> QED BY <2>2, <2>3, <2>4, <2>5 DEF GraphInv
<1> QED BY <1>3, <1>6

LEMMA StoreGraph ==
  ASSUME GraphInv, StoreMembers
  PROVE  GraphInv'
<1>1. MadeInOrder /\ FeederMade /\ EdgesOfMade /\ MembersStored
  BY DEF GraphInv, StoreMembers
<1>2. \A c : Feeder(c)' = Feeder(c)
  BY DEF Feeder, StoreMembers
<1>3. Place(pc) = 14 /\ Place(pc') = 14
  BY DEF Place, StoreMembers
<1>4. pc' = "ready" /\ pc = "store" /\ made' = made /\ consumers' = consumers
  BY DEF StoreMembers
<1>5. MadeInOrder'
  BY <1>1, <1>3, <1>4 DEF MadeInOrder
<1>6. FeederMade'
  BY <1>1, <1>2, <1>3, <1>4 DEF FeederMade
<1>7. EdgesOfMade'
  BY <1>1, <1>2, <1>4 DEF EdgesOfMade
<1>8. MembersStored'
  BY <1>4 DEF MembersStored, StoreMembers
<1> QED BY <1>5, <1>6, <1>7, <1>8 DEF GraphInv

\* The stages but DisplayVideo leave the plane, and all leave the fields.
LEMMA ConstructPlane ==
  ASSUME PlaneType, RectInsidePlane, SizesUnsigned, Construct
  PROVE  PlaneType' /\ RectInsidePlane' /\ UNCHANGED confVars
<1>1. CASE DisplayVideo
  BY <1>1, DisplayStep DEF DisplayVideo
<1>2. CASE ~DisplayVideo
  <2>1. UNCHANGED <<confVars, plane, rect>>
    BY <1>2 DEF Construct, OpenCamera, OpenCapture, EncodeAudio, DecodeVideo,
         ConvertVideo, PlayAudio, PushVideo, PushAudio, WriteFile, StoreMembers
  <2> QED BY <2>1 DEF PlaneType, RectInsidePlane
<1> QED BY <1>1, <1>2

LEMMA InitInv == Init => IInv
<1> SUFFICES ASSUME Init
             PROVE  IInv
  OBVIOUS
<1>1. /\ confFile \in ConfFiles /\ pc = "open" /\ line = 0 /\ strFail = FALSE
      /\ temp = "" /\ para = [k \in Keys |-> Default(k)]
      /\ made = {} /\ consumers = {} /\ plane = <<0, 0>> /\ rect = << >>
      /\ members = {}
  BY DEF Init, ConfInit
<1>2. ReadType
  <2>1. confFile \in Seq(LineSet)
    BY <1>1, FileAssumption DEF FileAssumption, LineSet
  <2>2. Len(confFile) \in Nat
    BY <2>1
  <2>3. DOMAIN para = Keys
    BY <1>1
  <2>4. line \in 0..Len(confFile)
    <3>1. line = 0
      BY <1>1
    <3> QED BY <2>2, <3>1
  <2>5. strFail \in BOOLEAN
    BY <1>1
  <2>6. temp \in {""} \cup {confFile[i].key : i \in 1..line}
    BY <1>1
  <2> QED BY <1>1, <2>3, <2>4, <2>5, <2>6 DEF ReadType
<1>3. GraphType /\ PlaneType /\ pc \in Stages
  BY <1>1 DEF GraphType, PlaneType, Stages
<1>4. SizesUnsigned
  <2>1. para["oImgPara"] = <<0, 0>> /\ para["displayCorp"] = <<0, 0, 0, 0>>
    BY <1>1, SizeDefaults
  <2> QED BY <2>1 DEF SizesUnsigned
<1>5. GraphInv
  <2>1. Place(pc) = 0
    BY <1>1 DEF Place
  <2>2. EdgesOfMade
    <3>1. consumers = {} /\ made = {}
      BY <1>1
    <3> QED BY <3>1 DEF EdgesOfMade
  <2>3. MadeInOrder /\ MembersStored
    BY <1>1 DEF MadeInOrder, MembersStored
  <2>4. FeederMade
    <3>1. made = {} /\ pc = "open"
      BY <1>1
    <3> QED BY <2>1, <3>1 DEF FeederMade
  <2> QED BY <2>2, <2>3, <2>4 DEF GraphInv
<1>6. RectInsidePlane
  BY <1>1 DEF RectInsidePlane
<1> QED BY <1>2, <1>3, <1>4, <1>5, <1>6, TypeParts DEF IInv

LEMMA NextInv == IInv /\ [Next]_vars => IInv'
<1> SUFFICES ASSUME IInv, [Next]_vars
             PROVE  IInv'
  OBVIOUS
<1>0. /\ ReadType /\ GraphType /\ PlaneType /\ pc \in Stages
      /\ SizesUnsigned /\ GraphInv /\ RectInsidePlane
  BY TypeParts DEF IInv
<1>1. CASE ReadConf
  <2>1. ConfNext /\ UNCHANGED <<graphVars, plane, rect>>
    BY <1>1 DEF ReadConf
  <2>2. ReadType' /\ SizesUnsigned'
    BY <1>0, <2>1, ReadConfStep
  <2>3. GraphInv' /\ pc' \in Stages
    BY <1>0, <1>1, ConfGraph
  <2>4. GraphType' /\ PlaneType' /\ RectInsidePlane'
    BY <1>0, <2>1 DEF GraphType, PlaneType, RectInsidePlane, graphVars
  <2> QED BY <2>2, <2>3, <2>4, TypeParts DEF IInv, TypeOK, ReadType, GraphType,
             PlaneType
<1>2. CASE Construct
  <2>1. PlaneType' /\ RectInsidePlane' /\ UNCHANGED confVars
    BY <1>0, <1>2, ConstructPlane
  <2>2. ReadType' /\ SizesUnsigned'
    BY <1>0, <2>1 DEF ReadType, SizesUnsigned, confVars
  <2>3. GraphType' /\ pc' \in Stages
    BY <1>0, <1>2, ConstructTypes
  <2>4. GraphInv'
    <3>1. StoreMembers \/ StageStep
      BY <1>0, <1>2, ConstructStep
    <3>2. CASE StoreMembers
      BY <1>0, <3>2, StoreGraph
    <3>3. CASE StageStep /\ pc' # "failed"
      BY <1>0, <3>3, GraphStep
    <3>4. CASE pc' = "failed"
      BY <3>4 DEF GraphInv
    <3> QED BY <3>1, <3>2, <3>3, <3>4
  <2> QED BY <2>1, <2>2, <2>3, <2>4 DEF IInv, TypeOK, ReadType, GraphType,
             PlaneType
<1>3. CASE UNCHANGED vars
  <2>1. UNCHANGED <<confFile, line, strFail, temp, para, pc, made, consumers,
                    members, plane, rect>>
    BY <1>3 DEF vars, confVars, graphVars
  <2>2. TypeOK' /\ SizesUnsigned' /\ RectInsidePlane'
    BY <2>1 DEF IInv, TypeOK, SizesUnsigned, RectInsidePlane
  <2>3. GraphInv'
    BY <2>1, <1>0 DEF GraphInv, MadeInOrder, FeederMade, EdgesOfMade,
       MembersStored, Feeder
  <2> QED BY <2>2, <2>3 DEF IInv
<1> QED BY <1>1, <1>2, <1>3 DEF Next, Returned

\* The invariant of the construction: every module that is made is behind
\* the feeder of its kind, in the order of the stages, and no size is
\* negative.
THEOREM Inductive == Spec => []IInv
  BY InitInv, NextInv, PTL DEF Spec

(***************************************************************************)
(* The state of ModuleOsd::init has the types of its fields, whatever the  *)
(* file holds and whichever modules fail.                                  *)
(***************************************************************************)
THEOREM TypeCorrect == Spec => []TypeOK
<1>1. IInv => TypeOK
  BY DEF IInv
<1> QED BY <1>1, Inductive, PTL

(***************************************************************************)
(* The picture is put inside the plane of the display, whatever            *)
(* displayCorp and oImgPara ask for and whatever the sizes are.            *)
(***************************************************************************)
THEOREM InsidePlane == Spec => []RectInsidePlane
<1>1. IInv => RectInsidePlane
  BY DEF IInv
<1> QED BY <1>1, Inductive, PTL

-----------------------------------------------------------------------------
(***************************************************************************)
(* The graph that init() leaves.                                           *)
(***************************************************************************)
Below(R) == R \cup {c \in ModuleNames : \E p \in R : <<p, c>> \in consumers}

\* How many modules are between a module and its source.
Depth(c) ==
  CASE c \in {"cam", "capture"} -> 0
    [] c \in {"dec", "aacEnc"} -> 1
    [] c \in {"rga", "aacDec", "rtspAudio", "writerAudio"} -> 2
    [] c \in {"display", "pushRga", "enc"} -> 3
    [] c \in {"pushEnc", "writer"} -> 4
    [] OTHER -> 5

LEMMA DepthOfFeeder ==
  ASSUME NEW c \in ModuleNames
  PROVE  /\ Depth(c) \in 0..5
         /\ c \notin {"cam", "capture"} =>
              /\ Feeder(c) \in ModuleNames
              /\ Depth(Feeder(c)) < Depth(c)
  BY DEF Depth, Feeder, ModuleNames

\* Nothing but what is made is below what is made, and one step down reaches
\* one level more.
LEMMA BelowStep ==
  ASSUME GraphType, FeederMade, EdgesOfMade,
         NEW n \in Nat, NEW R \in SUBSET made,
         {c \in made : Depth(c) <= n} \subseteq R
  PROVE  /\ Below(R) \in SUBSET made
         /\ {c \in made : Depth(c) <= n + 1} \subseteq Below(R)
<1>1. \A e \in consumers : e[2] \in made
  BY DEF EdgesOfMade
<1>2. Below(R) \subseteq made
  BY <1>1 DEF Below
<1>3. ASSUME NEW c \in made, Depth(c) <= n + 1
      PROVE  c \in Below(R)
  <2>1. c \in ModuleNames
    BY DEF GraphType
  <2>2. Depth(c) \in 0..5
    BY <2>1, DepthOfFeeder
  <2>3. CASE Depth(c) <= n
    BY <2>3 DEF Below
  <2>4. CASE Depth(c) = n + 1
    <3>1. c \notin {"cam", "capture"}
      BY <2>4 DEF Depth
    <3>2. Feeder(c) \in ModuleNames /\ Depth(Feeder(c)) < Depth(c)
      BY <2>1, <3>1, DepthOfFeeder
    <3>3. Feeder(c) \in made
      <4>1. "none" \notin ModuleNames
        BY DEF ModuleNames
      <4> QED BY <3>2, <4>1 DEF FeederMade
    <3>4. Depth(Feeder(c)) \in 0..5
      BY <3>2, DepthOfFeeder
    <3>5. Feeder(c) \in R
      BY <2>4, <3>2, <3>3, <3>4
    <3>6. <<Feeder(c), c>> \in consumers
      BY DEF EdgesOfMade
    <3> QED BY <2>1, <3>5, <3>6 DEF Below
  <2> QED BY <1>3, <2>2, <2>3, <2>4
<1> QED BY <1>2, <1>3

\* There are more than five modules.
LEMMA ModuleNumber ==
  /\ IsFiniteSet(ModuleNames)
  /\ Cardinality(ModuleNames) \in Nat /\ Cardinality(ModuleNames) = 14
<1> DEFINE A == {"cam"}  B == A \cup {"capture"}  C == B \cup {"aacEnc"}
           D == C \cup {"dec"}  E == D \cup {"rga"}  F == E \cup {"display"}
           G == F \cup {"aacDec"}  H == G \cup {"pushRga"}
           I == H \cup {"pushEnc"}  J == I \cup {"rtsp"}
           K == J \cup {"rtspAudio"}  L == K \cup {"enc"}
           M == L \cup {"writer"}  N == M \cup {"writerAudio"}
<1>1. IsFiniteSet(A) /\ Cardinality(A) = 1
  BY FS_Singleton
<1>2. IsFiniteSet(B) /\ Cardinality(B) = 2
  BY <1>1, FS_AddElement
<1>3. IsFiniteSet(C) /\ Cardinality(C) = 3
  BY <1>2, FS_AddElement
<1>4. IsFiniteSet(D) /\ Cardinality(D) = 4
  BY <1>3, FS_AddElement
<1>5. IsFiniteSet(E) /\ Cardinality(E) = 5
  BY <1>4, FS_AddElement
<1>6. IsFiniteSet(F) /\ Cardinality(F) = 6
  BY <1>5, FS_AddElement
<1>7. IsFiniteSet(G) /\ Cardinality(G) = 7
  BY <1>6, FS_AddElement
<1>8. IsFiniteSet(H) /\ Cardinality(H) = 8
  BY <1>7, FS_AddElement
<1>9. IsFiniteSet(I) /\ Cardinality(I) = 9
  BY <1>8, FS_AddElement
<1>10. IsFiniteSet(J) /\ Cardinality(J) = 10
  BY <1>9, FS_AddElement
<1>11. IsFiniteSet(K) /\ Cardinality(K) = 11
  BY <1>10, FS_AddElement
<1>12. IsFiniteSet(L) /\ Cardinality(L) = 12
  BY <1>11, FS_AddElement
<1>13. IsFiniteSet(M) /\ Cardinality(M) = 13
  BY <1>12, FS_AddElement
<1>14. IsFiniteSet(N) /\ Cardinality(N) = 14
  BY <1>13, FS_AddElement
<1>15. N = ModuleNames
  BY DEF ModuleNames
<1> QED BY <1>14, <1>15

\* When six levels are enough the equation of Reaches has a solution, which
\* Reaches is.
LEMMA ReachesStep ==
  ASSUME NEW D0, D0 = members \cap {"cam", "capture"},
         NEW D1, D1 = Below(D0), NEW D2, D2 = Below(D1),
         NEW D3, D3 = Below(D2), NEW D4, D4 = Below(D3),
         NEW D5, D5 = Below(D4), D5 = Below(D5)
  PROVE  /\ Reaches[0] = D0
         /\ \A n \in Nat : Reaches[n + 1] = Below(Reaches[n])
<1> DEFINE Step(f, n) == IF n = 0 THEN members \cap {"cam", "capture"}
                         ELSE Below(f[n - 1])
           Solution(f) == f = [n \in Nat |-> Step(f, n)]
           Levels(n) == IF n = 0 THEN D0 ELSE IF n = 1 THEN D1
                        ELSE IF n = 2 THEN D2 ELSE IF n = 3 THEN D3
                        ELSE IF n = 4 THEN D4 ELSE D5
           G == [n \in Nat |-> Levels(n)]
<1>1. Reaches = CHOOSE f : Solution(f)
  BY Zenon DEF Reaches, Below
<1>2. Solution(G)
  <2>1. ASSUME NEW n \in Nat
        PROVE  G[n] = Step(G, n)
    <3>1. CASE n = 0
      BY <3>1
    <3>2. CASE n \in 1..5
      <4>1. n - 1 \in Nat /\ G[n - 1] = Levels(n - 1)
        BY <3>2
      <4> HIDE DEF G
      <4>2. Below(Levels(n - 1)) = Levels(n)
        BY <3>2
      <4> QED BY <3>2, <4>1, <4>2 DEF G
    <3>3. CASE n > 5
      <4>1. n - 1 \in Nat /\ G[n - 1] = D5
        BY <3>3
      <4> QED BY <3>3, <4>1
    <3> QED BY <3>1, <3>2, <3>3
  <2> HIDE DEF Step, Levels
  <2>2. [n \in Nat |-> Levels(n)] = [n \in Nat |-> Step(G, n)]
    BY <2>1
  <2> QED BY <2>2
<1>3. Solution(Reaches)
  <2> HIDE DEF Solution, G
  <2> QED BY <1>1, <1>2
<1>4. ASSUME NEW n \in Nat
      PROVE  Reaches[n] = Step(Reaches, n)
  <2> HIDE DEF Step
  <2> QED BY <1>3
<1>5. Reaches[0] = D0
  BY <1>4
<1>6. ASSUME NEW n \in Nat
      PROVE  Reaches[n + 1] = Below(Reaches[n])
  <2>1. n + 1 \in Nat /\ n + 1 # 0 /\ (n + 1) - 1 = n
    OBVIOUS
  <2> QED BY <1>4, <2>1
<1> QED BY <1>5, <1>6

\* When init() has succeeded every module that was made is reached.
LEMMA AllReached ==
  ASSUME GraphType, GraphInv, pc = "ready"
  PROVE  Reaches[14] = made
<1>1. FeederMade /\ EdgesOfMade /\ MembersStored
  BY DEF GraphInv
<1> DEFINE Upto(n) == {c \in made : Depth(c) <= n}
<1>2. PICK D0 : D0 = members \cap {"cam", "capture"}
  OBVIOUS
<1>3. PICK D1 : D1 = Below(D0)
  OBVIOUS
<1>4. PICK D2 : D2 = Below(D1)
  OBVIOUS
<1>5. PICK D3 : D3 = Below(D2)
  OBVIOUS
<1>6. PICK D4 : D4 = Below(D3)
  OBVIOUS
<1>7. PICK D5 : D5 = Below(D4)
  OBVIOUS
<1>8. D0 \in SUBSET made /\ Upto(0) \subseteq D0
  <2>1. \A c \in made : Depth(c) <= 0 => c \in {"cam", "capture"}
    BY DEF Depth
  <2>2. D0 = made \cap {"cam", "capture"}
    BY <1>1, <1>2 DEF MembersStored
  <2> QED BY <2>1, <2>2
<1>9. D1 \in SUBSET made /\ Upto(0 + 1) \subseteq D1
  BY <1>1, <1>3, <1>8, BelowStep
<1>10. D2 \in SUBSET made /\ Upto(1 + 1) \subseteq D2
  BY <1>1, <1>4, <1>9, BelowStep
<1>11. D3 \in SUBSET made /\ Upto(2 + 1) \subseteq D3
  BY <1>1, <1>5, <1>10, BelowStep
<1>12. D4 \in SUBSET made /\ Upto(3 + 1) \subseteq D4
  BY <1>1, <1>6, <1>11, BelowStep
<1>13. D5 \in SUBSET made /\ Upto(4 + 1) \subseteq D5
  BY <1>1, <1>7, <1>12, BelowStep
<1>14. D5 = made
  <2>1. \A c \in made : Depth(c) <= 5
    BY DepthOfFeeder DEF GraphType
  <2> QED BY <1>13, <2>1
<1>15. Below(D5) = D5
  <2>1. Below(D5) \in SUBSET made
    BY <1>1, <1>13, BelowStep
  <2>2. D5 \subseteq Below(D5)
    BY DEF Below
  <2> QED BY <1>14, <2>1, <2>2
<1>16. /\ Reaches[0] = D0
       /\ \A n \in Nat : Reaches[n + 1] = Below(Reaches[n])
  BY <1>2, <1>3, <1>4, <1>5, <1>6, <1>7, <1>15, ReachesStep
<1>17. Reaches[1] = D1
  BY <1>3, <1>16
<1>18. Reaches[2] = D2
  BY <1>4, <1>16, <1>17
<1>19. Reaches[3] = D3
  BY <1>5, <1>16, <1>18
<1>20. Reaches[4] = D4
  BY <1>6, <1>16, <1>19
<1>21. Reaches[5] = D5
  BY <1>7, <1>16, <1>20
<1>22. \A n \in Nat : Reaches[n] = D5 => Reaches[n + 1] = D5
  BY <1>15, <1>16
<1>23. Reaches[8] = D5
  BY <1>21, <1>22
<1>24. Reaches[11] = D5
  BY <1>22, <1>23
<1>25. Reaches[14] = D5
  BY <1>22, <1>24
<1> QED BY <1>14, <1>25

(***************************************************************************)
(* What init() leaves when it succeeds, for every file and whichever       *)
(* modules fail: every module in a list of consumers has been initialised, *)
(* is in one list, and is reached from a source that start() and stop()    *)
(* know, and the osd thread has both f_enc and writer or none.             *)
(***************************************************************************)
THEOREM GraphIsSound == Spec => []GraphSound
<1>1. IInv => GraphSound
  <2> SUFFICES ASSUME IInv, pc = "ready"
               PROVE  /\ members \subseteq made
                      /\ \A e \in consumers : e[2] \in made
                      /\ \A c \in made : Cardinality(Fed(c)) = 1
                      /\ Reaches[Cardinality(ModuleNames)] = made
                      /\ "enc" \in members <=> "writer" \in members
    BY DEF GraphSound
  <2>1. GraphType /\ GraphInv
    BY TypeParts DEF IInv
  <2>2. MadeInOrder /\ FeederMade /\ EdgesOfMade /\ MembersStored
    BY <2>1 DEF GraphInv
  <2>3. members \subseteq made
    BY <2>2 DEF MembersStored
  <2>4. \A e \in consumers : e[2] \in made
    BY <2>2 DEF EdgesOfMade
  <2>5. ASSUME NEW c \in made
        PROVE  Cardinality(Fed(c)) = 1
    <3>1. Feeder(c) \in made \cup {"none"}
      BY <2>2 DEF FeederMade
    <3>2. \A p : <<p, c>> \in consumers <=> p = Feeder(c)
      BY <2>2 DEF EdgesOfMade
    <3>3. Fed(c) = {Feeder(c)}
      BY <3>1, <3>2 DEF Fed
    <3> QED BY <3>3, FS_Singleton
  <2>6. Reaches[Cardinality(ModuleNames)] = made
    BY <2>1, AllReached, ModuleNumber
  <2>7. "enc" \in members <=> "writer" \in members
    <3>1. "writer" \in made => "enc" \in made
      BY <2>2 DEF FeederMade, Feeder
    <3>2. "enc" \in made => "writer" \in made
      <4>1. Place(pc) > 12
        BY DEF Place
      <4> QED BY <4>1, <2>2 DEF FeederMade
    <3> QED BY <2>2, <3>1, <3>2 DEF MembersStored
  <2> QED BY <2>3, <2>4, <2>5, <2>6, <2>7
<1> QED BY <1>1, Inductive, PTL

-----------------------------------------------------------------------------
(***************************************************************************)
(* What the next line adds to the lines that say something.                *)
(***************************************************************************)
NextLine ==
  /\ ReadType
  /\ line + 1 \in 1..Len(confFile)
  /\ confFile' = confFile
  /\ line' = line + 1

Says(l, f) == f <= Len(l.words) /\ AllNumbers(l.words, f - 1)
Word(l, f) == IF l.words[f] = NaN THEN 0 ELSE l.words[f]
HasWord(l, k) == l.words # << >> \/ (k \in TextKeys /\ l.quoted)

\* The newest of some lines is the one that is added.
LEMMA LastAdded ==
  ASSUME NEW n \in Nat, NEW S \in SUBSET (1..n)
  PROVE  LastIn(S \cup {n + 1}) = n + 1
<1> DEFINE T == S \cup {n + 1}
           P(i) == i \in T /\ \A j \in T : j <= i
<1>1. P(n + 1)
  OBVIOUS
<1>2. \A i : P(i) => i = n + 1
  OBVIOUS
<1>3. LastIn(T) = CHOOSE i : P(i)
  BY DEF LastIn
<1> HIDE DEF P
<1> QED BY <1>1, <1>2, <1>3

LEMMA LinesGrow ==
  ASSUME NextLine, NEW k
  PROVE  /\ LinesOf(k) \subseteq 1..line
         /\ LinesOf(k)' = LinesOf(k) \cup
                          (IF confFile[line + 1].key = k THEN {line + 1} ELSE {})
         /\ \A i \in LinesOf(k) \cup {line + 1} : Words(i)' = Words(i)
<1>1. line \in Nat
  BY FileType DEF NextLine
<1>2. \A i : i \in 1..(line + 1) <=> i \in 1..line \/ i = line + 1
  BY <1>1
<1> QED BY <1>2 DEF NextLine, LinesOf, Words

LEMMA SayingGrows ==
  ASSUME NextLine, NEW k, NEW f
  PROVE  /\ Saying(k, f) \in SUBSET (1..line)
         /\ Saying(k, f)' = Saying(k, f) \cup
              (IF confFile[line + 1].key = k /\ Says(confFile[line + 1], f)
               THEN {line + 1} ELSE {})
<1>1. /\ LinesOf(k) \subseteq 1..line
      /\ LinesOf(k)' = LinesOf(k) \cup
                       (IF confFile[line + 1].key = k THEN {line + 1} ELSE {})
      /\ \A i \in LinesOf(k) \cup {line + 1} : Words(i)' = Words(i)
  BY LinesGrow
<1>2. \A i \in LinesOf(k) \cup {line + 1} :
        f <= Len(Words(i)') /\ AllNumbers(Words(i)', f - 1)
          <=> f <= Len(Words(i)) /\ AllNumbers(Words(i), f - 1)
  BY <1>1
<1>3. Says(confFile[line + 1], f)
        <=> f <= Len(Words(line + 1)) /\ AllNumbers(Words(line + 1), f - 1)
  BY DEF Says, Words
<1>4. Saying(k, f)' =
        {i \in LinesOf(k)' : f <= Len(Words(i)') /\ AllNumbers(Words(i)', f - 1)}
  BY DEF Saying
<1> QED BY <1>1, <1>2, <1>3, <1>4 DEF Saying

LEMMA WithWordGrows ==
  ASSUME NextLine, NEW k
  PROVE  /\ WithWord(k) \in SUBSET (1..line)
         /\ WithWord(k)' = WithWord(k) \cup
              (IF confFile[line + 1].key = k /\ HasWord(confFile[line + 1], k)
               THEN {line + 1} ELSE {})
<1>1. /\ LinesOf(k) \subseteq 1..line
      /\ LinesOf(k)' = LinesOf(k) \cup
                       (IF confFile[line + 1].key = k THEN {line + 1} ELSE {})
      /\ \A i \in LinesOf(k) \cup {line + 1} : Words(i)' = Words(i)
  BY LinesGrow
<1>2. confFile' = confFile
  BY DEF NextLine
<1>3. Words(line + 1) = confFile[line + 1].words
  BY DEF Words
<1> QED BY <1>1, <1>2, <1>3 DEF WithWord, HasWord

\* A field is what the next line says of it, and else what it was.
LEMMA FieldStep ==
  ASSUME NextLine, NEW k, NEW f
  PROVE  FieldSays(k, f)' =
           IF confFile[line + 1].key = k /\ Says(confFile[line + 1], f)
           THEN Word(confFile[line + 1], f) ELSE FieldSays(k, f)
<1>0. line \in Nat
  BY FileType DEF NextLine
<1>1. CASE confFile[line + 1].key = k /\ Says(confFile[line + 1], f)
  <2>1. Saying(k, f)' = Saying(k, f) \cup {line + 1}
    BY <1>1, SayingGrows
  <2>2. LastIn(Saying(k, f)') = line + 1
    BY <1>0, <2>1, SayingGrows, LastAdded
  <2>3. \A i : Words(i)' = confFile[i].words
    BY DEF Words, NextLine
  <2>4. Words(LastIn(Saying(k, f)))' = confFile[line + 1].words
    BY <2>2, <2>3
  <2> QED BY <1>1, <2>1, <2>4 DEF FieldSays, Word
<1>2. CASE ~(confFile[line + 1].key = k /\ Says(confFile[line + 1], f))
  <2>1. Saying(k, f)' = Saying(k, f)
    BY <1>2, SayingGrows
  <2>2. \A i : Words(i)' = Words(i)
    BY DEF Words, NextLine
  <2> QED BY <1>2, <2>1, <2>2 DEF FieldSays
<1> QED BY <1>1, <1>2

-----------------------------------------------------------------------------
(***************************************************************************)
(* What a line makes of the field it is for.                               *)
(***************************************************************************)

IsBlank(l) == l.key = " "

\* The parser of k runs on its own lines, and on lines of blanks, in which it
\* finds nothing.
Parsed(k) ==
  LET l == confFile[line + 1]
  IN  \/ l.key = k /\ para'[k] = Parse(k, para[k], l)
      \/ /\ IsBlank(l) /\ l.words = << >> /\ ~l.quoted
         /\ para'[k] = Parse(k, para[k], l)
      \/ l.key # k /\ para'[k] = para[k]

Simple == Keys \ {"oRotate", "encType", "fileMaxDuration"}

LEMMA KeysApart ==
  /\ TextKeys \cap WordKeys = {} /\ TextKeys \cap FlagKeys = {}
  /\ WordKeys \cap FlagKeys = {}
  /\ NumberKeys \cap (TextKeys \cup WordKeys \cup FlagKeys) = {}
  /\ Keys \ NumberKeys = TextKeys \cup WordKeys \cup FlagKeys
  /\ " " \notin Keys /\ "" \notin Keys /\ "#" \notin Keys
  /\ {"oRotate", "encType", "fileMaxDuration"} \subseteq NumberKeys
  BY DEF TextKeys, WordKeys, FlagKeys, NumberKeys, Keys, SizeKeys, TextParaKeys

LEMMA ParseOf ==
  ASSUME NEW k \in Keys, NEW old, NEW l
  PROVE  /\ k \in TextKeys => Parse(k, old, l) = ReadText(old, l)
         /\ k \in WordKeys => Parse(k, old, l) = ReadWord(old, l.words)
         /\ k \in FlagKeys => Parse(k, old, l) = ReadFlag(old, l.words)
         /\ k \in {"oRotate", "encType"} =>
              Parse(k, old, l) = ReadNumbers(Default(k), l.words)
         /\ k = "fileMaxDuration" => Parse(k, old, l) = ReadDuration(old, l.words)
         /\ k \in NumberKeys \ {"oRotate", "encType", "fileMaxDuration"} =>
              Parse(k, old, l) = ReadNumbers(old, l.words)
<1>1. /\ TextKeys \cap WordKeys = {} /\ TextKeys \cap FlagKeys = {}
      /\ WordKeys \cap FlagKeys = {}
      /\ NumberKeys \cap (TextKeys \cup WordKeys \cup FlagKeys) = {}
      /\ {"oRotate", "encType", "fileMaxDuration"} \subseteq NumberKeys
  BY KeysApart
<1> QED BY <1>1 DEF Parse

LEMMA NumberStep ==
  ASSUME NextLine, NEW k \in NumberKeys \ {"oRotate", "encType", "fileMaxDuration"},
         NumberIsLast(k), Parsed(k)
  PROVE  NumberIsLast(k)'
<1> DEFINE l == confFile[line + 1]
           d == DOMAIN Default(k)
<1>1. para[k] = [f \in d |-> FieldSays(k, f)]
  BY DEF NumberIsLast
<1>2. \A f : FieldSays(k, f)' = IF l.key = k /\ Says(l, f)
                                THEN Word(l, f) ELSE FieldSays(k, f)
  BY FieldStep
<1>3. k \in Keys
  BY DEF Keys
<1>4. Parse(k, para[k], l) =
        [f \in d |-> IF Says(l, f) THEN Word(l, f) ELSE FieldSays(k, f)]
  <2>1. Parse(k, para[k], l) = ReadNumbers(para[k], l.words)
    BY <1>3, ParseOf
  <2> HIDE DEF l, d
  <2>2. ReadNumbers(para[k], l.words) =
          [f \in d |-> IF Says(l, f) THEN Word(l, f) ELSE para[k][f]]
    BY <1>1 DEF ReadNumbers, Says, Word
  <2>3. \A f \in d : para[k][f] = FieldSays(k, f)
    BY <1>1
  <2> QED BY <2>1, <2>2, <2>3
<1>5. k # " "
  BY <1>3, KeysApart
<1>6. para'[k] = [f \in d |-> FieldSays(k, f)']
  <2>1. CASE l.key = k /\ para'[k] = Parse(k, para[k], l)
    <3> HIDE DEF l, d
    <3> QED BY <2>1, <1>2, <1>4
  <2>2. CASE IsBlank(l) /\ l.words = << >> /\ para'[k] = Parse(k, para[k], l)
    <3>1. \A f \in d : f \in Int
      BY DEF Default, SizeKeys, TextParaKeys, NumberKeys
    <3>2. \A f \in d : f >= 1
      BY DEF Default, SizeKeys, TextParaKeys, NumberKeys
    <3>3. \A f \in d : ~Says(l, f)
      <4> HIDE DEF l, d
      <4>0. l.words = << >>
        BY <2>2
      <4>1. Len(l.words) = 0
        BY <4>0
      <4> QED BY <3>1, <3>2, <4>1 DEF Says
    <3> HIDE DEF l, d
    <3>4. l.key # k
      BY <2>2, <1>5 DEF IsBlank
    <3> QED BY <2>2, <3>3, <3>4, <1>2, <1>4
  <2>3. CASE l.key # k /\ para'[k] = para[k]
    <3> HIDE DEF l, d
    <3> QED BY <2>3, <1>1, <1>2
  <2> QED BY <2>1, <2>2, <2>3 DEF Parsed
<1>7. Default(k)' = Default(k)
  OBVIOUS
<1> QED BY <1>6 DEF NumberIsLast

LEMMA WordStep ==
  ASSUME NextLine, NEW k \in Keys \ NumberKeys, WordIsLast(k), Parsed(k)
  PROVE  WordIsLast(k)'
<1> DEFINE l == confFile[line + 1]
           Value(x) == IF k \in TextKeys /\ x.quoted THEN x.words
                       ELSE IF k \notin FlagKeys THEN <<x.words[1]>>
                       ELSE IF x.words[1] \in {NaN, 0} THEN <<0>> ELSE <<1>>
           Last(S) == IF S = {} THEN Default(k) ELSE Value(confFile[LastIn(S)])
<1>1. para[k] = Last(WithWord(k))
  BY DEF WordIsLast
<1>2. confFile' = confFile /\ line \in Nat
  BY FileType DEF NextLine
<1>3. WordIsLast(k)' <=> para'[k] = Last(WithWord(k)')
  BY <1>2 DEF WordIsLast
<1>4. k \in TextKeys \cup WordKeys \cup FlagKeys /\ k # " "
  BY KeysApart
<1>5. Parse(k, para[k], l) = IF HasWord(l, k) THEN Value(l) ELSE para[k]
  <2> HIDE DEF l
  <2>1. CASE k \in TextKeys
    <3>1. Parse(k, para[k], l) = ReadText(para[k], l)
      BY <2>1, ParseOf
    <3>2. k \notin FlagKeys
      BY <2>1, KeysApart
    <3> QED BY <2>1, <3>1, <3>2 DEF ReadText, ReadWord, HasWord
  <2>2. CASE k \in WordKeys
    <3>1. Parse(k, para[k], l) = ReadWord(para[k], l.words)
      BY <2>2, ParseOf
    <3>2. k \notin FlagKeys /\ k \notin TextKeys
      BY <2>2, KeysApart
    <3> QED BY <2>2, <3>1, <3>2 DEF ReadWord, HasWord
  <2>3. CASE k \in FlagKeys
    <3>1. Parse(k, para[k], l) = ReadFlag(para[k], l.words)
      BY <2>3, ParseOf
    <3>2. k \notin TextKeys
      BY <2>3, KeysApart
    <3> QED BY <2>3, <3>1, <3>2 DEF ReadFlag, HasWord
  <2> QED BY <1>4, <2>1, <2>2, <2>3
<1>6. para'[k] = Last(WithWord(k)')
  <2>1. CASE l.key = k /\ HasWord(l, k)
    <3>1. WithWord(k)' = WithWord(k) \cup {line + 1}
      BY <2>1, WithWordGrows
    <3>2. LastIn(WithWord(k)') = line + 1
      BY <1>2, <3>1, WithWordGrows, LastAdded
    <3>3. para'[k] = Value(l)
      BY <2>1, <1>4, <1>5 DEF Parsed
    <3> HIDE DEF Value
    <3> QED BY <3>1, <3>2, <3>3
  <2>2. CASE ~(l.key = k /\ HasWord(l, k))
    <3>1. WithWord(k)' = WithWord(k)
      BY <2>2, WithWordGrows
    <3>2. para'[k] = para[k]
      <4>1. IsBlank(l) /\ l.words = << >> /\ ~l.quoted => ~HasWord(l, k)
        BY DEF HasWord
      <4> HIDE DEF l, Value
      <4> QED BY <2>2, <4>1, <1>5 DEF Parsed, l
    <3> HIDE DEF Value
    <3> QED BY <1>1, <3>1, <3>2
  <2> QED BY <2>1, <2>2
<1> QED BY <1>3, <1>6

\* One field takes the first word, when there is one.
LEMMA OneField ==
  ASSUME NEW d, NEW l, l.words \in Seq(Int)
  PROVE  ReadNumbers(<<d>>, l.words) =
           IF l.words = << >> THEN <<d>> ELSE <<Word(l, 1)>>
<1>1. PICK w : w = l.words
  OBVIOUS
<1>2. w \in Seq(Int) /\ Len(w) \in Nat /\ (w = << >> <=> Len(w) = 0)
  BY <1>1
<1>3. AllNumbers(w, 1 - 1)
  BY DEF AllNumbers
<1>4. ReadNumbers(<<d>>, w) =
        [i \in {1} |-> IF i <= Len(w) /\ AllNumbers(w, i - 1)
                       THEN IF w[i] = NaN THEN 0 ELSE w[i] ELSE d]
  BY DEF ReadNumbers
<1>5. ReadNumbers(<<d>>, w) =
        <<IF w # << >> THEN IF w[1] = NaN THEN 0 ELSE w[1] ELSE d>>
  BY <1>2, <1>3, <1>4
<1> QED BY <1>1, <1>5 DEF Word

LEMMA OneSaid ==
  ASSUME NEW l, l.words \in Seq(Int)
  PROVE  Says(l, 1) <=> l.words # << >>
<1>1. PICK w : w = l.words
  OBVIOUS
<1>2. w \in Seq(Int) /\ Len(w) \in Nat /\ (w = << >> <=> Len(w) = 0)
  BY <1>1
<1>3. AllNumbers(w, 1 - 1)
  BY DEF AllNumbers
<1> QED BY <1>1, <1>2, <1>3 DEF Says

\* oRotate and encType are what their last line says, or their default.
DefaultValue(k) ==
  IF LinesOf(k) = {} THEN Default(k)
  ELSE IF Words(LastIn(LinesOf(k))) = << >> THEN Default(k)
  ELSE <<FieldSays(k, 1)>>

LEMMA DefaultStep ==
  ASSUME NextLine, NEW k \in {"oRotate", "encType"},
         para[k] = DefaultValue(k), Parsed(k), ~IsBlank(confFile[line + 1])
  PROVE  para'[k] = DefaultValue(k)'
<1> DEFINE l == confFile[line + 1]
<1>1. confFile' = confFile /\ line \in Nat /\ l \in LineSet
  BY FileType, LineType DEF NextLine, ReadType
<1>2. \A i : Words(i)' = Words(i)
  BY <1>1 DEF Words
<1>3. DefaultValue(k)' = IF LinesOf(k)' = {} THEN Default(k)
                         ELSE IF Words(LastIn(LinesOf(k)')) = << >>
                         THEN Default(k) ELSE <<FieldSays(k, 1)'>>
  BY <1>2 DEF DefaultValue
<1>5. ~IsBlank(l)
  OBVIOUS
<1>6. FieldSays(k, 1)' = IF l.key = k /\ Says(l, 1)
                         THEN Word(l, 1) ELSE FieldSays(k, 1)
  BY FieldStep
<1>7. LinesOf(k)' = LinesOf(k) \cup (IF l.key = k THEN {line + 1} ELSE {})
  BY LinesGrow
<1>8. CASE l.key = k
  <2>1. LinesOf(k)' = LinesOf(k) \cup {line + 1}
    BY <1>7, <1>8
  <2>2. LastIn(LinesOf(k)') = line + 1
    BY <1>1, <2>1, LinesGrow, LastAdded
  <2>3. Words(LastIn(LinesOf(k)')) = l.words
    BY <2>2 DEF Words
  <2> HIDE DEF l
  <2>4. para'[k] = ReadNumbers(Default(k), l.words)
    <3>1. k \in Keys
      BY DEF Keys, NumberKeys
    <3>2. para'[k] = Parse(k, para[k], l)
      BY <1>5, <1>8 DEF Parsed, l
    <3> QED BY <3>1, <3>2, ParseOf
  <2>5. Default(k) \in {<<0>>, <<1>>}
    BY DEF Default, TextKeys, WordKeys, TextParaKeys, SizeKeys
  <2>6. l.words \in Seq(Int)
    BY <1>1 DEF LineSet
  <2>7. PICK d : Default(k) = <<d>>
    <3>1. CASE Default(k) = <<0>>
      BY <3>1
    <3>2. CASE Default(k) = <<1>>
      BY <3>2
    <3> QED BY <2>5, <3>1, <3>2
  <2>8. para'[k] = IF l.words = << >> THEN Default(k) ELSE <<Word(l, 1)>>
    BY <2>4, <2>6, <2>7, OneField
  <2>9. l.words # << >> => Says(l, 1)
    BY <2>6, OneSaid
  <2> QED BY <1>3, <1>6, <1>8, <2>1, <2>3, <2>8, <2>9
<1>9. CASE l.key # k
  <2>1. para'[k] = para[k]
    BY <1>5, <1>9 DEF Parsed
  <2>2. LinesOf(k)' = LinesOf(k) /\ FieldSays(k, 1)' = FieldSays(k, 1)
    BY <1>6, <1>7, <1>9
  <2> HIDE DEF l
  <2> QED BY <1>3, <2>1, <2>2 DEF DefaultValue
<1> QED BY <1>8, <1>9

-----------------------------------------------------------------------------
(***************************************************************************)
(* The duration.                                                           *)
(***************************************************************************)

\* The 32-bit product does not wrap for the seconds an int of microseconds
\* can hold.
LEMMA MicrosExact ==
  ASSUME NEW n \in 0..2147
  PROVE  Micros(n) = 1000000 * n
<1>1. PICK low : low = n * 16960
  OBVIOUS
<1>2. PICK q : q = low \div 65536
  OBVIOUS
<1>3. PICK r : r = low % 65536
  OBVIOUS
<1>4. PICK sum : sum = n * 15 + q
  OBVIOUS
<1>5. n % 65536 = n /\ n \div 65536 = 0
  OBVIOUS
<1>6. low \in Nat /\ low <= 36413120
  BY <1>1
<1>7. /\ q \in Nat /\ q <= 555
      /\ r \in Nat /\ r <= 65535
      /\ low = 65536 * q + r
  <2>1. low \div 65536 \in Nat /\ low \div 65536 <= 555
    BY <1>6
  <2>2. low % 65536 \in Nat /\ low % 65536 <= 65535
    BY <1>6
  <2>3. low = 65536 * (low \div 65536) + (low % 65536)
    BY <1>6
  <2> QED BY <1>2, <1>3, <2>1, <2>2, <2>3
<1>8. sum \in Nat /\ sum <= 32760
  BY <1>4, <1>7
<1>9. sum % 65536 = sum
  BY <1>8
<1>10. Micros(n) = (IF sum % 65536 < 32768 THEN sum % 65536
                    ELSE (sum % 65536) - 65536) * 65536 + r
  <2>1. n * 15 + 0 * 16960 + q = sum
    BY <1>4, <1>7
  <2>2. /\ (n % 65536) * 16960 = low
        /\ (n % 65536) * 15 + (n \div 65536) * 16960 + low \div 65536 = sum
    BY <1>1, <1>2, <1>5, <2>1
  <2>3. Micros(n) =
          LET high == ((n % 65536) * 15 + (n \div 65536) * 16960
                         + ((n % 65536) * 16960) \div 65536) % 65536
          IN  (IF high < 32768 THEN high ELSE high - 65536) * 65536
                + (((n % 65536) * 16960) % 65536)
    BY DEF Micros
  <2> QED BY <1>3, <2>2, <2>3
<1>11. Micros(n) = sum * 65536 + r
  BY <1>8, <1>9, <1>10
<1> QED BY <1>1, <1>4, <1>7, <1>11

Seconds(n) == <<IF n > 0 THEN 1000000 * n ELSE n>>

\* The lines that give no duration, or one of more than 2147 seconds.
NoDuration ==
  \E i \in LinesOf("fileMaxDuration") : Words(i) = << >> \/ Words(i)[1] > 2147

LEMMA DurationStep ==
  ASSUME NextLine, Parsed("fileMaxDuration"), ~IsBlank(confFile[line + 1]),
         para["fileMaxDuration"] = Seconds(FieldSays("fileMaxDuration", 1)),
         ~NoDuration'
  PROVE  para'["fileMaxDuration"] = Seconds(FieldSays("fileMaxDuration", 1)')
<1> DEFINE l == confFile[line + 1]
           k == "fileMaxDuration"
<1>1. line \in Nat /\ l \in LineSet
  BY FileType, LineType DEF NextLine, ReadType
<1>2. l.words \in Seq(Int)
  BY <1>1 DEF LineSet
<1>3. FieldSays(k, 1)' = IF l.key = k /\ Says(l, 1)
                         THEN Word(l, 1) ELSE FieldSays(k, 1)
  BY FieldStep
<1>4. CASE l.key = k
  <2>1. LinesOf(k)' = LinesOf(k) \cup {line + 1}
    BY <1>4, LinesGrow
  <2>2. \A i : Words(i)' = confFile[i].words
    BY DEF Words, NextLine
  <2>3. l.words # << >> /\ ~(l.words[1] > 2147)
    BY <2>1, <2>2 DEF NoDuration
  <2>4. Len(l.words) \in Nat /\ Len(l.words) # 0 /\ l.words[1] \in Int
    BY <1>2, <2>3
  <2>5. FieldSays(k, 1)' = Word(l, 1)
    BY <1>2, <1>3, <1>4, <2>3, OneSaid
  <2>6. Word(l, 1) \in Int /\ Word(l, 1) <= 2147
    BY <2>3, <2>4 DEF Word
  <2>7. para'[k] = ReadDuration(para[k], l.words)
    <3>1. k \in Keys
      BY DEF Keys, NumberKeys
    <3>2. para'[k] = Parse(k, para[k], l)
      BY <1>4 DEF Parsed
    <3> QED BY <3>1, <3>2, ParseOf
  <2>8. ReadNumbers(para[k], l.words) = <<Word(l, 1)>>
    <3>1. PICK d : para[k] = <<d>>
      BY DEF Seconds
    <3>2. l.words # << >>
      BY <2>3
    <3> HIDE DEF l
    <3>3. ReadNumbers(<<d>>, l.words) =
            IF l.words = << >> THEN <<d>> ELSE <<Word(l, 1)>>
      BY <1>2, OneField
    <3>4. ReadNumbers(<<d>>, l.words) = <<Word(l, 1)>>
      BY <3>2, <3>3
    <3> QED BY <3>1, <3>4
  <2>9. ReadDuration(para[k], l.words) =
          IF Word(l, 1) > 0 THEN <<Micros(Word(l, 1))>> ELSE <<Word(l, 1)>>
    BY <2>8 DEF ReadDuration
  <2>10. Word(l, 1) > 0 => Micros(Word(l, 1)) = 1000000 * Word(l, 1)
    <3>1. Word(l, 1) > 0 => Word(l, 1) \in 0..2147
      BY <2>6
    <3> QED BY <3>1, MicrosExact
  <2> QED BY <2>5, <2>7, <2>9, <2>10 DEF Seconds
<1>5. CASE l.key # k
  <2>1. para'[k] = para[k]
    BY <1>5 DEF Parsed
  <2> QED BY <1>3, <1>5, <2>1
<1> QED BY <1>4, <1>5

-----------------------------------------------------------------------------
(***************************************************************************)
(* The last line wins.                                                     *)
(***************************************************************************)

\* What a line that is read does: its parser runs, or it is passed over.
LEMMA LineRead ==
  ASSUME ReadType, SkipLine \/ ParseLine
  PROVE  /\ NextLine
         /\ \A k \in Keys : Parsed(k)
         /\ Blanks => Blanks'
         /\ IsBlank(confFile[line + 1]) => Blanks'
<1> DEFINE l == confFile[line + 1]
<1>1. Len(confFile) \in Nat /\ line \in Nat /\ line <= Len(confFile)
  BY FileType
<1>2. line < Len(confFile) /\ line' = line + 1 /\ confFile' = confFile
  <2>1. CASE SkipLine
    BY <2>1 DEF SkipLine
  <2>2. CASE ParseLine
    BY <2>2 DEF ParseLine
  <2> QED BY <2>1, <2>2
<1>3. line + 1 \in 1..Len(confFile)
  BY <1>1, <1>2
<1>4. NextLine
  BY <1>2, <1>3 DEF NextLine
<1>5. IsBlank(l) => l.words = << >> /\ ~l.quoted
  BY <1>3, LineType DEF IsBlank, ReadType
<1>6. ASSUME NEW k \in Keys
      PROVE  Parsed(k)
  <2>1. CASE SkipLine
    <3>1. l.key \in {"", "#"} /\ para' = para
      BY <2>1 DEF SkipLine
    <3>2. l.key # k
      BY <3>1, KeysApart
    <3> QED BY <3>1, <3>2 DEF Parsed
  <2>2. CASE ParseLine
    <3> DEFINE key == IF l.key = " " THEN temp ELSE l.key
    <3>1. para' = IF key \in Keys THEN [para EXCEPT ![key] = Parse(key, para[key], l)]
                  ELSE para
      BY <2>2 DEF ParseLine
    <3>2. DOMAIN para = Keys
      BY DEF ReadType
    <3>3. CASE key = k
      <4>1. para'[k] = Parse(k, para[k], l)
        BY <3>1, <3>2, <3>3
      <4>2. IsBlank(l) \/ l.key = k
        BY <3>3 DEF IsBlank
      <4> HIDE DEF l
      <4> QED BY <4>1, <4>2, <1>5 DEF Parsed, l
    <3>4. CASE key # k
      <4>1. para'[k] = para[k]
        BY <3>1, <3>2, <3>4
      <4>2. l.key # k
        BY <3>4, KeysApart
      <4> QED BY <4>1, <4>2 DEF Parsed
    <3> QED BY <3>3, <3>4
  <2> QED BY <2>1, <2>2
<1>7. Blanks <=> \E i \in 1..line : IsBlank(confFile[i])
  BY DEF Blanks, IsBlank
<1>8. Blanks' <=> \E i \in 1..(line + 1) : IsBlank(confFile[i])
  BY <1>2 DEF Blanks, IsBlank
<1>9. \A i : i \in 1..(line + 1) <=> i \in 1..line \/ i = line + 1
  BY <1>1
<1>10. (Blanks => Blanks') /\ (IsBlank(l) => Blanks')
  BY <1>7, <1>8, <1>9
<1> QED BY <1>4, <1>6, <1>10

LEMMA NoDurationStays ==
  ASSUME NextLine, NoDuration
  PROVE  NoDuration'
<1>1. PICK i \in LinesOf("fileMaxDuration") :
        Words(i) = << >> \/ Words(i)[1] > 2147
  BY DEF NoDuration
<1>2. i \in LinesOf("fileMaxDuration")' /\ Words(i)' = Words(i)
  BY LinesGrow
<1> QED BY <1>1, <1>2 DEF NoDuration

LEMMA PropertyParts ==
  /\ \A k : DefaultIsLast(k) <=> Blanks \/ para[k] = DefaultValue(k)
  /\ DurationIsLast <=>
       \/ Blanks \/ NoDuration
       \/ para["fileMaxDuration"] = Seconds(FieldSays("fileMaxDuration", 1))
<1>1. \A k : DefaultIsLast(k) <=> Blanks \/ para[k] = DefaultValue(k)
  BY DEF DefaultIsLast, DefaultValue
<1>2. DurationIsLast <=>
        \/ Blanks \/ NoDuration
        \/ para["fileMaxDuration"] = Seconds(FieldSays("fileMaxDuration", 1))
  BY SMT DEF DurationIsLast, NoDuration, Seconds
<1> QED BY <1>1, <1>2

LEMMA LastLineStep ==
  ASSUME ReadType, LastLineWins, SkipLine \/ ParseLine
  PROVE  LastLineWins'
<1>1. /\ NextLine /\ \A k \in Keys : Parsed(k)
      /\ Blanks => Blanks'
      /\ IsBlank(confFile[line + 1]) => Blanks'
  BY LineRead
<1>2. \A k \in Keys \ NumberKeys : WordIsLast(k)'
  <2> TAKE k \in Keys \ NumberKeys
  <2> QED BY <1>1, WordStep DEF LastLineWins
<1>3. \A k \in NumberKeys \ {"oRotate", "encType", "fileMaxDuration"} :
        NumberIsLast(k)'
  <2> TAKE k \in NumberKeys \ {"oRotate", "encType", "fileMaxDuration"}
  <2>1. k \in Keys
    BY DEF Keys
  <2> QED BY <1>1, <2>1, NumberStep DEF LastLineWins
<1>4. {"oRotate", "encType", "fileMaxDuration"} \subseteq Keys
  BY KeysApart DEF Keys
<1>5. ASSUME NEW k \in {"oRotate", "encType"}
      PROVE  DefaultIsLast(k)'
  <2>1. DefaultIsLast(k) /\ Parsed(k)
    BY <1>1, <1>4 DEF LastLineWins
  <2>2. CASE Blanks'
    BY <2>2 DEF DefaultIsLast
  <2>3. CASE ~Blanks'
    <3>1. ~IsBlank(confFile[line + 1]) /\ para[k] = DefaultValue(k)
      BY <1>1, <2>1, <2>3, PropertyParts
    <3>2. para'[k] = DefaultValue(k)'
      BY <1>1, <2>1, <3>1, DefaultStep
    <3> QED BY <3>2 DEF DefaultIsLast, DefaultValue
  <2> QED BY <2>2, <2>3
<1>6. DurationIsLast'
  <2>1. DurationIsLast /\ Parsed("fileMaxDuration")
    BY <1>1, <1>4 DEF LastLineWins
  <2>2. CASE Blanks' \/ NoDuration'
    BY <2>2 DEF DurationIsLast, NoDuration
  <2>3. CASE ~Blanks' /\ ~NoDuration'
    <3>1. /\ ~IsBlank(confFile[line + 1])
          /\ para["fileMaxDuration"] = Seconds(FieldSays("fileMaxDuration", 1))
      BY <1>1, <2>1, <2>3, PropertyParts, NoDurationStays
    <3>2. para'["fileMaxDuration"] = Seconds(FieldSays("fileMaxDuration", 1)')
      BY <1>1, <2>1, <2>3, <3>1, DurationStep
    <3> QED BY <3>2, SMT DEF DurationIsLast, Seconds
  <2> QED BY <2>2, <2>3
<1> QED BY <1>2, <1>3, <1>5, <1>6 DEF LastLineWins

\* Before the first line every setting is its default.
LEMMA LastLineInit ==
  ASSUME Init
  PROVE  LastLineWins
<1>1. line = 0 /\ \A k \in Keys : para[k] = Default(k)
  BY DEF Init, ConfInit
<1>2. \A k : LinesOf(k) = {} /\ WithWord(k) = {}
  BY <1>1 DEF LinesOf, WithWord
<1>3. \A k, f : FieldSays(k, f) = Default(k)[f]
  BY <1>2 DEF FieldSays, Saying
<1>4. \A k \in Keys \ NumberKeys : WordIsLast(k)
  BY <1>1, <1>2 DEF WordIsLast
<1>5. {"oRotate", "encType", "fileMaxDuration"} \subseteq Keys
  BY KeysApart DEF Keys
<1>6. ASSUME NEW k \in NumberKeys
      PROVE  NumberIsLast(k)
  <2>1. k \in Keys
    BY DEF Keys
  <2>2. PICK d : d = Default(k)
    OBVIOUS
  <2>3. d = [f \in DOMAIN d |-> d[f]]
    <3>1. k \notin TextKeys \cup WordKeys
      BY KeysApart
    <3>2. d \in {<<0, 25, 0, 1, 0, 255, 255>>, <<0, 0>>, <<0, 0, 0, 0>>,
                 <<-1, 0>>, <<1>>, <<120>>, <<30>>, <<0>>}
      BY <2>2, <3>1 DEF Default
    <3> QED BY <3>2
  <2> QED BY <1>1, <1>3, <2>1, <2>2, <2>3 DEF NumberIsLast
<1>7. DefaultIsLast("oRotate") /\ DefaultIsLast("encType")
  BY <1>1, <1>2, <1>5 DEF DefaultIsLast
<1>8. DurationIsLast
  <2>1. Default("fileMaxDuration") = <<0>>
    BY DEF Default, TextKeys, WordKeys, TextParaKeys, SizeKeys
  <2>2. FieldSays("fileMaxDuration", 1) = 0
    BY <1>3, <2>1
  <2>3. para["fileMaxDuration"] = Seconds(FieldSays("fileMaxDuration", 1))
    BY <1>1, <1>5, <2>1, <2>2 DEF Seconds
  <2> QED BY <2>3, PropertyParts
<1> QED BY <1>4, <1>6, <1>7, <1>8 DEF LastLineWins

\* Nothing else touches what the lines are read into.
LEMMA LastLineKept ==
  ASSUME LastLineWins, UNCHANGED <<confFile, line, para>>
  PROVE  LastLineWins'
<1>1. \A i : Words(i)' = Words(i)
  BY DEF Words
<1>2. \A k : LinesOf(k)' = LinesOf(k)
  BY DEF LinesOf
<1>3. \A k, f : Saying(k, f)' = Saying(k, f)
  BY DEF Saying, LinesOf, Words
<1>4. \A k, f : FieldSays(k, f)' = FieldSays(k, f)
  BY DEF FieldSays, Saying, LinesOf, Words
<1>5. \A k : WithWord(k)' = WithWord(k)
  BY DEF WithWord, LinesOf, Words
<1>6. Blanks' <=> Blanks
  BY DEF Blanks
<1>7. \A k \in Keys \ NumberKeys : WordIsLast(k)'
  BY <1>5 DEF LastLineWins, WordIsLast
<1>8. \A k \in NumberKeys \ {"oRotate", "encType", "fileMaxDuration"} :
        NumberIsLast(k)'
  BY <1>4 DEF LastLineWins, NumberIsLast
<1>9. \A k \in {"oRotate", "encType"} : DefaultIsLast(k)'
  BY <1>1, <1>2, <1>4, <1>6 DEF LastLineWins, DefaultIsLast
<1>10. DurationIsLast'
  BY <1>1, <1>2, <1>4, <1>6 DEF LastLineWins, DurationIsLast
<1> QED BY <1>7, <1>8, <1>9, <1>10 DEF LastLineWins

(***************************************************************************)
(* Whatever the lines of the file and their order, each field of a setting *)
(* holds what the last line that gives it says (osd.cpp:130-622).          *)
(***************************************************************************)
THEOREM LastLine == Spec => []LastLineWins
<1>1. Init => LastLineWins
  BY LastLineInit
<1>2. TypeOK /\ LastLineWins /\ [Next]_vars => LastLineWins'
  <2> SUFFICES ASSUME TypeOK, LastLineWins, [Next]_vars
               PROVE  LastLineWins'
    OBVIOUS
  <2>1. CASE SkipLine \/ ParseLine
    BY <2>1, TypeParts, LastLineStep
  <2>2. CASE UNCHANGED <<confFile, line, para>>
    BY <2>2, LastLineKept
  <2>3. CASE ReadConf
    <3>1. CASE OpenConf \/ SpinOnFailure \/ EndOfFile
      BY <3>1, <2>2 DEF OpenConf, SpinOnFailure, EndOfFile, confVars
    <3> QED BY <2>1, <2>3, <3>1 DEF ReadConf, ConfNext
  <2>4. CASE Construct
    <3>1. UNCHANGED confVars
      BY <2>4, SMT DEF Construct, OpenCamera, OpenCapture, EncodeAudio,
         DecodeVideo, ConvertVideo, DisplayVideo, PlayAudio, PushVideo,
         PushAudio, WriteFile, StoreMembers
    <3> QED BY <2>2, <3>1 DEF confVars
  <2>5. CASE Returned \/ UNCHANGED vars
    BY <2>2, <2>5 DEF Returned, vars, confVars
  <2> QED BY <2>3, <2>4, <2>5 DEF Next
<1> QED BY <1>1, <1>2, TypeCorrect, PTL DEF Spec

-----------------------------------------------------------------------------
(***************************************************************************)
(* How init() returns.                                                     *)
(***************************************************************************)

\* The steps init() has before it at most: the lines not yet read, the end
\* of the file, and the stages behind the one it is at.
Rest ==
  CASE pc = "open"  -> Len(confFile) + 17
    [] pc = "parse" -> Len(confFile) - line + 16
    [] pc \in {"ready", "failed"} -> 0
    [] OTHER -> 15 - Place(pc)

\* Every step is one of them.
InitShrinks == [][Rest' < Rest]_vars

\* The file is read to its end, unless a line of it is too long.
SpinsOnLongLine == strFail => ~NoLongLine

InitBounded == Rest \in 0..(Len(confFile) + 17) /\ SpinsOnLongLine

LEMMA PlaceBound ==
  ASSUME NEW s
  PROVE  Place(s) \in 0..14
  BY DEF Place

\* What is left is a number, and no stage is the last but the two.
LEMMA RestBound ==
  ASSUME TypeOK
  PROVE  /\ Rest \in 0..(Len(confFile) + 17)
         /\ pc \notin {"ready", "failed"} => Rest > 0
<1>1. Len(confFile) \in Nat /\ line \in Nat /\ line <= Len(confFile)
  BY FileType, TypeParts
<1>2. PICK p \in 0..14 : p = Place(pc)
  BY PlaceBound
<1>3. CASE pc = "open"
  BY <1>1, <1>3 DEF Rest
<1>4. CASE pc = "parse"
  BY <1>1, <1>4 DEF Rest
<1>5. CASE pc \in {"ready", "failed"}
  BY <1>1, <1>5 DEF Rest
<1>6. CASE pc \notin {"open", "parse", "ready", "failed"}
  <2>1. Rest = 15 - p
    BY <1>2, <1>6 DEF Rest
  <2> QED BY <1>1, <1>6, <2>1
<1> QED BY <1>3, <1>4, <1>5, <1>6

\* Reading a line, or coming to the end of the file, leaves one step less.
LEMMA ConfShrinks ==
  ASSUME TypeOK, ReadConf
  PROVE  Rest' < Rest \/ UNCHANGED vars
<1>1. Len(confFile) \in Nat /\ line \in Nat /\ line <= Len(confFile)
  BY FileType, TypeParts
<1>2. CASE OpenConf
  BY <1>1, <1>2 DEF OpenConf, confVars, Rest
<1>3. CASE SkipLine \/ ParseLine
  <2>1. /\ pc = "parse" /\ pc' = "parse"
        /\ line' = line + 1 /\ confFile' = confFile
    BY <1>3 DEF SkipLine, ParseLine
  <2> QED BY <1>1, <2>1 DEF Rest
<1>4. CASE SpinOnFailure
  BY <1>4 DEF SpinOnFailure, ReadConf, vars
<1>5. CASE EndOfFile
  <2>1. Place("camera") = 0
    BY DEF Place
  <2>2. /\ pc = "parse" /\ pc' = "camera"
        /\ line = Len(confFile)
    BY <1>5 DEF EndOfFile
  <2>3. Rest = 16 /\ Rest' = 15
    BY <1>1, <2>1, <2>2 DEF Rest
  <2> QED BY <2>3
<1> QED BY <1>2, <1>3, <1>4, <1>5 DEF ReadConf, ConfNext

\* So does each stage, also when it passes others by or fails.
LEMMA ConstructShrinks ==
  ASSUME TypeOK, GraphInv, Construct
  PROVE  Rest' < Rest
<1>1. Place(pc) \in 0..14
  BY PlaceBound
<1>2. CASE StoreMembers
  BY <1>1, <1>2 DEF StoreMembers, Rest
<1>3. CASE StageStep
  <2>1. /\ pc \in Stages \ {"open", "parse", "store", "ready", "failed"}
        /\ pc' \in StageAfter(pc) \/ pc' = "failed"
    BY <1>3 DEF StageStep, MakeOne, DoWithout
  <2>2. Rest = 15 - Place(pc)
    BY <2>1 DEF Rest
  <2>3. CASE pc' = "failed"
    <3>1. Rest' = 0
      BY <2>3 DEF Rest
    <3> QED BY <3>1, <2>2, <1>1
  <2>4. CASE pc' \in StageAfter(pc)
    <3>1. /\ pc' \notin {"open", "parse", "ready", "failed"}
          /\ Place(pc') \in Nat /\ Place(pc) < Place(pc')
      BY <2>1, <2>4, PlaceGrows DEF StageAfter
    <3>2. Rest' = 15 - Place(pc')
      BY <3>1 DEF Rest
    <3> QED BY <1>1, <2>2, <3>1, <3>2
  <2> QED BY <2>1, <2>3, <2>4
<1> QED BY <1>2, <1>3, ConstructStep

\* getline fails only on a line that is too long.
LEMMA SpinsStep ==
  ASSUME TypeOK, SpinsOnLongLine, [Next]_vars
  PROVE  SpinsOnLongLine'
<1>1. Len(confFile) \in Nat /\ line \in Nat /\ line <= Len(confFile)
  BY FileType, TypeParts
<1>2. CASE UNCHANGED <<confFile, strFail>>
  BY <1>2 DEF SpinsOnLongLine, NoLongLine
<1>3. CASE SkipLine \/ ParseLine
  <2>1. /\ line < Len(confFile) /\ confFile' = confFile
        /\ strFail' = confFile[line + 1].long
    BY <1>3 DEF SkipLine, ParseLine
  <2>2. line + 1 \in 1..Len(confFile)
    BY <1>1, <2>1
  <2> QED BY <2>1, <2>2 DEF SpinsOnLongLine, NoLongLine
<1>4. CASE Construct
  <2>1. UNCHANGED confVars
    BY <1>4, SMT DEF Construct, OpenCamera, OpenCapture, EncodeAudio,
       DecodeVideo, ConvertVideo, DisplayVideo, PlayAudio, PushVideo,
       PushAudio, WriteFile, StoreMembers
  <2> QED BY <1>2, <2>1 DEF confVars
<1>5. CASE OpenConf \/ SpinOnFailure \/ EndOfFile
  BY <1>2, <1>5 DEF OpenConf, SpinOnFailure, EndOfFile, confVars
<1>6. CASE Returned \/ UNCHANGED vars
  BY <1>2, <1>6 DEF Returned, vars, confVars
<1> QED BY <1>3, <1>4, <1>5, <1>6 DEF Next, ReadConf, ConfNext

(***************************************************************************)
(* Whatever the file and the modules that fail, init() takes at most the   *)
(* number of lines and seventeen steps, each of which brings it nearer to  *)
(* its return, and the loop over the lines only turns without taking one   *)
(* when the file has a line that is too long (osd.cpp:605-620).            *)
(***************************************************************************)
THEOREM InitReturnsInSteps == Spec => InitShrinks /\ []InitBounded
<1>1. Init => SpinsOnLongLine
  BY DEF Init, ConfInit, SpinsOnLongLine
<1>2. TypeOK /\ SpinsOnLongLine /\ [Next]_vars => SpinsOnLongLine'
  BY SpinsStep
<1>3. IInv /\ [Next]_vars => [Rest' < Rest]_vars
  <2> SUFFICES ASSUME IInv, Next
               PROVE  Rest' < Rest \/ UNCHANGED vars
    OBVIOUS
  <2>1. TypeOK
    BY DEF IInv
  <2>2. CASE Construct
    BY <2>1, <2>2, ConstructShrinks DEF IInv
  <2> QED BY <2>1, <2>2, ConfShrinks DEF Next, Returned
<1>4. TypeOK /\ SpinsOnLongLine => InitBounded
  BY RestBound DEF InitBounded
<1> QED BY <1>1, <1>2, <1>3, <1>4, Inductive, TypeCorrect, PTL
        DEF Spec, InitShrinks
=============================================================================
