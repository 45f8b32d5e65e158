------------------------------ MODULE OsdConfig ------------------------------
(***************************************************************************)
(* The reading of osd.conf by ModuleOsd::parseConfFileInfo of demo/osd.cpp *)
(* into the fields of OsdConfPara (demo/osd.hpp).                          *)
(*                                                                         *)
(* A line of the file is its first word, the words after it, whether the   *)
(* first of these opens a quotation that the line closes, and whether the  *)
(* line has more than the 511 characters getline takes.  The first word    *)
(* is " " for a line of blanks and "" for an empty one.  para has for each *)
(* key of osd_parsers the fields its parser fills; the meaning of a word   *)
(* (a path, a colour, a real number) is left out.                          *)
(***************************************************************************)
EXTENDS StreamRead

CONSTANT ConfFiles   (* the files the program may find, << >> for none      *)

\* The fields of ImagePara and ImageCrop are unsigned: their number is what
\* the extraction of an unsigned makes of the word.
UnsignedKeys == {"iImgPara", "oImgPara", "displayCorp"}

ASSUME FileAssumption ==
  /\ ConfFiles \subseteq Seq([key: STRING, words: Seq(Int),
                             quoted: BOOLEAN, long: BOOLEAN])
  /\ \A file \in ConfFiles : \A i \in 1..Len(file) :
       /\ file[i].key = " " => file[i].words = << >> /\ ~file[i].quoted
       /\ file[i].key \in UnsignedKeys =>
            \A j \in 1..Len(file[i].words) :
              file[i].words[j] >= 0 \/ file[i].words[j] = NaN

VARIABLES
  confFile,    (* the lines of the file                                     *)
  pc,          (* where init() is                                           *)
  line,        (* lines read so far                                         *)
  strFail,     (* the failbit of strStream                                  *)
  temp,        (* the last keyword extracted                                *)
  para

confVars == <<confFile, line, strFail, temp, para>>

-----------------------------------------------------------------------------
TextKeys == {"osdDevText", "osdFpsText", "osdTimeText"}

WordKeys == {"vDev", "aDev", "osdEtcFile", "outputFile", "outputFileDir",
             "aplayDev", "pushPath"}

FlagKeys == {"displayEnable", "aplayEnable", "pushVideoEnable",
             "pushAudioEnable", "cpuTempEnable", "ssdDataEnable"}

\* point x and y, fontFace, fontScale, and the three colours.
TextParaKeys == {"osdTextPara", "osdTimestampPara", "osdFpsPara",
                 "osdCpuTempPara", "osdSsdDatePara", "osdDevTextPart"}

SizeKeys == {"iImgPara", "oImgPara", "pushPara"}

NumberKeys == SizeKeys \cup TextParaKeys \cup
  {"oRotate", "encType", "fileMaxDuration", "osdLineStep", "osdFpsDiff",
   "encFps", "systemFreeSize", "display", "displayFps", "displayCorp",
   "pushFps", "pushPort", "broadcastPort"}

Keys == TextKeys \cup WordKeys \cup FlagKeys \cup NumberKeys

\* The initialisers of OsdConfPara.
Default(k) ==
  CASE k \in TextKeys \cup WordKeys -> << >>
    [] k \in TextParaKeys -> <<0, 25, 0, 1, 0, 255, 255>>
    [] k \in SizeKeys     -> <<0, 0>>
    [] k = "displayCorp"  -> <<0, 0, 0, 0>>
    [] k = "display"      -> <<-1, 0>>
    [] k = "encType"      -> <<1>>
    [] k = "encFps"       -> <<120>>
    [] k \in {"osdLineStep", "pushFps"} -> <<30>>
    [] OTHER              -> <<0>>

\* parseTextString: between the first and the last quotation mark of the
\* line, or a word.
ReadText(old, l) == IF l.quoted THEN l.words ELSE ReadWord(old, l.words)

\* In seconds; what is in the field is converted whether it was read or not.
ReadDuration(old, words) ==
  LET read == ReadNumbers(old, words)
  IN  IF read[1] > 0 THEN <<Micros(read[1])>> ELSE read

\* oRotate and encType are read into a variable with a default of its own.
Parse(k, old, l) ==
  CASE k \in TextKeys -> ReadText(old, l)
    [] k \in WordKeys -> ReadWord(old, l.words)
    [] k \in FlagKeys -> ReadFlag(old, l.words)
    [] k \in {"oRotate", "encType"} -> ReadNumbers(Default(k), l.words)
    [] k = "fileMaxDuration" -> ReadDuration(old, l.words)
    [] OTHER -> ReadNumbers(old, l.words)

ConfInit ==
  /\ confFile \in ConfFiles
  /\ pc = "open"
  /\ line = 0
  /\ strFail = FALSE
  /\ temp = ""
  /\ para = [k \in Keys |-> Default(k)]

-----------------------------------------------------------------------------
\* readFile gives a null pointer for a file that is missing or empty.
OpenConf ==
  /\ pc = "open"
  /\ pc' = IF confFile = << >> THEN "failed" ELSE "parse"
  /\ UNCHANGED confVars

\* A variant: the next line is read at the end of the loop, after continue.
SkipLineAgain ==
  /\ pc = "parse"
  /\ line < Len(confFile)
  /\ ~strFail
  /\ confFile[line + 1].key \in {"", "#"}
  /\ UNCHANGED <<confVars, pc>>

\* Comments and empty lines.
SkipLine ==
  /\ pc = "parse"
  /\ line < Len(confFile)
  /\ ~strFail
  /\ confFile[line + 1].key \in {"", "#"}
  /\ strFail' = confFile[line + 1].long
  /\ line' = line + 1
  /\ UNCHANGED <<confFile, pc, temp, para>>

\* On a line of blanks temp keeps the keyword of an earlier line, whose
\* parser then finds nothing to read.
ParseLine ==
  /\ pc = "parse"
  /\ line < Len(confFile)
  /\ ~strFail
  /\ LET l == confFile[line + 1]
         k == IF l.key = " " THEN temp ELSE l.key
     IN  /\ l.key \notin {"", "#"}
         /\ temp' = k
         /\ para' = IF k \in Keys THEN [para EXCEPT ![k] = Parse(k, @, l)]
                                  ELSE para
         /\ strFail' = l.long
  /\ line' = line + 1
  /\ UNCHANGED <<confFile, pc>>

\* When getline has failed it gives empty lines, and eof() is never true.
SpinOnFailure ==
  /\ pc = "parse"
  /\ strFail
  /\ UNCHANGED <<confVars, pc>>

EndOfFile ==
  /\ pc = "parse"
  /\ line = Len(confFile)
  /\ ~strFail
  /\ pc' = "camera"
  /\ UNCHANGED confVars

ConfNext == OpenConf \/ SkipLine \/ ParseLine \/ SpinOnFailure \/ EndOfFile
=============================================================================
