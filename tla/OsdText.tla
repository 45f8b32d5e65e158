------------------------------- MODULE OsdText -------------------------------
(***************************************************************************)
(* The text that ModuleOsd of demo/osd.cpp draws on the frames.  The osd   *)
(* thread reads the text file named by osdEtcFile again when its           *)
(* modification time differs from the one it saw last (handletEtcText and  *)
(* readFileLines); the rga thread draws osd_text on each frame             *)
(* (osdHandlerCallback); somebody else edits the file.                     *)
(*                                                                         *)
(* The k-th text the file has had is a number of lines; its i-th line is   *)
(* the pair <<k, i>>, so that a line shows which text it is from.  A       *)
(* critical section of text_mtx is one step, and so is the reading of the  *)
(* file, which is small.  Where and how a line is drawn is left out, and   *)
(* so is stop().                                                           *)
(***************************************************************************)
EXTENDS Integers, Sequences

CONSTANTS
  MaxLines,    (* bound: lines of a text                                    *)
  MaxTexts,    (* bound: texts the file has, one after the other            *)
  MaxNow       (* bound: the last second of the clock                       *)

ASSUME TextAssumption ==
  /\ MaxLines \in Nat
  /\ MaxTexts \in Nat \ {0}
  /\ MaxNow \in Nat \ {0}

VARIABLES
  hasDev,     (* osdDevText is configured                                   *)
  hasEtc,     (* osdEtcFile is configured                                   *)
  versions,   (* the lengths of the texts the file has had, the last now    *)
  present,    (* the file exists                                            *)
  mtime,      (* its st_mtim.tv_sec                                         *)
  now,        (* the clock of the file system, in seconds                   *)
  twice,      (* history: the file has changed twice within a second        *)
  lost,       (* history: the file was there, of the time just stored, and  *)
              (* could not be opened                                        *)
  at,         (* where handletEtcText is                                    *)
  started,    (* init() has returned: frames and the osd thread run         *)
  etcMtime,   (* etc_file_mtime                                             *)
  v,          (* the lines read                                             *)
  osdText,    (* osd_text                                                   *)
  drawn       (* what the last frame got, empty before the first            *)

confVars == <<hasDev, hasEtc>>
diskVars == <<versions, present, mtime, now, twice>>
readVars == <<at, started, etcMtime, v, lost>>
vars == <<confVars, diskVars, readVars, osdText, drawn>>

-----------------------------------------------------------------------------
Device == <<0, 0>>

Text(k) == [i \in 1..versions[k] |-> <<k, i>>]
Current == Text(Len(versions))

\* osd_text for the lines of a text: the device string comes first.
Composed(lines) == IF hasDev THEN <<Device>> \o lines ELSE lines

\* handletEtcText returns: to init(), or to the loop of the osd thread.
Return == at' = IF started THEN "stat" ELSE "default"

Init ==
  /\ hasDev \in BOOLEAN
  /\ hasEtc \in BOOLEAN
  /\ \E n \in 0..MaxLines : versions = <<n>>
  /\ present \in BOOLEAN
  /\ mtime = 1
  /\ now = 1
  /\ twice = FALSE
  /\ lost = FALSE
  /\ at = "stat"
  /\ started = FALSE
  /\ etcMtime = 0
  /\ v = << >>
  /\ osdText = << >>
  /\ drawn = << >>

-----------------------------------------------------------------------------
(***************************************************************************)
(* handletEtcText, called by init() once and by the osd thread for ever.   *)
(***************************************************************************)

\* No file is configured, stat fails (for want of a file, or this once with
\* the file there), or the time is the one seen last.
NothingNew ==
  /\ at = "stat"
  /\ Return
  /\ UNCHANGED <<confVars, diskVars, started, etcMtime, v, lost, osdText,
                 drawn>>

\* The time is stored before the file is read.
StatFile ==
  /\ at = "stat"
  /\ hasEtc /\ present /\ mtime # etcMtime
  /\ etcMtime' = mtime
  /\ lost' = FALSE
  /\ at' = "open"
  /\ UNCHANGED <<confVars, diskVars, started, v, osdText, drawn>>

\* A variant: a text that cannot be read is taken for an empty one.
OpenFailsClears ==
  /\ at = "open"
  /\ lost' = present
  /\ Return
  /\ osdText' = Composed(<< >>)
  /\ UNCHANGED <<confVars, diskVars, started, etcMtime, v, drawn>>

\* The file went away after stat, or it is there and open fails all the same
\* (no permission, no descriptor); the time is stored already.
OpenFails ==
  /\ at = "open"
  /\ lost' = present
  /\ Return
  /\ UNCHANGED <<confVars, diskVars, started, etcMtime, v, osdText, drawn>>

\* A variant: the loop tests for the end of the file and gets one line more.
ReadFileToEof ==
  /\ at = "open"
  /\ present
  /\ v' = Append(Current, <<Len(versions), versions[Len(versions)] + 1>>)
  /\ at' = "set"
  /\ UNCHANGED <<confVars, diskVars, started, etcMtime, lost, osdText, drawn>>

\* getline until the end; without a line osd_text is left as it is.
ReadFile ==
  /\ at = "open"
  /\ present
  /\ v' = Current
  /\ IF v' = << >> THEN Return ELSE at' = "set"
  /\ UNCHANGED <<confVars, diskVars, started, etcMtime, lost, osdText, drawn>>

\* A variant: osd_text.clear() is missing.
SetTextAppends ==
  /\ at = "set"
  /\ osdText' = osdText \o Composed(v)
  /\ Return
  /\ UNCHANGED <<confVars, diskVars, started, etcMtime, v, lost, drawn>>

\* A variant: the time is taken when the lines are stored.
SetTextStamps ==
  /\ at = "set"
  /\ osdText' = Composed(v)
  /\ etcMtime' = mtime
  /\ Return
  /\ UNCHANGED <<confVars, diskVars, started, v, lost, drawn>>

\* A variant: osd_text = v with and without a device string.
SetTextOnly ==
  /\ at = "set"
  /\ osdText' = v
  /\ Return
  /\ UNCHANGED <<confVars, diskVars, started, etcMtime, v, lost, drawn>>

\* Under text_mtx.
SetText ==
  /\ at = "set"
  /\ osdText' = Composed(v)
  /\ Return
  /\ UNCHANGED <<confVars, diskVars, started, etcMtime, v, lost, drawn>>

-----------------------------------------------------------------------------
\* init() goes on: a device string is drawn without a text, too.
DefaultText ==
  /\ at = "default"
  /\ osdText' = IF hasDev /\ osdText = << >> THEN <<Device>> ELSE osdText
  /\ started' = TRUE
  /\ at' = "stat"
  /\ UNCHANGED <<confVars, diskVars, etcMtime, v, lost, drawn>>

\* osdHandlerCallback, under text_mtx: osd_text[0], then the others in turn.
DrawText ==
  /\ started
  /\ at # "crashed"
  /\ osdText # << >>
  /\ drawn' = osdText
  /\ UNCHANGED <<confVars, diskVars, readVars, osdText>>

\* osd_text[0] of a vector that never held anything is read through a null
\* pointer.
DrawEmpty ==
  /\ started
  /\ at # "crashed"
  /\ osdText = << >>
  /\ at' = "crashed"
  /\ UNCHANGED <<confVars, diskVars, started, etcMtime, v, lost, osdText,
                 drawn>>

-----------------------------------------------------------------------------
(***************************************************************************)
(* Outside: the file is created, overwritten, truncated or removed.        *)
(***************************************************************************)
EditFile ==
  /\ Len(versions) < MaxTexts
  /\ \E n \in 0..MaxLines : versions' = Append(versions, n)
  /\ present' = TRUE
  /\ mtime' = now
  /\ twice' = (twice \/ now = mtime)
  /\ UNCHANGED <<confVars, now, readVars, osdText, drawn>>

RemoveFile ==
  /\ present
  /\ present' = FALSE
  /\ UNCHANGED <<confVars, versions, mtime, now, twice, readVars, osdText,
                 drawn>>

Tick ==
  /\ now < MaxNow
  /\ now' = now + 1
  /\ UNCHANGED <<confVars, versions, present, mtime, twice, readVars, osdText,
                 drawn>>

Crashed ==
  /\ at = "crashed"
  /\ UNCHANGED vars

-----------------------------------------------------------------------------
HandleEtcText ==
  NothingNew \/ StatFile \/ OpenFails \/ ReadFile \/ SetText

Next ==
  \/ NothingNew \/ StatFile \/ OpenFails \/ ReadFile \/ SetText
  \/ DefaultText
  \/ DrawText \/ DrawEmpty
  \/ EditFile \/ RemoveFile \/ Tick
  \/ Crashed

Spec == Init /\ [][Next]_vars

\* The osd thread is scheduled, and its wait ends after 3000 ms; stat does not
\* fail for ever on a file that is there.  Neither frames nor edits have to
\* come.
FairSpec ==
  Spec /\ WF_vars(HandleEtcText \/ DefaultText) /\ SF_vars(StatFile)

-----------------------------------------------------------------------------
Lines == (0..MaxTexts) \X (0..MaxLines)

TypeOK ==
  /\ hasDev \in BOOLEAN
  /\ hasEtc \in BOOLEAN
  /\ versions \in Seq(0..MaxLines) \ {<< >>}
  /\ Len(versions) <= MaxTexts
  /\ present \in BOOLEAN
  /\ mtime \in 1..MaxNow
  /\ now \in 1..MaxNow
  /\ twice \in BOOLEAN
  /\ lost \in BOOLEAN
  /\ at \in {"stat", "open", "set", "default", "crashed"}
  /\ started \in BOOLEAN
  /\ etcMtime \in 0..MaxNow
  /\ v \in Seq(Lines)
  /\ osdText \in Seq(Lines)
  /\ drawn \in Seq(Lines)

(***************************************************************************)
(* What a frame shows is one text the file has had, whole, or none yet:    *)
(* never two texts mixed, nor a text without the device string it belongs  *)
(* under (osd_text is rebuilt by one thread while the other draws it).     *)
(***************************************************************************)
WholeText(s) ==
  s = Composed(<< >>) \/ \E k \in 1..Len(versions) : s = Composed(Text(k))

DrawnIsWhole == drawn # << >> => WholeText(drawn)

(***************************************************************************)
(* With a device string no frame is drawn from an empty osd_text: what     *)
(* init() put there survives every later refresh, whether stat, open or    *)
(* the reading fails.                                                      *)
(***************************************************************************)
DeviceSurvives ==
  hasDev /\ started => osdText # << >> /\ Head(osdText) = Device

(***************************************************************************)
(* Frames never go back to an earlier text, nor to none: a refresh that    *)
(* fails leaves the text of the last one that did not.                     *)
(***************************************************************************)
Version(s) == IF s = << >> THEN 0 ELSE s[Len(s)][1]

NeverOlder == [][Version(drawn) <= Version(drawn')]_vars

(***************************************************************************)
(* When the file stays as it is, and has lines, its text is in the end the *)
(* one drawn, although its time is taken before it is read: unless it has  *)
(* changed twice within a second, or was there and could not be opened.    *)
(***************************************************************************)
HasText == hasEtc /\ present /\ Current # << >> /\ at # "crashed" /\ ~lost

FreshTextDrawn ==
  <>[](HasText /\ ~twice) => <>[](osdText = Composed(Current))

(***************************************************************************)
(* Claimed by osd.hpp:55 and osd.cpp:639: the text of the file is read     *)
(* when it was modified, and overlaid; asked here of a file that can be    *)
(* opened.                                                                 *)
(***************************************************************************)
TextCatchesUp == <>[]HasText => <>[](osdText = Composed(Current))
=============================================================================
