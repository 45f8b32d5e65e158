----------------------------- MODULE OsdTextProof -----------------------------
(***************************************************************************)
(* Proofs about OsdText for texts of any length, any number of edits and   *)
(* any clock.                                                              *)
(***************************************************************************)
EXTENDS OsdText, SequenceTheorems, TLAPS

\* What has been read is a text of the file that is not older than osd_text.
ReadIsWhole ==
  at = "set" => \E k \in 1..Len(versions) :
                  /\ v = Text(k)
                  /\ v # << >>
                  /\ Version(osdText) <= k

\* osd_text is such a text, and not older than what was drawn last.
OsdTextIsWhole ==
  /\ osdText # << >> => WholeText(osdText)
  /\ Version(drawn) <= Version(osdText)

\* The device string is the first line, and is there once init() is over.
DeviceFirst ==
  /\ hasDev /\ osdText # << >> => Head(osdText) = Device
  /\ hasDev /\ started => osdText # << >>

IInv == TypeOK /\ ReadIsWhole /\ OsdTextIsWhole /\ DrawnIsWhole /\ DeviceFirst

-----------------------------------------------------------------------------
(***************************************************************************)
(* The texts of a file are sequences of lines, each of its number.         *)
(***************************************************************************)
LEMMA TextType ==
  ASSUME TypeOK, NEW k \in 1..Len(versions)
  PROVE  /\ Text(k) \in Seq(Lines)
         /\ Len(Text(k)) = versions[k]
         /\ versions[k] \in 0..MaxLines
         /\ \A i \in 1..versions[k] : Text(k)[i] = <<k, i>>
<1>0. versions \in Seq(0..MaxLines)
  BY DEF TypeOK
<1>1. versions[k] \in 0..MaxLines
  BY <1>0, ElementOfSeq
<1>2. \A i \in 1..versions[k] : <<k, i>> \in Lines
  BY <1>1, TextAssumption DEF TypeOK, Lines, TextAssumption
<1>3. Text(k) \in [1..versions[k] -> Lines]
  BY <1>2 DEF Text
<1>4. versions[k] \in Nat
  BY <1>1, TextAssumption DEF TextAssumption
<1>5. Text(k) \in Seq(Lines) /\ Len(Text(k)) = versions[k]
  BY <1>3, <1>4
<1>6. \A i \in 1..versions[k] : Text(k)[i] = <<k, i>>
  BY DEF Text
<1> QED BY <1>1, <1>5, <1>6

(***************************************************************************)
(* The device string is a line.                                            *)
(***************************************************************************)
LEMMA ComposedType ==
  ASSUME TypeOK, NEW s \in Seq(Lines)
  PROVE  /\ Composed(s) \in Seq(Lines)
         /\ hasDev => Composed(s) # << >> /\ Head(Composed(s)) = Device
         /\ s # << >> => Composed(s) # << >>
                         /\ Version(Composed(s)) = Version(s)
         /\ Version(Composed(<< >>)) = 0
<1>1. Device \in Lines
  BY TextAssumption DEF Device, Lines, TextAssumption
<1>2. Device[1] = 0
  BY DEF Device
<1>3. CASE hasDev
  <2>1. Composed(s) = <<Device>> \o s /\ Composed(<< >>) = <<Device>> \o << >>
    BY <1>3 DEF Composed
  <2>2. /\ Composed(s) \in Seq(Lines)
        /\ Len(Composed(s)) = Len(s) + 1
        /\ Composed(s)[1] = Device
        /\ \A i \in 1..Len(s) : Composed(s)[i + 1] = s[i]
    BY <2>1, <1>1
  <2>3. Composed(<< >>) = <<Device>>
    BY <2>1, <1>1
  <2>4. Version(Composed(<< >>)) = 0
    BY <2>3, <1>2 DEF Version
  <2>5. Composed(s) # << >> /\ Head(Composed(s)) = Device
    BY <2>2
  <2>6. ASSUME s # << >> PROVE Version(Composed(s)) = Version(s)
    <3>1. Len(s) \in 1..Len(s)
      BY <2>6
    <3>2. Composed(s)[Len(s) + 1] = s[Len(s)]
      BY <3>1, <2>2
    <3> QED BY <3>2, <2>2, <2>5, <2>6 DEF Version
  <2> QED BY <2>2, <2>4, <2>5, <2>6
<1>4. CASE ~hasDev
  BY <1>4 DEF Composed, Version
<1> QED BY <1>3, <1>4

(***************************************************************************)
(* The version of a text that has lines is its number.                     *)
(***************************************************************************)
LEMMA TextVersion ==
  ASSUME TypeOK, NEW k \in 1..Len(versions), Text(k) # << >>
  PROVE  Version(Text(k)) = k
<1>1. versions[k] \in 1..versions[k]
  BY TextType, TextAssumption DEF TextAssumption
<1>2. Text(k)[Len(Text(k))] = <<k, versions[k]>>
  BY <1>1, TextType
<1> QED BY <1>2 DEF Version

(***************************************************************************)
(* No version is beyond the last.                                          *)
(***************************************************************************)
LEMMA VersionBound ==
  ASSUME TypeOK, NEW s, WholeText(s) \/ s = << >>
  PROVE  Version(s) \in 0..Len(versions)
<1>1. CASE s = << >>
  BY <1>1 DEF Version, TypeOK
<1>2. CASE s = Composed(<< >>)
  <2>1. << >> \in Seq(Lines)
    OBVIOUS
  <2>2. Version(s) = 0
    BY <1>2, <2>1, ComposedType
  <2> QED BY <2>2 DEF TypeOK
<1>3. CASE \E k \in 1..Len(versions) : s = Composed(Text(k))
  <2>1. PICK k \in 1..Len(versions) : s = Composed(Text(k))
    BY <1>3
  <2>2. CASE Text(k) = << >>
    <3>1. Version(s) = 0
      BY <2>1, <2>2, TextType, ComposedType
    <3> QED BY <3>1 DEF TypeOK
  <2>3. CASE Text(k) # << >>
    <3>1. Version(s) = k
      BY <2>1, <2>3, TextType, ComposedType, TextVersion
    <3> QED BY <3>1 DEF TypeOK
  <2> QED BY <2>2, <2>3
<1> QED BY <1>1, <1>2, <1>3 DEF WholeText

(***************************************************************************)
(* An edit adds a text and keeps the earlier ones.                         *)
(***************************************************************************)
LEMMA EditKeepsTexts ==
  ASSUME TypeOK, EditFile
  PROVE  /\ versions' \in Seq(0..MaxLines) \ {<< >>}
         /\ Len(versions') = Len(versions) + 1
         /\ Len(versions) \in Nat
         /\ \A k \in 1..Len(versions) : Text(k)' = Text(k)
         /\ \A s : WholeText(s) => WholeText(s)'
<1>1. PICK n \in 0..MaxLines : versions' = Append(versions, n)
  BY DEF EditFile
<1>2. versions \in Seq(0..MaxLines)
  BY DEF TypeOK
<1>3. /\ versions' \in Seq(0..MaxLines)
      /\ Len(versions') = Len(versions) + 1
      /\ Len(versions) \in Nat
      /\ \A k \in 1..Len(versions) : versions'[k] = versions[k]
  BY <1>1, <1>2
<1>4. \A k \in 1..Len(versions) : Text(k)' = Text(k)
  BY <1>3 DEF Text
<1>5. Composed(<< >>)' = Composed(<< >>)
  BY DEF Composed, EditFile, confVars
<1>6. ASSUME NEW s, WholeText(s) PROVE WholeText(s)'
  <2>1. CASE s = Composed(<< >>)
    BY <2>1, <1>5 DEF WholeText
  <2>2. CASE \E k \in 1..Len(versions) : s = Composed(Text(k))
    <3>1. PICK k \in 1..Len(versions) : s = Composed(Text(k))
      BY <2>2
    <3>2. k \in 1..Len(versions')
      BY <1>3
    <3>3. Composed(Text(k))' = Composed(Text(k))
      BY <1>4 DEF Composed, EditFile, confVars
    <3> QED BY <3>1, <3>2, <3>3 DEF WholeText
  <2> QED BY <1>6, <2>1, <2>2 DEF WholeText
<1> QED BY <1>3, <1>4, <1>6

-----------------------------------------------------------------------------
(***************************************************************************)
(* The types hold at first.                                                *)
(***************************************************************************)
LEMMA InitType == ASSUME Init PROVE TypeOK
<1>1. PICK n \in 0..MaxLines : versions = <<n>>
  BY DEF Init
<1>2. versions \in Seq(0..MaxLines) /\ versions # << >> /\ Len(versions) = 1
  BY <1>1
<1>3. Len(versions) <= MaxTexts
  BY <1>2, TextAssumption DEF TextAssumption
<1>4. mtime \in 1..MaxNow /\ now \in 1..MaxNow /\ etcMtime \in 0..MaxNow
  BY TextAssumption DEF Init, TextAssumption
<1>5. /\ v \in Seq(Lines) /\ osdText \in Seq(Lines) /\ drawn \in Seq(Lines)
      /\ at \in {"stat", "open", "set", "default", "crashed"}
  BY DEF Init
<1>6. /\ hasDev \in BOOLEAN /\ hasEtc \in BOOLEAN /\ present \in BOOLEAN
      /\ started \in BOOLEAN /\ twice \in BOOLEAN /\ lost \in BOOLEAN
  BY DEF Init
<1> QED BY <1>2, <1>3, <1>4, <1>5, <1>6 DEF TypeOK

(***************************************************************************)
(* Each step keeps the types.                                              *)
(***************************************************************************)
LEMMA NextType == ASSUME TypeOK, [Next]_vars PROVE TypeOK'
<1> USE DEF TypeOK, confVars, diskVars, readVars
<1>1. CASE NothingNew
  BY <1>1 DEF NothingNew, Return
<1>2. CASE StatFile
  <2>1. mtime \in 0..MaxNow
    OBVIOUS
  <2>2. UNCHANGED <<hasDev, hasEtc, versions, present, mtime, now, twice,
                    started, v, osdText, drawn>>
    BY <1>2 DEF StatFile
  <2>3. etcMtime' = mtime /\ lost' = FALSE /\ at' = "open"
    BY <1>2 DEF StatFile
  <2> QED BY <2>1, <2>2, <2>3
<1>3. CASE OpenFails
  BY <1>3 DEF OpenFails, Return
<1>4. CASE ReadFile
  <2>1. Len(versions) \in 1..Len(versions)
    OBVIOUS
  <2>2. v' \in Seq(Lines)
    BY <1>4, <2>1, TextType DEF ReadFile, Current
  <2>3. at' \in {"stat", "open", "set", "default", "crashed"}
    BY <1>4 DEF ReadFile, Return
  <2> QED BY <1>4, <2>2, <2>3 DEF ReadFile
<1>5. CASE SetText
  <2>1. osdText' \in Seq(Lines)
    BY <1>5, ComposedType DEF SetText
  <2> QED BY <1>5, <2>1 DEF SetText, Return
<1>6. CASE DefaultText
  <2>1. <<Device>> \in Seq(Lines)
    BY TextAssumption DEF Device, Lines, TextAssumption
  <2> QED BY <1>6, <2>1 DEF DefaultText
<1>7. CASE DrawText
  BY <1>7 DEF DrawText
<1>8. CASE DrawEmpty
  BY <1>8 DEF DrawEmpty
<1>9. CASE EditFile
  <2>1. Len(versions') <= MaxTexts
    BY <1>9, EditKeepsTexts, TextAssumption DEF EditFile, TextAssumption
  <2> QED BY <1>9, <2>1, EditKeepsTexts DEF EditFile
<1>10. CASE RemoveFile
  BY <1>10 DEF RemoveFile
<1>11. CASE Tick
  BY <1>11, TextAssumption DEF Tick, TextAssumption
<1>12. CASE Crashed \/ UNCHANGED vars
  BY <1>12 DEF Crashed, vars
<1> QED BY <1>1, <1>2, <1>3, <1>4, <1>5, <1>6, <1>7, <1>8, <1>9, <1>10,
           <1>11, <1>12 DEF Next

(***************************************************************************)
(* Every variable keeps its type, for texts of any length and any number   *)
(* of edits.                                                               *)
(***************************************************************************)
THEOREM TypeCorrect == Spec => []TypeOK
<1>1. Init => TypeOK
  BY InitType
<1>2. TypeOK /\ [Next]_vars => TypeOK'
  BY NextType
<1> QED BY <1>1, <1>2, PTL DEF Spec

-----------------------------------------------------------------------------
(***************************************************************************)
(* A step that leaves the file alone leaves its texts alone.               *)
(***************************************************************************)
LEMMA SameTexts ==
  ASSUME UNCHANGED <<hasDev, versions>>
  PROVE  /\ \A k : Text(k)' = Text(k)
         /\ \A s : WholeText(s)' <=> WholeText(s)
<1>1. \A k : Text(k)' = Text(k)
  BY DEF Text
<1>2. \A s : WholeText(s)' <=> WholeText(s)
  BY DEF WholeText, Composed, Text
<1> QED BY <1>1, <1>2

(***************************************************************************)
(* The invariant holds at first.                                           *)
(***************************************************************************)
LEMMA InitInv == ASSUME Init PROVE IInv
<1>1. TypeOK
  BY InitType
<1>2. ReadIsWhole /\ OsdTextIsWhole /\ DrawnIsWhole /\ DeviceFirst
  BY DEF Init, ReadIsWhole, OsdTextIsWhole, DrawnIsWhole, DeviceFirst, Version
<1> QED BY <1>1, <1>2 DEF IInv

(***************************************************************************)
(* What osd_text gets from SetText: a whole text, not older than before.   *)
(***************************************************************************)
LEMMA SetTextStep ==
  ASSUME IInv, SetText
  PROVE  /\ WholeText(osdText')
         /\ osdText' # << >>
         /\ hasDev => Head(osdText') = Device
         /\ Version(osdText) <= Version(osdText')
<1>1. PICK k \in 1..Len(versions) : v = Text(k) /\ v # << >> /\ Version(osdText) <= k
  BY DEF IInv, ReadIsWhole, SetText
<1>2. osdText' = Composed(v) /\ v \in Seq(Lines)
  BY DEF SetText, IInv, TypeOK
<1>3. osdText' # << >> /\ (hasDev => Head(osdText') = Device)
      /\ Version(osdText') = Version(v)
  BY <1>1, <1>2, ComposedType DEF IInv
<1>4. Version(v) = k
  BY <1>1, TextVersion DEF IInv
<1>5. WholeText(osdText')
  BY <1>1, <1>2 DEF WholeText
<1> QED BY <1>1, <1>3, <1>4, <1>5

(***************************************************************************)
(* What init() puts in an empty osd_text.                                  *)
(***************************************************************************)
LEMMA DefaultTextStep ==
  ASSUME IInv, DefaultText
  PROVE  /\ osdText' # << >> => WholeText(osdText')
         /\ hasDev => osdText' # << >> /\ Head(osdText') = Device
         /\ Version(osdText) <= Version(osdText')
<1>1. CASE hasDev /\ osdText = << >>
  <2>1. osdText' = <<Device>>
    BY <1>1 DEF DefaultText
  <2>2. Device \in Lines
    BY TextAssumption DEF Device, Lines, TextAssumption
  <2>3. <<Device>> = Composed(<< >>)
    BY <1>1, <2>2 DEF Composed
  <2>4. Version(osdText) = 0
    BY <1>1 DEF Version
  <2>5. Version(osdText') = 0
    BY <2>1 DEF Version, Device
  <2>6. osdText' # << >> /\ Head(osdText') = Device
    BY <2>1, <2>2
  <2> QED BY <2>1, <2>3, <2>4, <2>5, <2>6 DEF WholeText
<1>2. CASE ~(hasDev /\ osdText = << >>)
  <2>1. osdText' = osdText
    BY <1>2 DEF DefaultText
  <2>2. osdText # << >> => WholeText(osdText)
    BY DEF IInv, OsdTextIsWhole
  <2>3. Version(osdText) \in 0..Len(versions)
    BY <2>2, VersionBound DEF IInv
  <2>4. Version(osdText) \in Int
    BY <2>3 DEF IInv, TypeOK
  <2> QED BY <1>2, <2>1, <2>2, <2>4 DEF IInv, DeviceFirst
<1> QED BY <1>1, <1>2

(***************************************************************************)
(* Each step keeps the invariant.                                          *)
(***************************************************************************)
LEMMA NextInv == ASSUME IInv, [Next]_vars PROVE IInv'
<1> USE DEF IInv, confVars, diskVars, readVars
<1>0. TypeOK'
  BY NextType
<1>n. Len(versions) \in Nat /\ Len(versions) \in 1..Len(versions)
  BY DEF TypeOK
<1>o. Version(osdText) \in 0..Len(versions) /\ Version(drawn) \in 0..Len(versions)
  BY VersionBound DEF OsdTextIsWhole, DrawnIsWhole
<1>a. ASSUME UNCHANGED <<hasDev, versions, osdText, drawn>>, v' = v,
             at' = "set" => at = "set", started' => started
      PROVE  ReadIsWhole' /\ OsdTextIsWhole' /\ DrawnIsWhole' /\ DeviceFirst'
  BY <1>a, SameTexts DEF ReadIsWhole, OsdTextIsWhole, DrawnIsWhole,
                         DeviceFirst, Version
<1>1. CASE NothingNew
  BY <1>0, <1>1, <1>a DEF NothingNew, Return
<1>2. CASE StatFile
  BY <1>0, <1>2, <1>a DEF StatFile
<1>3. CASE OpenFails
  BY <1>0, <1>3, <1>a DEF OpenFails, Return
<1>4. CASE ReadFile
  <2>1. UNCHANGED <<hasDev, versions, osdText, drawn, started>> /\ v' = Current
        /\ (at' = "set" => v' # << >>)
    BY <1>4 DEF ReadFile, Return
  <2>2. Version(osdText)' = Version(osdText) /\ Version(drawn)' = Version(drawn)
    BY <2>1 DEF Version
  <2>3. ReadIsWhole'
    BY <2>1, <2>2, <1>n, <1>o, SameTexts DEF ReadIsWhole, Current
  <2>4. OsdTextIsWhole' /\ DrawnIsWhole' /\ DeviceFirst'
    BY <2>1, <2>2, SameTexts DEF OsdTextIsWhole, DrawnIsWhole, DeviceFirst
  <2> QED BY <1>0, <2>3, <2>4
<1>5. CASE SetText
  <2>1. UNCHANGED <<hasDev, versions, drawn, started>> /\ at' # "set"
    BY <1>5 DEF SetText, Return
  <2>2. /\ WholeText(osdText') /\ osdText' # << >>
        /\ hasDev => Head(osdText') = Device
        /\ Version(osdText) <= Version(osdText')
    BY <1>5, SetTextStep
  <2>3. Version(drawn)' = Version(drawn) /\ Version(osdText)' = Version(osdText')
    BY <2>1 DEF Version
  <2>4. WholeText(osdText)'
    BY <2>1, <2>2 DEF WholeText, Composed, Text
  <2>5. Version(osdText') \in Int
    <3>1. Version(osdText') \in 0..Len(versions)
      BY <2>2, VersionBound
    <3> QED BY <3>1, <1>n
  <2>6. OsdTextIsWhole'
    BY <2>2, <2>3, <2>4, <2>5, <1>n, <1>o DEF OsdTextIsWhole
  <2>7. ReadIsWhole' /\ DrawnIsWhole' /\ DeviceFirst'
    BY <2>1, <2>2, SameTexts DEF ReadIsWhole, DrawnIsWhole, DeviceFirst
  <2> QED BY <1>0, <2>6, <2>7
<1>6. CASE DefaultText
  <2>1. UNCHANGED <<hasDev, versions, drawn>> /\ at' = "stat"
    BY <1>6 DEF DefaultText
  <2>2. /\ osdText' # << >> => WholeText(osdText')
        /\ hasDev => osdText' # << >> /\ Head(osdText') = Device
        /\ Version(osdText) <= Version(osdText')
    BY <1>6, DefaultTextStep
  <2>3. Version(drawn)' = Version(drawn) /\ Version(osdText)' = Version(osdText')
    BY <2>1 DEF Version
  <2>4. Version(osdText') \in Int
    <3>1. Version(osdText') \in 0..Len(versions)
      BY <2>2, VersionBound
    <3> QED BY <3>1, <1>n
  <2>5. WholeText(osdText)' <=> WholeText(osdText')
    BY <2>1 DEF WholeText, Composed, Text
  <2>6. OsdTextIsWhole'
    BY <2>2, <2>3, <2>4, <2>5, <1>n, <1>o DEF OsdTextIsWhole
  <2>7. ReadIsWhole' /\ DrawnIsWhole' /\ DeviceFirst'
    BY <2>1, <2>2, SameTexts DEF ReadIsWhole, DrawnIsWhole, DeviceFirst
  <2> QED BY <1>0, <2>6, <2>7
<1>7. CASE DrawText
  <2>1. UNCHANGED <<hasDev, versions, osdText, v, at, started>> /\ drawn' = osdText
        /\ osdText # << >>
    BY <1>7 DEF DrawText
  <2>2. Version(osdText)' = Version(osdText) /\ Version(drawn)' = Version(osdText)
    BY <2>1 DEF Version
  <2>3. OsdTextIsWhole' /\ DrawnIsWhole'
    BY <2>1, <2>2, <1>n, <1>o, SameTexts DEF OsdTextIsWhole, DrawnIsWhole
  <2>4. ReadIsWhole' /\ DeviceFirst'
    BY <2>1, <2>2, SameTexts DEF ReadIsWhole, DeviceFirst
  <2> QED BY <1>0, <2>3, <2>4
<1>8. CASE DrawEmpty
  BY <1>0, <1>8, <1>a DEF DrawEmpty
<1>9. CASE EditFile
  <2>1. UNCHANGED <<hasDev, osdText, drawn, v, at, started>>
    BY <1>9 DEF EditFile
  <2>2. Version(osdText)' = Version(osdText) /\ Version(drawn)' = Version(drawn)
    BY <2>1 DEF Version
  <2>3. ReadIsWhole'
    <3>1. SUFFICES ASSUME at = "set"
                   PROVE  \E k \in 1..Len(versions') :
                            v = Text(k)' /\ v # << >> /\ Version(osdText) <= k
      BY <2>1, <2>2 DEF ReadIsWhole
    <3>2. PICK k \in 1..Len(versions) : v = Text(k) /\ v # << >> /\ Version(osdText) <= k
      BY <3>1 DEF ReadIsWhole
    <3>3. k \in 1..Len(versions') /\ Text(k)' = Text(k)
      BY <1>9, EditKeepsTexts
    <3> QED BY <3>2, <3>3
  <2>4. OsdTextIsWhole'
    BY <1>9, <2>1, <2>2, EditKeepsTexts DEF OsdTextIsWhole
  <2>5. DrawnIsWhole' /\ DeviceFirst'
    BY <1>9, <2>1, EditKeepsTexts DEF DrawnIsWhole, DeviceFirst
  <2> QED BY <1>0, <2>3, <2>4, <2>5
<1>10. CASE RemoveFile
  BY <1>0, <1>10, <1>a DEF RemoveFile
<1>11. CASE Tick
  BY <1>0, <1>11, <1>a DEF Tick
<1>12. CASE Crashed \/ UNCHANGED vars
  BY <1>0, <1>12, <1>a DEF Crashed, vars
<1> QED BY <1>1, <1>2, <1>3, <1>4, <1>5, <1>6, <1>7, <1>8, <1>9, <1>10,
           <1>11, <1>12 DEF Next

(***************************************************************************)
(* The invariant holds in every behaviour.                                 *)
(***************************************************************************)
THEOREM Invariant == Spec => []IInv
<1>1. Init => IInv
  BY InitInv
<1>2. IInv /\ [Next]_vars => IInv'
  BY NextInv
<1> QED BY <1>1, <1>2, PTL DEF Spec

(***************************************************************************)
(* Each frame shows one text the file has had, whole.                      *)
(***************************************************************************)
THEOREM DrawnIsWholeCorrect == Spec => []DrawnIsWhole
<1>1. IInv => DrawnIsWhole
  BY DEF IInv
<1> QED BY <1>1, Invariant, PTL

(***************************************************************************)
(* With a device string osd_text is never empty when a frame is drawn.     *)
(***************************************************************************)
THEOREM DeviceSurvivesCorrect == Spec => []DeviceSurvives
<1>1. IInv => DeviceSurvives
  BY DEF IInv, DeviceFirst, DeviceSurvives
<1> QED BY <1>1, Invariant, PTL

(***************************************************************************)
(* Frames never go back to an earlier text.                                *)
(***************************************************************************)
THEOREM NeverOlderCorrect == Spec => NeverOlder
<1>1. IInv /\ [Next]_vars => [Version(drawn) <= Version(drawn')]_vars
  <2> SUFFICES ASSUME IInv, [Next]_vars
               PROVE  Version(drawn) <= Version(drawn')
    OBVIOUS
  <2>1. Version(drawn) \in Int
    <3>1. Version(drawn) \in 0..Len(versions)
      BY VersionBound DEF IInv, DrawnIsWhole
    <3> QED BY <3>1 DEF IInv, TypeOK
  <2>2. CASE drawn' = drawn
    BY <2>1, <2>2
  <2>3. CASE drawn' # drawn
    <3>1. drawn' = osdText
      BY <2>3 DEF Next, vars, NothingNew, StatFile, OpenFails, ReadFile,
                  SetText, DefaultText, DrawText, DrawEmpty, EditFile,
                  RemoveFile, Tick, Crashed
    <3> QED BY <3>1 DEF IInv, OsdTextIsWhole
  <2> QED BY <2>2, <2>3
<1> QED BY <1>1, Invariant, PTL DEF Spec, NeverOlder

-----------------------------------------------------------------------------
(***************************************************************************)
(* No text is missed.                                                      *)
(***************************************************************************)

\* The thread would not read the file if it looked now.
Settled == at \in {"stat", "default"} /\ etcMtime = mtime

FreshWhenSettled ==
  ~twice /\ HasText /\ Settled => osdText = Composed(Current)

\* Lines still to be stored are those of the file, or the time that was taken
\* before they were read is too old, and the file will be read again.
ReadIsFresh == ~twice /\ at = "set" /\ etcMtime = mtime => v = Current

FreshInv ==
  etcMtime <= mtime /\ mtime <= now /\ ReadIsFresh /\ FreshWhenSettled

\* Current and what is made of it only change with the file.
LEMMA SameCurrent ==
  ASSUME UNCHANGED <<hasDev, versions>>
  PROVE  /\ Current' = Current
         /\ Composed(Current)' = Composed(Current)
  BY DEF Current, Text, Composed

LEMMA FreshStep ==
  ASSUME TypeOK, FreshInv, [Next]_vars
  PROVE  FreshInv'
<1> USE DEF FreshInv, ReadIsFresh, FreshWhenSettled, HasText, Settled, Return
<1>0. etcMtime \in Int /\ mtime \in Int /\ now \in Int
  BY DEF TypeOK
<1>1. CASE NothingNew
  <2>1. UNCHANGED <<confVars, diskVars, started, etcMtime, v, osdText>>
    BY <1>1 DEF NothingNew
  <2> QED BY <1>1, <2>1, SameCurrent DEF NothingNew, confVars, diskVars
<1>2. CASE StatFile
  BY <1>0, <1>2 DEF StatFile, diskVars
<1>3. CASE OpenFails
  BY <1>3 DEF OpenFails, diskVars
<1>4. CASE ReadFile
  <2>1. /\ v' = Current /\ at = "open"
        /\ at' = "set" \/ Current = << >>
        /\ UNCHANGED <<confVars, diskVars, started, etcMtime, osdText>>
    BY <1>4 DEF ReadFile
  <2>2. Current' = Current
    BY <2>1, SameCurrent DEF confVars, diskVars
  <2> QED BY <2>1, <2>2 DEF diskVars
<1>5. CASE SetText
  <2>1. /\ osdText' = Composed(v) /\ at = "set" /\ at' # "set"
        /\ UNCHANGED <<confVars, diskVars, started, etcMtime, v>>
    BY <1>5 DEF SetText
  <2>2. /\ Current' = Current /\ Composed(Current)' = Composed(Current)
    BY <2>1, SameCurrent DEF confVars, diskVars
  <2>3. ~twice' /\ Settled' => v = Current
    BY <2>1 DEF diskVars
  <2> QED BY <2>1, <2>2, <2>3 DEF diskVars
<1>6. CASE DefaultText
  <2>1. /\ UNCHANGED <<confVars, diskVars, etcMtime, v>>
        /\ at = "default" /\ at' = "stat"
        /\ osdText' = osdText \/ osdText = << >>
    BY <1>6 DEF DefaultText
  <2>2. /\ Current' = Current /\ Composed(Current)' = Composed(Current)
    BY <2>1, SameCurrent DEF confVars, diskVars
  <2>3. Composed(Current) = << >> => Current = << >>
    <3>1. Len(versions) \in 1..Len(versions)
      BY DEF TypeOK
    <3>2. Current \in Seq(Lines)
      BY <3>1, TextType DEF Current
    <3> QED BY <3>2, ComposedType
  <2>4. Current # << >> /\ osdText = Composed(Current) =>
          osdText' = Composed(Current)
    BY <2>1, <2>3
  <2>5. UNCHANGED <<hasEtc, present, mtime, now, twice, etcMtime, v, lost>>
    BY <1>6 DEF DefaultText, confVars, diskVars
  <2>6. etcMtime' <= mtime' /\ mtime' <= now' /\ ReadIsFresh'
    BY <2>1, <2>5
  <2>7. FreshWhenSettled'
    BY <2>1, <2>2, <2>4, <2>5
  <2> QED BY <2>6, <2>7
<1>7. CASE DrawText
  BY <1>7, SameCurrent DEF DrawText, confVars, diskVars, readVars
<1>8. CASE DrawEmpty
  BY <1>8, SameCurrent DEF DrawEmpty, confVars, diskVars
<1>9. CASE EditFile
  <2>1. /\ mtime' = now /\ now' = now /\ etcMtime' = etcMtime
        /\ ~twice' => now # mtime
    BY <1>9 DEF EditFile, readVars
  <2> QED BY <1>0, <2>1
<1>10. CASE RemoveFile
  BY <1>10, SameCurrent DEF RemoveFile, confVars, readVars
<1>11. CASE Tick
  <2>1. UNCHANGED <<hasDev, versions>> /\ now' = now + 1
    BY <1>11 DEF Tick, confVars
  <2> QED BY <1>0, <1>11, <2>1, SameCurrent DEF Tick, confVars, readVars
<1>12. CASE Crashed \/ UNCHANGED vars
  BY <1>12, SameCurrent DEF Crashed, vars, confVars, diskVars, readVars
<1> QED BY <1>1, <1>2, <1>3, <1>4, <1>5, <1>6, <1>7, <1>8, <1>9, <1>10,
           <1>11, <1>12 DEF Next

(***************************************************************************)
(* Unless the file changes twice within a second, or is there and cannot   *)
(* be opened after its time was stored, no text is missed: when the thread *)
(* would find nothing new, what is drawn is the text of the file, whatever *)
(* edits, removals and failures of stat came before and whichever came     *)
(* between stat, open and reading (osd.cpp:628-657,                        *)
(* system_common.cpp:300-331).                                             *)
(***************************************************************************)
THEOREM NoTextMissed == Spec => []FreshWhenSettled
<1>1. Init => FreshInv
  BY DEF Init, FreshInv, ReadIsFresh, FreshWhenSettled, Settled
<1>2. TypeOK /\ FreshInv /\ [Next]_vars => FreshInv'
  BY FreshStep
<1>3. FreshInv => FreshWhenSettled
  BY DEF FreshInv
<1> QED BY <1>1, <1>2, <1>3, TypeCorrect, PTL DEF Spec
=============================================================================
