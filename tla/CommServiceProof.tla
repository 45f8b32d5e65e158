--------------------------- MODULE CommServiceProof ---------------------------
(***************************************************************************)
(* Proofs about CommService for any number of packets, signals, rotations  *)
(* and names and any file limit.                                           *)
(***************************************************************************)
EXTENDS CommService, TLAPS

NetPcs == {"none", "enter", "loop", "read", "save", "dispatch", "stopHb",
           "joinHb", "done", "joined"}
TtyPcs == {"none", "enter", "loop", "read", "save", "dispatch", "count",
           "respond", "done", "joined"}

(***************************************************************************)
(* Where the threads can be, given where main is: a worker exists exactly  *)
(* while its handler does, and main deletes only what it has joined.       *)
(***************************************************************************)
Lifecycle ==
  /\ worker["net"] \in NetPcs
  /\ worker["tty"] \in TtyPcs
  /\ \A h \in Handlers :
       /\ handler[h] = "null" <=> worker[h] = "none"
       /\ handler[h] = "deleted" => worker[h] = "joined"
       /\ mainPc = DeletePc[h] => worker[h] = "joined"
       /\ mainPc = h => handler[h] = "null"
       /\ handler[h] # "alive" => ~workFlag[h]
  /\ mainPc = "tty" => handler["net"] = "null"
  /\ mainPc \in {"stopTty", "joinTty", "deleteTty", "exited"}
       => handler["net"] # "alive"
  /\ mainPc = "exited" => handler["tty"] # "alive"

\* The heartbeat thread lives inside the life of the network worker.
HbInside ==
  /\ worker["net"] \in {"none", "enter"} <=> hb = "none"
  /\ worker["net"] \in {"done", "joined"} <=> hb = "joined"

\* The lines handler h may still put in the file of n before it takes a name.
Left(h, n) == IF file[h] = n THEN LineLimit - curLines[h] ELSE 0

\* What a file holds and what its handlers may still add was allowed for when
\* they took its name.  Before the first line the line counter forces that.
FilesCounted ==
  /\ \A n \in Names :
       fileLines[n] + Left("tty", n) + Left("net", n) <= LineLimit * begun[n]
  /\ \A h \in Handlers :
       /\ worker[h] = "none" => file[h] = NoFile
       /\ worker[h] # "none" /\ file[h] = NoFile => curLines[h] = MaxLines

IInv == TypeOK /\ Lifecycle /\ HbInside /\ FilesCounted

USE DEF Handlers

-----------------------------------------------------------------------------
(***************************************************************************)
(* Every variable keeps its type.                                          *)
(***************************************************************************)
LEMMA TypeUnchanged ==
  /\ MainType /\ UNCHANGED mainVars => MainType'
  /\ WorkType /\ UNCHANGED workVars => WorkType'
  /\ HbType /\ UNCHANGED hbVars => HbType'
  /\ PacketType /\ UNCHANGED packetVars => PacketType'
  /\ FileType /\ UNCHANGED fileVars => FileType'
  /\ CommandType /\ UNCHANGED commandVars => CommandType'
<1>1. MainType /\ UNCHANGED mainVars => MainType'
  BY DEF MainType, mainVars
<1>2. WorkType /\ UNCHANGED workVars => WorkType'
  BY DEF WorkType, workVars
<1>3. HbType /\ UNCHANGED hbVars => HbType'
  BY DEF HbType, hbVars
<1>4. PacketType /\ UNCHANGED packetVars => PacketType'
  BY DEF PacketType, packetVars
<1>5. FileType /\ UNCHANGED fileVars => FileType'
  BY DEF FileType, fileVars, nameVars
<1>6. CommandType /\ UNCHANGED commandVars => CommandType'
  BY DEF CommandType, commandVars
<1> QED BY <1>1, <1>2, <1>3, <1>4, <1>5, <1>6

\* A worker moves from a known place to a known place.
LEMMA GotoType ==
  ASSUME WorkType, NEW h \in Handlers, NEW from, NEW to \in WorkerPcs,
         Goto(h, from, to), UNCHANGED <<workFlag, frame>>
  PROVE  WorkType'
BY DEF WorkType, Goto

(***************************************************************************)
(* A step of main keeps the types.                                         *)
(***************************************************************************)
LEMMA MainTypeStep ==
  ASSUME TypeOK, Main PROVE TypeOK'
<1> USE TypeUnchanged DEF TypeOK
<1>1. ASSUME NEW h \in Handlers, SkipHandler(h) PROVE TypeOK'
  <2>1. MainType'
    BY <1>1 DEF SkipHandler, AfterStart, MainType, MainPcs
  <2> QED BY <1>1, <2>1 DEF SkipHandler
<1>2. ASSUME NEW h \in Handlers, StartHandler(h) PROVE TypeOK'
  <2>1. MainType'
    BY <1>2 DEF StartHandler, AfterStart, MainType, MainPcs
  <2>2. WorkType'
    BY <1>2 DEF StartHandler, WorkType, WorkerPcs
  <2>3. FileType'
    BY <1>2, BoundsAssumption DEF StartHandler, FileType, LineLimit,
        nameVars, BoundsAssumption
  <2> QED BY <1>2, <2>1, <2>2, <2>3 DEF StartHandler
<1>3. ASSUME NEW h \in Handlers, StopHandler(h) PROVE TypeOK'
  <2>1. JoinPc[h] \in MainPcs /\ DonePc[h] \in MainPcs
    BY DEF JoinPc, DonePc, MainPcs
  <2>2. MainType'
    BY <1>3, <2>1 DEF StopHandler, MainType
  <2>3. WorkType'
    BY <1>3 DEF StopHandler, WorkType
  <2> QED BY <1>3, <2>2, <2>3 DEF StopHandler
<1>4. ASSUME NEW h \in Handlers, JoinWorker(h) PROVE TypeOK'
  <2>1. MainType'
    BY <1>4 DEF JoinWorker, DeletePc, MainType, MainPcs
  <2>2. WorkType'
    BY <1>4 DEF JoinWorker, WorkType, WorkerPcs
  <2> QED BY <1>4, <2>1, <2>2 DEF JoinWorker
<1>5. ASSUME NEW h \in Handlers, DeleteHandler(h) PROVE TypeOK'
  <2>1. MainType'
    BY <1>5 DEF DeleteHandler, DonePc, MainType, MainPcs
  <2>2. WorkType'
    BY <1>5 DEF DeleteHandler, WorkType
  <2> QED BY <1>5, <2>1, <2>2 DEF DeleteHandler
<1>6. CASE CheckHandlers
  <2>1. MainType'
    BY <1>6 DEF CheckHandlers, MainType, MainPcs
  <2> QED BY <1>6, <2>1 DEF CheckHandlers
<1>7. CASE MaskSignals
  <2>1. MainType'
    BY <1>7 DEF MaskSignals, MainType, MainPcs
  <2> QED BY <1>7, <2>1 DEF MaskSignals
<1> QED BY <1>1, <1>2, <1>3, <1>4, <1>5, <1>6, <1>7 DEF Main

\* A line counts one or none, and puts at most as many in the file.
LEMMA AppendLineIs ==
  ASSUME NEW h \in Handlers, NEW lines \in Nat, AppendLine(h, lines)
  PROVE  \E opened \in {0, 1}, written \in {0, 1} :
           /\ written <= opened
           /\ curLines' = [curLines EXCEPT ![h] = lines + opened]
           /\ fileLines' = [fileLines EXCEPT ![file'[h]] = @ + written]
<1>1. PICK opened \in {0, 1} : \E written \in 0..opened :
        /\ curLines' = [curLines EXCEPT ![h] = lines + opened]
        /\ fileLines' = [fileLines EXCEPT ![file'[h]] = @ + written]
  BY Zenon DEF AppendLine
<1>2. PICK written \in 0..opened :
        /\ curLines' = [curLines EXCEPT ![h] = lines + opened]
        /\ fileLines' = [fileLines EXCEPT ![file'[h]] = @ + written]
  BY <1>1
<1>3. written \in {0, 1} /\ written <= opened
  OBVIOUS
<1> QED BY <1>2, <1>3, Zenon

(***************************************************************************)
(* A step both workers have keeps the types.                               *)
(***************************************************************************)
LEMMA WorkerTypeStep ==
  ASSUME TypeOK, NEW h \in Handlers, Worker(h)
  PROVE  TypeOK'
<1> USE TypeUnchanged DEF TypeOK
<1>1. CASE TestWorkFlag(h)
  <2>1. WorkType'
    BY <1>1, GotoType DEF TestWorkFlag, WorkerPcs
  <2> QED BY <1>1, <2>1 DEF TestWorkFlag
<1>2. CASE ReadNothing(h)
  <2>1. WorkType'
    BY <1>2, GotoType DEF ReadNothing, WorkerPcs
  <2> QED BY <1>2, <2>1 DEF ReadNothing
<1>3. ASSUME NEW f \in Frames[h], ReadFrame(h, f) PROVE TypeOK'
  <2>1. f \in TtyFrames \union NetFrames
    BY <1>3 DEF Frames
  <2>2. WorkType'
    BY <1>3, <2>1 DEF ReadFrame, Goto, WorkType, WorkerPcs
  <2> QED BY <1>3, <2>2 DEF ReadFrame
<1>4. CASE SaveFrame(h)
  <2>1. WorkType'
    BY <1>4 DEF SaveFrame, Goto, WorkType, WorkerPcs
  <2>2. FileType'
    <3>1. CASE UNCHANGED fileVars
      BY <3>1
    <3>2. ASSUME TakeName(h) \/ UNCHANGED <<file, rotations, begun>>
          PROVE  /\ file' \in [Handlers -> Names \union {NoFile}]
                 /\ rotations' \in Nat
                 /\ begun' \in [Names -> Nat]
      BY <3>2 DEF TakeName, FileType
    <3>3. ASSUME NEW lines \in Nat, lines < LineLimit, AppendLine(h, lines)
          PROVE  /\ curLines' \in [Handlers -> 0..LineLimit]
                 /\ fileLines' \in [Names -> Nat]
      <4>1. LineLimit \in Nat
        BY BoundsAssumption DEF LineLimit, BoundsAssumption
      <4>2. PICK opened \in {0, 1}, written \in {0, 1} :
              /\ curLines' = [curLines EXCEPT ![h] = lines + opened]
              /\ fileLines' = [fileLines EXCEPT ![file'[h]] = @ + written]
        BY <3>3, AppendLineIs
      <4>3. lines + opened \in 0..LineLimit
        BY <3>3, <4>1
      <4>4. curLines' \in [Handlers -> 0..LineLimit]
        BY <4>2, <4>3 DEF FileType
      <4>5. fileLines' \in [Names -> Nat]
        <5>1. PICK m : m = file'[h]
          OBVIOUS
        <5>2. fileLines \in [Names -> Nat]
          BY DEF FileType
        <5>3. fileLines' = [n \in Names |-> IF n = m THEN fileLines[n] + written
                                                     ELSE fileLines[n]]
          BY <4>2, <5>1, <5>2
        <5> QED BY <5>2, <5>3
      <4> QED BY <4>4, <4>5
    <3>4. /\ 0 < LineLimit
          /\ curLines[h] \in Nat
          /\ curLines[h] < MaxLines => curLines[h] < LineLimit
      BY BoundsAssumption DEF FileType, LineLimit, BoundsAssumption
    <3> QED BY <1>4, <3>1, <3>2, <3>3, <3>4 DEF SaveFrame, FileType
  <2> QED BY <1>4, <2>1, <2>2 DEF SaveFrame
<1> QED BY <1>1, <1>2, <1>3, <1>4 DEF Worker

(***************************************************************************)
(* A step of the serial worker keeps the types.                            *)
(***************************************************************************)
LEMMA TtyTypeStep ==
  ASSUME TypeOK, TtyWorker PROVE TypeOK'
<1> USE TypeUnchanged DEF TypeOK
<1>1. CASE TtyEnter \/ TtyUnknown \/ TtyRespond
  <2>1. WorkType'
    BY <1>1, GotoType DEF TtyEnter, TtyUnknown, TtyRespond, WorkerPcs
  <2> QED BY <1>1, <2>1 DEF TtyEnter, TtyUnknown, TtyRespond
<1>2. CASE TtyGps \/ TtyDevicePush \/ TtyDeviceCount
  <2>1. WorkType'
    BY <1>2, GotoType DEF TtyGps, TtyDevicePush, TtyDeviceCount, WorkerPcs
  <2>2. PacketType'
    <3>1. CASE TtyGps \/ TtyDeviceCount
      BY <3>1 DEF TtyGps, TtyDeviceCount, PacketType
    <3>2. CASE TtyDevicePush
      BY <3>2 DEF TtyDevicePush, PacketType
    <3> QED BY <1>2, <3>1, <3>2
  <2> QED BY <1>2, <2>1, <2>2 DEF TtyGps, TtyDevicePush, TtyDeviceCount
<1> QED BY <1>1, <1>2, WorkerTypeStep DEF TtyWorker

(***************************************************************************)
(* A step of the network worker keeps the types.                           *)
(***************************************************************************)
LEMMA NetTypeStep ==
  ASSUME TypeOK, NetWorker PROVE TypeOK'
<1> USE TypeUnchanged DEF TypeOK
<1>1. CASE StartHeartbeatThread \/ StopHeartbeat \/ JoinHeartbeat
  <2>1. WorkType'
    BY <1>1, GotoType
       DEF StartHeartbeatThread, StopHeartbeat, JoinHeartbeat, WorkerPcs
  <2>2. HbType'
    BY <1>1 DEF StartHeartbeatThread, StopHeartbeat, JoinHeartbeat, HbType
  <2> QED BY <1>1, <2>1, <2>2
          DEF StartHeartbeatThread, StopHeartbeat, JoinHeartbeat
<1>2. CASE NetDispatch
  <2>1. WorkType'
    BY <1>2 DEF NetDispatch, Goto, WorkType, WorkerPcs
  <2>2. CommandType'
    BY <1>2 DEF NetDispatch, CommandType, commandVars
  <2> QED BY <1>2, <2>1, <2>2 DEF NetDispatch
<1> QED BY <1>1, <1>2, WorkerTypeStep DEF NetWorker

(***************************************************************************)
(* A step of the heartbeat thread keeps the types.                         *)
(***************************************************************************)
LEMMA HeartbeatTypeStep ==
  ASSUME TypeOK, Heartbeat PROVE TypeOK'
<1>1. HbType'
  <2>1. CASE HbTest
    BY <2>1 DEF HbTest, TypeOK, HbType
  <2>2. CASE HbTick
    BY <2>2 DEF HbTick, TypeOK, HbType
  <2> QED BY <2>1, <2>2 DEF Heartbeat
<1> QED BY <1>1, TypeUnchanged DEF TypeOK, Heartbeat, HbTest, HbTick

(***************************************************************************)
(* Every step keeps the types.                                             *)
(***************************************************************************)
LEMMA TypeStep == ASSUME TypeOK, [Next]_vars PROVE TypeOK'
<1>1. CASE SignalDelivered
  <2>1. MainType'
    BY <1>1, BoundsAssumption
       DEF SignalDelivered, TypeOK, MainType, MainPcs, BoundsAssumption
  <2> QED BY <1>1, <2>1, TypeUnchanged DEF SignalDelivered, TypeOK
<1>2. CASE UNCHANGED vars
  BY <1>2, TypeUnchanged DEF vars, TypeOK
<1> QED BY <1>1, <1>2, MainTypeStep, TtyTypeStep, NetTypeStep,
           HeartbeatTypeStep DEF Next, Terminated

(***************************************************************************)
(* The initial states have the types.                                      *)
(***************************************************************************)
LEMMA TypeInit == ASSUME Init PROVE TypeOK
<1>1. MainType
  <2>1. signals \in 0..MaxSignals
    BY BoundsAssumption DEF Init, BoundsAssumption
  <2>2. handler \in [Handlers -> {"null", "alive", "deleted"}]
    BY DEF Init
  <2> QED BY <2>1, <2>2 DEF Init, MainType, MainPcs
<1>2. WorkType
  BY DEF Init, WorkType, WorkerPcs
<1>3. HbType
  BY DEF Init, HbType
<1>4. PacketType
  BY DEF Init, PacketType
<1>5. FileType
  BY BoundsAssumption DEF Init, BoundsAssumption, FileType, LineLimit
<1>6. CommandType
  BY DEF Init, CommandType
<1> QED BY <1>1, <1>2, <1>3, <1>4, <1>5, <1>6 DEF TypeOK

(***************************************************************************)
(* Every variable of the communication service keeps its type; curLines    *)
(* within LineLimit is the part that is not obvious.                       *)
(***************************************************************************)
THEOREM TypeCorrect == Spec => []TypeOK
BY TypeInit, TypeStep, PTL DEF Spec

-----------------------------------------------------------------------------
(***************************************************************************)
(* IInv is inductive.  Most steps only move one worker between two places  *)
(* inside its life, which GotoLifecycle covers.                            *)
(***************************************************************************)
LEMMA GotoLifecycle ==
  ASSUME WorkType, Lifecycle, NEW h \in Handlers, NEW from, NEW to,
         Goto(h, from, to), from \notin {"none", "done", "joined"},
         h = "net" => to \in NetPcs, h = "tty" => to \in TtyPcs,
         to \notin {"none", "joined"}, UNCHANGED <<mainVars, workFlag>>
  PROVE  Lifecycle'
<1>1. \A g \in Handlers : /\ worker'[g] = "none" <=> worker[g] = "none"
                          /\ worker'[g] = "joined" <=> worker[g] = "joined"
  BY DEF Goto, WorkType
<1>2. worker'["net"] \in NetPcs /\ worker'["tty"] \in TtyPcs
  BY DEF Goto, WorkType, Lifecycle
<1> QED BY <1>1, <1>2 DEF Lifecycle, mainVars

(***************************************************************************)
(* main's steps keep the order of starting, stopping, joining, deleting.   *)
(***************************************************************************)
LEMMA LifecycleMain ==
  ASSUME TypeOK, Lifecycle, Main PROVE Lifecycle'
<1> USE DEF TypeOK, MainType, WorkType, Lifecycle
<1>1. ASSUME NEW h \in Handlers, SkipHandler(h) PROVE Lifecycle'
  BY <1>1 DEF SkipHandler, AfterStart, DeletePc, workVars
<1>2. ASSUME NEW h \in Handlers, StartHandler(h) PROVE Lifecycle'
  BY <1>2 DEF StartHandler, AfterStart, DeletePc, NetPcs, TtyPcs
<1>3. ASSUME NEW h \in Handlers, StopHandler(h) PROVE Lifecycle'
  BY <1>3 DEF StopHandler, StopPc, JoinPc, DonePc, DeletePc
<1>4. ASSUME NEW h \in Handlers, JoinWorker(h) PROVE Lifecycle'
  BY <1>4 DEF JoinWorker, JoinPc, DeletePc, NetPcs, TtyPcs
<1>5. ASSUME NEW h \in Handlers, DeleteHandler(h) PROVE Lifecycle'
  BY <1>5 DEF DeleteHandler, DonePc, DeletePc
<1>6. CASE CheckHandlers \/ MaskSignals
  BY <1>6 DEF CheckHandlers, MaskSignals, DeletePc, workVars
<1> QED BY <1>1, <1>2, <1>3, <1>4, <1>5, <1>6 DEF Main

(***************************************************************************)
(* A worker's own steps leave it running or done, never joined.            *)
(***************************************************************************)
LEMMA LifecycleWorker ==
  ASSUME TypeOK, Lifecycle, NEW h \in Handlers, Worker(h) PROVE Lifecycle'
<1> USE DEF TypeOK, NetPcs, TtyPcs
<1>1. CASE TestWorkFlag(h)
  BY <1>1, GotoLifecycle DEF TestWorkFlag
<1>2. CASE ReadNothing(h)
  BY <1>2, GotoLifecycle DEF ReadNothing
<1>3. ASSUME NEW f \in Frames[h], ReadFrame(h, f) PROVE Lifecycle'
  BY <1>3, GotoLifecycle DEF ReadFrame
<1>4. CASE SaveFrame(h)
  BY <1>4, GotoLifecycle DEF SaveFrame
<1> QED BY <1>1, <1>2, <1>3, <1>4 DEF Worker

(***************************************************************************)
(* Every step keeps the life cycle of the handlers.                        *)
(***************************************************************************)
LEMMA LifecycleStep ==
  ASSUME TypeOK, Lifecycle, [Next]_vars PROVE Lifecycle'
<1>1. CASE SignalDelivered
  BY <1>1 DEF SignalDelivered, Lifecycle, workVars, DeletePc
<1>2. CASE TtyEnter \/ TtyGps \/ TtyDevicePush \/ TtyDeviceCount
             \/ TtyUnknown \/ TtyRespond
  BY <1>2, GotoLifecycle
     DEF TtyEnter, TtyGps, TtyDevicePush, TtyDeviceCount, TtyUnknown,
         TtyRespond, TypeOK, TtyPcs
<1>3. CASE StartHeartbeatThread \/ NetDispatch \/ StopHeartbeat
             \/ JoinHeartbeat
  BY <1>3, GotoLifecycle
     DEF StartHeartbeatThread, NetDispatch, StopHeartbeat, JoinHeartbeat,
         TypeOK, NetPcs
<1>4. CASE Heartbeat \/ UNCHANGED vars
  BY <1>4 DEF Heartbeat, HbTest, HbTick, vars, Lifecycle, mainVars, workVars
<1> QED BY <1>1, <1>2, <1>3, <1>4, LifecycleMain, LifecycleWorker
        DEF Next, Terminated, TtyWorker, NetWorker

(***************************************************************************)
(* The heartbeat thread lives within the network worker's process().       *)
(***************************************************************************)
LEMMA HbInsideStep ==
  ASSUME TypeOK, Lifecycle, HbInside, [Next]_vars PROVE HbInside'
<1> USE DEF TypeOK, WorkType, HbInside
<1>1. ASSUME NEW h \in Handlers, SkipHandler(h) \/ StopHandler(h)
      PROVE  HbInside'
  BY <1>1 DEF SkipHandler, StopHandler, workVars, hbVars
<1>2. ASSUME NEW h \in Handlers, StartHandler(h) PROVE HbInside'
  BY <1>2 DEF StartHandler, AfterStart, Lifecycle, hbVars
<1>3. ASSUME NEW h \in Handlers, JoinWorker(h) \/ DeleteHandler(h)
      PROVE  HbInside'
  BY <1>3 DEF JoinWorker, DeleteHandler, hbVars
<1>4. CASE CheckHandlers \/ MaskSignals \/ SignalDelivered
  BY <1>4 DEF CheckHandlers, MaskSignals, SignalDelivered, workVars, hbVars
<1>5. ASSUME NEW h \in Handlers, Worker(h) PROVE HbInside'
  <2>1. CASE TestWorkFlag(h) \/ ReadNothing(h) \/ SaveFrame(h)
    BY <2>1 DEF TestWorkFlag, ReadNothing, SaveFrame, Goto, hbVars
  <2>2. ASSUME NEW f \in Frames[h], ReadFrame(h, f) PROVE HbInside'
    BY <2>2 DEF ReadFrame, Goto, hbVars
  <2> QED BY <1>5, <2>1, <2>2 DEF Worker
<1>6. CASE TtyEnter \/ TtyGps \/ TtyDevicePush \/ TtyDeviceCount
             \/ TtyUnknown \/ TtyRespond
  BY <1>6 DEF TtyEnter, TtyGps, TtyDevicePush, TtyDeviceCount, TtyUnknown,
              TtyRespond, Goto, hbVars
<1>7. CASE StartHeartbeatThread \/ NetDispatch \/ StopHeartbeat
             \/ JoinHeartbeat
  BY <1>7 DEF StartHeartbeatThread, NetDispatch, StopHeartbeat,
              JoinHeartbeat, Goto, hbVars
<1>8. CASE Heartbeat \/ UNCHANGED vars
  BY <1>8 DEF Heartbeat, HbTest, HbTick, vars, workVars, hbVars
<1> QED BY <1>1, <1>2, <1>3, <1>4, <1>5, <1>6, <1>7, <1>8
        DEF Next, Main, Terminated, TtyWorker, NetWorker

-----------------------------------------------------------------------------
(***************************************************************************)
(* The output files.                                                       *)
(***************************************************************************)
LEMMA FilesUntouched ==
  ASSUME FilesCounted, UNCHANGED fileVars,
         \A h \in Handlers : worker'[h] = "none" <=> worker[h] = "none"
  PROVE  FilesCounted'
BY DEF FilesCounted, Left, fileVars, nameVars

LEMMA LimitIsNat ==
  /\ LineLimit \in Nat /\ 0 < LineLimit
  /\ MaxLines \in Nat /\ MaxLines <= LineLimit
BY BoundsAssumption DEF LineLimit, BoundsAssumption

\* A name that is taken once more allows for one more file of lines.
LEMMA LimitTimes ==
  \A b \in Nat : /\ LineLimit * b \in Nat
                 /\ LineLimit * (b + 1) = LineLimit * b + LineLimit
BY LimitIsNat

(***************************************************************************)
(* Saving a frame uses up what was allowed for, or takes a name first.     *)
(***************************************************************************)
LEMMA FilesSaved ==
  ASSUME TypeOK, FilesCounted, NEW h \in Handlers, SaveFrame(h)
  PROVE  FilesCounted'
<1>1. /\ worker[h] = "save"
      /\ \A g \in Handlers : worker'[g] = "none" <=> worker[g] = "none"
  BY DEF SaveFrame, Goto, TypeOK, WorkType
<1>2. CASE UNCHANGED fileVars
  BY <1>1, <1>2, FilesUntouched
<1>3. PICK g \in Handlers : g # h /\ Handlers = {g, h}
  OBVIOUS
<1>4. /\ curLines[h] \in 0..LineLimit /\ curLines[g] \in 0..LineLimit
      /\ \A n \in Names : fileLines[n] \in Nat /\ begun[n] \in Nat
  BY <1>3 DEF TypeOK, FileType
<1>5. \A n \in Names :
        fileLines[n] + Left(h, n) + Left(g, n) <= LineLimit * begun[n]
  <2>1. \A n \in Names : Left(h, n) \in Int /\ Left(g, n) \in Int
    <3>1. LineLimit - curLines[h] \in Int /\ LineLimit - curLines[g] \in Int
      <4>1. LineLimit \in Int
        BY LimitIsNat
      <4> QED BY <1>4, <4>1
    <3> QED BY <3>1 DEF Left
  <2> QED BY <1>3, <1>4, <2>1 DEF FilesCounted
<1>6. ASSUME \A n \in Names : fileLines'[n] + Left(h, n)' + Left(g, n)'
                                <= LineLimit * begun'[n],
             file'[h] # NoFile, file'[g] = file[g], curLines'[g] = curLines[g],
             curLines'[h] \in Nat, \A n \in Names : fileLines'[n] \in Nat
      PROVE  FilesCounted'
  <2>1. \A n \in Names : Left(h, n)' \in Int /\ Left(g, n)' \in Int
    <3>1. LineLimit - curLines'[h] \in Int /\ LineLimit - curLines'[g] \in Int
      <4>1. LineLimit \in Int
        BY LimitIsNat
      <4> QED BY <1>4, <1>6, <4>1
    <3> QED BY <3>1 DEF Left
  <2>2. \A n \in Names : fileLines'[n] + Left("tty", n)' + Left("net", n)'
                            <= LineLimit * begun'[n]
    BY <1>3, <1>6, <2>1
  <2>3. \A k \in Handlers :
          /\ worker'[k] = "none" => file'[k] = NoFile
          /\ worker'[k] # "none" /\ file'[k] = NoFile
               => curLines'[k] = MaxLines
    BY <1>1, <1>3, <1>6 DEF FilesCounted
  <2> QED BY <2>2, <2>3 DEF FilesCounted
<1>7. CASE /\ curLines[h] < MaxLines
           /\ UNCHANGED <<file, rotations, begun>>
           /\ AppendLine(h, curLines[h])
  <2>1. file[h] \in Names
    BY <1>1, <1>4, <1>7, LimitIsNat DEF FilesCounted, TypeOK, FileType
  <2>2. PICK opened \in {0, 1}, written \in {0, 1} :
          /\ written <= opened
          /\ curLines' = [curLines EXCEPT ![h] = curLines[h] + opened]
          /\ fileLines' = [fileLines EXCEPT ![file'[h]] = @ + written]
    BY <1>4, <1>7, AppendLineIs
  <2>3. /\ curLines'[h] = curLines[h] + opened /\ curLines'[g] = curLines[g]
        /\ fileLines'[file[h]] = fileLines[file[h]] + written
        /\ \A n \in Names \ {file[h]} : fileLines'[n] = fileLines[n]
    BY <1>3, <1>7, <2>1, <2>2 DEF TypeOK, FileType
  <2>4. ASSUME NEW n \in Names
        PROVE  fileLines'[n] + Left(h, n)' + Left(g, n)'
                 <= LineLimit * begun'[n]
    <3>1. Left(g, n)' = Left(g, n) /\ Left(g, n) \in Int /\ begun'[n] = begun[n]
      <4>1. /\ curLines'[g] = curLines[g] /\ file'[g] = file[g]
            /\ begun'[n] = begun[n]
        BY <1>7, <2>3
      <4>2. curLines[g] \in Int /\ LineLimit \in Int
        BY <1>4, LimitIsNat
      <4> QED BY <4>1, <4>2 DEF Left
    <3>2. CASE n = file[h]
      <4>1. Left(h, n)' = Left(h, n) - opened /\ Left(h, n) \in Int
        BY <1>4, <1>7, <2>3, <3>2, LimitIsNat DEF Left
      <4>2. fileLines'[n] = fileLines[n] + written /\ fileLines[n] \in Nat
        BY <1>4, <2>3, <3>2
      <4>3. fileLines[n] + Left(h, n) + Left(g, n) <= LineLimit * begun[n]
        BY <1>5
      <4>4. LineLimit * begun[n] \in Int
        BY <1>4, LimitTimes
      <4> QED BY <2>2, <3>1, <4>1, <4>2, <4>3, <4>4
    <3>3. CASE n # file[h]
      <4>1. Left(h, n)' = 0 /\ Left(h, n) = 0
        BY <1>7, <3>3 DEF Left
      <4> QED BY <1>5, <2>3, <3>1, <3>3, <4>1
    <3> QED BY <3>2, <3>3
  <2>5. file[h] # NoFile
    BY <2>1, BoundsAssumption DEF BoundsAssumption
  <2>6. curLines'[h] \in Nat /\ \A n \in Names : fileLines'[n] \in Nat
    BY <1>4, <2>2, <2>3
  <2> QED BY <1>6, <1>7, <2>3, <2>4, <2>5, <2>6
<1>8. CASE TakeName(h) /\ AppendLine(h, 0)
  <2>1. PICK m \in Names : /\ file' = [file EXCEPT ![h] = m]
                           /\ begun' = [begun EXCEPT ![m] = @ + 1]
    BY <1>8 DEF TakeName
  <2>2. PICK opened \in {0, 1}, written \in {0, 1} :
          /\ written <= opened
          /\ curLines' = [curLines EXCEPT ![h] = 0 + opened]
          /\ fileLines' = [fileLines EXCEPT ![file'[h]] = @ + written]
    BY <1>8, AppendLineIs
  <2>3. /\ file'[h] = m /\ file'[g] = file[g]
        /\ curLines'[h] = opened /\ curLines'[g] = curLines[g]
        /\ fileLines'[m] = fileLines[m] + written
        /\ begun'[m] = begun[m] + 1
        /\ \A n \in Names \ {m} : /\ fileLines'[n] = fileLines[n]
                                 /\ begun'[n] = begun[n]
    BY <1>3, <2>1, <2>2 DEF TypeOK, FileType
  <2>4. ASSUME NEW n \in Names
        PROVE  fileLines'[n] + Left(h, n)' + Left(g, n)'
                 <= LineLimit * begun'[n]
    <3>1. /\ Left(g, n)' = Left(g, n) /\ Left(g, n) \in Int
          /\ Left(h, n) \in Nat /\ fileLines[n] \in Nat
          /\ fileLines[n] + Left(h, n) + Left(g, n) <= LineLimit * begun[n]
      BY <1>4, <1>5, <2>3, LimitIsNat DEF Left
    <3>2. CASE n = m
      <4>1. Left(h, n)' = LineLimit - opened
        BY <2>3, <3>2 DEF Left
      <4>2. LineLimit * begun'[n] = LineLimit * begun[n] + LineLimit
        BY <1>4, <2>3, <3>2, LimitTimes
      <4>3. LineLimit * begun[n] \in Int /\ LineLimit \in Int
        <5>1. begun[n] \in Nat
          BY <1>4
        <5>2. LineLimit * begun[n] \in Nat /\ LineLimit \in Nat
          BY <5>1, LimitTimes, LimitIsNat, Zenon
        <5> QED BY <5>2
      <4>4. fileLines'[n] = fileLines[n] + written
        BY <2>3, <3>2
      <4> QED BY <2>2, <3>1, <4>1, <4>2, <4>3, <4>4
    <3>3. CASE n # m
      <4>1. Left(h, n)' = 0
        BY <2>3, <3>3 DEF Left
      <4>2. LineLimit * begun[n] \in Int
        BY <1>4, LimitTimes
      <4>3. fileLines'[n] = fileLines[n] /\ begun'[n] = begun[n]
        BY <2>3, <3>3
      <4> QED BY <3>1, <4>1, <4>2, <4>3
    <3> QED BY <3>2, <3>3
  <2>5. file'[h] # NoFile
    BY <2>3, BoundsAssumption DEF BoundsAssumption
  <2>6. curLines'[h] \in Nat /\ \A n \in Names : fileLines'[n] \in Nat
    BY <1>4, <2>2, <2>3
  <2> QED BY <1>6, <2>3, <2>4, <2>5, <2>6
<1> QED BY <1>2, <1>7, <1>8 DEF SaveFrame

(***************************************************************************)
(* Every step keeps the files within what was allowed for.                 *)
(***************************************************************************)
LEMMA FilesCountedStep ==
  ASSUME TypeOK, Lifecycle, FilesCounted, [Next]_vars
  PROVE  FilesCounted'
<1> USE DEF TypeOK, WorkType
<1>1. ASSUME NEW h \in Handlers, SkipHandler(h) \/ StopHandler(h)
                                   \/ DeleteHandler(h) PROVE FilesCounted'
  BY <1>1, FilesUntouched DEF SkipHandler, StopHandler, DeleteHandler, workVars
<1>2. ASSUME NEW h \in Handlers, StartHandler(h) PROVE FilesCounted'
  <2>1. worker[h] = "none"
    BY <1>2 DEF StartHandler, Lifecycle
  <2>2. file[h] = NoFile
    BY <2>1 DEF FilesCounted
  <2>3. \A n \in Names, g \in Handlers : Left(g, n)' = Left(g, n)
    BY <1>2, <2>2, BoundsAssumption
       DEF StartHandler, Left, nameVars, FileType, BoundsAssumption
  <2> QED BY <1>2, <2>2, <2>3 DEF StartHandler, FilesCounted, FileType, nameVars
<1>3. ASSUME NEW h \in Handlers, JoinWorker(h) PROVE FilesCounted'
  BY <1>3, FilesUntouched DEF JoinWorker
<1>4. CASE CheckHandlers \/ MaskSignals \/ SignalDelivered
  BY <1>4, FilesUntouched
     DEF CheckHandlers, MaskSignals, SignalDelivered, workVars
<1>5. ASSUME NEW h \in Handlers, Worker(h) PROVE FilesCounted'
  <2>1. CASE TestWorkFlag(h) \/ ReadNothing(h)
    BY <2>1, FilesUntouched DEF TestWorkFlag, ReadNothing, Goto
  <2>2. ASSUME NEW f \in Frames[h], ReadFrame(h, f) PROVE FilesCounted'
    BY <2>2, FilesUntouched DEF ReadFrame, Goto
  <2> QED BY <1>5, <2>1, <2>2, FilesSaved DEF Worker
<1>6. CASE TtyEnter \/ TtyGps \/ TtyDevicePush \/ TtyDeviceCount
             \/ TtyUnknown \/ TtyRespond
  BY <1>6, FilesUntouched
     DEF TtyEnter, TtyGps, TtyDevicePush, TtyDeviceCount, TtyUnknown,
         TtyRespond, Goto
<1>7. CASE StartHeartbeatThread \/ NetDispatch \/ StopHeartbeat
             \/ JoinHeartbeat
  BY <1>7, FilesUntouched DEF StartHeartbeatThread, NetDispatch,
     StopHeartbeat, JoinHeartbeat, Goto
<1>8. CASE Heartbeat \/ UNCHANGED vars
  BY <1>8, FilesUntouched DEF Heartbeat, HbTest, HbTick, vars, workVars
<1> QED BY <1>1, <1>2, <1>3, <1>4, <1>5, <1>6, <1>7, <1>8
        DEF Next, Main, Terminated, TtyWorker, NetWorker

-----------------------------------------------------------------------------
(***************************************************************************)
(* The inductive invariant holds in every behaviour.                       *)
(***************************************************************************)
THEOREM Inductive == Spec => []IInv
<1>1. Init => IInv
  <2> SUFFICES ASSUME Init PROVE IInv
    OBVIOUS
  <2>1. TypeOK
    BY TypeInit
  <2>2. Lifecycle
    BY DEF Init, Lifecycle, NetPcs, TtyPcs, DeletePc
  <2>3. HbInside
    BY DEF Init, HbInside
  <2>4. FilesCounted
    BY BoundsAssumption
       DEF Init, FilesCounted, Left, LineLimit, BoundsAssumption
  <2> QED BY <2>1, <2>2, <2>3, <2>4 DEF IInv
<1>2. IInv /\ [Next]_vars => IInv'
  BY TypeStep, LifecycleStep, HbInsideStep, FilesCountedStep
     DEF IInv
<1> QED BY <1>1, <1>2, PTL DEF Spec

(***************************************************************************)
(* No thread of a handler outlives the handler.                            *)
(***************************************************************************)
THEOREM NoUseAfterDeleteCorrect ==
  Spec => []NoUseAfterDelete
<1>1. IInv => NoUseAfterDelete
  BY DEF IInv, TypeOK, MainType, Lifecycle, HbInside, NoUseAfterDelete,
         Running, HbLive
<1> QED BY <1>1, Inductive, PTL

(***************************************************************************)
(* main returns only when every thread has ended and every handler is gone.*)
(***************************************************************************)
THEOREM CleanExitCorrect == Spec => []CleanExit
<1>1. IInv => CleanExit
  BY DEF IInv, TypeOK, MainType, HbType, Lifecycle, HbInside, CleanExit,
         OtherThreads, Running, HbLive
<1> QED BY <1>1, Inductive, PTL

(***************************************************************************)
(* No file holds more than dataFileMaxLines lines for each time its name   *)
(* was taken.                                                              *)
(***************************************************************************)
THEOREM FilesBoundedCorrect ==
  Spec => []FilesBounded
<1>1. ASSUME IInv, NEW n \in Names PROVE fileLines[n] <= LineLimit * begun[n]
  <2>1. Left("tty", n) \in Nat /\ Left("net", n) \in Nat
    BY <1>1, LimitIsNat DEF IInv, TypeOK, FileType, Left
  <2>2. fileLines[n] \in Nat /\ LineLimit * begun[n] \in Nat
    BY <1>1, LimitIsNat DEF IInv, TypeOK, FileType
  <2>3. fileLines[n] + Left("tty", n) + Left("net", n) <= LineLimit * begun[n]
    BY <1>1 DEF IInv, FilesCounted
  <2> QED BY <2>1, <2>2, <2>3
<1>2. IInv => FilesBounded
  BY <1>1 DEF FilesBounded
<1> QED BY <1>2, Inductive, PTL

(***************************************************************************)
(* Once net->stop() has returned, no step runs a command.                  *)
(***************************************************************************)
THEOREM NoCommandAfterStopCorrect ==
  Spec => NoCommandAfterStop
<1>1. IInv /\ NetStopped => worker["net"] = "joined"
  BY DEF IInv, TypeOK, MainType, Lifecycle, NetStopped, DeletePc
<1>2. ASSUME IInv, NetStopped, [Next]_vars PROVE UNCHANGED commandVars
  <2>1. worker["net"] = "joined"
    BY <1>1, <1>2
  <2>2. CASE NetDispatch
    BY <2>1, <2>2 DEF NetDispatch, Goto
  <2>3. CASE Main \/ SignalDelivered
    BY <2>3 DEF Main, SkipHandler, StartHandler, StopHandler, JoinWorker,
                DeleteHandler, CheckHandlers, MaskSignals, SignalDelivered
  <2>4. ASSUME NEW h \in Handlers, Worker(h) PROVE UNCHANGED commandVars
    BY <2>4 DEF Worker, TestWorkFlag, ReadNothing, ReadFrame, SaveFrame
  <2>5. CASE TtyEnter \/ TtyGps \/ TtyDevicePush \/ TtyDeviceCount
               \/ TtyUnknown \/ TtyRespond
    BY <2>5 DEF TtyEnter, TtyGps, TtyDevicePush, TtyDeviceCount, TtyUnknown,
                TtyRespond
  <2>6. CASE StartHeartbeatThread \/ StopHeartbeat \/ JoinHeartbeat
               \/ Heartbeat
    BY <2>6 DEF StartHeartbeatThread, StopHeartbeat, JoinHeartbeat,
                Heartbeat, HbTest, HbTick
  <2>7. CASE UNCHANGED vars
    BY <2>7 DEF vars
  <2> QED BY <1>2, <2>2, <2>3, <2>4, <2>5, <2>6, <2>7
          DEF Next, Terminated, TtyWorker, NetWorker
<1>3. IInv /\ [Next]_vars => [NetStopped => UNCHANGED commandVars]_vars
  BY <1>2
<1> QED BY <1>3, Inductive, PTL DEF Spec, NoCommandAfterStop

-----------------------------------------------------------------------------
(***************************************************************************)
(* How the stop ends.                                                      *)
(***************************************************************************)
Stopping == mainPc \in {"stopNet", "joinNet", "deleteNet",
                        "stopTty", "joinTty", "deleteTty"}

\* The steps main has before it, and a worker and the heartbeat at most from
\* the moment they are told to end; 10 and 4 before that.
MainLeft ==
  CASE mainPc = "stopNet" -> 6   [] mainPc = "joinNet" -> 5
    [] mainPc = "deleteNet" -> 4 [] mainPc = "stopTty" -> 3
    [] mainPc = "joinTty" -> 2   [] mainPc = "deleteTty" -> 1
    [] OTHER -> 0

ToEnd(h, s) ==
  CASE s \in {"enter", "read"} -> 9
    [] s = "dispatch" -> IF h = "tty" THEN 8 ELSE 7
    [] s = "save" -> IF h = "tty" THEN 5 ELSE 8
    [] s = "count" -> 7  [] s = "respond" -> 6 [] s = "loop" -> 4
    [] s = "stopHb" -> 3 [] s = "joinHb" -> 2  [] s = "done" -> 1
    [] OTHER -> 0

WorkerLeft(h) == IF workFlag[h] THEN 10 ELSE ToEnd(h, worker[h])

HbLeft ==
  IF hb = "none" \/ hbRunning THEN 4
  ELSE CASE hb = "tick" -> 3 [] hb = "loop" -> 2 [] hb = "done" -> 1
         [] OTHER -> 0

StopLeft == MainLeft + WorkerLeft("net") + WorkerLeft("tty") + HbLeft

\* A thread that has not been told to end yet moves, or a signal comes.
OthersStep ==
  \/ \E h \in Handlers : workFlag[h] /\ worker'[h] # worker[h]
  \/ hbRunning /\ hb' # hb
  \/ signals' # signals

\* Every other step of the stop is one less.
StopShrinks ==
  [][Stopping =>
       /\ Stopping' \/ ~Alive'
       /\ StopLeft' < StopLeft \/ (StopLeft' = StopLeft /\ OthersStep)]_vars

\* Whoever is waited for has been told to end, or has nothing to do.
WaitedForTold ==
  /\ \A h \in Handlers : mainPc = JoinPc[h] => ~workFlag[h]
  /\ worker["net"] = "joinHb" => ~hbRunning

LEMMA LeftNat ==
  ASSUME TypeOK
  PROVE  /\ MainLeft \in 0..6 /\ HbLeft \in 0..4
         /\ \A h \in Handlers : WorkerLeft(h) \in 0..10
         /\ StopLeft \in 0..30
<1>1. MainLeft \in 0..6
  BY DEF MainLeft
<1>2. HbLeft \in 0..4
  BY DEF HbLeft
<1>3. \A h \in Handlers : WorkerLeft(h) \in 0..10
  BY DEF WorkerLeft, ToEnd
<1>4. WorkerLeft("net") \in 0..10 /\ WorkerLeft("tty") \in 0..10
  BY <1>3 DEF Handlers
<1> QED BY <1>1, <1>2, <1>3, <1>4 DEF StopLeft

\* The stop is made of these steps of main.
LEMMA MainShrinks ==
  ASSUME TypeOK, Stopping, Main
  PROVE  /\ Stopping' \/ ~Alive'
         /\ StopLeft' < StopLeft
<1>1. PICK h \in Handlers : StopHandler(h) \/ JoinWorker(h) \/ DeleteHandler(h)
  BY DEF Main, Stopping, Handlers, SkipHandler, StartHandler, CheckHandlers,
         MaskSignals
<1>2. Stopping' \/ ~Alive'
  BY <1>1 DEF StopHandler, JoinWorker, DeleteHandler, Handlers, StopPc, JoinPc,
     DeletePc, DonePc, Stopping, Alive
<1>3. MainLeft' < MainLeft
  BY <1>1 DEF StopHandler, JoinWorker, DeleteHandler, Handlers, StopPc, JoinPc,
     DeletePc, DonePc, MainLeft
<1>4. HbLeft' = HbLeft
  BY <1>1 DEF StopHandler, JoinWorker, DeleteHandler, hbVars, HbLeft
<1>5. ASSUME NEW g \in Handlers
      PROVE  WorkerLeft(g)' <= WorkerLeft(g)
  <2>1. /\ workFlag'[g] => workFlag[g]
        /\ worker'[g] = worker[g] \/ (worker[g] = "done" /\ worker'[g] = "joined")
    BY <1>1 DEF StopHandler, JoinWorker, DeleteHandler, TypeOK, WorkType
  <2>2. \A s : ToEnd(g, s) \in 0..9
    BY DEF ToEnd
  <2>3. ToEnd(g, "joined") < ToEnd(g, "done")
    BY DEF ToEnd
  <2>4. ToEnd(g, worker'[g]) <= ToEnd(g, worker[g])
    BY <2>1, <2>2, <2>3
  <2> QED BY <2>1, <2>2, <2>4 DEF WorkerLeft
<1>6. /\ WorkerLeft("net")' <= WorkerLeft("net")
      /\ WorkerLeft("tty")' <= WorkerLeft("tty")
  BY <1>5 DEF Handlers
<1>7. /\ MainLeft \in Int /\ HbLeft \in Int /\ WorkerLeft("net") \in Int
      /\ WorkerLeft("tty") \in Int
      /\ MainLeft' \in Int /\ HbLeft' \in Int /\ WorkerLeft("net")' \in Int
      /\ WorkerLeft("tty")' \in Int
  BY DEF MainLeft, HbLeft, WorkerLeft, ToEnd
<1> QED BY <1>2, <1>3, <1>4, <1>6, <1>7 DEF StopLeft

\* A step of one worker that brings it nearer to its end once it is told to.
WorkerMoves(h, to) ==
  /\ worker' = [worker EXCEPT ![h] = to]
  /\ to # worker[h]
  /\ ToEnd(h, to) < ToEnd(h, worker[h]) \/ workFlag[h]
  /\ UNCHANGED <<mainVars, workFlag>>

LEMMA WorkerShrinks ==
  ASSUME TypeOK, Stopping, NEW h \in Handlers, NEW to, WorkerMoves(h, to),
         HbLeft' <= HbLeft
  PROVE  StopLeft' < StopLeft \/ (StopLeft' = StopLeft /\ OthersStep)
<1>1. ASSUME NEW g \in Handlers, g # h
      PROVE  WorkerLeft(g)' = WorkerLeft(g)
  BY <1>1 DEF WorkerMoves, WorkerLeft, TypeOK, WorkType
<1>2. worker'[h] = to /\ workFlag' = workFlag
  BY DEF WorkerMoves, TypeOK, WorkType
<1>3. MainLeft' = MainLeft
  BY DEF WorkerMoves, mainVars, MainLeft
<1>4. /\ MainLeft \in Int /\ HbLeft \in Int /\ WorkerLeft("net") \in Int
      /\ WorkerLeft("tty") \in Int
      /\ HbLeft' \in Int /\ WorkerLeft("net")' \in Int
      /\ WorkerLeft("tty")' \in Int
  BY DEF MainLeft, HbLeft, WorkerLeft, ToEnd
<1>5. CASE workFlag[h]
  <2>1. WorkerLeft(h)' = WorkerLeft(h)
    BY <1>2, <1>5 DEF WorkerLeft
  <2>2. OthersStep
    BY <1>2, <1>5 DEF WorkerMoves, OthersStep
  <2>3. /\ WorkerLeft("net")' = WorkerLeft("net")
        /\ WorkerLeft("tty")' = WorkerLeft("tty")
    BY <1>1, <2>1 DEF Handlers
  <2> QED BY <1>3, <1>4, <2>2, <2>3 DEF StopLeft
<1>6. CASE ~workFlag[h]
  <2>1. WorkerLeft(h)' < WorkerLeft(h)
    BY <1>2, <1>6 DEF WorkerMoves, WorkerLeft
  <2>2. WorkerLeft("net")' + WorkerLeft("tty")'
          < WorkerLeft("net") + WorkerLeft("tty")
    BY <1>1, <1>4, <2>1 DEF Handlers
  <2> QED BY <1>3, <1>4, <2>2 DEF StopLeft
<1> QED BY <1>5, <1>6

\* What both workers do, once told, leads to the end.
LEMMA CommonMoves ==
  ASSUME TypeOK, NEW h \in Handlers, Worker(h)
  PROVE  /\ \E to \in WorkerPcs : WorkerMoves(h, to)
         /\ UNCHANGED hbVars
<1>1. CASE TestWorkFlag(h)
  <2>1. PICK to \in {"read", "stopHb", "done"} :
          /\ worker' = [worker EXCEPT ![h] = to]
          /\ to = "read" => workFlag[h]
    BY <1>1 DEF TestWorkFlag, Goto
  <2>2. /\ worker[h] = "loop"
        /\ UNCHANGED <<mainVars, workFlag, hbVars>>
    BY <1>1 DEF TestWorkFlag, Goto
  <2>3. ToEnd(h, to) < ToEnd(h, worker[h]) \/ workFlag[h]
    BY <2>1, <2>2 DEF ToEnd
  <2> QED BY <2>1, <2>2, <2>3 DEF WorkerMoves, WorkerPcs
<1>2. CASE ReadNothing(h)
  BY <1>2 DEF ReadNothing, Goto, WorkerMoves, ToEnd, WorkerPcs
<1>3. ASSUME NEW f \in Frames[h], ReadFrame(h, f)
      PROVE  (\E to \in WorkerPcs : WorkerMoves(h, to)) /\ UNCHANGED hbVars
  <2>1. PICK to : to = IF h = "tty" THEN "dispatch" ELSE "save"
    OBVIOUS
  <2>2. /\ worker[h] = "read" /\ worker' = [worker EXCEPT ![h] = to]
        /\ UNCHANGED <<mainVars, workFlag, hbVars>>
    BY <1>3, <2>1 DEF ReadFrame, Goto
  <2>3. /\ to \in WorkerPcs \ {"read"}
        /\ ToEnd(h, to) < ToEnd(h, worker[h])
    BY <2>1, <2>2 DEF ToEnd, WorkerPcs, Handlers
  <2> QED BY <2>2, <2>3 DEF WorkerMoves
<1>4. CASE SaveFrame(h)
  <2>1. PICK to : to = IF h = "tty" THEN "loop" ELSE "dispatch"
    OBVIOUS
  <2>2. /\ worker[h] = "save" /\ worker' = [worker EXCEPT ![h] = to]
        /\ UNCHANGED <<mainVars, workFlag, hbVars>>
    BY <1>4, <2>1 DEF SaveFrame, Goto
  <2>3. /\ to \in WorkerPcs \ {"save"}
        /\ ToEnd(h, to) < ToEnd(h, worker[h])
    BY <2>1, <2>2 DEF ToEnd, WorkerPcs, Handlers
  <2> QED BY <2>2, <2>3 DEF WorkerMoves
<1> QED BY <1>1, <1>2, <1>3, <1>4 DEF Worker

LEMMA TtyMoves ==
  ASSUME TypeOK, TtyEnter \/ TtyGps \/ TtyDevicePush \/ TtyDeviceCount
                 \/ TtyUnknown \/ TtyRespond
  PROVE  /\ \E to \in WorkerPcs : WorkerMoves("tty", to)
         /\ UNCHANGED hbVars
  BY DEF TtyEnter, TtyGps, TtyDevicePush, TtyDeviceCount, TtyUnknown,
     TtyRespond, Goto, WorkerMoves, ToEnd, WorkerPcs

\* The network worker starts the heartbeat before its loop, and tells it to
\* end and joins it behind.
LEMMA NetMoves ==
  ASSUME TypeOK, HbInside, StartHeartbeatThread \/ NetDispatch \/ StopHeartbeat
                           \/ JoinHeartbeat
  PROVE  /\ \E to \in WorkerPcs : WorkerMoves("net", to)
         /\ HbLeft' <= HbLeft
<1>1. \E to \in WorkerPcs : WorkerMoves("net", to)
  BY DEF StartHeartbeatThread, NetDispatch, StopHeartbeat, JoinHeartbeat,
     Goto, WorkerMoves, ToEnd, WorkerPcs
<1>2. CASE StartHeartbeatThread
  <2>1. hb = "none"
    BY <1>2 DEF StartHeartbeatThread, Goto, HbInside
  <2> QED BY <1>1, <1>2, <2>1 DEF StartHeartbeatThread, HbLeft
<1>3. CASE NetDispatch
  <2>1. HbLeft' = HbLeft /\ HbLeft \in 0..4
    BY <1>3 DEF NetDispatch, hbVars, HbLeft
  <2> QED BY <1>1, <2>1
<1>4. CASE StopHeartbeat
  BY <1>1, <1>4 DEF StopHeartbeat, HbLeft
<1>5. CASE JoinHeartbeat
  <2>1. hb = "done" /\ hb' = "joined" /\ hbRunning' = hbRunning
    BY <1>5 DEF JoinHeartbeat
  <2>2. CASE hbRunning
    <3>1. hbRunning'
      BY <2>1, <2>2, Zenon
    <3>2. HbLeft = 4 /\ HbLeft' = 4
      BY <2>2, <3>1 DEF HbLeft
    <3> QED BY <1>1, <3>2
  <2>3. CASE ~hbRunning
    <3>1. HbLeft = 1
      BY <2>1, <2>3 DEF HbLeft
    <3>2. HbLeft' \in {0, 4} /\ ~hbRunning'
      BY <2>1, <2>3 DEF HbLeft
    <3>3. HbLeft' = 0
      BY <2>1, <3>2 DEF HbLeft
    <3> QED BY <1>1, <3>1, <3>3
  <2> QED BY <2>2, <2>3
<1> QED BY <1>2, <1>3, <1>4, <1>5

LEMMA HbShrinks ==
  ASSUME TypeOK, Heartbeat
  PROVE  StopLeft' < StopLeft \/ (StopLeft' = StopLeft /\ OthersStep)
<1>1. UNCHANGED <<mainVars, workVars>> /\ hb' # hb /\ hbRunning' = hbRunning
  BY DEF Heartbeat, HbTest, HbTick
<1>2. /\ MainLeft' = MainLeft
      /\ WorkerLeft("net")' = WorkerLeft("net")
      /\ WorkerLeft("tty")' = WorkerLeft("tty")
  BY <1>1 DEF mainVars, workVars, MainLeft, WorkerLeft
<1>3. HbLeft' < HbLeft \/ (HbLeft' = HbLeft /\ hbRunning)
  <2>1. CASE hbRunning
    <3>1. hbRunning'
      BY <1>1, <2>1, Zenon
    <3> QED BY <2>1, <3>1 DEF HbLeft
  <2>2. CASE ~hbRunning
    <3>1. \/ hb = "loop" /\ hb' = "done"
          \/ hb = "tick" /\ hb' = "loop"
      BY <2>2 DEF Heartbeat, HbTest, HbTick
    <3> QED BY <1>1, <2>2, <3>1 DEF HbLeft
  <2> QED BY <2>1, <2>2
<1>4. /\ MainLeft \in Int /\ HbLeft \in Int /\ WorkerLeft("net") \in Int
      /\ WorkerLeft("tty") \in Int /\ HbLeft' \in Int
  BY DEF MainLeft, HbLeft, WorkerLeft, ToEnd
<1> QED BY <1>1, <1>2, <1>3, <1>4 DEF StopLeft, OthersStep

LEMMA SignalShrinks ==
  ASSUME TypeOK, Stopping, SignalDelivered
  PROVE  /\ Stopping' \/ ~Alive'
         /\ StopLeft' < StopLeft \/ (StopLeft' = StopLeft /\ OthersStep)
<1>1. mainPc' = mainPc \/ mainPc' = "killed"
  BY DEF SignalDelivered, Stopping
<1>2. signals' # signals
  BY DEF SignalDelivered, TypeOK, MainType
<1>3. /\ WorkerLeft("net")' = WorkerLeft("net")
      /\ WorkerLeft("tty")' = WorkerLeft("tty") /\ HbLeft' = HbLeft
  BY DEF SignalDelivered, workVars, hbVars, WorkerLeft, HbLeft
<1>4. MainLeft' = MainLeft \/ MainLeft' < MainLeft
  BY <1>1 DEF MainLeft, Stopping
<1>5. /\ MainLeft \in Int /\ HbLeft \in Int /\ WorkerLeft("net") \in Int
      /\ WorkerLeft("tty") \in Int /\ MainLeft' \in Int
  BY DEF MainLeft, HbLeft, WorkerLeft, ToEnd
<1> QED BY <1>1, <1>2, <1>3, <1>4, <1>5 DEF StopLeft, OthersStep, Stopping,
        Alive

\* No one is told to go on once told to end.
LEMMA WaitedStep ==
  ASSUME TypeOK, WaitedForTold, [Next]_vars
  PROVE  WaitedForTold'
<1> USE DEF WaitedForTold, TypeOK, WorkType
<1>1. ASSUME NEW h \in Handlers, SkipHandler(h) \/ StartHandler(h)
      PROVE  WaitedForTold'
  BY <1>1 DEF SkipHandler, StartHandler, Handlers, AfterStart, JoinPc, hbVars,
     workVars
<1>2. ASSUME NEW h \in Handlers,
             StopHandler(h) \/ JoinWorker(h) \/ DeleteHandler(h)
      PROVE  WaitedForTold'
  BY <1>2 DEF StopHandler, JoinWorker, DeleteHandler, Handlers, StopPc, JoinPc,
     DeletePc, DonePc, hbVars
<1>3. CASE CheckHandlers \/ MaskSignals \/ SignalDelivered
  BY <1>3 DEF CheckHandlers, MaskSignals, SignalDelivered, Handlers, JoinPc,
     hbVars, workVars
<1>4. ASSUME NEW h \in Handlers, Worker(h)
      PROVE  WaitedForTold'
  <2>1. CASE TestWorkFlag(h) \/ ReadNothing(h) \/ SaveFrame(h)
    BY <2>1 DEF TestWorkFlag, ReadNothing, SaveFrame, Goto, mainVars, hbVars
  <2>2. ASSUME NEW f \in Frames[h], ReadFrame(h, f)
        PROVE  WaitedForTold'
    BY <2>2 DEF ReadFrame, Goto, mainVars, hbVars
  <2> QED BY <1>4, <2>1, <2>2 DEF Worker
<1>5. CASE TtyEnter \/ TtyGps \/ TtyDevicePush \/ TtyDeviceCount
           \/ TtyUnknown \/ TtyRespond
  BY <1>5 DEF TtyEnter, TtyGps, TtyDevicePush, TtyDeviceCount, TtyUnknown,
     TtyRespond, Goto, mainVars, hbVars
<1>6. CASE StartHeartbeatThread \/ NetDispatch \/ StopHeartbeat
           \/ JoinHeartbeat
  BY <1>6 DEF StartHeartbeatThread, NetDispatch, StopHeartbeat,
     JoinHeartbeat, Goto, mainVars, hbVars
<1>7. CASE Heartbeat \/ UNCHANGED vars
  BY <1>7 DEF Heartbeat, HbTest, HbTick, vars, mainVars, workVars, hbVars
<1> QED BY <1>1, <1>2, <1>3, <1>4, <1>5, <1>6, <1>7
        DEF Next, Main, Terminated, TtyWorker, NetWorker

(***************************************************************************)
(* The stop ends in at most 30 steps of the threads that have been told to *)
(* end, and main and the network worker wait for no thread that has not:   *)
(* neither a worker, wherever the stop meets it, nor the heartbeat begins  *)
(* another turn of its loop (netHandler.cpp:192-201, 275-333, 735-779).    *)
(***************************************************************************)
THEOREM StopEndsInSteps ==
  Spec => StopShrinks /\ []WaitedForTold /\ [](StopLeft \in 0..30)
<1> DEFINE Shrinks == /\ Stopping' \/ ~Alive'
                      /\ \/ StopLeft' < StopLeft
                         \/ (StopLeft' = StopLeft /\ OthersStep)
<1>1. ASSUME IInv, Stopping, Next, ~UNCHANGED vars
      PROVE  Shrinks
  <2>1. TypeOK /\ HbInside
    BY <1>1 DEF IInv
  <2>2. CASE Main
    BY <1>1, <2>1, <2>2, MainShrinks
  <2>3. CASE SignalDelivered
    BY <1>1, <2>1, <2>3, SignalShrinks
  <2>4. ASSUME NEW h \in Handlers, NEW to, WorkerMoves(h, to), HbLeft' <= HbLeft
        PROVE  Shrinks
    <3>1. Stopping'
      BY <1>1, <2>4 DEF WorkerMoves, mainVars, Stopping
    <3> QED BY <1>1, <2>1, <2>4, <3>1, WorkerShrinks
  <2>5. UNCHANGED hbVars => HbLeft' <= HbLeft
    <3>1. UNCHANGED hbVars => HbLeft' = HbLeft
      BY DEF hbVars, HbLeft
    <3> QED BY <2>1, <3>1, LeftNat
  <2>6. ASSUME NEW h \in Handlers, Worker(h)
        PROVE  Shrinks
    BY <2>1, <2>4, <2>5, <2>6, CommonMoves
  <2>7. CASE TtyEnter \/ TtyGps \/ TtyDevicePush \/ TtyDeviceCount
             \/ TtyUnknown \/ TtyRespond
    BY <2>1, <2>4, <2>5, <2>7, TtyMoves DEF Handlers
  <2>8. CASE StartHeartbeatThread \/ NetDispatch \/ StopHeartbeat
             \/ JoinHeartbeat
    BY <2>1, <2>4, <2>8, NetMoves DEF Handlers
  <2>9. CASE Heartbeat
    <3>1. Stopping'
      BY <1>1, <2>9 DEF Heartbeat, HbTest, HbTick, mainVars, Stopping
    <3> QED BY <2>1, <2>9, <3>1, HbShrinks
  <2> HIDE DEF Shrinks
  <2> QED BY <1>1, <2>2, <2>3, <2>6, <2>7, <2>8, <2>9
          DEF Next, Terminated, TtyWorker, NetWorker, Handlers
<1>2. IInv /\ [Next]_vars => [Stopping => Shrinks]_vars
  BY <1>1
<1>3. Init => WaitedForTold
  BY DEF Init, WaitedForTold, JoinPc, Handlers
<1>4. TypeOK /\ WaitedForTold /\ [Next]_vars => WaitedForTold'
  BY WaitedStep
<1>5. TypeOK => StopLeft \in 0..30
  BY LeftNat
<1> QED BY <1>2, <1>3, <1>4, <1>5, Inductive, TypeCorrect, PTL
        DEF Spec, StopShrinks
=============================================================================
