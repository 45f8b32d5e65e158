--------------------------- MODULE OsdRecorderProof ---------------------------
(***************************************************************************)
(* Proofs about OsdRecorder for any configuration, any number of frames    *)
(* and any disc.                                                           *)
(***************************************************************************)
EXTENDS OsdRecorder, FiniteSetTheorems, TLAPS

\* Where the osd thread and the source can be, given where main is.
Lifecycle ==
  /\ mainPc \in {"init", "source", "thread"} => osd = "none"
  /\ mainPc \in {"mask", "sigwait", "clear", "event", "join"}
       => osd \notin {"none", "joined"}
  /\ mainPc \in {"stopSource", "delete"} => osd = "joined"
  /\ mainPc = "exited" => osd \in {"none", "joined"} /\ ~sourceOn
  /\ mainPc \in {"init", "source", "delete"} => ~sourceOn
  /\ mainPc \in {"thread", "stopSource"} => sourceOn
  /\ osd \notin {"none", "joined"} => sourceOn

\* The encoder runs with the source, but for the middle of a rotation.
EncoderFollows ==
  /\ osd \in {"stopEnc", "change", "startEnc", "statvfs", "remove"} => recording
  /\ encOn => sourceOn
  /\ sourceOn /\ osd \notin {"change", "startEnc"} => encOn = recording

\* Before init() succeeds nothing has been asked for.
Fresh ==
  /\ mainPc = "init" => file = OldFiles /\ event = {} /\ ~recording
  /\ ~sourceOn /\ osd = "none" => requests = 0 /\ event = {}

IInv ==
  TypeOK /\ Lifecycle /\ EncoderFollows /\ Fresh /\ NoLostWakeUp
    /\ RotationsRequested

-----------------------------------------------------------------------------
(***************************************************************************)
(* Type correctness.                                                       *)
(***************************************************************************)
LEMMA InitType == ASSUME Init PROVE TypeOK
<1>1. /\ mainPc \in MainPcs /\ osd \in OsdPcs
      /\ event \subseteq {"rotate", "stop"}
  BY DEF Init, MainPcs, OsdPcs
<1>2. disc \subseteq [id : Nat, mtime : 0..MaxNow]
  BY ConfigAssumption DEF Init, ConfigAssumption
<1>3. /\ signals \in 0..MaxSignals /\ currentPts \in -1..MaxPts
      /\ startPts \in -1..MaxPts /\ requests \in Nat /\ file \in Nat
      /\ written \in -1..MaxNow /\ now \in 0..MaxNow
  BY ConfigAssumption DEF Init, ConfigAssumption
<1> QED BY <1>1, <1>2, <1>3 DEF Init, TypeOK

(***************************************************************************)
(* createDirectory succeeds or fails.                                      *)
(***************************************************************************)
LEMMA DirectoryType == CreateDirectory => dirOk' \in BOOLEAN
BY DEF CreateDirectory

(***************************************************************************)
(* A step of main keeps the types.                                         *)
(***************************************************************************)
LEMMA MainType == ASSUME TypeOK, Main PROVE TypeOK'
<1> USE DEF TypeOK, mainVars, eventVars, frameVars, fileVars
<1>1. CASE InitFails
  BY <1>1 DEF InitFails, MainPcs
<1>2. CASE InitSucceeds
  <2>1. CASE UNCHANGED fileVars
    BY <1>2, <2>1 DEF InitSucceeds, MainPcs
  <2>2. CASE ~UNCHANGED fileVars
    <3>1. /\ recording' = TRUE /\ file' = file + 1 /\ CreateDirectory
          /\ UNCHANGED <<encOn, written, disc>>
      BY <1>2, <2>2 DEF InitSucceeds
    <3> QED BY <1>2, <3>1, DirectoryType DEF InitSucceeds, MainPcs
  <2> QED BY <2>1, <2>2
<1>3. CASE StartSource
  BY <1>3 DEF StartSource, MainPcs
<1>4. CASE StartThread
  BY <1>4 DEF StartThread, MainPcs, OsdPcs
<1>5. CASE MaskSignals
  BY <1>5 DEF MaskSignals, MainPcs
<1>6. CASE ClearWorkFlag
  BY <1>6 DEF ClearWorkFlag, MainPcs
<1>7. CASE PostStop
  BY <1>7 DEF PostStop, SetEvent, MainPcs, OsdPcs
<1>8. CASE JoinThread
  BY <1>8 DEF JoinThread, MainPcs, OsdPcs
<1>9. CASE StopSource
  BY <1>9 DEF StopSource, MainPcs
<1>10. CASE Delete
  BY <1>10 DEF Delete, MainPcs
<1> QED BY <1>1, <1>2, <1>3, <1>4, <1>5, <1>6, <1>7, <1>8, <1>9, <1>10 DEF Main

(***************************************************************************)
(* Taking up the bits of event keeps the types.                            *)
(***************************************************************************)
LEMMA EvaluateType ==
  ASSUME TypeOK, Evaluate PROVE TypeOK'
BY DEF Evaluate, TypeOK, mainVars, frameVars, fileVars, OsdPcs

(***************************************************************************)
(* A step of the osd thread keeps the types.                               *)
(***************************************************************************)
LEMMA OsdThreadType == ASSUME TypeOK, OsdThread PROVE TypeOK'
<1> USE DEF TypeOK, mainVars, eventVars, frameVars, fileVars
<1>1. CASE TestWorkFlag \/ WaitEvent \/ WaitTimesOut
  BY <1>1 DEF TestWorkFlag, WaitEvent, WaitTimesOut, OsdPcs
<1>2. CASE LockEvent \/ WakeUp
  BY <1>2, EvaluateType DEF LockEvent, WakeUp
<1>3. CASE StopEncoder \/ StartEncoder
  BY <1>3 DEF StopEncoder, StartEncoder, OsdPcs
<1>4. CASE ChangeFile
  <2>1. dirOk' \in BOOLEAN
    BY <1>4, DirectoryType DEF ChangeFile
  <2>2. written' \in -1..MaxNow
    BY <1>4, ConfigAssumption DEF ChangeFile, ConfigAssumption
  <2> QED BY <1>4, <2>1, <2>2 DEF ChangeFile, OsdPcs
<1>5. CASE TestFreeSize \/ RemoveNothing \/ Refresh
  BY <1>5 DEF TestFreeSize, RemoveNothing, Refresh, OsdPcs
<1>6. CASE RemoveOldest
  BY <1>6 DEF RemoveOldest, OsdPcs
<1> QED BY <1>1, <1>2, <1>3, <1>4, <1>5, <1>6 DEF OsdThread

(***************************************************************************)
(* A frame, a write, a tick and a signal keep the types.                   *)
(***************************************************************************)
LEMMA OthersType ==
  ASSUME TypeOK, Frame \/ Write \/ Tick \/ SignalDelivered
  PROVE  TypeOK'
<1> USE ConfigAssumption
    DEF TypeOK, ConfigAssumption, mainVars, eventVars, frameVars, fileVars
<1>1. CASE Frame
  <2>1. currentPts' \in -1..MaxPts /\ startPts' \in -1..MaxPts /\ requests' \in Nat
    BY <1>1 DEF Frame
  <2>2. osd' \in OsdPcs /\ event' \subseteq {"rotate", "stop"}
    BY <1>1 DEF Frame, SetEvent, OsdPcs
  <2> QED BY <1>1, <2>1, <2>2 DEF Frame
<1>2. CASE Write
  <2>1. disc' \subseteq [id : Nat, mtime : 0..MaxNow] /\ written' \in -1..MaxNow
    BY <1>2 DEF Write
  <2> QED BY <1>2, <2>1 DEF Write
<1>3. CASE Tick
  BY <1>3 DEF Tick
<1>4. CASE SignalDelivered
  <2>1. signals' \in 0..MaxSignals /\ mainPc' \in MainPcs
    BY <1>4 DEF SignalDelivered, MainPcs
  <2> QED BY <1>4, <2>1 DEF SignalDelivered
<1> QED BY <1>1, <1>2, <1>3, <1>4

(***************************************************************************)
(* Every step keeps the types.                                             *)
(***************************************************************************)
LEMMA TypeStep == ASSUME TypeOK, [Next]_vars PROVE TypeOK'
<1>1. CASE UNCHANGED vars
  BY <1>1 DEF vars, TypeOK, mainVars, eventVars, frameVars, fileVars
<1> QED BY <1>1, MainType, OsdThreadType, OthersType DEF Next, Terminated

(***************************************************************************)
(* Every variable keeps its type.                                          *)
(***************************************************************************)
THEOREM TypeCorrect == Spec => []TypeOK
BY InitType, TypeStep, PTL DEF Spec

-----------------------------------------------------------------------------
(***************************************************************************)
(* The rest of the inductive invariant, one lemma per conjunct.            *)
(***************************************************************************)
LEMMA LifecycleStep ==
  ASSUME TypeOK, Lifecycle, [Next]_vars PROVE Lifecycle'
<1> USE DEF Lifecycle
<1>1. CASE InitFails \/ InitSucceeds \/ StartSource \/ StartThread \/ MaskSignals
  BY <1>1 DEF InitFails, InitSucceeds, StartSource, StartThread, MaskSignals
<1>2. CASE ClearWorkFlag \/ PostStop \/ JoinThread \/ StopSource \/ Delete
  BY <1>2 DEF ClearWorkFlag, PostStop, SetEvent, JoinThread, StopSource, Delete
<1>3. CASE OsdThread
  <2>1. /\ osd \notin {"none", "joined"} /\ osd' \notin {"none", "joined"}
        /\ UNCHANGED <<mainPc, sourceOn>>
    BY <1>3 DEF OsdThread, TestWorkFlag, LockEvent, WaitEvent, WaitTimesOut,
       WakeUp, Evaluate, StopEncoder, ChangeFile, StartEncoder, TestFreeSize,
       RemoveOldest, RemoveNothing, Refresh, mainVars
  <2> QED BY <2>1
<1>4. CASE Frame \/ Write \/ Tick
  BY <1>4 DEF Frame, SetEvent, Write, Tick, mainVars
<1>5. CASE SignalDelivered
  BY <1>5 DEF SignalDelivered
<1>6. CASE UNCHANGED vars
  BY <1>6 DEF vars, mainVars
<1> QED BY <1>1, <1>2, <1>3, <1>4, <1>5, <1>6 DEF Next, Main, Terminated

(***************************************************************************)
(* The encoder runs exactly while the source does, but for a rotation.     *)
(***************************************************************************)
LEMMA EncoderFollowsStep ==
  ASSUME TypeOK, Lifecycle, EncoderFollows, Fresh, [Next]_vars
  PROVE  EncoderFollows'
<1> USE DEF EncoderFollows, TypeOK
<1>1. CASE InitFails \/ InitSucceeds \/ StartSource
  BY <1>1 DEF InitFails, InitSucceeds, StartSource, Lifecycle, Fresh, fileVars
<1>2. CASE StartThread \/ MaskSignals \/ ClearWorkFlag \/ PostStop \/ Delete
  BY <1>2 DEF StartThread, MaskSignals, ClearWorkFlag, PostStop, SetEvent,
     Delete, Lifecycle, fileVars
<1>3. CASE JoinThread \/ StopSource
  BY <1>3 DEF JoinThread, StopSource, Lifecycle, fileVars
<1>4. CASE TestWorkFlag \/ WaitEvent \/ WaitTimesOut \/ LockEvent \/ WakeUp
  BY <1>4 DEF TestWorkFlag, WaitEvent, WaitTimesOut, LockEvent, WakeUp,
     Evaluate, fileVars
<1>5. CASE StopEncoder \/ ChangeFile
  BY <1>5 DEF StopEncoder, ChangeFile
<1>6. CASE StartEncoder
  <2>1. sourceOn
    BY <1>6 DEF StartEncoder, Lifecycle
  <2> QED BY <1>6, <2>1 DEF StartEncoder
<1>7. CASE TestFreeSize \/ RemoveOldest \/ RemoveNothing \/ Refresh
  BY <1>7 DEF TestFreeSize, RemoveOldest, RemoveNothing, Refresh, fileVars
<1>8. CASE Frame \/ Write \/ Tick \/ SignalDelivered
  BY <1>8 DEF Frame, SetEvent, Write, Tick, SignalDelivered, fileVars
<1>9. CASE UNCHANGED vars
  BY <1>9 DEF vars, fileVars
<1> QED BY <1>1, <1>2, <1>3, <1>4, <1>5, <1>6, <1>7, <1>8, <1>9
        DEF Next, Main, OsdThread, Terminated

(***************************************************************************)
(* Before the first step of main nothing has been asked for or begun.      *)
(***************************************************************************)
LEMMA FreshStep ==
  ASSUME TypeOK, Lifecycle, Fresh, [Next]_vars PROVE Fresh'
<1> USE DEF Fresh
<1>1. CASE Main
  BY <1>1 DEF Main, InitFails, InitSucceeds, StartSource, StartThread,
     MaskSignals, ClearWorkFlag, PostStop, SetEvent, JoinThread, StopSource,
     Delete, Lifecycle, frameVars, eventVars, fileVars
<1>2. CASE OsdThread
  <2>1. osd \notin {"none", "joined"} /\ osd' # "none" /\ UNCHANGED mainPc
    BY <1>2 DEF OsdThread, TestWorkFlag, LockEvent, WaitEvent, WaitTimesOut,
       WakeUp, Evaluate, StopEncoder, ChangeFile, StartEncoder, TestFreeSize,
       RemoveOldest, RemoveNothing, Refresh, mainVars
  <2> QED BY <2>1 DEF Lifecycle
<1>3. CASE Frame
  BY <1>3 DEF Frame, Lifecycle, mainVars, fileVars
<1>4. CASE Write \/ Tick
  BY <1>4 DEF Write, Tick, Lifecycle, mainVars, eventVars, frameVars, fileVars
<1>5. CASE SignalDelivered
  BY <1>5 DEF SignalDelivered, eventVars, frameVars, fileVars
<1>6. CASE UNCHANGED vars
  BY <1>6 DEF vars, mainVars, eventVars, frameVars, fileVars
<1> QED BY <1>1, <1>2, <1>3, <1>4, <1>5, <1>6 DEF Next, Terminated

\* Only WaitEvent puts the osd thread to sleep, and every bit wakes it.
LEMMA NoLostWakeUpStep ==
  ASSUME NoLostWakeUp, [Next]_vars PROVE NoLostWakeUp'
<1> USE DEF NoLostWakeUp
<1>1. CASE Main
  BY <1>1 DEF Main, InitFails, InitSucceeds, StartSource, StartThread,
     MaskSignals, ClearWorkFlag, PostStop, SetEvent, JoinThread, StopSource,
     Delete, eventVars
<1>2. CASE OsdThread
  BY <1>2 DEF OsdThread, TestWorkFlag, LockEvent, WaitEvent, WaitTimesOut,
     WakeUp, Evaluate, StopEncoder, ChangeFile, StartEncoder, TestFreeSize,
     RemoveOldest, RemoveNothing, Refresh, eventVars
<1>3. CASE Frame
  BY <1>3 DEF Frame, SetEvent
<1>4. CASE Write \/ Tick \/ SignalDelivered \/ UNCHANGED vars
  BY <1>4 DEF Write, Tick, SignalDelivered, vars, eventVars
<1> QED BY <1>1, <1>2, <1>3, <1>4 DEF Next, Terminated

-----------------------------------------------------------------------------
(***************************************************************************)
(* What a step does to the requests: nothing, accept one, or carry one out.*)
(***************************************************************************)
Nothing ==
  /\ Owed' = Owed /\ Rotations' = Rotations
  /\ requests' = requests \/ requests' = requests + 1
  /\ Closing' = Closing \/ Closing'

Accept ==
  /\ Owed' = Owed + 1 /\ Owed < 2 /\ Rotations' = Rotations
  /\ requests' = requests + 1
  /\ Closing' = Closing

CarryOut ==
  /\ Owed > 0 /\ Owed' = Owed - 1 /\ Rotations' = Rotations + 1
  /\ requests' = requests
  /\ Closing' = Closing

(***************************************************************************)
(* Each step, seen as the abstract recorder sees it: it accepts a request, *)
(* carries one out, shuts down, or does nothing.                           *)
(***************************************************************************)
LEMMA RequestStep ==
  ASSUME TypeOK, Lifecycle, EncoderFollows, Fresh, [Next]_vars
  PROVE  Nothing \/ Accept \/ CarryOut
<1> USE DEF Owed, Rotations
<1>1. CASE InitFails \/ InitSucceeds
  <2>1. /\ mainPc = "init" /\ mainPc' \in {"exited", "source"}
        /\ file = OldFiles /\ event = {} /\ ~recording /\ osd = "none"
        /\ UNCHANGED <<event, osd, requests>>
    BY <1>1 DEF InitFails, InitSucceeds, Lifecycle, Fresh, eventVars, frameVars
  <2>2. Owed = 0 /\ Owed' = 0 /\ Rotations = 0
    BY <2>1
  <2>3. recording' => file' = OldFiles + 1
    BY <1>1, <2>1 DEF InitFails, InitSucceeds, fileVars
  <2>4. Rotations' = 0
    BY <2>3, ConfigAssumption DEF ConfigAssumption
  <2> QED BY <2>1, <2>2, <2>4 DEF Nothing, Closing
<1>2. CASE StartSource \/ StartThread \/ MaskSignals \/ ClearWorkFlag \/ Delete
  BY <1>2 DEF Nothing, StartSource, StartThread, MaskSignals, ClearWorkFlag,
     Delete, Lifecycle, Closing, eventVars, frameVars, fileVars
<1>3. CASE PostStop \/ JoinThread \/ StopSource
  BY <1>3 DEF Nothing, PostStop, SetEvent, JoinThread, StopSource, Closing,
     eventVars, frameVars, fileVars
<1>4. CASE TestWorkFlag \/ WaitEvent \/ WaitTimesOut \/ StopEncoder
             \/ StartEncoder \/ TestFreeSize \/ RemoveOldest \/ RemoveNothing
             \/ Refresh
  BY <1>4 DEF Nothing, TestWorkFlag, WaitEvent, WaitTimesOut, StopEncoder,
     StartEncoder, TestFreeSize, RemoveOldest, RemoveNothing, Refresh,
     Closing, mainVars, eventVars, frameVars, fileVars
<1>5. CASE LockEvent \/ WakeUp
  <2>1. /\ Evaluate /\ osd \notin {"stopEnc", "change"}
    BY <1>5 DEF LockEvent, WakeUp
  <2> QED BY <2>1 DEF Nothing, Evaluate, Closing, mainVars, frameVars, fileVars
<1>6. CASE ChangeFile
  <2>1. recording /\ osd = "change" /\ osd' = "startEnc" /\ file' = file + 1
        /\ UNCHANGED <<mainPc, event, recording, requests>>
    BY <1>6 DEF ChangeFile, EncoderFollows, mainVars, eventVars, frameVars
  <2> QED BY <2>1, ConfigAssumption
          DEF CarryOut, Closing, TypeOK, ConfigAssumption
<1>7. CASE Frame
  <2>1. UNCHANGED <<mainPc, recording, file>>
    BY <1>7 DEF Frame, mainVars, fileVars
  <2>2. CASE UNCHANGED <<event, osd, requests>>
    BY <2>1, <2>2 DEF Nothing, Closing
  <2>3. CASE SetEvent("rotate") /\ requests' = requests + 1
    <3>1. CASE recording /\ "rotate" \notin event
      BY <2>1, <2>3, <3>1 DEF Accept, SetEvent, Closing
    <3>2. CASE ~recording \/ "rotate" \in event
      BY <2>1, <2>3, <3>2 DEF Nothing, SetEvent, Closing
    <3> QED BY <3>1, <3>2
  <2> QED BY <1>7, <2>2, <2>3 DEF Frame
<1>8. CASE Write \/ Tick \/ SignalDelivered \/ UNCHANGED vars
  BY <1>8 DEF Nothing, Write, Tick, SignalDelivered, vars, Closing, mainVars,
     eventVars, frameVars, fileVars
<1> QED BY <1>1, <1>2, <1>3, <1>4, <1>5, <1>6, <1>7, <1>8
        DEF Next, Main, OsdThread, Terminated

(***************************************************************************)
(* The inductive invariant holds in every behaviour.                       *)
(***************************************************************************)
THEOREM Inductive == Spec => []IInv
<1>1. Init => IInv
  <2> SUFFICES ASSUME Init PROVE IInv
    OBVIOUS
  <2>1. Lifecycle /\ EncoderFollows /\ Fresh /\ NoLostWakeUp
    BY DEF Init, Lifecycle, EncoderFollows, Fresh, NoLostWakeUp
  <2>2. RotationsRequested
    BY DEF Init, RotationsRequested, Rotations, Owed
  <2> QED BY <2>1, <2>2, InitType DEF IInv
<1>2. IInv /\ [Next]_vars => IInv'
  <2> SUFFICES ASSUME IInv, [Next]_vars PROVE IInv'
    OBVIOUS
  <2>1. Rotations \in Int /\ Owed \in Int /\ requests \in Nat
    BY ConfigAssumption
       DEF IInv, TypeOK, ConfigAssumption, Rotations, Owed
  <2>2. RotationsRequested'
    BY <2>1, RequestStep
       DEF IInv, Nothing, Accept, CarryOut, RotationsRequested
  <2> QED BY <2>2, TypeStep, LifecycleStep, EncoderFollowsStep, FreshStep,
             NoLostWakeUpStep DEF IInv
<1> QED BY <1>1, <1>2, PTL DEF Spec

(***************************************************************************)
(* The osd thread never sleeps on a set bit of event.                      *)
(***************************************************************************)
THEOREM NoLostWakeUpCorrect ==
  Spec => []NoLostWakeUp
<1>1. IInv => NoLostWakeUp
  BY DEF IInv
<1> QED BY <1>1, Inductive, PTL

(***************************************************************************)
(* No file is begun that the callback has not asked for.                   *)
(***************************************************************************)
THEOREM RotationsRequestedCorrect ==
  Spec => []RotationsRequested
<1>1. IInv => RotationsRequested
  BY DEF IInv
<1> QED BY <1>1, Inductive, PTL

(***************************************************************************)
(* The source is stopped, and the object destroyed, after the osd thread.  *)
(***************************************************************************)
THEOREM TeardownInOrderCorrect ==
  Spec => []TeardownInOrder
<1>1. IInv => TeardownInOrder
  BY DEF IInv, TypeOK, Lifecycle, EncoderFollows, TeardownInOrder
<1> QED BY <1>1, Inductive, PTL

(***************************************************************************)
(* The recorder does with its requests what FileRotation promises.         *)
(***************************************************************************)
THEOREM ImplementsRotation ==
  Spec => RotationSpec
<1>1. Init => Rotation!Init
  BY DEF Init, Rotation!Init, Owed, Rotations, Closing
<1>2. IInv /\ [Next]_vars => [Rotation!Next]_Rotation!vars
  <2> SUFFICES ASSUME IInv, [Next]_vars
               PROVE  [Rotation!Next]_Rotation!vars
    OBVIOUS
  <2>1. Nothing \/ Accept \/ CarryOut
    BY RequestStep DEF IInv
  <2>2. CASE Nothing
    BY <2>2 DEF Nothing, Rotation!Next, Rotation!Close, Rotation!vars, Closing
  <2>3. CASE Accept
    BY <2>3 DEF Accept, Rotation!Next, Rotation!Request
  <2>4. CASE CarryOut
    BY <2>4 DEF CarryOut, Rotation!Next, Rotation!Rotate
  <2> QED BY <2>1, <2>2, <2>3, <2>4
<1> QED BY <1>1, <1>2, Inductive, PTL DEF Spec, RotationSpec, Rotation!Spec

-----------------------------------------------------------------------------
(***************************************************************************)
(* The disc.  A number names at most one recording, the file the writer    *)
(* was last given has the highest number and, once created, the time of    *)
(* the last packet; the osd thread removes while room is short.            *)
(***************************************************************************)
FilesKnown ==
  /\ IsFiniteSet(disc)
  /\ \A f, g \in disc : f.id = g.id => f = g
  /\ \A f \in disc : f.id <= file /\ f.mtime <= now

WriterKnown ==
  /\ written <= now
  /\ written # -1 => recording
  /\ recording /\ written = -1 => \A f \in disc : f.id # file
  /\ written # -1 => \A f \in disc : f.id = file => f.mtime = written

RoomShort == osd = "remove" /\ dirOk => Free < SystemFreeSize

DInv == FilesKnown /\ WriterKnown /\ RecordingRemovedLast /\ RoomShort

(***************************************************************************)
(* The disc and the writer's file stay as they are in most steps.          *)
(***************************************************************************)
DiscKept == UNCHANGED <<disc, file, written, recording, dirOk>>

LEMMA KeepingSteps ==
  ASSUME [Next]_vars
  PROVE  \/ DiscKept
         \/ InitSucceeds \/ ChangeFile \/ RemoveOldest \/ Write
<1> USE DEF DiscKept, fileVars
<1>1. CASE InitFails \/ StartSource \/ StartThread \/ MaskSignals
  BY <1>1 DEF InitFails, StartSource, StartThread, MaskSignals
<1>2. CASE ClearWorkFlag \/ PostStop \/ JoinThread \/ StopSource \/ Delete
  BY <1>2 DEF ClearWorkFlag, PostStop, JoinThread, StopSource, Delete
<1>3. CASE TestWorkFlag \/ LockEvent \/ WaitEvent \/ WaitTimesOut \/ WakeUp
  BY <1>3 DEF TestWorkFlag, LockEvent, WaitEvent, WaitTimesOut, WakeUp, Evaluate
<1>4. CASE StopEncoder \/ StartEncoder \/ TestFreeSize \/ RemoveNothing \/ Refresh
  BY <1>4 DEF StopEncoder, StartEncoder, TestFreeSize, RemoveNothing, Refresh
<1>5. CASE Frame \/ Tick \/ SignalDelivered
  BY <1>5 DEF Frame, Tick, SignalDelivered
<1>6. CASE UNCHANGED vars
  BY <1>6 DEF vars
<1> QED BY <1>1, <1>2, <1>3, <1>4, <1>5, <1>6 DEF Next, Main, OsdThread, Terminated

(***************************************************************************)
(* The clock never goes back.                                              *)
(***************************************************************************)
LEMMA ClockStep == ASSUME TypeOK, [Next]_vars PROVE now' \in Nat /\ now <= now'
<1>1. now \in Nat
  BY ConfigAssumption DEF TypeOK, ConfigAssumption
<1>2. CASE Tick
  BY <1>1, <1>2 DEF Tick
<1>3. CASE ~Tick
  <2>1. now' = now
    BY <1>3 DEF Next, Main, OsdThread, Terminated, InitFails, InitSucceeds,
       StartSource, StartThread, MaskSignals, ClearWorkFlag, PostStop,
       JoinThread, StopSource, Delete, TestWorkFlag, LockEvent, WaitEvent,
       WaitTimesOut, WakeUp, Evaluate, StopEncoder, ChangeFile, StartEncoder,
       TestFreeSize, RemoveOldest, RemoveNothing, Refresh, Frame, Write,
       SignalDelivered, vars
  <2> QED BY <1>1, <2>1
<1> QED BY <1>2, <1>3

(***************************************************************************)
(* The encoder runs only where a file is recorded.                         *)
(***************************************************************************)
LEMMA EncoderRecords ==
  ASSUME TypeOK, EncoderFollows, encOn PROVE recording
BY DEF TypeOK, EncoderFollows

(***************************************************************************)
(* What the writer does to the disc: it creates the file, which takes room *)
(* for one, or gives it another time, which takes none.                    *)
(***************************************************************************)
LEMMA WriteFiles ==
  ASSUME TypeOK, EncoderFollows, FilesKnown, WriterKnown, Write
  PROVE  /\ IsFiniteSet(disc')
         /\ \A f \in disc' : f = [id |-> file, mtime |-> now]
                               \/ (f \in disc /\ f.id # file)
         /\ [id |-> file, mtime |-> now] \in disc'
         /\ ~Unlinked /\ ~Unlinked'
         /\ Cardinality(disc) <= Cardinality(disc')
<1> DEFINE new  == [id |-> file, mtime |-> now]
           rest == {f \in disc : f.id # file}
<1>1. /\ disc' = rest \union {new} /\ new \notin rest
      /\ ~Unlinked /\ written' = now /\ file' = file
  BY DEF Write
<1>2. IsFiniteSet(disc) /\ IsFiniteSet(rest)
  BY FS_Subset, rest \in SUBSET disc DEF FilesKnown
<1>3. IsFiniteSet(disc') /\ Cardinality(disc') = Cardinality(rest) + 1
  BY <1>1, <1>2, FS_AddElement
<1>4. Cardinality(disc) \in Nat /\ Cardinality(rest) \in Nat
  BY <1>2, FS_CardinalityType
<1>5. Cardinality(disc) <= Cardinality(rest) + 1
  <2>1. CASE \A f \in disc : f.id # file
    BY <1>4, <2>1, rest = disc
  <2>2. CASE ~ \A f \in disc : f.id # file
    <3>1. PICK g \in disc : g.id = file
      BY <2>2
    <3>2. rest = disc \ {g}
      BY <3>1 DEF FilesKnown
    <3>3. Cardinality(rest) = Cardinality(disc) - 1
      BY <1>2, <3>1, <3>2, FS_RemoveElement
    <3> QED BY <1>4, <3>3
  <2> QED BY <2>1, <2>2
<1>6. new \in disc' /\ new.id = file'
  BY <1>1
<1>7. ~Unlinked'
  BY <1>6 DEF Unlinked
<1> QED BY <1>1, <1>3, <1>4, <1>5, <1>6, <1>7

(***************************************************************************)
(* The recordings keep their numbers and times apart.                      *)
(***************************************************************************)
LEMMA FilesKnownStep ==
  ASSUME TypeOK, EncoderFollows, FilesKnown, WriterKnown, [Next]_vars
  PROVE  FilesKnown'
<1>1. file \in Nat /\ now \in Nat /\ now' \in Nat /\ now <= now'
  BY ClockStep, ConfigAssumption DEF TypeOK, ConfigAssumption
<1>2. \A f \in disc : f.id \in Nat /\ f.mtime \in Nat /\ f.id <= file /\ f.mtime <= now
  BY ConfigAssumption DEF TypeOK, ConfigAssumption, FilesKnown
<1>3. CASE DiscKept
  BY <1>1, <1>2, <1>3 DEF DiscKept, FilesKnown
<1>4. CASE InitSucceeds \/ ChangeFile
  <2>1. disc' = disc /\ file' \in {file, file + 1}
    BY <1>4 DEF InitSucceeds, ChangeFile, fileVars
  <2> QED BY <1>1, <1>2, <2>1 DEF FilesKnown
<1>5. CASE RemoveOldest
  <2>1. PICK g \in disc : disc' = disc \ {g}
    BY <1>5 DEF RemoveOldest, Oldest
  <2>2. file' = file /\ IsFiniteSet(disc')
    BY <1>5, <2>1, FS_RemoveElement DEF RemoveOldest, FilesKnown
  <2> QED BY <1>1, <1>2, <2>1, <2>2 DEF FilesKnown
<1>6. CASE Write
  <2>1. file' = file /\ now' = now
    BY <1>6 DEF Write
  <2>2. \A f \in disc' : f.id <= file /\ f.mtime <= now
    BY <1>1, <1>2, <1>6, WriteFiles
  <2>3. \A f, g \in disc' : f.id = g.id => f = g
    BY <1>6, WriteFiles DEF FilesKnown
  <2> QED BY <1>6, <2>1, <2>2, <2>3, WriteFiles DEF FilesKnown
<1> QED BY <1>3, <1>4, <1>5, <1>6, KeepingSteps

(***************************************************************************)
(* The file being recorded keeps the time of its last packet.              *)
(***************************************************************************)
LEMMA WriterKnownStep ==
  ASSUME TypeOK, Fresh, EncoderFollows, FilesKnown, WriterKnown, [Next]_vars
  PROVE  WriterKnown'
<1>1. file \in Nat /\ now \in Nat /\ now' \in Nat /\ now <= now' /\ written \in Int
  BY ClockStep, ConfigAssumption DEF TypeOK, ConfigAssumption
<1>2. \A f \in disc : f.id \in Nat /\ f.id <= file
  BY DEF TypeOK, FilesKnown
<1>3. CASE DiscKept
  BY <1>1, <1>3 DEF DiscKept, WriterKnown
<1>4. CASE InitSucceeds
  <2>1. mainPc = "init" /\ now' = now /\ written' = written /\ disc' = disc
    BY <1>4 DEF InitSucceeds, fileVars
  <2>2. ~recording /\ written = -1
    BY <2>1 DEF Fresh, WriterKnown
  <2>3. recording' => \A f \in disc : f.id # file'
    <3>1. CASE recording' = recording
      BY <2>2, <3>1
    <3>2. CASE recording' # recording
      <4>1. file' = file + 1
        BY <1>4, <3>2 DEF InitSucceeds, fileVars
      <4> QED BY <1>1, <1>2, <4>1
    <3> QED BY <3>1, <3>2
  <2> QED BY <1>1, <2>1, <2>2, <2>3
          DEF WriterKnown
<1>5. CASE ChangeFile
  <2>1. written' = -1 /\ disc' = disc /\ file' = file + 1
    BY <1>5 DEF ChangeFile
  <2>2. \A f \in disc : f.id # file + 1
    BY <1>1, <1>2
  <2> QED BY <1>1, <2>1, <2>2 DEF WriterKnown
<1>6. CASE RemoveOldest
  <2>1. /\ disc' \subseteq disc
        /\ UNCHANGED <<written, recording, file, now>>
    BY <1>6 DEF RemoveOldest
  <2> QED BY <1>1, <2>1 DEF WriterKnown
<1>7. CASE Write
  <2>1. /\ written' = now /\ now' = now /\ file' = file
        /\ recording /\ recording' = recording
    BY <1>7, EncoderRecords DEF Write
  <2>2. \A f \in disc' : f.id = file => f.mtime = now
    BY <1>7, WriteFiles
  <2> QED BY <1>1, <2>1, <2>2 DEF WriterKnown
<1> QED BY <1>3, <1>4, <1>5, <1>6, <1>7, KeepingSteps

(***************************************************************************)
(* The recycling gives up the file being recorded last of all: when it is  *)
(* the oldest, no other was written to in an earlier second.               *)
(***************************************************************************)
LEMMA RemovedLastStep ==
  ASSUME TypeOK, Fresh, EncoderFollows, FilesKnown, WriterKnown,
         RecordingRemovedLast, [Next]_vars
  PROVE  RecordingRemovedLast'
<1> USE DEF RecordingRemovedLast, Unlinked
<1>1. CASE DiscKept
  BY <1>1 DEF DiscKept
<1>2. CASE InitSucceeds
  <2>1. mainPc = "init" /\ written' = written
    BY <1>2 DEF InitSucceeds, fileVars
  <2> QED BY <2>1 DEF Fresh, WriterKnown
<1>3. CASE ChangeFile
  BY <1>3 DEF ChangeFile
<1>4. CASE RemoveOldest
  <2>1. UNCHANGED <<file, written>>
    BY <1>4 DEF RemoveOldest
  <2>2. PICK g \in disc : Oldest(g) /\ disc' = disc \ {g}
    BY <1>4 DEF RemoveOldest, Oldest
  <2>3. CASE Unlinked
    BY <2>1, <2>2, <2>3
  <2>4. CASE ~Unlinked /\ written # -1 /\ g.id = file
    <3>1. g.mtime = written
      BY <2>4 DEF WriterKnown
    <3> QED BY <2>1, <2>2, <3>1 DEF Oldest
  <2>5. CASE ~Unlinked /\ (written = -1 \/ g.id # file)
    <3>1. ~Unlinked'
      BY <2>1, <2>2, <2>5
    <3> QED BY <3>1
  <2> QED BY <2>3, <2>4, <2>5
<1>5. CASE Write
  <2>1. ~Unlinked'
    BY <1>5, WriteFiles
  <2> QED BY <2>1
<1> QED BY <1>1, <1>2, <1>3, <1>4, <1>5, KeepingSteps

(***************************************************************************)
(* Only the osd thread makes room, and it has seen that room is short; the *)
(* writer, meanwhile, only takes room.                                     *)
(***************************************************************************)
LEMMA RemovingSteps ==
  ASSUME Lifecycle, [Next]_vars, osd' = "remove"
  PROVE  \/ osd = "remove" /\ (DiscKept \/ Write)
         \/ TestFreeSize /\ DiscKept
<1>1. CASE Main
  <2>1. osd = "remove"
    BY <1>1 DEF Main, InitFails, InitSucceeds, StartSource, StartThread,
       MaskSignals, ClearWorkFlag, PostStop, SetEvent, JoinThread, StopSource,
       Delete
  <2>2. ~InitSucceeds
    BY <2>1 DEF InitSucceeds, Lifecycle
  <2>3. ~ChangeFile /\ ~RemoveOldest
    BY <2>1, <1>1 DEF ChangeFile, RemoveOldest
  <2> QED BY <2>1, <2>2, <2>3, KeepingSteps
<1>2. CASE OsdThread
  <2>1. TestFreeSize
    BY <1>2 DEF OsdThread, TestWorkFlag, LockEvent, WaitEvent, WaitTimesOut,
       WakeUp, Evaluate, StopEncoder, ChangeFile, StartEncoder, TestFreeSize,
       RemoveOldest, RemoveNothing, Refresh
  <2> QED BY <2>1 DEF TestFreeSize, DiscKept, fileVars
<1>3. CASE Frame \/ Write \/ Tick \/ SignalDelivered \/ UNCHANGED vars
  <2>1. osd = "remove"
    BY <1>3 DEF Frame, SetEvent, Write, Tick, SignalDelivered, vars
  <2>2. DiscKept \/ Write
    BY <1>3 DEF Frame, Tick, SignalDelivered, vars, fileVars, DiscKept
  <2> QED BY <2>1, <2>2
<1> QED BY <1>1, <1>2, <1>3 DEF Next, Terminated

(***************************************************************************)
(* Room stays short until the oldest recording is removed.                 *)
(***************************************************************************)
LEMMA RoomShortStep ==
  ASSUME TypeOK, Lifecycle, EncoderFollows, FilesKnown, WriterKnown, RoomShort,
         [Next]_vars
  PROVE  RoomShort'
<1> SUFFICES ASSUME osd' = "remove", dirOk' PROVE Free' < SystemFreeSize
  BY DEF RoomShort
<1>1. DiscKept => Free' = Free /\ dirOk' = dirOk
  BY DEF DiscKept, Free, Unlinked
<1>2. CASE osd = "remove" /\ DiscKept
  BY <1>1, <1>2 DEF RoomShort
<1>3. CASE osd = "remove" /\ Write
  <2>1. dirOk
    BY <1>3 DEF Write
  <2>2. Free < SystemFreeSize
    BY <1>3, <2>1 DEF RoomShort
  <2>3. /\ Cardinality(disc) \in Nat /\ Cardinality(disc') \in Nat
        /\ Cardinality(disc) <= Cardinality(disc') /\ ~Unlinked /\ ~Unlinked'
    BY <1>3, WriteFiles, FS_CardinalityType DEF FilesKnown
  <2>4. /\ Free = Capacity - Cardinality(disc)
        /\ Free' = Capacity - Cardinality(disc')
    BY <2>3, ConfigAssumption DEF Free, ConfigAssumption
  <2> QED BY <2>2, <2>3, <2>4, ConfigAssumption DEF ConfigAssumption
<1>4. CASE TestFreeSize /\ DiscKept
  <2>1. SystemFreeSize > SystemFree /\ dirOk
    BY <1>1, <1>4 DEF TestFreeSize
  <2>2. Free < SystemFreeSize
    BY <2>1, ConfigAssumption DEF SystemFree, ConfigAssumption
  <2> QED BY <1>1, <1>4, <2>2
<1> QED BY <1>2, <1>3, <1>4, RemovingSteps

(***************************************************************************)
(* The recordings of earlier runs are finitely many.                       *)
(***************************************************************************)
LEMMA InitDisc == ASSUME Init PROVE DInv
<1> DEFINE old == [i \in 1..OldFiles |-> [id |-> i, mtime |-> 0]]
<1>1. OldFiles \in Nat
  BY ConfigAssumption DEF ConfigAssumption
<1>2. IsFiniteSet(disc)
  <2>1. old \in Surjection(1..OldFiles, disc)
    BY DEF Init, Surjection
  <2>2. IsFiniteSet(1..OldFiles)
    BY <1>1, FS_Interval
  <2> QED BY <2>1, <2>2, FS_Surjection
<1>3. FilesKnown
  BY <1>1, <1>2 DEF Init, FilesKnown
<1>4. WriterKnown /\ RecordingRemovedLast /\ RoomShort
  BY DEF Init, WriterKnown, RecordingRemovedLast, Unlinked, RoomShort
<1> QED BY <1>3, <1>4 DEF DInv

(***************************************************************************)
(* What is known of the disc holds in every behaviour.                     *)
(***************************************************************************)
THEOREM DiscInductive == Spec => [](IInv /\ DInv)
<1>1. IInv /\ DInv /\ [Next]_vars => DInv'
  <2> SUFFICES ASSUME IInv, DInv, [Next]_vars PROVE DInv'
    OBVIOUS
  <2> QED BY FilesKnownStep, WriterKnownStep, RemovedLastStep, RoomShortStep
          DEF IInv, DInv
<1> QED BY <1>1, Inductive, InitDisc, PTL DEF Spec

(***************************************************************************)
(* The recycling never gives up the file being recorded while another was  *)
(* written to in an earlier second.                                        *)
(***************************************************************************)
THEOREM RecordingRemovedLastCorrect ==
  Spec => []RecordingRemovedLast
<1>1. DInv => RecordingRemovedLast
  BY DEF DInv
<1> QED BY <1>1, DiscInductive, PTL

(***************************************************************************)
(* A recording is removed only while room is short, where statvfs can be   *)
(* asked: nothing frees room between the test and the removal.             *)
(***************************************************************************)
THEOREM RemovedForRoomCorrect ==
  Spec => RemovedForRoom
<1>1. ASSUME IInv, DInv, [Next]_vars
      PROVE  \A f \in disc : Removed(f) /\ dirOk => Free < SystemFreeSize
  <2> TAKE f \in disc
  <2> HAVE Removed(f) /\ dirOk
  <2>1. CASE RemoveOldest
    BY <1>1, <2>1 DEF RemoveOldest, DInv, RoomShort
  <2>2. CASE Write
    <3>1. \E g \in disc' : g.id = f.id
      <4>1. CASE f.id = file
        BY <1>1, <2>2, <4>1, WriteFiles DEF IInv, DInv
      <4>2. CASE f.id # file
        BY <2>2, <4>2 DEF Write
      <4> QED BY <4>1, <4>2
    <3> QED BY <3>1 DEF Removed
  <2>3. CASE DiscKept \/ InitSucceeds \/ ChangeFile
    <3>1. disc' = disc
      BY <2>3 DEF DiscKept, InitSucceeds, ChangeFile, fileVars
    <3> QED BY <3>1 DEF Removed
  <2> QED BY <1>1, <2>1, <2>2, <2>3, KeepingSteps
<1> QED BY <1>1, DiscInductive, PTL DEF Spec, RemovedForRoom

-----------------------------------------------------------------------------
(***************************************************************************)
(* How far the osd thread is from the end of what it does.                 *)
(***************************************************************************)
Recycling == osd \in {"statvfs", "remove"}

\* The recordings there are, the one the writer has yet to create included.
Recordings == Cardinality(disc) + (IF written = -1 THEN 1 ELSE 0)

\* The steps of the recycling before it has removed them all.
StepsLeft == 2 * Recordings + (IF osd = "statvfs" THEN 1 ELSE 0)

\* Every step of making room leaves fewer, and no step of others more.
RecyclingShrinks ==
  [][Recycling =>
       \/ (osd' = osd /\ StepsLeft' <= StepsLeft)
       \/ osd' = "refresh"
       \/ (Recycling' /\ StepsLeft' < StepsLeft)]_vars

(***************************************************************************)
(* A packet of the encoder makes no recording that is not counted: the     *)
(* first creates the writer's file, the others find it.                    *)
(***************************************************************************)
LEMMA WriteCounts ==
  ASSUME TypeOK, EncoderFollows, FilesKnown, WriterKnown, Write
  PROVE  Recordings' = Recordings
<1> DEFINE new  == [id |-> file, mtime |-> now]
           rest == {f \in disc : f.id # file}
<1>1. /\ disc' = rest \union {new} /\ new \notin rest
      /\ ~Unlinked /\ written' = now
  BY DEF Write
<1>2. IsFiniteSet(disc) /\ IsFiniteSet(rest)
  BY FS_Subset, rest \in SUBSET disc DEF FilesKnown
<1>3. Cardinality(disc') = Cardinality(rest) + 1
  BY <1>1, <1>2, FS_AddElement
<1>4. Cardinality(disc) \in Nat /\ Cardinality(rest) \in Nat /\ now # -1
  BY <1>2, FS_CardinalityType DEF TypeOK
<1>5. CASE written = -1
  <2>1. \A f \in disc : f.id # file
    BY <1>5, EncoderRecords DEF Write, WriterKnown
  <2>2. rest = disc
    BY <2>1
  <2>3. Cardinality(disc') = Cardinality(disc) + 1 /\ written' # -1
    BY <1>1, <1>3, <1>4, <2>2
  <2> QED BY <1>5, <2>3, <1>4 DEF Recordings
<1>6. CASE written # -1
  <2>1. PICK g \in disc : g.id = file
    BY <1>1, <1>6 DEF Unlinked
  <2>2. rest = disc \ {g}
    BY <2>1 DEF FilesKnown
  <2>3. Cardinality(rest) = Cardinality(disc) - 1
    BY <1>2, <2>1, <2>2, FS_RemoveElement
  <2> QED BY <1>1, <1>3, <1>4, <1>6, <2>3 DEF Recordings
<1> QED BY <1>5, <1>6

(***************************************************************************)
(* While room is made, the other threads do not move the osd thread.       *)
(***************************************************************************)
LEMMA RecyclingSteps ==
  ASSUME Lifecycle, Recycling, [Next]_vars
  PROVE  \/ osd' = osd /\ (UNCHANGED <<disc, written>> \/ Write)
         \/ TestFreeSize \/ RemoveOldest \/ RemoveNothing
<1>1. CASE Main
  <2>1. osd' = osd
    BY <1>1 DEF Recycling, Lifecycle, Main, InitFails, InitSucceeds,
       StartSource, StartThread, MaskSignals, ClearWorkFlag, PostStop,
       SetEvent, JoinThread, StopSource, Delete
  <2>2. UNCHANGED <<disc, written>>
    BY <1>1 DEF Main, InitFails, InitSucceeds, StartSource, StartThread,
       MaskSignals, ClearWorkFlag, PostStop, JoinThread, StopSource, Delete,
       fileVars
  <2> QED BY <2>1, <2>2
<1>2. CASE OsdThread
  BY <1>2 DEF Recycling, OsdThread, TestWorkFlag, LockEvent, WaitEvent,
     WaitTimesOut, WakeUp, StopEncoder, ChangeFile, StartEncoder, Refresh
<1>3. CASE Frame \/ Write \/ Tick \/ SignalDelivered \/ UNCHANGED vars
  BY <1>3 DEF Recycling, Frame, SetEvent, Write, Tick, SignalDelivered, vars,
     fileVars
<1> QED BY <1>1, <1>2, <1>3 DEF Next, Terminated

(***************************************************************************)
(* Making room comes to an end after at most two steps for each recording: *)
(* every one of its steps leaves fewer, and the encoder, which fills the   *)
(* disc again, adds none that is not counted (osd.cpp:1030-1034).          *)
(***************************************************************************)
THEOREM RecyclingEndsInSteps == Spec => RecyclingShrinks
<1> DEFINE Shrinks == Recycling =>
                        \/ (osd' = osd /\ StepsLeft' <= StepsLeft)
                        \/ osd' = "refresh"
                        \/ (Recycling' /\ StepsLeft' < StepsLeft)
<1>1. ASSUME IInv, DInv, [Next]_vars, Recycling
      PROVE  Shrinks
  <2>1. /\ TypeOK /\ Lifecycle /\ EncoderFollows /\ FilesKnown /\ WriterKnown
        /\ IsFiniteSet(disc)
    BY <1>1 DEF IInv, DInv, FilesKnown
  <2>2. Cardinality(disc) \in Nat /\ Recordings \in Nat
    BY <2>1, FS_CardinalityType DEF Recordings
  <2>3. CASE osd' = osd /\ UNCHANGED <<disc, written>>
    <3>1. StepsLeft' = StepsLeft /\ StepsLeft \in Nat
      BY <2>2, <2>3 DEF StepsLeft, Recordings
    <3> QED BY <2>3, <3>1
  <2>4. CASE osd' = osd /\ Write
    <3>1. Recordings' = Recordings
      BY <2>1, <2>4, WriteCounts
    <3>2. StepsLeft' = StepsLeft /\ StepsLeft \in Nat
      BY <2>2, <2>4, <3>1 DEF StepsLeft
    <3> QED BY <2>4, <3>2
  <2>5. CASE TestFreeSize
    <3>1. osd = "statvfs" /\ osd' \in {"remove", "refresh"}
      BY <2>5 DEF TestFreeSize
    <3>2. Recordings' = Recordings
      BY <2>5 DEF TestFreeSize, fileVars, Recordings
    <3>3. osd' = "remove" => StepsLeft' < StepsLeft
      BY <2>2, <3>1, <3>2 DEF StepsLeft
    <3> QED BY <3>1, <3>3 DEF Recycling
  <2>6. CASE RemoveOldest
    <3>1. osd = "remove" /\ osd' = "statvfs" /\ written' = written
      BY <2>6 DEF RemoveOldest
    <3>2. PICK f \in disc : disc' = disc \ {f}
      BY <2>6 DEF RemoveOldest
    <3>3. Cardinality(disc') = Cardinality(disc) - 1
      BY <2>1, <3>2, FS_RemoveElement
    <3>4. Recordings' = Recordings - 1
      BY <2>2, <3>1, <3>3 DEF Recordings
    <3>5. StepsLeft' < StepsLeft
      BY <2>2, <3>1, <3>4 DEF StepsLeft
    <3> QED BY <3>1, <3>5 DEF Recycling
  <2>7. CASE RemoveNothing
    BY <2>7 DEF RemoveNothing
  <2> QED BY <1>1, <2>1, <2>3, <2>4, <2>5, <2>6, <2>7, RecyclingSteps
<1>2. IInv /\ DInv /\ [Next]_vars => [Shrinks]_vars
  BY <1>1
<1> QED BY <1>2, DiscInductive, PTL DEF Spec, RecyclingShrinks

(***************************************************************************)
(* The steps of the osd thread from one test of work_flag to the next.     *)
(***************************************************************************)
Rank(s) ==
  CASE s = "lock" -> 9       [] s = "waiting" -> 8  [] s = "woken" -> 7
    [] s = "stopEnc" -> 6    [] s = "change" -> 5   [] s = "startEnc" -> 4
    [] s \in {"statvfs", "remove"} -> 3             [] s = "refresh" -> 2
    [] s = "loop" -> 1       [] OTHER -> 0

\* Once work_flag is cleared the thread only gets nearer to its end.
StopDescends ==
  [][~workFlag /\ osd # "none" =>
       /\ ~workFlag'
       /\ \/ osd' = osd
          \/ Rank(osd') < Rank(osd)
          \/ (Recycling /\ Recycling')
          \/ (osd = "done" /\ osd' = "joined")]_vars

(***************************************************************************)
(* After stop() has cleared work_flag the osd thread begins nothing again: *)
(* wherever it was, in a wait or deep in a rotation, it goes on to its end *)
(* and is joined, and only making room, which RecyclingEndsInSteps bounds, *)
(* takes more than a few steps.                                            *)
(***************************************************************************)
THEOREM StopCompletesInSteps == Spec => StopDescends
<1> DEFINE Descends == ~workFlag /\ osd # "none" =>
                         /\ ~workFlag'
                         /\ \/ osd' = osd
                            \/ Rank(osd') < Rank(osd)
                            \/ (Recycling /\ Recycling')
                            \/ (osd = "done" /\ osd' = "joined")
<1>1. ASSUME IInv, [Next]_vars, ~workFlag, osd # "none"
      PROVE  Descends
  <2>0. Lifecycle
    BY <1>1 DEF IInv
  <2>1. CASE Main
    <3>1. ~StartThread
      BY <1>1, <2>0 DEF StartThread, Lifecycle
    <3>2. ~workFlag'
      BY <1>1, <2>1, <3>1 DEF Main, InitFails, InitSucceeds, StartSource,
         MaskSignals, ClearWorkFlag, PostStop, JoinThread, StopSource, Delete,
         eventVars
    <3>3. \/ osd' = osd \/ (osd = "waiting" /\ osd' = "woken")
          \/ (osd = "done" /\ osd' = "joined")
      BY <2>1, <3>1 DEF Main, InitFails, InitSucceeds, StartSource,
         MaskSignals, ClearWorkFlag, PostStop, SetEvent, JoinThread,
         StopSource, Delete
    <3>4. Rank("woken") < Rank("waiting")
      BY DEF Rank
    <3> QED BY <3>2, <3>3, <3>4
  <2>2. CASE OsdThread
    <3>1. ~workFlag'
      BY <1>1, <2>2 DEF OsdThread, TestWorkFlag, LockEvent, WaitEvent,
         WaitTimesOut, WakeUp, Evaluate, StopEncoder, ChangeFile, StartEncoder,
         TestFreeSize, RemoveOldest, RemoveNothing, Refresh, eventVars
    <3>2. CASE TestFreeSize \/ RemoveOldest \/ RemoveNothing
      BY <3>1, <3>2 DEF TestFreeSize, RemoveOldest, RemoveNothing, Recycling,
         Rank
    <3>3. CASE LockEvent \/ WakeUp
      BY <3>1, <3>3 DEF LockEvent, WakeUp, Evaluate, Rank
    <3>4. CASE TestWorkFlag \/ WaitEvent \/ WaitTimesOut
      BY <1>1, <3>1, <3>4 DEF TestWorkFlag, WaitEvent, WaitTimesOut, Rank
    <3>5. CASE StopEncoder \/ ChangeFile \/ StartEncoder \/ Refresh
      BY <3>1, <3>5 DEF StopEncoder, ChangeFile, StartEncoder, Refresh, Rank
    <3> QED BY <2>2, <3>2, <3>3, <3>4, <3>5 DEF OsdThread
  <2>3. CASE Frame \/ Write \/ Tick \/ SignalDelivered \/ UNCHANGED vars
    <3>1. ~workFlag'
      BY <1>1, <2>3 DEF Frame, Write, Tick, SignalDelivered, vars, eventVars
    <3>2. osd' = osd \/ (osd = "waiting" /\ osd' = "woken")
      BY <2>3 DEF Frame, SetEvent, Write, Tick, SignalDelivered, vars
    <3>3. Rank("woken") < Rank("waiting")
      BY DEF Rank
    <3> QED BY <3>1, <3>2, <3>3
  <2> QED BY <1>1, <2>1, <2>2, <2>3 DEF Next, Terminated
<1>2. IInv /\ [Next]_vars => [Descends]_vars
  BY <1>1
<1> QED BY <1>2, Inductive, PTL DEF Spec, StopDescends
=============================================================================
