----------------------------- MODULE OsdRecorder -----------------------------
(***************************************************************************)
(* The capture program, demo/demo_osd.cpp with the class ModuleOsd of      *)
(* demo/osd.cpp: the rga module calls osdHandlerCallback for each frame    *)
(* and asks for a new output file when the current one is long enough;     *)
(* the osd thread changes the file and makes room on the disc; main waits  *)
(* for a signal and stops both.  The callback, the osd thread and main     *)
(* meet in event, under event_mtx and event_conv.                          *)
(*                                                                         *)
(* A critical section of event_mtx is one step: none of them blocks inside *)
(* but wait_for, which gives the mutex up.  Encoder and file writer belong *)
(* to the media library; Write is what they do with the output file.       *)
(* What is drawn on a frame is not modelled here.                          *)
(***************************************************************************)
EXTENDS Integers, FiniteSets

CONSTANTS
  FrameGap,         (* microseconds between two frames                      *)
  MaxPts,           (* bound: no frame has a later time stamp               *)
  FileMaxDuration,  (* fileMaxDuration of the configuration, in seconds     *)
  SystemFreeSize,   (* systemFreeSize of the configuration, in files        *)
  Capacity,         (* the size of the disc, in files                       *)
  OldFiles,         (* recordings of earlier runs                           *)
  MaxNow,           (* bound: how many seconds the clock may advance        *)
  MaxSignals,       (* bound: SIGINT or SIGTERM sent to the process         *)
  MkdirMayFail      (* whether createDirectory can fail                     *)

ASSUME ConfigAssumption ==
  /\ FrameGap \in Nat \ {0}
  /\ MaxPts \in Nat
  /\ FileMaxDuration \in Nat
  /\ SystemFreeSize \in Nat
  /\ Capacity \in Nat
  /\ OldFiles \in 0..Capacity
  /\ MaxNow \in Nat
  /\ MaxSignals \in Nat
  /\ MkdirMayFail \in BOOLEAN

VARIABLES
  mainPc,      (* where main() is                                           *)
  masked,      (* main has called sigprocmask                               *)
  signals,     (* signals sent so far                                       *)
  workFlag,    (* work_flag                                                 *)
  event,       (* the bits of event: "rotate" is 1, "stop" is 1 << 1        *)
  osd,         (* where the osd thread is                                   *)
  sourceOn,    (* v_source runs and feeds frames to the callback            *)
  currentPts, startPts,
  requests,    (* how many rotations the callback has asked for             *)
  recording,   (* outputFile is configured: f_enc and writer exist          *)
  encOn,       (* f_enc runs                                                *)
  file,        (* the number of the file name the writer was last given     *)
  written,     (* the last st_mtim.tv_sec of that file, -1: not created     *)
  disc,        (* the recordings in outputFileDir, with st_mtim.tv_sec      *)
  dirOk,       (* the directory of the current file name exists             *)
  now          (* the clock of the file system, in seconds                  *)

mainVars  == <<mainPc, masked, signals>>
eventVars == <<workFlag, event>>
frameVars == <<currentPts, startPts, requests>>
fileVars  == <<recording, encOn, file, written, disc, dirOk>>

vars == <<mainVars, eventVars, osd, sourceOn, frameVars, fileVars, now>>

-----------------------------------------------------------------------------
(***************************************************************************)
(* fMaxDuration *= 1000000 in a 32-bit int.  With the 16-bit halves of the *)
(* product, 1000000 = 15 * 65536 + 16960, and two's complement wrap-around *)
(* as the build gives it.                                                  *)
(***************************************************************************)
fMaxDuration ==
  LET s    == FileMaxDuration % 65536
      low  == s * 16960
      sum  == s * 15 + (FileMaxDuration \div 65536) * 16960 + low \div 65536
      high == sum % 65536
  IN  (IF high < 32768 THEN high ELSE high - 65536) * 65536 + (low % 65536)

\* A file that was removed while the writer has it open keeps its room.
Unlinked == written # -1 /\ \A f \in disc : f.id # file
Free == Capacity - Cardinality(disc) - (IF Unlinked THEN 1 ELSE 0)

\* getSystemFreeSize: statvfs fails without a directory, and 0 is returned.
SystemFree == IF dirOk THEN Free ELSE 0

\* A variant with the comparison turned round.
Newest(f) == f \in disc /\ \A g \in disc : f.mtime >= g.mtime

Oldest(f) == f \in disc /\ \A g \in disc : f.mtime <= g.mtime

Alive == mainPc \notin {"exited", "killed"}

Init ==
  /\ mainPc = "init"
  /\ masked = FALSE
  /\ signals = 0
  /\ workFlag = FALSE
  /\ event = {}
  /\ osd = "none"
  /\ sourceOn = FALSE
  /\ currentPts = -1
  /\ startPts = -1
  /\ requests = 0
  /\ recording = FALSE
  /\ encOn = FALSE
  /\ file = OldFiles
  /\ written = -1
  /\ disc = {[id |-> i, mtime |-> 0] : i \in 1..OldFiles}
  /\ dirOk = TRUE
  /\ now = 0

-----------------------------------------------------------------------------
(***************************************************************************)
(* main, the start.                                                        *)
(***************************************************************************)
InitFails ==
  /\ mainPc = "init"
  /\ mainPc' = "exited"
  /\ UNCHANGED <<masked, signals, eventVars, osd, sourceOn, frameVars,
                 fileVars, now>>

CreateDirectory == dirOk' \in (IF MkdirMayFail THEN BOOLEAN ELSE {TRUE})

\* With outputFile the encoder and the writer are made, and the first file
\* gets its name.
InitSucceeds ==
  /\ mainPc = "init"
  /\ mainPc' = "source"
  /\ \/ UNCHANGED fileVars
     \/ /\ recording' = TRUE
        /\ file' = file + 1
        /\ CreateDirectory
        /\ UNCHANGED <<encOn, written, disc>>
  /\ UNCHANGED <<masked, signals, eventVars, osd, sourceOn, frameVars, now>>

\* ModuleOsd::start(): the source runs before the osd thread exists.
StartSource ==
  /\ mainPc = "source"
  /\ mainPc' = "thread"
  /\ sourceOn' = TRUE
  /\ encOn' = recording
  /\ UNCHANGED <<masked, signals, eventVars, osd, frameVars, recording, file,
                 written, disc, dirOk, now>>

StartThread ==
  /\ mainPc = "thread"
  /\ mainPc' = "mask"
  /\ workFlag' = TRUE
  /\ osd' = "loop"
  /\ UNCHANGED <<masked, signals, event, sourceOn, frameVars, fileVars, now>>

MaskSignals ==
  /\ mainPc = "mask"
  /\ mainPc' = "sigwait"
  /\ masked' = TRUE
  /\ UNCHANGED <<signals, eventVars, osd, sourceOn, frameVars, fileVars, now>>

\* Only main blocks the signals: every other thread was there before.
SignalDelivered ==
  /\ signals < MaxSignals
  /\ signals' = signals + 1
  /\ mainPc' = IF mainPc = "sigwait" THEN "clear"
               ELSE IF ~masked \/ sourceOn \/ osd \notin {"done", "joined"}
                    THEN "killed"
                    ELSE mainPc
  /\ UNCHANGED <<masked, eventVars, osd, sourceOn, frameVars, fileVars, now>>

-----------------------------------------------------------------------------
(***************************************************************************)
(* main, the end: ModuleOsd::stop(), then the destructor.                  *)
(***************************************************************************)
\* A variant of stop() that leaves work_flag set.
KeepWorkFlag ==
  /\ mainPc = "clear"
  /\ mainPc' = "event"
  /\ UNCHANGED <<masked, signals, eventVars, osd, sourceOn, frameVars,
                 fileVars, now>>

ClearWorkFlag ==
  /\ mainPc = "clear"
  /\ mainPc' = "event"
  /\ workFlag' = FALSE
  /\ UNCHANGED <<masked, signals, event, osd, sourceOn, frameVars, fileVars,
                 now>>

\* event |= bit and event_conv.notify_one() under event_mtx.
SetEvent(bit) ==
  /\ event' = event \union {bit}
  /\ osd' = IF osd = "waiting" THEN "woken" ELSE osd

PostStop ==
  /\ mainPc = "event"
  /\ mainPc' = "join"
  /\ SetEvent("stop")
  /\ UNCHANGED <<masked, signals, workFlag, sourceOn, frameVars, fileVars,
                 now>>

\* A variant of stop() that does not wait for the thread.
JoinThreadNoWait ==
  /\ mainPc = "join"
  /\ mainPc' = "stopSource"
  /\ UNCHANGED <<masked, signals, eventVars, osd, sourceOn, frameVars,
                 fileVars, now>>

JoinThread ==
  /\ mainPc = "join"
  /\ osd = "done"
  /\ mainPc' = "stopSource"
  /\ osd' = "joined"
  /\ UNCHANGED <<masked, signals, eventVars, sourceOn, frameVars, fileVars,
                 now>>

\* Stopping the source stops the modules it feeds, the encoder among them.
StopSource ==
  /\ mainPc = "stopSource"
  /\ mainPc' = "delete"
  /\ sourceOn' = FALSE
  /\ encOn' = FALSE
  /\ UNCHANGED <<masked, signals, eventVars, osd, frameVars, recording, file,
                 written, disc, dirOk, now>>

\* The destructor calls stop() again: there is nobody left to join.
Delete ==
  /\ mainPc = "delete"
  /\ mainPc' = "exited"
  /\ UNCHANGED <<masked, signals, eventVars, osd, sourceOn, frameVars,
                 fileVars, now>>

-----------------------------------------------------------------------------
(***************************************************************************)
(* osdHandlerCallback, its last part: the next frame, and the request for  *)
(* a new file once the frames since the last request last too long.        *)
(***************************************************************************)
TooLong == fMaxDuration # 0 /\ currentPts' - startPts > fMaxDuration

\* A variant that keeps the time of the next request in start_pts.
FrameDue ==
  /\ sourceOn
  /\ currentPts + FrameGap <= MaxPts
  /\ currentPts' = currentPts + FrameGap
  /\ IF currentPts' < startPts
     THEN UNCHANGED <<startPts, event, osd, requests>>
     ELSE /\ SetEvent("rotate")
          /\ startPts' = currentPts' + fMaxDuration
          /\ requests' = requests + 1
  /\ UNCHANGED <<mainVars, workFlag, sourceOn, fileVars, now>>

Frame ==
  /\ sourceOn
  /\ currentPts + FrameGap <= MaxPts
  /\ currentPts' = currentPts + FrameGap
  /\ \/ /\ startPts < 0
        /\ startPts' = currentPts'
        /\ UNCHANGED <<event, osd, requests>>
     \/ /\ startPts >= 0 /\ TooLong
        /\ SetEvent("rotate")
        /\ startPts' = currentPts'
        /\ requests' = requests + 1
     \/ /\ startPts >= 0 /\ ~TooLong
        /\ UNCHANGED <<startPts, event, osd, requests>>
  /\ UNCHANGED <<mainVars, workFlag, sourceOn, fileVars, now>>

-----------------------------------------------------------------------------
(***************************************************************************)
(* The osd thread, osdProcess().                                           *)
(***************************************************************************)
TestWorkFlag ==
  /\ osd = "loop"
  /\ osd' = IF workFlag THEN "lock" ELSE "done"
  /\ UNCHANGED <<mainVars, eventVars, sourceOn, frameVars, fileVars, now>>

\* With event_mtx held: what the bits ask for, stop before rotate.
Evaluate ==
  /\ event' = IF "stop" \in event THEN event ELSE event \ {"rotate"}
  /\ osd' = IF "stop" \in event THEN "loop"
            ELSE IF "rotate" \in event /\ recording THEN "stopEnc"
            ELSE "refresh"
  /\ UNCHANGED <<mainVars, workFlag, sourceOn, frameVars, fileVars, now>>

\* Lock event_mtx; wait only while no bit is set.
LockEvent ==
  /\ osd = "lock"
  /\ event # {} /\ Evaluate

\* A variant that waits whatever event holds.
WaitAlways ==
  /\ osd = "lock"
  /\ osd' = "waiting"
  /\ UNCHANGED <<mainVars, eventVars, sourceOn, frameVars, fileVars, now>>

WaitEvent ==
  /\ osd = "lock"
  /\ event = {}
  /\ osd' = "waiting"
  /\ UNCHANGED <<mainVars, eventVars, sourceOn, frameVars, fileVars, now>>

\* wait_for comes back by itself: the 3000 ms are over, or for no reason.
WaitTimesOut ==
  /\ osd = "waiting"
  /\ osd' = "woken"
  /\ UNCHANGED <<mainVars, eventVars, sourceOn, frameVars, fileVars, now>>

WakeUp == osd = "woken" /\ Evaluate

StopEncoder ==
  /\ osd = "stopEnc"
  /\ osd' = "change"
  /\ encOn' = FALSE
  /\ UNCHANGED <<mainVars, eventVars, sourceOn, frameVars, recording, file,
                 written, disc, dirOk, now>>

\* A variant that clears the bit of a new file when it has begun it.
ChangeFileClears ==
  /\ osd = "change"
  /\ osd' = "startEnc"
  /\ file' = file + 1
  /\ written' = -1
  /\ CreateDirectory
  /\ event' = event \ {"rotate"}
  /\ UNCHANGED <<mainVars, workFlag, sourceOn, frameVars, recording, encOn,
                 disc, now>>

\* createDirectory, whose result is ignored, and changeFileName.
ChangeFile ==
  /\ osd = "change"
  /\ osd' = "startEnc"
  /\ file' = file + 1
  /\ written' = -1
  /\ CreateDirectory
  /\ UNCHANGED <<mainVars, eventVars, sourceOn, frameVars, recording, encOn,
                 disc, now>>

StartEncoder ==
  /\ osd = "startEnc"
  /\ osd' = IF SystemFreeSize > 0 THEN "statvfs" ELSE "refresh"
  /\ encOn' = TRUE
  /\ UNCHANGED <<mainVars, eventVars, sourceOn, frameVars, recording, file,
                 written, disc, dirOk, now>>

\* A variant with >= in place of >.
TestFreeSizeEqual ==
  /\ osd = "statvfs"
  /\ osd' = IF SystemFreeSize >= SystemFree THEN "remove" ELSE "refresh"
  /\ UNCHANGED <<mainVars, eventVars, sourceOn, frameVars, fileVars, now>>

TestFreeSize ==
  /\ osd = "statvfs"
  /\ osd' = IF SystemFreeSize > SystemFree THEN "remove" ELSE "refresh"
  /\ UNCHANGED <<mainVars, eventVars, sourceOn, frameVars, fileVars, now>>

\* removeDirectoryOldestFile: of two files with the same second it takes the
\* one fts_read comes to first.
RemoveOldest ==
  /\ osd = "remove"
  /\ osd' = "statvfs"
  /\ \E f \in disc : Oldest(f) /\ disc' = disc \ {f}
  /\ UNCHANGED <<mainVars, eventVars, sourceOn, frameVars, recording, encOn,
                 file, written, dirOk, now>>

\* A variant without the break.
RemoveAgain ==
  /\ osd = "remove"
  /\ osd' = "statvfs"
  /\ UNCHANGED <<mainVars, eventVars, sourceOn, frameVars, fileVars, now>>

\* There is no file, or remove() fails.
RemoveNothing ==
  /\ osd = "remove"
  /\ osd' = "refresh"
  /\ UNCHANGED <<mainVars, eventVars, sourceOn, frameVars, fileVars, now>>

\* handletEtcText and the broadcast message.
Refresh ==
  /\ osd = "refresh"
  /\ osd' = "loop"
  /\ UNCHANGED <<mainVars, eventVars, sourceOn, frameVars, fileVars, now>>

-----------------------------------------------------------------------------
(***************************************************************************)
(* The file writer puts a packet of the encoder into the current file; the *)
(* first packet creates the file.  Writing to a removed file shows nowhere.*)
(* The clock of the file system moves on.                                  *)
(***************************************************************************)
Write ==
  /\ sourceOn /\ encOn /\ ~Unlinked
  /\ written # -1 \/ (dirOk /\ Free > 0)
  /\ written' = now
  /\ disc' = {f \in disc : f.id # file}
               \union {[id |-> file, mtime |-> now]}
  /\ UNCHANGED <<mainVars, eventVars, osd, sourceOn, frameVars, recording,
                 encOn, file, dirOk, now>>

Tick ==
  /\ now < MaxNow
  /\ now' = now + 1
  /\ UNCHANGED <<mainVars, eventVars, osd, sourceOn, frameVars, fileVars>>

-----------------------------------------------------------------------------
Main ==
  \/ InitFails \/ InitSucceeds \/ StartSource \/ StartThread \/ MaskSignals
  \/ ClearWorkFlag \/ PostStop \/ JoinThread \/ StopSource \/ Delete

OsdThread ==
  \/ TestWorkFlag \/ LockEvent \/ WaitEvent \/ WaitTimesOut \/ WakeUp
  \/ StopEncoder \/ ChangeFile \/ StartEncoder
  \/ TestFreeSize \/ RemoveOldest \/ RemoveNothing \/ Refresh

Terminated == ~Alive /\ UNCHANGED vars

Next ==
  \/ Alive /\ (Main \/ OsdThread \/ Frame \/ Write \/ Tick \/ SignalDelivered)
  \/ Terminated

Spec == Init /\ [][Next]_vars

(***************************************************************************)
(* The scheduler runs main and the osd thread; wait_for and the calls to   *)
(* the media library return.  Frames, writes and signals need not come.    *)
(***************************************************************************)
FairSpec ==
  /\ Spec
  /\ WF_vars(Alive /\ Main)
  /\ WF_vars(Alive /\ OsdThread)

-----------------------------------------------------------------------------
MainPcs == {"init", "source", "thread", "mask", "sigwait", "clear", "event",
            "join", "stopSource", "delete", "exited", "killed"}
OsdPcs  == {"none", "loop", "lock", "waiting", "woken", "stopEnc", "change",
            "startEnc", "statvfs", "remove", "refresh", "done", "joined"}

(***************************************************************************)
(* The values each variable can take.                                      *)
(***************************************************************************)
TypeOK ==
  /\ mainPc \in MainPcs
  /\ masked \in BOOLEAN
  /\ signals \in 0..MaxSignals
  /\ workFlag \in BOOLEAN
  /\ event \subseteq {"rotate", "stop"}
  /\ osd \in OsdPcs
  /\ sourceOn \in BOOLEAN
  /\ currentPts \in -1..MaxPts
  /\ startPts \in -1..MaxPts
  /\ requests \in Nat
  /\ recording \in BOOLEAN
  /\ encOn \in BOOLEAN
  /\ file \in Nat
  /\ written \in -1..MaxNow
  /\ disc \subseteq [id : Nat, mtime : 0..MaxNow]
  /\ dirOk \in BOOLEAN
  /\ now \in 0..MaxNow

(***************************************************************************)
(* No wake-up is lost: the osd thread never sleeps while a bit of event is *)
(* set, so neither a new file nor the stop waits for the 3000 ms to pass.  *)
(***************************************************************************)
NoLostWakeUp == event # {} => osd # "waiting"

(***************************************************************************)
(* The new files begun since the first one, and those asked for that have  *)
(* not been begun.                                                         *)
(***************************************************************************)
Rotations == IF recording THEN file - OldFiles - 1 ELSE 0

Owed ==
  IF recording
  THEN (IF "rotate" \in event THEN 1 ELSE 0)
         + (IF osd \in {"stopEnc", "change"} THEN 1 ELSE 0)
  ELSE 0

(***************************************************************************)
(* The files are changed as often as the callback has asked for, at most:  *)
(* a spurious wake-up, a timeout or the stop begins no file.               *)
(***************************************************************************)
RotationsRequested == Rotations + Owed <= requests

(***************************************************************************)
(* The source is stopped, and the object destroyed, only when the osd      *)
(* thread has ended outside a rotation: it cannot start the encoder again  *)
(* after the shutdown, and the callback never meets a destroyed object.    *)
(***************************************************************************)
TeardownInOrder ==
  /\ mainPc \in {"stopSource", "delete"} => osd = "joined"
  /\ mainPc = "stopSource" => encOn = recording
  /\ mainPc = "delete" => ~sourceOn /\ ~encOn
  /\ mainPc = "exited" => osd \in {"none", "joined"} /\ ~sourceOn /\ ~encOn

(***************************************************************************)
(* The file being recorded is the last the recycling gives up: it is gone  *)
(* only if every file still there was written to in the same second.       *)
(***************************************************************************)
RecordingRemovedLast ==
  Unlinked => \A f \in disc : f.mtime >= written

(***************************************************************************)
(* A new file that was asked for is begun unless the program is told to    *)
(* stop: a bit of event is never forgotten.                                *)
(***************************************************************************)
Closing == mainPc \notin {"init", "source", "thread", "mask", "sigwait"}

Rotation == INSTANCE FileRotation WITH
  owed <- Owed, file <- Rotations, closing <- Closing

RotationSpec == Rotation!Spec
RotationServed == Rotation!FairSpec

(***************************************************************************)
(* stop() comes back: main, told to stop, ends, although the osd thread    *)
(* may be about to wait, or deep in a rotation, when the flag is cleared.  *)
(* Holds while no second signal comes.                                     *)
(***************************************************************************)
StopCompletes == (mainPc = "clear") ~> (mainPc = "exited")

(***************************************************************************)
(* Making room ends: the osd thread gets back to its events, even when all *)
(* recordings together are not enough, and while the encoder fills the     *)
(* disc again.                                                             *)
(***************************************************************************)
RecyclingEnds == (osd = "statvfs") ~> (osd = "refresh" \/ ~Alive)

(***************************************************************************)
(* Where the directory of the new file could be made, a recording is       *)
(* removed only while less than systemFreeSize is free, though the writer  *)
(* takes room between the test and the removal.                            *)
(***************************************************************************)
Removed(f) == f \in disc /\ \A g \in disc' : g.id # f.id

RemovedForRoom ==
  [][\A f \in disc : Removed(f) /\ dirOk => Free < SystemFreeSize]_vars

(***************************************************************************)
(* Claimed by the comment at osd.cpp:1029: the oldest file is removed when *)
(* the free space is not enough.                                           *)
(***************************************************************************)
RemoveOnlyWhenLow ==
  [][\A f \in disc : Removed(f) => Free < SystemFreeSize]_vars
=============================================================================
