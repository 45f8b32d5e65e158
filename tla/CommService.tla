----------------------------- MODULE CommService -----------------------------
(***************************************************************************)
(* The communication service, demo/demo_comm.cpp with demo/netHandler.cpp  *)
(* and demo/ttyHandler.cpp: main starts a serial handler and a network     *)
(* handler, waits for SIGINT or SIGTERM, stops and deletes both.  Each     *)
(* handler runs a worker thread; the network worker owns a third thread,   *)
(* the heartbeat.  The serial worker pushes device packets on the global   *)
(* messageQueue.                                                           *)
(*                                                                         *)
(* Steps are the points where a thread reads or writes something another   *)
(* thread can see: workFlag, heartbeatThreadRunning, the queue, a handler  *)
(* object, a signal mask.  Frames arrive already delimited and checked;    *)
(* what a frame does to the system clock is left out.                      *)
(***************************************************************************)
EXTENDS Integers, Sequences

CONSTANTS
  MaxPackets,   (* how many GPS and how many device frames may arrive       *)
  MaxSignals,   (* how many SIGINT or SIGTERM may be sent to the process    *)
  MaxLines,     (* dataFileMaxLines, the same for both handlers             *)
  SaveTo,       (* the handlers whose configuration names a dataFile        *)
  Names,        (* the file names ptsToTimeStr can give                     *)
  NoFile,       (* dataOutputTmpFile before the first line                  *)
  MaxRotations  (* bound: frames are read for a new file so often           *)

Handlers == {"tty", "net"}

ASSUME BoundsAssumption ==
  /\ MaxPackets \in Nat
  /\ MaxSignals \in Nat
  /\ MaxLines \in Nat
  /\ SaveTo \subseteq Handlers
  /\ NoFile \notin Names
  /\ MaxRotations \in Nat

VARIABLES
  mainPc,         (* where main() is                                        *)
  masked,         (* main has called sigprocmask                            *)
  signals,        (* signals sent so far                                    *)
  handler,        (* the object behind the pointers net and tty             *)
  workFlag,       (* NetHandler::workFlag of each handler                   *)
  worker,         (* where the worker thread of each handler is             *)
  frame,          (* the frame each worker is handling                      *)
  hb,             (* where the heartbeat thread is                          *)
  hbRunning,      (* heartbeatThreadRunning                                 *)
  messageQueue,   (* device packets, numbered in the order of arrival       *)
  gpsPackets, devicePackets,
  curLines,       (* dataOutputCurLines of each handler                     *)
  file,           (* dataOutputTmpFile of each handler                      *)
  rotations,      (* how often a handler has taken a name                   *)
  begun,          (* how often each name was taken, by either handler       *)
  fileLines,      (* the lines the handlers have put in the file of a name  *)
  osdService,     (* the state of ffmedia-capture.service                   *)
  poweroff        (* poweroff has been run                                  *)

mainVars    == <<mainPc, masked, signals, handler>>
workVars    == <<workFlag, worker, frame>>
hbVars      == <<hb, hbRunning>>
packetVars  == <<messageQueue, gpsPackets, devicePackets>>
nameVars    == <<file, rotations, begun, fileLines>>
fileVars    == <<curLines, nameVars>>
commandVars == <<osdService, poweroff>>

vars == <<mainVars, workVars, hbVars, packetVars, fileVars, commandVars>>

TtyFrames == {"gps", "device", "unknown"}
NetFrames == {"shutdown", "osdStop", "osdStart", "osdRestart", "ip"}

Frames == [tty |-> TtyFrames, net |-> NetFrames]

-----------------------------------------------------------------------------
(***************************************************************************)
(* The threads other than main that exist.  They are created before main   *)
(* calls sigprocmask, so they never block SIGINT or SIGTERM.               *)
(***************************************************************************)
Running(h) == worker[h] \notin {"none", "done", "joined"}
HbLive     == hb \in {"loop", "tick"}
OtherThreads == HbLive \/ \E h \in Handlers : Running(h)

Alive == mainPc \notin {"exited", "killed"}

Init ==
  /\ mainPc = "tty"
  /\ masked = FALSE
  /\ signals = 0
  /\ handler  = [h \in Handlers |-> "null"]
  /\ workFlag = [h \in Handlers |-> FALSE]
  /\ worker   = [h \in Handlers |-> "none"]
  /\ frame    = [h \in Handlers |-> "none"]
  /\ hb = "none"
  /\ hbRunning \in BOOLEAN          \* the constructor does not set it
  /\ messageQueue = <<>>
  /\ gpsPackets = 0
  /\ devicePackets = 0
  /\ curLines  = [h \in Handlers |-> 0]
  /\ file      = [h \in Handlers |-> NoFile]
  /\ rotations = 0
  /\ begun     = [n \in Names |-> 0]
  /\ fileLines = [n \in Names |-> 0]
  /\ osdService = "active"
  /\ poweroff = FALSE

-----------------------------------------------------------------------------
(***************************************************************************)
(* main, the start: tty first, then net.                                   *)
(***************************************************************************)
AfterStart == [tty |-> "net", net |-> "check"]

\* The section is disabled or incomplete, or init() failed and the object
\* was deleted: in both cases the pointer stays null.
SkipHandler(h) ==
  /\ mainPc = h
  /\ mainPc' = AfterStart[h]
  /\ UNCHANGED <<masked, signals, handler, workVars, hbVars, packetVars,
                 fileVars, commandVars>>

\* new, the setters (setDataOutputFile makes the first line open a file),
\* init() and start().
StartHandler(h) ==
  /\ mainPc = h
  /\ mainPc' = AfterStart[h]
  /\ handler' = [handler EXCEPT ![h] = "alive"]
  /\ curLines' = [curLines EXCEPT ![h] = MaxLines]
  /\ workFlag' = [workFlag EXCEPT ![h] = TRUE]
  /\ worker' = [worker EXCEPT ![h] = "enter"]
  /\ UNCHANGED <<masked, signals, frame, hbVars, packetVars, nameVars,
                 commandVars>>

\* Without a handler main returns -1.
\* A variant with || in place of &&.
CheckHandlersAny ==
  /\ mainPc = "check"
  /\ mainPc' = IF \E h \in Handlers : handler[h] = "null"
               THEN "exited" ELSE "mask"
  /\ UNCHANGED <<masked, signals, handler, workVars, hbVars, packetVars,
                 fileVars, commandVars>>

CheckHandlers ==
  /\ mainPc = "check"
  /\ mainPc' = IF \A h \in Handlers : handler[h] = "null"
               THEN "exited" ELSE "mask"
  /\ UNCHANGED <<masked, signals, handler, workVars, hbVars, packetVars,
                 fileVars, commandVars>>

\* sigprocmask(SIG_SETMASK): the mask of the calling thread only.
MaskSignals ==
  /\ mainPc = "mask"
  /\ mainPc' = "sigwait"
  /\ masked' = TRUE
  /\ UNCHANGED <<signals, handler, workVars, hbVars, packetVars, fileVars,
                 commandVars>>

-----------------------------------------------------------------------------
(***************************************************************************)
(* A SIGINT or SIGTERM for the process.  Linux hands it to main when main  *)
(* sits in sigwait; to any thread that does not block it otherwise, and    *)
(* there its default action ends the process; with no such thread left it  *)
(* stays pending.                                                          *)
(***************************************************************************)
SignalDelivered ==
  /\ signals < MaxSignals
  /\ signals' = signals + 1
  /\ mainPc' = IF mainPc = "sigwait" THEN "stopNet"
               ELSE IF ~masked \/ OtherThreads THEN "killed"
               ELSE mainPc
  /\ UNCHANGED <<masked, handler, workVars, hbVars, packetVars, fileVars,
                 commandVars>>

(***************************************************************************)
(* main, the end: net first, then tty.                                     *)
(***************************************************************************)
StopPc   == [net |-> "stopNet",   tty |-> "stopTty"]
JoinPc   == [net |-> "joinNet",   tty |-> "joinTty"]
DeletePc == [net |-> "deleteNet", tty |-> "deleteTty"]
DonePc   == [net |-> "stopTty",   tty |-> "exited"]

\* A variant of stop() that leaves workFlag set.
StopHandlerKeepsFlag(h) ==
  /\ mainPc = StopPc[h]
  /\ mainPc' = IF handler[h] = "null" THEN DonePc[h] ELSE JoinPc[h]
  /\ UNCHANGED <<masked, signals, handler, workVars, hbVars, packetVars,
                 fileVars, commandVars>>

\* NetHandler::stop() up to the join.
StopHandler(h) ==
  /\ mainPc = StopPc[h]
  /\ IF handler[h] = "null"
     THEN /\ mainPc' = DonePc[h]
          /\ UNCHANGED workFlag
     ELSE /\ mainPc' = JoinPc[h]
          /\ workFlag' = [workFlag EXCEPT ![h] = FALSE]
  /\ UNCHANGED <<masked, signals, handler, worker, frame, hbVars, packetVars,
                 fileVars, commandVars>>

\* A variant of stop() that does not wait for the thread.
JoinWorkerNoWait(h) ==
  /\ mainPc = JoinPc[h]
  /\ mainPc' = DeletePc[h]
  /\ UNCHANGED <<masked, signals, handler, workVars, hbVars, packetVars,
                 fileVars, commandVars>>

JoinWorker(h) ==
  /\ mainPc = JoinPc[h]
  /\ worker[h] = "done"
  /\ worker' = [worker EXCEPT ![h] = "joined"]
  /\ mainPc' = DeletePc[h]
  /\ UNCHANGED <<masked, signals, handler, workFlag, frame, hbVars,
                 packetVars, fileVars, commandVars>>

\* The destructor: stop() again finds no thread; packet and fd are released.
DeleteHandler(h) ==
  /\ mainPc = DeletePc[h]
  /\ handler' = [handler EXCEPT ![h] = "deleted"]
  /\ workFlag' = [workFlag EXCEPT ![h] = FALSE]
  /\ mainPc' = DonePc[h]
  /\ UNCHANGED <<masked, signals, worker, frame, hbVars, packetVars,
                 fileVars, commandVars>>

-----------------------------------------------------------------------------
(***************************************************************************)
(* What both workers do.                                                   *)
(***************************************************************************)
Goto(h, from, to) ==
  /\ worker[h] = from
  /\ worker' = [worker EXCEPT ![h] = to]

\* The test of while (workFlag).
TestWorkFlag(h) ==
  /\ Goto(h, "loop", IF workFlag[h] THEN "read"
                     ELSE IF h = "net" THEN "stopHb" ELSE "done")
  /\ UNCHANGED <<mainVars, workFlag, frame, hbVars, packetVars, fileVars,
                 commandVars>>

\* readn or readSocket timed out, or what was read is no frame: continue.
ReadNothing(h) ==
  /\ Goto(h, "read", "loop")
  /\ UNCHANGED <<mainVars, workFlag, frame, hbVars, packetVars, fileVars,
                 commandVars>>

\* The serial worker dispatches and then saves, the network worker saves
\* and then dispatches.
ReadFrame(h, f) ==
  /\ Goto(h, "read", IF h = "tty" THEN "dispatch" ELSE "save")
  /\ (f = "gps") => (gpsPackets < MaxPackets)
  /\ (f = "device") => (devicePackets < MaxPackets)
  /\ h \in SaveTo => rotations < MaxRotations \/ curLines[h] < MaxLines
  /\ frame' = [frame EXCEPT ![h] = f]
  /\ UNCHANGED <<mainVars, workFlag, hbVars, packetVars, fileVars,
                 commandVars>>

\* dataOutputTmpFile becomes pattern_milliseconds.txt.  The name need not be
\* new: two rotations may fall in one millisecond, the clock may have been set
\* back, and the pattern may leave out the day or be the other handler's.
TakeName(h) ==
  /\ rotations' = rotations + 1
  /\ \E n \in Names : /\ file' = [file EXCEPT ![h] = n]
                     /\ begun' = [begun EXCEPT ![n] = @ + 1]

\* writeStringToFile appends the frame to the file of the name.  The file may
\* fail to open, which is noticed, and the write may fail, which is not.
AppendLine(h, lines) ==
  \E opened \in {0, 1} : \E written \in 0..opened :
    /\ curLines' = [curLines EXCEPT ![h] = lines + opened]
    /\ fileLines' = [fileLines EXCEPT ![file'[h]] = @ + written]

\* A variant that takes a new name one line late.
SaveFrameLate(h) ==
  /\ Goto(h, "save", IF h = "tty" THEN "loop" ELSE "dispatch")
  /\ \/ h \notin SaveTo /\ UNCHANGED fileVars
     \/ /\ h \in SaveTo /\ file[h] # NoFile /\ curLines[h] <= MaxLines
        /\ UNCHANGED <<file, rotations, begun>>
        /\ AppendLine(h, curLines[h])
     \/ /\ h \in SaveTo /\ (file[h] = NoFile \/ curLines[h] > MaxLines)
        /\ TakeName(h)
        /\ AppendLine(h, 0)
  /\ frame' = IF h = "tty" THEN [frame EXCEPT ![h] = "none"] ELSE frame
  /\ UNCHANGED <<mainVars, workFlag, hbVars, packetVars, commandVars>>

\* Save the frame; a handler that has counted dataFileMaxLines takes another
\* name first.
SaveFrame(h) ==
  /\ Goto(h, "save", IF h = "tty" THEN "loop" ELSE "dispatch")
  /\ \/ h \notin SaveTo /\ UNCHANGED fileVars
     \/ /\ h \in SaveTo /\ curLines[h] < MaxLines
        /\ UNCHANGED <<file, rotations, begun>>
        /\ AppendLine(h, curLines[h])
     \/ /\ h \in SaveTo /\ curLines[h] >= MaxLines
        /\ TakeName(h)
        /\ AppendLine(h, 0)
  /\ frame' = IF h = "tty" THEN [frame EXCEPT ![h] = "none"] ELSE frame
  /\ UNCHANGED <<mainVars, workFlag, hbVars, packetVars, commandVars>>

-----------------------------------------------------------------------------
(***************************************************************************)
(* The serial worker, TtyHandler::process().                               *)
(***************************************************************************)
TtyEnter ==
  /\ Goto("tty", "enter", "loop")
  /\ UNCHANGED <<mainVars, workFlag, frame, hbVars, packetVars, fileVars,
                 commandVars>>

\* A GPS frame is counted whatever processGpsInfo returns.
TtyGps ==
  /\ frame["tty"] = "gps"
  /\ Goto("tty", "dispatch", "respond")
  /\ gpsPackets' = gpsPackets + 1
  /\ UNCHANGED <<mainVars, workFlag, frame, hbVars, messageQueue,
                 devicePackets, fileVars, commandVars>>

\* processDeviceInfo: MessageQueue::push.
TtyDevicePush ==
  /\ frame["tty"] = "device"
  /\ Goto("tty", "dispatch", "count")
  /\ messageQueue' = Append(messageQueue, devicePackets + 1)
  /\ UNCHANGED <<mainVars, workFlag, frame, hbVars, gpsPackets,
                 devicePackets, fileVars, commandVars>>

TtyDeviceCount ==
  /\ Goto("tty", "count", "respond")
  /\ devicePackets' = devicePackets + 1
  /\ UNCHANGED <<mainVars, workFlag, frame, hbVars, messageQueue,
                 gpsPackets, fileVars, commandVars>>

TtyUnknown ==
  /\ frame["tty"] = "unknown"
  /\ Goto("tty", "dispatch", "respond")
  /\ UNCHANGED <<mainVars, workFlag, frame, hbVars, packetVars, fileVars,
                 commandVars>>

\* respondHeartbeatMsg tells the STM32 the two counters; whether the write
\* to the port succeeds is not looked at.
TtyRespond ==
  /\ Goto("tty", "respond", "save")
  /\ UNCHANGED <<mainVars, workFlag, frame, hbVars, packetVars, fileVars,
                 commandVars>>

-----------------------------------------------------------------------------
(***************************************************************************)
(* The network worker, NetHandler::process().                              *)
(***************************************************************************)
StartHeartbeatThread ==
  /\ Goto("net", "enter", "loop")
  /\ hbRunning' = TRUE
  /\ hb' = "loop"
  /\ UNCHANGED <<mainVars, workFlag, frame, packetVars, fileVars,
                 commandVars>>

\* processDeviceInfo, processOsdInfo and processIPInfo run a command, which
\* may fail.  Restarting leaves the service active.
NetDispatch ==
  /\ Goto("net", "dispatch", "loop")
  /\ \/ /\ frame["net"] = "shutdown"
        /\ poweroff' = TRUE
        /\ UNCHANGED osdService
     \/ /\ frame["net"] = "osdStop"
        /\ osdService' = "inactive"
        /\ UNCHANGED poweroff
     \/ /\ frame["net"] \in {"osdStart", "osdRestart"}
        /\ osdService' = "active"
        /\ UNCHANGED poweroff
     \/ UNCHANGED commandVars
  /\ frame' = [frame EXCEPT !["net"] = "none"]
  /\ UNCHANGED <<mainVars, workFlag, hbVars, packetVars, fileVars>>

\* A variant that joins without clearing the flag.
StopHeartbeatKeepsFlag ==
  /\ Goto("net", "stopHb", "joinHb")
  /\ UNCHANGED <<mainVars, workFlag, frame, hbVars, packetVars, fileVars,
                 commandVars>>

\* stopHeartbeatThread: clear the flag, then join.
StopHeartbeat ==
  /\ Goto("net", "stopHb", "joinHb")
  /\ hbRunning' = FALSE
  /\ UNCHANGED <<mainVars, workFlag, frame, hb, packetVars, fileVars,
                 commandVars>>

JoinHeartbeat ==
  /\ hb = "done"
  /\ Goto("net", "joinHb", "done")
  /\ hb' = "joined"
  /\ UNCHANGED <<mainVars, workFlag, frame, hbRunning, packetVars,
                 fileVars, commandVars>>

-----------------------------------------------------------------------------
(***************************************************************************)
(* The heartbeat thread, heartbeatLoop().                                  *)
(***************************************************************************)
HbTest ==
  /\ hb = "loop"
  /\ hb' = IF hbRunning THEN "tick" ELSE "done"
  /\ UNCHANGED <<mainVars, workVars, hbRunning, packetVars, fileVars,
                 commandVars>>

\* Less than 500 ms since the last tick, or a tick; every other tick sends the
\* RK3588 message through fd, which changes nothing here.
HbTick ==
  /\ hb = "tick"
  /\ hb' = "loop"
  /\ UNCHANGED <<mainVars, workVars, hbRunning, packetVars, fileVars,
                 commandVars>>

-----------------------------------------------------------------------------
Main ==
  \/ \E h \in Handlers : \/ SkipHandler(h)
                         \/ StartHandler(h)
                         \/ StopHandler(h)
                         \/ JoinWorker(h)
                         \/ DeleteHandler(h)
  \/ CheckHandlers
  \/ MaskSignals

Worker(h) ==
  \/ TestWorkFlag(h)
  \/ ReadNothing(h)
  \/ \E f \in Frames[h] : ReadFrame(h, f)
  \/ SaveFrame(h)

TtyWorker ==
  \/ Worker("tty")
  \/ TtyEnter \/ TtyGps \/ TtyDevicePush \/ TtyDeviceCount \/ TtyUnknown
  \/ TtyRespond

NetWorker ==
  \/ Worker("net")
  \/ StartHeartbeatThread \/ NetDispatch \/ StopHeartbeat \/ JoinHeartbeat

Heartbeat == HbTest \/ HbTick

Terminated == ~Alive /\ UNCHANGED vars

Next ==
  \/ Alive /\ (Main \/ SignalDelivered \/ TtyWorker \/ NetWorker \/ Heartbeat)
  \/ Terminated

Spec == Init /\ [][Next]_vars

(***************************************************************************)
(* The scheduler runs every thread that can run; poll() and the commands   *)
(* come back.  Running poweroff makes the system send SIGTERM.  Otherwise  *)
(* neither signals nor frames need to arrive.                              *)
(***************************************************************************)
Fairness ==
  /\ WF_vars(Alive /\ Main)
  /\ WF_vars(Alive /\ TtyWorker)
  /\ WF_vars(Alive /\ NetWorker)
  /\ WF_vars(Alive /\ Heartbeat)
  /\ WF_vars(Alive /\ poweroff /\ mainPc = "sigwait" /\ SignalDelivered)

FairSpec == Spec /\ Fairness

-----------------------------------------------------------------------------
(***************************************************************************)
(* The values each variable can take.                                      *)
(***************************************************************************)
MainPcs == {"tty", "net", "check", "mask", "sigwait", "stopNet", "joinNet",
            "deleteNet", "stopTty", "joinTty", "deleteTty", "exited",
            "killed"}
WorkerPcs == {"none", "enter", "loop", "read", "save", "dispatch", "count",
              "respond", "stopHb", "joinHb", "done", "joined"}

MainType ==
  /\ mainPc \in MainPcs
  /\ masked \in BOOLEAN
  /\ signals \in 0..MaxSignals
  /\ handler \in [Handlers -> {"null", "alive", "deleted"}]

WorkType ==
  /\ workFlag \in [Handlers -> BOOLEAN]
  /\ worker \in [Handlers -> WorkerPcs]
  /\ frame \in [Handlers -> TtyFrames \union NetFrames \union {"none"}]

HbType ==
  /\ hb \in {"none", "loop", "tick", "done", "joined"}
  /\ hbRunning \in BOOLEAN

PacketType ==
  /\ messageQueue \in Seq(Nat)
  /\ gpsPackets \in Nat
  /\ devicePackets \in Nat

\* Unset, dataFileMaxLines is 0, and every line begins a new file.
LineLimit == IF MaxLines = 0 THEN 1 ELSE MaxLines

FileType ==
  /\ curLines \in [Handlers -> 0..LineLimit]
  /\ file \in [Handlers -> Names \union {NoFile}]
  /\ rotations \in Nat
  /\ begun \in [Names -> Nat]
  /\ fileLines \in [Names -> Nat]

CommandType ==
  /\ osdService \in {"active", "inactive"}
  /\ poweroff \in BOOLEAN

TypeOK ==
  MainType /\ WorkType /\ HbType /\ PacketType /\ FileType /\ CommandType

(***************************************************************************)
(* No thread outlives what it uses: a handler is deleted (its packet freed *)
(* and its fd closed) only after its worker was joined, and the network    *)
(* handler only after the heartbeat thread was joined too, which also      *)
(* keeps the destructor of std::thread from finding a joinable thread.     *)
(***************************************************************************)
NoUseAfterDelete ==
  /\ \A h \in Handlers : Running(h) => handler[h] = "alive"
  /\ HbLive => handler["net"] = "alive"
  /\ handler["net"] = "deleted" => hb = "joined"

(***************************************************************************)
(* When main has returned, no thread runs and no handler is left behind.   *)
(***************************************************************************)
CleanExit ==
  mainPc = "exited" =>
    /\ ~OtherThreads
    /\ \A h \in Handlers : handler[h] # "alive" /\ ~workFlag[h]

(***************************************************************************)
(* A file never gets more than dataFileMaxLines lines (one line where that *)
(* is not set) for each time a rotation took its name, whichever handler   *)
(* took it, and however the handlers that share it take turns.             *)
(***************************************************************************)
FilesBounded ==
  \A n \in Names : fileLines[n] <= LineLimit * begun[n]

(***************************************************************************)
(* After net->stop() has returned no command is run: no frame that arrives *)
(* during the shutdown switches the capture service or the power.          *)
(***************************************************************************)
NetStopped ==
  /\ handler["net"] # "null"
  /\ mainPc \in {"deleteNet", "stopTty", "joinTty", "deleteTty", "exited"}

NoCommandAfterStop ==
  [][NetStopped => UNCHANGED commandVars]_vars

(***************************************************************************)
(* Once main has begun to stop the handlers, it ends in main's return: no  *)
(* thread waits for another for ever.  Holds while no further signal comes.*)
(***************************************************************************)
StopCompletes == (mainPc = "stopNet") ~> (mainPc = "exited")

(***************************************************************************)
(* A shutdown command that the network worker carried out ends the program,*)
(* although the worker that ran it is the one main has to join.            *)
(***************************************************************************)
PoweroffEnds == poweroff ~> ~Alive

(***************************************************************************)
(* Claimed by the comment at demo_comm.cpp:340: once sigprocmask has been  *)
(* called the process blocks SIGINT and SIGTERM, so that a signal leads to *)
(* the stop of the handlers.                                               *)
(***************************************************************************)
MaskedSignalsNeverKill == masked => mainPc # "killed"
=============================================================================
