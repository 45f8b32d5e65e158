------------------------------- MODULE RknnSync -------------------------------
(***************************************************************************)
(* The frame synchronisation of rknn/src/demo_rknn1.cpp: the inference     *)
(* module and the rga module receive the same decoded frames, each in a    *)
(* thread of its own.  callback_inf publishes the time stamp of the frame  *)
(* whose result is in output_mems and waits for the rga side; callback_rga *)
(* waits for the result of its frame, reads output_mems and lets the       *)
(* inference go on.                                                        *)
(*                                                                         *)
(* mtx is held for longer than a step only while the rga side reads the    *)
(* result.  Either module may skip frames; that, and running the model,    *)
(* belong to the media library.                                            *)
(***************************************************************************)
EXTENDS PostProcess

CONSTANTS
  MaxFrame,       (* bound: the last frame of the stream                    *)
  Classes,        (* OBJ_CLASS_NUM                                          *)
  PicturesOf(_)   (* what output_mems may hold of a frame: the cells of its *)
                  (* picture, or anything where it is incomplete (-1)       *)

ASSUME StreamAssumption == MaxFrame \in Nat

\* Boxes have no negative size: it is a square times an anchor.
CellSet ==
  [box : Int \X Int \X Nat \X Nat, confidence : Int,
   probs : [1..Classes -> Int]]

ASSUME PictureAssumption ==
  /\ Classes \in Nat \ {0}
  /\ \A f \in -1..MaxFrame : PicturesOf(f) \subseteq Seq(CellSet)

VARIABLES
  pts,        (* ctx->pts                                                   *)
  memFrame,   (* the frame whose result is in output_mems, -1: incomplete   *)
  inf,        (* where the inference thread is                              *)
  infFrame,   (* the frame it took last                                     *)
  rga,        (* where the rga thread is                                    *)
  rgaFrame,   (* the frame it took last                                     *)
  timedOut    (* history: a wait of the inference has ended by itself       *)

infVars == <<memFrame, inf, infFrame>>
rgaVars == <<rga, rgaFrame>>
vars == <<pts, infVars, rgaVars, timedOut>>

Locked == rga = "process"

Init ==
  /\ pts = -1
  /\ memFrame = -1
  /\ inf = "idle"
  /\ infFrame = -1
  /\ rga = "idle"
  /\ rgaFrame = -1
  /\ timedOut = FALSE

-----------------------------------------------------------------------------
(***************************************************************************)
(* The inference thread.                                                   *)
(***************************************************************************)
\* The model runs on a later frame and overwrites output_mems.
InfTake ==
  /\ inf = "idle"
  /\ \E f \in (infFrame + 1)..MaxFrame : infFrame' = f
  /\ inf' = "run"
  /\ memFrame' = -1
  /\ UNCHANGED <<pts, rgaVars, timedOut>>

InfRun ==
  /\ inf = "run"
  /\ inf' = "callback"
  /\ memFrame' = infFrame
  /\ UNCHANGED <<pts, infFrame, rgaVars, timedOut>>

\* A variant that publishes the result under the next frame.
InfPublishNext ==
  /\ inf = "callback" /\ ~Locked
  /\ inf' = "waiting"
  /\ pts' = infFrame + 1
  /\ rga' = IF rga = "waiting" THEN "enter" ELSE rga
  /\ UNCHANGED <<memFrame, infFrame, rgaFrame, timedOut>>

\* callback_inf up to the wait, which gives mtx up.
InfPublish ==
  /\ inf = "callback" /\ ~Locked
  /\ inf' = "waiting"
  /\ pts' = infFrame
  /\ rga' = IF rga = "waiting" THEN "enter" ELSE rga
  /\ UNCHANGED <<memFrame, infFrame, rgaFrame, timedOut>>

\* The wait of callback_inf ends after 3000 ms, or for no reason.
InfTimesOut ==
  /\ inf = "waiting"
  /\ inf' = "woken"
  /\ timedOut' = TRUE
  /\ UNCHANGED <<pts, memFrame, infFrame, rgaVars>>

\* wait_for takes mtx again and, whatever woke it, callback_inf returns.
InfReturn ==
  /\ inf = "woken" /\ ~Locked
  /\ inf' = "idle"
  /\ UNCHANGED <<pts, memFrame, infFrame, rgaVars, timedOut>>

-----------------------------------------------------------------------------
(***************************************************************************)
(* The rga thread.                                                         *)
(***************************************************************************)
NotifyInf == inf' = IF inf = "waiting" THEN "woken" ELSE inf

RgaTake ==
  /\ rga = "idle"
  /\ \E f \in (rgaFrame + 1)..MaxFrame : rgaFrame' = f
  /\ rga' = "enter"
  /\ UNCHANGED <<pts, infVars, timedOut>>

\* The loop of callback_rga: the result is of this frame; ...
RgaProcess ==
  /\ rga = "enter"
  /\ rgaFrame = pts
  /\ rga' = "process"
  /\ UNCHANGED <<pts, infVars, rgaFrame, timedOut>>

\* A variant that waits without waking the inference.
RgaWaitSilent ==
  /\ rga = "enter"
  /\ rgaFrame > pts
  /\ rga' = "waiting"
  /\ UNCHANGED <<pts, infVars, rgaFrame, timedOut>>

\* ... or of an earlier one, and a newer one is awaited; ...
RgaWait ==
  /\ rga = "enter"
  /\ rgaFrame > pts
  /\ rga' = "waiting"
  /\ NotifyInf
  /\ UNCHANGED <<pts, memFrame, infFrame, rgaFrame, timedOut>>

\* A variant that sends the inference on without using its result.
RgaSkipNotifies ==
  /\ rga = "enter"
  /\ rgaFrame < pts
  /\ rga' = "idle"
  /\ NotifyInf
  /\ UNCHANGED <<pts, memFrame, infFrame, rgaFrame, timedOut>>

\* ... or of a later one, and this frame gets none.
RgaSkip ==
  /\ rga = "enter"
  /\ rgaFrame < pts
  /\ rga' = "idle"
  /\ UNCHANGED <<pts, infVars, rgaFrame, timedOut>>

\* The wait ends by itself: for no reason, or after 3000 ms.
RgaWakesUp ==
  /\ rga = "waiting"
  /\ rga' \in {"enter", "idle"}
  /\ UNCHANGED <<pts, infVars, rgaFrame, timedOut>>

\* post_process has read the result.
RgaNotify ==
  /\ rga = "process"
  /\ rga' = "draw"
  /\ NotifyInf
  /\ UNCHANGED <<pts, memFrame, infFrame, rgaFrame, timedOut>>

\* Drawing and showing the frame, without mtx.
RgaDraw ==
  /\ rga = "draw"
  /\ rga' = "idle"
  /\ UNCHANGED <<pts, infVars, rgaFrame, timedOut>>

-----------------------------------------------------------------------------
Inference == InfTake \/ InfRun \/ InfPublish \/ InfTimesOut \/ InfReturn

Rga ==
  \/ RgaTake \/ RgaProcess \/ RgaWait \/ RgaSkip \/ RgaWakesUp \/ RgaNotify
  \/ RgaDraw

Next == Inference \/ Rga

Spec == Init /\ [][Next]_vars

\* The scheduler runs the rga thread as long as there are frames.
FairSpec == Spec /\ WF_vars(Rga)

-----------------------------------------------------------------------------
(***************************************************************************)
(* The values each variable can take.                                      *)
(***************************************************************************)
Frames == -1..MaxFrame

TypeOK ==
  /\ pts \in Frames
  /\ memFrame \in Frames
  /\ inf \in {"idle", "run", "callback", "waiting", "woken"}
  /\ infFrame \in Frames
  /\ rga \in {"idle", "enter", "process", "waiting", "draw"}
  /\ rgaFrame \in Frames
  /\ timedOut \in BOOLEAN

(***************************************************************************)
(* The two threads never wait for each other: whoever goes to sleep has    *)
(* woken the other.  So no frame costs a timeout on both sides.            *)
(***************************************************************************)
NoMutualWait == ~(inf = "waiting" /\ rga = "waiting")

(***************************************************************************)
(* As long as each wait of the inference is ended by the rga side, what    *)
(* callback_rga reads is the complete result of the frame it draws on,     *)
(* whichever frames the two sides skip.                                    *)
(***************************************************************************)
SameFrameInTime == ~timedOut /\ rga = "process" => memFrame = rgaFrame

(***************************************************************************)
(* Under the same condition a published result is overwritten only when    *)
(* the rga side has read it or is past its frame.                          *)
(***************************************************************************)
ResultKept ==
  [][~timedOut /\ memFrame' # memFrame /\ memFrame # -1 /\ pts = memFrame
       => rgaFrame >= pts /\ rga # "process"]_vars

(***************************************************************************)
(* Whatever callback_rga finds in output_mems, the detections it gets to   *)
(* draw are sound (demo_rknn1.cpp:50-59; see ResultsSound).                *)
(***************************************************************************)
DetectionsSound ==
  rga = "process" =>
    \A cells \in PicturesOf(memFrame) : ResultsSound(cells, Classes)

(***************************************************************************)
(* Claimed by the comment at demo_rknn1.cpp:39, "Make sure to process the  *)
(* same frame of image": what callback_rga reads is the result of its      *)
(* frame.                                                                  *)
(***************************************************************************)
SameFrame == rga = "process" => memFrame = rgaFrame

(***************************************************************************)
(* As long as frames come, the inference is sent on by the rga side and    *)
(* need not wait for its timeout.                                          *)
(***************************************************************************)
InferenceSentOn ==
  (inf = "waiting") ~> (inf # "waiting" \/ rgaFrame = MaxFrame)
=============================================================================
