----------------------------- MODULE FileRotation -----------------------------
(***************************************************************************)
(* What the recorder promises about its output files, whatever threads it  *)
(* is made of: an accepted request leads to exactly one new file, no file  *)
(* is begun without a request, and requests may be given up only when the  *)
(* recorder shuts down.  A request that comes while an earlier one waits   *)
(* to be taken up merges with it, so at most two are ever owed: the one    *)
(* being carried out and the next.                                         *)
(***************************************************************************)
EXTENDS Integers

VARIABLES
  owed,       (* accepted requests whose file has not been begun            *)
  file,       (* the number of the file being recorded                      *)
  closing     (* the recorder is shutting down                              *)

vars == <<owed, file, closing>>

Init ==
  /\ owed = 0
  /\ file \in Nat
  /\ closing = FALSE

Request ==
  /\ owed < 2
  /\ owed' = owed + 1
  /\ UNCHANGED <<file, closing>>

Rotate ==
  /\ owed > 0
  /\ owed' = owed - 1
  /\ file' = file + 1
  /\ UNCHANGED closing

Close ==
  /\ closing' = TRUE
  /\ UNCHANGED <<owed, file>>

Next == Request \/ Rotate \/ Close

Spec == Init /\ [][Next]_vars

(***************************************************************************)
(* A request is not forgotten: unless the recorder shuts down, its file is *)
(* begun.                                                                  *)
(***************************************************************************)
FairSpec == Spec /\ WF_vars(~closing /\ Rotate)
=============================================================================
