---------------------------- MODULE MCOsdRecorder ----------------------------
(* Small instances of OsdRecorder for TLC. *)
EXTENDS OsdRecorder

OneSecond == 1000000
=============================================================================
