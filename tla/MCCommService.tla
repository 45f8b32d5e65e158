---------------------------- MODULE MCCommService ----------------------------
(* Small instances of CommService for TLC. *)
EXTENDS CommService, TLC

BothSave == {"tty", "net"}

(* The names differ in nothing but identity. *)
NameSymmetry == Permutations(Names)
=============================================================================
