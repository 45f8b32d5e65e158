------------------------------ MODULE MCRknnSync ------------------------------
(***************************************************************************)
(* Small instances of RknnSync for TLC, and the pictures of up to four     *)
(* cells that the operators of PostProcess are checked on: boxes that do,  *)
(* do not and just overlap, in and out of the picture, of two classes.     *)
(***************************************************************************)
EXTENDS RknnSync, SequencesExt

Cell(box, confidence, probs) ==
  [box |-> box, confidence |-> confidence, probs |-> probs]

Cells ==
  {Cell(<<0, 0, 4, 4>>, 4, <<5, 2>>), Cell(<<1, 1, 4, 4>>, 5, <<2, 5>>),
   Cell(<<-2, 0, 4, 4>>, 3, <<4, 4>>), Cell(<<2, 1, 4, 4>>, 4, <<5, 3>>),
   Cell(<<7, 6, 3, 3>>, 3, <<6, 2>>), Cell(<<0, 0, 4, 4>>, 2, <<5, 5>>),
   Cell(<<1, 0, 4, 4>>, 6, <<2, 2>>)}

CellSeq == SetToSeq(Cells)

\* Frame n shows a picture that begins with cell n; what is in output_mems
\* while the model overwrites it need not be of any frame.
MCPicturesOf(n) ==
  IF n = -1 THEN SeqOf(Cells, 2)
  ELSE {<<CellSeq[n + 1]>> \o rest : rest \in SeqOf(Cells, 3)}

\* A wide frame in the upper half of a square input.
MCModelSize == <<8, 8>>
MCCropSize == <<8, 5>>
MCFrameSize == <<12, 7>>
=============================================================================
