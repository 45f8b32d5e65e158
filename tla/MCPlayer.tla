------------------------------ MODULE MCPlayer ------------------------------
(***************************************************************************)
(* Instances of Player for TLC: grids of up to ten windows, every          *)
(* rotation with the sizes around a multiple of eight, every other option, *)
(* and command lines that are refused.                                     *)
(***************************************************************************)
EXTENDS Player

O(opt, arg) == [opt |-> opt, arg |-> arg]

Grids == {<<O("c", n), O("d", 0)>> : n \in 0..7 \cup {10}}

Conversions ==
  {<<O("o", s), O("b", f), O("r", r)>> :
     s \in {<<5, 16>>, <<8, 8>>, <<9, 0>>}, f \in {"NV12", "RGB565"},
     r \in Rotations}

Ends ==
  {<<O("x", 0), O("e", "h265"), O("m", 0), O("A", 0), O("s", 1)>>,
   <<O("p", 0), O("t", 1), O("R", 0), O("l", 0)>>, <<O("p", 0), O("d", 1)>>,
   <<O("i", <<4, 4>>), O("f", 0), O("c", 2)>>}

Refused == {<<O("o", << >>)>>, <<O("b", "odd")>>, <<O("e", "vp8")>>,
            <<O("d", 0), O("r", 45)>>, <<O("?", 0)>>}

MCCommandLines == Grids \cup Conversions \cup Ends \cup Refused

Para(w, h, hs, vs, fmt) == [w |-> w, h |-> h, hs |-> hs, vs |-> vs, fmt |-> fmt]

Input(url, type, container, para) ==
  [url |-> url, type |-> type, container |-> container, para |-> para]

Cameras ==
  {Input("path", "char", FALSE, Para(4, 2, 6, 4, f)) : f \in Formats} \cup
  {Input("path", "char", FALSE, Para(4, 4, 6, 4, "YUV420")),
   Input("path", "char", FALSE, Para(8, 8, 8, 8, "MJPEG"))}

Streams ==
  {Input("rtsp", "none", FALSE, Para(8, 8, 8, 8, "H264")),
   Input("rtmp", "none", FALSE, Para(9, 3, 9, 3, "HEVC")),
   Input("path", "regular", TRUE, Para(2, 2, 2, 2, "H264"))}

Unusable ==
  {Input("path", t, FALSE, NoPara) : t \in {"none", "fifo"}}

MCInputs == Cameras \cup Streams \cup Unusable

MCPlaneSizes == {<<19, 7>>, <<6, 30>>}
=============================================================================
