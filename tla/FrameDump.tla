------------------------------ MODULE FrameDump ------------------------------
(***************************************************************************)
(* dump_videobuffer_to_file of demo/utils.cpp: the bytes of a frame that   *)
(* are written to the file, as the sequence of their places in the buffer. *)
(* q is the ImagePara of the frame: sizes w and h, strides hs and vs, in   *)
(* pixels, and the format.                                                 *)
(***************************************************************************)
EXTENDS Integers, Sequences, Functions

Bytes == [RGB32 |-> 4, RGB565 |-> 2]    \* of a pixel

\* What v4l2GetFmtByName knows; the last one is not saved.
Formats == {"NV16", "NV21", "NV12", "YUV420", "NV24", "GREY", "YUYV"} \cup
           DOMAIN Bytes

\* n bytes, d apart, of each of the rows, which are `pitch` apart.
Rows(base, pitch, rows, n, d) ==
  [k \in 1..(rows * n) |->
     base + ((k - 1) \div n) * pitch + d * ((k - 1) % n)]

\* A variant: the colours are looked for behind the last row of the picture.
DumpedUnpadded(q) ==
  LET c == q.hs * q.h
      luma == Rows(0, q.hs, q.h, q.w, 1)
  IN  IF q.fmt \in {"NV12", "NV21"}
      THEN luma \o Rows(c, q.hs, q.h \div 2, q.w, 1) ELSE << >>

Dumped(q) ==
  LET c == q.hs * q.vs
      w2 == q.w \div 2
      h2 == q.h \div 2
      luma == Rows(0, q.hs, q.h, q.w, 1)
  IN  CASE q.fmt = "NV16" ->
             luma \o Rows(c, q.hs, q.h, w2, 2) \o Rows(c + 1, q.hs, q.h, w2, 2)
        [] q.fmt \in {"NV21", "NV12"} -> luma \o Rows(c, q.hs, h2, q.w, 1)
        [] q.fmt = "YUV420" ->
             luma \o Rows(c, q.hs \div 2, h2, w2, 1)
               \o Rows(c + h2 * (q.hs \div 2), q.hs \div 2, h2, w2, 1)
        [] q.fmt = "NV24" ->
             luma \o Rows(c, 2 * q.hs, q.h, q.w, 2)
               \o Rows(c + 1, 2 * q.hs, q.h, q.w, 2)
        [] q.fmt = "GREY" -> luma
        [] q.fmt \in DOMAIN Bytes ->
             Rows(0, q.hs * Bytes[q.fmt], q.h, q.w * Bytes[q.fmt], 1)
        [] OTHER -> << >>

(***************************************************************************)
(* The frames the media library gives: the picture fits in the strides,    *)
(* and NV16 has one colour for two pixels of a row.                        *)
(***************************************************************************)
Sizes(q) ==
  /\ q.w \in Nat /\ q.h \in Nat /\ q.hs \in Nat /\ q.vs \in Nat
  /\ q.w <= q.hs /\ q.h <= q.vs
  /\ q.fmt = "NV16" => q.w % 2 = 0

-----------------------------------------------------------------------------
(***************************************************************************)
(* The buffer as V4L2 lays it out: planes one behind the other, each of    *)
(* <<pitch, rows>> bytes of which <<width, height>> are the picture.       *)
(***************************************************************************)
Planes(q) ==
  LET p(sx, sy, b) ==
        <<(q.hs * b) \div sx, q.vs \div sy, (q.w * b) \div sx, q.h \div sy>>
  IN  CASE q.fmt \in {"NV21", "NV12"} -> <<p(1, 1, 1), p(1, 2, 1)>>
        [] q.fmt = "NV16" -> <<p(1, 1, 1), p(1, 1, 1)>>
        [] q.fmt = "NV24" -> <<p(1, 1, 1), p(1, 1, 2)>>
        [] q.fmt = "YUV420" -> <<p(1, 1, 1), p(2, 2, 1), p(2, 2, 1)>>
        [] q.fmt = "GREY" -> <<p(1, 1, 1)>>
        [] OTHER -> <<p(1, 1, Bytes[q.fmt])>>

\* Where plane i of P begins: there are three at most.
Area(p) == p[1] * p[2]
Start(P, i) ==
  IF i = 1 THEN 0 ELSE Area(P[1]) + (IF i = 3 THEN Area(P[2]) ELSE 0)

PlaneBytes(start, p) ==
  {b \in start..(start + Area(p) - 1) :
     (b - start) % p[1] < p[3] /\ (b - start) \div p[1] < p[4]}

PictureBytes(q) ==
  UNION {PlaneBytes(Start(Planes(q), i), Planes(q)[i]) :
           i \in DOMAIN Planes(q)}

\* Every byte of the picture is saved, once, and no byte of the padding.
IsPicture(s, q) ==
  /\ IsInjective(s)
  /\ Range(s) = PictureBytes(q)
=============================================================================
