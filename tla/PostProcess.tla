----------------------------- MODULE PostProcess -----------------------------
(***************************************************************************)
(* The detections of one picture, rknn/src/postprocess.cc: the cells of    *)
(* the three outputs that pass the threshold, sorted by probability, less  *)
(* those that overlap a better one, clipped to the model's input and put   *)
(* on the frame.                                                           *)
(*                                                                         *)
(* Positions, sizes and the quantised confidences are integers; sigmoid    *)
(* and the quantisation only keep their order, and a box is scaled to the  *)
(* frame exactly, where the code divides by a rounded float.  Classes, as  *)
(* cells and orders, are counted from 1, and 0 is a suppressed entry of    *)
(* the order.                                                              *)
(***************************************************************************)
EXTENDS Integers, Sequences

CONSTANTS
  Thres,         (* thres_i8                                                *)
  NmsPercent,    (* NMS_THRESH, in hundredths                               *)
  MaxObjects,    (* OBJ_NUMB_MAX_SIZE                                       *)
  ModelSize,     (* model_in_w and model_in_h                               *)
  CropSize,      (* the part of the model's input that is the frame,        *)
  FrameSize      (* and the frame: scale_w and scale_h are their quotients  *)

ASSUME ThresholdAssumption ==
  /\ Thres \in Int
  /\ NmsPercent \in Nat
  /\ MaxObjects \in Nat
  /\ ModelSize \in Nat \X Nat
  /\ CropSize \in (Nat \ {0}) \X (Nat \ {0})
  /\ FrameSize \in Nat \X Nat

-----------------------------------------------------------------------------
\* process: the cells of an output in the order of the loops.  The first of
\* the most probable classes counts.
MaxClass(p) ==
  CHOOSE k \in DOMAIN p :
    /\ \A l \in DOMAIN p : p[l] <= p[k]
    /\ \A l \in 1..(k - 1) : p[l] < p[k]

Detected(cell) ==
  cell.confidence >= Thres /\ cell.probs[MaxClass(cell.probs)] > Thres

Candidate(cell) ==
  LET k == MaxClass(cell.probs)
  IN  [box |-> cell.box, class |-> k, prob |-> cell.confidence * cell.probs[k]]

\* filterBoxes, objProbs and classId after each of the cells.
Processed(cells) ==
  LET after[i \in 0..Len(cells)] ==
        IF i = 0 THEN << >>
        ELSE LET cs == after[i - 1]
             IN  IF Detected(cells[i]) THEN Append(cs, Candidate(cells[i]))
                 ELSE cs
  IN  after

Candidates(cells) == Processed(cells)[Len(cells)]

-----------------------------------------------------------------------------
(***************************************************************************)
(* quick_sort_indice_inverse, on pairs of a probability and an index.  The *)
(* hole at `low` is filled from above, the one at `high` from below.       *)
(***************************************************************************)
From(s, low, high, key) ==
  CHOOSE h \in low..high :
    /\ h = low \/ s[h][1] > key
    /\ \A k \in (h + 1)..high : s[k][1] <= key

To(s, low, high, key) ==
  CHOOSE l \in low..high :
    /\ l = high \/ s[l][1] < key
    /\ \A k \in low..(l - 1) : s[k][1] >= key

\* A turn of the outer loop; low = high ends it.
Turn(r, key) ==
  LET h == From(r.s, r.low, r.high, key[1])
      t == [r.s EXCEPT ![r.low] = r.s[h]]
      l == To(t, r.low, h, key[1])
  IN  IF r.low = r.high THEN r
      ELSE [s |-> [t EXCEPT ![h] = t[l]], low |-> l, high |-> h]

Turns(s, left, right) ==
  LET after[k \in 0..(right - left)] ==
        IF k = 0 THEN [s |-> s, low |-> left, high |-> right]
        ELSE Turn(after[k - 1], s[left])
  IN  after

\* The key goes into the hole that is left.
Partition(s, left, right) ==
  LET r == Turns(s, left, right)[right - left]
  IN  [s |-> [r.s EXCEPT ![r.low] = s[left]], low |-> r.low]

Segments(n) ==
  [s : [1..n -> Int \X Nat], left : 1..(n + 1), right : 0..n]

\* The calls for what is below and above the key.
Calls(sort, a) ==
  LET p == Partition(a.s, a.left, a.right)
      below == [s |-> p.s, left |-> a.left, right |-> p.low - 1]
  IN  sort[[s |-> sort[below], left |-> p.low + 1, right |-> a.right]]

\* What becomes of a segment, calls being at most d deep.
SortedTo(n) ==
  LET sorted[d \in 0..n] ==
        [a \in Segments(n) |->
           IF d = 0 \/ a.left >= a.right THEN a.s
           ELSE Calls(sorted[d - 1], a)]
  IN  sorted

\* objProbs and indexArray after the sort.
Sorted(cs) ==
  LET n == Len(cs)
      pairs == [i \in 1..n |-> <<cs[i].prob, i>>]
  IN  SortedTo(n)[n][[s |-> pairs, left |-> 1, right |-> n]]

-----------------------------------------------------------------------------
\* CalculateOverlap of two boxes <<x, y, w, h>> is above the threshold.
Lower(a, b) == IF a < b THEN a ELSE b
Upper(a, b) == IF a > b THEN a ELSE b

Common(a, b, d) ==
  Upper(0, Lower(a[d] + a[d + 2], b[d] + b[d + 2]) - Upper(a[d], b[d]) + 1)

Overlap(a, b) ==
  LET i == Common(a, b, 1) * Common(a, b, 2)
      u == (a[3] + 1) * (a[4] + 1) + (b[3] + 1) * (b[4] + 1) - i
  IN  u > 0 /\ 100 * i > NmsPercent * u

\* A variant: the boxes are looked up by their place in the order.
SuppressByPlace(cs, o, i) ==
  [j \in DOMAIN o |->
     IF j > i /\ o[j] # 0 /\ Overlap(cs[i].box, cs[j].box) THEN 0 ELSE o[j]]

\* What comes after place i of the order is compared with it, whatever its
\* class.
Suppress(cs, o, i) ==
  [j \in DOMAIN o |->
     IF j > i /\ o[j] # 0 /\ Overlap(cs[o[i]].box, cs[o[j]].box)
     THEN 0 ELSE o[j]]

\* nms, after each place.  classIds is not sorted with the order, but each of
\* the calls for one class takes other places.
Nms(cs, order, class) ==
  LET after[i \in 0..Len(cs)] ==
        IF i = 0 THEN order
        ELSE LET o == after[i - 1]
             IN  IF o[i] = 0 \/ cs[i].class # class THEN o
                 ELSE Suppress(cs, o, i)
  IN  after

\* indexArray after the classes in ascending order, as the std::set has them.
Suppressed(cs, order, classes) ==
  LET after[k \in 0..classes] ==
        IF k = 0 THEN order ELSE Nms(cs, after[k - 1], k)[Len(cs)]
  IN  after

Remaining(cs, classes) ==
  LET s == Sorted(cs)
  IN  Suppressed(cs, [i \in 1..Len(cs) |-> s[i][2]], classes)[classes]

-----------------------------------------------------------------------------
Clamp(v, max) == IF v > 0 THEN Lower(v, max) ELSE 0

\* The places of the order that become a result: at most MaxObjects.
Taken(order) ==
  LET after[i \in 0..Len(order)] ==
        IF i = 0 THEN << >>
        ELSE LET taken == after[i - 1]
             IN  IF order[i] = 0 \/ Len(taken) >= MaxObjects THEN taken
                 ELSE Append(taken, i)
  IN  after

Kept(order) == Taken(order)[Len(order)]

\* A position in the model's input, at least 0, on the frame; d is 1 for
\* positions across, 2 for those down.
Scaled(v, d) == (v * FrameSize[d]) \div CropSize[d]

Place(v, d) == Scaled(Clamp(v, ModelSize[d]), d)

\* post_process: left, top, right and bottom.  The probability is looked up
\* by place, the box and the class by index.
Result(c, prob) ==
  [left |-> Place(c.box[1], 1), top |-> Place(c.box[2], 2),
   right |-> Place(c.box[1] + c.box[3], 1),
   bottom |-> Place(c.box[2] + c.box[4], 2),
   class |-> c.class, prop |-> prob]

ResultsOf(cs, sorted, order, kept) ==
  [i \in 1..Len(kept) |-> Result(cs[order[kept[i]]], sorted[kept[i]][1])]

Results(cells, classes) ==
  LET cs == Candidates(cells)
      order == Remaining(cs, classes)
  IN  ResultsOf(cs, Sorted(cs), order, Kept(order))

-----------------------------------------------------------------------------
(***************************************************************************)
(* The results of a picture come with falling probability, each the box of *)
(* a candidate of its own with its probability, on the frame unless the    *)
(* box ends in the padding around the crop, which post_process does not    *)
(* know; no two of one class overlap by more than the threshold, and a     *)
(* candidate is left out only for one at least as probable that it         *)
(* overlaps, or when there are too many (postprocess.cc:94-154, 226-321).  *)
(* The order is not sorted with the classes, and suppression takes in      *)
(* other classes.                                                          *)
(***************************************************************************)
EndsInCrop(c, d) ==
  Lower(c.box[d] + c.box[d + 2], ModelSize[d]) <= CropSize[d]

OnFrame(c, r) ==
  /\ 0 <= r.left /\ r.left <= r.right
  /\ 0 <= r.top /\ r.top <= r.bottom
  /\ EndsInCrop(c, 1) => r.right <= FrameSize[1]
  /\ EndsInCrop(c, 2) => r.bottom <= FrameSize[2]

SoundFor(cs, order, kept, res) ==
  LET of == [i \in DOMAIN res |-> order[kept[i]]]
  IN  /\ \A i, j \in DOMAIN res : i < j => res[i].prop >= res[j].prop
      /\ \A i \in DOMAIN res :
           OnFrame(cs[of[i]], res[i]) /\ res[i].prop = cs[of[i]].prob
      /\ \A i, j \in DOMAIN res :
           i # j => /\ of[i] # of[j]
                    /\ cs[of[i]].class = cs[of[j]].class =>
                         ~Overlap(cs[of[i]].box, cs[of[j]].box)
      /\ \A n \in DOMAIN cs :
           \/ \E i \in DOMAIN res : of[i] = n
           \/ Len(res) = MaxObjects
           \/ \E k \in DOMAIN cs \ {n} :
                /\ cs[k].prob >= cs[n].prob
                /\ Overlap(cs[k].box, cs[n].box)

ResultsSound(cells, classes) ==
  LET cs == Candidates(cells)
      order == Remaining(cs, classes)
  IN  SoundFor(cs, order, Kept(order), Results(cells, classes))
=============================================================================
