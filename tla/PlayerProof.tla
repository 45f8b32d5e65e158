----------------------------- MODULE PlayerProof -----------------------------
(***************************************************************************)
(* However many instances the player shows, and whatever their pictures    *)
(* and the display: every window lies on the display and no two overlap.   *)
(* The grid has a cell for every instance (GridFits), a window lies in its *)
(* cell (InItsCell), and an inductive invariant says that the windows are  *)
(* the ones the grid gives.  A second one follows the life of an instance, *)
(* from which what it saves is whole and no file is closed too early.      *)
(***************************************************************************)
EXTENDS Player, FrameDumpProof, NaturalsInduction, WellFoundedInduction, TLAPS

(***************************************************************************)
(* What the unsigned divisions and remainders of start_instance are.       *)
(***************************************************************************)
LEMMA Division ==
  ASSUME NEW a \in Nat, NEW b \in Nat \ {0}
  PROVE  /\ a \div b \in Nat
         /\ a % b \in 0..(b - 1)
         /\ a = b * (a \div b) + (a % b)
         /\ b * (a \div b) <= a
<1> DEFINE q == a \div b
           r == a % b
<1>1. q \in Nat
  BY Z3
<1>2. r \in 0..(b - 1)
  BY SMT
<1>3. r = a - b * q
  BY SMTT(30)
<1> HIDE DEF q, r
<1>4. b * q \in Nat
  BY <1>1, SMT
<1>5. a = b * q + r /\ b * q <= a
  BY <1>2, <1>3, <1>4
<1> QED BY <1>1, <1>2, <1>5 DEF q, r

LEMMA Product ==
  ASSUME NEW c \in Nat, NEW m \in Nat, NEW k \in Nat, m <= k
  PROVE  c * m <= c * k
  BY SMT

(***************************************************************************)
(* The square root that demo.cpp:505 takes exists.                         *)
(***************************************************************************)
LEMMA RootExists ==
  ASSUME NEW n \in Nat
  PROVE  \E s \in 0..n : s * s <= n /\ n < (s + 1) * (s + 1)
<1> DEFINE T == {t \in Nat : n < t * t}
<1>1. n + 1 \in T
  BY SMT
<1>2. PICK t \in T : \A u \in T : ~(<<u, t>> \in OpToRel(<, Nat))
  BY <1>1, NatLessThanWellFounded, WFMin
<1>3. \A u \in T : ~(u < t)
  BY <1>2 DEF OpToRel
<1>4. t \in Nat \ {0} /\ n < t * t
  BY SMT
<1>5. PICK s \in Nat : t = s + 1
  <2> WITNESS t - 1 \in Nat
  <2> QED BY <1>4
<1>6. s \notin T
  BY <1>3, <1>5
<1>7. s * s <= n
  BY <1>5, <1>6
<1>8. s <= s * s
  BY <1>5, SMT
<1>9. s * s \in Nat
  BY <1>5, SMT
<1>10. s <= n
  BY <1>7, <1>8, <1>9, <1>5
<1> HIDE DEF T
<1> QED BY <1>4, <1>5, <1>7, <1>10

(***************************************************************************)
(* The grid has columns and rows enough (demo.cpp:504-514).                *)
(***************************************************************************)
LEMMA GridFits ==
  ASSUME NEW n \in Nat \ {0}
  PROVE  /\ Grid(n)[1] \in Nat \ {0}
         /\ Grid(n)[2] \in Nat \ {0}
         /\ n <= Grid(n)[1] * Grid(n)[2]
<1> DEFINE s == Root(n)
<1>1. s \in 0..n /\ s * s <= n /\ n < (s + 1) * (s + 1)
  BY RootExists DEF Root
<1>2. s # 0
  BY <1>1
<1>3. Grid(n) = IF s * s < n
                THEN <<s + 1, IF s * (s + 1) < n THEN s + 1 ELSE s>>
                ELSE <<s, s>>
  BY DEF Grid
<1> HIDE DEF s
<1>4. s \in Nat \ {0}
  BY <1>1, <1>2
<1>5. s * (s + 1) = (s + 1) * s /\ s * (s + 1) \in Nat
  BY <1>4, SMT
<1>6. CASE s * s < n /\ s * (s + 1) < n
  <2>1. Grid(n) = <<s + 1, s + 1>>
    BY <1>3, <1>6
  <2> QED BY <1>1, <1>4, <2>1
<1>7. CASE s * s < n /\ ~(s * (s + 1) < n)
  <2>1. Grid(n) = <<s + 1, s>>
    BY <1>3, <1>7
  <2>2. n <= (s + 1) * s
    BY <1>5, <1>7
  <2> QED BY <1>4, <2>1, <2>2
<1>8. CASE ~(s * s < n)
  <2>1. Grid(n) = <<s, s>>
    BY <1>3, <1>8
  <2>2. n <= s * s
    BY <1>1, <1>4, <1>8
  <2> QED BY <1>4, <2>1, <2>2
<1> QED BY <1>6, <1>7, <1>8

-----------------------------------------------------------------------------
(***************************************************************************)
(* Along one axis: where a picture of size p begins that is in the middle  *)
(* of cell k, of the cells of size d.                                      *)
(***************************************************************************)
Offset(d, p, k) == (d - Smaller(d, p)) \div 2 + k * d

LEMMA InItsCell ==
  ASSUME NEW d \in Nat, NEW p \in Nat, NEW k \in Nat
  PROVE  /\ Smaller(d, p) \in Nat /\ Offset(d, p, k) \in Nat
         /\ d * k <= Offset(d, p, k)
         /\ Offset(d, p, k) + Smaller(d, p) <= d * (k + 1)
<1> DEFINE w == Smaller(d, p)
           x == (d - w) \div 2 + k * d
<1>1. w \in Nat /\ w <= d
  BY DEF Smaller
<1> HIDE DEF w
<1>2. (d - w) \div 2 \in Nat /\ (d - w) \div 2 + w <= d
  BY <1>1
<1>3. k * d \in Nat /\ d * k = k * d /\ d * (k + 1) = k * d + d
  BY SMT
<1>4. x \in Nat /\ d * k <= x /\ x + w <= d * (k + 1)
  BY <1>1, <1>2, <1>3
<1> QED BY <1>1, <1>4 DEF w, Offset

LEMMA CellsInOrder ==
  ASSUME NEW d \in Nat, NEW p \in Nat, NEW q \in Nat,
         NEW k \in Nat, NEW l \in Nat, k < l
  PROVE  Offset(d, p, k) + Smaller(d, p) <= Offset(d, q, l)
<1>1. d * (k + 1) <= d * l
  BY Product
<1>2. d * (k + 1) \in Nat /\ d * l \in Nat
  BY SMT
<1>3. /\ Smaller(d, p) \in Nat /\ Offset(d, p, k) \in Nat
      /\ Offset(d, p, k) + Smaller(d, p) <= d * (k + 1)
  BY InItsCell
<1>4. Offset(d, q, l) \in Nat /\ d * l <= Offset(d, q, l)
  BY InItsCell
<1> QED BY <1>1, <1>2, <1>3, <1>4

LEMMA InThePlane ==
  ASSUME NEW d \in Nat, NEW p \in Nat, NEW k \in Nat,
         NEW c \in Nat, k + 1 <= c, NEW t \in Nat, d * c <= t
  PROVE  /\ Smaller(d, p) \in Nat /\ Offset(d, p, k) \in Nat
         /\ Offset(d, p, k) + Smaller(d, p) <= t
<1>1. d * (k + 1) <= d * c
  BY Product
<1>2. d * (k + 1) \in Nat /\ d * c \in Nat
  BY SMT
<1>3. /\ Smaller(d, p) \in Nat /\ Offset(d, p, k) \in Nat
      /\ Offset(d, p, k) + Smaller(d, p) <= d * (k + 1)
  BY InItsCell
<1> QED BY <1>1, <1>2, <1>3

(***************************************************************************)
(* The column and the row of instance i of n.                              *)
(***************************************************************************)
Column(n, i) == i % Grid(n)[1]
Row(n, i) == i \div Grid(n)[1]

LEMMA Position ==
  ASSUME NEW n \in Nat \ {0}, NEW i \in 0..(n - 1)
  PROVE  /\ Column(n, i) \in Nat /\ Column(n, i) + 1 <= Grid(n)[1]
         /\ Row(n, i) \in Nat /\ Row(n, i) + 1 <= Grid(n)[2]
         /\ i = Grid(n)[1] * Row(n, i) + Column(n, i)
<1> DEFINE a == Grid(n)[1]
           b == Grid(n)[2]
           v == i \div a
           h == i % a
<1>1. a \in Nat \ {0} /\ b \in Nat \ {0} /\ n <= a * b
  BY GridFits
<1> HIDE DEF a, b
<1>2. v \in Nat /\ h \in 0..(a - 1) /\ i = a * v + h /\ a * v <= i
  <2>1. i \in Nat
    OBVIOUS
  <2> QED BY ONLY <1>1, <2>1, Division, Zenon
<1> HIDE DEF v, h
<1>3. v < b
  <2>1. SUFFICES ASSUME b <= v PROVE FALSE
    BY <1>1, <1>2
  <2>2. a * b <= a * v
    BY <1>1, <1>2, <2>1, Product
  <2>3. a * b \in Nat /\ a * v \in Nat
    BY <1>1, <1>2, SMT
  <2> QED BY <1>1, <1>2, <2>2, <2>3
<1>4. h \in Nat /\ h + 1 <= a /\ v + 1 <= b
  BY <1>1, <1>2, <1>3
<1> QED BY <1>2, <1>4 DEF a, b, v, h, Column, Row

(***************************************************************************)
(* Width and height of a cell, and the window in it.                       *)
(***************************************************************************)
Width(n, t) == t[1] \div Grid(n)[1]
Height(n, t) == t[2] \div Grid(n)[2]
Size(q) == q.w \in Nat /\ q.h \in Nat

LEMMA WindowParts ==
  ASSUME NEW n, NEW i, NEW t, NEW q
  PROVE  Window(i, n, t, q) =
           <<Offset(Width(n, t), q.w, Column(n, i)),
             Offset(Height(n, t), q.h, Row(n, i)),
             Smaller(Width(n, t), q.w), Smaller(Height(n, t), q.h)>>
  BY Zenon DEF Window, Cell, Offset, Width, Height, Column, Row

LEMMA CellSize ==
  ASSUME NEW n \in Nat \ {0}, NEW t \in Nat \X Nat
  PROVE  /\ Width(n, t) \in Nat /\ Width(n, t) * Grid(n)[1] <= t[1]
         /\ Height(n, t) \in Nat /\ Height(n, t) * Grid(n)[2] <= t[2]
<1>1. \A a \in Nat, b \in Nat \ {0} :
        a \div b \in Nat /\ (a \div b) * b <= a
  <2> TAKE a \in Nat, b \in Nat \ {0}
  <2>1. a \div b \in Nat /\ b * (a \div b) <= a
    BY Division
  <2>2. \A q \in Nat : q * b = b * q
    BY SMT
  <2>3. (a \div b) * b = b * (a \div b)
    BY <2>1, <2>2
  <2> QED BY <2>1, <2>3
<1>2. Grid(n)[1] \in Nat \ {0} /\ Grid(n)[2] \in Nat \ {0}
  BY GridFits
<1>3. t[1] \in Nat /\ t[2] \in Nat
  OBVIOUS
<1> QED BY ONLY <1>1, <1>2, <1>3, Zenon DEF Width, Height

(***************************************************************************)
(* A window lies on the plane (demo.cpp:519-532).                          *)
(***************************************************************************)
THEOREM WindowInside ==
  ASSUME NEW n \in Nat \ {0}, NEW i \in 0..(n - 1), NEW t \in Nat \X Nat,
         NEW q, Size(q)
  PROVE  /\ \A k \in 1..4 : Window(i, n, t, q)[k] \in Nat
         /\ Inside(Window(i, n, t, q), t)
<1>1. /\ Grid(n)[1] \in Nat /\ Grid(n)[2] \in Nat
      /\ t[1] \in Nat /\ t[2] \in Nat
      /\ q.w \in Nat /\ q.h \in Nat
  BY GridFits DEF Size
<1>2. /\ Smaller(Width(n, t), q.w) \in Nat
      /\ Offset(Width(n, t), q.w, Column(n, i)) \in Nat
      /\ Offset(Width(n, t), q.w, Column(n, i)) + Smaller(Width(n, t), q.w) <= t[1]
  BY <1>1, CellSize, Position, InThePlane
<1>3. /\ Smaller(Height(n, t), q.h) \in Nat
      /\ Offset(Height(n, t), q.h, Row(n, i)) \in Nat
      /\ Offset(Height(n, t), q.h, Row(n, i)) + Smaller(Height(n, t), q.h) <= t[2]
  BY <1>1, CellSize, Position, InThePlane
<1> QED BY <1>2, <1>3, WindowParts DEF Inside

(***************************************************************************)
(* The windows of two instances do not overlap.                            *)
(***************************************************************************)
THEOREM WindowsOfGridApart ==
  ASSUME NEW n \in Nat \ {0}, NEW i \in 0..(n - 1), NEW j \in 0..(n - 1),
         i # j, NEW t \in Nat \X Nat, NEW q, NEW r, Size(q), Size(r)
  PROVE  Apart(Window(i, n, t, q), Window(j, n, t, r))
<1> DEFINE V == Window(i, n, t, q)
           W == Window(j, n, t, r)
<1>1. /\ Column(n, i) \in Nat /\ Row(n, i) \in Nat
      /\ Column(n, j) \in Nat /\ Row(n, j) \in Nat
      /\ Width(n, t) \in Nat /\ Height(n, t) \in Nat
      /\ q.w \in Nat /\ q.h \in Nat /\ r.w \in Nat /\ r.h \in Nat
  BY CellSize, Position DEF Size
<1>2. Column(n, i) # Column(n, j) \/ Row(n, i) # Row(n, j)
  BY Position
<1>3. CASE Column(n, i) < Column(n, j)
  <2>1. V[1] + V[3] <= W[1]
    BY <1>1, <1>3, CellsInOrder, WindowParts
  <2> QED BY <2>1 DEF Apart
<1>4. CASE Column(n, j) < Column(n, i)
  <2>1. W[1] + W[3] <= V[1]
    BY <1>1, <1>4, CellsInOrder, WindowParts
  <2> QED BY <2>1 DEF Apart
<1>5. CASE Row(n, i) < Row(n, j)
  <2>1. V[2] + V[4] <= W[2]
    BY <1>1, <1>5, CellsInOrder, WindowParts
  <2> QED BY <2>1 DEF Apart
<1>6. CASE Row(n, j) < Row(n, i)
  <2>1. W[2] + W[4] <= V[2]
    BY <1>1, <1>6, CellsInOrder, WindowParts
  <2> QED BY <2>1 DEF Apart
<1> QED BY <1>1, <1>2, <1>3, <1>4, <1>5, <1>6

-----------------------------------------------------------------------------
(***************************************************************************)
(* The options leave numbers in the fields the grid and the sizes are      *)
(* computed from.                                                          *)
(***************************************************************************)
ConfOK(c) ==
  /\ DOMAIN c = DOMAIN Config
  /\ c.count \in Int
  /\ c.outSize \in Nat \X Nat

OptionOK(o) ==
  /\ o.opt = "c" => o.arg \in Int
  /\ o.opt = "o" => o.arg \in Nat \X Nat

LEMMA ConfigOK == ConfOK(Config)
<1>1. DOMAIN Config = Values \cup Flags
  BY DEF Config
<1>2. "count" \in Values /\ "outSize" \in Values
  BY DEF Values, Fields
<1>3. "count" \notin Flags /\ "outSize" \notin Flags
  BY DEF Flags, Switches
<1>4. Config["count"] = 1
  BY <1>2, <1>3 DEF Config
<1>5. Config["outSize"] = <<0, 0>>
  BY <1>2, <1>3 DEF Config
<1> QED BY <1>4, <1>5 DEF ConfOK

LEMMA EffectOK ==
  ASSUME NEW o, NEW c, OptionOK(o), ConfOK(c)
  PROVE  ConfOK(Effect(o, c))
<1> DEFINE e == Effect(o, c)
<1>1. DOMAIN e = DOMAIN Config
  BY DEF Effect, ConfOK
<1>2. \A k \in DOMAIN Config :
        e[k] = IF o.opt \in DOMAIN Fields /\ k = Fields[o.opt] THEN o.arg
               ELSE IF o.opt \in DOMAIN Switches /\ k = Switches[o.opt] THEN TRUE
               ELSE c[k]
  BY DEF Effect, ConfOK
<1>3. /\ o.opt \in DOMAIN Switches => Switches[o.opt] \notin {"count", "outSize"}
      /\ o.opt \in DOMAIN Fields /\ Fields[o.opt] = "count" => o.opt = "c"
      /\ o.opt \in DOMAIN Fields /\ Fields[o.opt] = "outSize" => o.opt = "o"
  BY DEF Switches, Fields
<1>4. "count" \in DOMAIN Config /\ "outSize" \in DOMAIN Config
  BY DEF Config, Values, Fields
<1> HIDE DEF e
<1>5. e["count"] \in Int
  BY <1>2, <1>3, <1>4 DEF ConfOK, OptionOK
<1>6. e["outSize"] \in Nat \X Nat
  BY <1>2, <1>3, <1>4 DEF ConfOK, OptionOK
<1> QED BY <1>1, <1>5, <1>6 DEF ConfOK, e

-----------------------------------------------------------------------------
(***************************************************************************)
(* The inductive invariant.  The windows are those of the grid; an         *)
(* instance that is complete has the pictures asked for; the one at hand   *)
(* has them from the conversion on, and those of its source before.        *)
(***************************************************************************)
PictureOK(q) ==
  /\ DOMAIN q = {"w", "h", "hs", "vs", "fmt"}
  /\ Size(q)

InstOK(r) ==
  /\ DOMAIN r = DOMAIN Instance
  /\ PictureOK(r.from)
  /\ PictureOK(r.para)

WindowOK(i) ==
  \/ insts[i].window = << >>
  \/ \E q : Size(q) /\ insts[i].window = Window(i, Count, plane, q)

GivenOK == cmd \in CommandLines /\ input \in Inputs /\ plane \in PlaneSizes

Unmade == pc \in {"options", "gone"} /\ insts = << >>

Made ==
  /\ pc # "options"
  /\ DOMAIN insts = 0..(Count - 1)
  /\ inst \in 0..(Count - 1)
  /\ \A i \in 0..(Count - 1) : InstOK(insts[i]) /\ WindowOK(i)

TypeInv ==
  /\ GivenOK
  /\ pos \in 0..Len(cmd)
  /\ ConfOK(conf)
  /\ inst \in Nat /\ (pc = "options" => inst = 0)
  /\ Unmade \/ Made

\* Of one instance, behind the conversion.
Converted(r) ==
  /\ <<r.para.w, r.para.h>> = Asked(r.from)
  /\ r.para.fmt = conf.outFmt
  /\ Turning(r)

Building == pc \in {"classify", "source", "aacDec", "dec", "rga", "display",
                    "enc", "writer", "push", "rtmpUrl", "save"}

Complete ==
  /\ Building => \A i \in 0..(inst - 1) : AsAsked(insts[i])
  /\ pc \in {"start", "play"} => \A i \in DOMAIN insts : AsAsked(insts[i])
  /\ pc \in {"aacDec", "dec", "rga"} =>
       This.para.w = This.from.w /\ This.para.h = This.from.h
  /\ pc \in {"display", "enc"} => Converted(This)
  /\ pc \in {"writer", "push", "rtmpUrl", "save"} => AsAsked(This)

IInv == TypeInv /\ Complete

(***************************************************************************)
(* What the steps behind the options have in common.                       *)
(***************************************************************************)
Same == UNCHANGED <<given, pos, conf>>

Only(k) ==
  /\ DOMAIN insts' = DOMAIN insts
  /\ \A i \in DOMAIN insts : i # k => insts'[i] = insts[i]

LEMMA StepType ==
  ASSUME TypeInv, Made, Same, NEW k \in DOMAIN insts, Only(k),
         InstOK(insts'[k]), WindowOK(k)', pc' # "options",
         inst' \in 0..(Count - 1)
  PROVE  TypeInv' /\ Made'
<1>1. GivenOK' /\ pos' \in 0..Len(cmd') /\ ConfOK(conf')
  BY DEF TypeInv, GivenOK, Same, given
<1>2. Count' = Count /\ Count \in Nat \ {0} /\ plane' = plane
  BY DEF Count, Same, given, TypeInv, ConfOK
<1>3. DOMAIN insts' = 0..(Count' - 1) /\ inst' \in 0..(Count' - 1)
  BY <1>2 DEF Made, Only
<1>4. \A i \in 0..(Count' - 1) : InstOK(insts'[i]) /\ WindowOK(i)'
  <2>1. TAKE i \in 0..(Count' - 1)
  <2>2. CASE i = k
    BY <2>2
  <2>3. CASE i # k
    <3>1. insts'[i] = insts[i] /\ InstOK(insts[i]) /\ WindowOK(i)
      BY <1>2, <2>3 DEF Made, Only
    <3> QED BY <1>2, <3>1 DEF WindowOK
  <2> QED BY <2>2, <2>3
<1>5. Made'
  BY <1>3, <1>4 DEF Made
<1>6. inst' \in Nat
  BY <1>2
<1> QED BY <1>1, <1>5, <1>6 DEF TypeInv

LEMMA Unchanged ==
  ASSUME TypeInv, Made, Same, insts' = insts, pc' # "options",
         inst' \in 0..(Count - 1)
  PROVE  TypeInv' /\ Made'
<1>1. PICK k \in DOMAIN insts : InstOK(insts[k]) /\ WindowOK(k)
  BY DEF Made
<1>2. Count' = Count /\ plane' = plane
  BY DEF Count, Same, given
<1>3. WindowOK(k)'
  BY <1>1, <1>2 DEF WindowOK
<1>4. Only(k) /\ InstOK(insts'[k])
  BY <1>1 DEF Only
<1> QED BY <1>3, <1>4, StepType

LEMMA Leaving ==
  ASSUME TypeInv, Made, Same, NEW next \in {"exit", "gone"}, Goto(next)
  PROVE  IInv'
<1>1. insts' = insts /\ inst' = inst /\ pc' = next
  BY DEF Goto
<1>2. TypeInv' /\ Made'
  BY <1>1, Unchanged DEF Made
<1>3. Complete'
  BY <1>1 DEF Complete, Building
<1> QED BY <1>2, <1>3 DEF IInv

(***************************************************************************)
(* A module is made behind the last one, or at the end of the line.        *)
(***************************************************************************)
LEMMA StageMade ==
  ASSUME TypeInv, Made, Same, NEW c, NEW q, NEW next, PictureOK(q),
         next \notin {"options", "exit", "gone"},
         Stage(c, q, next), pc' # "exit"
  PROVE  /\ TypeInv' /\ Made' /\ Only(inst) /\ inst' = inst /\ pc' = next
         /\ insts'[inst].from = This.from /\ insts'[inst].para = q
         /\ insts'[inst].made = This.made \cup {<<This.last, c>>}
<1>1. PICK k \in 0..(Count - 1) : k = inst
  BY DEF Made
<1>2. k \in DOMAIN insts /\ InstOK(insts[k]) /\ WindowOK(k)
  BY <1>1 DEF Made
<1>3. /\ insts' = [insts EXCEPT ![inst].made = @ \cup {<<This.last, c>>},
                                ![inst].last = c, ![inst].para = q]
      /\ pc' = next /\ inst' = inst
  BY DEF Stage, Goto
<1>4. Only(k)
  BY <1>1, <1>3 DEF Only
<1>5. DOMAIN insts[k] = {"source", "made", "last", "from", "para", "dec",
                         "window", "file", "saved", "on"}
  BY <1>2 DEF InstOK, Instance
<1>6. insts'[k] = [insts[k] EXCEPT !.made = @ \cup {<<This.last, c>>},
                                   !.last = c, !.para = q]
  BY <1>1, <1>2, <1>3
<1>7. /\ DOMAIN insts'[k] = DOMAIN Instance
      /\ insts'[k].from = insts[k].from /\ insts'[k].para = q
      /\ insts'[k].window = insts[k].window
      /\ insts'[k].made = insts[k].made \cup {<<This.last, c>>}
  BY <1>2, <1>5, <1>6 DEF InstOK
<1>8. InstOK(insts'[k])
  BY <1>2, <1>7 DEF InstOK
<1>9. WindowOK(k)'
  BY <1>2, <1>7 DEF WindowOK, Count, Same, given
<1>10. TypeInv' /\ Made'
  BY <1>1, <1>2, <1>3, <1>4, <1>8, <1>9, StepType
<1> QED BY <1>1, <1>3, <1>4, <1>7, <1>10 DEF This

LEMMA SinkMade ==
  ASSUME TypeInv, Made, Same, NEW c, NEW p, NEW next,
         next \notin {"options", "exit", "gone"},
         Sink(c, p, next), pc' # "exit"
  PROVE  /\ TypeInv' /\ Made' /\ Only(inst) /\ inst' = inst /\ pc' = next
         /\ insts'[inst].from = This.from /\ insts'[inst].para = This.para
         /\ insts'[inst].made = This.made \cup {<<p, c>>}
<1>1. PICK k \in 0..(Count - 1) : k = inst
  BY DEF Made
<1>2. k \in DOMAIN insts /\ InstOK(insts[k]) /\ WindowOK(k)
  BY <1>1 DEF Made
<1>3. /\ insts' = [insts EXCEPT ![inst].made = @ \cup {<<p, c>>}]
      /\ pc' = next /\ inst' = inst
  BY DEF Sink, Goto
<1>4. Only(k)
  BY <1>1, <1>3 DEF Only
<1>5. DOMAIN insts[k] = {"source", "made", "last", "from", "para", "dec",
                         "window", "file", "saved", "on"}
  BY <1>2 DEF InstOK, Instance
<1>6. insts'[k] = [insts[k] EXCEPT !.made = @ \cup {<<p, c>>}]
  BY <1>1, <1>2, <1>3
<1>7. /\ DOMAIN insts'[k] = DOMAIN Instance
      /\ insts'[k].from = insts[k].from /\ insts'[k].para = insts[k].para
      /\ insts'[k].window = insts[k].window
      /\ insts'[k].made = insts[k].made \cup {<<p, c>>}
  BY <1>2, <1>5, <1>6 DEF InstOK
<1>8. InstOK(insts'[k])
  BY <1>2, <1>7 DEF InstOK
<1>9. WindowOK(k)'
  BY <1>2, <1>7 DEF WindowOK, Count, Same, given
<1>10. TypeInv' /\ Made'
  BY <1>1, <1>2, <1>3, <1>4, <1>8, <1>9, StepType
<1> QED BY <1>1, <1>3, <1>4, <1>7, <1>10 DEF This

(***************************************************************************)
(* Of one instance something is changed that no one of them depends on.    *)
(***************************************************************************)
SamePictures(r, s) ==
  /\ DOMAIN s = DOMAIN r
  /\ s.from = r.from /\ s.para = r.para /\ s.made = r.made
  /\ s.window = r.window

LEMMA FieldSet ==
  ASSUME TypeInv, Made, Same, NEW k \in DOMAIN insts, Only(k),
         SamePictures(insts[k], insts'[k]), pc' # "options",
         inst' \in 0..(Count - 1)
  PROVE  TypeInv' /\ Made'
<1>1. InstOK(insts[k]) /\ WindowOK(k)
  BY DEF Made
<1>2. InstOK(insts'[k])
  BY <1>1 DEF InstOK, SamePictures
<1>3. WindowOK(k)'
  BY <1>1 DEF WindowOK, SamePictures, Count, Same, given
<1> QED BY <1>2, <1>3, StepType

LEMMA AskedKept ==
  ASSUME Same, NEW k, insts'[k].from = insts[k].from,
         insts'[k].para = insts[k].para, insts[k].made \subseteq insts'[k].made
  PROVE  /\ AsAsked(insts[k]) => AsAsked(insts[k])'
         /\ Converted(insts[k]) => Converted(insts[k])'
<1>1. conf' = conf
  BY DEF Same
<1>2. Turning(insts[k]) => Turning(insts[k])'
  BY <1>1 DEF Turning
<1>3. Asked(insts[k].from)' = Asked(insts[k].from)
  BY <1>1 DEF Asked
<1>4. AsAsked(insts[k]) => AsAsked(insts[k])'
  BY <1>1, <1>2, <1>3 DEF AsAsked
<1> QED BY <1>1, <1>2, <1>3, <1>4 DEF Converted

LEMMA EarlierKept ==
  ASSUME IInv, Made, Building, Same, Only(inst)
  PROVE  \A i \in 0..(inst - 1) : AsAsked(insts[i])'
<1>1. TAKE i \in 0..(inst - 1)
<1>2. AsAsked(insts[i])
  BY DEF IInv, Complete
<1>3. i \in DOMAIN insts /\ i # inst
  BY DEF Made, IInv, TypeInv, ConfOK, Count
<1>4. insts'[i] = insts[i]
  BY <1>3 DEF Only
<1> QED BY <1>2, <1>4, AskedKept

LEMMA ThisKept ==
  ASSUME IInv, Made, Same, inst' = inst, insts'[inst].from = This.from,
         insts'[inst].para = This.para, This.made \subseteq insts'[inst].made
  PROVE  /\ AsAsked(This) => AsAsked(This)'
         /\ Converted(This) => Converted(This)'
<1>1. PICK k : k = inst
  OBVIOUS
<1>2. /\ insts'[k].from = insts[k].from /\ insts'[k].para = insts[k].para
      /\ insts[k].made \subseteq insts'[k].made
  BY <1>1 DEF This
<1>3. /\ AsAsked(insts[k]) => AsAsked(insts[k])'
      /\ Converted(insts[k]) => Converted(insts[k])'
  BY <1>2, AskedKept
<1>4. This = insts[k] /\ This' = insts'[k]
  BY <1>1 DEF This
<1>5. AsAsked(This)' <=> AsAsked(insts[k])'
  BY <1>4 DEF AsAsked, Asked, Turning
<1>6. Converted(This)' <=> Converted(insts[k])'
  BY <1>4 DEF Converted, Asked, Turning
<1> QED BY <1>3, <1>4, <1>5, <1>6

-----------------------------------------------------------------------------
(***************************************************************************)
(* The steps of start_instance, one after the other.                       *)
(***************************************************************************)
LEMMA ClassifyStep == ASSUME IInv, Made, Classify PROVE IInv'
<1>1. TypeInv /\ Same /\ pc = "classify" /\ Building
  BY DEF IInv, Classify, Same, Building
<1>2. CASE Goto("gone")
  BY <1>1, <1>2, Leaving
<1>3. CASE ~Goto("gone")
  <2>1. PICK k \in 0..(Count - 1) : k = inst
    BY DEF Made
  <2>2. k \in DOMAIN insts /\ InstOK(insts[k])
    BY <2>1 DEF Made
  <2>3. /\ insts' = [insts EXCEPT
               ![inst].source = IF input.url \in {"rtsp", "rtmp"} THEN input.url
                                ELSE input.type,
               ![inst].dec = input.url = "path" /\ input.container]
        /\ pc' = "source" /\ inst' = inst
    BY <1>3 DEF Classify
  <2>4. Only(k)
    BY <2>1, <2>3 DEF Only
  <2>5. SamePictures(insts[k], insts'[k])
    BY <2>1, <2>2, <2>3 DEF SamePictures, InstOK, Instance
  <2>6. TypeInv' /\ Made'
    BY <1>1, <2>1, <2>2, <2>3, <2>4, <2>5, FieldSet
  <2>7. \A i \in 0..(inst' - 1) : AsAsked(insts[i])'
    BY <1>1, <2>1, <2>3, <2>4, EarlierKept
  <2>8. Complete'
    BY <2>3, <2>7 DEF Complete
  <2> QED BY <2>6, <2>8 DEF IInv
<1> QED BY <1>2, <1>3

LEMMA OpenSourceStep == ASSUME IInv, Made, OpenSource PROVE IInv'
<1>1. TypeInv /\ Same /\ pc = "source" /\ Building
  BY DEF IInv, OpenSource, Same, Building
<1>2. CASE Goto("exit")
  BY <1>1, <1>2, Leaving
<1>3. CASE ~Goto("exit")
  <2>1. PICK k \in 0..(Count - 1) : k = inst
    BY DEF Made
  <2>2. k \in DOMAIN insts /\ InstOK(insts[k]) /\ WindowOK(k)
    BY <2>1 DEF Made
  <2>3. /\ insts' = [insts EXCEPT ![inst].made = {<<"none", "source">>},
                                  ![inst].last = "source",
                                  ![inst].from = input.para,
                                  ![inst].para = input.para]
        /\ pc' = "aacDec" /\ inst' = inst
    BY <1>3 DEF OpenSource
  <2>4. Only(k)
    BY <2>1, <2>3 DEF Only
  <2>5. PictureOK(input.para)
    BY <1>1, SizeAssumption DEF PictureOK, Size, TypeInv, GivenOK
  <2>6. /\ DOMAIN insts'[k] = DOMAIN insts[k]
        /\ insts'[k].from = input.para /\ insts'[k].para = input.para
        /\ insts'[k].window = insts[k].window
    BY <2>1, <2>2, <2>3 DEF InstOK, Instance
  <2>7. InstOK(insts'[k])
    BY <2>2, <2>5, <2>6 DEF InstOK
  <2>8. WindowOK(k)'
    BY <1>1, <2>2, <2>6 DEF WindowOK, Count, Same, given
  <2>9. TypeInv' /\ Made'
    BY <1>1, <2>1, <2>2, <2>3, <2>4, <2>7, <2>8, StepType
  <2>10. \A i \in 0..(inst' - 1) : AsAsked(insts[i])'
    BY <1>1, <2>1, <2>3, <2>4, EarlierKept
  <2>11. This'.para.w = This'.from.w /\ This'.para.h = This'.from.h
    BY <2>1, <2>3, <2>6 DEF This
  <2>12. Complete'
    BY <2>3, <2>10, <2>11 DEF Complete
  <2> QED BY <2>9, <2>12 DEF IInv
<1> QED BY <1>2, <1>3

LEMMA PlayAudioStep == ASSUME IInv, Made, PlayAudio PROVE IInv'
<1>1. TypeInv /\ Same /\ pc = "aacDec" /\ Building
  BY DEF IInv, PlayAudio, Same, Building
<1>2. This.para.w = This.from.w /\ This.para.h = This.from.h
  BY <1>1 DEF IInv, Complete
<1>3. CASE pc' = "exit"
  <2>1. Goto("exit")
    BY <1>3 DEF PlayAudio, Sink, Goto
  <2> QED BY <1>1, <2>1, Leaving
<1>4. CASE pc' # "exit" /\ Sink("aacDec", "source", "dec")
  <2>1. /\ TypeInv' /\ Made' /\ Only(inst) /\ inst' = inst /\ pc' = "dec"
        /\ insts'[inst].from = This.from /\ insts'[inst].para = This.para
    BY <1>1, <1>4, SinkMade
  <2>2. \A i \in 0..(inst' - 1) : AsAsked(insts[i])'
    BY <1>1, <2>1, EarlierKept
  <2>3. This'.para.w = This'.from.w /\ This'.para.h = This'.from.h
    BY <1>2, <2>1 DEF This
  <2> QED BY <2>1, <2>2, <2>3 DEF Complete, IInv
<1>5. CASE Goto("dec")
  <2>1. insts' = insts /\ inst' = inst /\ pc' = "dec"
    BY <1>5 DEF Goto
  <2>2. TypeInv' /\ Made'
    BY <1>1, <2>1, Unchanged DEF Made
  <2>3. \A i \in 0..(inst' - 1) : AsAsked(insts[i])'
    BY <1>1, <2>1, EarlierKept DEF Only
  <2>4. This'.para.w = This'.from.w /\ This'.para.h = This'.from.h
    BY <1>2, <2>1 DEF This
  <2> QED BY <2>1, <2>2, <2>3, <2>4 DEF Complete, IInv
<1> QED BY <1>3, <1>4, <1>5 DEF PlayAudio

LEMMA DecodeVideoStep == ASSUME IInv, Made, DecodeVideo PROVE IInv'
<1>1. TypeInv /\ Same /\ pc = "dec" /\ Building
  BY DEF IInv, DecodeVideo, Same, Building
<1>2. This.para.w = This.from.w /\ This.para.h = This.from.h
  BY <1>1 DEF IInv, Complete
<1>3. CASE pc' = "exit"
  <2>1. Goto("exit")
    BY <1>3 DEF DecodeVideo, Stage, Goto
  <2> QED BY <1>1, <2>1, Leaving
<1>4. CASE /\ pc' # "exit"
           /\ Stage("dec", [This.from EXCEPT !.fmt = "NV12"], "rga")
  <2> DEFINE q == [This.from EXCEPT !.fmt = "NV12"]
  <2>1. PictureOK(This.from)
    BY DEF Made, InstOK, This
  <2>2. PictureOK(q) /\ q.w = This.from.w /\ q.h = This.from.h
    BY <2>1 DEF PictureOK, Size
  <2> HIDE DEF q
  <2>3. Stage("dec", q, "rga")
    BY <1>4 DEF q
  <2>4. /\ TypeInv' /\ Made' /\ Only(inst) /\ inst' = inst /\ pc' = "rga"
        /\ insts'[inst].from = This.from /\ insts'[inst].para = q
    BY <1>1, <1>4, <2>2, <2>3, StageMade
  <2>5. \A i \in 0..(inst' - 1) : AsAsked(insts[i])'
    BY <1>1, <2>4, EarlierKept
  <2>6. This'.para.w = This'.from.w /\ This'.para.h = This'.from.h
    BY <2>2, <2>4 DEF This
  <2> QED BY <2>4, <2>5, <2>6 DEF Complete, IInv
<1>5. CASE Goto("rga")
  <2>1. insts' = insts /\ inst' = inst /\ pc' = "rga"
    BY <1>5 DEF Goto
  <2>2. TypeInv' /\ Made'
    BY <1>1, <2>1, Unchanged DEF Made
  <2>3. \A i \in 0..(inst' - 1) : AsAsked(insts[i])'
    BY <1>1, <2>1, EarlierKept DEF Only
  <2>4. This'.para.w = This'.from.w /\ This'.para.h = This'.from.h
    BY <1>2, <2>1 DEF This
  <2> QED BY <2>1, <2>2, <2>3, <2>4 DEF Complete, IInv
<1> QED BY <1>3, <1>4, <1>5 DEF DecodeVideo

(***************************************************************************)
(* What output_image_para says is what was asked for.                      *)
(***************************************************************************)
LEMMA OutputAsked ==
  ASSUME TypeInv, NEW q, PictureOK(q)
  PROVE  LET out == Output(conf, q)
             pic == IF conf.rotate \in {90, 270} THEN Turned(out) ELSE out
         IN  /\ PictureOK(pic) /\ <<pic.w, pic.h>> = Asked(q)
             /\ pic.fmt = conf.outFmt
<1> DEFINE out == Output(conf, q)
           own == conf.outSize[1] = 0 \/ conf.outSize[2] = 0
           w == IF own THEN q.w ELSE Align8(conf.outSize[1])
           h == IF own THEN q.h ELSE Align8(conf.outSize[2])
<1>1. conf.outSize[1] \in Nat /\ conf.outSize[2] \in Nat
  BY DEF TypeInv, ConfOK
<1>2. \A n \in Nat : Align8(n) \in Nat
  BY DEF Align8
<1>3. /\ DOMAIN out = {"w", "h", "hs", "vs", "fmt"}
      /\ out.w = w /\ out.h = h /\ out.fmt = conf.outFmt
  <2>1. CASE own
    BY <2>1 DEF Output, PictureOK
  <2>2. CASE ~own
    BY <2>2 DEF Output
  <2> QED BY <2>1, <2>2
<1>4. w \in Nat /\ h \in Nat
  BY <1>1, <1>2 DEF PictureOK, Size
<1>5. PictureOK(out)
  BY <1>3, <1>4 DEF PictureOK, Size
<1>6. /\ PictureOK(Turned(out)) /\ Turned(out).w = h /\ Turned(out).h = w
      /\ Turned(out).fmt = conf.outFmt
  BY <1>3, <1>4 DEF Turned, PictureOK, Size
<1>7. Asked(q) = IF conf.rotate \in {90, 270} THEN <<h, w>> ELSE <<w, h>>
  BY DEF Asked
<1> QED BY <1>3, <1>5, <1>6, <1>7

LEMMA ConvertVideoStep == ASSUME IInv, Made, ConvertVideo PROVE IInv'
<1> DEFINE out == Output(conf, This.from)
           pic == IF conf.rotate \in {90, 270} THEN Turned(out) ELSE out
<1>1. TypeInv /\ Same /\ pc = "rga" /\ Building
  BY DEF IInv, ConvertVideo, Same, Building
<1>2. PictureOK(This.from)
  BY DEF Made, InstOK, This
<1>3. PictureOK(pic) /\ <<pic.w, pic.h>> = Asked(This.from) /\ pic.fmt = conf.outFmt
  BY <1>1, <1>2, OutputAsked
<1>4. CASE pc' = "exit"
  <2>1. Goto("exit")
    BY <1>4 DEF ConvertVideo, Stage, Goto
  <2> QED BY <1>1, <2>1, Leaving
<1>5. CASE pc' # "exit" /\ Stage("rga", pic, "display")
  <2> HIDE DEF pic
  <2>1. /\ TypeInv' /\ Made' /\ Only(inst) /\ inst' = inst /\ pc' = "display"
        /\ insts'[inst].from = This.from /\ insts'[inst].para = pic
        /\ insts'[inst].made = This.made \cup {<<This.last, "rga">>}
    BY <1>1, <1>3, <1>5, StageMade
  <2>2. \A i \in 0..(inst' - 1) : AsAsked(insts[i])'
    BY <1>1, <2>1, EarlierKept
  <2>3. /\ This'.from = This.from /\ This'.para = pic
        /\ This'.made = This.made \cup {<<This.last, "rga">>}
    BY <2>1 DEF This
  <2>6. \E e \in This'.made : e[2] = "rga"
    <3>1. <<This.last, "rga">> \in This'.made
      BY <2>3
    <3> QED BY <3>1
  <2>4. conf' = conf
    BY <1>1 DEF Same
  <2>5. Converted(This)'
    BY <1>3, <2>3, <2>4, <2>6 DEF Converted, Asked, Turning
  <2> QED BY <2>1, <2>2, <2>5 DEF Complete, IInv
<1>6. CASE Goto("display") /\ ~NeedsRga(conf, This.para, out)
  <2>1. insts' = insts /\ inst' = inst /\ pc' = "display"
    BY <1>6 DEF Goto
  <2>2. TypeInv' /\ Made'
    BY <1>1, <2>1, Unchanged DEF Made
  <2>3. \A i \in 0..(inst' - 1) : AsAsked(insts[i])'
    BY <1>1, <2>1, EarlierKept DEF Only
  <2>4. /\ conf.rotate = 0 /\ This.para.w = out.w /\ This.para.h = out.h
        /\ This.para.fmt = out.fmt
    BY <1>6 DEF NeedsRga
  <2>5. Converted(This)
    BY <1>3, <2>4 DEF Converted, Turning
  <2>6. Converted(This)'
    BY <1>1, <2>1, <2>5, ThisKept DEF This
  <2> QED BY <2>1, <2>2, <2>3, <2>6 DEF Complete, IInv
<1>7. \/ Stage("rga", pic, "display")
      \/ Goto("display") /\ ~NeedsRga(conf, This.para, out)
  BY DEF ConvertVideo
<1> QED BY <1>4, <1>5, <1>6, <1>7

LEMMA DisplayVideoStep == ASSUME IInv, Made, DisplayVideo PROVE IInv'
<1>1. TypeInv /\ Same /\ pc = "display" /\ Building
  BY DEF IInv, DisplayVideo, Same, Building
<1>2. Converted(This)
  BY <1>1 DEF IInv, Complete
<1>3. CASE pc' = "exit"
  <2>1. Goto("exit")
    BY <1>3 DEF DisplayVideo, Sink, Goto
  <2> QED BY <1>1, <2>1, Leaving
<1>4. CASE pc' # "exit" /\ conf.display
  <2>1. PICK k \in 0..(Count - 1) : k = inst
    BY DEF Made
  <2>2. k \in DOMAIN insts /\ InstOK(insts[k])
    BY <2>1 DEF Made
  <2> DEFINE win == Window(inst, Count, plane, This.para)
  <2>3. /\ insts' = [insts EXCEPT
               ![inst].made = @ \cup {<<This.last, "display">>},
               ![inst].window = win]
        /\ pc' = "enc" /\ inst' = inst
    BY <1>4 DEF DisplayVideo, Goto
  <2>4. win = Window(k, Count, plane, insts[k].para) /\ Size(insts[k].para)
    BY <2>1, <2>2 DEF This, InstOK, PictureOK
  <2> HIDE DEF win
  <2>5. Only(k)
    BY <2>1, <2>3 DEF Only
  <2>6. /\ DOMAIN insts'[k] = DOMAIN insts[k]
        /\ insts'[k].from = insts[k].from /\ insts'[k].para = insts[k].para
        /\ insts'[k].window = win
        /\ insts[k].made \subseteq insts'[k].made
    BY <2>1, <2>2, <2>3 DEF InstOK, Instance
  <2>7. InstOK(insts'[k])
    BY <2>2, <2>6 DEF InstOK
  <2>8. WindowOK(k)'
    <3>1. Count' = Count /\ plane' = plane
      BY <1>1 DEF Count, Same, given
    <3>2. insts'[k].window = Window(k, Count', plane', insts[k].para)
      BY <2>4, <2>6, <3>1
    <3> QED BY <2>4, <3>2 DEF WindowOK
  <2>9. TypeInv' /\ Made'
    BY <1>1, <2>1, <2>2, <2>3, <2>5, <2>7, <2>8, StepType
  <2>10. \A i \in 0..(inst' - 1) : AsAsked(insts[i])'
    BY <1>1, <2>1, <2>3, <2>5, EarlierKept
  <2>11. Converted(This)'
    BY <1>1, <1>2, <2>1, <2>3, <2>6, ThisKept DEF This
  <2> QED BY <2>3, <2>9, <2>10, <2>11 DEF Complete, IInv
<1>5. CASE pc' # "exit" /\ Sink("x11", This.last, "enc")
  <2>1. /\ TypeInv' /\ Made' /\ Only(inst) /\ inst' = inst /\ pc' = "enc"
        /\ insts'[inst].from = This.from /\ insts'[inst].para = This.para
        /\ This.made \subseteq insts'[inst].made
    BY <1>1, <1>5, SinkMade
  <2>2. \A i \in 0..(inst' - 1) : AsAsked(insts[i])'
    BY <1>1, <2>1, EarlierKept
  <2>3. Converted(This)'
    BY <1>1, <1>2, <2>1, ThisKept
  <2> QED BY <2>1, <2>2, <2>3 DEF Complete, IInv
<1>6. CASE Goto("enc")
  <2>1. insts' = insts /\ inst' = inst /\ pc' = "enc"
    BY <1>6 DEF Goto
  <2>2. TypeInv' /\ Made'
    BY <1>1, <2>1, Unchanged DEF Made
  <2>3. \A i \in 0..(inst' - 1) : AsAsked(insts[i])'
    BY <1>1, <2>1, EarlierKept DEF Only
  <2>4. Converted(This)'
    BY <1>1, <1>2, <2>1, ThisKept DEF This
  <2> QED BY <2>1, <2>2, <2>3, <2>4 DEF Complete, IInv
<1> QED BY <1>3, <1>4, <1>5, <1>6 DEF DisplayVideo

LEMMA EncodeVideoStep == ASSUME IInv, Made, EncodeVideo PROVE IInv'
<1>1. TypeInv /\ Same /\ pc = "enc" /\ Building
  BY DEF IInv, EncodeVideo, Same, Building
<1>2. Converted(This)
  BY <1>1 DEF IInv, Complete
<1>3. CASE pc' = "exit"
  <2>1. Goto("exit")
    BY <1>3 DEF EncodeVideo, Stage, Goto
  <2> QED BY <1>1, <2>1, Leaving
<1>4. CASE pc' # "exit" /\ conf.enc
  <2> DEFINE q == [This.para EXCEPT !.fmt = conf.encodeType]
  <2>1. PictureOK(This.para)
    BY DEF Made, InstOK, This
  <2>2. /\ PictureOK(q) /\ q.w = This.para.w /\ q.h = This.para.h
        /\ q.fmt = conf.encodeType
    BY <2>1 DEF PictureOK, Size
  <2> HIDE DEF q
  <2>3. Stage("enc", q, "writer")
    BY <1>4 DEF q, EncodeVideo
  <2>4. /\ TypeInv' /\ Made' /\ Only(inst) /\ inst' = inst /\ pc' = "writer"
        /\ insts'[inst].from = This.from /\ insts'[inst].para = q
        /\ insts'[inst].made = This.made \cup {<<This.last, "enc">>}
    BY <1>1, <1>4, <2>2, <2>3, StageMade
  <2>5. \A i \in 0..(inst' - 1) : AsAsked(insts[i])'
    BY <1>1, <2>4, EarlierKept
  <2>6. /\ This'.from = This.from /\ This'.para = q
        /\ This.made \subseteq This'.made
    BY <2>4 DEF This
  <2>7. conf' = conf
    BY <1>1 DEF Same
  <2>8. Turning(This)'
    BY <1>2, <2>6, <2>7 DEF Converted, Turning
  <2>9. Asked(This.from)' = Asked(This.from)
    BY <2>6, <2>7 DEF Asked
  <2>10. AsAsked(This)'
    BY <1>2, <1>4, <2>2, <2>6, <2>7, <2>8, <2>9 DEF Converted, AsAsked
  <2> QED BY <2>4, <2>5, <2>10 DEF Complete, IInv
<1>5. CASE Goto("writer") /\ ~conf.enc
  <2>1. insts' = insts /\ inst' = inst /\ pc' = "writer"
    BY <1>5 DEF Goto
  <2>2. TypeInv' /\ Made'
    BY <1>1, <2>1, Unchanged DEF Made
  <2>3. \A i \in 0..(inst' - 1) : AsAsked(insts[i])'
    BY <1>1, <2>1, EarlierKept DEF Only
  <2>4. AsAsked(This)
    BY <1>2, <1>5 DEF Converted, AsAsked
  <2>5. AsAsked(This)'
    BY <1>1, <2>1, <2>4, ThisKept DEF This
  <2> QED BY <2>1, <2>2, <2>3, <2>5 DEF Complete, IInv
<1> QED BY <1>3, <1>4, <1>5 DEF EncodeVideo

\* WriteFile and PushVideo.
LEMMA SinkStep ==
  ASSUME IInv, Made, Same, pc \in {"writer", "push", "rtmpUrl"},
         NEW c, NEW next \in {"push", "rtmpUrl", "save"},
         Sink(c, This.last, next) \/ Goto(next)
  PROVE  IInv'
<1>1. TypeInv /\ Building /\ AsAsked(This)
  BY DEF IInv, Building, Complete
<1>2. CASE pc' = "exit"
  <2>1. Goto("exit")
    BY <1>2 DEF Sink, Goto
  <2> QED BY <1>1, <2>1, Leaving
<1>3. CASE pc' # "exit" /\ Sink(c, This.last, next)
  <2>1. /\ TypeInv' /\ Made' /\ Only(inst) /\ inst' = inst /\ pc' = next
        /\ insts'[inst].from = This.from /\ insts'[inst].para = This.para
        /\ This.made \subseteq insts'[inst].made
    BY <1>1, <1>3, SinkMade
  <2>2. \A i \in 0..(inst' - 1) : AsAsked(insts[i])'
    BY <1>1, <2>1, EarlierKept
  <2>3. AsAsked(This)'
    BY <1>1, <2>1, ThisKept
  <2> QED BY <2>1, <2>2, <2>3 DEF Complete, IInv
<1>4. CASE Goto(next)
  <2>1. insts' = insts /\ inst' = inst /\ pc' = next
    BY <1>4 DEF Goto
  <2>2. TypeInv' /\ Made'
    BY <1>1, <2>1, Unchanged DEF Made
  <2>3. \A i \in 0..(inst' - 1) : AsAsked(insts[i])'
    BY <1>1, <2>1, EarlierKept DEF Only
  <2>4. AsAsked(This)'
    BY <1>1, <2>1, ThisKept DEF This
  <2> QED BY <2>1, <2>2, <2>3, <2>4 DEF Complete, IInv
<1> QED BY <1>2, <1>3, <1>4

LEMMA SaveToFileStep == ASSUME IInv, Made, SaveToFile PROVE IInv'
<1>1. TypeInv /\ Same /\ pc = "save" /\ Building /\ AsAsked(This)
  BY DEF IInv, SaveToFile, Same, Building, Complete
<1>2. PICK k \in 0..(Count - 1) : k = inst
  BY DEF Made
<1>3. k \in DOMAIN insts /\ InstOK(insts[k])
  BY <1>2 DEF Made
<1>4. insts' = insts \/ \E f : insts' = [insts EXCEPT ![inst].file = f]
  BY DEF SaveToFile
<1>5. Only(k) /\ SamePictures(insts[k], insts'[k])
  <2>1. CASE insts' = insts
    BY <2>1 DEF Only, SamePictures
  <2>2. CASE \E f : insts' = [insts EXCEPT ![inst].file = f]
    BY <1>2, <1>3, <2>2 DEF Only, SamePictures, InstOK, Instance
  <2> QED BY <1>4, <2>1, <2>2
<1>6. Count \in Nat
  BY <1>1 DEF TypeInv, ConfOK, Count
<1>7. inst' \in 0..(Count - 1) /\ pc' \in {"classify", "start"}
  BY <1>2, <1>6 DEF SaveToFile
<1>8. TypeInv' /\ Made'
  BY <1>1, <1>3, <1>5, <1>7, FieldSet
<1>9. \A i \in 0..(inst - 1) : AsAsked(insts[i])'
  BY <1>1, <1>2, <1>5, EarlierKept
<1>10. AsAsked(insts[k])'
  BY <1>1, <1>2, <1>5, AskedKept DEF This, SamePictures
<1>11. \A i \in 0..inst : AsAsked(insts[i])'
  <2>1. TAKE i \in 0..inst
  <2>2. i = k \/ i \in 0..(inst - 1)
    BY <1>2
  <2> QED BY <1>9, <1>10, <2>2
<1>12. Complete'
  <2>1. CASE inst + 1 < Count
    <3>1. pc' = "classify" /\ inst' = inst + 1
      BY <2>1 DEF SaveToFile
    <3>2. \A i \in 0..(inst' - 1) : AsAsked(insts[i])'
      BY <1>2, <1>11, <3>1
    <3> QED BY <3>1, <3>2 DEF Complete
  <2>2. CASE ~(inst + 1 < Count)
    <3>1. pc' = "start" /\ inst = Count - 1
      BY <1>2, <1>6, <2>2 DEF SaveToFile
    <3>2. DOMAIN insts' = 0..inst
      BY <1>5, <3>1 DEF Made, Only
    <3>3. \A i \in DOMAIN insts' : AsAsked(insts[i])'
      BY <1>11, <3>2
    <3> QED BY <3>1, <3>3 DEF Complete, Building
  <2> QED BY <2>1, <2>2
<1> QED BY <1>8, <1>12 DEF IInv

LEMMA StartInstanceStep == ASSUME IInv, Made, StartInstance PROVE IInv'
<1>1. CASE WriteFile
  BY <1>1, SinkStep DEF WriteFile, Same
<1>2. CASE PushVideo
  BY <1>2, SinkStep DEF PushVideo, Same
<1> QED BY <1>1, <1>2, ClassifyStep, OpenSourceStep, PlayAudioStep,
           DecodeVideoStep, ConvertVideoStep, DisplayVideoStep,
           EncodeVideoStep, SaveToFileStep DEF StartInstance

-----------------------------------------------------------------------------
(***************************************************************************)
(* The options, and the loops of main.                                     *)
(***************************************************************************)
LEMMA InitInv == Init => IInv
<1> SUFFICES ASSUME Init PROVE IInv
  OBVIOUS
<1>1. Len(cmd) \in Nat
  BY OptionAssumption DEF Init
<1>2. ConfOK(conf)
  BY ConfigOK DEF Init
<1>3. TypeInv
  BY <1>1, <1>2 DEF TypeInv, Init, GivenOK, Unmade
<1>4. Complete
  BY DEF Init, Complete, Building
<1> QED BY <1>3, <1>4 DEF IInv

LEMMA ParseOptionStep == ASSUME IInv, ParseOption PROVE IInv'
<1> DEFINE o == cmd[pos + 1]
<1>1. /\ TypeInv /\ pc = "options" /\ insts = << >> /\ inst = 0
      /\ pos \in Nat /\ pos < Len(cmd) /\ Len(cmd) \in Nat
  BY OptionAssumption DEF IInv, TypeInv, GivenOK, ParseOption, Unmade, Made
<1>2. GivenOK' /\ insts' = << >> /\ inst' = 0 /\ cmd' = cmd
  BY <1>1 DEF ParseOption, TypeInv, GivenOK, given
<1>3. CASE Understood(o)
  <2>1. conf' = Effect(o, conf) /\ pos' = pos + 1 /\ pc' = pc
    BY <1>3 DEF ParseOption
  <2>2. pos + 1 \in 1..Len(cmd)
    BY <1>1
  <2>3. OptionOK(o)
    <3>1. o.opt = "c" => o.arg \in Int
      BY <1>1, <2>2, OptionAssumption DEF TypeInv, GivenOK
    <3>2. o.opt = "o" => o.arg = << >> \/ o.arg \in Nat \X Nat
      BY <1>1, <2>2, OptionAssumption DEF TypeInv, GivenOK
    <3>3. o.opt = "o" => o.arg # << >>
      BY <1>3 DEF Understood
    <3> QED BY <3>1, <3>2, <3>3 DEF OptionOK
  <2>4. ConfOK(conf')
    BY <1>1, <2>1, <2>3, EffectOK DEF TypeInv
  <2>5. TypeInv'
    BY <1>1, <1>2, <2>1, <2>2, <2>4 DEF TypeInv, Unmade
  <2>6. Complete'
    BY <1>1, <2>1 DEF Complete, Building
  <2> QED BY <2>5, <2>6 DEF IInv
<1>4. CASE ~Understood(o)
  <2>1. pc' = "gone" /\ conf' = conf /\ pos' = pos
    BY <1>4 DEF ParseOption
  <2>2. TypeInv'
    BY <1>1, <1>2, <2>1 DEF TypeInv, Unmade
  <2>3. Complete'
    BY <2>1 DEF Complete, Building
  <2> QED BY <2>2, <2>3 DEF IInv
<1> QED BY <1>3, <1>4

LEMMA MakeInstancesStep == ASSUME IInv, MakeInstances PROVE IInv'
<1>1. TypeInv /\ Same /\ pc = "options" /\ inst = 0 /\ pc' = "classify" /\ inst' = 0
  BY DEF IInv, TypeInv, MakeInstances, Same
<1>2. Count' = Count /\ Count \in Nat \ {0}
  BY <1>1 DEF Count, Same, given, TypeInv, ConfOK
<1>3. insts' = [i \in 0..(Count - 1) |-> Instance]
  BY DEF MakeInstances
<1>4. InstOK(Instance) /\ Instance.window = << >>
  BY DEF InstOK, Instance, PictureOK, Size, NoPara
<1>5. \A i \in 0..(Count - 1) : InstOK(insts'[i]) /\ WindowOK(i)'
  BY <1>2, <1>3, <1>4 DEF WindowOK
<1>6. Made'
  BY <1>1, <1>2, <1>3, <1>5 DEF Made
<1>7. TypeInv'
  BY <1>1, <1>6 DEF TypeInv, GivenOK, Same, given
<1>8. Complete'
  BY <1>1 DEF Complete
<1> QED BY <1>7, <1>8 DEF IInv

LEMMA AllKept ==
  ASSUME Same, NEW k \in DOMAIN insts, Only(k), SamePictures(insts[k], insts'[k])
  PROVE  \A i \in DOMAIN insts :
           /\ SamePictures(insts[i], insts'[i])
           /\ AsAsked(insts[i]) => AsAsked(insts[i])'
           /\ Converted(insts[i]) => Converted(insts[i])'
<1>1. TAKE i \in DOMAIN insts
<1>2. SamePictures(insts[i], insts'[i])
  BY DEF Only, SamePictures
<1> QED BY <1>2, AskedKept DEF SamePictures

\* A field of one instance is set in a loop of main.
LEMMA LoopStep ==
  ASSUME IInv, Made, Same, NEW k \in 0..(Count - 1), k = inst, Only(k),
         SamePictures(insts[k], insts'[k]), NEW next, Loop(next),
         pc \in {"start", "stop", "close"},
         next \in IF pc = "start" THEN {"play"} ELSE {"close", "gone"}
  PROVE  IInv'
<1>1. TypeInv /\ k \in DOMAIN insts
  BY DEF IInv, Made
<1>2. Count \in Nat \ {0}
  BY <1>1 DEF Count, TypeInv, ConfOK
<1>3. inst' \in 0..(Count - 1) /\ pc' \in {pc, next}
  BY <1>2 DEF Loop
<1>4. pc' # "options" /\ ~Building' /\ (pc' \in {"start", "play"} => pc = "start")
  BY <1>3 DEF Building
<1>5. TypeInv'
  BY <1>1, <1>3, <1>4, FieldSet
<1>6. pc = "start" => \A i \in DOMAIN insts : AsAsked(insts[i])'
  BY <1>1, AllKept DEF IInv, Complete
<1>7. DOMAIN insts' = DOMAIN insts
  BY DEF Only
<1>8. Complete'
  BY <1>4, <1>6, <1>7 DEF Complete, Building
<1> QED BY <1>5, <1>8 DEF IInv

LEMMA StartSourceStep == ASSUME IInv, Made, StartSource PROVE IInv'
<1>1. PICK k \in 0..(Count - 1) : k = inst
  BY DEF Made
<1>2. k \in DOMAIN insts /\ InstOK(insts[k])
  BY <1>1 DEF Made
<1>3. Only(k) /\ SamePictures(insts[k], insts'[k])
  BY <1>1, <1>2 DEF StartSource, Only, SamePictures, InstOK, Instance
<1> QED BY <1>1, <1>3, LoopStep DEF StartSource, Same

LEMMA StopSourceStep == ASSUME IInv, Made, StopSource PROVE IInv'
<1>1. PICK k \in 0..(Count - 1) : k = inst
  BY DEF Made
<1>2. k \in DOMAIN insts /\ InstOK(insts[k])
  BY <1>1 DEF Made
<1>3. Only(k) /\ SamePictures(insts[k], insts'[k])
  BY <1>1, <1>2 DEF StopSource, Only, SamePictures, InstOK, Instance
<1> QED BY <1>1, <1>3, LoopStep DEF StopSource, Same

LEMMA CloseFileStep == ASSUME IInv, Made, CloseFile PROVE IInv'
<1>1. PICK k \in 0..(Count - 1) : k = inst
  BY DEF Made
<1>2. k \in DOMAIN insts /\ InstOK(insts[k])
  BY <1>1 DEF Made
<1>3. Only(k) /\ SamePictures(insts[k], insts'[k])
  BY <1>1, <1>2 DEF CloseFile, Only, SamePictures, InstOK, Instance
<1> QED BY <1>1, <1>3, LoopStep DEF CloseFile, Same

LEMMA ExitStep == ASSUME IInv, Made, Exit PROVE IInv'
<1>1. TypeInv /\ Same /\ insts' = insts /\ pc' = "stop" /\ inst' = 0
  BY DEF IInv, Exit, Same
<1>2. 0 \in 0..(Count - 1)
  BY <1>1 DEF Count, TypeInv, ConfOK
<1>3. TypeInv'
  BY <1>1, <1>2, Unchanged
<1>4. Complete'
  BY <1>1 DEF Complete, Building
<1> QED BY <1>3, <1>4 DEF IInv

\* A frame may come whatever main is doing.
LEMMA FrameStep == ASSUME IInv, Made, NEW k \in DOMAIN insts, Frame(k) PROVE IInv'
<1>1. TypeInv /\ Same /\ pc' = pc /\ inst' = inst
  BY DEF IInv, Frame, Same
<1>2. InstOK(insts[k])
  BY DEF Made
<1>3. Only(k) /\ SamePictures(insts[k], insts'[k])
  BY <1>2 DEF Frame, Only, SamePictures, InstOK, Instance
<1>4. TypeInv'
  BY <1>1, <1>3, FieldSet DEF Made
<1>5. \A i \in DOMAIN insts :
        /\ SamePictures(insts[i], insts'[i])
        /\ AsAsked(insts[i]) => AsAsked(insts[i])'
        /\ Converted(insts[i]) => Converted(insts[i])'
  BY <1>1, <1>3, AllKept
<1>6. DOMAIN insts' = DOMAIN insts /\ inst \in DOMAIN insts
  BY <1>3 DEF Only, Made
<1>7. 0..(inst - 1) \subseteq DOMAIN insts
  BY <1>1 DEF Made, TypeInv, ConfOK, Count
<1>8. (Building => \A i \in 0..(inst - 1) : AsAsked(insts[i]))'
  BY <1>1, <1>5, <1>7 DEF IInv, Complete, Building
<1>9. (pc \in {"start", "play"} => \A i \in DOMAIN insts : AsAsked(insts[i]))'
  BY <1>1, <1>5, <1>6 DEF IInv, Complete
<1>10. (pc \in {"aacDec", "dec", "rga"} =>
         This.para.w = This.from.w /\ This.para.h = This.from.h)'
  BY <1>1, <1>5, <1>6 DEF IInv, Complete, SamePictures, This
<1>11. PICK m \in DOMAIN insts : m = inst
  BY <1>6
<1>12. SamePictures(This, This')
  BY <1>1, <1>5, <1>6 DEF This
<1>13. /\ AsAsked(This) => AsAsked(This)'
       /\ Converted(This) => Converted(This)'
  BY <1>1, <1>12, ThisKept DEF SamePictures, This
<1>14. Complete'
  BY <1>1, <1>8, <1>9, <1>10, <1>13 DEF IInv, Complete
<1> QED BY <1>4, <1>14 DEF IInv

LEMMA PressQStep == ASSUME IInv, Made, PressQ PROVE IInv'
  BY Leaving DEF IInv, PressQ, Same

LEMMA NextInv == ASSUME IInv, [Next]_vars PROVE IInv'
<1>1. CASE Made
  <2>1. CASE Main
    <3>1. ~MakeInstances /\ ~ParseOption
      BY <1>1 DEF Made, MakeInstances, ParseOption
    <3> QED BY <1>1, <2>1, <3>1, StartInstanceStep, StartSourceStep, PressQStep,
               ExitStep, StopSourceStep, CloseFileStep DEF Main
  <2>2. CASE MediaThreads
    BY <1>1, <2>2, FrameStep DEF MediaThreads
  <2>3. CASE UNCHANGED vars
    <3>1. TypeInv' /\ Made'
      BY <1>1, <2>3, Unchanged DEF IInv, vars, Same, Made
    <3>2. Complete'
      BY <2>3 DEF IInv, Complete, Building, AsAsked, Converted, Asked, Turning,
                  This, vars
    <3> QED BY <3>1, <3>2 DEF IInv
  <2> QED BY <2>1, <2>2, <2>3 DEF Next, Gone
<1>2. CASE Unmade
  <2>1. CASE ParseOption
    BY <2>1, ParseOptionStep
  <2>2. CASE MakeInstances
    BY <2>2, MakeInstancesStep
  <2>3. CASE UNCHANGED vars
    <3>1. TypeInv'
      BY <1>2, <2>3 DEF IInv, TypeInv, GivenOK, Unmade, vars, given
    <3>2. Complete'
      BY <1>2, <2>3 DEF Complete, Building, Unmade, vars
    <3> QED BY <3>1, <3>2 DEF IInv
  <2>4. ~StartInstance
    BY <1>2 DEF Unmade, StartInstance, Classify, OpenSource, PlayAudio,
                DecodeVideo, ConvertVideo, DisplayVideo, EncodeVideo, WriteFile,
                PushVideo, SaveToFile
  <2>5. ~StartSource /\ ~PressQ /\ ~Exit /\ ~StopSource /\ ~CloseFile
    BY <1>2 DEF Unmade, StartSource, PressQ, Exit, StopSource, CloseFile
  <2>6. ~MediaThreads
    BY <1>2 DEF Unmade, MediaThreads
  <2> QED BY <2>1, <2>2, <2>3, <2>4, <2>5, <2>6 DEF Next, Main, Gone
<1> QED BY <1>1, <1>2 DEF IInv, TypeInv

(***************************************************************************)
(* The invariant holds whenever the options are numbers where numbers are  *)
(* read and the pictures and the display have sizes.                       *)
(***************************************************************************)
THEOREM Inductive == Spec => []IInv
<1>1. Init => IInv
  BY InitInv
<1>2. IInv /\ [Next]_vars => IInv'
  BY NextInv
<1> QED BY <1>1, <1>2, PTL DEF Spec

(***************************************************************************)
(* However many instances there are, their windows are on the display and  *)
(* apart (demo.cpp:502-532).                                               *)
(***************************************************************************)
THEOREM WindowsAlwaysApart == Spec => []WindowsApart
<1>1. IInv => WindowsApart
  <2> SUFFICES ASSUME IInv, NEW i \in Shown
      PROVE  /\ Inside(insts[i].window, plane)
             /\ \A j \in Shown \ {i} : Apart(insts[i].window, insts[j].window)
    BY DEF WindowsApart
  <2>1. Made
    BY DEF IInv, TypeInv, Unmade, Shown
  <2>2. Count \in Nat \ {0} /\ plane \in Nat \X Nat
    BY SizeAssumption DEF IInv, TypeInv, GivenOK, ConfOK, Count
  <2>3. i \in 0..(Count - 1)
    BY <2>1 DEF Made, Shown
  <2>4. PICK q : Size(q) /\ insts[i].window = Window(i, Count, plane, q)
    BY <2>1, <2>3 DEF Made, WindowOK, Shown
  <2>5. Inside(insts[i].window, plane)
    BY <2>2, <2>3, <2>4, WindowInside
  <2>6. ASSUME NEW j \in Shown \ {i}
        PROVE  Apart(insts[i].window, insts[j].window)
    <3>1. j \in 0..(Count - 1)
      BY <2>1 DEF Made, Shown
    <3>2. PICK r : Size(r) /\ insts[j].window = Window(j, Count, plane, r)
      BY <2>1, <3>1 DEF Made, WindowOK, Shown
    <3>3. Apart(Window(i, Count, plane, q), Window(j, Count, plane, r))
      BY <2>2, <2>3, <2>4, <3>1, <3>2, WindowsOfGridApart
    <3> QED BY <2>4, <3>2, <3>3
  <2> QED BY <2>5, <2>6
<1> QED BY <1>1, Inductive, PTL

(***************************************************************************)
(* When the sources are started, every instance gives the size, format and *)
(* rotation asked for, whatever the options and the source (demo.cpp:      *)
(* 409-484).                                                               *)
(***************************************************************************)
THEOREM OutputAlwaysAsAsked == Spec => []OutputAsAsked
<1>1. IInv => OutputAsAsked
  BY DEF IInv, Complete, OutputAsAsked
<1> QED BY <1>1, Inductive, PTL

-----------------------------------------------------------------------------
(***************************************************************************)
(* The life of an instance: what its fields can hold, that nothing runs    *)
(* and nothing is saved while instances are built, that a source which     *)
(* runs has its file open, and that all have stopped when the files are    *)
(* closed.                                                                 *)
(***************************************************************************)
Kept(r, q) ==
  /\ r.source \in {"none", "rtsp", "rtmp", "char", "regular"}
  /\ r.last \in {"none", "source", "dec", "rga", "enc"}
  /\ r.dec \in BOOLEAN /\ r.on \in BOOLEAN
  /\ r.from \in {q, NoPara}
  /\ r.file \in {"none", "open", "closed"}
  /\ \A e \in r.made : e[1] # e[2]
  /\ r.saved \in {<< >>, Dumped(r.from)}

Idle(r) == ~r.on /\ r.file # "closed" /\ r.saved = << >>

Running(r, p) ==
  /\ p \notin {"start", "play", "exit", "stop", "close", "gone"} => Idle(r)
  /\ r.on => p \in {"start", "play", "exit", "stop"}
  /\ r.file = "closed" => p \in {"close", "gone"}

Living == \A i \in DOMAIN insts : Kept(insts[i], input.para) /\ Running(insts[i], pc)

LastKnown ==
  /\ pc \in {"aacDec", "dec"} => This.last = "source"
  /\ pc = "rga" => This.last \in {"source", "dec"}
  /\ pc \in {"display", "enc"} => This.last \in {"source", "dec", "rga"}

Stopping == pc = "stop" => \A i \in 0..(inst - 1) : ~insts[i].on

LInv == pc \in Steps /\ Living /\ LastKnown /\ Stopping

(***************************************************************************)
(* The other instances live on, and so does the one at hand.               *)
(***************************************************************************)
LEMMA IdleAnywhere ==
  ASSUME NEW r, NEW p, Idle(r) PROVE Running(r, p)
BY DEF Idle, Running

LEMMA LivingStep ==
  ASSUME Living, NEW k \in DOMAIN insts, Only(k), input' = input,
         Kept(insts'[k], input.para), Running(insts'[k], pc'),
         \A i \in DOMAIN insts : i # k => Running(insts[i], pc')
  PROVE  Living'
<1> SUFFICES ASSUME NEW i \in DOMAIN insts
             PROVE  Kept(insts'[i], input.para) /\ Running(insts'[i], pc')
  BY DEF Living, Only
<1>1. CASE i = k
  BY <1>1
<1>2. CASE i # k
  <2>1. insts'[i] = insts[i] /\ Kept(insts[i], input.para)
    BY <1>2 DEF Only, Living
  <2> QED BY <1>2, <2>1
<1> QED BY <1>1, <1>2

LEMMA BuildingIdle ==
  ASSUME Living, Building PROVE \A i \in DOMAIN insts : Idle(insts[i])
BY DEF Living, Building, Running

\* A module is made, or a field set, while nothing runs.
LEMMA BuildStep ==
  ASSUME Living, Building, Same, NEW k \in DOMAIN insts, Only(k),
         Kept(insts'[k], input.para), Idle(insts'[k])
  PROVE  Living'
<1>1. \A i \in DOMAIN insts : i # k => Running(insts[i], pc')
  BY BuildingIdle, IdleAnywhere
<1>2. Running(insts'[k], pc') /\ input' = input
  BY IdleAnywhere DEF Same, given
<1> QED BY <1>1, <1>2, LivingStep

LEMMA GoStep ==
  ASSUME Living, Same, insts' = insts,
         \A i \in DOMAIN insts : Running(insts[i], pc')
  PROVE  Living'
BY DEF Living, Same, given

(***************************************************************************)
(* Making a module leaves the other fields alone.                          *)
(***************************************************************************)
Rest(r, s) ==
  /\ s.source = r.source /\ s.dec = r.dec /\ s.on = r.on
  /\ s.file = r.file /\ s.saved = r.saved /\ s.from = r.from

LEMMA FieldsOf ==
  ASSUME Made
  PROVE  \E k \in DOMAIN insts :
           /\ k = inst /\ This = insts[k]
           /\ DOMAIN insts[k] = {"source", "made", "last", "from", "para", "dec",
                                 "window", "file", "saved", "on"}
BY DEF Made, InstOK, Instance, This

LEMMA StageFields ==
  ASSUME Made, NEW c, NEW q, NEW next, Stage(c, q, next), ~Goto("exit")
  PROVE  \E k \in DOMAIN insts :
           /\ k = inst /\ Only(k) /\ inst' = inst /\ pc' = next
           /\ Rest(insts[k], insts'[k])
           /\ insts'[k].last = c
           /\ insts'[k].made = insts[k].made \cup {<<insts[k].last, c>>}
<1>1. PICK k \in DOMAIN insts :
        /\ k = inst /\ This = insts[k]
        /\ DOMAIN insts[k] = {"source", "made", "last", "from", "para", "dec",
                              "window", "file", "saved", "on"}
  BY FieldsOf
<1>2. /\ insts' = [insts EXCEPT ![inst].made = @ \cup {<<This.last, c>>},
                                ![inst].last = c, ![inst].para = q]
      /\ pc' = next /\ inst' = inst
  BY DEF Stage
<1>3. insts'[k] = [insts[k] EXCEPT !.made = @ \cup {<<insts[k].last, c>>},
                                   !.last = c, !.para = q]
  BY <1>1, <1>2
<1>4. Only(k)
  BY <1>1, <1>2 DEF Only
<1>5. /\ Rest(insts[k], insts'[k]) /\ insts'[k].last = c
      /\ insts'[k].made = insts[k].made \cup {<<insts[k].last, c>>}
  BY <1>1, <1>3 DEF Rest
<1> QED BY <1>1, <1>2, <1>4, <1>5

LEMMA SinkFields ==
  ASSUME Made, NEW c, NEW p, NEW next, Sink(c, p, next), ~Goto("exit")
  PROVE  \E k \in DOMAIN insts :
           /\ k = inst /\ Only(k) /\ inst' = inst /\ pc' = next
           /\ Rest(insts[k], insts'[k])
           /\ insts'[k].last = insts[k].last
           /\ insts'[k].made = insts[k].made \cup {<<p, c>>}
<1>1. PICK k \in DOMAIN insts :
        /\ k = inst /\ This = insts[k]
        /\ DOMAIN insts[k] = {"source", "made", "last", "from", "para", "dec",
                              "window", "file", "saved", "on"}
  BY FieldsOf
<1>2. /\ insts' = [insts EXCEPT ![inst].made = @ \cup {<<p, c>>}]
      /\ pc' = next /\ inst' = inst
  BY DEF Sink
<1>3. insts'[k] = [insts[k] EXCEPT !.made = @ \cup {<<p, c>>}]
  BY <1>1, <1>2
<1>4. Only(k)
  BY <1>1, <1>2 DEF Only
<1>5. /\ Rest(insts[k], insts'[k]) /\ insts'[k].last = insts[k].last
      /\ insts'[k].made = insts[k].made \cup {<<p, c>>}
  BY <1>1, <1>3 DEF Rest
<1> QED BY <1>1, <1>2, <1>4, <1>5

\* Main gives up, or goes on without the module.
LEMMA GotoLives ==
  ASSUME LInv, Building, Same, NEW next \in Steps \ {"options", "stop"},
         Goto(next),
         /\ next \in {"aacDec", "dec"} => This.last = "source"
         /\ next = "rga" => This.last \in {"source", "dec"}
         /\ next \in {"display", "enc"} => This.last \in {"source", "dec", "rga"}
  PROVE  LInv'
<1>1. pc' = next /\ inst' = inst /\ insts' = insts
  BY DEF Goto
<1>2. \A i \in DOMAIN insts : Running(insts[i], pc')
  BY BuildingIdle, IdleAnywhere DEF LInv
<1>3. Living'
  BY <1>1, <1>2, GoStep DEF LInv
<1>4. This' = This
  BY <1>1 DEF This
<1>5. LastKnown' /\ Stopping'
  BY <1>1, <1>4 DEF LastKnown, Stopping
<1> QED BY <1>1, <1>3, <1>5 DEF LInv

LEMMA StageLives ==
  ASSUME LInv, Made, Building, Same, NEW c \in {"dec", "rga", "enc"}, NEW q,
         NEW next, Stage(c, q, next), This.last # c,
         \/ c = "dec" /\ next = "rga"
         \/ c = "rga" /\ next = "display"
         \/ c = "enc" /\ next = "writer"
  PROVE  LInv'
<1>1. CASE Goto("exit")
  BY <1>1, GotoLives DEF Steps
<1>2. CASE ~Goto("exit")
  <2>1. PICK k \in DOMAIN insts :
          /\ k = inst /\ Only(k) /\ inst' = inst /\ pc' = next
          /\ Rest(insts[k], insts'[k])
          /\ insts'[k].last = c
          /\ insts'[k].made = insts[k].made \cup {<<insts[k].last, c>>}
    BY <1>2, StageFields
  <2>2. Kept(insts[k], input.para) /\ Idle(insts[k]) /\ insts[k].last # c
    BY <2>1, BuildingIdle DEF LInv, Living, This
  <2>3. Kept(insts'[k], input.para) /\ Idle(insts'[k])
    BY <2>1, <2>2 DEF Kept, Idle, Rest
  <2>4. Living'
    BY <2>1, <2>3, BuildStep DEF LInv
  <2>5. This'.last = c
    BY <2>1 DEF This
  <2>6. LastKnown' /\ Stopping' /\ pc' \in Steps
    BY <2>1, <2>5 DEF LastKnown, Stopping, Steps
  <2> QED BY <2>4, <2>6 DEF LInv
<1> QED BY <1>1, <1>2

LEMMA SinkLives ==
  ASSUME LInv, Made, Building, Same, NEW c, NEW p,
         NEW next \in {"dec", "enc", "push", "rtmpUrl", "save"},
         Sink(c, p, next), p # c,
         /\ next = "dec" => This.last = "source"
         /\ next = "enc" => This.last \in {"source", "dec", "rga"}
  PROVE  LInv'
<1>1. CASE Goto("exit")
  BY <1>1, GotoLives DEF Steps
<1>2. CASE ~Goto("exit")
  <2>1. PICK k \in DOMAIN insts :
          /\ k = inst /\ Only(k) /\ inst' = inst /\ pc' = next
          /\ Rest(insts[k], insts'[k])
          /\ insts'[k].last = insts[k].last
          /\ insts'[k].made = insts[k].made \cup {<<p, c>>}
    BY <1>2, SinkFields
  <2>2. Kept(insts[k], input.para) /\ Idle(insts[k])
    BY <2>1, BuildingIdle DEF LInv, Living
  <2>3. Kept(insts'[k], input.para) /\ Idle(insts'[k])
    BY <2>1, <2>2 DEF Kept, Idle, Rest
  <2>4. Living'
    BY <2>1, <2>3, BuildStep DEF LInv
  <2>5. This'.last = This.last
    BY <2>1 DEF This
  <2>6. LastKnown' /\ Stopping' /\ pc' \in Steps
    BY <2>1, <2>5 DEF LastKnown, Stopping, Steps
  <2> QED BY <2>4, <2>6 DEF LInv
<1> QED BY <1>1, <1>2

(***************************************************************************)
(* start_instance, module by module.                                       *)
(***************************************************************************)
LEMMA ClassifyLives == ASSUME LInv, Made, Classify PROVE LInv'
<1>1. Same /\ Building
  BY DEF Classify, Same, Building
<1>2. CASE Goto("gone")
  BY <1>1, <1>2, GotoLives DEF Steps
<1>3. CASE ~Goto("gone")
  <2>1. PICK k \in DOMAIN insts :
          /\ k = inst /\ This = insts[k]
          /\ DOMAIN insts[k] = {"source", "made", "last", "from", "para", "dec",
                                "window", "file", "saved", "on"}
    BY FieldsOf
  <2>2. PICK u : u = IF input.url \in {"rtsp", "rtmp"} THEN input.url ELSE input.type
    OBVIOUS
  <2>3. PICK d \in BOOLEAN : d = (input.url = "path" /\ input.container)
    <3>1. (input.url = "path" /\ input.container) \in BOOLEAN
      OBVIOUS
    <3> QED BY <3>1
  <2>4. /\ insts' = [insts EXCEPT ![inst].source = u, ![inst].dec = d]
        /\ pc' = "source" /\ inst' = inst
        /\ u \in {"rtsp", "rtmp", "char", "regular"}
    BY <1>3, <2>2, <2>3 DEF Classify
  <2>5. Only(k)
    BY <2>1, <2>4 DEF Only
  <2>6. insts'[k] = [insts[k] EXCEPT !.source = u, !.dec = d]
    BY <2>1, <2>4
  <2>7. Kept(insts[k], input.para) /\ Idle(insts[k])
    BY <1>1, BuildingIdle DEF LInv, Living
  <2>8. Kept(insts'[k], input.para) /\ Idle(insts'[k])
    BY <2>1, <2>3, <2>4, <2>6, <2>7 DEF Kept, Idle
  <2>9. Living'
    BY <1>1, <2>5, <2>8, BuildStep DEF LInv
  <2> QED BY <2>4, <2>9 DEF LInv, LastKnown, Stopping, Steps
<1> QED BY <1>2, <1>3

LEMMA OpenSourceLives == ASSUME LInv, Made, OpenSource PROVE LInv'
<1>1. Same /\ Building
  BY DEF OpenSource, Same, Building
<1>2. CASE Goto("exit")
  BY <1>1, <1>2, GotoLives DEF Steps
<1>3. CASE ~Goto("exit")
  <2>1. PICK k \in DOMAIN insts :
          /\ k = inst /\ This = insts[k]
          /\ DOMAIN insts[k] = {"source", "made", "last", "from", "para", "dec",
                                "window", "file", "saved", "on"}
    BY FieldsOf
  <2>2. /\ insts' = [insts EXCEPT ![inst].made = {<<"none", "source">>},
                                  ![inst].last = "source",
                                  ![inst].from = input.para,
                                  ![inst].para = input.para]
        /\ pc' = "aacDec" /\ inst' = inst
    BY <1>3 DEF OpenSource
  <2>3. Only(k)
    BY <2>1, <2>2 DEF Only
  <2>4. insts'[k] = [insts[k] EXCEPT !.made = {<<"none", "source">>},
                                     !.last = "source", !.from = input.para,
                                     !.para = input.para]
    BY <2>1, <2>2
  <2>5. Kept(insts[k], input.para) /\ Idle(insts[k])
    BY <1>1, BuildingIdle DEF LInv, Living
  <2>6. /\ insts'[k].made = {<<"none", "source">>} /\ insts'[k].last = "source"
        /\ insts'[k].from = input.para /\ insts'[k].on = insts[k].on
        /\ insts'[k].file = insts[k].file /\ insts'[k].saved = insts[k].saved
        /\ insts'[k].source = insts[k].source /\ insts'[k].dec = insts[k].dec
    BY <2>1, <2>4
  <2>7. Kept(insts'[k], input.para) /\ Idle(insts'[k])
    BY <2>5, <2>6 DEF Kept, Idle
  <2>8. Living'
    BY <1>1, <2>3, <2>7, BuildStep DEF LInv
  <2>9. This'.last = "source"
    BY <2>1, <2>2, <2>6 DEF This
  <2> QED BY <2>2, <2>8, <2>9 DEF LInv, LastKnown, Stopping, Steps
<1> QED BY <1>2, <1>3

\* The audio, the conversions, the display and the ends of the line.
LEMMA ModulesLive ==
  ASSUME LInv, Made,
         PlayAudio \/ DecodeVideo \/ ConvertVideo \/ DisplayVideo
           \/ EncodeVideo \/ WriteFile \/ PushVideo
  PROVE  LInv'
<1>1. Same /\ Building
  BY DEF PlayAudio, DecodeVideo, ConvertVideo, DisplayVideo, EncodeVideo,
     WriteFile, PushVideo, Same, Building
<1>2. This.last \in {"none", "source", "dec", "rga", "enc"}
  BY DEF LInv, Living, Kept, Made, This
<1>3. CASE PlayAudio
  <2>1. This.last = "source"
    BY <1>3 DEF PlayAudio, LInv, LastKnown
  <2>2. Sink("aacDec", "source", "dec") => LInv'
    BY <1>1, <2>1, SinkLives
  <2>3. Goto("dec") => LInv'
    BY <1>1, <2>1, GotoLives DEF Steps
  <2> QED BY <1>3, <2>2, <2>3 DEF PlayAudio
<1>4. CASE DecodeVideo
  <2>1. This.last = "source"
    BY <1>4 DEF DecodeVideo, LInv, LastKnown
  <2>2. PICK q : q = [This.from EXCEPT !.fmt = "NV12"]
    OBVIOUS
  <2>3. Stage("dec", q, "rga") => LInv'
    BY <1>1, <2>1, StageLives
  <2>4. Goto("rga") => LInv'
    BY <1>1, <2>1, GotoLives DEF Steps
  <2> QED BY <1>4, <2>2, <2>3, <2>4 DEF DecodeVideo
<1>5. CASE ConvertVideo
  <2>1. This.last \in {"source", "dec"}
    BY <1>5 DEF ConvertVideo, LInv, LastKnown
  <2>2. PICK q : q = IF conf.rotate \in {90, 270}
                     THEN Turned(Output(conf, This.from))
                     ELSE Output(conf, This.from)
    OBVIOUS
  <2>3. Stage("rga", q, "display") => LInv'
    BY <1>1, <2>1, StageLives
  <2>4. Goto("display") => LInv'
    BY <1>1, <2>1, GotoLives DEF Steps
  <2> QED BY <1>5, <2>2, <2>3, <2>4 DEF ConvertVideo
<1>6. CASE DisplayVideo
  <2>1. This.last \in {"source", "dec", "rga"}
    BY <1>6 DEF DisplayVideo, LInv, LastKnown
  <2>2. Sink("x11", This.last, "enc") => LInv'
    BY <1>1, <2>1, SinkLives
  <2>3. Goto("enc") => LInv'
    BY <1>1, <2>1, GotoLives DEF Steps
  <2>4. Goto("exit") => LInv'
    BY <1>1, GotoLives DEF Steps
  <2>5. ASSUME NEW m, NEW z,
               insts' = [insts EXCEPT ![inst].made = @ \cup {m},
                                      ![inst].window = z],
               m = <<This.last, "display">>, pc' = "enc", inst' = inst
        PROVE  LInv'
    <3>1. PICK k \in DOMAIN insts :
            /\ k = inst /\ This = insts[k]
            /\ DOMAIN insts[k] = {"source", "made", "last", "from", "para", "dec",
                                  "window", "file", "saved", "on"}
      BY FieldsOf
    <3>2. Only(k)
      BY <2>5, <3>1 DEF Only
    <3>3. insts'[k] = [insts[k] EXCEPT !.made = @ \cup {m}, !.window = z]
      BY <2>5, <3>1
    <3>4. /\ insts'[k].made = insts[k].made \cup {m} /\ insts'[k].last = insts[k].last
          /\ Rest(insts[k], insts'[k])
      BY <3>1, <3>3 DEF Rest
    <3>5. Kept(insts[k], input.para) /\ Idle(insts[k])
      BY <1>1, BuildingIdle DEF LInv, Living
    <3>6. m[1] # m[2]
      BY <2>1, <2>5
    <3>7. Kept(insts'[k], input.para) /\ Idle(insts'[k])
      BY <3>4, <3>5, <3>6 DEF Kept, Idle, Rest
    <3>8. Living'
      BY <1>1, <3>2, <3>7, BuildStep DEF LInv
    <3>9. This'.last = This.last
      BY <2>5, <3>1, <3>4 DEF This
    <3> QED BY <2>1, <2>5, <3>8, <3>9 DEF LInv, LastKnown, Stopping, Steps
  <2> QED BY <1>6, <2>2, <2>3, <2>4, <2>5 DEF DisplayVideo
<1>7. CASE EncodeVideo
  <2>1. This.last \in {"source", "dec", "rga"}
    BY <1>7 DEF EncodeVideo, LInv, LastKnown
  <2>2. PICK q : q = [This.para EXCEPT !.fmt = conf.encodeType]
    OBVIOUS
  <2>3. Stage("enc", q, "writer") => LInv'
    BY <1>1, <2>1, StageLives
  <2>4. Goto("writer") => LInv'
    BY <1>1, GotoLives DEF Steps
  <2> QED BY <1>7, <2>2, <2>3, <2>4 DEF EncodeVideo
<1>8. CASE WriteFile
  <2>1. Sink("writer", This.last, "push") => LInv'
    BY <1>1, <1>2, SinkLives
  <2>2. Goto("push") => LInv'
    BY <1>1, GotoLives DEF Steps
  <2> QED BY <1>8, <2>1, <2>2 DEF WriteFile
<1>9. CASE PushVideo
  <2>1. \A c \in {"rtmpServer", "rtspServer"} : Sink(c, This.last, "rtmpUrl") => LInv'
    BY <1>1, <1>2, SinkLives
  <2>2. Sink("rtmpPush", This.last, "save") => LInv'
    BY <1>1, <1>2, SinkLives
  <2>3. Goto("rtmpUrl") \/ Goto("save") => LInv'
    BY <1>1, GotoLives DEF Steps
  <2> QED BY <1>9, <2>1, <2>2, <2>3 DEF PushVideo
<1> QED BY <1>3, <1>4, <1>5, <1>6, <1>7, <1>8, <1>9

LEMMA SaveToFileLives == ASSUME LInv, Made, SaveToFile PROVE LInv'
<1>1. Same /\ Building /\ pc' \in {"classify", "start"}
  BY DEF SaveToFile, Same, Building
<1>2. Living'
  <2>1. CASE insts' = insts
    <3>1. \A i \in DOMAIN insts : Running(insts[i], pc')
      BY <1>1, BuildingIdle, IdleAnywhere DEF LInv
    <3> QED BY <1>1, <2>1, <3>1, GoStep DEF LInv
  <2>2. CASE \E f \in {"open", "none"} : insts' = [insts EXCEPT ![inst].file = f]
    <3>1. PICK f \in {"open", "none"} : insts' = [insts EXCEPT ![inst].file = f]
      BY <2>2
    <3>2. PICK k \in DOMAIN insts :
            /\ k = inst /\ This = insts[k]
            /\ DOMAIN insts[k] = {"source", "made", "last", "from", "para", "dec",
                                  "window", "file", "saved", "on"}
      BY FieldsOf
    <3>3. Only(k) /\ insts'[k] = [insts[k] EXCEPT !.file = f]
      BY <3>1, <3>2 DEF Only
    <3>4. Kept(insts[k], input.para) /\ Idle(insts[k])
      BY <1>1, BuildingIdle DEF LInv, Living
    <3>5. Kept(insts'[k], input.para) /\ Idle(insts'[k])
      BY <3>2, <3>3, <3>4 DEF Kept, Idle
    <3> QED BY <1>1, <3>3, <3>5, BuildStep DEF LInv
  <2> QED BY <2>1, <2>2 DEF SaveToFile
<1> QED BY <1>1, <1>2 DEF LInv, LastKnown, Stopping, Steps

(***************************************************************************)
(* The loops of main, the frames and the end.                              *)
(***************************************************************************)
LEMMA StartSourceLives == ASSUME LInv, Made, StartSource PROVE LInv'
<1>1. Same /\ pc = "start" /\ pc' \in {"start", "play"}
  BY DEF StartSource, Same, Loop
<1>2. PICK k \in DOMAIN insts :
        /\ k = inst /\ This = insts[k]
        /\ DOMAIN insts[k] = {"source", "made", "last", "from", "para", "dec",
                              "window", "file", "saved", "on"}
  BY FieldsOf
<1>3. Only(k) /\ insts'[k] = [insts[k] EXCEPT !.on = TRUE]
  BY <1>2 DEF Only, StartSource
<1>4. \A i \in DOMAIN insts : Kept(insts[i], input.para) /\ Running(insts[i], pc)
  BY DEF LInv, Living
<1>5. Kept(insts'[k], input.para)
  BY <1>2, <1>3, <1>4 DEF Kept
<1>6. Running(insts'[k], pc')
  BY <1>1, <1>2, <1>3, <1>4 DEF Running
<1>7. \A i \in DOMAIN insts : i # k => Running(insts[i], pc')
  BY <1>1, <1>4 DEF Running
<1>8. Living'
  BY <1>1, <1>3, <1>5, <1>6, <1>7, LivingStep DEF LInv, Same, given
<1> QED BY <1>1, <1>8 DEF LInv, LastKnown, Stopping, Steps

LEMMA StopSourceLives == ASSUME IInv, LInv, Made, StopSource PROVE LInv'
<1>1. Same /\ pc = "stop" /\ pc' \in {"stop", "close"}
  BY DEF StopSource, Same, Loop
<1>2. PICK k \in DOMAIN insts :
        /\ k = inst /\ This = insts[k]
        /\ DOMAIN insts[k] = {"source", "made", "last", "from", "para", "dec",
                              "window", "file", "saved", "on"}
  BY FieldsOf
<1>3. Only(k) /\ insts'[k] = [insts[k] EXCEPT !.on = FALSE]
  BY <1>2 DEF Only, StopSource
<1>4. \A i \in DOMAIN insts : Kept(insts[i], input.para) /\ Running(insts[i], pc)
  BY DEF LInv, Living
<1>5. Kept(insts'[k], input.para) /\ ~insts'[k].on
  BY <1>2, <1>3, <1>4 DEF Kept
<1>6. Count \in Nat /\ DOMAIN insts = 0..(Count - 1) /\ inst \in 0..(Count - 1)
  BY DEF IInv, TypeInv, ConfOK, Count, Made
<1>7. \A i \in 0..inst : i \in DOMAIN insts /\ ~insts'[i].on
  <2> TAKE i \in 0..inst
  <2>1. i \in DOMAIN insts
    BY <1>6
  <2>2. i # k => i \in 0..(inst - 1)
    BY <1>2, <1>6
  <2>3. i # k => ~insts[i].on
    BY <1>1, <2>2 DEF LInv, Stopping
  <2> QED BY <1>3, <1>5, <2>1, <2>3 DEF Only
<1>8. pc' = "close" => \A i \in DOMAIN insts : ~insts'[i].on
  <2>1. pc' = "close" => inst = Count - 1
    BY <1>6 DEF StopSource, Loop
  <2> QED BY <1>6, <1>7, <2>1
<1>9. Running(insts'[k], pc')
  BY <1>1, <1>2, <1>3, <1>4, <1>5 DEF Running
<1>10. \A i \in DOMAIN insts : i # k => Running(insts[i], pc')
  <2> SUFFICES ASSUME NEW i \in DOMAIN insts, i # k PROVE Running(insts[i], pc')
    OBVIOUS
  <2>1. pc' = "close" => ~insts[i].on
    BY <1>3, <1>8 DEF Only
  <2> QED BY <1>1, <1>4, <2>1 DEF Running
<1>11. Living'
  BY <1>1, <1>3, <1>5, <1>9, <1>10, LivingStep DEF LInv, Same, given
<1>12. Stopping'
  <2> SUFFICES ASSUME pc' = "stop", NEW i \in 0..(inst' - 1) PROVE ~insts'[i].on
    BY DEF Stopping
  <2>1. inst' = inst + 1
    BY <1>1 DEF StopSource, Loop
  <2> QED BY <1>6, <1>7, <2>1
<1> QED BY <1>1, <1>11, <1>12 DEF LInv, LastKnown, Steps

LEMMA CloseFileLives == ASSUME LInv, Made, CloseFile PROVE LInv'
<1>1. Same /\ pc = "close" /\ pc' \in {"close", "gone"}
  BY DEF CloseFile, Same, Loop
<1>2. PICK k \in DOMAIN insts :
        /\ k = inst /\ This = insts[k]
        /\ DOMAIN insts[k] = {"source", "made", "last", "from", "para", "dec",
                              "window", "file", "saved", "on"}
  BY FieldsOf
<1>3. \A i \in DOMAIN insts : Kept(insts[i], input.para) /\ Running(insts[i], pc)
  BY DEF LInv, Living
<1>4. PICK f : f = IF insts[k].file = "open" THEN "closed" ELSE insts[k].file
  OBVIOUS
<1>5. Only(k) /\ insts'[k] = [insts[k] EXCEPT !.file = f]
  BY <1>2, <1>4 DEF Only, CloseFile
<1>6. Kept(insts'[k], input.para)
  BY <1>2, <1>3, <1>4, <1>5 DEF Kept
<1>7. Running(insts'[k], pc')
  BY <1>1, <1>2, <1>3, <1>5 DEF Running
<1>8. \A i \in DOMAIN insts : i # k => Running(insts[i], pc')
  BY <1>1, <1>3 DEF Running
<1>9. Living'
  BY <1>1, <1>5, <1>6, <1>7, <1>8, LivingStep DEF LInv, Same, given
<1> QED BY <1>1, <1>9 DEF LInv, LastKnown, Stopping, Steps

LEMMA FrameLives == ASSUME IInv, LInv, Made, NEW k \in DOMAIN insts, Frame(k) PROVE LInv'
<1>1. Same /\ pc' = pc /\ inst' = inst /\ insts[k].on
  BY DEF Frame, Same
<1>2. \A i \in DOMAIN insts : Kept(insts[i], input.para) /\ Running(insts[i], pc)
  BY DEF LInv, Living
<1>3. DOMAIN insts[k] = {"source", "made", "last", "from", "para", "dec",
                         "window", "file", "saved", "on"}
  BY DEF Made, InstOK, Instance
<1>4. PICK d \in {<< >>, Dumped(insts[k].from)} :
        insts' = [insts EXCEPT ![k].saved = d]
  BY DEF Frame
<1>5. Only(k) /\ insts'[k] = [insts[k] EXCEPT !.saved = d]
  BY <1>4 DEF Only
<1>6. Kept(insts'[k], input.para)
  BY <1>2, <1>3, <1>4, <1>5 DEF Kept
<1>7. Running(insts'[k], pc')
  BY <1>1, <1>2, <1>3, <1>5 DEF Running, Idle
<1>8. Living'
  BY <1>1, <1>2, <1>5, <1>6, <1>7, LivingStep DEF LInv, Same, given
<1>9. pc \in {"start", "play", "exit", "stop"}
  BY <1>1, <1>2 DEF Running
<1>10. \A i \in DOMAIN insts : insts'[i].on = insts[i].on
  BY <1>3, <1>5 DEF Only
<1>11. Stopping'
  <2> SUFFICES ASSUME pc = "stop", NEW i \in 0..(inst - 1) PROVE ~insts'[i].on
    BY <1>1 DEF Stopping
  <2>1. Count \in Nat /\ inst \in 0..(Count - 1) /\ DOMAIN insts = 0..(Count - 1)
    BY DEF IInv, TypeInv, ConfOK, Count, Made
  <2>2. i \in DOMAIN insts
    BY <2>1
  <2>3. ~insts[i].on
    BY DEF LInv, Stopping
  <2> QED BY <1>10, <2>2, <2>3
<1> QED BY <1>1, <1>8, <1>9, <1>11 DEF LInv, LastKnown

LEMMA LeaveLives == ASSUME LInv, Made, PressQ \/ Exit PROVE LInv'
<1>1. /\ Same /\ insts' = insts /\ pc \in {"play", "exit"}
      /\ pc' \in {"exit", "stop"} /\ (pc' = "stop" => inst' = 0)
  BY DEF PressQ, Exit, Goto, Same
<1>2. \A i \in DOMAIN insts : Running(insts[i], pc')
  BY <1>1 DEF LInv, Living, Running
<1>3. Living'
  BY <1>1, <1>2, GoStep DEF LInv
<1> QED BY <1>1, <1>3 DEF LInv, LastKnown, Stopping, Steps

LEMMA LivesNext == ASSUME IInv, LInv, [Next]_vars PROVE LInv'
<1>1. CASE Made
  <2>1. CASE StartInstance
    BY <1>1, <2>1, ClassifyLives, OpenSourceLives, ModulesLive, SaveToFileLives
       DEF StartInstance
  <2>2. CASE StartSource \/ StopSource \/ CloseFile
    BY <1>1, <2>2, StartSourceLives, StopSourceLives, CloseFileLives
  <2>3. CASE PressQ \/ Exit
    BY <1>1, <2>3, LeaveLives
  <2>4. CASE MediaThreads
    BY <1>1, <2>4, FrameLives DEF MediaThreads
  <2>5. CASE UNCHANGED vars
    BY <2>5 DEF vars, given, LInv, Living, LastKnown, Stopping, This
  <2>6. ~MakeInstances /\ ~ParseOption
    BY <1>1 DEF Made, MakeInstances, ParseOption
  <2> QED BY <2>1, <2>2, <2>3, <2>4, <2>5, <2>6 DEF Next, Main, Gone
<1>2. CASE Unmade
  <2>1. CASE ParseOption
    <3>1. insts' = << >> /\ pc' \in {"options", "gone"}
      BY <1>2, <2>1 DEF ParseOption, Unmade
    <3> QED BY <3>1 DEF LInv, Living, LastKnown, Stopping, Steps
  <2>2. CASE MakeInstances
    <3>1. insts' = [i \in 0..(Count - 1) |-> Instance] /\ pc' = "classify"
      BY <2>2 DEF MakeInstances
    <3>2. Kept(Instance, input.para') /\ Idle(Instance)
      BY DEF Kept, Idle, Instance
    <3>3. Living'
      BY <3>1, <3>2, IdleAnywhere DEF Living
    <3> QED BY <3>1, <3>3 DEF LInv, LastKnown, Stopping, Steps
  <2>3. CASE UNCHANGED vars
    BY <2>3 DEF vars, given, LInv, Living, LastKnown, Stopping, This
  <2>4. ~StartInstance
    BY <1>2 DEF Unmade, StartInstance, Classify, OpenSource, PlayAudio,
                DecodeVideo, ConvertVideo, DisplayVideo, EncodeVideo, WriteFile,
                PushVideo, SaveToFile
  <2>5. ~StartSource /\ ~PressQ /\ ~Exit /\ ~StopSource /\ ~CloseFile
    BY <1>2 DEF Unmade, StartSource, PressQ, Exit, StopSource, CloseFile
  <2>6. ~MediaThreads
    BY <1>2 DEF Unmade, MediaThreads
  <2> QED BY <2>1, <2>2, <2>3, <2>4, <2>5, <2>6 DEF Next, Main, Gone
<1> QED BY <1>1, <1>2 DEF IInv, TypeInv

(***************************************************************************)
(* The lives of the instances are as said in every behaviour.              *)
(***************************************************************************)
THEOREM LivesInductive == Spec => [](IInv /\ LInv)
<1>1. Init => LInv
  BY DEF Init, LInv, Living, LastKnown, Stopping, Steps
<1>2. IInv /\ LInv /\ [Next]_vars => LInv'
  BY LivesNext
<1> QED BY <1>1, <1>2, Inductive, PTL DEF Spec

(***************************************************************************)
(* Every variable keeps its type.                                          *)
(***************************************************************************)
THEOREM TypeCorrect == Spec => []TypeOK
<1>1. IInv /\ LInv => TypeOK
  <2> SUFFICES ASSUME IInv, LInv PROVE TypeOK
    OBVIOUS
  <2>1. pos \in 0..Len(cmd) /\ pc \in Steps /\ DOMAIN conf = DOMAIN Config
    BY DEF IInv, TypeInv, ConfOK, LInv
  <2>2. pc # "options" /\ insts # << >> => inst \in DOMAIN insts
    BY DEF IInv, TypeInv, Unmade, Made
  <2>3. ASSUME NEW i \in DOMAIN insts PROVE InstanceOK(insts[i])
    <3>1. Made /\ i \in 0..(Count - 1)
      <4>1. insts # << >>
        OBVIOUS
      <4> QED BY <4>1 DEF IInv, TypeInv, Unmade, Made
    <3>2. Count \in Nat \ {0} /\ plane \in Nat \X Nat
      BY SizeAssumption DEF IInv, TypeInv, GivenOK, ConfOK, Count
    <3>3. insts[i].window = << >> \/ \A k \in 1..4 : insts[i].window[k] \in Nat
      BY <3>1, <3>2, WindowInside DEF Made, WindowOK
    <3> QED BY <3>3 DEF LInv, Living, Kept, InstanceOK
  <2> QED BY <2>1, <2>2, <2>3 DEF TypeOK
<1> QED BY <1>1, LivesInductive, PTL

(***************************************************************************)
(* What is saved of a frame is the picture, whatever its size, strides and *)
(* format, and no file is closed under a source that runs.                 *)
(***************************************************************************)
THEOREM AlwaysSavedWhole == Spec => []SavedWhole
<1>1. IInv /\ LInv => SavedWhole
  <2> SUFFICES ASSUME IInv, LInv, NEW i \in DOMAIN insts
               PROVE  /\ insts[i].on => insts[i].file # "closed"
                      /\ \/ insts[i].saved = << >>
                         \/ /\ insts[i].from.fmt = "YUV420"
                            /\ insts[i].from.vs # insts[i].from.h
                         \/ IsPicture(insts[i].saved, insts[i].from)
    BY DEF SavedWhole
  <2>1. Kept(insts[i], input.para) /\ Running(insts[i], pc)
    BY DEF LInv, Living
  <2>2. insts[i].on => insts[i].file # "closed"
    BY <2>1 DEF Running
  <2>3. PICK q : q = insts[i].from
    OBVIOUS
  <2>4. q.fmt \in Formats => Sizes(q)
    <3>1. CASE q = NoPara
      BY <3>1 DEF NoPara, Formats, Bytes
    <3>2. CASE q = input.para
      BY <3>2, SizeAssumption DEF IInv, TypeInv, GivenOK
    <3> QED BY <2>1, <2>3, <3>1, <3>2 DEF Kept
  <2>5. (q.fmt = "YUV420" => q.vs = q.h) =>
          Dumped(q) = << >> \/ IsPicture(Dumped(q), q)
    BY <2>4, DumpIsPicture
  <2> QED BY <2>1, <2>2, <2>3, <2>5 DEF Kept
<1> QED BY <1>1, LivesInductive, PTL
=============================================================================
