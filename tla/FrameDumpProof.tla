---------------------------- MODULE FrameDumpProof ----------------------------
(***************************************************************************)
(* For frames of every size, stride and format: what is written to the     *)
(* file is the picture, every byte once and none of the padding            *)
(* (DumpIsPicture).  The bytes of a plane are numbered by row and column   *)
(* (PlaneByCells); a run of rows writes each of them once (RowsRight), and *)
(* runs in different places can follow one another (Joined).               *)
(***************************************************************************)
EXTENDS FrameDump, TLAPS

(***************************************************************************)
(* Division with remainder, and that it is unique.                         *)
(***************************************************************************)
LEMMA DivideWithRest ==
  ASSUME NEW a \in Nat, NEW b \in Nat \ {0}
  PROVE  /\ a \div b \in Nat
         /\ a % b \in 0..(b - 1)
         /\ a = (a \div b) * b + (a % b)
<1> DEFINE q == a \div b
           r == a % b
<1>1. q \in Nat
  BY Z3
<1>2. r \in 0..(b - 1)
  BY SMT
<1>3. r = a - b * q
  BY SMTT(30)
<1> HIDE DEF q, r
<1>4. b * q \in Nat /\ b * q = q * b
  BY <1>1, SMT
<1>5. a = q * b + r
  BY <1>2, <1>3, <1>4
<1> QED BY <1>1, <1>2, <1>5 DEF q, r

LEMMA ProductGrows ==
  ASSUME NEW m \in Nat, NEW k \in Nat, NEW c \in Nat, m <= k
  PROVE  m * c <= k * c /\ m * c \in Nat /\ k * c \in Nat
  BY SMT

LEMMA Distributed ==
  ASSUME NEW m \in Nat, NEW c \in Nat
  PROVE  (m + 1) * c = m * c + c /\ m * c \in Nat
  BY SMT

LEMMA RowBefore ==
  ASSUME NEW p \in Nat, NEW r \in Nat, NEW s \in Nat, r < s,
         NEW x \in Nat, x < p, NEW y \in Nat
  PROVE  r * p + x < s * p + y
<1>1. r + 1 \in Nat /\ r + 1 <= s
  OBVIOUS
<1>2. (r + 1) * p <= s * p /\ (r + 1) * p \in Nat /\ s * p \in Nat
  BY <1>1, ProductGrows
<1>3. (r + 1) * p = r * p + p /\ r * p \in Nat
  BY Distributed
<1> QED BY <1>2, <1>3

LEMMA Unique ==
  ASSUME NEW p \in Nat, NEW r \in Nat, NEW s \in Nat,
         NEW x \in Nat, x < p, NEW y \in Nat, y < p,
         r * p + x = s * p + y
  PROVE  r = s /\ x = y
<1>1. r * p \in Nat /\ s * p \in Nat
  BY Distributed
<1>2. ~(r < s)
  <2>1. r < s => r * p + x < s * p + y
    BY RowBefore
  <2> QED BY <1>1, <2>1
<1>3. ~(s < r)
  <2>1. s < r => s * p + y < r * p + x
    BY RowBefore
  <2> QED BY <1>1, <2>1
<1>4. r = s
  BY <1>2, <1>3
<1> QED BY <1>1, <1>4

LEMMA Quotient ==
  ASSUME NEW p \in Nat, NEW r \in Nat, NEW x \in Nat, x < p
  PROVE  (r * p + x) \div p = r /\ (r * p + x) % p = x
<1> DEFINE a == r * p + x
<1>1. a \in Nat /\ p \in Nat \ {0}
  BY Distributed
<1> HIDE DEF a
<1>2. /\ a \div p \in Nat /\ a % p \in 0..(p - 1)
      /\ a = (a \div p) * p + (a % p)
  BY <1>1, DivideWithRest
<1>3. \A q, m \in Nat : m < p /\ r * p + x = q * p + m => r = q /\ x = m
  BY Unique
<1>4. a % p \in Nat /\ a % p < p
  BY <1>1, <1>2
<1>5. r * p + x = (a \div p) * p + (a % p)
  BY <1>2 DEF a
<1>6. r = a \div p /\ x = a % p
  BY <1>2, <1>3, <1>4, <1>5, Zenon
<1> QED BY <1>6 DEF a

-----------------------------------------------------------------------------
(***************************************************************************)
(* The bytes at columns x of the rows of a plane, the columns being d      *)
(* apart, and that a plane consists of them.                               *)
(***************************************************************************)
Cells(base, pitch, rows, n, d) ==
  {b \in Nat : \E r \in 0..(rows - 1), x \in 0..(n - 1) :
                 b = base + r * pitch + d * x}

LEMMA PlaneByCells ==
  ASSUME NEW base \in Nat, NEW pitch \in Nat, NEW all \in Nat,
         NEW width \in Nat, NEW rows \in Nat, width <= pitch, rows <= all
  PROVE  PlaneBytes(base, <<pitch, all, width, rows>>) =
           Cells(base, pitch, rows, width, 1)
<1> DEFINE P == PlaneBytes(base, <<pitch, all, width, rows>>)
           C == Cells(base, pitch, rows, width, 1)
<1>1. pitch * all \in Nat /\ pitch * all = all * pitch
  BY SMT
<1>2. P = {b \in base..(base + pitch * all - 1) :
             (b - base) % pitch < width /\ (b - base) \div pitch < rows}
  BY DEF PlaneBytes, Area
<1>3. ASSUME NEW b \in P PROVE b \in C
  <2>1. /\ b \in base..(base + pitch * all - 1)
        /\ (b - base) % pitch < width /\ (b - base) \div pitch < rows
    BY <1>2
  <2>2. PICK a \in Nat : a = b - base /\ a < pitch * all
    BY <1>1, <2>1
  <2>3. pitch # 0
    <3>1. pitch = 0 => pitch * all = 0
      BY SMT
    <3> QED BY <2>2, <3>1
  <2>4. /\ a \div pitch \in Nat /\ a % pitch \in 0..(pitch - 1)
        /\ a = (a \div pitch) * pitch + (a % pitch)
    BY <2>3, DivideWithRest
  <2>5. PICK r \in Nat : r = a \div pitch
    BY <2>4
  <2>6. PICK x \in Nat : x = a % pitch
    BY <2>4
  <2>7. r < rows /\ x < width
    BY <2>1, <2>2, <2>5, <2>6
  <2>8. r \in 0..(rows - 1) /\ x \in 0..(width - 1)
    BY <2>7
  <2>9. r * pitch \in Nat
    BY Distributed
  <2>10. a = r * pitch + x
    BY <2>4, <2>5, <2>6
  <2>11. b \in Nat /\ b = base + r * pitch + 1 * x
    BY <2>1, <2>2, <2>9, <2>10
  <2> QED BY <2>8, <2>11 DEF Cells
<1>4. ASSUME NEW b \in C PROVE b \in P
  <2>1. PICK r \in 0..(rows - 1), x \in 0..(width - 1) :
          b = base + r * pitch + 1 * x
    BY DEF Cells
  <2>2. r \in Nat /\ r < rows /\ r < all /\ x \in Nat /\ x < width /\ x < pitch
    BY <2>1
  <2>3. r * pitch \in Nat
    BY <2>2, Distributed
  <2>4. b - base = r * pitch + x /\ b \in Nat /\ base <= b
    BY <2>1, <2>2, <2>3
  <2>5. (b - base) \div pitch = r /\ (b - base) % pitch = x
    <3>1. pitch \in Nat /\ r \in Nat /\ x \in Nat /\ x < pitch
      BY <2>2
    <3>2. (r * pitch + x) \div pitch = r /\ (r * pitch + x) % pitch = x
      BY <3>1, Quotient, Zenon
    <3> QED BY <2>4, <3>2, Zenon
  <2>6. r * pitch + x < all * pitch + 0
    BY <2>2, RowBefore
  <2>7. b \in base..(base + pitch * all - 1)
    BY <1>1, <2>3, <2>4, <2>6
  <2> QED BY <1>2, <2>2, <2>5, <2>7
<1> QED BY <1>3, <1>4

(***************************************************************************)
(* Two interleaved columns are every column.                               *)
(***************************************************************************)
LEMMA Interleaved ==
  ASSUME NEW base \in Nat, NEW pitch \in Nat, NEW rows \in Nat, NEW n \in Nat
  PROVE  Cells(base, pitch, rows, n, 2) \cup Cells(base + 1, pitch, rows, n, 2) =
           Cells(base, pitch, rows, 2 * n, 1)
<1> DEFINE E == Cells(base, pitch, rows, n, 2)
           O == Cells(base + 1, pitch, rows, n, 2)
           C == Cells(base, pitch, rows, 2 * n, 1)
<1>1. ASSUME NEW b \in E PROVE b \in C
  <2>1. PICK r \in 0..(rows - 1), x \in 0..(n - 1) : b = base + r * pitch + 2 * x
    BY DEF Cells
  <2>2. 2 * x \in 0..(2 * n - 1) /\ b = base + r * pitch + 1 * (2 * x)
    BY <2>1
  <2>3. b \in Nat
    BY DEF Cells
  <2> QED BY <2>2, <2>3 DEF Cells
<1>2. ASSUME NEW b \in O PROVE b \in C
  <2>1. PICK r \in 0..(rows - 1), x \in 0..(n - 1) :
          b = base + 1 + r * pitch + 2 * x
    BY DEF Cells
  <2>2. r * pitch \in Nat
    BY Distributed
  <2>3. 2 * x + 1 \in 0..(2 * n - 1) /\ b = base + r * pitch + 1 * (2 * x + 1)
    BY <2>1, <2>2
  <2>4. b \in Nat
    BY DEF Cells
  <2> QED BY <2>3, <2>4 DEF Cells
<1>3. ASSUME NEW b \in C PROVE b \in E \cup O
  <2>1. PICK r \in 0..(rows - 1), y \in 0..(2 * n - 1) :
          b = base + r * pitch + 1 * y
    BY DEF Cells
  <2>2. b \in Nat /\ r * pitch \in Nat
    BY Distributed DEF Cells
  <2>3. PICK x \in 0..(n - 1) : y = 2 * x \/ y = 2 * x + 1
    <3>1. y \div 2 \in 0..(n - 1) /\ (y = 2 * (y \div 2) \/ y = 2 * (y \div 2) + 1)
      OBVIOUS
    <3> QED BY <3>1
  <2>4. CASE y = 2 * x
    <3>1. b = base + r * pitch + 2 * x
      BY <2>1, <2>2, <2>4
    <3> QED BY <2>2, <3>1 DEF Cells
  <2>5. CASE y = 2 * x + 1
    <3>1. b = base + 1 + r * pitch + 2 * x
      BY <2>1, <2>2, <2>5
    <3> QED BY <2>2, <3>1 DEF Cells
  <2> QED BY <2>3, <2>4, <2>5
<1> QED BY <1>1, <1>2, <1>3

LEMMA InterleavedApart ==
  ASSUME NEW base \in Nat, NEW pitch \in Nat, NEW rows \in Nat, NEW n \in Nat,
         2 * n <= pitch
  PROVE  Cells(base, pitch, rows, n, 2) \cap Cells(base + 1, pitch, rows, n, 2) = {}
<1> SUFFICES ASSUME NEW b \in Cells(base, pitch, rows, n, 2),
                    b \in Cells(base + 1, pitch, rows, n, 2)
             PROVE  FALSE
  OBVIOUS
<1>1. PICK r \in 0..(rows - 1), x \in 0..(n - 1) : b = base + r * pitch + 2 * x
  BY DEF Cells
<1>2. PICK s \in 0..(rows - 1), y \in 0..(n - 1) :
        b = base + 1 + s * pitch + 2 * y
  BY DEF Cells
<1>3. r * pitch \in Nat /\ s * pitch \in Nat
  BY Distributed
<1>4. r * pitch + 2 * x = s * pitch + (2 * y + 1)
  BY <1>1, <1>2, <1>3
<1>5. /\ 2 * x \in Nat /\ 2 * x < pitch
      /\ 2 * y + 1 \in Nat /\ 2 * y + 1 < pitch
  OBVIOUS
<1>6. 2 * x = 2 * y + 1
  <2> DEFINE u == 2 * x
             v == 2 * y + 1
  <2>1. u \in Nat /\ u < pitch /\ v \in Nat /\ v < pitch /\ r * pitch + u = s * pitch + v
    BY <1>4, <1>5
  <2> HIDE DEF u, v
  <2>2. u = v
    BY <2>1, Unique
  <2> QED BY <2>2 DEF u, v
<1> QED BY <1>6

-----------------------------------------------------------------------------
(***************************************************************************)
(* A run of rows writes its cells, each once.                              *)
(***************************************************************************)
ByCells(s, base, pitch, rows, n, d) ==
  /\ DOMAIN s = 1..(rows * n)
  /\ \A k \in DOMAIN s :
       \E r \in 0..(rows - 1), x \in 0..(n - 1) :
         k = r * n + x + 1 /\ s[k] = base + r * pitch + d * x
  /\ \A r \in 0..(rows - 1), x \in 0..(n - 1) :
       \E k \in DOMAIN s : s[k] = base + r * pitch + d * x

LEMMA RowsOfCells ==
  ASSUME NEW base \in Nat, NEW pitch \in Nat, NEW rows \in Nat, NEW n \in Nat,
         NEW d \in {1, 2}, NEW s, s = Rows(base, pitch, rows, n, d)
  PROVE  ByCells(s, base, pitch, rows, n, d)
<1>1. s = [k \in 1..(rows * n) |->
             base + ((k - 1) \div n) * pitch + d * ((k - 1) % n)]
  BY DEF Rows
<1>2. rows * n \in Nat
  BY Distributed
<1>3. ASSUME NEW k \in 1..(rows * n)
      PROVE  \E r \in 0..(rows - 1), x \in 0..(n - 1) :
               k = r * n + x + 1 /\ s[k] = base + r * pitch + d * x
  <2>1. PICK a \in Nat : a = k - 1 /\ a < rows * n
    BY <1>2
  <2>2. n # 0
    <3>1. n = 0 => rows * n = 0
      BY SMT
    <3> QED BY <2>1, <3>1
  <2>3. a \div n \in Nat /\ a % n \in 0..(n - 1) /\ a = (a \div n) * n + (a % n)
    BY <2>2, DivideWithRest
  <2>4. PICK r \in Nat : r = a \div n
    BY <2>3
  <2>5. PICK x \in 0..(n - 1) : x = a % n
    BY <2>3
  <2>6. a = r * n + x /\ r * n \in Nat
    BY <2>3, <2>4, <2>5, Distributed
  <2>7. r < rows
    <3>1. rows <= r => rows * n <= r * n
      BY ProductGrows
    <3> QED BY <1>2, <2>1, <2>6, <3>1
  <2>8. r \in 0..(rows - 1) /\ k = r * n + x + 1
    BY <2>1, <2>6, <2>7
  <2>9. s[k] = base + r * pitch + d * x
    BY <1>1, <2>1, <2>4, <2>5
  <2> QED BY <2>8, <2>9
<1>4. ASSUME NEW r \in 0..(rows - 1), NEW x \in 0..(n - 1)
      PROVE  \E k \in 1..(rows * n) : s[k] = base + r * pitch + d * x
  <2>1. r * n \in Nat /\ r \in Nat /\ x \in Nat /\ x < n /\ r < rows
    BY Distributed
  <2>2. r * n + x < rows * n + 0
    BY <2>1, RowBefore
  <2>3. PICK a \in Nat : a = r * n + x
    BY <2>1
  <2>4. a + 1 \in 1..(rows * n)
    BY <1>2, <2>2, <2>3
  <2>5. a \div n = r /\ a % n = x
    <3>1. (r * n + x) \div n = r /\ (r * n + x) % n = x
      BY <2>1, Quotient, Zenon
    <3> QED BY <2>3, <3>1, Zenon
  <2>6. (a + 1) - 1 = a
    BY <2>3
  <2>7. s[a + 1] = base + (a \div n) * pitch + d * (a % n)
    BY <1>1, <2>4, <2>6
  <2> QED BY <2>4, <2>5, <2>7
<1>5. DOMAIN s = 1..(rows * n)
  BY <1>1
<1> QED BY <1>3, <1>4, <1>5, Zenon DEF ByCells

LEMMA RangeIs ==
  ASSUME NEW f, NEW S
  PROVE  /\ (\A k \in DOMAIN f : f[k] \in S) => Range(f) \subseteq S
         /\ (\A b \in S : \E k \in DOMAIN f : f[k] = b) => S \subseteq Range(f)
BY DEF Range

LEMMA RowsRight ==
  ASSUME NEW base \in Nat, NEW pitch \in Nat, NEW rows \in Nat, NEW n \in Nat,
         NEW d \in {1, 2}, d * n <= pitch,
         NEW s, s = Rows(base, pitch, rows, n, d)
  PROVE  /\ s \in Seq(Nat)
         /\ IsInjective(s)
         /\ Range(s) = Cells(base, pitch, rows, n, d)
<1>1. /\ DOMAIN s = 1..(rows * n)
      /\ \A k \in DOMAIN s :
           \E r \in 0..(rows - 1), x \in 0..(n - 1) :
             k = r * n + x + 1 /\ s[k] = base + r * pitch + d * x
      /\ \A r \in 0..(rows - 1), x \in 0..(n - 1) :
           \E k \in DOMAIN s : s[k] = base + r * pitch + d * x
  <2>1. ByCells(s, base, pitch, rows, n, d)
    BY RowsOfCells
  <2> QED BY <2>1 DEF ByCells
<1>2. \A r \in 0..(rows - 1), x \in 0..(n - 1) : base + r * pitch + d * x \in Nat
  <2> TAKE r \in 0..(rows - 1), x \in 0..(n - 1)
  <2>1. r * pitch \in Nat
    BY Distributed
  <2> QED BY <2>1
<1>3. \A k \in DOMAIN s : s[k] \in Nat
  <2> TAKE k \in DOMAIN s
  <2>1. PICK r \in 0..(rows - 1), x \in 0..(n - 1) : s[k] = base + r * pitch + d * x
    BY <1>1
  <2> QED BY <1>2, <2>1
<1>4. PICK N \in Nat : N = rows * n
  <2>1. rows * n \in Nat
    BY Distributed
  <2> QED BY <2>1
<1>5. s \in Seq(Nat)
  <2>1. s = [k \in 1..N |-> s[k]]
    BY <1>4 DEF Rows
  <2>2. [k \in 1..N |-> s[k]] \in [1..N -> Nat]
    BY <1>1, <1>3, <1>4
  <2>3. [k \in 1..N |-> s[k]] \in Seq(Nat)
    BY <2>2
  <2> QED BY <2>1, <2>3, Zenon
<1>6. IsInjective(s)
  <2> SUFFICES ASSUME NEW k \in DOMAIN s, NEW l \in DOMAIN s, s[k] = s[l]
               PROVE  k = l
    BY DEF IsInjective
  <2>1. PICK r \in 0..(rows - 1), x \in 0..(n - 1) :
          k = r * n + x + 1 /\ s[k] = base + r * pitch + d * x
    BY <1>1
  <2>2. PICK t \in 0..(rows - 1), y \in 0..(n - 1) :
          l = t * n + y + 1 /\ s[l] = base + t * pitch + d * y
    BY <1>1
  <2>3. PICK u \in Nat : u = d * x /\ u < pitch
    <3>1. d * x \in Nat /\ d * x < pitch
      OBVIOUS
    <3> QED BY <3>1
  <2>4. PICK v \in Nat : v = d * y /\ v < pitch
    <3>1. d * y \in Nat /\ d * y < pitch
      OBVIOUS
    <3> QED BY <3>1
  <2>5. r * pitch \in Nat /\ t * pitch \in Nat
    BY Distributed
  <2>6. r * pitch + u = t * pitch + v
    BY <2>1, <2>2, <2>3, <2>4, <2>5
  <2>7. r = t /\ u = v
    BY <2>3, <2>4, <2>6, Unique
  <2>8. x = y
    BY <2>3, <2>4, <2>7
  <2> QED BY <2>1, <2>2, <2>7, <2>8
<1>7. \A k \in DOMAIN s : s[k] \in Cells(base, pitch, rows, n, d)
  <2> TAKE k \in DOMAIN s
  <2>1. PICK r \in 0..(rows - 1), x \in 0..(n - 1) : s[k] = base + r * pitch + d * x
    BY <1>1
  <2> QED BY <1>3, <2>1 DEF Cells
<1>8. \A b \in Cells(base, pitch, rows, n, d) : \E k \in DOMAIN s : s[k] = b
  <2> TAKE b \in Cells(base, pitch, rows, n, d)
  <2>1. PICK r \in 0..(rows - 1), x \in 0..(n - 1) : b = base + r * pitch + d * x
    BY DEF Cells
  <2> QED BY <1>1, <2>1
<1>9. Range(s) = Cells(base, pitch, rows, n, d)
  BY <1>7, <1>8, RangeIs
<1> QED BY <1>5, <1>6, <1>9

(***************************************************************************)
(* Two runs in different places.                                           *)
(***************************************************************************)
LEMMA Joined ==
  ASSUME NEW s \in Seq(Nat), NEW t \in Seq(Nat), IsInjective(s), IsInjective(t),
         Range(s) \cap Range(t) = {}
  PROVE  /\ s \o t \in Seq(Nat)
         /\ IsInjective(s \o t)
         /\ Range(s \o t) = Range(s) \cup Range(t)
<1> DEFINE m == Len(s)
           n == Len(t)
           u == s \o t
<1>1. /\ m \in Nat /\ n \in Nat /\ DOMAIN s = 1..m /\ DOMAIN t = 1..n
      /\ u \in Seq(Nat) /\ DOMAIN u = 1..(m + n)
      /\ \A k \in 1..(m + n) : u[k] = IF k <= m THEN s[k] ELSE t[k - m]
  OBVIOUS
<1> HIDE DEF m, n, u
<1>2. \A k \in 1..m : u[k] = s[k] /\ k \in 1..(m + n)
  BY <1>1
<1>3. \A k \in 1..n : u[m + k] = t[k] /\ m + k \in 1..(m + n)
  <2> TAKE k \in 1..n
  <2>1. m + k \in 1..(m + n) /\ ~(m + k <= m) /\ (m + k) - m = k
    BY <1>1
  <2> QED BY <1>1, <2>1
<1>4. \A k \in 1..(m + n) : k \in 1..m \/ \E j \in 1..n : k = m + j
  <2> TAKE k \in 1..(m + n)
  <2>1. k \in 1..m \/ k - m \in 1..n
    BY <1>1
  <2>2. k = m + (k - m)
    BY <1>1
  <2> QED BY <2>1, <2>2
<1>5. Range(u) = Range(s) \cup Range(t)
  <2>1. \A k \in DOMAIN u : u[k] \in Range(s) \cup Range(t)
    <3> TAKE k \in DOMAIN u
    <3>1. CASE k \in 1..m
      BY <1>1, <1>2, <3>1, s[k] \in Range(s) DEF Range
    <3>2. CASE k \notin 1..m
      <4>1. PICK j \in 1..n : k = m + j
        BY <1>1, <1>4, <3>2
      <4>2. u[k] = t[j] /\ j \in DOMAIN t
        BY <1>1, <1>3, <4>1
      <4> QED BY <4>2 DEF Range
    <3> QED BY <3>1, <3>2
  <2>2. \A b \in Range(s) \cup Range(t) : \E k \in DOMAIN u : u[k] = b
    <3> TAKE b \in Range(s) \cup Range(t)
    <3>1. CASE b \in Range(s)
      BY <1>1, <1>2, <3>1 DEF Range
    <3>2. CASE b \in Range(t)
      <4>1. PICK j \in 1..n : t[j] = b
        BY <1>1, <3>2 DEF Range
      <4> QED BY <1>1, <1>3, <4>1
    <3> QED BY <3>1, <3>2
  <2>3. Range(u) \subseteq Range(s) \cup Range(t)
    BY <2>1, RangeIs, Zenon
  <2>4. Range(s) \cup Range(t) \subseteq Range(u)
    BY <2>2, RangeIs, Zenon
  <2> QED BY <2>3, <2>4
<1>6. \A k \in 1..m, j \in 1..n : s[k] # t[j]
  BY <1>1 DEF Range
<1>7. IsInjective(u)
  <2> SUFFICES ASSUME NEW k \in 1..(m + n), NEW l \in 1..(m + n), u[k] = u[l]
               PROVE  k = l
    BY <1>1 DEF IsInjective
  <2>1. CASE k \in 1..m /\ l \in 1..m
    BY <1>1, <1>2, <2>1 DEF IsInjective
  <2>2. CASE k \notin 1..m /\ l \notin 1..m
    <3>1. PICK i \in 1..n : k = m + i
      BY <1>4, <2>2
    <3>2. PICK j \in 1..n : l = m + j
      BY <1>4, <2>2
    <3>3. t[i] = t[j]
      BY <1>3, <3>1, <3>2
    <3>4. i = j
      BY <1>1, <3>3 DEF IsInjective
    <3> QED BY <3>1, <3>2, <3>4
  <2>3. CASE k \in 1..m /\ l \notin 1..m
    <3>1. PICK j \in 1..n : l = m + j
      BY <1>4, <2>3
    <3> QED BY <1>2, <1>3, <1>6, <2>3, <3>1
  <2>4. CASE k \notin 1..m /\ l \in 1..m
    <3>1. PICK i \in 1..n : k = m + i
      BY <1>4, <2>4
    <3> QED BY <1>2, <1>3, <1>6, <2>4, <3>1
  <2> QED BY <2>1, <2>2, <2>3, <2>4
<1> QED BY <1>1, <1>5, <1>7 DEF u

-----------------------------------------------------------------------------
(***************************************************************************)
(* A plane that is written row by row, and one of two interleaved colours  *)
(* that is written one colour after the other.                             *)
(***************************************************************************)
Written(s, bytes) == s \in Seq(Nat) /\ IsInjective(s) /\ Range(s) = bytes

LEMMA WholeRows ==
  ASSUME NEW base \in Nat, NEW pitch \in Nat, NEW all \in Nat,
         NEW width \in Nat, NEW rows \in Nat, width <= pitch, rows <= all
  PROVE  Written(Rows(base, pitch, rows, width, 1),
                 PlaneBytes(base, <<pitch, all, width, rows>>))
<1>1. 1 \in {1, 2} /\ 1 * width <= pitch
  OBVIOUS
<1>2. PICK s : s = Rows(base, pitch, rows, width, 1)
  OBVIOUS
<1>3. /\ s \in Seq(Nat) /\ IsInjective(s)
      /\ Range(s) = Cells(base, pitch, rows, width, 1)
  BY <1>1, <1>2, RowsRight
<1>4. PlaneBytes(base, <<pitch, all, width, rows>>) =
        Cells(base, pitch, rows, width, 1)
  BY PlaneByCells
<1> QED BY <1>2, <1>3, <1>4, Zenon DEF Written

LEMMA ColourByColour ==
  ASSUME NEW base \in Nat, NEW pitch \in Nat, NEW all \in Nat,
         NEW n \in Nat, NEW width, width = 2 * n, NEW rows \in Nat,
         width <= pitch, rows <= all
  PROVE  Written(Rows(base, pitch, rows, n, 2) \o Rows(base + 1, pitch, rows, n, 2),
                 PlaneBytes(base, <<pitch, all, width, rows>>))
<1>1. 2 \in {1, 2} /\ 2 * n <= pitch /\ base + 1 \in Nat /\ width \in Nat
  OBVIOUS
<1>2. PICK s : s = Rows(base, pitch, rows, n, 2)
  OBVIOUS
<1>3. PICK t : t = Rows(base + 1, pitch, rows, n, 2)
  OBVIOUS
<1>4. /\ s \in Seq(Nat) /\ IsInjective(s)
      /\ Range(s) = Cells(base, pitch, rows, n, 2)
  BY <1>1, <1>2, RowsRight
<1>5. /\ t \in Seq(Nat) /\ IsInjective(t)
      /\ Range(t) = Cells(base + 1, pitch, rows, n, 2)
  BY <1>1, <1>3, RowsRight
<1>6. Range(s) \cap Range(t) = {}
  BY <1>1, <1>4, <1>5, InterleavedApart, Zenon
<1>7. /\ s \o t \in Seq(Nat) /\ IsInjective(s \o t)
      /\ Range(s \o t) = Range(s) \cup Range(t)
  BY <1>4, <1>5, <1>6, Joined, Zenon
<1>8. Range(s) \cup Range(t) = Cells(base, pitch, rows, 2 * n, 1)
  BY <1>4, <1>5, Interleaved
<1>9. PlaneBytes(base, <<pitch, all, width, rows>>) =
        Cells(base, pitch, rows, width, 1)
  BY <1>1, PlaneByCells
<1> QED BY <1>2, <1>3, <1>7, <1>8, <1>9, Zenon DEF Written

(***************************************************************************)
(* Planes one behind the other do not meet.                                *)
(***************************************************************************)
LEMMA PlaneWithin ==
  ASSUME NEW base \in Nat, NEW pitch \in Nat, NEW all \in Nat, NEW width,
         NEW rows, NEW b \in PlaneBytes(base, <<pitch, all, width, rows>>)
  PROVE  b \in Nat /\ base <= b /\ b < base + pitch * all
<1>1. PICK n \in Nat : n = pitch * all
  BY Distributed
<1>2. b \in base..(base + n - 1)
  BY <1>1 DEF PlaneBytes, Area
<1> QED BY <1>1, <1>2

LEMMA Behind ==
  ASSUME NEW s, NEW t, NEW A, NEW B, Written(s, A), Written(t, B),
         NEW c \in Nat, \A a \in A : a < c, \A b \in B : b >= c,
         A \cup B \subseteq Nat
  PROVE  Written(s \o t, A \cup B)
<1>1. A \cap B = {}
  OBVIOUS
<1> QED BY <1>1, Joined, Zenon DEF Written

-----------------------------------------------------------------------------
(***************************************************************************)
(* A picture of one, two or three planes.                                  *)
(***************************************************************************)
LEMMA Division1 ==
  ASSUME NEW n \in Nat
  PROVE  n \div 1 = n /\ n * 1 = n /\ n * 2 = 2 * n /\ n * 2 \in Nat /\ n * 4 \in Nat
OBVIOUS

LEMMA OnePlane ==
  ASSUME NEW q, NEW p, Planes(q) = <<p>>
  PROVE  PictureBytes(q) = PlaneBytes(0, p)
<1>1. DOMAIN Planes(q) = {1} /\ Planes(q)[1] = p /\ Start(Planes(q), 1) = 0
  BY DEF Start
<1> QED BY <1>1, Zenon DEF PictureBytes

LEMMA TwoPlanes ==
  ASSUME NEW q, NEW p, NEW r, Planes(q) = <<p, r>>, Area(p) \in Nat
  PROVE  PictureBytes(q) = PlaneBytes(0, p) \cup PlaneBytes(Area(p), r)
<1>1. /\ DOMAIN Planes(q) = {1, 2} /\ Planes(q)[1] = p /\ Planes(q)[2] = r
      /\ Start(Planes(q), 1) = 0 /\ Start(Planes(q), 2) = Area(p)
  BY DEF Start
<1>2. PictureBytes(q) = UNION {PlaneBytes(Start(Planes(q), i), Planes(q)[i]) : i \in {1, 2}}
  BY <1>1, Zenon DEF PictureBytes
<1>3. @ = PlaneBytes(Start(Planes(q), 1), Planes(q)[1]) \cup
          PlaneBytes(Start(Planes(q), 2), Planes(q)[2])
  OBVIOUS
<1> QED BY <1>1, <1>2, <1>3, Zenon

LEMMA ThreePlanes ==
  ASSUME NEW q, NEW p, NEW r, NEW t, Planes(q) = <<p, r, t>>,
         Area(p) \in Nat, Area(r) \in Nat
  PROVE  PictureBytes(q) = (PlaneBytes(0, p) \cup PlaneBytes(Area(p), r))
                             \cup PlaneBytes(Area(p) + Area(r), t)
<1>1. /\ DOMAIN Planes(q) = {1, 2, 3}
      /\ Planes(q)[1] = p /\ Planes(q)[2] = r /\ Planes(q)[3] = t
      /\ Start(Planes(q), 1) = 0 /\ Start(Planes(q), 2) = Area(p)
      /\ Start(Planes(q), 3) = Area(p) + Area(r)
  BY DEF Start
<1>2. PictureBytes(q) =
        UNION {PlaneBytes(Start(Planes(q), i), Planes(q)[i]) : i \in {1, 2, 3}}
  BY <1>1, Zenon DEF PictureBytes
<1>3. @ = (PlaneBytes(Start(Planes(q), 1), Planes(q)[1]) \cup
           PlaneBytes(Start(Planes(q), 2), Planes(q)[2])) \cup
          PlaneBytes(Start(Planes(q), 3), Planes(q)[3])
  OBVIOUS
<1> QED BY <1>1, <1>2, <1>3, Zenon

(***************************************************************************)
(* The planes and what is written of them, format by format.               *)
(***************************************************************************)
LEMMA Grey ==
  ASSUME NEW q, Sizes(q), q.fmt = "GREY"
  PROVE  Written(Dumped(q), PictureBytes(q))
<1>1. Dumped(q) = Rows(0, q.hs, q.h, q.w, 1)
  BY DEF Dumped, Bytes
<1>2. Planes(q) = <<<<q.hs, q.vs, q.w, q.h>>>>
  BY Division1 DEF Planes, Sizes
<1>3. Written(Rows(0, q.hs, q.h, q.w, 1), PlaneBytes(0, <<q.hs, q.vs, q.w, q.h>>))
  BY WholeRows DEF Sizes
<1> QED BY <1>1, <1>2, <1>3, OnePlane, Zenon

LEMMA Rgb ==
  ASSUME NEW q, Sizes(q), q.fmt \in {"RGB32", "RGB565"}
  PROVE  Written(Dumped(q), PictureBytes(q))
<1>1. PICK b \in {2, 4} : b = Bytes[q.fmt]
  BY DEF Bytes
<1>2. Dumped(q) = Rows(0, q.hs * b, q.h, q.w * b, 1)
  BY <1>1 DEF Dumped, Bytes
<1>3. q.w * b \in Nat /\ q.hs * b \in Nat /\ q.w * b <= q.hs * b
  BY DEF Sizes
<1>4. Planes(q) = <<<<q.hs * b, q.vs, q.w * b, q.h>>>>
  BY <1>1, <1>3, Division1 DEF Planes, Sizes
<1>5. Written(Rows(0, q.hs * b, q.h, q.w * b, 1),
              PlaneBytes(0, <<q.hs * b, q.vs, q.w * b, q.h>>))
  BY <1>3, WholeRows DEF Sizes
<1> QED BY <1>2, <1>4, <1>5, OnePlane, Zenon

\* The luma plane, and the byte behind it.
LEMMA Luma ==
  ASSUME NEW q, Sizes(q), NEW p, p = <<q.hs, q.vs, q.w, q.h>>
  PROVE  /\ Written(Rows(0, q.hs, q.h, q.w, 1), PlaneBytes(0, p))
         /\ Area(p) = q.hs * q.vs /\ Area(p) \in Nat
         /\ \A a \in PlaneBytes(0, p) : a \in Nat /\ a < Area(p)
<1>1. Written(Rows(0, q.hs, q.h, q.w, 1), PlaneBytes(0, <<q.hs, q.vs, q.w, q.h>>))
  BY WholeRows DEF Sizes
<1>2. Area(p) = q.hs * q.vs
  BY DEF Area
<1>3. q.hs \in Nat /\ q.vs \in Nat /\ q.hs * q.vs \in Nat
  BY Distributed DEF Sizes
<1>4. \A a \in PlaneBytes(0, p) : a \in Nat /\ a < 0 + q.hs * q.vs
  BY <1>3, PlaneWithin
<1> QED BY <1>1, <1>2, <1>3, <1>4

LEMMA Nv12 ==
  ASSUME NEW q, Sizes(q), q.fmt \in {"NV12", "NV21"}
  PROVE  Written(Dumped(q), PictureBytes(q))
<1>1. PICK c \in Nat : c = q.hs * q.vs
  BY Distributed DEF Sizes
<1>2. PICK p : p = <<q.hs, q.vs, q.w, q.h>>
  OBVIOUS
<1>3. PICK r : r = <<q.hs, q.vs \div 2, q.w, q.h \div 2>>
  OBVIOUS
<1>4. Dumped(q) = Rows(0, q.hs, q.h, q.w, 1) \o Rows(c, q.hs, q.h \div 2, q.w, 1)
  BY <1>1 DEF Dumped, Bytes
<1>5. Planes(q) = <<p, r>>
  BY <1>2, <1>3, Division1 DEF Planes, Sizes
<1>6. /\ Written(Rows(0, q.hs, q.h, q.w, 1), PlaneBytes(0, p))
      /\ Area(p) = c /\ \A a \in PlaneBytes(0, p) : a \in Nat /\ a < c
  BY <1>1, <1>2, Luma
<1>7. /\ q.vs \div 2 \in Nat /\ q.h \div 2 \in Nat /\ q.h \div 2 <= q.vs \div 2
      /\ q.w \in Nat /\ q.hs \in Nat /\ q.w <= q.hs
  BY DEF Sizes
<1>8. Written(Rows(c, q.hs, q.h \div 2, q.w, 1), PlaneBytes(c, r))
  BY <1>3, <1>7, WholeRows
<1>9. \A b \in PlaneBytes(c, r) : b \in Nat /\ b >= c
  BY <1>3, <1>7, PlaneWithin
<1>10. PictureBytes(q) = PlaneBytes(0, p) \cup PlaneBytes(c, r)
  BY <1>5, <1>6, TwoPlanes
<1> QED BY <1>4, <1>6, <1>8, <1>9, <1>10, Behind

LEMMA Nv16 ==
  ASSUME NEW q, Sizes(q), q.fmt = "NV16"
  PROVE  Written(Dumped(q), PictureBytes(q))
<1>1. PICK c \in Nat : c = q.hs * q.vs
  BY Distributed DEF Sizes
<1>2. PICK p : p = <<q.hs, q.vs, q.w, q.h>>
  OBVIOUS
<1>3. PICK n \in Nat : n = q.w \div 2 /\ q.w = 2 * n
  BY DEF Sizes
<1>4. PICK s : s = Rows(0, q.hs, q.h, q.w, 1)
  OBVIOUS
<1>5. PICK t : t = Rows(c, q.hs, q.h, n, 2)
  OBVIOUS
<1>6. PICK u : u = Rows(c + 1, q.hs, q.h, n, 2)
  OBVIOUS
<1>7. Dumped(q) = (s \o t) \o u
  BY <1>1, <1>3, <1>4, <1>5, <1>6 DEF Dumped, Bytes
<1>8. Planes(q) = <<p, p>>
  BY <1>2, Division1 DEF Planes, Sizes
<1>9. /\ Written(s, PlaneBytes(0, p))
      /\ Area(p) = c /\ \A a \in PlaneBytes(0, p) : a \in Nat /\ a < c
  BY <1>1, <1>2, <1>4, Luma
<1>10. Written(t \o u, PlaneBytes(c, p))
  <2>1. /\ q.hs \in Nat /\ q.vs \in Nat /\ q.h \in Nat /\ q.w <= q.hs /\ q.h <= q.vs
    BY DEF Sizes
  <2>2. Written(Rows(c, q.hs, q.h, n, 2) \o Rows(c + 1, q.hs, q.h, n, 2),
                PlaneBytes(c, <<q.hs, q.vs, q.w, q.h>>))
    BY <1>3, <2>1, ColourByColour
  <2> QED BY <1>2, <1>5, <1>6, <2>2, Zenon
<1>11. \A b \in PlaneBytes(c, p) : b \in Nat /\ b >= c
  BY <1>2, PlaneWithin DEF Sizes
<1>12. PictureBytes(q) = PlaneBytes(0, p) \cup PlaneBytes(c, p)
  BY <1>8, <1>9, TwoPlanes
<1>13. Written(s \o (t \o u), PictureBytes(q))
  BY <1>9, <1>10, <1>11, <1>12, Behind
<1>14. s \in Seq(Nat) /\ t \in Seq(Nat) /\ u \in Seq(Nat)
  <2>1. q.hs \in Nat /\ q.h \in Nat /\ 2 * n <= q.hs /\ c + 1 \in Nat
    BY <1>3 DEF Sizes
  <2>2. t \in Seq(Nat)
    BY <1>5, <2>1, RowsRight
  <2>3. u \in Seq(Nat)
    BY <1>6, <2>1, RowsRight
  <2> QED BY <1>9, <2>2, <2>3 DEF Written
<1>15. (s \o t) \o u = s \o (t \o u)
  BY <1>14
<1> QED BY <1>7, <1>13, <1>15, Zenon

LEMMA Nv24 ==
  ASSUME NEW q, Sizes(q), q.fmt = "NV24"
  PROVE  Written(Dumped(q), PictureBytes(q))
<1>1. PICK c \in Nat : c = q.hs * q.vs
  BY Distributed DEF Sizes
<1>2. PICK p : p = <<q.hs, q.vs, q.w, q.h>>
  OBVIOUS
<1>3. PICK r : r = <<2 * q.hs, q.vs, 2 * q.w, q.h>>
  OBVIOUS
<1>4. PICK s : s = Rows(0, q.hs, q.h, q.w, 1)
  OBVIOUS
<1>5. PICK t : t = Rows(c, 2 * q.hs, q.h, q.w, 2)
  OBVIOUS
<1>6. PICK u : u = Rows(c + 1, 2 * q.hs, q.h, q.w, 2)
  OBVIOUS
<1>7. Dumped(q) = (s \o t) \o u
  BY <1>1, <1>4, <1>5, <1>6 DEF Dumped, Bytes
<1>8. Planes(q) = <<p, r>>
  BY <1>2, <1>3, Division1 DEF Planes, Sizes
<1>9. /\ Written(s, PlaneBytes(0, p))
      /\ Area(p) = c /\ \A a \in PlaneBytes(0, p) : a \in Nat /\ a < c
  BY <1>1, <1>2, <1>4, Luma
<1>10. /\ 2 * q.hs \in Nat /\ q.vs \in Nat /\ q.h \in Nat /\ q.w \in Nat
       /\ 2 * q.w <= 2 * q.hs /\ q.h <= q.vs /\ c + 1 \in Nat
  BY DEF Sizes
<1>11. Written(t \o u, PlaneBytes(c, r))
  <2>1. Written(Rows(c, 2 * q.hs, q.h, q.w, 2) \o Rows(c + 1, 2 * q.hs, q.h, q.w, 2),
                PlaneBytes(c, <<2 * q.hs, q.vs, 2 * q.w, q.h>>))
    BY <1>10, ColourByColour
  <2> QED BY <1>3, <1>5, <1>6, <2>1, Zenon
<1>12. \A b \in PlaneBytes(c, r) : b \in Nat /\ b >= c
  BY <1>3, <1>10, PlaneWithin
<1>13. PictureBytes(q) = PlaneBytes(0, p) \cup PlaneBytes(c, r)
  BY <1>8, <1>9, TwoPlanes
<1>14. Written(s \o (t \o u), PictureBytes(q))
  BY <1>9, <1>11, <1>12, <1>13, Behind
<1>15. s \in Seq(Nat) /\ t \in Seq(Nat) /\ u \in Seq(Nat)
  <2>1. t \in Seq(Nat)
    BY <1>5, <1>10, RowsRight
  <2>2. u \in Seq(Nat)
    BY <1>6, <1>10, RowsRight
  <2> QED BY <1>9, <2>1, <2>2 DEF Written
<1>16. (s \o t) \o u = s \o (t \o u)
  BY <1>15
<1> QED BY <1>7, <1>14, <1>16, Zenon

\* The third plane begins behind all rows of the second where none is padding.
LEMMA Yuv420 ==
  ASSUME NEW q, Sizes(q), q.fmt = "YUV420", q.vs = q.h
  PROVE  Written(Dumped(q), PictureBytes(q))
<1>1. PICK c \in Nat : c = q.hs * q.vs
  BY Distributed DEF Sizes
<1>2. PICK a \in Nat : a = q.hs \div 2
  BY DEF Sizes
<1>3. PICK b \in Nat : b = q.w \div 2 /\ b <= a
  BY <1>2 DEF Sizes
<1>4. PICK h \in Nat : h = q.h \div 2
  BY DEF Sizes
<1>5. PICK d \in Nat : d = h * a /\ d = a * h
  <2>1. h * a \in Nat /\ h * a = a * h
    BY SMT
  <2> QED BY <2>1
<1>6. PICK p : p = <<q.hs, q.vs, q.w, q.h>>
  OBVIOUS
<1>7. PICK r : r = <<a, h, b, h>>
  OBVIOUS
<1>8. PICK s : s = Rows(0, q.hs, q.h, q.w, 1)
  OBVIOUS
<1>9. PICK t : t = Rows(c, a, h, b, 1)
  OBVIOUS
<1>10. PICK u : u = Rows(c + d, a, h, b, 1)
  OBVIOUS
<1>11. Dumped(q) = (s \o t) \o u
  BY <1>1, <1>2, <1>3, <1>4, <1>5, <1>8, <1>9, <1>10 DEF Dumped, Bytes
<1>12. Planes(q) = <<p, r, r>>
  BY <1>2, <1>3, <1>4, <1>6, <1>7, Division1 DEF Planes, Sizes
<1>13. /\ Written(s, PlaneBytes(0, p))
       /\ Area(p) = c /\ \A e \in PlaneBytes(0, p) : e \in Nat /\ e < c
  BY <1>1, <1>6, <1>8, Luma
<1>14. Area(r) = d
  BY <1>5, <1>7 DEF Area
<1>15. Written(t, PlaneBytes(c, r))
  BY <1>3, <1>7, <1>9, WholeRows
<1>16. c + d \in Nat /\ Written(u, PlaneBytes(c + d, r))
  <2>1. c + d \in Nat
    OBVIOUS
  <2> QED BY <1>3, <1>7, <1>10, <2>1, WholeRows
<1>17. \A e \in PlaneBytes(c, r) : e \in Nat /\ e >= c /\ e < c + d
  <2> TAKE e \in PlaneBytes(c, r)
  <2>1. e \in Nat /\ c <= e /\ e < c + a * h
    BY <1>7, PlaneWithin
  <2> QED BY <1>5, <2>1
<1>18. \A e \in PlaneBytes(c + d, r) : e \in Nat /\ e >= c + d
  BY <1>7, <1>16, PlaneWithin
<1>19. Written(s \o t, PlaneBytes(0, p) \cup PlaneBytes(c, r))
  BY <1>13, <1>15, <1>17, Behind
<1>20. \A e \in PlaneBytes(0, p) \cup PlaneBytes(c, r) : e \in Nat /\ e < c + d
  BY <1>13, <1>17
<1>21. Written((s \o t) \o u, (PlaneBytes(0, p) \cup PlaneBytes(c, r))
                                \cup PlaneBytes(c + d, r))
  BY <1>16, <1>18, <1>19, <1>20, Behind
<1>22. PictureBytes(q) = (PlaneBytes(0, p) \cup PlaneBytes(c, r))
                           \cup PlaneBytes(c + d, r)
  BY <1>12, <1>13, <1>14, ThreePlanes
<1> QED BY <1>11, <1>21, <1>22, Zenon

-----------------------------------------------------------------------------
(***************************************************************************)
(* What dump_videobuffer_to_file writes of a frame is its picture, every   *)
(* byte once and none of the padding, for every size and every stride; of  *)
(* YUV420 where no rows are padded.  Nothing is written of another format. *)
(***************************************************************************)
THEOREM DumpIsPicture ==
  ASSUME NEW q, q.fmt \in Formats => Sizes(q), q.fmt = "YUV420" => q.vs = q.h
  PROVE  Dumped(q) = << >> \/ IsPicture(Dumped(q), q)
<1>1. CASE q.fmt \in {"GREY", "RGB32", "RGB565", "NV12", "NV21", "NV16", "NV24",
                      "YUV420"}
  <2>1. Sizes(q)
    BY <1>1 DEF Formats, Bytes
  <2>2. Written(Dumped(q), PictureBytes(q))
    BY <1>1, <2>1, Grey, Rgb, Nv12, Nv16, Nv24, Yuv420
  <2> QED BY <2>2 DEF Written, IsPicture
<1>2. CASE q.fmt \notin {"GREY", "RGB32", "RGB565", "NV12", "NV21", "NV16", "NV24",
                         "YUV420"}
  BY <1>2 DEF Dumped, Bytes
<1> QED BY <1>1, <1>2
=============================================================================
