---------------------------- MODULE RknnSyncProof ----------------------------
(***************************************************************************)
(* Proofs about RknnSync for a stream of any length, and about PostProcess *)
(* for any cells.                                                          *)
(***************************************************************************)
EXTENDS RknnSync, WellFoundedInduction, TLAPS

(***************************************************************************)
(* Counting, and the values of a recursive function of a number.           *)
(***************************************************************************)
\* A set of natural numbers has a least element.
LEMMA LeastNat ==
  ASSUME NEW T, T \subseteq Nat, T # {}
  PROVE  \E x \in T : \A y \in T : x <= y
<1>1. \E R : /\ IsWellFoundedOn(R, Nat)
             /\ \A x, y \in Nat : <<y, x>> \in R <=> y < x
  <2> DEFINE R == OpToRel(<, Nat)
  <2>1. IsWellFoundedOn(R, Nat)
    BY NatLessThanWellFounded, Zenon
  <2>2. \A x, y \in Nat : <<y, x>> \in R <=> y < x
    BY Zenon DEF OpToRel
  <2> HIDE DEF R
  <2> QED BY <2>1, <2>2
<1>2. PICK R : /\ IsWellFoundedOn(R, Nat)
               /\ \A x, y \in Nat : <<y, x>> \in R <=> y < x
  BY <1>1
<1>3. PICK x \in T : \A y \in T : ~ (<<y, x>> \in R)
  BY <1>2, WFMin
<1>4. ASSUME NEW y \in T
      PROVE  x <= y
  <2>1. x \in Nat /\ y \in Nat
    OBVIOUS
  <2>2. ~ (y < x)
    BY <1>2, <1>3, <2>1
  <2> QED BY <2>1, <2>2
<1> QED BY <1>4

\* What holds at the start, and after a number whenever it holds of it.
LEMMA Counting ==
  ASSUME NEW N \in Nat, NEW T, 0 \in T,
         \A n \in 0..(N - 1) : n \in T => n + 1 \in T
  PROVE  \A n \in 0..N : n \in T
<1> SUFFICES ASSUME NEW m \in 0..N, m \notin T PROVE FALSE
  OBVIOUS
<1> DEFINE U == {n \in 0..N : n \notin T}
<1>1. PICK n \in U : \A y \in U : n <= y
  <2>1. U \subseteq Nat /\ U # {}
    OBVIOUS
  <2> HIDE DEF U
  <2> QED BY <2>1, LeastNat
<1>2. n \in 1..N /\ n - 1 \in 0..(N - 1) /\ (n - 1) + 1 = n
  OBVIOUS
<1>3. n - 1 \in T
  BY <1>1, <1>2
<1> QED BY <1>1, <1>2, <1>3

\* The values of a recursion over 0..N.
Recurs(g, N, x, F) ==
  /\ g[0] = x
  /\ \A i \in 1..N : g[i] = F[<<i, g[i - 1]>>]

\* Every step that keeps a set has such values: the functions of PostProcess,
\* which are recursive over numbers, exist.
LEMMA Recursion ==
  ASSUME NEW N \in Nat, NEW S, NEW x \in S, NEW F \in [(1..N) \X S -> S]
  PROVE  \E g \in [0..N -> S] : Recurs(g, N, x, F)
<1> DEFINE T == {n \in 0..N : \E g \in [0..n -> S] : Recurs(g, n, x, F)}
<1>1. 0 \in T
  <2> DEFINE g0 == [i \in 0..0 |-> x]
  <2>1. g0 \in [0..0 -> S] /\ g0[0] = x /\ 1..0 = {}
    OBVIOUS
  <2>2. Recurs(g0, 0, x, F)
    BY <2>1 DEF Recurs
  <2> QED BY <2>1, <2>2
<1>2. ASSUME NEW n \in 0..(N - 1), n \in T
      PROVE  n + 1 \in T
  <2>1. PICK g \in [0..n -> S] : Recurs(g, n, x, F)
    BY <1>2
  <2> DEFINE f == [i \in 0..(n + 1) |->
                     IF i = n + 1 THEN F[<<n + 1, g[n]>>] ELSE g[i]]
  <2>2. n \in 0..n /\ n + 1 \in 1..N /\ n + 1 \in 0..N /\ n \in Nat
    OBVIOUS
  <2>3. F[<<n + 1, g[n]>>] \in S
    BY <2>1, <2>2
  <2>4. f \in [0..(n + 1) -> S]
    BY <2>1, <2>3
  <2>5. ASSUME NEW i \in 1..(n + 1)
        PROVE  f[i] = F[<<i, f[i - 1]>>]
    <3>1. i - 1 \in 0..n /\ i - 1 # n + 1 /\ i \in 0..(n + 1)
      BY <2>2
    <3>2. f[i - 1] = g[i - 1]
      BY <3>1
    <3>3. CASE i = n + 1
      BY <3>1, <3>2, <3>3
    <3>4. CASE i # n + 1
      <4>1. i \in 1..n
        BY <3>4, <2>2
      <4>2. f[i] = g[i] /\ g[i] = F[<<i, g[i - 1]>>]
        BY <2>1, <3>1, <3>4, <4>1 DEF Recurs
      <4> QED BY <3>2, <4>2
    <3> QED BY <3>3, <3>4
  <2>6. f[0] = x
    BY <2>1, <2>2 DEF Recurs
  <2>7. Recurs(f, n + 1, x, F)
    <3> HIDE DEF f
    <3> QED BY <2>5, <2>6 DEF Recurs
  <2> QED BY <2>2, <2>4, <2>7
<1>3. N \in T
  <2> HIDE DEF T
  <2> QED BY <1>1, <1>2, Counting
<1> QED BY <1>3

-----------------------------------------------------------------------------
(***************************************************************************)
(* The sort.                                                               *)
(***************************************************************************)
Rows(n) == [1..n -> Int \X Nat]

Distinct(n, s) == \A i, j \in 1..n : s[i][2] = s[j][2] => i = j

\* t is s with the places a..b in another order.
Shuffled(n, s, t, a, b) ==
  /\ \A i \in 1..n : i \notin a..b => t[i] = s[i]
  /\ \A i \in a..b : \E j \in a..b : t[i] = s[j]
  /\ \A j \in a..b : \E i \in a..b : t[i] = s[j]
  /\ Distinct(n, s) => Distinct(n, t)

\* A shuffle after a shuffle, of places among the same ones.
LEMMA ShuffledTwice ==
  ASSUME NEW n \in Nat, NEW s, NEW t, NEW u,
         NEW a \in Int, NEW b \in Int, NEW c \in Int, NEW d \in Int,
         1 <= a, b <= n, a <= c, d <= b,
         Shuffled(n, s, t, a, b), Shuffled(n, t, u, c, d)
  PROVE  Shuffled(n, s, u, a, b)
<1>1. ASSUME NEW i \in 1..n, i \notin a..b
      PROVE  u[i] = s[i]
  <2>1. i \notin c..d
    BY <1>1
  <2> QED BY <1>1, <2>1 DEF Shuffled
<1>2. \A i \in a..b : i \in 1..n
  OBVIOUS
<1>3. \A i \in c..d : i \in a..b
  OBVIOUS
<1>4. ASSUME NEW i \in a..b
      PROVE  \E j \in a..b : u[i] = t[j]
  BY <1>2, <1>3 DEF Shuffled
<1>5. ASSUME NEW j \in a..b
      PROVE  \E i \in a..b : u[i] = t[j]
  BY <1>2, <1>3 DEF Shuffled
<1>6. \A i \in a..b : \E j \in a..b : u[i] = s[j]
  BY <1>4 DEF Shuffled
<1>7. \A j \in a..b : \E i \in a..b : u[i] = s[j]
  BY <1>5 DEF Shuffled
<1> QED BY <1>1, <1>6, <1>7 DEF Shuffled

\* A sequence is a shuffle of itself.
LEMMA ShuffledNot ==
  ASSUME NEW n \in Nat, NEW s, NEW a \in Int, NEW b \in Int
  PROVE  Shuffled(n, s, s, a, b)
BY DEF Shuffled

\* Two places change theirs.
LEMMA ShuffledPair ==
  ASSUME NEW n \in Nat, NEW s \in Rows(n), NEW t \in Rows(n),
         NEW a \in Int, NEW b \in Int, 1 <= a, b <= n,
         NEW i \in a..b, NEW j \in a..b, t[i] = s[j], t[j] = s[i],
         \A k \in 1..n : k # i /\ k # j => t[k] = s[k]
  PROVE  Shuffled(n, s, t, a, b)
<1>1. i \in 1..n /\ j \in 1..n /\ \A k \in a..b : k \in 1..n
  OBVIOUS
<1>2. \A k \in 1..n : k \notin a..b => t[k] = s[k]
  OBVIOUS
<1>3. \A k \in a..b : \E l \in a..b : t[k] = s[l]
  BY <1>1
<1>4. \A l \in a..b : \E k \in a..b : t[k] = s[l]
  BY <1>1
<1>5. ASSUME Distinct(n, s)
      PROVE  Distinct(n, t)
  <2>1. SUFFICES ASSUME NEW k \in 1..n, NEW l \in 1..n, t[k][2] = t[l][2]
                 PROVE  k = l
    BY DEF Distinct
  <2>2. PICK p \in 1..n : /\ t[k] = s[p]
                           /\ p = IF k = i THEN j ELSE IF k = j THEN i ELSE k
    BY <1>1
  <2>3. PICK q \in 1..n : /\ t[l] = s[q]
                           /\ q = IF l = i THEN j ELSE IF l = j THEN i ELSE l
    BY <1>1
  <2>4. p = q
    BY <1>5, <2>1, <2>2, <2>3 DEF Distinct
  <2> QED BY <2>2, <2>3, <2>4
<1> QED BY <1>2, <1>3, <1>4, <1>5 DEF Shuffled

\* The scan from above stops at a place whose probability is above the key's,
\* or at low, and everything it passed is at most the key.
LEMMA FromIs ==
  ASSUME NEW n \in Nat, NEW s \in Rows(n), NEW low \in 1..n, NEW high \in 1..n,
         low <= high, NEW key \in Int, NEW h, h = From(s, low, high, key)
  PROVE  /\ h \in low..high
         /\ h = low \/ s[h][1] > key
         /\ \A k \in (h + 1)..high : s[k][1] <= key
<1> DEFINE T == {k \in low..high : \A m \in (k + 1)..high : s[m][1] <= key}
<1>1. T \subseteq Nat /\ high \in T
  OBVIOUS
<1>2. PICK x \in T : \A y \in T : x <= y
  <2> HIDE DEF T
  <2> QED BY <1>1, LeastNat
<1>3. x \in low..high /\ \A m \in (x + 1)..high : s[m][1] <= key
  BY <1>2
<1>4. x = low \/ s[x][1] > key
  <2> SUFFICES ASSUME x # low, ~(s[x][1] > key)
               PROVE  FALSE
    OBVIOUS
  <2>1. s[x][1] \in Int
    <3>1. x \in 1..n
      BY <1>3
    <3> QED BY <3>1 DEF Rows
  <2>2. /\ x - 1 \in low..high
        /\ \A m \in ((x - 1) + 1)..high : m = x \/ m \in (x + 1)..high
    BY <1>3
  <2>3. x - 1 \in T
    BY <1>3, <2>1, <2>2
  <2>4. x <= x - 1
    <3> HIDE DEF T
    <3> QED BY <1>2, <2>3
  <2> QED BY <2>4, <1>3
<1> HIDE DEF T
<1>5. \E k \in low..high : /\ k = low \/ s[k][1] > key
                           /\ \A m \in (k + 1)..high : s[m][1] <= key
  BY <1>3, <1>4
<1> QED BY <1>5, Zenon DEF From

\* The scan from below stops at a place whose probability is below the key's,
\* or at high, and everything it passed is at least the key.
LEMMA ToIs ==
  ASSUME NEW n \in Nat, NEW s \in Rows(n), NEW low \in 1..n, NEW high \in 1..n,
         low <= high, NEW key \in Int, NEW l, l = To(s, low, high, key)
  PROVE  /\ l \in low..high
         /\ l = high \/ s[l][1] < key
         /\ \A k \in low..(l - 1) : s[k][1] >= key
<1> DEFINE T == {k \in low..high : k = high \/ s[k][1] < key}
<1>1. T \subseteq Nat /\ high \in T
  OBVIOUS
<1>2. PICK x \in T : \A y \in T : x <= y
  <2> HIDE DEF T
  <2> QED BY <1>1, LeastNat
<1>3. x \in low..high /\ (x = high \/ s[x][1] < key)
  BY <1>2
<1>4. ASSUME NEW k \in low..(x - 1)
      PROVE  s[k][1] >= key
  <2>1. k \in 1..n /\ k \in low..high /\ k # high /\ ~(x <= k)
    BY <1>3
  <2>2. s[k][1] \in Int
    BY <2>1 DEF Rows
  <2>3. k \notin T
    <3> HIDE DEF T
    <3> QED BY <1>2, <2>1
  <2> QED BY <2>1, <2>2, <2>3
<1> HIDE DEF T
<1>5. \E k \in low..high : /\ k = high \/ s[k][1] < key
                           /\ \A m \in low..(k - 1) : s[m][1] >= key
  BY <1>3, <1>4
<1> QED BY <1>5, Zenon DEF To

\* What holds of a turn's state: what is below the holes is at least the key,
\* what is above at most, and with the key in the hole at low it is a shuffle.
Filled(r, row) == [r.s EXCEPT ![r.low] = row]

Hole(n) == [s : Rows(n), low : 1..n, high : 1..n]

Split(n, s, left, right, r) ==
  /\ r \in Hole(n)
  /\ left <= r.low /\ r.low <= r.high /\ r.high <= right
  /\ Shuffled(n, s, Filled(r, s[left]), left, right)
  /\ \A k \in left..(r.low - 1) : r.s[k][1] >= s[left][1]
  /\ \A k \in (r.high + 1)..right : r.s[k][1] <= s[left][1]

\* A turn of the outer loop moves the holes towards each other, past what
\* belongs on its side, and keeps the rows if the key's is put into the hole.
LEMMA TurnIs ==
  ASSUME NEW n \in Nat, NEW r \in Hole(n), r.low <= r.high,
         NEW row \in Int \X Nat, NEW q, q = Turn(r, row)
  PROVE  /\ q \in Hole(n) /\ r.low <= q.low /\ q.low <= q.high /\ q.high <= r.high
         /\ q.high - q.low < r.high - r.low \/ q.low = q.high
         /\ \A k \in 1..n : k \notin r.low..r.high => q.s[k] = r.s[k]
         /\ \A k \in r.low..(q.low - 1) : q.s[k][1] >= row[1]
         /\ \A k \in (q.high + 1)..r.high : q.s[k][1] <= row[1]
         /\ Shuffled(n, Filled(r, row), Filled(q, row), r.low, r.high)
<1>1. /\ r.s \in Rows(n) /\ r.low \in 1..n /\ r.high \in 1..n /\ row[1] \in Int
      /\ r = [s |-> r.s, low |-> r.low, high |-> r.high]
  BY DEF Hole
<1>2. CASE r.low = r.high
  <2>1. q = r
    BY <1>2, Zenon DEF Turn
  <2>2. Shuffled(n, Filled(r, row), Filled(q, row), r.low, r.high)
    BY <1>1, <2>1, ShuffledNot
  <2> QED BY <1>1, <1>2, <2>1, <2>2
<1>3. CASE r.low # r.high
  <2>1. PICK h : h = From(r.s, r.low, r.high, row[1])
    OBVIOUS
  <2>2. PICK t : t = [r.s EXCEPT ![r.low] = r.s[h]]
    OBVIOUS
  <2>3. PICK l : l = To(t, r.low, h, row[1])
    OBVIOUS
  <2>4. q = [s |-> [t EXCEPT ![h] = t[l]], low |-> l, high |-> h]
    BY <1>3, <2>1, <2>2, <2>3, Zenon DEF Turn
  <2>5. /\ h \in r.low..r.high
        /\ h = r.low \/ r.s[h][1] > row[1]
        /\ \A k \in (h + 1)..r.high : r.s[k][1] <= row[1]
    BY <1>1, <2>1, FromIs
  <2>6. h \in 1..n
    BY <1>1, <2>5
  <2>7. t \in Rows(n) /\ r.s[h] \in Int \X Nat
    BY <1>1, <2>2, <2>6 DEF Rows
  <2>8. /\ l \in r.low..h
        /\ l = h \/ t[l][1] < row[1]
        /\ \A k \in r.low..(l - 1) : t[k][1] >= row[1]
    BY <1>1, <2>3, <2>5, <2>6, <2>7, ToIs
  <2>9. l \in 1..n
    BY <1>1, <2>6, <2>8
  <2>10. q.s \in Rows(n) /\ q.low = l /\ q.high = h /\ q \in Hole(n)
    <3>1. t[l] \in Int \X Nat
      BY <2>7, <2>9 DEF Rows
    <3>2. [t EXCEPT ![h] = t[l]] \in Rows(n)
      BY <2>7, <3>1 DEF Rows
    <3> QED BY <2>4, <2>6, <2>9, <3>2 DEF Hole
  <2>11. \A k \in 1..n : q.s[k] = IF k = h THEN t[l] ELSE t[k]
    BY <2>4, <2>6, <2>7 DEF Rows
  <2>12. \A k \in 1..n : t[k] = IF k = r.low THEN r.s[h] ELSE r.s[k]
    BY <1>1, <2>2 DEF Rows
  <2>13. \A k \in 1..n : k \notin r.low..r.high => q.s[k] = r.s[k]
    BY <1>1, <2>5, <2>11, <2>12
  <2>14. \A k \in r.low..(l - 1) : q.s[k][1] >= row[1]
    <3>1. \A k \in r.low..(l - 1) : k \in 1..n /\ k # h
      BY <1>1, <2>6, <2>8
    <3> QED BY <2>8, <2>11, <3>1
  <2>15. \A k \in (h + 1)..r.high : q.s[k][1] <= row[1]
    <3>1. \A k \in (h + 1)..r.high : k \in 1..n /\ k # h /\ k # r.low
      BY <1>1, <2>5, <2>6
    <3> QED BY <2>5, <2>11, <2>12, <3>1
  <2>16. h - l < r.high - r.low \/ l = h
    <3> SUFFICES ASSUME l # h, h = r.high, l = r.low
                 PROVE  FALSE
      BY <1>1, <2>5, <2>8
    <3>1. t[l] = r.s[h] /\ r.s[h][1] > row[1] /\ t[l][1] < row[1]
      BY <1>3, <2>5, <2>8, <2>9, <2>12
    <3>2. r.s[h][1] \in Int
      BY <2>7
    <3> QED BY <1>1, <3>1, <3>2
  <2>17. Shuffled(n, Filled(r, row), Filled(q, row), r.low, r.high)
    <3>1. PICK f : f = Filled(r, row)
      OBVIOUS
    <3>2. PICK g : g = [t EXCEPT ![h] = row]
      OBVIOUS
    <3>3. PICK e : e = Filled(q, row)
      OBVIOUS
    <3>4. f \in Rows(n) /\ \A k \in 1..n : f[k] = IF k = r.low THEN row ELSE r.s[k]
      BY <1>1, <3>1 DEF Filled, Rows
    <3>5. g \in Rows(n) /\ \A k \in 1..n : g[k] = IF k = h THEN row ELSE t[k]
      BY <2>6, <2>7, <3>2 DEF Rows
    <3>6. e \in Rows(n) /\ \A k \in 1..n : e[k] = IF k = l THEN row ELSE q.s[k]
      BY <2>9, <2>10, <3>3 DEF Filled, Rows
    <3>7. r.low \in r.low..r.high /\ h \in r.low..r.high /\ l \in r.low..r.high
      BY <1>1, <2>5, <2>6, <2>8, <2>9
    <3>8. 1 <= r.low /\ r.high <= n
      BY <1>1
    <3>9. Shuffled(n, f, g, r.low, r.high)
      <4>1. g[r.low] = f[h] /\ g[h] = f[r.low]
        BY <1>1, <2>6, <2>12, <3>4, <3>5
      <4>2. \A k \in 1..n : k # r.low /\ k # h => g[k] = f[k]
        BY <2>12, <3>4, <3>5
      <4> QED BY <1>1, <3>4, <3>5, <3>7, <3>8, <4>1, <4>2, ShuffledPair
    <3>10. Shuffled(n, g, e, r.low, r.high)
      <4>1. e[h] = g[l] /\ e[l] = g[h]
        BY <2>6, <2>9, <2>11, <3>5, <3>6
      <4>2. \A k \in 1..n : k # h /\ k # l => e[k] = g[k]
        BY <2>11, <3>5, <3>6
      <4> QED BY <1>1, <3>5, <3>6, <3>7, <3>8, <4>1, <4>2, ShuffledPair
    <3>11. Shuffled(n, f, e, r.low, r.high)
      BY <1>1, <3>8, <3>9, <3>10, ShuffledTwice
    <3> QED BY <3>1, <3>3, <3>11
  <2> QED BY <2>5, <2>8, <2>10, <2>13, <2>14, <2>15, <2>16, <2>17
<1> QED BY <1>2, <1>3

\* A turn keeps what is split, and the part between the holes gets shorter.
LEMMA TurnSplits ==
  ASSUME NEW n \in Nat, NEW s \in Rows(n),
         NEW left \in 1..n, NEW right \in 1..n,
         NEW r, Split(n, s, left, right, r), NEW q, q = Turn(r, s[left])
  PROVE  /\ Split(n, s, left, right, q)
         /\ q.high - q.low < r.high - r.low \/ q.low = q.high
<1>1. /\ r \in Hole(n) /\ left <= r.low /\ r.low <= r.high /\ r.high <= right
      /\ r.low \in 1..n /\ r.high \in 1..n /\ s[left] \in Int \X Nat
  BY DEF Split, Hole, Rows
<1>2. /\ q \in Hole(n) /\ r.low <= q.low /\ q.low <= q.high /\ q.high <= r.high
      /\ q.high - q.low < r.high - r.low \/ q.low = q.high
      /\ \A k \in 1..n : k \notin r.low..r.high => q.s[k] = r.s[k]
      /\ \A k \in r.low..(q.low - 1) : q.s[k][1] >= s[left][1]
      /\ \A k \in (q.high + 1)..r.high : q.s[k][1] <= s[left][1]
      /\ Shuffled(n, Filled(r, s[left]), Filled(q, s[left]), r.low, r.high)
  <2>1. r \in Hole(n) /\ r.low <= r.high /\ s[left] \in Int \X Nat
    BY <1>1
  <2>2. PICK row \in Int \X Nat : row = s[left]
    BY <2>1
  <2>3. q = Turn(r, row)
    BY <2>2
  <2>4. /\ q \in Hole(n) /\ r.low <= q.low /\ q.low <= q.high /\ q.high <= r.high
        /\ q.high - q.low < r.high - r.low \/ q.low = q.high
        /\ \A k \in 1..n : k \notin r.low..r.high => q.s[k] = r.s[k]
        /\ \A k \in r.low..(q.low - 1) : q.s[k][1] >= row[1]
        /\ \A k \in (q.high + 1)..r.high : q.s[k][1] <= row[1]
        /\ Shuffled(n, Filled(r, row), Filled(q, row), r.low, r.high)
    BY <2>1, <2>3, TurnIs
  <2> QED BY <2>2, <2>4
<1>3. q.low \in 1..n /\ q.high \in 1..n
  BY <1>2 DEF Hole
<1>4. Shuffled(n, s, Filled(q, s[left]), left, right)
  <2>1. Shuffled(n, s, Filled(r, s[left]), left, right)
    BY DEF Split
  <2> QED BY <1>1, <1>2, <2>1, ShuffledTwice
<1>5. ASSUME NEW k \in left..(q.low - 1)
      PROVE  q.s[k][1] >= s[left][1]
  <2>1. CASE k \in r.low..(q.low - 1)
    BY <1>2, <2>1
  <2>2. CASE k < r.low
    <3>1. k \in 1..n /\ k \notin r.low..r.high /\ k \in left..(r.low - 1)
      BY <1>1, <1>3, <2>2
    <3> QED BY <1>2, <3>1 DEF Split
  <2> QED BY <1>1, <1>3, <2>1, <2>2
<1>6. ASSUME NEW k \in (q.high + 1)..right
      PROVE  q.s[k][1] <= s[left][1]
  <2>1. CASE k \in (q.high + 1)..r.high
    BY <1>2, <2>1
  <2>2. CASE k > r.high
    <3>1. k \in 1..n /\ k \notin r.low..r.high /\ k \in (r.high + 1)..right
      BY <1>1, <1>3, <2>2
    <3> QED BY <1>2, <3>1 DEF Split
  <2> QED BY <1>1, <1>3, <2>1, <2>2
<1>7. left <= q.low /\ q.high <= right
  BY <1>1, <1>2, <1>3
<1> QED BY <1>2, <1>4, <1>5, <1>6, <1>7 DEF Split

\* After as many turns as the segment is long the holes are one.
LEMMA TurnsSplit ==
  ASSUME NEW n \in Nat, NEW s \in Rows(n),
         NEW left \in 1..n, NEW right \in 1..n,
         left <= right
  PROVE  LET r == Turns(s, left, right)[right - left]
         IN  Split(n, s, left, right, r) /\ r.low = r.high
<1> DEFINE N == right - left
           r0 == [s |-> s, low |-> left, high |-> right]
           S == {r \in Hole(n) : r.low <= r.high}
           F == [z \in (1..N) \X S |-> Turn(z[2], s[left])]
<1>1. N \in Nat /\ s[left] \in Int \X Nat /\ r0 \in S
  BY DEF Rows, Hole
<1>2. F \in [(1..N) \X S -> S]
  <2>1. ASSUME NEW r \in S
        PROVE  Turn(r, s[left]) \in S
    BY <1>1, TurnIs
  <2> QED BY <2>1
<1>3. PICK g \in [0..N -> S] : Recurs(g, N, r0, F)
  <2> HIDE DEF F, S, r0, N
  <2> QED BY <1>1, <1>2, Recursion
<1> DEFINE Body(h) == [k \in 0..N |-> IF k = 0 THEN r0
                                      ELSE Turn(h[k - 1], s[left])]
<1>4. g = Body(g)
  <2>1. \A k \in 0..N : k # 0 => k \in 1..N /\ k - 1 \in 0..N
    BY <1>1
  <2>2. \A k \in 0..N : g[k] = IF k = 0 THEN r0 ELSE Turn(g[k - 1], s[left])
    BY <1>3, <2>1 DEF Recurs
  <2> HIDE DEF r0, N, S
  <2> QED BY <1>3, <2>2
<1>5. PICK after : after = Turns(s, left, right)
  OBVIOUS
<1>6. after = Body(after)
  <2>1. after = CHOOSE h : h = Body(h)
    BY <1>5, Zenon DEF Turns
  <2> HIDE DEF Body
  <2> QED BY <1>4, <2>1
<1> DEFINE T == {k \in 0..N : /\ Split(n, s, left, right, after[k])
                              /\ \/ after[k].high - after[k].low <= N - k
                                 \/ after[k].low = after[k].high}
<1>7. 0 \in T
  <2>1. after[0] = r0 /\ 0 \in 0..N
    BY <1>1, <1>6
  <2>2. Filled(r0, s[left]) = s
    BY DEF Filled, Rows
  <2>3. Split(n, s, left, right, r0)
    BY <1>1, <2>2, ShuffledNot DEF Split
  <2> QED BY <2>1, <2>3
<1>8. ASSUME NEW k \in 0..(N - 1), k \in T
      PROVE  k + 1 \in T
  <2>1. k + 1 \in 0..N /\ k + 1 # 0 /\ (k + 1) - 1 = k
    BY <1>1
  <2>2. after[k + 1] = Turn(after[k], s[left])
    <3> HIDE DEF r0, N
    <3> QED BY <1>6, <2>1
  <2>3. /\ Split(n, s, left, right, after[k])
        /\ after[k].high - after[k].low <= N - k \/ after[k].low = after[k].high
    BY <1>8
  <2>4. /\ Split(n, s, left, right, after[k + 1])
        /\ \/ after[k + 1].high - after[k + 1].low < after[k].high - after[k].low
           \/ after[k + 1].low = after[k + 1].high
    BY <2>2, <2>3, TurnSplits
  <2>5. /\ after[k].high \in Int /\ after[k].low \in Int
        /\ after[k + 1].high \in Int /\ after[k + 1].low \in Int
        /\ after[k].low <= after[k].high /\ after[k + 1].low <= after[k + 1].high
    <3> DEFINE u == after[k]
               v == after[k + 1]
    <3>1. Split(n, s, left, right, u) /\ Split(n, s, left, right, v)
      BY <2>3, <2>4
    <3> HIDE DEF u, v
    <3>2. /\ u.high \in Int /\ u.low \in Int /\ v.high \in Int /\ v.low \in Int
          /\ u.low <= u.high /\ v.low <= v.high
      BY <3>1 DEF Split, Hole
    <3> QED BY <3>2 DEF u, v
  <2>6. \/ after[k + 1].high - after[k + 1].low <= N - (k + 1)
        \/ after[k + 1].low = after[k + 1].high
    <3>1. PICK d : d = after[k].high - after[k].low
      OBVIOUS
    <3>2. PICK e : e = after[k + 1].high - after[k + 1].low
      OBVIOUS
    <3>3. d \in Nat /\ e \in Nat
      BY <2>5, <3>1, <3>2, SMTT(60)
    <3>4. after[k].low = after[k].high => d = 0
      BY <2>5, <3>1
    <3>5. (d <= N - k \/ d = 0) /\ (e < d \/ after[k + 1].low = after[k + 1].high)
      BY <2>3, <2>4, <3>1, <3>2, <3>4
    <3> HIDE DEF N
    <3>6. e <= N - (k + 1) \/ after[k + 1].low = after[k + 1].high
      BY <1>1, <3>3, <3>5
    <3> QED BY <3>2, <3>6
  <2> QED BY <2>1, <2>4, <2>6
<1>9. N \in T
  <2>1. /\ N \in Nat /\ N \in 0..N
        /\ \A k \in 0..(N - 1) : k \in T => k + 1 \in T
    BY <1>1, <1>8
  <2> HIDE DEF T, N
  <2>2. \A k \in 0..N : k \in T
    BY <2>1, <1>7, Counting, Zenon
  <2> QED BY <2>1, <2>2
<1>10. after[N].low = after[N].high /\ Split(n, s, left, right, after[N])
  <2>1. after[N].high \in Int /\ after[N].low \in Int /\ after[N].low <= after[N].high
    BY <1>9 DEF Split, Hole
  <2> QED BY <1>9, <2>1
<1> QED BY <1>5, <1>10

\* What is below the key's place is at least the key, what is above at most.
LEMMA PartitionIs ==
  ASSUME NEW n \in Nat, NEW s \in Rows(n),
         NEW left \in 1..n, NEW right \in 1..n,
         left <= right, NEW p, p = Partition(s, left, right)
  PROVE  /\ p.s \in Rows(n) /\ p.low \in left..right
         /\ Shuffled(n, s, p.s, left, right)
         /\ \A k \in left..(p.low - 1) : p.s[k][1] >= p.s[p.low][1]
         /\ \A k \in (p.low + 1)..right : p.s[k][1] <= p.s[p.low][1]
<1>1. PICK r : /\ r = Turns(s, left, right)[right - left]
               /\ Split(n, s, left, right, r) /\ r.low = r.high
  BY TurnsSplit
<1>2. p = [s |-> [r.s EXCEPT ![r.low] = s[left]], low |-> r.low]
  BY <1>1, Zenon DEF Partition
<1>3. /\ r.s \in Rows(n) /\ r.low \in 1..n /\ left <= r.low /\ r.low <= right
      /\ s[left] \in Int \X Nat
  BY <1>1 DEF Split, Hole, Rows
<1>4. /\ p.low = r.low /\ p.s \in Rows(n) /\ p.s = Filled(r, s[left])
      /\ \A k \in 1..n : p.s[k] = IF k = r.low THEN s[left] ELSE r.s[k]
  <2>1. [r.s EXCEPT ![r.low] = s[left]] \in Rows(n)
    BY <1>3 DEF Rows
  <2>2. p.low = r.low /\ p.s = [r.s EXCEPT ![r.low] = s[left]]
    BY <1>2
  <2> QED BY <1>3, <2>1, <2>2 DEF Rows, Filled
<1>5. Shuffled(n, s, p.s, left, right)
  BY <1>1, <1>4 DEF Split
<1>6. ASSUME NEW k \in left..(r.low - 1)
      PROVE  p.s[k][1] >= s[left][1]
  <2>1. k \in 1..n /\ k # r.low
    BY <1>3
  <2> QED BY <1>1, <1>4, <2>1 DEF Split
<1>7. ASSUME NEW k \in (r.low + 1)..right
      PROVE  p.s[k][1] <= s[left][1]
  <2>1. k \in 1..n /\ k # r.low
    BY <1>3
  <2> QED BY <1>1, <1>4, <2>1 DEF Split
<1>8. p.s[p.low] = s[left] /\ p.low \in left..right
  BY <1>3, <1>4
<1> QED BY <1>4, <1>5, <1>6, <1>7, <1>8

Falling(s, a, b) == \A i, j \in a..b : i < j => s[i][1] >= s[j][1]

\* The sort of all segments with at most d + 1 places.
Sorts(n, sort, d) ==
  \A a \in Segments(n) :
    a.right - a.left <= d =>
      /\ Shuffled(n, a.s, sort[a], a.left, a.right)
      /\ Falling(sort[a], a.left, a.right)

\* With what is above the key, and what is below it, sorted.
LEMMA CallsSort ==
  ASSUME NEW n \in Nat, NEW d \in Nat, NEW sort \in [Segments(n) -> Rows(n)],
         NEW a \in Segments(n), a.left < a.right, NEW t, t = Calls(sort, a)
  PROVE  /\ t \in Rows(n)
         /\ Sorts(n, sort, d) /\ a.right - a.left <= d + 1 =>
              /\ Shuffled(n, a.s, t, a.left, a.right)
              /\ Falling(t, a.left, a.right)
<1>1. /\ a.s \in Rows(n) /\ a.left \in 1..n /\ a.right \in 1..n
      /\ a.left \in Int /\ a.right \in Int
  BY DEF Segments, Rows
<1>2. PICK p : p = Partition(a.s, a.left, a.right)
  OBVIOUS
<1>3. /\ p.s \in Rows(n) /\ p.low \in a.left..a.right
      /\ Shuffled(n, a.s, p.s, a.left, a.right)
      /\ \A k \in a.left..(p.low - 1) : p.s[k][1] >= p.s[p.low][1]
      /\ \A k \in (p.low + 1)..a.right : p.s[k][1] <= p.s[p.low][1]
  BY <1>1, <1>2, PartitionIs
<1>4. PICK below : below = [s |-> p.s, left |-> a.left, right |-> p.low - 1]
  OBVIOUS
<1>5. below \in Segments(n) /\ below.s = p.s /\ below.left = a.left
      /\ below.right = p.low - 1
  <2>1. p.low - 1 \in 0..n /\ a.left \in 1..(n + 1)
    BY <1>1, <1>3
  <2> QED BY <1>3, <1>4, <2>1 DEF Segments, Rows
<1>6. PICK above : above = [s |-> sort[below], left |-> p.low + 1,
                            right |-> a.right]
  OBVIOUS
<1>7. sort[below] \in Rows(n)
  BY <1>5
<1>8. above \in Segments(n) /\ above.s = sort[below]
      /\ above.left = p.low + 1 /\ above.right = a.right
  <2>1. p.low + 1 \in 1..(n + 1) /\ a.right \in 0..n
    BY <1>1, <1>3
  <2> QED BY <1>6, <1>7, <2>1 DEF Segments, Rows
<1>9. t = sort[above]
  BY <1>2, <1>4, <1>6, Zenon DEF Calls
<1>10. t \in Rows(n)
  BY <1>8, <1>9
<1>11. ASSUME Sorts(n, sort, d), a.right - a.left <= d + 1
       PROVE  /\ Shuffled(n, a.s, t, a.left, a.right)
              /\ Falling(t, a.left, a.right)
  <2>1. PICK u : u = sort[below]
    OBVIOUS
  <2>2. PICK m : m = p.low
    OBVIOUS
  <2>3. m \in a.left..a.right /\ m \in 1..n /\ u \in Rows(n)
    BY <1>1, <1>3, <1>7, <2>1, <2>2
  <2>4. below.right - below.left <= d /\ above.right - above.left <= d
    BY <1>1, <1>5, <1>8, <1>11, <2>2, <2>3
  <2>5. Shuffled(n, p.s, u, a.left, m - 1) /\ Falling(u, a.left, m - 1)
    BY <1>5, <1>11, <2>1, <2>2, <2>4 DEF Sorts
  <2>6. Shuffled(n, u, t, m + 1, a.right) /\ Falling(t, m + 1, a.right)
    BY <1>8, <1>9, <1>11, <2>1, <2>2, <2>4 DEF Sorts
  <2>7. Shuffled(n, a.s, t, a.left, a.right)
    <3>1. a.left <= m + 1 /\ m - 1 <= a.right /\ 1 <= a.left /\ a.right <= n
      BY <1>1, <2>3
    <3>2. Shuffled(n, a.s, u, a.left, a.right)
      BY <1>1, <1>3, <2>3, <2>5, <3>1, ShuffledTwice
    <3> QED BY <1>1, <2>3, <2>6, <3>1, <3>2, ShuffledTwice
  <2>8. PICK key : key = p.s[m][1]
    OBVIOUS
  <2>9. /\ key \in Int
        /\ \A k \in 1..n : t[k][1] \in Int
    BY <1>3, <1>10, <2>3, <2>8 DEF Rows
  <2>10. ASSUME NEW k \in a.left..(m - 1)
         PROVE  t[k] = u[k] /\ t[k][1] >= key
    <3>1. k \in 1..n /\ k \notin (m + 1)..a.right
      BY <1>1, <2>3
    <3>2. t[k] = u[k]
      BY <2>6, <3>1 DEF Shuffled
    <3>3. PICK j \in a.left..(m - 1) : u[k] = p.s[j]
      BY <2>5 DEF Shuffled
    <3> QED BY <1>3, <2>2, <2>8, <3>2, <3>3
  <2>11. ASSUME NEW k \in (m + 1)..a.right
         PROVE  t[k][1] <= key
    <3>1. PICK j \in (m + 1)..a.right : t[k] = u[j]
      BY <2>6 DEF Shuffled
    <3>2. j \in 1..n /\ j \notin a.left..(m - 1)
      BY <1>1, <2>3
    <3>3. u[j] = p.s[j]
      BY <2>5, <3>2 DEF Shuffled
    <3> QED BY <1>3, <2>2, <2>8, <3>1, <3>3
  <2>12. t[m][1] = key
    <3>1. m \notin a.left..(m - 1) /\ m \notin (m + 1)..a.right
      BY <1>1, <2>3
    <3> QED BY <2>3, <2>5, <2>6, <2>8, <3>1 DEF Shuffled
  <2>13. ASSUME NEW i \in a.left..a.right, NEW j \in a.left..a.right, i < j
         PROVE  t[i][1] >= t[j][1]
    <3>1. i \in 1..n /\ j \in 1..n /\ i \in Int /\ j \in Int /\ m \in Int
      BY <1>1, <2>3
    <3>2. CASE j < m
      <4>1. i \in a.left..(m - 1) /\ j \in a.left..(m - 1)
        BY <2>13, <3>1, <3>2
      <4> QED BY <2>5, <2>10, <2>13, <4>1 DEF Falling
    <3>3. CASE m < i
      <4>1. i \in (m + 1)..a.right /\ j \in (m + 1)..a.right
        BY <2>13, <3>1, <3>3
      <4> QED BY <2>6, <2>13, <4>1 DEF Falling
    <3>4. CASE i <= m /\ m <= j
      <4>1. i = m \/ i \in a.left..(m - 1)
        BY <1>1, <3>1, <3>4
      <4>2. j = m \/ j \in (m + 1)..a.right
        BY <1>1, <3>1, <3>4
      <4>3. t[i][1] >= key
        BY <2>9, <2>10, <2>12, <4>1
      <4>4. t[j][1] <= key
        BY <2>9, <2>11, <2>12, <4>2
      <4> QED BY <2>9, <3>1, <4>3, <4>4
    <3> QED BY <3>1, <3>2, <3>3, <3>4
  <2> QED BY <2>7, <2>13 DEF Falling
<1> QED BY <1>10, <1>11

\* Calls that go deep enough sort any segment.
LEMMA SortedToSorts ==
  ASSUME NEW n \in Nat
  PROVE  /\ SortedTo(n)[n] \in [Segments(n) -> Rows(n)]
         /\ Sorts(n, SortedTo(n)[n], n)
<1> DEFINE S == [Segments(n) -> Rows(n)]
           s0 == [a \in Segments(n) |-> a.s]
           Next1(f) == [a \in Segments(n) |->
                          IF a.left >= a.right THEN a.s ELSE Calls(f, a)]
           F == [z \in (1..n) \X S |-> Next1(z[2])]
           Body(h) == [d \in 0..n |->
                         [a \in Segments(n) |->
                            IF d = 0 \/ a.left >= a.right THEN a.s
                            ELSE Calls(h[d - 1], a)]]
<1>1. \A a \in Segments(n) : /\ a.s \in Rows(n) /\ a.left \in Int /\ a.right \in Int
                             /\ a.left \in 1..(n + 1) /\ a.right \in 0..n
  BY DEF Segments, Rows
<1>2. s0 \in S
  BY <1>1
<1>3. ASSUME NEW f \in S
      PROVE  Next1(f) \in S
  <2>1. ASSUME NEW a \in Segments(n), ~(a.left >= a.right)
        PROVE  Calls(f, a) \in Rows(n)
    <3>1. a.left < a.right
      BY <1>1, <2>1
    <3> QED BY <3>1, CallsSort
  <2> QED BY <1>1, <2>1
<1>4. F \in [(1..n) \X S -> S]
  <2> HIDE DEF S, Next1
  <2> QED BY <1>3
<1>5. PICK g \in [0..n -> S] : Recurs(g, n, s0, F)
  <2> HIDE DEF F, S, s0
  <2> QED BY <1>2, <1>4, Recursion
<1>6. g = Body(g)
  <2>1. ASSUME NEW d \in 0..n
        PROVE  g[d] = Body(g)[d]
    <3>1. CASE d = 0
      <4>1. Body(g)[d] = s0
        BY <3>1
      <4> QED BY <1>5, <3>1, <4>1 DEF Recurs
    <3>2. CASE d # 0
      <4>1. d \in 1..n /\ d - 1 \in 0..n /\ g[d - 1] \in S
        BY <1>5, <3>2
      <4>2. g[d] = Next1(g[d - 1])
        <5> HIDE DEF S, Next1
        <5> QED BY <1>5, <4>1 DEF Recurs
      <4>3. Body(g)[d] = Next1(g[d - 1])
        BY <3>2
      <4> QED BY <4>2, <4>3
    <3> QED BY <3>1, <3>2
  <2>2. DOMAIN Body(g) = 0..n /\ DOMAIN g = 0..n
    BY <1>5
  <2>3. Body(g) = [d \in 0..n |-> Body(g)[d]] /\ g = [d \in 0..n |-> g[d]]
    BY <1>5
  <2> HIDE DEF Body
  <2> QED BY <2>1, <2>3
<1>7. PICK sorted : sorted = SortedTo(n)
  OBVIOUS
<1>8. sorted = Body(sorted)
  <2>1. sorted = CHOOSE h : h = Body(h)
    BY <1>7, Zenon DEF SortedTo
  <2> HIDE DEF Body
  <2> QED BY <1>6, <2>1
<1> DEFINE T == {d \in 0..n : sorted[d] \in S /\ Sorts(n, sorted[d], d)}
<1>9. 0 \in T
  <2>1. sorted[0] = s0 /\ 0 \in 0..n
    <3>1. Body(sorted)[0] = s0
      OBVIOUS
    <3> HIDE DEF Body
    <3> QED BY <1>8, <3>1
  <2>2. ASSUME NEW a \in Segments(n), a.right - a.left <= 0
        PROVE  /\ Shuffled(n, a.s, s0[a], a.left, a.right)
               /\ Falling(s0[a], a.left, a.right)
    <3>1. s0[a] = a.s /\ \A i, j \in a.left..a.right : ~(i < j)
      BY <1>1, <2>2
    <3>2. Falling(a.s, a.left, a.right)
      BY <3>1 DEF Falling
    <3> QED BY <1>1, <3>1, <3>2, ShuffledNot
  <2>3. Sorts(n, s0, 0)
    BY <2>2 DEF Sorts
  <2> QED BY <1>2, <2>1, <2>3
<1>10. ASSUME NEW d \in 0..(n - 1), d \in T
       PROVE  d + 1 \in T
  <2>1. /\ d + 1 \in 0..n /\ d + 1 # 0 /\ (d + 1) - 1 = d /\ d \in Nat
        /\ sorted[d] \in S /\ Sorts(n, sorted[d], d)
    BY <1>10
  <2>2. sorted[d + 1] = Next1(sorted[d])
    <3>1. Body(sorted)[d + 1] = Next1(sorted[d])
      BY <2>1
    <3> HIDE DEF Body
    <3> QED BY <1>8, <3>1
  <2>3. sorted[d + 1] \in S
    <3> HIDE DEF S, Next1
    <3> QED BY <1>3, <2>1, <2>2
  <2>4. ASSUME NEW a \in Segments(n), a.right - a.left <= d + 1
        PROVE  /\ Shuffled(n, a.s, sorted[d + 1][a], a.left, a.right)
               /\ Falling(sorted[d + 1][a], a.left, a.right)
    <3>1. CASE a.left >= a.right
      <4>1. sorted[d + 1][a] = a.s /\ \A i, j \in a.left..a.right : ~(i < j)
        BY <1>1, <2>2, <3>1
      <4>2. Falling(a.s, a.left, a.right)
        BY <4>1 DEF Falling
      <4> QED BY <1>1, <4>1, <4>2, ShuffledNot
    <3>2. CASE ~(a.left >= a.right)
      <4>1. sorted[d + 1][a] = Calls(sorted[d], a) /\ a.left < a.right
        BY <1>1, <2>2, <3>2
      <4> QED BY <2>1, <2>4, <4>1, CallsSort
    <3> QED BY <3>1, <3>2
  <2>5. Sorts(n, sorted[d + 1], d + 1)
    BY <2>4 DEF Sorts
  <2> QED BY <2>1, <2>3, <2>5
<1>11. n \in T
  <2>1. n \in 0..n /\ \A d \in 0..(n - 1) : d \in T => d + 1 \in T
    BY <1>10
  <2> HIDE DEF T
  <2>2. \A d \in 0..n : d \in T
    BY <2>1, <1>9, Counting, Zenon
  <2> QED BY <2>1, <2>2
<1> QED BY <1>7, <1>11

\* What process finds of the cells of a picture.
CandidateSet(classes) ==
  [box : Int \X Int \X Nat \X Nat, class : 1..classes, prob : Int]

\* s are the probabilities falling, each next to the index of the candidate
\* it is of, and every index once.
Ranks(cs, s) ==
  /\ s \in [1..Len(cs) -> Int \X Nat]
  /\ \A i, j \in 1..Len(cs) : i < j => s[i][1] >= s[j][1]
  /\ \A i \in 1..Len(cs) :
       s[i][2] \in 1..Len(cs) /\ s[i][1] = cs[s[i][2]].prob
  /\ \A j \in 1..Len(cs) : \E i \in 1..Len(cs) : s[i][2] = j
  /\ \A i, j \in 1..Len(cs) : s[i][2] = s[j][2] => i = j

(***************************************************************************)
(* The sort leaves the probabilities falling, each next to the index of    *)
(* the candidate it is of, and every index once.                           *)
(***************************************************************************)
THEOREM SortSorts ==
  ASSUME NEW classes, NEW cs \in Seq(CandidateSet(classes))
  PROVE  Ranks(cs, Sorted(cs))
<1> DEFINE s == Sorted(cs)
<1> HIDE DEF s
<1>1. PICK n : n = Len(cs)
  OBVIOUS
<1>2. n \in Nat /\ \A i \in 1..n : cs[i].prob \in Int
  <2>1. n \in Nat /\ \A i \in 1..n : cs[i] \in CandidateSet(classes)
    BY <1>1
  <2> QED BY <2>1 DEF CandidateSet
<1>3. PICK pairs : pairs = [i \in 1..n |-> <<cs[i].prob, i>>]
  OBVIOUS
<1>4. PICK a : a = [s |-> pairs, left |-> 1, right |-> n]
  OBVIOUS
<1>5. s = SortedTo(n)[n][a]
  BY <1>1, <1>3, <1>4, Zenon DEF Sorted, s
<1>6. pairs \in Rows(n) /\ \A i \in 1..n : pairs[i] = <<cs[i].prob, i>>
  BY <1>2, <1>3 DEF Rows
<1>7. a \in Segments(n) /\ a.s = pairs /\ a.left = 1 /\ a.right = n
  <2>1. 1 \in 1..(n + 1) /\ n \in 0..n
    BY <1>2
  <2> QED BY <1>4, <1>6, <2>1 DEF Segments, Rows
<1>8. s \in Rows(n)
  BY <1>2, <1>5, <1>7, SortedToSorts
<1>9. Shuffled(n, pairs, s, 1, n) /\ Falling(s, 1, n)
  <2>1. n - 1 <= n
    BY <1>2
  <2> QED BY <1>2, <1>5, <1>7, <2>1, SortedToSorts DEF Sorts
<1>10. ASSUME NEW i \in 1..n
       PROVE  s[i][2] \in 1..n /\ s[i][1] = cs[s[i][2]].prob
  <2>1. PICK j \in 1..n : s[i] = pairs[j]
    BY <1>9 DEF Shuffled
  <2> QED BY <1>6, <2>1
<1>11. ASSUME NEW j \in 1..n
       PROVE  \E i \in 1..n : s[i][2] = j
  <2>1. PICK i \in 1..n : s[i] = pairs[j]
    BY <1>9 DEF Shuffled
  <2> QED BY <1>6, <2>1
<1>12. Distinct(n, s)
  <2>1. Distinct(n, pairs)
    BY <1>6 DEF Distinct
  <2> QED BY <1>9, <2>1 DEF Shuffled
<1>13. Ranks(cs, s)
  BY <1>1, <1>8, <1>9, <1>10, <1>11, <1>12 DEF Ranks, Rows, Falling, Distinct
<1> QED BY <1>13 DEF s

-----------------------------------------------------------------------------
(***************************************************************************)
(* The suppression.                                                        *)
(***************************************************************************)
\* p is the order o with some entries suppressed.
Later(n, o, p) == \A j \in 1..n : p[j] = o[j] \/ p[j] = 0

\* What is suppressed overlaps the candidate of a place before its own.
Explained(cs, first, o) ==
  \A j \in DOMAIN o : o[j] = 0 =>
    \E i \in 1..(j - 1) : Overlap(cs[first[i]].box, cs[first[j]].box)

\* The candidate of place i overlaps none of those that are left behind it.
Clear(n, cs, o, i) ==
  \A j \in (i + 1)..n :
    o[i] # 0 /\ o[j] # 0 => ~ Overlap(cs[o[i]].box, cs[o[j]].box)

Orders(n) == [1..n -> 0..n]

\* What is suppressed stays so.
LEMMA LaterTwice ==
  ASSUME NEW n \in Nat, NEW o, NEW p, NEW q, Later(n, o, p), Later(n, p, q)
  PROVE  Later(n, o, q)
BY DEF Later

\* A place that is cleared stays so.
LEMMA LaterClear ==
  ASSUME NEW n \in Nat, NEW cs, NEW o, NEW p, Later(n, o, p),
         NEW i \in 1..n, Clear(n, cs, o, i)
  PROVE  Clear(n, cs, p, i)
<1>1. SUFFICES ASSUME NEW j \in (i + 1)..n, p[i] # 0, p[j] # 0
               PROVE  ~ Overlap(cs[p[i]].box, cs[p[j]].box)
  BY DEF Clear
<1>2. j \in 1..n
  OBVIOUS
<1>3. p[i] = o[i] /\ p[j] = o[j]
  BY <1>1, <1>2 DEF Later
<1> QED BY <1>1, <1>3 DEF Clear

\* Comparing place i with all that come after clears it, and suppresses only
\* what overlaps it.
LEMMA SuppressIs ==
  ASSUME NEW n \in Nat, NEW cs, NEW first \in [1..n -> 1..n],
         NEW o \in Orders(n), NEW i \in 1..n, NEW p, p = Suppress(cs, o, i)
  PROVE  /\ p \in Orders(n) /\ Later(n, o, p)
         /\ o[i] # 0 => Clear(n, cs, p, i)
         /\ o[i] # 0 /\ Later(n, first, o) /\ Explained(cs, first, o) =>
              Explained(cs, first, p)
<1> DEFINE Hit(j) == /\ j > i /\ o[j] # 0
                     /\ Overlap(cs[o[i]].box, cs[o[j]].box)
<1>1. p = [j \in 1..n |-> IF Hit(j) THEN 0 ELSE o[j]]
  BY DEF Suppress, Orders
<1> HIDE DEF Hit
<1>2. p \in Orders(n) /\ \A j \in 1..n : p[j] = IF Hit(j) THEN 0 ELSE o[j]
  BY <1>1 DEF Orders
<1>3. p[i] = o[i]
  BY <1>2 DEF Hit
<1>4. Clear(n, cs, p, i)
  <2>1. SUFFICES ASSUME NEW j \in (i + 1)..n, p[j] # 0,
                        Overlap(cs[p[i]].box, cs[p[j]].box)
                 PROVE  FALSE
    BY DEF Clear
  <2>2. j \in 1..n /\ j > i
    OBVIOUS
  <2>3. ~ Hit(j) /\ p[j] = o[j]
    BY <1>2, <2>1, <2>2
  <2> QED BY <1>3, <2>1, <2>2, <2>3 DEF Hit
<1>5. ASSUME o[i] # 0, Later(n, first, o), Explained(cs, first, o)
      PROVE  Explained(cs, first, p)
  <2>1. SUFFICES ASSUME NEW j \in 1..n, p[j] = 0
                 PROVE  \E k \in 1..(j - 1) :
                          Overlap(cs[first[k]].box, cs[first[j]].box)
    BY <1>2 DEF Explained, Orders
  <2>2. CASE Hit(j)
    <3>1. i \in 1..(j - 1)
      BY <2>2 DEF Hit
    <3>2. o[i] = first[i] /\ o[j] = first[j]
      BY <1>5, <2>2 DEF Later, Hit
    <3> QED BY <2>2, <3>1, <3>2 DEF Hit
  <2>3. CASE ~ Hit(j)
    <3>1. o[j] = 0 /\ j \in DOMAIN o
      BY <1>2, <2>1, <2>3 DEF Orders
    <3> QED BY <1>5, <3>1 DEF Explained
  <2> QED BY <2>2, <2>3
<1> QED BY <1>2, <1>4, <1>5 DEF Later

\* A call for a class clears the places of the class.
LEMMA NmsClears ==
  ASSUME NEW n \in Nat, NEW cs, Len(cs) = n, NEW first \in [1..n -> 1..n],
         NEW order \in Orders(n), Later(n, first, order),
         Explained(cs, first, order), NEW class,
         NEW p, p = Nms(cs, order, class)[Len(cs)]
  PROVE  /\ p \in Orders(n) /\ Later(n, order, p) /\ Explained(cs, first, p)
         /\ \A i \in 1..n : cs[i].class = class => Clear(n, cs, p, i)
<1> DEFINE S == Orders(n)
           Step(o, i) == IF o[i] = 0 \/ cs[i].class # class THEN o
                         ELSE Suppress(cs, o, i)
           F == [z \in (1..n) \X S |-> Step(z[2], z[1])]
           Body(h) == [i \in 0..n |-> IF i = 0 THEN order
                                      ELSE Step(h[i - 1], i)]
<1>1. ASSUME NEW o \in S, NEW i \in 1..n
      PROVE  /\ Step(o, i) \in S /\ Later(n, o, Step(o, i))
             /\ Later(n, first, o) /\ Explained(cs, first, o) =>
                  Explained(cs, first, Step(o, i))
             /\ cs[i].class = class => Clear(n, cs, Step(o, i), i)
  <2>1. CASE o[i] = 0 \/ cs[i].class # class
    <3>1. Step(o, i) = o
      BY <2>1
    <3> HIDE DEF Step
    <3> QED BY <2>1, <3>1 DEF Later, Clear
  <2>2. CASE ~ (o[i] = 0 \/ cs[i].class # class)
    <3>1. Step(o, i) = Suppress(cs, o, i)
      BY <2>2
    <3> HIDE DEF Step
    <3> QED BY <2>2, <3>1, SuppressIs
  <2> QED BY <2>1, <2>2
<1> HIDE DEF Step
<1>2. F \in [(1..n) \X S -> S]
  <2> HIDE DEF S
  <2> QED BY <1>1
<1>3. PICK g \in [0..n -> S] : Recurs(g, n, order, F)
  <2> HIDE DEF F
  <2> QED BY <1>2, Recursion
<1>4. g = Body(g)
  <2>1. \A i \in 0..n : i # 0 => i \in 1..n /\ i - 1 \in 0..n
    OBVIOUS
  <2>2. ASSUME NEW i \in 0..n
        PROVE  g[i] = IF i = 0 THEN order ELSE Step(g[i - 1], i)
    <3> HIDE DEF S
    <3> QED BY <1>3, <2>1 DEF Recurs
  <2> HIDE DEF S
  <2> QED BY <1>3, <2>2
<1>5. PICK after : after = Nms(cs, order, class)
  OBVIOUS
<1>6. after = Body(after)
  <2>1. after = CHOOSE h : h = Body(h)
    BY <1>5, Zenon DEF Nms, Step
  <2> HIDE DEF Body
  <2> QED BY <1>4, <2>1
<1> DEFINE Done(o, i) ==
             /\ o \in Orders(n) /\ Later(n, order, o) /\ Explained(cs, first, o)
             /\ \A k \in 1..i : cs[k].class = class => Clear(n, cs, o, k)
           T == {i \in 0..n : Done(after[i], i)}
<1>7. 0 \in T
  <2>1. after[0] = order /\ 0 \in 0..n
    BY <1>6
  <2>2. Done(order, 0)
    BY DEF Later
  <2> HIDE DEF Done
  <2> QED BY <2>1, <2>2
<1>8. ASSUME NEW i \in 0..(n - 1), i \in T
      PROVE  i + 1 \in T
  <2>1. /\ i + 1 \in 0..n /\ i + 1 \in 1..n /\ (i + 1) - 1 = i /\ i + 1 # 0
        /\ \A k \in 1..(i + 1) : k = i + 1 \/ k \in 1..i
        /\ \A k \in 1..i : k \in 1..n
    OBVIOUS
  <2>2. PICK o : o = after[i]
    OBVIOUS
  <2>3. PICK q : q = Step(o, i + 1)
    OBVIOUS
  <2>4. after[i + 1] = q
    BY <1>6, <2>1, <2>2, <2>3
  <2>5. Done(o, i)
    BY <1>8, <2>2
  <2>6. Later(n, first, o)
    BY <2>5, LaterTwice
  <2>7. /\ q \in Orders(n) /\ Later(n, o, q) /\ Explained(cs, first, q)
        /\ cs[i + 1].class = class => Clear(n, cs, q, i + 1)
    BY <1>1, <2>1, <2>3, <2>5, <2>6
  <2>8. Later(n, order, q)
    BY <2>5, <2>7, LaterTwice
  <2>9. \A k \in 1..(i + 1) : cs[k].class = class => Clear(n, cs, q, k)
    BY <2>1, <2>5, <2>7, LaterClear
  <2> QED BY <2>1, <2>4, <2>7, <2>8, <2>9
<1>9. n \in T
  <2>1. n \in 0..n /\ \A i \in 0..(n - 1) : i \in T => i + 1 \in T
    BY <1>8
  <2> HIDE DEF T
  <2>2. \A i \in 0..n : i \in T
    BY <2>1, <1>7, Counting, Zenon
  <2> QED BY <2>1, <2>2
<1> QED BY <1>5, <1>9

\* After the calls for all classes every place is cleared.
LEMMA SuppressedClears ==
  ASSUME NEW n \in Nat, NEW classes \in Nat, NEW cs, Len(cs) = n,
         \A i \in 1..n : cs[i].class \in 1..classes,
         NEW first \in [1..n -> 1..n],
         NEW p, p = Suppressed(cs, first, classes)[classes]
  PROVE  /\ p \in Orders(n) /\ Later(n, first, p) /\ Explained(cs, first, p)
         /\ \A i \in 1..n : Clear(n, cs, p, i)
<1> DEFINE Done(o, k) ==
             /\ o \in Orders(n) /\ Later(n, first, o) /\ Explained(cs, first, o)
             /\ \A i \in 1..n : cs[i].class \in 1..k => Clear(n, cs, o, i)
           S == {o \in Orders(n) : Later(n, first, o) /\ Explained(cs, first, o)}
           Step(o, k) == Nms(cs, o, k)[Len(cs)]
           F == [z \in (1..classes) \X S |-> Step(z[2], z[1])]
           Body(h) == [k \in 0..classes |-> IF k = 0 THEN first
                                            ELSE Step(h[k - 1], k)]
<1>1. ASSUME NEW o \in S, NEW k \in Int
      PROVE  /\ Step(o, k) \in S /\ Later(n, o, Step(o, k))
             /\ \A i \in 1..n : cs[i].class = k => Clear(n, cs, Step(o, k), i)
  <2>1. PICK q : q = Step(o, k)
    OBVIOUS
  <2>2. /\ q \in Orders(n) /\ Later(n, o, q) /\ Explained(cs, first, q)
        /\ \A i \in 1..n : cs[i].class = k => Clear(n, cs, q, i)
    <3>1. o \in Orders(n) /\ Later(n, first, o) /\ Explained(cs, first, o)
      OBVIOUS
    <3>2. q = Nms(cs, o, k)[Len(cs)]
      BY <2>1
    <3> HIDE DEF Step, S
    <3>3. Len(cs) = n
      OBVIOUS
    <3> HIDE DEF Done, Body, F
    <3>4. first \in [1..n -> 1..n] /\ n \in Nat
      OBVIOUS
    <3> HIDE DEF Orders
    <3> QED BY ONLY <3>1, <3>2, <3>3, <3>4, NmsClears, SMTT(60)
  <2>3. Later(n, first, q)
    BY <2>2, LaterTwice
  <2> HIDE DEF Step
  <2> QED BY <2>1, <2>2, <2>3
<1> HIDE DEF Step
<1>2. first \in S /\ \A k \in 1..classes : k \in Int
  BY DEF Orders, Later, Explained
<1>3. F \in [(1..classes) \X S -> S]
  <2> HIDE DEF S
  <2> QED BY <1>1
<1>4. PICK g \in [0..classes -> S] : Recurs(g, classes, first, F)
  <2> HIDE DEF F, S
  <2> QED BY <1>2, <1>3, Recursion
<1>5. g = Body(g)
  <2>1. \A k \in 0..classes : k # 0 => k \in 1..classes /\ k - 1 \in 0..classes
    OBVIOUS
  <2>2. ASSUME NEW k \in 0..classes
        PROVE  g[k] = IF k = 0 THEN first ELSE Step(g[k - 1], k)
    <3> HIDE DEF S
    <3> QED BY <1>4, <2>1 DEF Recurs
  <2> HIDE DEF S
  <2> QED BY <1>4, <2>2
<1>6. PICK after : after = Suppressed(cs, first, classes)
  OBVIOUS
<1>7. after = Body(after)
  <2>1. after = CHOOSE h : h = Body(h)
    BY <1>6, Zenon DEF Suppressed, Step
  <2> HIDE DEF Body
  <2> QED BY <1>5, <2>1
<1> DEFINE T == {k \in 0..classes : Done(after[k], k)}
<1>8. 0 \in T
  <2>1. after[0] = first /\ 0 \in 0..classes
    BY <1>7
  <2>2. Done(first, 0)
    BY <1>2
  <2> HIDE DEF Done
  <2> QED BY <2>1, <2>2
<1>9. ASSUME NEW k \in 0..(classes - 1), k \in T
      PROVE  k + 1 \in T
  <2>1. /\ k + 1 \in 0..classes /\ (k + 1) - 1 = k /\ k + 1 # 0 /\ k + 1 \in Int
        /\ \A c \in 1..(k + 1) : c = k + 1 \/ c \in 1..k
    OBVIOUS
  <2>2. PICK o : o = after[k]
    OBVIOUS
  <2>3. PICK q : q = Step(o, k + 1)
    OBVIOUS
  <2>4. after[k + 1] = q
    BY <1>7, <2>1, <2>2, <2>3
  <2>5. Done(o, k)
    BY <1>9, <2>2
  <2>6. /\ q \in S /\ Later(n, o, q)
        /\ \A i \in 1..n : cs[i].class = k + 1 => Clear(n, cs, q, i)
    BY <1>1, <2>1, <2>3, <2>5
  <2>7. \A i \in 1..n : cs[i].class \in 1..(k + 1) => Clear(n, cs, q, i)
    BY <2>1, <2>5, <2>6, LaterClear
  <2> QED BY <2>1, <2>4, <2>6, <2>7
<1>10. classes \in T
  <2>1. classes \in 0..classes /\ \A k \in 0..(classes - 1) : k \in T => k + 1 \in T
    BY <1>9
  <2> HIDE DEF T
  <2>2. \A k \in 0..classes : k \in T
    BY <2>1, <1>8, Counting, Zenon
  <2> QED BY <2>1, <2>2
<1> QED BY <1>6, <1>10

\* The common extent of two boxes is the same either way.
LEMMA CommonSymmetric ==
  ASSUME NEW a, NEW b, NEW d,
         a[d] \in Int, a[d + 2] \in Int, b[d] \in Int, b[d + 2] \in Int
  PROVE  Common(a, b, d) = Common(b, a, d) /\ Common(a, b, d) \in Int
BY DEF Common, Lower, Upper

\* So is whether they overlap.
LEMMA OverlapSymmetric ==
  ASSUME NEW a \in Int \X Int \X Nat \X Nat, NEW b \in Int \X Int \X Nat \X Nat
  PROVE  Overlap(a, b) <=> Overlap(b, a)
<1>1. \A d \in 1..4 : a[d] \in Int /\ b[d] \in Int
  OBVIOUS
<1>2. 1 + 2 = 3 /\ 2 + 2 = 4
  OBVIOUS
<1>3. \A d \in 1..2 : Common(a, b, d) = Common(b, a, d) /\ Common(a, b, d) \in Int
  BY <1>1, <1>2, CommonSymmetric
<1>4. PICK i : i = Common(a, b, 1) * Common(a, b, 2)
  OBVIOUS
<1>5. i \in Int /\ i = Common(b, a, 1) * Common(b, a, 2)
  BY <1>3, <1>4
<1>6. PICK x : x = (a[3] + 1) * (a[4] + 1)
  OBVIOUS
<1>7. PICK y : y = (b[3] + 1) * (b[4] + 1)
  OBVIOUS
<1>8. x \in Int /\ y \in Int
  BY <1>1, <1>6, <1>7
<1>9. x + y - i = y + x - i
  BY <1>5, <1>8
<1>10. Overlap(a, b) <=> (x + y - i > 0 /\ 100 * i > NmsPercent * (x + y - i))
  BY <1>4, <1>6, <1>7 DEF Overlap
<1>11. Overlap(b, a) <=> (y + x - i > 0 /\ 100 * i > NmsPercent * (y + x - i))
  BY <1>5, <1>6, <1>7 DEF Overlap
<1> QED BY <1>9, <1>10, <1>11

\* Of the candidates that are left no two overlap, whatever their classes.
LEMMA NoneOverlap ==
  ASSUME NEW n \in Nat, NEW classes, NEW cs \in Seq(CandidateSet(classes)),
         Len(cs) = n, NEW o \in Orders(n), \A i \in 1..n : Clear(n, cs, o, i),
         NEW i \in 1..n, NEW j \in 1..n, i # j, o[i] # 0, o[j] # 0
  PROVE  ~ Overlap(cs[o[i]].box, cs[o[j]].box)
<1>1. o[i] \in 1..n /\ o[j] \in 1..n
  BY DEF Orders
<1>2. \A k \in 1..n : cs[k].box \in Int \X Int \X Nat \X Nat
  <2>1. \A k \in 1..n : cs[k] \in CandidateSet(classes)
    OBVIOUS
  <2> QED BY <2>1 DEF CandidateSet
<1>3. CASE i < j
  <2>1. j \in (i + 1)..n
    BY <1>3
  <2> QED BY <2>1 DEF Clear
<1>4. CASE j < i
  <2>1. i \in (j + 1)..n
    BY <1>4
  <2>2. ~ Overlap(cs[o[j]].box, cs[o[i]].box)
    BY <2>1 DEF Clear
  <2> QED BY <1>1, <1>2, <2>2, OverlapSymmetric
<1> QED BY <1>3, <1>4

-----------------------------------------------------------------------------
(***************************************************************************)
(* The candidates.                                                         *)
(***************************************************************************)
\* A cell has a first of its most probable classes.
LEMMA MaxClassIs ==
  ASSUME NEW p \in [1..Classes -> Int]
  PROVE  MaxClass(p) \in 1..Classes
<1> DEFINE Best(m, k) == /\ \A l \in 1..m : p[l] <= p[k]
                         /\ \A l \in 1..(k - 1) : p[l] < p[k]
           T == {m \in 0..Classes : m = 0 \/ \E k \in 1..m : Best(m, k)}
<1>1. Classes \in Nat /\ Classes # 0
  BY PictureAssumption DEF PictureAssumption
<1>2. 0 \in T
  BY <1>1
<1>3. ASSUME NEW m \in 0..(Classes - 1), m \in T
      PROVE  m + 1 \in T
  <2>1. /\ m + 1 \in 0..Classes /\ m + 1 \in 1..(m + 1) /\ m \in Nat
        /\ \A l \in 1..(m + 1) : l = m + 1 \/ l \in 1..m
        /\ \A l \in 1..(m + 1) : p[l] \in Int
    BY <1>1
  <2>2. \E k \in 1..(m + 1) : Best(m + 1, k)
    <3>1. CASE m = 0
      <4>1. Best(m + 1, m + 1)
        BY <2>1, <3>1
      <4> QED BY <2>1, <4>1
    <3>2. CASE m # 0
      <4>1. PICK k \in 1..m : Best(m, k)
        BY <1>3, <3>2
      <4>2. k \in 1..(m + 1)
        BY <2>1
      <4>3. CASE p[m + 1] > p[k]
        <5>1. Best(m + 1, m + 1)
          BY <2>1, <4>1, <4>2, <4>3
        <5> QED BY <2>1, <5>1
      <4>4. CASE ~ (p[m + 1] > p[k])
        <5>1. Best(m + 1, k)
          BY <2>1, <4>1, <4>2, <4>4
        <5> QED BY <4>2, <5>1
      <4> QED BY <4>3, <4>4
    <3> QED BY <3>1, <3>2
  <2> HIDE DEF Best
  <2> QED BY <2>1, <2>2
<1>4. Classes \in T
  <2>1. Classes \in 0..Classes /\ \A m \in 0..(Classes - 1) : m \in T => m + 1 \in T
    BY <1>1, <1>3
  <2> HIDE DEF T
  <2>2. \A m \in 0..Classes : m \in T
    BY <1>1, <1>2, <2>1, Counting, Zenon
  <2> QED BY <2>1, <2>2
<1>5. DOMAIN p = 1..Classes
  OBVIOUS
<1>6. \E k \in DOMAIN p : Best(Classes, k)
  BY <1>1, <1>4, <1>5
<1>7. MaxClass(p) \in DOMAIN p
  BY <1>5, <1>6, Zenon DEF MaxClass
<1> QED BY <1>5, <1>7

\* Of a cell comes a candidate with one of the classes.
LEMMA CandidateIs ==
  ASSUME NEW cell \in CellSet
  PROVE  Candidate(cell) \in CandidateSet(Classes)
<1>1. /\ cell.box \in Int \X Int \X Nat \X Nat /\ cell.confidence \in Int
      /\ cell.probs \in [1..Classes -> Int]
  BY DEF CellSet
<1>2. PICK k : k = MaxClass(cell.probs)
  OBVIOUS
<1>3. k \in 1..Classes
  BY <1>1, <1>2, MaxClassIs
<1>4. PICK x : x = cell.confidence * cell.probs[k]
  OBVIOUS
<1>5. x \in Int
  <2>1. cell.probs[k] \in Int
    BY <1>1, <1>3
  <2> QED BY <1>1, <1>4, <2>1
<1>6. Candidate(cell) = [box |-> cell.box, class |-> k, prob |-> x]
  BY <1>2, <1>4, Zenon DEF Candidate
<1> QED BY <1>1, <1>3, <1>5, <1>6 DEF CandidateSet

\* process finds a sequence of candidates.
LEMMA CandidatesAre ==
  ASSUME NEW cells \in Seq(CellSet)
  PROVE  Candidates(cells) \in Seq(CandidateSet(Classes))
<1> DEFINE N == Len(cells)
           S == Seq(CandidateSet(Classes))
           Step(cs, i) == IF Detected(cells[i])
                          THEN Append(cs, Candidate(cells[i])) ELSE cs
           F == [z \in (1..N) \X S |-> Step(z[2], z[1])]
           Body(h) == [i \in 0..N |-> IF i = 0 THEN << >> ELSE Step(h[i - 1], i)]
<1>1. N \in Nat /\ << >> \in S
  OBVIOUS
<1>2. ASSUME NEW cs \in S, NEW i \in 1..N
      PROVE  Step(cs, i) \in S
  <2>1. Candidate(cells[i]) \in CandidateSet(Classes)
    BY CandidateIs
  <2> QED BY <2>1
<1> HIDE DEF Step
<1>3. F \in [(1..N) \X S -> S]
  <2> HIDE DEF S, N
  <2> QED BY <1>2
<1>4. PICK g \in [0..N -> S] : Recurs(g, N, << >>, F)
  <2> HIDE DEF F, S, N
  <2> QED BY <1>1, <1>3, Recursion
<1>5. g = Body(g)
  <2>1. \A i \in 0..N : i # 0 => i \in 1..N /\ i - 1 \in 0..N
    BY <1>1
  <2>2. ASSUME NEW i \in 0..N
        PROVE  g[i] = IF i = 0 THEN << >> ELSE Step(g[i - 1], i)
    <3> HIDE DEF S, N
    <3> QED BY <1>4, <2>1 DEF Recurs
  <2> HIDE DEF S, N
  <2> QED BY <1>4, <2>2
<1>6. PICK after : after = Processed(cells)
  OBVIOUS
<1>7. after = Body(after)
  <2>1. after = CHOOSE h : h = Body(h)
    BY <1>6, Zenon DEF Processed, Step
  <2> HIDE DEF Body
  <2> QED BY <1>5, <2>1
<1> DEFINE T == {i \in 0..N : after[i] \in S}
<1>8. 0 \in T
  <2> HIDE DEF S, N
  <2> QED BY <1>1, <1>7
<1>9. ASSUME NEW i \in 0..(N - 1), i \in T
      PROVE  i + 1 \in T
  <2>1. i + 1 \in 0..N /\ i + 1 \in 1..N /\ (i + 1) - 1 = i /\ i + 1 # 0
    BY <1>1
  <2> HIDE DEF S, N
  <2>2. after[i + 1] = Step(after[i], i + 1)
    BY <1>7, <2>1
  <2> QED BY <1>2, <1>9, <2>1, <2>2
<1>10. N \in T
  <2>1. N \in 0..N /\ \A i \in 0..(N - 1) : i \in T => i + 1 \in T
    BY <1>1, <1>9
  <2> HIDE DEF T, N
  <2>2. \A i \in 0..N : i \in T
    BY <1>1, <1>8, <2>1, Counting, Zenon
  <2> QED BY <2>1, <2>2
<1> QED BY <1>6, <1>10 DEF Candidates

-----------------------------------------------------------------------------
(***************************************************************************)
(* The results.                                                            *)
(***************************************************************************)
\* The places that are kept come in order and are not suppressed, and no
\* other is left out before there are too many.
Keeps(order, i, t) ==
  /\ t \in Seq(1..Len(order)) /\ Len(t) <= MaxObjects
  /\ \A a, b \in 1..Len(t) : a < b => t[a] < t[b]
  /\ \A a \in 1..Len(t) : t[a] \in 1..i /\ order[t[a]] # 0
  /\ \A j \in 1..i : order[j] # 0 =>
       Len(t) = MaxObjects \/ \E a \in 1..Len(t) : t[a] = j

\* That is what the last loop of post_process keeps.
LEMMA TakenKeeps ==
  ASSUME NEW order, Len(order) \in Nat
  PROVE  Keeps(order, Len(order), Kept(order))
<1> DEFINE N == Len(order)
           S == Seq(1..N)
           Step(t, i) == IF order[i] = 0 \/ Len(t) >= MaxObjects THEN t
                         ELSE Append(t, i)
           F == [z \in (1..N) \X S |-> Step(z[2], z[1])]
           Body(h) == [i \in 0..N |-> IF i = 0 THEN << >> ELSE Step(h[i - 1], i)]
<1>1. N \in Nat /\ << >> \in S /\ MaxObjects \in Nat
  BY ThresholdAssumption DEF ThresholdAssumption
<1>2. ASSUME NEW t \in S, NEW i \in 1..N
      PROVE  Step(t, i) \in S
  <2>1. Append(t, i) \in S
    <3> HIDE DEF N
    <3> QED OBVIOUS
  <2> QED BY <2>1
<1>3. ASSUME NEW t, NEW i \in 0..(N - 1), Keeps(order, i, t)
      PROVE  Keeps(order, i + 1, Step(t, i + 1))
  <2>1. PICK q : q = Step(t, i + 1)
    OBVIOUS
  <2>2. /\ t \in Seq(1..Len(order)) /\ Len(t) <= MaxObjects
        /\ \A a, b \in 1..Len(t) : a < b => t[a] < t[b]
        /\ \A a \in 1..Len(t) : t[a] \in 1..i /\ order[t[a]] # 0
        /\ \A j \in 1..i : order[j] # 0 =>
             Len(t) = MaxObjects \/ \E a \in 1..Len(t) : t[a] = j
    BY <1>3 DEF Keeps
  <2>3. /\ i \in Nat /\ i + 1 \in 1..N /\ Len(t) \in Nat
        /\ \A j \in 1..(i + 1) : j = i + 1 \/ j \in 1..i
        /\ \A j \in 1..i : j \in 1..(i + 1)
    BY <1>1, <2>2
  <2>4. CASE order[i + 1] = 0 \/ Len(t) >= MaxObjects
    <3>1. q = t
      BY <2>1, <2>4
    <3>2. Len(t) >= MaxObjects => Len(t) = MaxObjects
      BY <1>1, <2>2, <2>3
    <3> HIDE DEF Step, N
    <3>3. \A j \in 1..(i + 1) : order[j] # 0 =>
            Len(t) = MaxObjects \/ \E a \in 1..Len(t) : t[a] = j
      BY <2>2, <2>3, <2>4, <3>2
    <3>4. Keeps(order, i + 1, t)
      BY <2>2, <2>3, <3>3 DEF Keeps
    <3> QED BY <2>1, <3>1, <3>4
  <2>5. CASE ~ (order[i + 1] = 0 \/ Len(t) >= MaxObjects)
    <3>1. q = Append(t, i + 1)
      BY <2>1, <2>5
    <3>2. PICK m : m = Len(t)
      OBVIOUS
    <3>3. /\ q \in Seq(1..Len(order)) /\ Len(q) = m + 1 /\ m \in Nat
          /\ \A a \in 1..m : q[a] = t[a]
          /\ q[m + 1] = i + 1
          /\ \A a \in 1..(m + 1) : a = m + 1 \/ a \in 1..m
      BY <2>2, <2>3, <3>1, <3>2
    <3>4. Len(q) <= MaxObjects
      BY <1>1, <2>3, <2>5, <3>2, <3>3
    <3>5. \A a \in 1..(m + 1) : q[a] \in 1..(i + 1) /\ order[q[a]] # 0
      <4>1. ASSUME NEW a \in 1..m
            PROVE  q[a] \in 1..(i + 1) /\ order[q[a]] # 0
        <5>1. q[a] = t[a] /\ t[a] \in 1..i /\ order[t[a]] # 0
          BY <2>2, <3>2, <3>3
        <5> QED BY <2>3, <5>1
      <4>2. q[m + 1] \in 1..(i + 1) /\ order[q[m + 1]] # 0
        BY <2>3, <2>5, <3>3
      <4> QED BY <3>3, <4>1, <4>2
    <3>6. ASSUME NEW a \in 1..(m + 1), NEW b \in 1..(m + 1), a < b
          PROVE  q[a] < q[b]
      <4>1. a \in 1..m
        BY <3>3, <3>6
      <4>2. CASE b \in 1..m
        BY <2>2, <3>2, <3>3, <3>6, <4>1, <4>2
      <4>3. CASE b = m + 1
        <5>1. q[a] \in 1..i /\ q[b] = i + 1
          BY <2>2, <3>2, <3>3, <4>1, <4>3
        <5> QED BY <2>3, <5>1
      <4> QED BY <3>3, <4>2, <4>3
    <3>7. ASSUME NEW j \in 1..(i + 1), order[j] # 0
          PROVE  \E a \in 1..(m + 1) : q[a] = j
      <4>1. m + 1 \in 1..(m + 1) /\ \A a \in 1..m : a \in 1..(m + 1)
        BY <3>3
      <4>2. CASE j = i + 1
        BY <3>3, <4>1, <4>2
      <4>3. CASE j \in 1..i
        <5>1. m # MaxObjects
          BY <1>1, <2>3, <2>5, <3>2
        <5>2. PICK a \in 1..m : t[a] = j
          BY <2>2, <3>2, <3>7, <4>3, <5>1
        <5> QED BY <3>3, <4>1, <5>2
      <4> QED BY <2>3, <4>2, <4>3
    <3> HIDE DEF Step, N
    <3>8. Keeps(order, i + 1, q)
      BY <3>3, <3>4, <3>5, <3>6, <3>7 DEF Keeps
    <3> QED BY <2>1, <3>8
  <2> QED BY <2>4, <2>5
<1> HIDE DEF Step
<1>4. F \in [(1..N) \X S -> S]
  <2> HIDE DEF S, N
  <2> QED BY <1>2
<1>5. PICK g \in [0..N -> S] : Recurs(g, N, << >>, F)
  <2> HIDE DEF F, S, N
  <2> QED BY <1>1, <1>4, Recursion
<1>6. g = Body(g)
  <2>1. \A i \in 0..N : i # 0 => i \in 1..N /\ i - 1 \in 0..N
    BY <1>1
  <2>2. ASSUME NEW i \in 0..N
        PROVE  g[i] = IF i = 0 THEN << >> ELSE Step(g[i - 1], i)
    <3> HIDE DEF S, N
    <3> QED BY <1>5, <2>1 DEF Recurs
  <2> HIDE DEF S, N
  <2> QED BY <1>5, <2>2
<1>7. PICK after : after = Taken(order)
  OBVIOUS
<1>8. after = Body(after)
  <2>1. after = CHOOSE h : h = Body(h)
    BY <1>7, Zenon DEF Taken, Step
  <2> HIDE DEF Body
  <2> QED BY <1>6, <2>1
<1> DEFINE T == {i \in 0..N : Keeps(order, i, after[i])}
<1>9. 0 \in T
  <2>1. after[0] = << >> /\ 0 \in 0..N
    BY <1>1, <1>8
  <2>2. Keeps(order, 0, << >>)
    BY <1>1 DEF Keeps
  <2> HIDE DEF N
  <2> QED BY <2>1, <2>2
<1>10. ASSUME NEW i \in 0..(N - 1), i \in T
       PROVE  i + 1 \in T
  <2>1. i + 1 \in 0..N /\ (i + 1) - 1 = i /\ i + 1 # 0
    BY <1>1
  <2>2. after[i + 1] = Step(after[i], i + 1)
    <3> HIDE DEF N
    <3> QED BY <1>8, <2>1
  <2>3. Keeps(order, i, after[i])
    BY <1>10
  <2> HIDE DEF N
  <2>4. Keeps(order, i + 1, after[i + 1])
    BY <1>3, <2>2, <2>3
  <2> QED BY <2>1, <2>4
<1>11. N \in T
  <2>1. N \in 0..N /\ \A i \in 0..(N - 1) : i \in T => i + 1 \in T
    BY <1>1, <1>10
  <2> HIDE DEF T, N
  <2>2. \A i \in 0..N : i \in T
    BY <1>1, <1>9, <2>1, Counting, Zenon
  <2> QED BY <2>1, <2>2
<1> QED BY <1>7, <1>11 DEF Kept

\* Clamping keeps a position in the model's input and the order of two.
LEMMA ClampRises ==
  ASSUME NEW x \in Int, NEW w \in Nat, NEW max \in Nat
  PROVE  /\ Clamp(x, max) \in Nat /\ Clamp(x + w, max) \in Nat
         /\ Clamp(x, max) <= Clamp(x + w, max)
         /\ Clamp(x + w, max) = 0 \/ Clamp(x + w, max) = Lower(x + w, max)
BY DEF Clamp, Lower

LEMMA ProductRises ==
  ASSUME NEW m \in Nat, NEW k \in Nat, NEW c \in Nat, m <= k
  PROVE  m * c <= k * c /\ m * c \in Nat /\ k * c \in Nat
BY SMT

LEMMA QuotientRises ==
  ASSUME NEW a \in Nat, NEW b \in Nat, NEW c \in Nat \ {0}, a <= b
  PROVE  a \div c \in Nat /\ a \div c <= b \div c
<1>1. a \div c \in Nat
  BY Z3
<1>2. a \div c <= b \div c
  BY SMTT(30)
<1> QED BY <1>1, <1>2

LEMMA QuotientWithin ==
  ASSUME NEW a \in Nat, NEW f \in Nat, NEW c \in Nat \ {0}, a <= c * f
  PROVE  a \div c <= f
BY SMTT(30)

\* Scaling keeps the order of two positions, and those in the crop are on
\* the frame.
LEMMA ScaledRises ==
  ASSUME NEW d \in {1, 2}, NEW a \in Nat, NEW b \in Nat, a <= b
  PROVE  /\ Scaled(a, d) \in Nat /\ Scaled(b, d) \in Nat
         /\ Scaled(a, d) <= Scaled(b, d)
         /\ b <= CropSize[d] => Scaled(b, d) <= FrameSize[d]
<1>1. PICK c \in Nat \ {0} : c = CropSize[d]
  BY ThresholdAssumption DEF ThresholdAssumption
<1>2. PICK f \in Nat : f = FrameSize[d]
  BY ThresholdAssumption DEF ThresholdAssumption
<1>3. PICK x : x = a * f
  OBVIOUS
<1>4. PICK y : y = b * f
  OBVIOUS
<1>5. x \in Nat /\ y \in Nat /\ x <= y
  BY <1>3, <1>4, ProductRises
<1>6. /\ x \div c \in Nat /\ y \div c \in Nat
      /\ x \div c <= y \div c
  BY <1>5, QuotientRises
<1>7. ASSUME b <= c PROVE y \div c <= f
  <2>1. y <= c * f
    BY <1>4, <1>7, ProductRises
  <2> QED BY <1>5, <2>1, QuotientWithin
<1>8. Scaled(a, d) = x \div c /\ Scaled(b, d) = y \div c
  BY <1>1, <1>2, <1>3, <1>4, Zenon DEF Scaled
<1> QED BY <1>1, <1>2, <1>6, <1>7, <1>8, Zenon

\* The two ends of a box come on the frame in their order, the second within
\* it if it ends in the crop.
LEMMA PlacesRise ==
  ASSUME NEW d \in {1, 2}, NEW x \in Int, NEW w \in Nat
  PROVE  /\ 0 <= Place(x, d) /\ Place(x, d) <= Place(x + w, d)
         /\ Lower(x + w, ModelSize[d]) <= CropSize[d] =>
              Place(x + w, d) <= FrameSize[d]
<1>1. PICK m \in Nat : m = ModelSize[d]
  BY ThresholdAssumption DEF ThresholdAssumption
<1>2. PICK a \in Nat : a = Clamp(x, m)
  BY ClampRises
<1>3. PICK b \in Nat : b = Clamp(x + w, m)
  BY ClampRises
<1>4. a <= b /\ (b = 0 \/ b = Lower(x + w, m))
  BY <1>2, <1>3, ClampRises
<1>5. CropSize[d] \in Nat
  BY ThresholdAssumption DEF ThresholdAssumption
<1>6. Lower(x + w, m) <= CropSize[d] => b <= CropSize[d]
  BY <1>4, <1>5
<1>7. /\ Scaled(a, d) \in Nat /\ Scaled(a, d) <= Scaled(b, d)
      /\ b <= CropSize[d] => Scaled(b, d) <= FrameSize[d]
  BY <1>4, ScaledRises
<1>8. Place(x, d) = Scaled(a, d) /\ Place(x + w, d) = Scaled(b, d)
  BY <1>1, <1>2, <1>3, Zenon DEF Place
<1>9. 0 <= Scaled(a, d)
  BY <1>7
<1> QED BY <1>1, <1>6, <1>7, <1>8, <1>9, Zenon

\* The box of a result lies on the frame as that of its candidate does.
LEMMA ResultOnFrame ==
  ASSUME NEW classes, NEW c \in CandidateSet(classes), NEW prob
  PROVE  OnFrame(c, Result(c, prob)) /\ Result(c, prob).prop = prob
<1>1. PICK b : b = c.box
  OBVIOUS
<1>2. b[1] \in Int /\ b[2] \in Int /\ b[3] \in Nat /\ b[4] \in Nat
  <2>1. b \in Int \X Int \X Nat \X Nat
    BY <1>1 DEF CandidateSet
  <2> QED BY <2>1
<1>3. PICK r : r = Result(c, prob)
  OBVIOUS
<1>4. /\ r.left = Place(b[1], 1) /\ r.right = Place(b[1] + b[3], 1)
      /\ r.top = Place(b[2], 2) /\ r.bottom = Place(b[2] + b[4], 2)
      /\ r.prop = prob
  BY <1>1, <1>3 DEF Result
<1>5. /\ 0 <= r.left /\ r.left <= r.right
      /\ Lower(b[1] + b[3], ModelSize[1]) <= CropSize[1] =>
           r.right <= FrameSize[1]
  BY <1>2, <1>4, PlacesRise
<1>6. /\ 0 <= r.top /\ r.top <= r.bottom
      /\ Lower(b[2] + b[4], ModelSize[2]) <= CropSize[2] =>
           r.bottom <= FrameSize[2]
  BY <1>2, <1>4, PlacesRise
<1>7. /\ EndsInCrop(c, 1) <=> Lower(b[1] + b[3], ModelSize[1]) <= CropSize[1]
      /\ EndsInCrop(c, 2) <=> Lower(b[2] + b[4], ModelSize[2]) <= CropSize[2]
  BY <1>1 DEF EndsInCrop
<1>8. OnFrame(c, r)
  BY <1>5, <1>6, <1>7, Zenon DEF OnFrame
<1> QED BY <1>3, <1>4, <1>8

\* What is left, o, of the order after the sort, first.
Leaves(cs, first, o) ==
  /\ o \in Orders(Len(cs)) /\ Later(Len(cs), first, o)
  /\ Explained(cs, first, o)
  /\ \A i \in 1..Len(cs) : Clear(Len(cs), cs, o, i)

\* The sort and the calls of nms for all classes leave that.
LEMMA RemainingIs ==
  ASSUME NEW cs \in Seq(CandidateSet(Classes)), NEW n, n = Len(cs),
         NEW s, s = Sorted(cs),
         NEW first, first = [i \in 1..n |-> s[i][2]],
         NEW o, o = Remaining(cs, Classes)
  PROVE  first \in [1..n -> 1..n] /\ Leaves(cs, first, o)
<1>1. n \in Nat /\ \A i \in 1..n : cs[i] \in CandidateSet(Classes)
  OBVIOUS
<1>2. Ranks(cs, s)
  BY SortSorts
<1>3. first \in [1..n -> 1..n]
  BY <1>2 DEF Ranks
<1>4. o = Suppressed(cs, first, Classes)[Classes]
  BY Zenon DEF Remaining
<1>5. Classes \in Nat
  BY PictureAssumption DEF PictureAssumption
<1>6. \A i \in 1..n : cs[i].class \in 1..Classes
  BY <1>1 DEF CandidateSet
<1> QED BY <1>1, <1>3, <1>4, <1>5, <1>6, SuppressedClears DEF Leaves

(***************************************************************************)
(* No two candidates that are left overlap by more than the threshold,     *)
(* whatever their classes: each of the calls of nms works for one class    *)
(* but compares with all that comes after.                                 *)
(***************************************************************************)
THEOREM RemainingApart ==
  ASSUME NEW cells \in Seq(CellSet), NEW cs, cs = Candidates(cells),
         NEW o, o = Remaining(cs, Classes),
         NEW i \in DOMAIN cs, NEW j \in DOMAIN cs, i # j, o[i] # 0, o[j] # 0
  PROVE  ~ Overlap(cs[o[i]].box, cs[o[j]].box)
<1>1. cs \in Seq(CandidateSet(Classes))
  BY CandidatesAre
<1>2. PICK n : n = Len(cs)
  OBVIOUS
<1>3. n \in Nat /\ DOMAIN cs = 1..n
  BY <1>1, <1>2
<1>4. PICK s : s = Sorted(cs)
  OBVIOUS
<1>5. PICK first : first = [k \in 1..n |-> s[k][2]]
  OBVIOUS
<1>6. Leaves(cs, first, o)
  BY <1>1, <1>2, <1>4, <1>5, RemainingIs
<1>7. o \in Orders(n) /\ \A k \in 1..n : Clear(n, cs, o, k)
  BY <1>2, <1>6 DEF Leaves
<1> QED BY <1>1, <1>2, <1>3, <1>7, NoneOverlap

(***************************************************************************)
(* Of any cells the model may report, post_process makes results that come *)
(* with falling probability, lie in the picture, each with its own         *)
(* candidate's probability, and none overlaps another of its class; what   *)
(* is left out overlaps a better one or is too many.                       *)
(***************************************************************************)
THEOREM PostProcessSound ==
  ASSUME NEW cells \in Seq(CellSet)
  PROVE  ResultsSound(cells, Classes)
<1>1. PICK cs : cs = Candidates(cells)
  OBVIOUS
<1>2. cs \in Seq(CandidateSet(Classes))
  BY <1>1, CandidatesAre
<1>3. PICK n : n = Len(cs)
  OBVIOUS
<1>4. /\ n \in Nat /\ DOMAIN cs = 1..n
      /\ \A i \in 1..n : cs[i] \in CandidateSet(Classes)
  BY <1>2, <1>3
<1>5. PICK s : s = Sorted(cs)
  OBVIOUS
<1>6. /\ s \in [1..n -> Int \X Nat]
      /\ \A i, j \in 1..n : i < j => s[i][1] >= s[j][1]
      /\ \A i \in 1..n : s[i][2] \in 1..n /\ s[i][1] = cs[s[i][2]].prob
      /\ \A j \in 1..n : \E i \in 1..n : s[i][2] = j
      /\ \A i, j \in 1..n : s[i][2] = s[j][2] => i = j
  <2>1. Ranks(cs, s)
    BY <1>2, <1>5, SortSorts
  <2> QED BY <1>3, <2>1 DEF Ranks
<1>7. PICK first : first = [i \in 1..n |-> s[i][2]]
  OBVIOUS
<1>8. PICK o : o = Remaining(cs, Classes)
  OBVIOUS
<1>9. /\ first \in [1..n -> 1..n] /\ \A i \in 1..n : first[i] = s[i][2]
      /\ o \in Orders(n) /\ Later(n, first, o) /\ Explained(cs, first, o)
      /\ \A i \in 1..n : Clear(n, cs, o, i)
  <2>1. first \in [1..n -> 1..n] /\ Leaves(cs, first, o)
    BY <1>2, <1>3, <1>5, <1>7, <1>8, RemainingIs
  <2> QED BY <1>3, <1>7, <2>1 DEF Leaves
<1>10. Len(o) = n /\ DOMAIN o = 1..n
  BY <1>4, <1>9 DEF Orders
<1>11. PICK kept : kept = Kept(o)
  OBVIOUS
<1>12. Keeps(o, n, kept)
  BY <1>4, <1>10, <1>11, TakenKeeps
<1>13. PICK m : m = Len(kept)
  OBVIOUS
<1>14. /\ m \in Nat /\ m <= MaxObjects
       /\ \A a, b \in 1..m : a < b => kept[a] < kept[b]
       /\ \A a \in 1..m : kept[a] \in 1..n /\ o[kept[a]] # 0
       /\ \A j \in 1..n : o[j] # 0 =>
            m = MaxObjects \/ \E a \in 1..m : kept[a] = j
  BY <1>12, <1>13 DEF Keeps
<1>15. \A a \in 1..m : o[kept[a]] = s[kept[a]][2] /\ o[kept[a]] \in 1..n
  BY <1>6, <1>9, <1>14 DEF Later
<1>16. PICK res : res = Results(cells, Classes)
  OBVIOUS
<1>17. res = [a \in 1..m |-> Result(cs[o[kept[a]]], s[kept[a]][1])]
  BY <1>1, <1>5, <1>8, <1>11, <1>13, <1>16, Zenon DEF Results, ResultsOf
<1>18. /\ DOMAIN res = 1..m /\ Len(res) = m
       /\ \A a \in 1..m : res[a] = Result(cs[o[kept[a]]], s[kept[a]][1])
  BY <1>14, <1>17
<1>19. PICK of : of = [a \in DOMAIN res |-> o[kept[a]]]
  OBVIOUS
<1>20. \A a \in 1..m : of[a] = o[kept[a]]
  BY <1>18, <1>19
<1>21. ASSUME NEW a \in 1..m
       PROVE  OnFrame(cs[of[a]], res[a]) /\ res[a].prop = s[kept[a]][1]
  <2>1. cs[o[kept[a]]] \in CandidateSet(Classes)
    BY <1>4, <1>15
  <2>2. res[a] = Result(cs[of[a]], s[kept[a]][1])
    BY <1>18, <1>20
  <2>3. cs[of[a]] \in CandidateSet(Classes)
    BY <1>20, <2>1
  <2> QED BY <2>2, <2>3, ResultOnFrame
<1>22. ASSUME NEW a \in 1..m, NEW b \in 1..m, a < b
       PROVE  res[a].prop >= res[b].prop
  <2>1. kept[a] \in 1..n /\ kept[b] \in 1..n /\ kept[a] < kept[b]
    BY <1>14, <1>22
  <2>2. s[kept[a]][1] >= s[kept[b]][1]
    BY <1>6, <2>1
  <2> QED BY <1>21, <2>2
<1>23. \A a \in 1..m : res[a].prop = cs[of[a]].prob
  <2>1. SUFFICES ASSUME NEW a \in 1..m
                 PROVE  res[a].prop = cs[of[a]].prob
    OBVIOUS
  <2>2. kept[a] \in 1..n /\ of[a] = s[kept[a]][2]
    BY <1>14, <1>15, <1>20
  <2>3. s[kept[a]][1] = cs[s[kept[a]][2]].prob
    BY <1>6, <2>2
  <2> QED BY <1>21, <2>2, <2>3
<1>24. ASSUME NEW a \in 1..m, NEW b \in 1..m, a # b
       PROVE  /\ of[a] # of[b]
              /\ ~ Overlap(cs[of[a]].box, cs[of[b]].box)
  <2>1. kept[a] # kept[b]
    <3>1. CASE a < b
      BY <1>14, <3>1
    <3>2. CASE b < a
      BY <1>14, <3>2
    <3> QED BY <1>24, <3>1, <3>2
  <2>2. of[a] # of[b]
    <3>1. /\ kept[a] \in 1..n /\ kept[b] \in 1..n
          /\ of[a] = s[kept[a]][2] /\ of[b] = s[kept[b]][2]
      BY <1>14, <1>15, <1>20
    <3>2. s[kept[a]][2] # s[kept[b]][2]
      BY <1>6, <2>1, <3>1
    <3> QED BY <3>1, <3>2
  <2>3. ~ Overlap(cs[o[kept[a]]].box, cs[o[kept[b]]].box)
    BY <1>2, <1>3, <1>4, <1>9, <1>14, <2>1, NoneOverlap
  <2> QED BY <1>20, <2>2, <2>3
<1>25. ASSUME NEW k \in 1..n
       PROVE  \/ \E a \in 1..m : of[a] = k
              \/ m = MaxObjects
              \/ \E l \in (1..n) \ {k} : /\ cs[l].prob >= cs[k].prob
                                         /\ Overlap(cs[l].box, cs[k].box)
  <2>1. PICK j \in 1..n : s[j][2] = k
    BY <1>6
  <2>2. CASE o[j] # 0
    <3>1. o[j] = k
      BY <1>9, <2>1, <2>2 DEF Later
    <3> QED BY <1>14, <1>20, <2>2, <3>1
  <2>3. CASE o[j] = 0
    <3>1. PICK i \in 1..(j - 1) : Overlap(cs[first[i]].box, cs[first[j]].box)
      BY <1>9, <1>10, <2>3 DEF Explained
    <3>2. i \in 1..n /\ i < j /\ i # j
      BY <1>4
    <3>3. first[i] \in (1..n) \ {k} /\ first[j] = k
      BY <1>6, <1>9, <2>1, <3>2
    <3>4. cs[first[i]].prob >= cs[k].prob
      <4>1. s[i][1] >= s[j][1]
        BY <1>6, <3>2
      <4>2. s[i][1] = cs[s[i][2]].prob /\ s[j][1] = cs[s[j][2]].prob
        BY <1>6, <3>2
      <4> QED BY <1>9, <2>1, <3>2, <4>1, <4>2
    <3> QED BY <3>1, <3>3, <3>4
  <2> QED BY <2>2, <2>3
<1>26. /\ \A i, j \in DOMAIN res : i < j => res[i].prop >= res[j].prop
       /\ \A i \in DOMAIN res : OnFrame(cs[of[i]], res[i]) /\ res[i].prop = cs[of[i]].prob
       /\ \A i, j \in DOMAIN res :
            i # j => /\ of[i] # of[j]
                     /\ cs[of[i]].class = cs[of[j]].class =>
                          ~Overlap(cs[of[i]].box, cs[of[j]].box)
       /\ \A k \in DOMAIN cs :
            \/ \E i \in DOMAIN res : of[i] = k
            \/ Len(res) = MaxObjects
            \/ \E l \in DOMAIN cs \ {k} :
                 /\ cs[l].prob >= cs[k].prob
                 /\ Overlap(cs[l].box, cs[k].box)
  <2>1. \A i, j \in DOMAIN res : i < j => res[i].prop >= res[j].prop
    BY <1>18, <1>22
  <2>2. \A i \in DOMAIN res : OnFrame(cs[of[i]], res[i]) /\ res[i].prop = cs[of[i]].prob
    BY <1>18, <1>21, <1>23
  <2>3. \A i, j \in DOMAIN res :
          i # j => of[i] # of[j] /\ ~Overlap(cs[of[i]].box, cs[of[j]].box)
    BY <1>18, <1>24
  <2> QED BY <1>4, <1>18, <1>25, <2>1, <2>2, <2>3, Zenon
<1>27. SoundFor(cs, o, kept, res)
  BY <1>19, <1>26 DEF SoundFor
<1> QED BY <1>1, <1>8, <1>11, <1>16, <1>27 DEF ResultsSound

-----------------------------------------------------------------------------
(***************************************************************************)
(* The two threads.                                                        *)
(***************************************************************************)
USE StreamAssumption DEF StreamAssumption, Frames

(***************************************************************************)
(* Every step keeps the types.                                             *)
(***************************************************************************)
LEMMA TypeStep == ASSUME TypeOK, [Next]_vars PROVE TypeOK'
<1> USE DEF TypeOK
<1>1. CASE InfTake
  BY <1>1 DEF InfTake, rgaVars
<1>2. CASE InfRun \/ InfTimesOut \/ InfReturn
  BY <1>2 DEF InfRun, InfTimesOut, InfReturn, rgaVars
<1>3. CASE InfPublish
  BY <1>3 DEF InfPublish
<1>4. CASE RgaTake
  BY <1>4 DEF RgaTake, infVars
<1>5. CASE RgaProcess \/ RgaSkip \/ RgaWakesUp \/ RgaDraw
  BY <1>5 DEF RgaProcess, RgaSkip, RgaWakesUp, RgaDraw, infVars
<1>6. CASE RgaWait \/ RgaNotify
  BY <1>6 DEF RgaWait, RgaNotify, NotifyInf
<1>7. CASE UNCHANGED vars
  BY <1>7 DEF vars, infVars, rgaVars
<1> QED BY <1>1, <1>2, <1>3, <1>4, <1>5, <1>6, <1>7
        DEF Next, Inference, Rga

(***************************************************************************)
(* Every variable keeps its type.                                          *)
(***************************************************************************)
THEOREM TypeCorrect == Spec => []TypeOK
<1>1. Init => TypeOK
  <2>1. Init => timedOut \in BOOLEAN
    BY DEF Init
  <2> QED BY <2>1 DEF Init, TypeOK
<1> QED BY <1>1, TypeStep, PTL DEF Spec

(***************************************************************************)
(* The two threads never sleep at the same time, timeouts or not.          *)
(***************************************************************************)
THEOREM NoMutualWaitCorrect == Spec => []NoMutualWait
<1>1. Init => NoMutualWait
  BY DEF Init, NoMutualWait
<1>2. ASSUME NoMutualWait, [Next]_vars PROVE NoMutualWait'
  <2>1. CASE Inference
    BY <1>2, <2>1 DEF Inference, InfTake, InfRun, InfPublish, InfTimesOut,
       InfReturn, NoMutualWait, rgaVars
  <2>2. CASE Rga
    BY <1>2, <2>2 DEF Rga, RgaTake, RgaProcess, RgaWait, RgaSkip, RgaWakesUp,
       RgaNotify, RgaDraw, NotifyInf, NoMutualWait, infVars
  <2>3. CASE UNCHANGED vars
    BY <1>2, <2>3 DEF vars, infVars, rgaVars, NoMutualWait
  <2> QED BY <1>2, <2>1, <2>2, <2>3 DEF Next
<1> QED BY <1>1, <1>2, PTL DEF Spec

-----------------------------------------------------------------------------
(***************************************************************************)
(* The hand-over: while the inference does not wait, the rga side is done  *)
(* with the published frame, so only a waiting inference can be asked for  *)
(* its result.                                                             *)
(***************************************************************************)
InStep ==
  /\ inf = "run" => memFrame = -1
  /\ inf = "callback" => memFrame = infFrame
  /\ inf \in {"waiting", "woken"} => memFrame = pts
  /\ inf # "waiting" => \/ pts < rgaFrame /\ rga # "process"
                        \/ pts = rgaFrame /\ rga \in {"draw", "idle"}
  /\ rga = "process" => pts = rgaFrame

HandOver == ~timedOut => InStep

(***************************************************************************)
(* Every step keeps the hand-over of the result between the two threads.   *)
(***************************************************************************)
LEMMA HandOverStep ==
  ASSUME TypeOK, HandOver, [Next]_vars PROVE HandOver'
<1> USE DEF TypeOK, HandOver, InStep
<1>1. CASE InfTake \/ InfRun
  BY <1>1 DEF InfTake, InfRun, rgaVars
<1>2. CASE InfPublish
  BY <1>2 DEF InfPublish, Locked
<1>3. CASE InfTimesOut
  BY <1>3 DEF InfTimesOut
<1>4. CASE InfReturn
  BY <1>4 DEF InfReturn, rgaVars
<1>5. CASE RgaTake
  BY <1>5 DEF RgaTake, infVars
<1>6. CASE RgaProcess \/ RgaSkip \/ RgaWakesUp \/ RgaDraw
  BY <1>6 DEF RgaProcess, RgaSkip, RgaWakesUp, RgaDraw, infVars
<1>7. CASE RgaWait \/ RgaNotify
  BY <1>7 DEF RgaWait, RgaNotify, NotifyInf
<1>8. CASE UNCHANGED vars
  BY <1>8 DEF vars, infVars, rgaVars
<1> QED BY <1>1, <1>2, <1>3, <1>4, <1>5, <1>6, <1>7, <1>8
        DEF Next, Inference, Rga

(***************************************************************************)
(* The inductive invariant of the hand-over: while the inference waits and *)
(* only the rga side can end the wait, output_mems holds the result of the *)
(* published frame.                                                        *)
(***************************************************************************)
THEOREM HandOverCorrect == Spec => [](TypeOK /\ HandOver)
<1>1. Init => HandOver
  BY DEF Init, HandOver, InStep
<1>2. TypeOK /\ HandOver /\ [Next]_vars => HandOver'
  BY HandOverStep
<1> QED BY <1>1, <1>2, TypeCorrect, PTL DEF Spec

(***************************************************************************)
(* When only the rga side ends the inference's wait, callback_rga reads    *)
(* the complete result of its own frame.                                   *)
(***************************************************************************)
THEOREM SameFrameInTimeCorrect == Spec => []SameFrameInTime
<1>1. TypeOK /\ HandOver => SameFrameInTime
  BY DEF TypeOK, HandOver, InStep, SameFrameInTime
<1> QED BY <1>1, HandOverCorrect, PTL

(***************************************************************************)
(* Under the same condition no published result is overwritten too early.  *)
(***************************************************************************)
THEOREM ResultKeptCorrect == Spec => ResultKept
<1> DEFINE StillKept ==
             ~timedOut /\ memFrame' # memFrame /\ memFrame # -1 /\ pts = memFrame
               => rgaFrame >= pts /\ rga # "process"
<1>1. ASSUME TypeOK, HandOver, [Next]_vars PROVE [StillKept]_vars
  <2>1. CASE InfTake
    BY <1>1, <2>1 DEF InfTake, TypeOK, HandOver, InStep
  <2>2. CASE InfRun
    BY <1>1, <2>2 DEF InfRun, HandOver, InStep
  <2>3. CASE Next /\ ~InfTake /\ ~InfRun
    <3>1. UNCHANGED memFrame
      BY <2>3 DEF Next, Inference, InfPublish, InfTimesOut, InfReturn, Rga,
         RgaTake, RgaProcess, RgaWait, RgaSkip, RgaWakesUp, RgaNotify,
         RgaDraw, infVars
    <3> QED BY <3>1
  <2> QED BY <1>1, <2>1, <2>2, <2>3
<1>2. TypeOK /\ HandOver /\ [Next]_vars => [StillKept]_vars
  BY <1>1
<1> QED BY <1>2, HandOverCorrect, PTL DEF Spec, ResultKept

-----------------------------------------------------------------------------
(***************************************************************************)
(* How the inference is sent on.                                           *)
(***************************************************************************)

\* How far the rga side is behind the frame published, and the steps it has
\* before it at most until it sends the inference on.
Behind == IF rgaFrame < pts THEN pts - rgaFrame ELSE 0

TurnsLeft ==
  CASE rga = "draw"  -> 3 * Behind + 3
    [] rga = "idle"  -> 3 * Behind + 2
    [] rga = "enter" -> IF Behind > 0 THEN 3 * Behind + 3 ELSE 1
    [] OTHER -> 0

\* While the inference waits, every step is one of these.
SendsOn ==
  [][inf = "waiting" => inf' # "waiting" \/ TurnsLeft' < TurnsLeft]_vars

(***************************************************************************)
(* A waiting inference is sent on, whichever frames the rga side skips: it *)
(* passes each frame behind the published one at most once, with three     *)
(* steps, does not sleep meanwhile, and notifies at the first frame that   *)
(* is not behind (demo_rknn1.cpp:40-72).                                   *)
(***************************************************************************)
THEOREM InferenceSentOnInSteps == Spec => SendsOn /\ [](TurnsLeft \in Nat)
<1>1. ASSUME TypeOK, NoMutualWait, Next, inf = "waiting"
      PROVE  inf' # "waiting" \/ TurnsLeft' < TurnsLeft
  <2>0. /\ pts \in Int /\ rgaFrame \in Int /\ Behind \in Nat
        /\ rga # "waiting"
    BY <1>1 DEF TypeOK, NoMutualWait, Behind
  <2>1. CASE Inference
    BY <1>1, <2>1 DEF Inference, InfTake, InfRun, InfPublish, InfTimesOut,
       InfReturn
  <2>2. CASE RgaTake
    <3>1. /\ rga = "idle" /\ rga' = "enter" /\ pts' = pts
          /\ rgaFrame' \in Int /\ rgaFrame < rgaFrame'
      BY <2>0, <2>2 DEF RgaTake
    <3>2. TurnsLeft = 3 * Behind + 2
      BY <3>1 DEF TurnsLeft
    <3>3. TurnsLeft' = IF Behind' > 0 THEN 3 * Behind' + 3 ELSE 1
      BY <3>1 DEF TurnsLeft
    <3>4. CASE rgaFrame' < pts
      <4>1. Behind = pts - rgaFrame /\ Behind' = pts - rgaFrame'
        BY <2>0, <3>1, <3>4 DEF Behind
      <4>2. PICK b \in Int, c \in Int : b = Behind /\ c = Behind'
        <5>1. Behind \in Int /\ Behind' \in Int
          BY <2>0, <3>1, <4>1
        <5> QED BY <5>1
      <4>3. 0 < c /\ c < b
        <5>1. PICK p \in Int, r \in Int, q \in Int :
                p = pts /\ r = rgaFrame /\ q = rgaFrame'
          BY <2>0, <3>1
        <5>2. b = p - r /\ c = p - q /\ r < q /\ q < p
          BY <3>1, <3>4, <4>1, <4>2, <5>1
        <5> QED BY <5>2
      <4>4. TurnsLeft = 3 * b + 2 /\ TurnsLeft' = 3 * c + 3
        BY <3>2, <3>3, <4>2, <4>3
      <4> QED BY <4>3, <4>4
    <3>5. CASE ~(rgaFrame' < pts)
      <4>1. Behind' = 0
        BY <3>1, <3>5 DEF Behind
      <4>2. TurnsLeft' = 1
        BY <3>3, <4>1
      <4> QED BY <2>0, <3>2, <4>2
    <3> QED BY <3>4, <3>5
  <2>3. CASE RgaProcess
    <3>1. Behind = 0
      BY <2>0, <2>3 DEF RgaProcess, Behind
    <3> QED BY <2>3, <3>1 DEF RgaProcess, TurnsLeft
  <2>4. CASE RgaWait \/ RgaNotify
    BY <1>1, <2>4 DEF RgaWait, RgaNotify, NotifyInf
  <2>5. CASE RgaSkip
    <3>1. Behind > 0 /\ Behind' = Behind /\ rga = "enter" /\ rga' = "idle"
      BY <2>0, <2>5 DEF RgaSkip, Behind
    <3>2. TurnsLeft = 3 * Behind + 3 /\ TurnsLeft' = 3 * Behind + 2
      BY <3>1 DEF TurnsLeft
    <3> QED BY <2>0, <3>2
  <2>6. CASE RgaWakesUp
    BY <2>0, <2>6 DEF RgaWakesUp
  <2>7. CASE RgaDraw
    <3>1. Behind' = Behind /\ rga = "draw" /\ rga' = "idle"
      BY <2>7 DEF RgaDraw, Behind
    <3>2. TurnsLeft = 3 * Behind + 3 /\ TurnsLeft' = 3 * Behind + 2
      BY <3>1 DEF TurnsLeft
    <3> QED BY <2>0, <3>2
  <2> QED BY <1>1, <2>1, <2>2, <2>3, <2>4, <2>5, <2>6, <2>7 DEF Next, Rga
<1>2. TypeOK => TurnsLeft \in Nat
  <2>1. TypeOK => Behind \in Nat
    BY DEF TypeOK, Behind
  <2> QED BY <2>1 DEF TurnsLeft
<1>3. TypeOK /\ NoMutualWait /\ [Next]_vars
        => [inf = "waiting" => inf' # "waiting" \/ TurnsLeft' < TurnsLeft]_vars
  BY <1>1
<1> QED BY <1>2, <1>3, TypeCorrect, NoMutualWaitCorrect, PTL DEF Spec, SendsOn

(***************************************************************************)
(* Whatever the rga side finds in output_mems, of a frame complete or not, *)
(* the results it draws are sound.                                         *)
(***************************************************************************)
THEOREM DetectionsSoundCorrect == Spec => []DetectionsSound
<1>1. TypeOK => DetectionsSound
  <2>1. SUFFICES ASSUME TypeOK, NEW cells \in PicturesOf(memFrame)
                 PROVE  ResultsSound(cells, Classes)
    BY DEF DetectionsSound
  <2>2. memFrame \in -1..MaxFrame
    BY <2>1 DEF TypeOK
  <2>3. cells \in Seq(CellSet)
    BY <2>1, <2>2, PictureAssumption DEF PictureAssumption
  <2> QED BY <2>3, PostProcessSound
<1> QED BY <1>1, TypeCorrect, PTL
=============================================================================
