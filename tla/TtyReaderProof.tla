--------------------------- MODULE TtyReaderProof ---------------------------
(***************************************************************************)
(* Proofs about TtyReader for every configuration file, everything that    *)
(* comes over the line, every check sum and size of the frames.            *)
(***************************************************************************)
EXTENDS TtyReader, SequenceTheorems, WellFoundedInduction, TLAPS

-----------------------------------------------------------------------------
(***************************************************************************)
(* The inductive invariant.                                                *)
(***************************************************************************)
LineSet == [kind: LineKinds, indent: BOOLEAN, name: STRING, words: Seq(Int)]

MainType ==
  /\ pc \in {"open", "parse", "tty", "net", "check", "running", "exited"}
  /\ iniFile \in Seq(LineSet)
  /\ lineno \in 0..Len(iniFile)
  /\ error \in 0..Len(iniFile)
  /\ tty \in BOOLEAN /\ net \in BOOLEAN

ConfigType ==
  /\ DOMAIN config = {"tty", "net"}
  /\ \A s \in {"tty", "net"} : DOMAIN config[s] = Setters(s)
  /\ config["tty"]["timeDiff"] \in [1..1 -> Int]

LineType ==
  /\ stream \in Seq(0..Gap)
  /\ read \in 0..Len(stream)
  /\ rd \in {"first", "second", "length", "body", "frame"}
  /\ buf \in Seq(0..255)
  /\ taken \subseteq 1..read

DoneType ==
  /\ gpsPackets \in Nat
  /\ queue \in Seq(Seq(0..255))
  /\ devicePackets = Len(queue)
  /\ clock \in Int
  /\ refused \in BOOLEAN
  /\ gpsExists \in BOOLEAN

\* buf is what came last over the line.
Segment ==
  /\ Len(buf) <= read
  /\ \A j \in 1..Len(buf) : buf[j] = stream[read - Len(buf) + j]

\* How much of a frame process() has at each of its reads.
Phase ==
  /\ rd = "first" => Len(buf) = 0
  /\ rd = "second" => Len(buf) = 1
  /\ rd = "length" => Len(buf) = 2
  /\ rd = "body" => Len(buf) = 3
  /\ rd = "frame" => Len(buf) = buf[3] /\ buf[3] \in 4..PacketSize

AfterGap(i) == i = 1 \/ stream[i - 1] = Gap

\* A whole frame of the line, read or not.
WholeAt(i) ==
  LET n == stream[i + 2]
  IN  /\ i + 2 <= Len(stream)
      /\ stream[i] = 255 /\ stream[i + 1] = 187
      /\ n \in 4..PacketSize
      /\ i + n - 1 <= Len(stream)
      /\ \A j \in i..(i + n - 1) : stream[j] # Gap
      /\ CrcRight(SubSeq(stream, i, i + n - 1))

\* A frame after a silence has been taken or is being read.
NoneMissed ==
  \A i \in 1..read :
    AfterGap(i) /\ WholeAt(i) =>
      i \in taken \/ (rd # "first" /\ i = read - Len(buf) + 1)

IInv ==
  /\ MainType /\ ConfigType /\ LineType /\ DoneType
  /\ Segment /\ Phase /\ NoneMissed

-----------------------------------------------------------------------------
(***************************************************************************)
(* What readn() gives.                                                     *)
(***************************************************************************)
\* A set of natural numbers has a least element.
LEMMA LeastNat ==
  ASSUME NEW T, T \subseteq Nat, T # {}
  PROVE  \E x \in T : \A y \in T : x <= y
<1>1. \E R : /\ IsWellFoundedOn(R, Nat)
             /\ \A x, y \in Nat : <<y, x>> \in R <=> y < x
  <2> DEFINE R == OpToRel(<, Nat)
  <2>1. IsWellFoundedOn(R, Nat)
    BY NatLessThanWellFounded, Zenon
  <2>2. \A x, y \in Nat : <<y, x>> \in R <=> y < x
    BY Zenon DEF OpToRel
  <2> HIDE DEF R
  <2> QED BY <2>1, <2>2
<1>2. PICK R : /\ IsWellFoundedOn(R, Nat)
               /\ \A x, y \in Nat : <<y, x>> \in R <=> y < x
  BY <1>1
<1>3. PICK x \in T : \A y \in T : ~ (<<y, x>> \in R)
  BY <1>2, WFMin
<1>4. ASSUME NEW y \in T
      PROVE  x <= y
  <2>1. x \in Nat /\ y \in Nat
    OBVIOUS
  <2>2. ~ (y < x)
    BY <1>2, <1>3, <2>1
  <2> QED BY <2>1, <2>2
<1> QED BY <1>4

\* The run ends at the first gap, or with the line.
LEMMA RunIs ==
  ASSUME LineType
  PROVE  /\ Run \in 0..(Len(stream) - read)
         /\ \A j \in 1..Run : stream[read + j] # Gap
         /\ Run = Len(stream) - read \/ stream[read + Run + 1] = Gap
<1> DEFINE left == Len(stream) - read
           Ends(k) == k = left \/ stream[read + k + 1] = Gap
           T == {k \in 0..left : Ends(k)}
<1>1. left \in Nat /\ read \in Nat
  BY DEF LineType
<1> HIDE DEF left
<1>2. left \in T /\ T \subseteq Nat
  BY <1>1
<1>3. PICK k \in T : \A y \in T : k <= y
  BY <1>2, LeastNat
<1>4. ASSUME NEW j \in 1..k
      PROVE  stream[read + j] # Gap
  <2>1. j - 1 \in 0..left /\ ~(k <= j - 1)
    BY <1>1, <1>3
  <2>2. j - 1 \notin T
    BY <1>3, <2>1
  <2>3. read + (j - 1) + 1 = read + j
    BY <1>1
  <2> QED BY <2>1, <2>2, <2>3
<1>5. \E m \in 0..left : /\ \A j \in 1..m : stream[read + j] # Gap
                         /\ m = left \/ stream[read + m + 1] = Gap
  BY <1>4
<1> QED BY <1>5 DEF Run, left

\* readn() gives the n bytes that come next, or fewer, and then ends behind
\* the next gap: only the last byte it is past may be a gap.
LEMMA ReadnDoes ==
  ASSUME LineType, NEW n \in Nat \ {0}, Readn(n)
  PROVE  /\ read' \in read..Len(stream)
         /\ Got(n) \in Seq(0..255)
         /\ \A j \in (read + 1)..(read' - 1) : stream[j] # Gap
         /\ Len(Got(n)) = n =>
              /\ read' = read + n
              /\ \A j \in 1..n : Got(n)[j] = stream[read + j]
         /\ (\A j \in 1..n : read + j <= Len(stream) /\ stream[read + j] # Gap)
              => Len(Got(n)) = n
<1>1. PICK k : k = Run
  OBVIOUS
<1>2. /\ k \in 0..(Len(stream) - read)
      /\ \A j \in 1..k : stream[read + j] # Gap
      /\ k = Len(stream) - read \/ stream[read + k + 1] = Gap
  BY <1>1, RunIs
<1>3. PICK N : N = Len(stream)
  OBVIOUS
<1>4. N \in Nat /\ read \in 0..N /\ stream \in Seq(0..256)
      /\ \A j \in 1..N : stream[j] \in 0..256
  <2>1. N \in Nat /\ read \in 0..N /\ stream \in Seq(0..256)
    BY <1>3 DEF LineType, Gap
  <2> QED BY <1>3, <2>1, ElementOfSeq
<1>5. PICK m : m = Least(n, k)
  OBVIOUS
<1>6. m \in 0..n /\ m <= k /\ (n <= k => m = n) /\ (n > k => m = k)
  BY <1>2, <1>3, <1>4, <1>5 DEF Least
<1>7. Got(n) = SubSeq(stream, read + 1, read + m)
  BY <1>1, <1>5 DEF Got
<1>8. /\ Len(Got(n)) = m
      /\ \A j \in 1..m : Got(n)[j] = stream[read + j]
  <2>1. read + 1 \in 1..(N + 1) /\ read + m \in (read + 1 - 1)..N
    BY <1>2, <1>3, <1>4, <1>6
  <2>2. /\ Len(SubSeq(stream, read + 1, read + m)) =
             IF read + 1 <= read + m THEN (read + m) - (read + 1) + 1 ELSE 0
        /\ \A j \in 1..((read + m) - (read + 1) + 1) :
             SubSeq(stream, read + 1, read + m)[j] = stream[(read + 1) + j - 1]
    BY <1>3, <1>4, <1>6, <2>1, SubSeqProperties
  <2> QED BY <1>4, <1>6, <1>7, <2>2
<1>9. Got(n) \in Seq(0..255)
  <2>1. ASSUME NEW j \in (read + 1)..(read + m)
        PROVE  stream[j] \in 0..255
    <3>1. j - read \in 1..k /\ j \in 1..N /\ read + (j - read) = j
      BY <1>2, <1>3, <1>4, <1>6
    <3>2. stream[j] \in 0..256
      BY <1>4, <3>1
    <3>3. stream[read + (j - read)] # 256
      BY <1>2, <3>1 DEF Gap
    <3> QED BY <3>1, <3>2, <3>3
  <2>2. read + 1 \in Int /\ read + m \in Int
    BY <1>4, <1>6
  <2> QED BY <1>7, <2>1, <2>2, SubSeqProperties
<1>10. read' = IF n <= k THEN read + n
               ELSE IF read + k + 1 < N THEN read + k + 1 ELSE N
  BY <1>1, <1>3 DEF Readn, Least
<1>11. PICK r : r = read'
  OBVIOUS
<1>12. r \in read..N /\ r <= read + k + 1
  BY <1>2, <1>3, <1>4, <1>10, <1>11
<1>13. ASSUME NEW j \in (read + 1)..(r - 1)
       PROVE  stream[j] # Gap
  <2>1. j - read \in 1..k /\ read + (j - read) = j
    BY <1>2, <1>3, <1>4, <1>12
  <2> QED BY <1>2, <2>1
<1>14. Len(Got(n)) = n => read' = read + n
  BY <1>2, <1>3, <1>4, <1>6, <1>8, <1>10
<1>15. ASSUME \A j \in 1..n : read + j <= N /\ stream[read + j] # Gap
       PROVE  m = n
  <2>1. CASE n <= k
    BY <1>6, <2>1
  <2>2. CASE k < n
    <3>1. k + 1 \in 1..n /\ read + (k + 1) = read + k + 1
      BY <1>2, <1>3, <1>4, <2>2
    <3>2. read + k + 1 <= N /\ stream[read + k + 1] # Gap
      BY <1>15, <3>1
    <3> QED BY <1>2, <1>3, <1>4, <3>2
  <2> QED BY <1>2, <1>3, <1>4, <2>1, <2>2
<1> QED BY <1>3, <1>8, <1>9, <1>11, <1>12, <1>14, <1>15, <1>13

-----------------------------------------------------------------------------
(***************************************************************************)
(* The steps of process().                                                 *)
(***************************************************************************)
\* A read that goes on with what it got behind the bytes it had: whatever
\* the read gives, no frame that began after a silence is passed.
LEMMA ReadKeeps ==
  ASSUME LineType, Segment, NoneMissed, rd # "first" <=> Len(buf) > 0,
         NEW n \in Nat \ {0}, Readn(n),
         NEW wanted \in BOOLEAN, NEW next, next # "first",
         next \in {"second", "length", "body", "frame"},
         Continue(wanted, next, buf \o Got(n)),
         wanted => Len(Got(n)) = n,
         AfterGap(read - Len(buf) + 1) /\ WholeAt(read - Len(buf) + 1)
           => wanted,
         UNCHANGED <<stream, taken>>
  PROVE  /\ LineType' /\ Segment' /\ NoneMissed'
         /\ wanted => rd' = next /\ Len(buf') = Len(buf) + n
         /\ ~wanted => rd' = "first" /\ Len(buf') = 0
<1>1. PICK r, b : r = read' /\ b = buf'
  OBVIOUS
<1>2. /\ r \in read..Len(stream)
      /\ \A j \in (read + 1)..(r - 1) : stream[j] # Gap
  BY <1>1, ReadnDoes
<1>3. /\ read \in 0..Len(stream) /\ Len(stream) \in Nat /\ Len(buf) \in Nat
      /\ buf \in Seq(0..255) /\ stream \in Seq(0..Gap)
  BY DEF LineType
<1>4. ASSUME NEW i \in 1..r, AfterGap(i), WholeAt(i), i \notin taken
      PROVE  i = read - Len(buf) + 1
  <2>1. CASE i <= read
    <3>1. i \in 1..read
      BY <1>2, <1>3, <2>1
    <3> QED BY <1>4, <3>1 DEF NoneMissed
  <2>2. CASE i > read
    <3>1. i = read + 1
      <4>1. CASE i = 1
        BY <1>3, <2>2, <4>1
      <4>2. CASE stream[i - 1] = Gap
        <5>1. i - 1 \notin (read + 1)..(r - 1)
          BY <1>2, <4>2
        <5> QED BY <1>2, <1>3, <2>2, <5>1
      <4> QED BY <1>4, <4>1, <4>2 DEF AfterGap
    <3>2. Len(buf) = 0
      <4>1. SUFFICES ASSUME Len(buf) > 0
                     PROVE  FALSE
        BY <1>3
      <4>2. Len(buf) \in 1..Len(buf) /\ read - Len(buf) + Len(buf) = read
        BY <1>3, <4>1
      <4>3. buf[Len(buf)] = stream[read] /\ Len(buf) <= read
        BY <4>2 DEF Segment
      <4>4. buf[Len(buf)] \in 0..255
        BY <1>3, <4>2, ElementOfSeq
      <4>5. stream[read] # Gap
        <5>1. Gap \notin 0..255
          BY DEF Gap
        <5> QED BY <4>3, <4>4, <5>1
      <4>6. i # 1 /\ i - 1 = read
        BY <1>3, <3>1, <4>1, <4>3
      <4> QED BY <1>4, <4>5, <4>6 DEF AfterGap
    <3> QED BY <1>3, <3>1, <3>2
  <2> QED BY <1>2, <1>3, <2>1, <2>2
<1>5. taken' = taken /\ stream' = stream /\ taken \subseteq 1..r
  BY <1>2, <1>3 DEF LineType
<1>6. \A i : (AfterGap(i)' <=> AfterGap(i)) /\ (WholeAt(i)' <=> WholeAt(i))
  BY <1>5 DEF AfterGap, WholeAt
<1>7. CASE wanted
  <2>1. /\ r = read + n /\ b = buf \o Got(n) /\ rd' = next
        /\ Got(n) \in Seq(0..255) /\ Len(Got(n)) = n
        /\ \A j \in 1..n : Got(n)[j] = stream[read + j]
    BY <1>1, <1>7, ReadnDoes DEF Continue
  <2>2. /\ b \in Seq(0..255) /\ Len(b) = Len(buf) + n
        /\ \A j \in 1..Len(b) : b[j] = IF j <= Len(buf) THEN buf[j]
                                       ELSE Got(n)[j - Len(buf)]
    <3>1. PICK g : g = Got(n)
      OBVIOUS
    <3>2. g \in Seq(0..255) /\ Len(g) = n /\ b = buf \o g
      BY <2>1, <3>1
    <3>3. Len(b) = Len(buf) + Len(g) /\ b \in Seq(0..255)
      BY <1>3, <3>2, ConcatProperties
    <3>4. \A j \in 1..Len(b) : b[j] = IF j <= Len(buf) THEN buf[j]
                                      ELSE g[j - Len(buf)]
      BY <1>3, <3>2, <3>3, ConcatProperties
    <3> QED BY <3>1, <3>2, <3>3, <3>4
  <2>3. r - Len(b) = read - Len(buf)
    BY <1>3, <2>1, <2>2
  <2>4. ASSUME NEW j \in 1..Len(b)
        PROVE  b[j] = stream[r - Len(b) + j]
    <3>1. CASE j <= Len(buf)
      <4>1. j \in 1..Len(buf)
        BY <1>3, <2>2, <3>1
      <4> QED BY <2>2, <2>3, <3>1, <4>1 DEF Segment
    <3>2. CASE j > Len(buf)
      <4>1. j - Len(buf) \in 1..n
        BY <1>3, <2>2, <3>2
      <4>2. read + (j - Len(buf)) = read - Len(buf) + j
        BY <1>3
      <4> QED BY <1>3, <2>1, <2>2, <2>3, <3>2, <4>1, <4>2
    <3> QED BY <1>3, <3>1, <3>2
  <2>5. Segment'
    <3>1. Len(b) <= r
      BY <1>3, <2>1, <2>2 DEF Segment
    <3> QED BY <1>1, <1>5, <2>4, <3>1 DEF Segment
  <2>6. LineType'
    BY <1>1, <1>2, <1>3, <1>5, <2>1, <2>2 DEF LineType
  <2>7. NoneMissed'
    BY <1>1, <1>4, <1>5, <1>6, <2>1, <2>3 DEF NoneMissed
  <2> QED BY <1>1, <1>7, <2>1, <2>2, <2>5, <2>6, <2>7
<1>8. CASE ~wanted
  <2>1. rd' = "first" /\ b = << >>
    BY <1>1, <1>8 DEF Continue
  <2>2. LineType'
    BY <1>1, <1>2, <1>3, <1>5, <2>1 DEF LineType
  <2>3. Segment'
    BY <1>1, <1>2, <1>3, <2>1 DEF Segment
  <2>4. \A i \in 1..r : AfterGap(i) /\ WholeAt(i) => i \in taken
    BY <1>4, <1>8
  <2>5. NoneMissed'
    BY <1>1, <1>5, <1>6, <2>4 DEF NoneMissed
  <2> QED BY <1>1, <1>8, <2>1, <2>2, <2>3, <2>5
<1> QED BY <1>7, <1>8

\* The next byte, when it is there.
LEMMA ReadOne ==
  ASSUME LineType, Readn(1)
  PROVE  read + 1 <= Len(stream) /\ stream[read + 1] # Gap =>
           Len(Got(1)) = 1 /\ Got(1) = <<stream[read + 1]>>
<1>1. ASSUME read + 1 <= Len(stream), stream[read + 1] # Gap
      PROVE  Len(Got(1)) = 1 /\ Got(1) = <<stream[read + 1]>>
  <2>1. \A j \in 1..1 : read + j <= Len(stream) /\ stream[read + j] # Gap
    BY <1>1
  <2>2. 1 \in Nat \ {0}
    OBVIOUS
  <2>3. /\ Got(1) \in Seq(0..255) /\ Len(Got(1)) = 1
        /\ \A j \in 1..1 : Got(1)[j] = stream[read + j]
    BY <2>1, <2>2, ReadnDoes, Zenon
  <2> QED BY <2>3
<1> QED BY <1>1

\* What a whole frame has where the reader looks.
LEMMA WholeBytes ==
  ASSUME LineType, NEW i \in Nat \ {0}, WholeAt(i)
  PROVE  /\ i + 2 <= Len(stream) /\ stream[i] = 255 /\ stream[i + 1] = 187
         /\ stream[i + 2] \in 4..PacketSize
         /\ i + stream[i + 2] - 1 <= Len(stream)
         /\ \A j \in i..(i + stream[i + 2] - 1) : stream[j] # Gap
         /\ CrcRight(SubSeq(stream, i, i + stream[i + 2] - 1))
  BY DEF WholeAt

LEMMA FirstStep ==
  ASSUME LineType, Segment, Phase, NoneMissed, ReadFirst
  PROVE  LineType' /\ Segment' /\ Phase' /\ NoneMissed'
<1>1. /\ Len(buf) = 0 /\ buf = << >> /\ read \in Nat /\ rd = "first"
      /\ Readn(1) /\ UNCHANGED <<stream, taken>>
  BY DEF ReadFirst, Reading, Phase, LineType, doneVars
<1> DEFINE wanted == Got(1) = <<255>>
<1>2. Continue(wanted, "second", buf \o Got(1))
  <2>0. 1 \in Nat \ {0} /\ Readn(1)
    BY <1>1
  <2>1. Got(1) \in Seq(0..255)
    BY <2>0, ReadnDoes, Zenon
  <2>2. buf \o Got(1) = Got(1)
    BY <1>1, <2>1, ConcatEmptySeq
  <2> QED BY <2>2 DEF ReadFirst
<1>3. WholeAt(read - Len(buf) + 1) => wanted
  <2> SUFFICES ASSUME WholeAt(read + 1)
               PROVE  wanted
    BY <1>1
  <2>1. stream[read + 1] = 255 /\ read + 1 <= Len(stream) /\ Gap # 255
    BY <1>1, WholeBytes DEF LineType, Gap
  <2> QED BY <1>1, <2>1, ReadOne
<1>4. wanted => Len(Got(1)) = 1
  OBVIOUS
<1> HIDE DEF wanted
<1>5. wanted \in BOOLEAN
  BY DEF wanted
<1>6. /\ LineType' /\ Segment' /\ NoneMissed'
      /\ wanted => rd' = "second" /\ Len(buf') = Len(buf) + 1
      /\ ~wanted => rd' = "first" /\ Len(buf') = 0
  <2>1. 1 \in Nat \ {0} /\ (rd # "first" <=> Len(buf) > 0)
    BY <1>1
  <2>2. "second" \in {"second", "length", "body", "frame"} /\ "second" # "first"
    OBVIOUS
  <2> QED BY <1>1, <1>2, <1>3, <1>4, <1>5, <2>1, <2>2, ReadKeeps, Zenon
<1>7. Phase'
  BY <1>1, <1>6 DEF Phase
<1> QED BY <1>6, <1>7

LEMMA SecondStep ==
  ASSUME LineType, Segment, Phase, NoneMissed, ReadSecond
  PROVE  LineType' /\ Segment' /\ Phase' /\ NoneMissed'
<1>1. /\ Len(buf) = 1 /\ read \in Nat /\ read >= 1 /\ rd = "second"
      /\ Readn(1) /\ UNCHANGED <<stream, taken>>
  <2>1. rd = "second" /\ Readn(1) /\ UNCHANGED <<stream, taken>>
    BY DEF ReadSecond, Reading, doneVars
  <2>2. Len(buf) = 1 /\ Len(buf) <= read /\ read \in Nat
    BY <2>1 DEF Phase, Segment, LineType
  <2> QED BY <2>1, <2>2
<1> DEFINE wanted == Got(1) = <<187>>
<1>2. Continue(wanted, "length", buf \o Got(1))
  BY DEF ReadSecond
<1>3. WholeAt(read - Len(buf) + 1) => wanted
  <2> SUFFICES ASSUME WholeAt(read)
               PROVE  wanted
    BY <1>1
  <2>1. stream[read + 1] = 187 /\ read + 1 <= Len(stream) /\ Gap # 187
    BY <1>1, WholeBytes DEF LineType, Gap
  <2> QED BY <1>1, <2>1, ReadOne
<1>4. wanted => Len(Got(1)) = 1
  OBVIOUS
<1> HIDE DEF wanted
<1>5. wanted \in BOOLEAN
  BY DEF wanted
<1>6. /\ LineType' /\ Segment' /\ NoneMissed'
      /\ wanted => rd' = "length" /\ Len(buf') = Len(buf) + 1
      /\ ~wanted => rd' = "first" /\ Len(buf') = 0
  <2>1. 1 \in Nat \ {0} /\ (rd # "first" <=> Len(buf) > 0)
    BY <1>1
  <2>2. "length" \in {"second", "length", "body", "frame"} /\ "length" # "first"
    OBVIOUS
  <2> QED BY <1>1, <1>2, <1>3, <1>4, <1>5, <2>1, <2>2, ReadKeeps, Zenon
<1>7. Phase'
  BY <1>1, <1>6 DEF Phase
<1> QED BY <1>6, <1>7

LEMMA LengthStep ==
  ASSUME LineType, Segment, Phase, NoneMissed, ReadLength
  PROVE  LineType' /\ Segment' /\ Phase' /\ NoneMissed'
<1>1. /\ Len(buf) = 2 /\ read \in Nat /\ read >= 2 /\ rd = "length"
      /\ Readn(1) /\ UNCHANGED <<stream, taken>>
  <2>1. rd = "length" /\ Readn(1) /\ UNCHANGED <<stream, taken>>
    BY DEF ReadLength, Reading, doneVars
  <2>2. Len(buf) = 2 /\ Len(buf) <= read /\ read \in Nat
    BY <2>1 DEF Phase, Segment, LineType
  <2> QED BY <2>1, <2>2
<1> DEFINE wanted == Len(Got(1)) = 1
<1>2. Continue(wanted, "body", buf \o Got(1))
  BY DEF ReadLength
<1>3. WholeAt(read - Len(buf) + 1) => wanted
  <2> SUFFICES ASSUME WholeAt(read - 1)
               PROVE  wanted
    BY <1>1
  <2>1. stream[read - 1 + 2] \in Nat /\ read - 1 + 2 <= Len(stream)
        /\ stream[read - 1 + 2] >= 4
        /\ read - 1 + stream[read - 1 + 2] - 1 <= Len(stream)
        /\ \A j \in (read - 1)..(read - 1 + stream[read - 1 + 2] - 1) :
             stream[j] # Gap
    BY <1>1, WholeBytes, ReaderAssumption DEF ReaderAssumption
  <2>2. read + 1 <= Len(stream) /\ stream[read + 1] # Gap
    BY <1>1, <2>1
  <2> QED BY <1>1, <2>2, ReadOne
<1> HIDE DEF wanted
<1>4. wanted \in BOOLEAN /\ (wanted => Len(Got(1)) = 1)
  BY DEF wanted
<1>5. /\ LineType' /\ Segment' /\ NoneMissed'
      /\ wanted => rd' = "body" /\ Len(buf') = Len(buf) + 1
      /\ ~wanted => rd' = "first" /\ Len(buf') = 0
  <2>1. 1 \in Nat \ {0} /\ (rd # "first" <=> Len(buf) > 0)
    BY <1>1
  <2>2. "body" \in {"second", "length", "body", "frame"} /\ "body" # "first"
    OBVIOUS
  <2> QED BY <1>1, <1>2, <1>3, <1>4, <2>1, <2>2, ReadKeeps, Zenon
<1>6. Phase'
  BY <1>1, <1>5 DEF Phase
<1> QED BY <1>5, <1>6

LEMMA BodyStep ==
  ASSUME LineType, Segment, Phase, NoneMissed, ReadBody
  PROVE  LineType' /\ Segment' /\ Phase' /\ NoneMissed'
<1> DEFINE n == buf[3] - 3
<1>1. rd = "body" /\ UNCHANGED <<stream, taken>>
  BY DEF ReadBody, Reading, doneVars
<1>2. /\ Len(buf) = 3 /\ read \in Nat /\ read >= 3 /\ buf \in Seq(0..255)
      /\ buf[3] = stream[read]
  <2>1. Len(buf) = 3 /\ Len(buf) <= read /\ read \in Nat /\ buf \in Seq(0..255)
    BY <1>1 DEF Phase, Segment, LineType
  <2>2. 3 \in 1..Len(buf) /\ read - Len(buf) + 3 = read
    BY <2>1
  <2>3. buf[3] = stream[read - Len(buf) + 3]
    BY <2>2 DEF Segment
  <2> QED BY <2>1, <2>2, <2>3
<1>3. buf[3] \in 0..255 /\ n \in Int
  <2>1. 3 \in 1..Len(buf)
    BY <1>2
  <2>2. buf[3] \in 0..255
    BY <1>2, <2>1, ElementOfSeq
  <2> QED BY <2>2
<1>4. WholeAt(read - Len(buf) + 1) =>
        /\ n \in Nat \ {0} /\ buf[3] <= PacketSize
        /\ \A j \in 1..n : read + j <= Len(stream) /\ stream[read + j] # Gap
  <2> SUFFICES ASSUME WholeAt(read - 2)
               PROVE  /\ n \in Nat \ {0} /\ buf[3] <= PacketSize
                      /\ \A j \in 1..n :
                           read + j <= Len(stream) /\ stream[read + j] # Gap
    BY <1>2
  <2>1. read - 2 \in Nat \ {0} /\ read - 2 + 2 = read
    BY <1>2
  <2>2. /\ buf[3] \in 4..PacketSize
        /\ read - 2 + buf[3] - 1 <= Len(stream)
        /\ \A j \in (read - 2)..(read - 2 + buf[3] - 1) : stream[j] # Gap
    BY <1>2, <2>1, WholeBytes
  <2>3. n \in Nat \ {0} /\ buf[3] <= PacketSize
    BY <1>3, <2>2, ReaderAssumption DEF ReaderAssumption
  <2>4. \A j \in 1..n : read + j \in (read - 2)..(read - 2 + buf[3] - 1)
    <3>1. PICK q : q = buf[3]
      OBVIOUS
    <3>2. q \in Nat /\ read \in Nat
      <4>1. q \in 0..255
        BY <1>3, <3>1
      <4>2. q \in Nat
        BY <4>1
      <4> QED BY <1>2, <4>2
    <3>3. \A j \in 1..(q - 3) : read + j \in (read - 2)..(read - 2 + q - 1)
      BY <3>2
    <3> QED BY <3>1, <3>3
  <2>5. \A j \in 1..n : read + j <= Len(stream)
    BY <1>2, <1>3, <2>2 DEF LineType
  <2> QED BY <2>2, <2>3, <2>4, <2>5
<1>5. CASE buf[3] > PacketSize \/ n <= 0
  <2>1. read' = read /\ rd' = "first" /\ buf' = << >>
    BY <1>5 DEF ReadBody
  <2>2. LineType' /\ Segment' /\ Phase'
    BY <1>1, <1>2, <2>1 DEF LineType, Segment, Phase
  <2>3. ~WholeAt(read - Len(buf) + 1)
    <3>1. PICK q : q = buf[3]
      OBVIOUS
    <3>2. PacketSize \in Nat /\ q \in Nat /\ (q > PacketSize \/ q - 3 <= 0)
      BY <1>3, <1>5, <3>1, ReaderAssumption DEF ReaderAssumption
    <3>3. ~(q - 3 \in Nat \ {0} /\ q <= PacketSize)
      BY <3>2
    <3> QED BY <1>4, <3>1, <3>3
  <2>4. \A i : (AfterGap(i)' <=> AfterGap(i)) /\ (WholeAt(i)' <=> WholeAt(i))
    BY <1>1 DEF AfterGap, WholeAt
  <2>5. NoneMissed'
    BY <1>1, <2>1, <2>3, <2>4 DEF NoneMissed
  <2> QED BY <2>2, <2>5
<1>6. CASE ~(buf[3] > PacketSize \/ n <= 0)
  <2> DEFINE wanted == Len(Got(n)) = n
  <2>1. Readn(n) /\ Continue(wanted, "frame", buf \o Got(n))
    BY <1>6 DEF ReadBody
  <2>2. n \in Nat \ {0}
    BY <1>3, <1>6
  <2>3. WholeAt(read - Len(buf) + 1) => wanted
    <3> HIDE DEF n
    <3> QED BY <1>4, <2>1, <2>2, ReadnDoes
  <2>4. wanted \in BOOLEAN /\ (wanted => Len(Got(n)) = n)
    OBVIOUS
  <2>5. (wanted => buf' = buf \o Got(n)) /\ Got(n) \in Seq(0..255)
    <3>1. wanted => buf' = buf \o Got(n)
      BY <2>1 DEF Continue
    <3> HIDE DEF n
    <3> QED BY <2>1, <2>2, <3>1, ReadnDoes
  <2> HIDE DEF wanted
  <2>6. /\ LineType' /\ Segment' /\ NoneMissed'
        /\ wanted => rd' = "frame" /\ Len(buf') = Len(buf) + n
        /\ ~wanted => rd' = "first" /\ Len(buf') = 0
    <3>1. rd # "first" <=> Len(buf) > 0
      BY <1>1, <1>2
    <3>2. "frame" \in {"second", "length", "body", "frame"} /\ "frame" # "first"
      OBVIOUS
    <3> HIDE DEF n
    <3> QED BY <1>1, <2>1, <2>2, <2>3, <2>4, <3>1, <3>2, ReadKeeps, Zenon
  <2>7. wanted => buf'[3] = buf[3]
    <3>1. ASSUME wanted
          PROVE  buf'[3] = buf[3]
      <4>1. 3 \in 1..(Len(buf) + Len(Got(n))) /\ 3 <= Len(buf)
        BY <1>2, <2>5
      <4>2. (buf \o Got(n))[3] = buf[3]
        BY <1>2, <2>5, <4>1, ConcatProperties
      <4> QED BY <2>5, <3>1, <4>2
    <3> QED BY <3>1
  <2>8. Phase'
    <3>1. Len(buf) + n = buf[3] /\ (buf[3] \in 4..PacketSize)
      <4>1. PICK q : q = buf[3]
        OBVIOUS
      <4>2. PacketSize \in Nat /\ q \in Nat /\ ~(q > PacketSize \/ q - 3 <= 0)
        BY <1>3, <1>6, <4>1, ReaderAssumption DEF ReaderAssumption
      <4>3. 3 + (q - 3) = q /\ q \in 4..PacketSize
        BY <4>2
      <4> QED BY <1>2, <4>1, <4>3
    <3> QED BY <2>6, <2>7, <3>1 DEF Phase
  <2> QED BY <2>6, <2>8
<1> QED BY <1>5, <1>6

\* The frame process() has is the one that began where it looks.
LEMMA FrameIsWhole ==
  ASSUME LineType, Segment, Phase, rd = "frame",
         WholeAt(read - Len(buf) + 1)
  PROVE  CrcRight(buf)
<1> DEFINE n == Len(buf)
           i == read - n + 1
<1>1. /\ n \in 4..PacketSize /\ n = buf[3] /\ read \in Nat /\ n <= read
      /\ buf \in Seq(0..255) /\ i \in Nat \ {0}
  BY ReaderAssumption DEF Phase, Segment, LineType, ReaderAssumption
<1>2. stream[i + 2] = n
  <2>1. 3 \in 1..n /\ read - n + 3 = i + 2
    BY <1>1
  <2> QED BY <1>1, <2>1 DEF Segment
<1>3. i + n - 1 = read /\ i \in 1..(read + 1)
  <2>1. n \in Nat /\ n >= 4 /\ n <= read /\ read \in Nat
    BY <1>1, ReaderAssumption DEF ReaderAssumption
  <2> HIDE DEF n
  <2> QED BY <2>1
<1>4. CrcRight(SubSeq(stream, i, read))
  <2>1. WholeAt(i)
    OBVIOUS
  <2> HIDE DEF i
  <2>2. CrcRight(SubSeq(stream, i, i + stream[i + 2] - 1))
    BY <1>1, <2>1, WholeBytes
  <2> QED BY <1>2, <1>3, <2>2
<1>5. SubSeq(stream, i, read) = buf
  <2>1. \A j \in i..read : stream[j] \in 0..Gap
    <3> TAKE j \in i..read
    <3>1. i \in Nat \ {0} /\ read \in Nat
      BY <1>1
    <3>2. Len(stream) \in Nat /\ read <= Len(stream)
      BY DEF LineType
    <3> HIDE DEF i
    <3>3. j \in 1..Len(stream)
      BY <3>1, <3>2
    <3> QED BY <3>3, ElementOfSeq DEF LineType
  <2>2. /\ SubSeq(stream, i, read) \in Seq(0..Gap)
        /\ Len(SubSeq(stream, i, read)) =
             IF i <= read THEN read - i + 1 ELSE 0
        /\ \A j \in 1..(read - i + 1) :
             SubSeq(stream, i, read)[j] = stream[i + j - 1]
    BY <1>1, <2>1, SubSeqProperties
  <2>3. \A j \in 1..n : buf[j] = stream[i + j - 1]
    <3> TAKE j \in 1..n
    <3>1. read - n + j = i + j - 1
      BY <1>1
    <3> QED BY <3>1 DEF Segment
  <2>4. Len(SubSeq(stream, i, read)) = n /\ read - i + 1 = n
    BY <1>1, <2>2
  <2>5. buf \in Seq(0..Gap)
    BY <1>1 DEF Gap
  <2> HIDE DEF n, i
  <2> QED BY <2>2, <2>3, <2>4, <2>5, SeqEqual DEF n
<1> QED BY <1>4, <1>5

\* The check of the sum ends the frame, taken or not.
LEMMA CheckStep ==
  ASSUME LineType, Segment, Phase, NoneMissed, CheckFrame
  PROVE  LineType' /\ Segment' /\ Phase' /\ NoneMissed'
<1> DEFINE i == read - Len(buf) + 1
<1>1. /\ rd = "frame" /\ rd' = "first" /\ buf' = << >>
      /\ read' = read /\ stream' = stream
  BY DEF CheckFrame, Reading
<1>2. i \in 1..read
  <2>1. /\ Len(buf) \in Nat /\ Len(buf) >= 4 /\ Len(buf) <= read
        /\ read \in Nat
    BY <1>1, ReaderAssumption DEF Phase, Segment, LineType, ReaderAssumption
  <2> QED BY <2>1
<1>3. taken \subseteq taken' /\ taken' \subseteq taken \cup {i}
      /\ (CrcRight(buf) => i \in taken')
  BY DEF CheckFrame, TakeFrame, DropFrame, doneVars
<1>4. LineType'
  <2>1. taken' \subseteq 1..read
    BY <1>2, <1>3 DEF LineType
  <2> QED BY <1>1, <2>1 DEF LineType
<1>5. Segment' /\ Phase'
  BY <1>1 DEF Segment, Phase, LineType
<1>6. \A j : (AfterGap(j)' <=> AfterGap(j)) /\ (WholeAt(j)' <=> WholeAt(j))
  BY <1>1 DEF AfterGap, WholeAt
<1>7. WholeAt(i) => i \in taken'
  BY <1>1, <1>3, FrameIsWhole
<1>8. \A j \in 1..read : AfterGap(j) /\ WholeAt(j) => j \in taken'
  <2> HIDE DEF i
  <2>1. \A j \in 1..read : AfterGap(j) /\ WholeAt(j) => j \in taken \/ j = i
    BY DEF NoneMissed, i
  <2> QED BY <1>3, <1>7, <2>1
<1>9. NoneMissed'
  BY <1>1, <1>6, <1>8 DEF NoneMissed
<1> QED BY <1>4, <1>5, <1>9

\* What is in the frame behind its four first bytes.
LEMMA DataOf ==
  ASSUME buf \in Seq(0..255), Len(buf) >= 4
  PROVE  LET data == SubSeq(buf, 5, Len(buf))
         IN  /\ data \in Seq(0..255)
             /\ Len(data) = Len(buf) - 4
             /\ \A j \in 1..(Len(buf) - 4) : data[j] = buf[j + 4]
<1>1. PICK n : n = Len(buf)
  OBVIOUS
<1>2. n \in Nat /\ n >= 4 /\ \A j \in 5..n : buf[j] \in 0..255
  <2>1. n \in Nat /\ n >= 4
    BY <1>1
  <2>2. \A j \in 1..n : buf[j] \in 0..255
    BY <1>1, ElementOfSeq
  <2> QED BY <2>1, <2>2
<1>3. /\ SubSeq(buf, 5, n) \in Seq(0..255)
      /\ Len(SubSeq(buf, 5, n)) = IF 5 <= n THEN n - 5 + 1 ELSE 0
      /\ \A j \in 1..(n - 5 + 1) : SubSeq(buf, 5, n)[j] = buf[5 + j - 1]
  BY <1>2, SubSeqProperties
<1>4. \A j \in 1..(n - 4) : j \in 1..(n - 5 + 1) /\ 5 + j - 1 = j + 4
  BY <1>2
<1>5. Len(SubSeq(buf, 5, n)) = n - 4
  BY <1>2, <1>3
<1> QED BY <1>1, <1>3, <1>4, <1>5

\* What the frame does to the rest.
LEMMA FrameDone ==
  ASSUME MainType, ConfigType, LineType, DoneType, Phase, CheckFrame
  PROVE  DoneType'
<1>1. /\ buf \in Seq(0..255) /\ Len(buf) \in Nat /\ Len(buf) >= 4
      /\ rd = "frame"
  BY ReaderAssumption
     DEF CheckFrame, Reading, Phase, LineType, ReaderAssumption
<1> DEFINE data == SubSeq(buf, 5, Len(buf))
<1>2. /\ data \in Seq(0..255)
      /\ Len(data) = Len(buf) - 4
  BY <1>1, DataOf
<1> HIDE DEF data
<1>3. CASE UNCHANGED <<gpsVars, gpsPackets, devicePackets, queue>>
  BY <1>3 DEF DoneType, gpsVars
<1>4. CASE /\ ProcessGpsInfo(data) /\ gpsPackets' = gpsPackets + 1
           /\ UNCHANGED <<devicePackets, queue>>
  <2>1. CASE UNCHANGED gpsVars
    BY <1>4, <2>1 DEF DoneType, gpsVars
  <2>2. CASE ~(Len(data) < GpsSize)
    <3>1. WritePosition(data[2])
          /\ SetClock(GpsTime(data), config["tty"]["timeDiff"][1])
      BY <1>4, <2>2 DEF ProcessGpsInfo
    <3>2. gpsExists' \in BOOLEAN
      BY <3>1 DEF WritePosition, DoneType
    <3>3. GpsTime(data) \in Int
      <4>1. 1 \in 1..Len(data)
        BY <1>1, <1>2, <2>2, ReaderAssumption DEF ReaderAssumption
      <4>2. data[1] \in 0..255
        BY <1>2, <4>1, ElementOfSeq
      <4> QED BY <4>2, ReaderAssumption DEF GpsTime, ReaderAssumption
    <3>4. clock' \in Int /\ refused' \in BOOLEAN
      BY <3>1, <3>3 DEF SetClock, StepClock, LeaveClock, DoneType
    <3> QED BY <1>4, <3>2, <3>4 DEF DoneType
  <2> QED BY <1>4, <2>1, <2>2 DEF ProcessGpsInfo
<1>5. CASE /\ queue' = Append(queue, data)
           /\ devicePackets' = devicePackets + 1
           /\ UNCHANGED <<gpsVars, gpsPackets>>
  <2>1. queue' \in Seq(Seq(0..255)) /\ Len(queue') = Len(queue) + 1
    BY <1>2, <1>5, AppendProperties DEF DoneType
  <2> QED BY <1>5, <2>1 DEF DoneType, gpsVars
<1> QED BY <1>3, <1>4, <1>5
        DEF CheckFrame, TakeFrame, DropFrame, data, doneVars, gpsVars

-----------------------------------------------------------------------------
(***************************************************************************)
(* The configuration.                                                      *)
(***************************************************************************)
LEMMA TimeDiffRead ==
  ASSUME NEW old \in [1..1 -> Int], NEW words \in Seq(Int)
  PROVE  Set("timeDiff", old, words) \in [1..1 -> Int]
<1>1. Set("timeDiff", old, words) = ReadNumbers(old, words)
  BY DEF Set, StringKeys
<1>2. PICK n : n = Len(words)
  OBVIOUS
<1>3. n \in Nat /\ \A i \in 1..1 : i <= n => words[i] \in Int
  BY <1>2
<1>4. ReadNumbers(old, words) =
        [i \in 1..1 |-> IF i <= n /\ AllNumbers(words, i - 1)
                        THEN IF words[i] = NaN THEN 0 ELSE words[i]
                        ELSE old[i]]
  BY <1>2 DEF ReadNumbers
<1> QED BY <1>1, <1>3, <1>4

LEMMA HandleType ==
  ASSUME ConfigType, NEW s, NEW name, NEW words \in Seq(Int),
         Handle(s, name, words)
  PROVE  ConfigType'
<1>1. CASE name \notin Setters(s)
  BY <1>1 DEF Handle, ConfigType
<1>2. CASE name \in Setters(s)
  <2>1. config' = [config EXCEPT ![s][name] = Set(name, @, words)]
    BY <1>2 DEF Handle
  <2>2. s \in {"tty", "net"}
    BY <1>2 DEF Setters
  <2>3. DOMAIN config' = {"tty", "net"}
        /\ \A t \in {"tty", "net"} : DOMAIN config'[t] = Setters(t)
    BY <2>1, <2>2 DEF ConfigType
  <2>4. config'["tty"]["timeDiff"] \in [1..1 -> Int]
    <3>1. CASE s = "tty" /\ name = "timeDiff"
      <4>1. config'["tty"]["timeDiff"] =
              Set("timeDiff", config["tty"]["timeDiff"], words)
        BY <1>2, <2>1, <3>1 DEF ConfigType
      <4> QED BY <4>1, TimeDiffRead DEF ConfigType
    <3>2. CASE ~(s = "tty" /\ name = "timeDiff")
      <4>1. config'["tty"]["timeDiff"] = config["tty"]["timeDiff"]
        BY <1>2, <2>1, <2>2, <3>2 DEF ConfigType
      <4> QED BY <4>1 DEF ConfigType
    <3> QED BY <3>1, <3>2
  <2> QED BY <2>3, <2>4 DEF ConfigType
<1> QED BY <1>1, <1>2

\* The line that is read, and the words it gives.
LEMMA LineIs ==
  ASSUME MainType, lineno < Len(iniFile)
  PROVE  /\ Line \in LineSet /\ Line.words \in Seq(Int)
         /\ Content(Line) \in Seq(Int)
<1>1. lineno + 1 \in 1..Len(iniFile) /\ iniFile \in Seq(LineSet)
  BY DEF MainType
<1>2. Line \in LineSet
  BY <1>1, ElementOfSeq DEF Line
<1>3. Line.words \in Seq(Int)
  BY <1>2 DEF LineSet
<1>4. <<NaN>> \in Seq(Int)
  BY DEF NaN
<1>5. <<NaN>> \o Line.words \in Seq(Int)
  BY <1>3, <1>4, ConcatProperties
<1> QED BY <1>2, <1>3, <1>5 DEF Content

LEMMA MainStep ==
  ASSUME MainType, ConfigType, ReadIni \/ Start
  PROVE  MainType' /\ ConfigType'
<1>1. CASE OpenIni
  BY <1>1 DEF OpenIni, iniVars, MainType, ConfigType
<1>2. ASSUME NEW kinds, NextLine(kinds)
      PROVE  /\ lineno < Len(iniFile) /\ lineno' = lineno + 1
             /\ lineno + 1 \in 0..Len(iniFile)
             /\ UNCHANGED <<iniFile, pc, tty, net>>
  BY <1>2 DEF NextLine, MainType
<1>3. CASE BlankLine \/ SectionLine
  <2>1. \E kinds : NextLine(kinds)
    BY <1>3 DEF BlankLine, SectionLine
  <2>2. UNCHANGED <<error, config>>
    BY <1>3 DEF BlankLine, SectionLine
  <2> QED BY <1>2, <2>1, <2>2 DEF MainType, ConfigType
<1>4. CASE Continuation
  <2>1. NextLine(LineKinds \ {"blank"}) /\ UNCHANGED error
        /\ Handle(section, prevName, Content(Line))
    BY <1>4 DEF Continuation
  <2>2. MainType'
    BY <1>2, <2>1 DEF MainType
  <2> QED BY <1>2, <2>1, <2>2, LineIs, HandleType
<1>5. CASE PairLine
  <2>1. NextLine({"pair"}) /\ UNCHANGED error
        /\ Handle(section, Line.name, Line.words)
    BY <1>5 DEF PairLine
  <2>2. MainType'
    BY <1>2, <2>1 DEF MainType
  <2> QED BY <1>2, <2>1, <2>2, LineIs, HandleType
<1>6. CASE WrongLine
  <2>1. NextLine({"badSection", "noEquals"}) /\ UNCHANGED config
        /\ error' = IF error = 0 THEN lineno + 1 ELSE error
    BY <1>6 DEF WrongLine
  <2> QED BY <1>2, <2>1 DEF MainType, ConfigType
<1>7. CASE EndOfIni
  BY <1>7 DEF EndOfIni, iniVars, MainType, ConfigType
<1>8. CASE MakeTty
  BY <1>8 DEF MakeTty, iniVars, MainType, ConfigType
<1>9. CASE MakeNet
  BY <1>9 DEF MakeNet, iniVars, MainType, ConfigType
<1>10. CASE CheckHandlers
  BY <1>10 DEF CheckHandlers, iniVars, MainType, ConfigType
<1> QED BY <1>1, <1>3, <1>4, <1>5, <1>6, <1>7, <1>8, <1>9, <1>10
        DEF ReadIni, Start

-----------------------------------------------------------------------------
(***************************************************************************)
(* The theorems.                                                           *)
(***************************************************************************)
LEMMA InitInv == Init => IInv
<1> SUFFICES ASSUME Init
             PROVE  IInv
  OBVIOUS
<1>1. PICK i \in Inputs : iniFile = i.ini /\ stream = i.stream /\ clock = i.clock
  BY DEF Init
<1>2. /\ iniFile \in Seq(LineSet) /\ stream \in Seq(0..Gap) /\ clock \in Int
  BY <1>1, InputAssumption DEF InputAssumption, LineSet
<1>3. MainType
  <2>1. 0 \in 0..Len(iniFile)
    BY <1>2
  <2> QED BY <1>2, <2>1 DEF Init, IniInit, MainType
<1>4. ConfigType
  <2>1. Default("timeDiff") \in [1..1 -> Int]
    BY DEF Default, StringKeys
  <2>2. "timeDiff" \in Setters("tty")
    BY DEF Setters
  <2>3. config = [s \in {"tty", "net"} |-> [k \in Setters(s) |-> Default(k)]]
    BY DEF Init, IniInit
  <2> QED BY <2>1, <2>2, <2>3 DEF ConfigType
<1>5. /\ read = 0 /\ rd = "first" /\ buf = << >> /\ gpsPackets = 0
      /\ devicePackets = 0 /\ queue = << >> /\ taken = {}
      /\ gpsExists \in BOOLEAN /\ refused \in BOOLEAN
  BY DEF Init
<1>6. LineType
  <2>1. 0 \in 0..Len(stream)
    BY <1>2
  <2> QED BY <1>2, <1>5, <2>1 DEF LineType
<1>7. DoneType /\ Segment /\ Phase /\ NoneMissed
  BY <1>2, <1>5 DEF DoneType, Segment, Phase, NoneMissed
<1> QED BY <1>3, <1>4, <1>6, <1>7 DEF IInv

LEMMA Untouched ==
  ASSUME IInv, UNCHANGED <<readVars, gpsVars, doneVars>>
  PROVE  LineType' /\ DoneType' /\ Segment' /\ Phase' /\ NoneMissed'
<1>1. /\ UNCHANGED <<stream, read, rd, buf, clock, refused, gpsExists>>
      /\ UNCHANGED <<gpsPackets, devicePackets, queue, taken>>
  BY DEF readVars, gpsVars, doneVars
<1>2. LineType' /\ DoneType' /\ Segment' /\ Phase'
  BY <1>1 DEF IInv, LineType, DoneType, Segment, Phase
<1>3. \A i : (AfterGap(i)' <=> AfterGap(i)) /\ (WholeAt(i)' <=> WholeAt(i))
  BY <1>1 DEF AfterGap, WholeAt
<1>4. NoneMissed'
  BY <1>1, <1>3 DEF IInv, NoneMissed
<1> QED BY <1>2, <1>4

LEMMA NextInv == IInv /\ [Next]_vars => IInv'
<1> SUFFICES ASSUME IInv, [Next]_vars
             PROVE  IInv'
  OBVIOUS
<1>1. MainType /\ ConfigType /\ LineType /\ DoneType /\ Segment /\ Phase
      /\ NoneMissed
  BY DEF IInv
<1>2. CASE (ReadIni \/ Start) /\ UNCHANGED <<readVars, gpsVars, doneVars>>
  BY <1>1, <1>2, MainStep, Untouched DEF IInv
<1>3. ASSUME UNCHANGED <<iniVars, pc, tty, net>>
      PROVE  MainType' /\ ConfigType'
  BY <1>1, <1>3 DEF iniVars, MainType, ConfigType
<1>4. CASE ReadFirst \/ ReadSecond \/ ReadLength \/ ReadBody
  <2>1. UNCHANGED <<iniVars, pc, tty, net, gpsVars, doneVars>>
    BY <1>4 DEF ReadFirst, ReadSecond, ReadLength, ReadBody
  <2>2. DoneType'
    BY <1>1, <2>1 DEF DoneType, gpsVars, doneVars
  <2>3. LineType' /\ Segment' /\ Phase' /\ NoneMissed'
    BY <1>1, <1>4, FirstStep, SecondStep, LengthStep, BodyStep
  <2> QED BY <1>3, <2>1, <2>2, <2>3 DEF IInv
<1>5. CASE CheckFrame
  <2>1. UNCHANGED <<iniVars, pc, tty, net>>
    BY <1>5 DEF CheckFrame
  <2>2. DoneType'
    BY <1>1, <1>5, FrameDone
  <2> QED BY <1>1, <1>3, <1>5, <2>1, <2>2, CheckStep DEF IInv
<1>6. CASE UNCHANGED vars
  <2>1. UNCHANGED <<readVars, gpsVars, doneVars>>
        /\ UNCHANGED <<iniVars, pc, tty, net>>
    BY <1>6 DEF vars
  <2> QED BY <1>3, <2>1, Untouched DEF IInv
<1> QED BY <1>2, <1>4, <1>5, <1>6 DEF Next, ReaderNext, Silence

THEOREM Inductive == Spec => []IInv
<1>1. IInv /\ [Next]_vars => IInv'
  BY NextInv
<1> QED BY InitInv, <1>1, PTL DEF Spec

(***************************************************************************)
(* The variables have their types for every configuration file and         *)
(* everything that comes over the line (demo_comm.cpp, ttyHandler.cpp).    *)
(***************************************************************************)
THEOREM TypeCorrect == Spec => []TypeOK
<1>1. IInv => TypeOK
  BY DEF IInv, MainType, ConfigType, LineType, DoneType, TypeOK
<1> QED BY <1>1, Inductive, PTL

(***************************************************************************)
(* A frame that comes whole after a silence is taken, whatever came before *)
(* it: noise, torn frames, wrong lengths (ttyHandler.cpp:492-539).         *)
(***************************************************************************)
THEOREM SilenceResynchronises == Spec => []FrameAfterSilence
<1>1. IInv => FrameAfterSilence
  <2> SUFFICES ASSUME IInv, rd = "first", NEW i \in 1..read,
                      AfterGap(i), FrameAt(i)
               PROVE  i \in taken
    BY DEF FrameAfterSilence, AfterGap
  <2>1. WholeAt(i)
    <3>1. read <= Len(stream) /\ read \in Int /\ Len(stream) \in Int
      BY DEF IInv, LineType
    <3>2. stream[i + 2] \in 4..PacketSize
          /\ i + stream[i + 2] - 1 <= read
      BY DEF FrameAt
    <3>3. i + stream[i + 2] - 1 <= Len(stream)
      <4>1. PICK n : n = stream[i + 2]
        OBVIOUS
      <4>2. n \in Int
        BY <3>2, <4>1, ReaderAssumption DEF ReaderAssumption
      <4> QED BY <3>1, <3>2, <4>1, <4>2
    <3> QED BY <3>3 DEF FrameAt, WholeAt
  <2> QED BY <2>1 DEF IInv, NoneMissed
<1> QED BY <1>1, Inductive, PTL

(***************************************************************************)
(* With the time zone the program expects, every GPS frame leaves the      *)
(* clock within timeDiff of its own time, or where it was when             *)
(* settimeofday fails (ttyHandler.cpp:357-404).                            *)
(***************************************************************************)
THEOREM ClockFollowsGps == Spec => ClockNearGps
<1>1. IInv /\ [Next]_vars => ClockNear \/ UNCHANGED vars
  <2> SUFFICES ASSUME IInv, Next, GpsFrame, config["tty"]["timeDiff"][1] >= 0,
                      Zone = 28800
               PROVE  \/ Distance(clock', buf[5]) <= config["tty"]["timeDiff"][1]
                      \/ refused' /\ clock' = clock
    BY DEF ClockNear
  <2>1. gpsPackets' # gpsPackets /\ Len(buf) >= 4 + GpsSize
    BY DEF GpsFrame
  <2>2. CheckFrame
    BY <2>1 DEF Next, ReaderNext, ReadFirst, ReadSecond, ReadLength, ReadBody,
       Silence, doneVars, vars
  <2> DEFINE data == SubSeq(buf, 5, Len(buf))
             timeDiff == config["tty"]["timeDiff"][1]
  <2>3. ProcessGpsInfo(data)
    BY <2>1, <2>2 DEF CheckFrame, TakeFrame, DropFrame, doneVars
  <2>4. /\ buf \in Seq(0..255) /\ clock \in Int /\ timeDiff \in Int
        /\ GpsSize \in Nat /\ GpsSize >= 2
    BY ReaderAssumption
       DEF IInv, LineType, DoneType, ConfigType, ReaderAssumption
  <2>5. Len(data) >= GpsSize /\ Len(data) \in Nat /\ data[1] = buf[5]
        /\ buf[5] \in Int
    <3>1. /\ data \in Seq(0..255) /\ Len(data) = Len(buf) - 4
          /\ \A j \in 1..(Len(buf) - 4) : data[j] = buf[j + 4]
      <4>1. Len(buf) >= 4
        BY <2>1, <2>4
      <4> QED BY <2>4, <4>1, DataOf
    <3> HIDE DEF data
    <3>2. Len(buf) \in Nat /\ 1 \in 1..(Len(buf) - 4) /\ 5 \in 1..Len(buf)
      BY <2>1, <2>4
    <3>3. data[1] = buf[1 + 4] /\ buf[5] \in 0..255
      BY <2>4, <3>1, <3>2, ElementOfSeq
    <3>4. data[1] = buf[5] /\ buf[5] \in Int
      BY <3>3
    <3>5. Len(data) >= GpsSize /\ Len(data) \in Nat
      BY <2>1, <2>4, <3>1, <3>2
    <3> QED BY <3>4, <3>5
  <2>6. SetClock(GpsTime(data), timeDiff)
    BY <2>3, <2>4, <2>5 DEF ProcessGpsInfo
  <2> HIDE DEF data, timeDiff
  <2>7. GpsTime(data) = buf[5]
    BY <2>5 DEF GpsTime
  <2>8. IF timeDiff >= 0 /\ Distance(clock, buf[5]) > timeDiff
        THEN clock' = buf[5] \/ (refused' /\ clock' = clock)
        ELSE clock' = clock
    BY <2>6, <2>7 DEF SetClock, StepClock, LeaveClock
  <2>9. timeDiff >= 0
    BY DEF timeDiff
  <2>10. Distance(clock', buf[5]) <= timeDiff \/ (refused' /\ clock' = clock)
    BY <2>4, <2>5, <2>8, <2>9 DEF Distance
  <2> QED BY <2>10 DEF timeDiff
<1> QED BY <1>1, Inductive, PTL DEF Spec, ClockNearGps

-----------------------------------------------------------------------------
(***************************************************************************)
(* The settings.  Setting(file, s, k) is defined by recursion on the       *)
(* number of lines; that a function with its equations exists is shown     *)
(* here for the lines up to n, by a least n there is none for.             *)
(***************************************************************************)
AfterLine(file, s, k, i, value) ==
  IF ~Concerns(file, i, s, k) THEN value ELSE Set(k, value, Given(file, i))

UpTo(file, s, k, n, g) ==
  /\ g[0] = Default(k)
  /\ \A i \in 1..n : g[i] = AfterLine(file, s, k, i, g[i - 1])

LEMMA SettingUpTo ==
  ASSUME NEW file, NEW s, NEW k, NEW n \in Nat
  PROVE  \E g : UpTo(file, s, k, n, g)
<1> DEFINE T == {m \in Nat : ~ \E g : UpTo(file, s, k, m, g)}
<1>1. SUFFICES ASSUME T # {}
               PROVE  FALSE
  OBVIOUS
<1>2. PICK m \in T : \A y \in T : m <= y
  BY <1>1, LeastNat
<1>3. m # 0
  <2>1. UpTo(file, s, k, 0, [i \in {0} |-> Default(k)])
    BY DEF UpTo
  <2> QED BY <1>2, <2>1
<1>4. m - 1 \in Nat /\ m - 1 \notin T
  BY <1>2, <1>3
<1>5. PICK g : UpTo(file, s, k, m - 1, g)
  BY <1>4
<1> DEFINE h == [i \in 0..m |->
                   IF i < m THEN g[i] ELSE AfterLine(file, s, k, m, g[m - 1])]
<1>6. h[0] = Default(k)
  BY <1>2, <1>3, <1>5 DEF UpTo
<1>7. ASSUME NEW i \in 1..m
      PROVE  h[i] = AfterLine(file, s, k, i, h[i - 1])
  <2>1. i - 1 \in 0..m /\ i - 1 < m /\ i \in 0..m
    BY <1>2
  <2>2. h[i - 1] = g[i - 1]
    BY <2>1
  <2>3. CASE i = m
    BY <2>1, <2>2, <2>3
  <2>4. CASE i < m
    <3>1. i \in 1..(m - 1)
      BY <1>2, <2>4
    <3>2. g[i] = AfterLine(file, s, k, i, g[i - 1])
      BY <1>5, <3>1 DEF UpTo
    <3> QED BY <2>1, <2>2, <2>4, <3>2
  <2> QED BY <1>2, <2>3, <2>4
<1> HIDE DEF h
<1>8. UpTo(file, s, k, m, h)
  BY <1>6, <1>7 DEF UpTo
<1> QED BY <1>2, <1>8

\* Two of them agree where both are.
LEMMA SettingUnique ==
  ASSUME NEW file, NEW s, NEW k, NEW n \in Nat, NEW g, NEW h,
         UpTo(file, s, k, n, g), UpTo(file, s, k, n, h)
  PROVE  \A i \in 0..n : g[i] = h[i]
<1> DEFINE T == {i \in 0..n : g[i] # h[i]}
<1>1. SUFFICES ASSUME T # {}
               PROVE  FALSE
  OBVIOUS
<1>2. PICK m \in T : \A y \in T : m <= y
  <2>1. T \subseteq Nat
    OBVIOUS
  <2> HIDE DEF T
  <2> QED BY <1>1, <2>1, LeastNat
<1>3. m # 0
  BY <1>2 DEF UpTo
<1>4. m - 1 \in 0..n /\ m \in 1..n /\ ~(m <= m - 1)
  BY <1>2, <1>3
<1>5. g[m - 1] = h[m - 1]
  BY <1>2, <1>4
<1> QED BY <1>2, <1>4, <1>5 DEF UpTo

LEMMA SettingEquations ==
  ASSUME NEW file, NEW s, NEW k
  PROVE  /\ Setting(file, s, k)[0] = Default(k)
         /\ \A n \in Nat : Setting(file, s, k)[n + 1] =
              AfterLine(file, s, k, n + 1, Setting(file, s, k)[n])
<1> DEFINE Solves(f) ==
             f = [i \in Nat |->
                    IF i = 0 THEN Default(k)
                    ELSE IF ~Concerns(file, i, s, k) THEN f[i - 1]
                    ELSE Set(k, f[i - 1], Given(file, i))]
           Choice(n) == CHOOSE g : UpTo(file, s, k, n, g)
           F == [n \in Nat |-> Choice(n)[n]]
<1>1. Setting(file, s, k) = CHOOSE f : Solves(f)
  BY Zenon DEF Setting
<1>2. \A n \in Nat : UpTo(file, s, k, n, Choice(n))
  BY SettingUpTo
<1>3. F[0] = Default(k)
  BY <1>2 DEF UpTo
<1>4. ASSUME NEW n \in Nat \ {0}
      PROVE  F[n] = AfterLine(file, s, k, n, F[n - 1])
  <2>1. n - 1 \in Nat /\ n \in 1..n /\ n - 1 \in 0..(n - 1)
    OBVIOUS
  <2>2. UpTo(file, s, k, n - 1, Choice(n)) /\ UpTo(file, s, k, n, Choice(n))
    <3>1. 1..(n - 1) \subseteq 1..n
      OBVIOUS
    <3> HIDE DEF Choice
    <3> QED BY <1>2, <3>1 DEF UpTo
  <2> HIDE DEF Choice
  <2>3. Choice(n)[n - 1] = Choice(n - 1)[n - 1]
    BY <1>2, <2>1, <2>2, SettingUnique
  <2>4. Choice(n)[n] = AfterLine(file, s, k, n, Choice(n)[n - 1])
    BY <2>1, <2>2 DEF UpTo
  <2> QED BY <2>1, <2>3, <2>4
<1> HIDE DEF Choice, F
<1>5. Solves(F)
  <2>1. F = [i \in Nat |-> F[i]]
    BY DEF F
  <2>2. \A i \in Nat : F[i] = IF i = 0 THEN Default(k)
                              ELSE IF ~Concerns(file, i, s, k) THEN F[i - 1]
                              ELSE Set(k, F[i - 1], Given(file, i))
    BY <1>3, <1>4 DEF AfterLine
  <2> QED BY <2>1, <2>2
<1> HIDE DEF Solves
<1>6. Solves(Setting(file, s, k))
  BY <1>1, <1>5, Zenon
<1>7. PICK f : f = Setting(file, s, k)
  OBVIOUS
<1>8. f = [i \in Nat |-> IF i = 0 THEN Default(k)
                         ELSE IF ~Concerns(file, i, s, k) THEN f[i - 1]
                         ELSE Set(k, f[i - 1], Given(file, i))]
  BY <1>6, <1>7, Zenon DEF Solves
<1>9. f[0] = Default(k)
  BY <1>8
<1>10. ASSUME NEW n \in Nat
       PROVE  f[n + 1] = AfterLine(file, s, k, n + 1, f[n])
  <2>1. n + 1 \in Nat /\ n + 1 # 0 /\ n + 1 - 1 = n
    OBVIOUS
  <2> QED BY <1>8, <2>1 DEF AfterLine
<1> QED BY <1>7, <1>9, <1>10

-----------------------------------------------------------------------------
(***************************************************************************)
(* What ini_parse_stream remembers, section and prev_name, is what the     *)
(* lines read so far say.                                                  *)
(***************************************************************************)
Pairs(file, n) == {j \in (Header(file, n) + 1)..n : file[j].kind = "pair"}
Own(file, n) == {j \in Pairs(file, n) : ~GoesOn(file, j)}

Remembers ==
  /\ Header(iniFile, lineno) \in 0..lineno
  /\ section = IF Header(iniFile, lineno) = 0 THEN ""
               ELSE iniFile[Header(iniFile, lineno)].name
  /\ Own(iniFile, lineno) = {} => prevName = "" /\ Pairs(iniFile, lineno) = {}
  /\ Own(iniFile, lineno) # {} =>
       prevName # "" /\ prevName = iniFile[LastIn(Own(iniFile, lineno))].name

SettingsMade ==
  \A s \in {"tty", "net"} : \A k \in Setters(s) :
    config[s][k] = Setting(iniFile, s, k)[lineno]

SettingsInv == Plain(iniFile) => Remembers /\ SettingsMade

LEMMA LastAdded ==
  ASSUME NEW S, NEW i \in Nat, S \subseteq 0..i
  PROVE  LastIn(S \cup {i + 1}) = i + 1
<1>1. \A x \in S : x \in Int /\ x <= i
  OBVIOUS
<1>2. \A j \in S \cup {i + 1} : j <= i + 1
  BY <1>1
<1>3. ASSUME NEW x \in S \cup {i + 1}, \A j \in S \cup {i + 1} : j <= x
      PROVE  x = i + 1
  BY <1>1, <1>3
<1> QED BY <1>2, <1>3 DEF LastIn

LEMMA HeaderMoves ==
  ASSUME NEW file, NEW n \in Nat
  PROVE  Header(file, n + 1) =
           IF file[n + 1].kind = "section" THEN n + 1 ELSE Header(file, n)
<1> DEFINE S == {0} \cup {j \in 1..n : file[j].kind = "section"}
<1>1. S \subseteq 0..n
  OBVIOUS
<1>2. {j \in 1..(n + 1) : file[j].kind = "section"} =
        {j \in 1..n : file[j].kind = "section"} \cup
          (IF file[n + 1].kind = "section" THEN {n + 1} ELSE {})
  <2>1. \A j : j \in 1..(n + 1) <=> j \in 1..n \/ j = n + 1
    OBVIOUS
  <2> QED BY <2>1
<1>3. CASE file[n + 1].kind = "section"
  <2>1. Header(file, n + 1) = LastIn(S \cup {n + 1})
    <3>1. {0} \cup {j \in 1..(n + 1) : file[j].kind = "section"} = S \cup {n + 1}
      BY <1>2, <1>3
    <3> QED BY <3>1 DEF Header
  <2> HIDE DEF S
  <2> QED BY <1>1, <1>3, <2>1, LastAdded
<1>4. CASE file[n + 1].kind # "section"
  <2>1. {j \in 1..(n + 1) : file[j].kind = "section"} =
          {j \in 1..n : file[j].kind = "section"}
    BY <1>2, <1>4
  <2> QED BY <1>4, <2>1 DEF Header
<1> QED BY <1>3, <1>4

LEMMA HeaderOfNone ==
  ASSUME NEW file
  PROVE  Header(file, 0) = 0
<1>1. {0} \cup {j \in 1..0 : file[j].kind = "section"} = {0}
  OBVIOUS
<1>2. LastIn({0}) = 0
  BY DEF LastIn
<1> QED BY <1>1, <1>2 DEF Header

\* The pairs of the section, with one more line.
LEMMA PairsMove ==
  ASSUME NEW file, NEW n \in Nat, Header(file, n) \in 0..n
  PROVE  /\ file[n + 1].kind = "section" =>
              Pairs(file, n + 1) = {} /\ Own(file, n + 1) = {}
         /\ file[n + 1].kind # "section" =>
              /\ PairsBefore(file, n + 1) = Pairs(file, n)
              /\ Pairs(file, n + 1) = Pairs(file, n) \cup
                   (IF file[n + 1].kind = "pair" THEN {n + 1} ELSE {})
              /\ Own(file, n + 1) = Own(file, n) \cup
                   (IF file[n + 1].kind = "pair" /\ ~GoesOn(file, n + 1)
                    THEN {n + 1} ELSE {})
         /\ Own(file, n) \subseteq 0..n
<1>1. ASSUME file[n + 1].kind = "section"
      PROVE  Pairs(file, n + 1) = {} /\ Own(file, n + 1) = {}
  <2>1. Header(file, n + 1) = n + 1
    BY <1>1, HeaderMoves
  <2>2. (n + 1 + 1)..(n + 1) = {}
    OBVIOUS
  <2>3. Pairs(file, n + 1) = {}
    BY <2>1, <2>2 DEF Pairs
  <2> QED BY <2>3 DEF Own
<1>2. ASSUME file[n + 1].kind # "section"
      PROVE  /\ PairsBefore(file, n + 1) = Pairs(file, n)
             /\ Pairs(file, n + 1) = Pairs(file, n) \cup
                  (IF file[n + 1].kind = "pair" THEN {n + 1} ELSE {})
             /\ Own(file, n + 1) = Own(file, n) \cup
                  (IF file[n + 1].kind = "pair" /\ ~GoesOn(file, n + 1)
                   THEN {n + 1} ELSE {})
  <2>1. PICK h : h = Header(file, n)
    OBVIOUS
  <2>2. Header(file, n + 1) = h /\ h \in 0..n
    BY <1>2, <2>1, HeaderMoves
  <2>3. n + 1 - 1 = n /\ \A j : j \in (h + 1)..(n + 1) <=>
                                 j \in (h + 1)..n \/ j = n + 1
    BY <2>2
  <2>4. PairsBefore(file, n + 1) = Pairs(file, n)
    BY <2>1, <2>2, <2>3 DEF PairsBefore, Pairs
  <2>5. Pairs(file, n + 1) = Pairs(file, n) \cup
          (IF file[n + 1].kind = "pair" THEN {n + 1} ELSE {})
    BY <2>1, <2>2, <2>3 DEF Pairs
  <2>6. Own(file, n + 1) = Own(file, n) \cup
          (IF file[n + 1].kind = "pair" /\ ~GoesOn(file, n + 1)
           THEN {n + 1} ELSE {})
    BY <2>5 DEF Own
  <2> QED BY <2>4, <2>5, <2>6
<1>3. Own(file, n) \subseteq 0..n
  BY DEF Own, Pairs
<1> QED BY <1>1, <1>2, <1>3

\* Whether the line goes on, and with what, is what the program takes it for.
LEMMA LineMeans ==
  ASSUME MainType, Plain(iniFile), Remembers, lineno < Len(iniFile)
  PROVE  LET i == lineno + 1
             goes == Continues /\ Line.kind # "blank"
         IN  /\ Line.kind # "badSection"
             /\ Line.kind = "section" => ~Continues
             /\ Line.kind = "pair" => Line.name # ""
             /\ GoesOn(iniFile, i) <=> goes
             /\ NameOf(iniFile, i) = IF goes THEN prevName
                                     ELSE IF Line.kind = "pair" THEN Line.name
                                     ELSE ""
             /\ Given(iniFile, i) = IF goes THEN Content(Line) ELSE Line.words
<1> DEFINE i == lineno + 1
           goes == Continues /\ Line.kind # "blank"
<1>1. lineno \in Nat /\ i \in DOMAIN iniFile /\ Line = iniFile[i]
  BY DEF MainType, Line
<1>2. /\ Line.kind # "badSection"
      /\ Line.kind = "section" => ~Line.indent
      /\ Line.kind = "pair" => Line.name # ""
  BY <1>1 DEF Plain
<1>3. Line.kind # "section" => PairsBefore(iniFile, i) = Pairs(iniFile, lineno)
  BY <1>1, PairsMove DEF Remembers
<1>4. prevName # "" <=> Pairs(iniFile, lineno) # {}
  BY DEF Remembers, Own
<1>5. GoesOn(iniFile, i) <=> goes
  BY <1>1, <1>2, <1>3, <1>4 DEF GoesOn, Continues
<1>6. goes => NameOf(iniFile, i) = prevName
  <2> SUFFICES ASSUME goes
               PROVE  NameOf(iniFile, i) = prevName
    OBVIOUS
  <2>1. Line.kind # "section"
    BY <1>2 DEF Continues
  <2>2. {j \in PairsBefore(iniFile, i) : ~GoesOn(iniFile, j)}
          = Own(iniFile, lineno)
    BY <1>3, <2>1 DEF Own
  <2>3. Own(iniFile, lineno) # {}
    BY <1>4 DEF Continues, Remembers
  <2>4. prevName = iniFile[LastIn(Own(iniFile, lineno))].name
    BY <2>3 DEF Remembers
  <2> QED BY <1>5, <2>2, <2>4 DEF NameOf
<1>7. ~goes => NameOf(iniFile, i) = IF Line.kind = "pair" THEN Line.name ELSE ""
  BY <1>1, <1>5 DEF NameOf
<1>8. Given(iniFile, i) = IF goes THEN Content(Line) ELSE Line.words
  BY <1>1, <1>5 DEF Given
<1>9. Line.kind = "section" => ~Continues
  BY <1>2 DEF Continues
<1> HIDE DEF goes
<1>10. NameOf(iniFile, i) = IF goes THEN prevName
                            ELSE IF Line.kind = "pair" THEN Line.name ELSE ""
  BY <1>6, <1>7
<1> QED BY <1>2, <1>5, <1>8, <1>9, <1>10 DEF goes

LEMMA HandleDoes ==
  ASSUME ConfigType, NEW sec, NEW name, NEW words, Handle(sec, name, words),
         NEW s \in {"tty", "net"}, NEW k \in Setters(s)
  PROVE  config'[s][k] = IF sec = s /\ name = k THEN Set(k, config[s][k], words)
                         ELSE config[s][k]
<1>1. DOMAIN config = {"tty", "net"} /\ DOMAIN config[s] = Setters(s)
  BY DEF ConfigType
<1>2. CASE name \notin Setters(sec)
  <2>1. config' = config /\ ~(sec = s /\ name = k)
    BY <1>2 DEF Handle
  <2> QED BY <2>1
<1>3. CASE name \in Setters(sec)
  <2>1. config' = [config EXCEPT ![sec][name] = Set(name, @, words)]
    BY <1>3 DEF Handle
  <2>2. sec \in {"tty", "net"} /\ DOMAIN config[sec] = Setters(sec)
    BY <1>3 DEF Setters, ConfigType
  <2>3. CASE sec = s /\ name = k
    BY <1>1, <2>1, <2>3
  <2>4. CASE ~(sec = s /\ name = k)
    BY <1>1, <2>1, <2>2, <2>4
  <2> QED BY <2>3, <2>4
<1> QED BY <1>2, <1>3

\* Which setting the line concerns.
LEMMA LineConcerns ==
  ASSUME MainType, Plain(iniFile), Remembers, lineno < Len(iniFile),
         NEW s \in {"tty", "net"}, NEW k \in Setters(s)
  PROVE  Concerns(iniFile, lineno + 1, s, k) <=>
           /\ section = s
           /\ \/ Continues /\ Line.kind # "blank" /\ prevName = k
              \/ ~Continues /\ Line.kind = "pair" /\ Line.name = k
<1> DEFINE i == lineno + 1
<1>1. lineno \in Nat /\ Line = iniFile[i]
  BY DEF MainType, Line
<1>2. k # ""
  BY DEF Setters
<1>3. CASE Line.kind = "section"
  <2>1. ~Continues /\ NameOf(iniFile, i) = ""
    BY <1>3, LineMeans
  <2> QED BY <1>2, <1>3, <2>1 DEF Concerns
<1>4. CASE Line.kind # "section"
  <2>1. PICK h : h = Header(iniFile, lineno)
    OBVIOUS
  <2>2. Header(iniFile, i) = h
    BY <1>1, <1>4, <2>1, HeaderMoves
  <2>3. h \in Nat /\ section = IF h = 0 THEN "" ELSE iniFile[h].name
    <3>1. h \in 0..lineno
      BY <2>1 DEF Remembers
    <3>2. section = IF h = 0 THEN "" ELSE iniFile[h].name
      BY <2>1 DEF Remembers
    <3>3. lineno \in Nat
      BY <1>1
    <3>4. h \in Nat
      BY <3>1, <3>3
    <3> QED BY <3>2, <3>4, Zenon
  <2>4. (h > 0 /\ iniFile[h].name = s) <=> section = s
    <3>1. s # ""
      OBVIOUS
    <3>2. h \in Nat
      BY <2>3, Zenon
    <3>3. h > 0 <=> h # 0
      BY <3>2
    <3> QED BY <2>3, <3>1, <3>3, Zenon
  <2>5. Concerns(iniFile, i, s, k) <=> section = s /\ NameOf(iniFile, i) = k
    BY <2>2, <2>4 DEF Concerns
  <2>6. NameOf(iniFile, i) =
          IF Continues /\ Line.kind # "blank" THEN prevName
          ELSE IF Line.kind = "pair" THEN Line.name ELSE ""
    BY LineMeans
  <2>7. CASE Continues /\ Line.kind # "blank"
    BY <2>5, <2>6, <2>7
  <2>8. CASE ~Continues \/ Line.kind = "blank"
    <3>1. NameOf(iniFile, i) = IF Line.kind = "pair" THEN Line.name ELSE ""
      BY <2>6, <2>8
    <3>2. Line.kind = "pair" => Line.kind # "blank"
      OBVIOUS
    <3> QED BY <1>2, <2>5, <2>8, <3>1, <3>2
  <2> QED BY <2>7, <2>8
<1> QED BY <1>3, <1>4

LEMMA SettingAt ==
  ASSUME MainType
  PROVE  \A s, k : Setting(iniFile, s, k)[lineno + 1] =
           AfterLine(iniFile, s, k, lineno + 1, Setting(iniFile, s, k)[lineno])
<1>1. lineno \in Nat
  BY DEF MainType
<1> QED BY <1>1, SettingEquations

\* What the line makes of a setting.
Made(s, k) ==
  /\ section = s
  /\ \/ Continues /\ Line.kind # "blank" /\ prevName = k
     \/ ~Continues /\ Line.kind = "pair" /\ Line.name = k

NowIs(s, k) ==
  IF Made(s, k) THEN Set(k, config[s][k], Given(iniFile, lineno + 1))
  ELSE config[s][k]

LEMMA MadeStep ==
  ASSUME MainType, ConfigType, Plain(iniFile), Remembers, SettingsMade,
         lineno < Len(iniFile), lineno' = lineno + 1, iniFile' = iniFile,
         \A s \in {"tty", "net"} : \A k \in Setters(s) :
           config'[s][k] = NowIs(s, k)
  PROVE  SettingsMade'
<1> SUFFICES ASSUME NEW s \in {"tty", "net"}, NEW k \in Setters(s)
             PROVE  config'[s][k] = Setting(iniFile, s, k)[lineno + 1]
  BY DEF SettingsMade
<1>1. lineno \in Nat
  BY DEF MainType
<1>2. Setting(iniFile, s, k)[lineno + 1] =
        AfterLine(iniFile, s, k, lineno + 1, Setting(iniFile, s, k)[lineno])
  BY SettingAt
<1>3. config[s][k] = Setting(iniFile, s, k)[lineno]
  BY DEF SettingsMade
<1> QED BY <1>2, <1>3, LineConcerns DEF AfterLine, NowIs, Made

\* A step that handles no value: the line concerns no setting then.
LEMMA NothingMade ==
  ASSUME MainType, ConfigType, Plain(iniFile), Remembers, SettingsMade,
         lineno < Len(iniFile), lineno' = lineno + 1, iniFile' = iniFile,
         config' = config, Line.kind = "blank" \/ ~Continues,
         Line.kind # "pair"
  PROVE  SettingsMade'
<1>1. \A s \in {"tty", "net"} : \A k \in Setters(s) : config'[s][k] = NowIs(s, k)
  BY DEF NowIs, Made
<1> QED BY <1>1, MadeStep

\* What the lines said so far, with one more line of no other section.
LEMMA RemembersStep ==
  ASSUME MainType, Plain(iniFile), Remembers,
         lineno < Len(iniFile), lineno' = lineno + 1, iniFile' = iniFile,
         Line.kind # "section", section' = section,
         prevName' = IF Line.kind = "pair" /\ ~Continues THEN Line.name
                     ELSE prevName
  PROVE  Remembers'
<1> DEFINE i == lineno + 1
           fresh == Line.kind = "pair" /\ ~Continues
<1>1. lineno \in Nat /\ Line = iniFile[i] /\ Header(iniFile, lineno) \in 0..lineno
  <2>1. lineno \in Nat
    BY DEF MainType
  <2>2. Line = iniFile[i]
    BY DEF Line
  <2>3. Header(iniFile, lineno) \in 0..lineno
    BY DEF Remembers
  <2> QED BY <2>1, <2>2, <2>3
<1>2. Header(iniFile, i) = Header(iniFile, lineno)
  BY <1>1, HeaderMoves
<1>3. /\ Pairs(iniFile, i) = Pairs(iniFile, lineno) \cup
           (IF Line.kind = "pair" THEN {i} ELSE {})
      /\ Own(iniFile, i) = Own(iniFile, lineno) \cup (IF fresh THEN {i} ELSE {})
      /\ Own(iniFile, lineno) \subseteq 0..lineno
  <2>1. Line.kind = "pair" => (GoesOn(iniFile, i) <=> Continues)
    BY LineMeans
  <2> QED BY <1>1, <2>1, PairsMove
<1>4. Header(iniFile, i) \in 0..i
  BY <1>1, <1>2
<1>5. CASE fresh
  <2>1. prevName' = Line.name /\ Line.name # ""
    BY <1>5, LineMeans
  <2>2. Own(iniFile, i) = Own(iniFile, lineno) \cup {i}
    BY <1>3, <1>5
  <2>3. LastIn(Own(iniFile, i)) = i
    BY <1>1, <1>3, <2>2, LastAdded
  <2> HIDE DEF fresh
  <2>4. Own(iniFile, i) # {}
    BY <2>2
  <2> QED BY <1>1, <1>2, <1>4, <2>1, <2>3, <2>4 DEF Remembers
<1>6. CASE ~fresh
  <2>1. prevName' = prevName
    BY <1>6
  <2>2. Own(iniFile, i) = Own(iniFile, lineno)
    BY <1>3, <1>6
  <2>3. Pairs(iniFile, lineno) = {} => Pairs(iniFile, i) = {}
    <3>1. SUFFICES ASSUME Pairs(iniFile, lineno) = {}, Line.kind = "pair"
                   PROVE  FALSE
      BY <1>3
    <3>2. Own(iniFile, lineno) = {}
      BY <3>1 DEF Own
    <3>3. prevName = ""
      BY <3>2 DEF Remembers
    <3> QED BY <1>6, <3>1, <3>3 DEF Continues
  <2> HIDE DEF fresh
  <2> QED BY <1>2, <1>4, <2>1, <2>2, <2>3 DEF Remembers
<1> QED BY <1>5, <1>6

LEMMA SectionStep ==
  ASSUME MainType, Plain(iniFile), Remembers,
         lineno < Len(iniFile), lineno' = lineno + 1, SectionLine
  PROVE  Remembers'
<1> DEFINE i == lineno + 1
<1>1. lineno \in Nat /\ Line = iniFile[i] /\ Header(iniFile, lineno) \in 0..lineno
  <2>1. lineno \in Nat
    BY DEF MainType
  <2>2. Line = iniFile[i]
    BY DEF Line
  <2>3. Header(iniFile, lineno) \in 0..lineno
    BY DEF Remembers
  <2> QED BY <2>1, <2>2, <2>3
<1>2. Line.kind = "section"
  BY DEF SectionLine, NextLine
<1>3. Header(iniFile, i) = i
  BY <1>1, <1>2, HeaderMoves
<1>4. Pairs(iniFile, i) = {} /\ Own(iniFile, i) = {}
  BY <1>1, <1>2, PairsMove
<1>5. i \in 0..i /\ i # 0
  BY <1>1
<1>6. iniFile' = iniFile /\ section' = Line.name /\ prevName' = ""
  BY Zenon DEF SectionLine, NextLine
<1>7. Remembers' <=>
        /\ Header(iniFile', i) \in 0..i
        /\ section' = IF Header(iniFile', i) = 0 THEN ""
                      ELSE iniFile'[Header(iniFile', i)].name
        /\ Own(iniFile', i) = {} => prevName' = "" /\ Pairs(iniFile', i) = {}
        /\ Own(iniFile', i) # {} =>
             prevName' # ""
             /\ prevName' = iniFile'[LastIn(Own(iniFile', i))].name
  BY Zenon DEF Remembers
<1> HIDE DEF i
<1> QED BY <1>1, <1>3, <1>4, <1>5, <1>6, <1>7, Zenon

LEMMA IniLineStep ==
  ASSUME MainType, ConfigType, Plain(iniFile), Remembers, SettingsMade,
         BlankLine \/ Continuation \/ SectionLine \/ PairLine \/ WrongLine
  PROVE  Remembers' /\ SettingsMade'
<1>1. ASSUME NEW kinds, NextLine(kinds)
      PROVE  /\ lineno < Len(iniFile) /\ lineno' = lineno + 1
             /\ iniFile' = iniFile /\ Line.kind \in kinds
  BY <1>1 DEF NextLine
<1>2. CASE BlankLine
  <2>1. /\ lineno < Len(iniFile) /\ lineno' = lineno + 1 /\ iniFile' = iniFile
        /\ Line.kind = "blank" /\ UNCHANGED <<section, prevName, config>>
    BY <1>1, <1>2 DEF BlankLine
  <2> QED BY <2>1, RemembersStep, NothingMade
<1>3. CASE Continuation
  <2>1. /\ lineno < Len(iniFile) /\ lineno' = lineno + 1 /\ iniFile' = iniFile
        /\ Line.kind # "blank" /\ Continues
        /\ Handle(section, prevName, Content(Line))
        /\ UNCHANGED <<section, prevName>>
    BY <1>1, <1>3 DEF Continuation
  <2>2. Line.kind # "section" /\ Given(iniFile, lineno + 1) = Content(Line)
    BY <2>1, LineMeans
  <2>3. \A s \in {"tty", "net"} : \A k \in Setters(s) :
          config'[s][k] = NowIs(s, k)
    BY <2>1, <2>2, HandleDoes DEF NowIs, Made
  <2> QED BY <2>1, <2>2, <2>3, MadeStep, RemembersStep
<1>4. CASE SectionLine
  <2>1. NextLine({"section"}) /\ ~Continues /\ config' = config
    BY <1>4, Zenon DEF SectionLine
  <2>2. /\ lineno < Len(iniFile) /\ lineno' = lineno + 1 /\ iniFile' = iniFile
        /\ Line.kind = "section"
    BY <1>1, <2>1
  <2>3. SettingsMade'
    BY <2>1, <2>2, NothingMade
  <2> QED BY <1>4, <2>2, <2>3, SectionStep
<1>5. CASE PairLine
  <2>1. /\ lineno < Len(iniFile) /\ lineno' = lineno + 1 /\ iniFile' = iniFile
        /\ Line.kind = "pair" /\ ~Continues
        /\ Handle(section, Line.name, Line.words)
        /\ section' = section /\ prevName' = Line.name
    BY <1>1, <1>5 DEF PairLine
  <2>2. Given(iniFile, lineno + 1) = Line.words
    BY <2>1, LineMeans
  <2>3. \A s \in {"tty", "net"} : \A k \in Setters(s) :
          config'[s][k] = NowIs(s, k)
    BY <2>1, <2>2, HandleDoes DEF NowIs, Made
  <2> QED BY <2>1, <2>3, MadeStep, RemembersStep
<1>6. CASE WrongLine
  <2>1. /\ lineno < Len(iniFile) /\ lineno' = lineno + 1 /\ iniFile' = iniFile
        /\ Line.kind \in {"badSection", "noEquals"} /\ ~Continues
        /\ UNCHANGED <<section, prevName, config>>
    BY <1>1, <1>6 DEF WrongLine
  <2> QED BY <2>1, RemembersStep, NothingMade
<1> QED BY <1>2, <1>3, <1>4, <1>5, <1>6

(***************************************************************************)
(* A setting is made by the lines of its own section and name and by none  *)
(* else, in their order, for every file (ini.c:135-228,                    *)
(* demo_comm.cpp:225-257).                                                 *)
(***************************************************************************)
THEOREM SettingsAreApart == Spec => []SettingsKeptApart
<1>1. Init => SettingsInv
  <2> SUFFICES ASSUME Init
               PROVE  Remembers /\ SettingsMade
    BY DEF SettingsInv
  <2>1. /\ lineno = 0 /\ section = "" /\ prevName = ""
        /\ config = [s \in {"tty", "net"} |-> [k \in Setters(s) |-> Default(k)]]
    BY DEF Init, IniInit
  <2>2. Header(iniFile, 0) = 0 /\ Pairs(iniFile, 0) = {}
    BY HeaderOfNone DEF Pairs
  <2>3. Remembers
    <3>1. Own(iniFile, 0) = {} /\ 0 \in 0..0
      BY <2>2 DEF Own
    <3> QED BY <2>1, <2>2, <3>1 DEF Remembers
  <2>4. SettingsMade
    BY <2>1, SettingEquations DEF SettingsMade
  <2> QED BY <2>3, <2>4
<1>2. IInv /\ SettingsInv /\ [Next]_vars => SettingsInv'
  <2> SUFFICES ASSUME IInv, SettingsInv, [Next]_vars
               PROVE  SettingsInv'
    OBVIOUS
  <2>1. CASE BlankLine \/ Continuation \/ SectionLine \/ PairLine \/ WrongLine
    <3>1. iniFile' = iniFile
      BY <2>1 DEF BlankLine, Continuation, SectionLine, PairLine, WrongLine,
         NextLine
    <3> QED BY <2>1, <3>1, IniLineStep DEF IInv, SettingsInv
  <2>2. CASE UNCHANGED iniVars
    <3>1. UNCHANGED <<iniFile, lineno, section, prevName, config>>
      BY <2>2 DEF iniVars
    <3> QED BY <3>1 DEF SettingsInv, Remembers, SettingsMade
  <2>3. CASE OpenIni \/ EndOfIni \/ Start
    BY <2>2, <2>3 DEF OpenIni, EndOfIni, Start, MakeTty, MakeNet, CheckHandlers
  <2>4. CASE ReaderNext
    BY <2>2, <2>4 DEF ReaderNext, ReadFirst, ReadSecond, ReadLength, ReadBody,
       CheckFrame, Silence, vars
  <2>5. CASE UNCHANGED vars
    BY <2>2, <2>5 DEF vars
  <2> QED BY <2>1, <2>3, <2>4, <2>5 DEF Next, ReadIni
<1>3. SettingsInv => SettingsKeptApart
  BY DEF SettingsInv, SettingsMade, SettingsKeptApart
<1> QED BY <1>1, <1>2, <1>3, Inductive, PTL DEF Spec
=============================================================================
