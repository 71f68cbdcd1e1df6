--------------------------- MODULE RingBufProofs ---------------------------
(***************************************************************************)
(* For every size that divides the modulus of the counters and every mix   *)
(* of writes, reads, purges and a free: the ring buffer's counters stay    *)
(* consistent, and the bytes between them are the bounded FIFO of RxFifo.  *)
(***************************************************************************)
EXTENDS RingBuf, SequenceTheorems, TLAPS

-----------------------------------------------------------------------------
(* Sequences and remainders, before the facts about the sizes are in use. *)

(* h is the first k elements of f. *)
LEMMA PrefixIs ==
  ASSUME NEW S, NEW n \in Nat, NEW f \in [1..n -> S], NEW k \in 0..n,
         NEW h \in [1..k -> S], \A i \in 1..k : h[i] = f[i]
  PROVE  h = SubSeq(f, 1, k)
OBVIOUS

(* h is what follows the first k elements of f. *)
LEMMA RestIs ==
  ASSUME NEW S, NEW n \in Nat, NEW f \in [1..n -> S], NEW k \in 0..n,
         NEW h \in [1..(n - k) -> S], \A i \in 1..(n - k) : h[i] = f[k + i]
  PROVE  h = SubSeq(f, k + 1, n)
OBVIOUS

(* h is f followed by g. *)
IsConcat(h, f, g) == h = f \o g

LEMMA ConcatIs ==
  ASSUME NEW S, NEW n \in Nat, NEW m \in Nat, NEW f \in [1..n -> S], NEW g \in [1..m -> S],
         NEW h \in [1..(n + m) -> S],
         \A i \in 1..n : h[i] = f[i],
         \A i \in 1..m : h[n + i] = g[i]
  PROVE  IsConcat(h, f, g)
<1>1. f \in Seq(S) /\ g \in Seq(S) /\ h \in Seq(S) /\ Len(f) = n /\ Len(g) = m /\ Len(h) = n + m
  OBVIOUS
<1>2. /\ f \o g \in Seq(S)
      /\ Len(f \o g) = n + m
      /\ \A i \in 1..(n + m) : (f \o g)[i] = IF i <= n THEN f[i] ELSE g[i - n]
  BY <1>1, ConcatProperties
<1>3. ASSUME NEW i \in 1..(n + m)
      PROVE  h[i] = IF i <= n THEN f[i] ELSE g[i - n]
  <2>1. CASE i <= n
    BY <2>1
  <2>2. CASE ~ (i <= n)
    <3>1. i - n \in 1..m /\ n + (i - n) = i
      BY <2>2
    <3>2. h[n + (i - n)] = g[i - n]
      BY <3>1
    <3> QED
      BY <2>2, <3>1, <3>2
  <2> QED
    BY <2>1, <2>2
<1> DEFINE c == f \o g
<1>4. c \in Seq(S) /\ Len(h) = Len(c) /\ \A i \in 1..Len(h) : h[i] = c[i]
  BY <1>1, <1>2, <1>3
<1> HIDE DEF c
<1>5. h = c
  BY <1>1, <1>4, SeqEqual
<1> QED
  BY <1>5 DEF c, IsConcat

LEMMA ModDef ==
  ASSUME NEW a \in Nat, NEW b \in Nat \ {0}
  PROVE  a = (a \div b) * b + (a % b) /\ a % b \in 0..(b - 1) /\ a \div b \in Nat
BY SMT

LEMMA ModUnique ==
  ASSUME NEW b \in Nat \ {0}, NEW d \in Int, NEW r \in 0..(b - 1)
  PROVE  (d * b + r) % b = r
BY SMT

-----------------------------------------------------------------------------
(* The counters. *)

USE RingAssumption

Counters ==
  /\ HeadPos \in 0..(CounterMod - 1)
  /\ TailPos \in 0..(CounterMod - 1)
  /\ Size \in {0, AllocSize}

(* The inductive invariant of both theorems. *)
Consistent == TypeOK /\ OccupancyWithinSize

(* With at most Size bytes between the counters, neither subtraction of    *)
(* ringbuf.c wraps to a value outside 0..Size.                             *)
LEMMA SpaceComplementsOccupied ==
  ASSUME Counters, RingBufAvailable <= Size
  PROVE  /\ RingBufAvailable \in 0..Size
         /\ RingBufSpace = Size - RingBufAvailable
         /\ RingBufSpace \in 0..Size
BY DEF Counters, RingBufAvailable, RingBufSpace, WrapSub

(* Advancing Head by at most the free space adds exactly that many bytes,  *)
(* advancing Tail by at most the available bytes removes that many.        *)
LEMMA HeadAdvances ==
  ASSUME Counters, RingBufAvailable <= Size, NEW n \in Nat,
         n <= Size - RingBufAvailable, HeadPos' = WrapAdd(HeadPos, n, CounterMod),
         UNCHANGED <<TailPos, Size>>
  PROVE  Counters' /\ RingBufAvailable' = RingBufAvailable + n
BY DEF Counters, RingBufAvailable, WrapSub, WrapAdd

LEMMA TailAdvances ==
  ASSUME Counters, RingBufAvailable <= Size, NEW n \in Nat,
         n <= RingBufAvailable, TailPos' = WrapAdd(TailPos, n, CounterMod),
         UNCHANGED <<HeadPos, Size>>
  PROVE  Counters' /\ RingBufAvailable' = RingBufAvailable - n
BY DEF Counters, RingBufAvailable, WrapSub, WrapAdd

LEMMA LesserBounds ==
  \A a, b \in Nat : Lesser(a, b) \in Nat /\ Lesser(a, b) <= a /\ Lesser(a, b) <= b
BY DEF Lesser

LEMMA InitConsistent == RingBufInit => Consistent
<1> SUFFICES ASSUME RingBufInit PROVE Consistent
  OBVIOUS
<1>1. << >> \in Transfers
  <2>1. << >> = [i \in 1..0 |-> ZeroByte] /\ [i \in 1..0 |-> ZeroByte] \in [1..0 -> Byte]
    OBVIOUS
  <2> QED
    BY <2>1 DEF Transfers
<1>2. Buffer \in [Slots -> Byte]
  BY DEF RingBufInit
<1> QED
  BY <1>1, <1>2 DEF RingBufInit, Consistent, TypeOK, OccupancyWithinSize,
     RingBufAvailable, RingBufSpace, WrapSub

LEMMA ConsistentFacts ==
  ASSUME Consistent
  PROVE  Counters /\ RingBufAvailable <= Size /\ RingBufAvailable \in Nat
BY DEF Consistent, TypeOK, OccupancyWithinSize, Counters, RingBufAvailable, WrapSub

(* Counters that are in range and at most Size apart are consistent. *)
LEMMA NextOccupancy ==
  ASSUME Counters', RingBufAvailable' <= Size'
  PROVE  OccupancyWithinSize'
BY DEF Counters, OccupancyWithinSize, RingBufAvailable, RingBufSpace, WrapSub

LEMMA SlotInRange ==
  ASSUME NEW counter \in Nat, NEW i \in Slots
  PROVE  SlotOf(counter) \in Slots /\ Distance(counter, i) \in Slots
<1>1. SlotOf(counter) \in Slots
  BY DEF SlotOf, Slots
<1> QED
  BY <1>1 DEF Distance, Slots

LEMMA WriteConsistent ==
  ASSUME Consistent, NEW data \in Transfers, RingBufWrite(data)
  PROVE  Consistent'
<1> DEFINE n == Lesser(Len(data), RingBufSpace)
<1>1. Counters /\ RingBufAvailable <= Size /\ RingBufAvailable \in Nat /\ Size \in Nat
  BY ConsistentFacts DEF Counters
<1>2. Len(data) \in 0..MaxTransfer /\ data \in [1..Len(data) -> Byte]
  BY DEF Transfers
<1>3. RingBufSpace \in Nat /\ RingBufSpace = Size - RingBufAvailable
  BY <1>1, SpaceComplementsOccupied
<1>4. n \in Nat /\ n <= Len(data) /\ n <= Size - RingBufAvailable
  BY <1>2, <1>3, LesserBounds
<1>5. HeadPos' = WrapAdd(HeadPos, n, CounterMod) /\ written' = n
  BY DEF RingBufWrite
<1>6. Buffer' \in [Slots -> Byte]
  <2>1. ASSUME NEW i \in Slots, Distance(HeadPos, i) < n
        PROVE  data[Distance(HeadPos, i) + 1] \in Byte
    <3>1. Distance(HeadPos, i) \in Nat
      BY <1>1, SlotInRange DEF Counters, Slots
    <3>2. Distance(HeadPos, i) + 1 \in 1..Len(data)
      BY <1>2, <1>4, <2>1, <3>1
    <3> QED
      BY <1>2, <3>2
  <2> QED
    BY <2>1 DEF RingBufWrite, Consistent, TypeOK
<1> HIDE DEF n
<1>7. Counters' /\ RingBufAvailable' <= Size'
  <2>1. Counters' /\ RingBufAvailable' = RingBufAvailable + n
    BY <1>1, <1>4, <1>5, HeadAdvances DEF RingBufWrite
  <2> QED
    BY <1>1, <1>4, <2>1 DEF RingBufWrite
<1> QED
  BY <1>2, <1>4, <1>5, <1>6, <1>7, NextOccupancy DEF RingBufWrite, Consistent, TypeOK, Counters

LEMMA ReadConsistent ==
  ASSUME Consistent, NEW maxLen \in 0..MaxTransfer, RingBufRead(maxLen)
  PROVE  Consistent'
<1> DEFINE n == Lesser(maxLen, RingBufAvailable)
<1>1. Counters /\ RingBufAvailable <= Size /\ RingBufAvailable \in Nat /\ Size \in Nat
  BY ConsistentFacts DEF Counters
<1>2. n \in 0..MaxTransfer /\ n <= RingBufAvailable
  BY <1>1, LesserBounds
<1>3. TailPos' = WrapAdd(TailPos, n, CounterMod)
  BY DEF RingBufRead
<1>4. dest' \in Transfers
  <2>1. ASSUME NEW j \in 1..n
        PROVE  Buffer[SlotAfter(TailPos, j - 1)] \in Byte
    <3>1. WrapAdd(TailPos, j - 1, CounterMod) \in Nat
      BY <1>1, <1>2, <2>1 DEF WrapAdd, Counters
    <3>2. SlotAfter(TailPos, j - 1) \in Slots
      BY <3>1 DEF SlotAfter, SlotOf, Slots
    <3> QED
      BY <3>2 DEF Consistent, TypeOK
  <2>2. dest' \in [1..n -> Byte]
    BY <2>1 DEF RingBufRead
  <2> QED
    BY <1>2, <2>2 DEF Transfers
<1> HIDE DEF n
<1>5. Counters' /\ RingBufAvailable' <= Size'
  <2>1. Counters' /\ RingBufAvailable' = RingBufAvailable - n
    BY <1>1, <1>2, <1>3, TailAdvances DEF RingBufRead
  <2> QED
    BY <1>1, <1>2, <2>1 DEF RingBufRead
<1> QED
  BY <1>4, <1>5, NextOccupancy DEF RingBufRead, Consistent, TypeOK, Counters

(* Purging and freeing set both counters to zero. *)
LEMMA ResetConsistent ==
  ASSUME Consistent, RingBufPurge \/ RingBufFree
  PROVE  Consistent'
<1>1. HeadPos' = 0 /\ TailPos' = 0 /\ Size' \in {0, AllocSize}
  BY DEF RingBufPurge, RingBufFree, Consistent, TypeOK
<1>2. Counters' /\ RingBufAvailable' <= Size'
  BY <1>1 DEF Counters, RingBufAvailable, WrapSub
<1> QED
  BY <1>1, <1>2, NextOccupancy DEF RingBufPurge, RingBufFree, Consistent, TypeOK, Counters

LEMMA NextConsistent == Consistent /\ [Next]_ringVars => Consistent'
<1> SUFFICES ASSUME Consistent, [Next]_ringVars PROVE Consistent'
  OBVIOUS
<1>1. CASE \E data \in Transfers : RingBufWrite(data)
  BY <1>1, WriteConsistent
<1>2. CASE \E n \in 0..MaxTransfer : RingBufRead(n)
  BY <1>2, ReadConsistent
<1>3. CASE RingBufPurge \/ RingBufFree
  BY <1>3, ResetConsistent
<1>4. CASE UNCHANGED ringVars
  BY <1>4 DEF ringVars, Consistent, TypeOK, OccupancyWithinSize, RingBufAvailable,
     RingBufSpace
<1> QED
  BY <1>1, <1>2, <1>3, <1>4 DEF Next

(* The counters of ringbuf.c stay ULONGs, and a freed buffer stays freed   *)
(* or whole: type correctness for every capacity and counter width.        *)
THEOREM RingTypeCorrect == Spec => []TypeOK
<1>1. Consistent => TypeOK
  BY DEF Consistent
<1> QED
  BY <1>1, InitConsistent, NextConsistent, PTL DEF Spec

(* RingBufAvailable and RingBufSpace never wrap out of 0..Size, so a write *)
(* never overtakes Tail and a read never overtakes Head, for every         *)
(* power-of-two size below the counters' modulus.                          *)
THEOREM OccupancyStaysWithinSize == Spec => []OccupancyWithinSize
<1>1. Consistent => OccupancyWithinSize
  BY DEF Consistent
<1> QED
  BY <1>1, InitConsistent, NextConsistent, PTL DEF Spec

-----------------------------------------------------------------------------
(* The circular buffer implements the bounded FIFO.  From here on the    *)
(* provers see the sizes without the remainder, which they handle badly. *)

HIDE RingAssumption

LEMMA Sizes ==
  /\ AllocSize \in Nat \ {0} /\ CounterMod \in Nat \ {0} /\ AllocSize < CounterMod
  /\ MaxTransfer \in Nat
BY RingAssumption

LEMMA WholeRounds == CounterMod % AllocSize = 0
BY RingAssumption

USE Sizes

-----------------------------------------------------------------------------
(* Slots.  SlotOf is a remainder of a counter that wraps at a multiple of  *)
(* AllocSize, so going on from a slot is going round the buffer.           *)

(* i slots on from slot s, for an i of at most a whole round. *)
Round(s, i) == IF s + i < AllocSize THEN s + i ELSE s + i - AllocSize

LEMMA SlotAfterIsRound ==
  ASSUME NEW c \in 0..(CounterMod - 1), NEW k \in 0..AllocSize
  PROVE  SlotOf(c) \in Slots /\ SlotAfter(c, k) = Round(SlotOf(c), k)
<1> DEFINE s == c % AllocSize
           d == c \div AllocSize
           q == CounterMod \div AllocSize
<1>1. c = d * AllocSize + s /\ s \in 0..(AllocSize - 1) /\ d \in Nat
  <2>1. c \in Nat
    OBVIOUS
  <2> QED
    BY <2>1, ModDef, Zenon
<1>2. CounterMod = q * AllocSize /\ q \in Nat
  BY ModDef, WholeRounds
<1> HIDE DEF s, d, q
<1>3. PICK e \in Int : WrapAdd(c, k, CounterMod) = e * AllocSize + (s + k)
  <2>1. CASE c + k < CounterMod
    BY <1>1, <2>1 DEF WrapAdd
  <2>2. CASE ~ (c + k < CounterMod)
    <3>1. (d - q) * AllocSize = d * AllocSize - q * AllocSize
      BY <1>1, <1>2
    <3> QED
      BY <1>1, <1>2, <2>2, <3>1 DEF WrapAdd
  <2> QED
    BY <2>1, <2>2
<1>4. SlotAfter(c, k) = Round(s, k)
  <2>1. CASE s + k < AllocSize
    <3>1. s + k \in 0..(AllocSize - 1)
      BY <1>1, <2>1
    <3>2. (e * AllocSize + (s + k)) % AllocSize = s + k
      BY <3>1, ModUnique, Zenon
    <3> QED
      BY <1>3, <2>1, <3>2 DEF SlotAfter, SlotOf, Round
  <2>2. CASE ~ (s + k < AllocSize)
    <3>1. s + k - AllocSize \in 0..(AllocSize - 1)
      BY <1>1, <2>2
    <3>2. WrapAdd(c, k, CounterMod) = (e + 1) * AllocSize + (s + k - AllocSize)
      BY <1>1, <1>3
    <3>3. e + 1 \in Int
      OBVIOUS
    <3>4. ((e + 1) * AllocSize + (s + k - AllocSize)) % AllocSize = s + k - AllocSize
      BY <3>1, <3>3, ModUnique, Zenon
    <3> QED
      BY <2>2, <3>2, <3>4 DEF SlotAfter, SlotOf, Round
  <2> QED
    BY <2>1, <2>2
<1> QED
  BY <1>1, <1>4 DEF SlotOf, Slots, s

(* Advancing a counter by n and going on for k slots is going n + k slots. *)
LEMMA SlotAfterAdvance ==
  ASSUME NEW c \in 0..(CounterMod - 1), NEW n \in Nat, NEW k \in Nat, n + k <= AllocSize
  PROVE  SlotAfter(WrapAdd(c, n, CounterMod), k) = SlotAfter(c, n + k)
<1> DEFINE w == WrapAdd(c, n, CounterMod)
<1>1. w \in 0..(CounterMod - 1) /\ {n, k, n + k} \subseteq 0..AllocSize
  BY DEF WrapAdd
<1>2. SlotOf(c) \in Slots /\ SlotOf(w) = Round(SlotOf(c), n)
  BY <1>1, SlotAfterIsRound DEF SlotAfter
<1> HIDE DEF w
<1>3. SlotAfter(w, k) = Round(SlotOf(w), k) /\ SlotAfter(c, n + k) = Round(SlotOf(c), n + k)
  BY <1>1, SlotAfterIsRound
<1> QED
  BY <1>2, <1>3 DEF Round, Slots, w

(* Head is as far ahead of the k-th slot from Tail as the buffer is full.  *)
LEMMA DistanceFromHead ==
  ASSUME Counters, RingBufAvailable <= AllocSize, NEW k \in 0..(AllocSize - 1)
  PROVE  Distance(HeadPos, SlotAfter(TailPos, k)) =
           IF k < RingBufAvailable THEN k + AllocSize - RingBufAvailable
                                   ELSE k - RingBufAvailable
<1>1. RingBufAvailable \in 0..AllocSize
  BY DEF Counters, RingBufAvailable, WrapSub
<1>2. HeadPos = WrapAdd(TailPos, RingBufAvailable, CounterMod)
  BY DEF Counters, RingBufAvailable, WrapSub, WrapAdd
<1>3. /\ SlotOf(HeadPos) = Round(SlotOf(TailPos), RingBufAvailable)
      /\ SlotOf(TailPos) \in Slots
      /\ SlotAfter(TailPos, k) = Round(SlotOf(TailPos), k)
  BY <1>1, <1>2, SlotAfterIsRound DEF SlotAfter, Counters
<1> QED
  BY <1>1, <1>3 DEF Distance, Round, Slots

-----------------------------------------------------------------------------
(* Sequences as functions. *)

LEMMA ContentsType ==
  ASSUME Consistent
  PROVE  /\ RingBufAvailable \in 0..Size /\ Size \in {0, AllocSize}
         /\ Contents \in [1..RingBufAvailable -> Byte]
         /\ Len(Contents) = RingBufAvailable
<1>1. RingBufAvailable \in 0..Size /\ Size \in {0, AllocSize} /\ Counters
  BY ConsistentFacts DEF Counters
<1>2. ASSUME NEW j \in 1..RingBufAvailable
      PROVE  Buffer[SlotAfter(TailPos, j - 1)] \in Byte
  <2>1. SlotAfter(TailPos, j - 1) \in Slots
    BY <1>1, SlotAfterIsRound DEF Round, Counters, Slots
  <2> QED
    BY <2>1 DEF Consistent, TypeOK
<1>3. Contents \in [1..RingBufAvailable -> Byte]
  BY <1>2 DEF Contents
<1> QED
  BY <1>1, <1>3

-----------------------------------------------------------------------------
(* A write appends the prefix of the data that fits. *)
LEMMA WriteIsPut ==
  ASSUME Consistent, NEW data \in Transfers, RingBufWrite(data)
  PROVE  Fifo!Put(data)
<1> DEFINE n == Lesser(Len(data), RingBufSpace)
           a == RingBufAvailable
<1>1. /\ Counters /\ a \in 0..Size /\ Size \in {0, AllocSize} /\ Len(Contents) = a
      /\ Contents \in [1..a -> Byte] /\ RingBufSpace = Size - a
  BY ContentsType, ConsistentFacts, SpaceComplementsOccupied
<1>2. Len(data) \in 0..MaxTransfer /\ data \in [1..Len(data) -> Byte]
  BY DEF Transfers
<1>3. n \in 0..(Size - a) /\ n <= Len(data)
  <2>1. RingBufSpace \in Nat /\ Len(data) \in Nat
    BY <1>1, <1>2
  <2>2. n \in Nat /\ n <= Len(data) /\ n <= RingBufSpace
    BY <2>1, LesserBounds, Zenon
  <2> QED
    BY <1>1, <2>2
<1>4. n = Fifo!Lesser(Len(data), Size - Len(Contents))
  BY <1>1 DEF Lesser, Fifo!Lesser
<1> HIDE DEF n
<1>5. RingBufAvailable' = a + n
  BY <1>1, <1>3, HeadAdvances DEF RingBufWrite, n, Counters
<1> HIDE DEF a
<1>6. Contents' = Contents \o SubSeq(data, 1, n)
  <2> DEFINE prefix == [i \in 1..n |-> data[i]]
  <2>1. \A i \in 1..n : data[i] \in Byte /\ prefix[i] = data[i]
    BY <1>2, <1>3
  <2>2. prefix \in [1..n -> Byte]
    BY <2>1
  <2> HIDE DEF prefix
  <2>3. prefix = SubSeq(data, 1, n)
    BY <1>2, <1>3, <2>1, <2>2, PrefixIs
  <2>4. ASSUME NEW i \in 1..(a + n)
        PROVE  /\ Contents'[i] = IF i <= a THEN Contents[i] ELSE data[i - a]
               /\ Contents'[i] \in Byte
    <3>1. Size = AllocSize /\ i - 1 \in 0..(AllocSize - 1) /\ a <= AllocSize
      BY <1>1, <1>3
    <3>2. SlotAfter(TailPos, i - 1) \in Slots
      <4>1. TailPos \in 0..(CounterMod - 1) /\ i - 1 \in 0..AllocSize
        BY <1>1, <3>1 DEF Counters
      <4>2. SlotOf(TailPos) \in Slots /\ SlotAfter(TailPos, i - 1) = Round(SlotOf(TailPos), i - 1)
        BY <4>1, SlotAfterIsRound
      <4> QED
        BY <3>1, <4>2 DEF Round, Slots
    <3>3. Distance(HeadPos, SlotAfter(TailPos, i - 1)) =
            IF i - 1 < a THEN i - 1 + AllocSize - a ELSE i - 1 - a
      BY <1>1, <3>1, DistanceFromHead DEF a
    <3>4. Buffer'[SlotAfter(TailPos, i - 1)] =
            IF Distance(HeadPos, SlotAfter(TailPos, i - 1)) < n
              THEN data[Distance(HeadPos, SlotAfter(TailPos, i - 1)) + 1]
              ELSE Buffer[SlotAfter(TailPos, i - 1)]
      BY <3>2 DEF RingBufWrite, n
    <3>5. Contents'[i] = Buffer'[SlotAfter(TailPos, i - 1)]
      BY <1>5 DEF Contents, RingBufWrite
    <3>6. CASE i <= a
      <4>1. Contents[i] = Buffer[SlotAfter(TailPos, i - 1)] /\ Contents[i] \in Byte
        BY <1>1, <3>6 DEF Contents, a
      <4> QED
        BY <1>1, <1>3, <3>1, <3>3, <3>4, <3>5, <3>6, <4>1
    <3>7. CASE ~ (i <= a)
      <4>1. i - a \in 1..n /\ (i - 1 - a) + 1 = i - a
        BY <1>1, <1>3, <3>7
      <4>2. data[i - a] \in Byte
        BY <2>1, <4>1
      <4> QED
        BY <1>1, <1>3, <3>1, <3>3, <3>4, <3>5, <3>7, <4>1, <4>2
    <3> QED
      BY <3>6, <3>7
  <2>5. Contents' \in [1..(a + n) -> Byte]
    BY <1>5, <2>4 DEF Contents
  <2>6. a \in Nat /\ n \in Nat
    BY <1>1, <1>3
  <2>7. \A i \in 1..n : a + i \in 1..(a + n) /\ ~ (a + i <= a) /\ (a + i) - a = i
    BY <2>6
  <2>8. Contents' = Contents \o prefix
    <3>1. \A i \in 1..a : Contents'[i] = Contents[i]
      BY <2>4, <2>6
    <3>2. \A i \in 1..n : Contents'[a + i] = prefix[i]
      BY <2>1, <2>4, <2>6, <2>7
    <3>3. Contents \in [1..a -> Byte]
      BY <1>1
    <3>4. IsConcat(Contents', Contents, prefix)
      BY <2>2, <2>5, <2>6, <3>1, <3>2, <3>3, ConcatIs, Zenon
    <3> QED
      BY <3>4 DEF IsConcat
  <2> QED
    BY <2>3, <2>8
<1>7. written' = n /\ UNCHANGED <<Size, dest>>
  BY DEF RingBufWrite, n
<1> QED
  BY <1>4, <1>6, <1>7 DEF Fifo!Put

(* A read takes the oldest bytes. *)
LEMMA ReadIsGet ==
  ASSUME Consistent, NEW maxLen \in 0..MaxTransfer, RingBufRead(maxLen)
  PROVE  Fifo!Get(maxLen)
<1> DEFINE a == RingBufAvailable
           n == Lesser(maxLen, a)
<1>1. /\ Counters /\ a \in 0..Size /\ Size \in {0, AllocSize} /\ Len(Contents) = a
      /\ Contents \in [1..a -> Byte]
  BY ContentsType, ConsistentFacts
<1>2. n \in 0..a
  BY <1>1, LesserBounds
<1>3. dest' = [j \in 1..n |-> Buffer[SlotAfter(TailPos, j - 1)]]
      /\ TailPos' = WrapAdd(TailPos, n, CounterMod) /\ UNCHANGED <<Buffer, Size, written>>
  BY DEF RingBufRead
<1> HIDE DEF n
<1>4. RingBufAvailable' = a - n
  BY <1>1, <1>2, <1>3, TailAdvances DEF RingBufRead
<1>5. \A j \in 1..a : Contents[j] = Buffer[SlotAfter(TailPos, j - 1)]
  BY DEF Contents
<1>6. Contents' = [j \in 1..(a - n) |-> Buffer[SlotAfter(TailPos', j - 1)]]
  BY <1>3, <1>4 DEF Contents
<1> HIDE DEF a
<1>7. dest' = SubSeq(Contents, 1, n)
  <2>1. \A j \in 1..n : dest'[j] = Contents[j] /\ Contents[j] \in Byte
    BY <1>1, <1>2, <1>3, <1>5
  <2>2. dest' \in [1..n -> Byte]
    BY <1>3, <2>1
  <2>3. a \in Nat
    BY <1>1
  <2> QED
    BY <1>1, <1>2, <2>1, <2>2, <2>3, PrefixIs
<1>8. Contents' = SubSeq(Contents, n + 1, a)
  <2>1. ASSUME NEW j \in 1..(a - n)
        PROVE  Contents'[j] = Contents[n + j] /\ Contents[n + j] \in Byte
    <3>1. SlotAfter(TailPos', j - 1) = SlotAfter(TailPos, n + (j - 1))
      BY <1>1, <1>2, <1>3, SlotAfterAdvance DEF Counters
    <3> QED
      BY <1>1, <1>2, <1>5, <1>6, <3>1
  <2>2. Contents' \in [1..(a - n) -> Byte]
    BY <1>6, <2>1
  <2>3. a \in Nat
    BY <1>1
  <2> QED
    BY <1>1, <1>2, <2>1, <2>2, <2>3, RestIs
<1>9. n = Fifo!Lesser(maxLen, Len(Contents))
  BY <1>1 DEF n, a, Lesser, Fifo!Lesser
<1> QED
  BY <1>1, <1>3, <1>7, <1>8, <1>9 DEF Fifo!Get

(* A reset buffer is empty. *)
LEMMA ResetEmpties ==
  ASSUME HeadPos' = 0, TailPos' = 0
  PROVE  Contents' = << >>
<1>1. RingBufAvailable' = 0
  BY DEF RingBufAvailable, WrapSub
<1> QED
  BY <1>1 DEF Contents

(* The circular buffer is a first-in first-out queue of at most Size bytes *)
(* for every power-of-two size, counter width and transfer size: RingBuf-  *)
(* Read returns each byte once, in the order RingBufWrite stored them,     *)
(* across the wraps of the counters and of the slots.                      *)
THEOREM RingBufferIsFifo == Spec => ImplementsFifo
<1>1. RingBufInit => Fifo!Init
  <2> SUFFICES ASSUME RingBufInit PROVE Fifo!Init
    OBVIOUS
  <2>1. RingBufAvailable = 0
    BY DEF RingBufInit, RingBufAvailable, WrapSub
  <2>2. Contents = << >>
    BY <2>1 DEF Contents
  <2> QED
    BY <2>2 DEF RingBufInit, Fifo!Init
<1>2. Consistent /\ [Next]_ringVars => [Fifo!Next]_(Fifo!fifoVars)
  <2> SUFFICES ASSUME Consistent, [Next]_ringVars PROVE [Fifo!Next]_(Fifo!fifoVars)
    OBVIOUS
  <2>1. CASE \E data \in Transfers : RingBufWrite(data)
    BY <2>1, WriteIsPut DEF Fifo!Next, Transfers, Fifo!Transfers
  <2>2. CASE \E n \in 0..MaxTransfer : RingBufRead(n)
    BY <2>2, ReadIsGet DEF Fifo!Next
  <2>3. CASE RingBufPurge
    BY <2>3, ResetEmpties DEF RingBufPurge, Fifo!Next, Fifo!Clear
  <2>4. CASE RingBufFree
    BY <2>4, ResetEmpties DEF RingBufFree, Fifo!Next, Fifo!Close
  <2>5. CASE UNCHANGED ringVars
    BY <2>5 DEF ringVars, Fifo!fifoVars, Contents, RingBufAvailable
  <2> QED
    BY <2>1, <2>2, <2>3, <2>4, <2>5 DEF Next
<1> QED
  BY <1>1, <1>2, InitConsistent, NextConsistent, PTL DEF Spec, ImplementsFifo, Fifo!Spec
=============================================================================
