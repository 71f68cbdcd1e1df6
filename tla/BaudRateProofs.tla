--------------------------- MODULE BaudRateProofs ---------------------------
(***************************************************************************)
(* Proofs about Ch341CalcDivisor for every rate: which rates it accepts,   *)
(* that none of its products wraps, and what happens to a rate that is     *)
(* stored rounded down and programmed again.                               *)
(***************************************************************************)
EXTENDS BaudRate, TLAPS

-----------------------------------------------------------------------------
(* Quotients. *)

(* A quotient that bounds a factor bounds the product, and conversely.     *)
LEMMA ProductAbove ==
  ASSUME NEW a \in Nat, NEW n \in Nat \ {0}, NEW m \in Nat
  PROVE  m > a \div n <=> m * n > a
<1> DEFINE q == a \div n
<1>1. q \in Nat /\ q * n <= a /\ a < (q + 1) * n
  BY SMT
<1>2. CASE m > q
  <2>1. m >= q + 1
    BY <1>1, <1>2, SMT
  <2>2. m * n >= (q + 1) * n
    BY <1>1, <2>1, SMT
  <2> QED
    BY <1>1, <1>2, <2>2, SMT
<1>3. CASE m <= q
  <2>1. m * n <= q * n
    BY <1>1, <1>3, SMT
  <2> QED
    BY <1>1, <1>3, <2>1, SMT
<1> QED
  BY <1>1, <1>2, <1>3, SMT

(* A quotient lies between lo and hi if the dividend does, scaled.         *)
LEMMA QuotientWithin ==
  ASSUME NEW n \in Nat, NEW y \in Nat \ {0}, NEW lo \in Nat, NEW hi \in Nat,
         lo * y <= n, n < (hi + 1) * y
  PROVE  n \div y \in Nat /\ lo <= n \div y /\ n \div y <= hi
<1> DEFINE q == n \div y
<1>1. q \in Nat /\ q * y <= n /\ n < (q + 1) * y
  BY SMT
<1> HIDE DEF q
<1>2. ~ (q + 1 <= lo)
  <2> SUFFICES ASSUME q + 1 <= lo PROVE FALSE
    BY SMT
  <2>1. (q + 1) * y <= lo * y
    BY SMT, <1>1
  <2> QED
    BY SMT, <1>1, <2>1
<1>3. ~ (q >= hi + 1)
  <2> SUFFICES ASSUME q >= hi + 1 PROVE FALSE
    BY SMT
  <2>1. q * y >= (hi + 1) * y
    BY SMT, <1>1
  <2> QED
    BY SMT, <1>1, <2>1
<1> QED
  BY SMT, <1>1, <1>2, <1>3 DEF q

LEMMA QuotientProduct ==
  ASSUME NEW x \in Nat, NEW y \in Nat \ {0}, x \div y >= 2
  PROVE  2 * y <= x
<1> DEFINE q == x \div y
<1>1. q \in Int /\ q * y <= x /\ q >= 2
  BY SMT
<1> HIDE DEF q
<1>2. 2 * y <= q * y
  BY SMT, <1>1
<1> QED
  BY SMT, <1>1, <1>2

-----------------------------------------------------------------------------
(* Ch341CalcDivisor: which rates it accepts. *)

LEMMA Factors ==
  /\ Factor(0) = 4096 /\ Factor(1) = 512 /\ Factor(2) = 64 /\ Factor(3) = 8
  /\ CH341_OSC_FREQ = 48000000
BY SMT DEF Factor, CH341_OSC_FREQ

(* The legal rates as inequalities: the provers cannot count a range as    *)
(* wide as theirs.                                                         *)
LEMMA LegalBounds ==
  /\ CH341_BAUD_MIN = 46 /\ CH341_BAUD_MAX = 3000000
  /\ \A b \in Int : Legal(b) <=> 46 <= b /\ b <= 3000000
<1>1. CH341_BAUD_MIN = 46 /\ CH341_BAUD_MAX = 3000000
  BY SMT DEF CH341_BAUD_MIN, CH341_BAUD_MAX
<1>2. \A b \in Int : Legal(b) <=> CH341_BAUD_MIN <= b /\ b <= CH341_BAUD_MAX
  <2>1. CH341_BAUD_MIN \in Int /\ CH341_BAUD_MAX \in Int
    BY SMT, <1>1
  <2> QED
    BY SMT, <2>1 DEF Legal
<1> QED
  BY SMT, <1>1, <1>2

(* The factors are even, so that half a product is exact. *)
LEMMA HalfProduct ==
  ASSUME NEW ps \in 0..3, NEW baud \in Nat
  PROVE  /\ Factor(ps) \in {4096, 512, 64, 8}
         /\ 2 * ((Factor(ps) * baud) \div 2) = Factor(ps) * baud
<1>1. Factor(0) = 4096 /\ Factor(1) = 512 /\ Factor(2) = 64 /\ Factor(3) = 8
  BY SMT DEF Factor
<1>2. ps = 0 \/ ps = 1 \/ ps = 2 \/ ps = 3
  BY SMT
<1> QED
  BY SMT, <1>1, <1>2

(* A prescaler fits wherever the exact quotient lies between 1.5 and       *)
(* 256.5.                                                                  *)
LEMMA FitsWhere ==
  ASSUME NEW ps \in 0..3, NEW baud \in Nat \ {0},
         3 * Factor(ps) * baud <= 2 * CH341_OSC_FREQ,
         2 * CH341_OSC_FREQ < 513 * Factor(ps) * baud
  PROVE  Fits(ps, baud)
<1> DEFINE y == Factor(ps) * baud
           x == CH341_OSC_FREQ + (y \div 2)
<1>1. Factor(ps) \in {4096, 512, 64, 8} /\ 2 * (y \div 2) = y
  BY SMT, HalfProduct
<1>2. y \in Nat \ {0}
  BY SMT, <1>1
<1>3. x \in Nat /\ 2 * y <= x /\ x < 257 * y
  BY SMT, <1>1, <1>2 DEF CH341_OSC_FREQ
<1> HIDE DEF x, y
<1>4. x \div y \in 2..256
  BY SMT, <1>2, <1>3, QuotientWithin
<1> QED
  BY SMT, <1>4 DEF Fits, Divisor, x, y

(* Every rate from CH341_BAUD_MIN to CH341_BAUD_MAX has a prescaler whose  *)
(* divisor fits: the final return of Ch341CalcDivisor is never reached and *)
(* a rate is refused only for being out of range.                          *)
THEOREM LegalIsProgrammable == \A b \in Int : Programmable(b) <=> Legal(b)
<1> SUFFICES ASSUME NEW b \in Int, Legal(b) PROVE Prescaler(b) >= 0
  BY SMT DEF Programmable
<1>1. /\ b \in Nat \ {0} /\ 46 <= b /\ b <= 3000000
      /\ Factor(0) = 4096 /\ Factor(1) = 512 /\ Factor(2) = 64 /\ Factor(3) = 8
  BY SMT, Factors, LegalBounds
<1>2. CASE b >= 23392
  <2>1. Fits(3, b)
    BY SMT, <1>1, <1>2, FitsWhere DEF CH341_OSC_FREQ
  <2> QED
    BY SMT, <2>1 DEF Prescaler
<1>3. CASE 2924 <= b /\ b < 23392
  <2>1. Fits(2, b)
    BY SMT, <1>1, <1>3, FitsWhere DEF CH341_OSC_FREQ
  <2> QED
    BY SMT, <2>1 DEF Prescaler
<1>4. CASE 366 <= b /\ b < 2924
  <2>1. Fits(1, b)
    BY SMT, <1>1, <1>4, FitsWhere DEF CH341_OSC_FREQ
  <2> QED
    BY SMT, <2>1 DEF Prescaler
<1>5. CASE b < 366
  <2>1. Fits(0, b)
    BY SMT, <1>1, <1>5, FitsWhere DEF CH341_OSC_FREQ
  <2> QED
    BY SMT, <2>1 DEF Prescaler
<1> QED
  BY SMT, <1>1, <1>2, <1>3, <1>4, <1>5

(* A divisor is at least 2, so a prescaler that fits has a small product. *)
LEMMA FitsOnlyBelow ==
  ASSUME NEW ps \in 0..3, NEW b \in Nat \ {0}, Fits(ps, b)
  PROVE  3 * Factor(ps) * b <= 2 * CH341_OSC_FREQ
<1> DEFINE y == Factor(ps) * b
           x == CH341_OSC_FREQ + (y \div 2)
<1>1. Factor(ps) \in {4096, 512, 64, 8} /\ 2 * (y \div 2) = y
  BY SMT, HalfProduct
<1>2. y \in Nat \ {0} /\ x \in Nat
  BY SMT, <1>1 DEF CH341_OSC_FREQ
<1>3. x \div y >= 2
  BY SMT DEF Fits, Divisor
<1> HIDE DEF x
<1>4. 2 * y <= x
  BY SMT, <1>2, <1>3, QuotientProduct
<1> QED
  BY SMT, <1>1, <1>2, <1>4 DEF x, CH341_OSC_FREQ

(* Ch341CalcDivisor never wraps a ULONG: for a legal rate, the products    *)
(* and sums it computes, with the prescaler it settles on and with those   *)
(* it tried before, stay below 2^32.  Prescaler 0 alone would wrap for     *)
(* rates above a million.                                                  *)
THEOREM ProductsFitUlong ==
  \A b \in Int : Legal(b) =>
    \A ps \in Prescaler(b)..3 : CH341_OSC_FREQ + Factor(ps) * b < 4294967296
<1> SUFFICES ASSUME NEW b \in Int, Legal(b), NEW ps \in Prescaler(b)..3
             PROVE  CH341_OSC_FREQ + Factor(ps) * b < 4294967296
  BY SMT
<1> DEFINE chosen == Prescaler(b)
<1>1. b \in Nat \ {0}
  BY SMT, LegalBounds
<1>2. chosen \in 0..3 /\ Fits(chosen, b)
  <2>1. Programmable(b)
    BY LegalIsProgrammable
  <2>2. chosen >= 0
    BY <2>1 DEF Programmable
  <2> QED
    BY SMT, <2>2 DEF Prescaler
<1> HIDE DEF chosen
<1>3. ps \in 0..3 /\ chosen <= ps
  BY SMT, <1>2 DEF chosen
<1>4. Factor(ps) \in Nat /\ Factor(chosen) \in Nat /\ Factor(ps) <= Factor(chosen)
  BY SMT, <1>2, <1>3, Factors
<1>5. Factor(ps) * b <= Factor(chosen) * b
  BY SMT, <1>1, <1>4
<1>6. 3 * Factor(chosen) * b <= 2 * CH341_OSC_FREQ
  BY SMT, <1>1, <1>2, FitsOnlyBelow
<1> QED
  BY SMT, <1>1, <1>4, <1>5, <1>6 DEF CH341_OSC_FREQ

(* Above the lowest rate, prescaler 0 needs no divisor above 249, which    *)
(* would give CH341_BAUD_MIN or less.                                      *)
LEMMA CoarseDivisor ==
  ASSUME NEW b \in Nat, 47 <= b
  PROVE  Divisor(0, b) <= 249
<1> DEFINE y == 4096 * b
<1>1. y \in Nat \ {0} /\ (Factor(0) * b) \div 2 = 2048 * b /\ Factor(0) * b = y
  BY SMT, Factors
<1>2. Divisor(0, b) = (48000000 + 2048 * b) \div y
  BY <1>1, Factors DEF Divisor
<1>3. 48000000 + 2048 * b < 250 * y /\ 0 * y <= 48000000 + 2048 * b
  BY SMT
<1> HIDE DEF y
<1>4. (48000000 + 2048 * b) \div y <= 249
  BY SMT, <1>1, <1>3, QuotientWithin
<1> QED
  BY SMT, <1>2, <1>4

(* The rate that is stored, rounded down, is accepted when the chip is     *)
(* initialised with it again, for every rate but the lowest; and it is not *)
(* the lowest either, so that no number of power cycles ends there.        *)
THEOREM StoredRateIsLegal ==
  \A b \in Int : Legal(b) /\ b # CH341_BAUD_MIN =>
    LET stored == ActualBaud(BaudRegisters(b)) IN
    stored \in Int /\ Programmable(stored) /\ stored # CH341_BAUD_MIN
<1> SUFFICES ASSUME NEW b \in Int, Legal(b), b # CH341_BAUD_MIN
             PROVE  LET stored == ActualBaud(BaudRegisters(b)) IN
                    stored \in Int /\ Programmable(stored) /\ stored # CH341_BAUD_MIN
  OBVIOUS
<1> DEFINE c == Prescaler(b)
           d == Divisor(c, b)
           y == Factor(c) * d
<1>1. b \in Nat /\ 47 <= b /\ Programmable(b)
  BY SMT, LegalBounds, LegalIsProgrammable
<1>2. c \in 0..3 /\ Fits(c, b)
  BY SMT, <1>1 DEF Programmable, Prescaler
<1>3. ActualBaud(BaudRegisters(b)) = 48000000 \div y
  BY Factors DEF ActualBaud, BaudRegisters
<1> HIDE DEF c
<1>4. d \in 2..256 /\ (c = 0 => d <= 249)
  BY <1>1, <1>2, CoarseDivisor DEF Fits
<1> HIDE DEF d
<1>5. y \in Nat /\ 16 <= y /\ y <= 1019904
  <2>1. c = 0 \/ c = 1 \/ c = 2 \/ c = 3
    BY SMT, <1>2
  <2> QED
    BY SMT, <1>4, <2>1, Factors
<1> HIDE DEF y
<1>6. 48000000 \div y \in Nat /\ 47 <= 48000000 \div y /\ 48000000 \div y <= 3000000
  BY SMT, <1>5, QuotientWithin
<1> QED
  BY SMT, <1>3, <1>6, LegalBounds, LegalIsProgrammable

-----------------------------------------------------------------------------
(* What becomes of a rate that is programmed a second time.                *)

(* A divisor lies between lo and hi if the rate is in the right range.     *)
LEMMA DivisorWithin ==
  ASSUME NEW ps \in 0..3, NEW b \in Nat \ {0}, NEW lo \in Nat, NEW hi \in Nat,
         (2 * lo) * (Factor(ps) * b) <= 2 * CH341_OSC_FREQ + Factor(ps) * b,
         2 * CH341_OSC_FREQ + Factor(ps) * b < (2 * (hi + 1)) * (Factor(ps) * b)
  PROVE  Divisor(ps, b) \in Nat /\ lo <= Divisor(ps, b) /\ Divisor(ps, b) <= hi
<1> DEFINE y == Factor(ps) * b
           n == CH341_OSC_FREQ + (y \div 2)
<1>1. Factor(ps) \in {4096, 512, 64, 8} /\ 2 * (y \div 2) = y
  BY SMT, HalfProduct
<1>2. y \in Nat \ {0}
  BY SMT, <1>1
<1>3. n \in Nat /\ 2 * n = 2 * CH341_OSC_FREQ + y
  BY SMT, <1>1, <1>2 DEF CH341_OSC_FREQ
<1>4. Divisor(ps, b) = n \div y
  BY DEF Divisor
<1>5. (2 * lo) * y <= 2 * n /\ 2 * n < (2 * (hi + 1)) * y
  BY <1>3
<1> HIDE DEF y, n
<1>6. lo * y <= n /\ n < (hi + 1) * y
  <2>1. lo * y \in Nat /\ (hi + 1) * y \in Nat
    BY SMT, <1>2
  <2>2. (2 * lo) * y = 2 * (lo * y) /\ (2 * (hi + 1)) * y = 2 * ((hi + 1) * y)
    BY SMT, <1>2
  <2> QED
    BY SMT, <1>3, <1>5, <2>1, <2>2
<1> QED
  BY <1>2, <1>3, <1>4, <1>6, QuotientWithin, Zenon

(* A prescaler whose divisor would be above 256 does not fit. *)
LEMMA FitsNotBelow ==
  ASSUME NEW ps \in 0..3, NEW b \in Nat \ {0}, 513 * Factor(ps) * b <= 2 * CH341_OSC_FREQ
  PROVE  ~ Fits(ps, b)
<1> DEFINE y == Factor(ps) * b
           n == CH341_OSC_FREQ + (y \div 2)
<1>1. Factor(ps) \in {4096, 512, 64, 8} /\ 2 * (y \div 2) = y
  BY SMT, HalfProduct
<1>2. y \in Nat \ {0}
  BY SMT, <1>1
<1>3. n \in Nat /\ 257 * y <= n
  BY SMT, <1>1, <1>2 DEF CH341_OSC_FREQ
<1>4. Divisor(ps, b) = n \div y
  BY DEF Divisor
<1> HIDE DEF y, n
<1>5. n \div y >= 257
  BY SMT, <1>2, <1>3
<1> QED
  BY SMT, <1>4, <1>5 DEF Fits

(* Rounded down, a rate that is at least twice its divisor still rounds to *)
(* that divisor; and a divisor of at least 33 keeps the rate below what a  *)
(* finer prescaler can give.                                               *)
LEMMA RegistersAgain ==
  ASSUME NEW ps \in 0..3, NEW d \in 2..256, NEW a,
         a = ActualBaud([ps |-> ps, div |-> d]),
         (2 * d) * (Factor(ps) * d) <= CH341_OSC_FREQ,
         ps = 3 \/ 33 <= d
  PROVE  BaudRegisters(a) = [ps |-> ps, div |-> d]
<1> DEFINE f == Factor(ps)
           z == f * d
           y == f * a
<1>1. f \in {4096, 512, 64, 8} /\ CH341_OSC_FREQ \in Nat
  BY SMT, HalfProduct DEF CH341_OSC_FREQ
<1>2. z \in Nat \ {0} /\ a = CH341_OSC_FREQ \div z
  <2>1. a = CH341_OSC_FREQ \div z
    BY DEF ActualBaud
  <2>2. z \in Nat \ {0}
    <3> HIDE DEF f
    <3> QED
      BY SMT, <1>1
  <2> QED
    BY <2>1, <2>2
<1>3. a \in Nat /\ a * z <= CH341_OSC_FREQ /\ CH341_OSC_FREQ < (a + 1) * z
  <2> HIDE DEF z
  <2> QED
    BY SMT, <1>1, <1>2
<1>4. 2 * d <= a
  <2>1. (2 * d) * z <= CH341_OSC_FREQ
    OBVIOUS
  <2>2. d \in Nat
    OBVIOUS
  <2> HIDE DEF z
  <2>3. ASSUME a + 1 <= 2 * d PROVE (a + 1) * z <= (2 * d) * z
    BY SMT, <1>2, <1>3, <2>2, <2>3
  <2>4. (a + 1) * z \in Nat /\ (2 * d) * z \in Nat
    BY SMT, <1>2, <1>3, <2>2
  <2> QED
    BY SMT, <1>1, <1>3, <2>1, <2>2, <2>3, <2>4
<1>5. a \in Nat \ {0} /\ d \in Nat
  BY SMT, <1>3, <1>4
<1>6. d * y = a * z /\ (a + 1) * z = a * z + z /\ 2 * z <= y /\ y \in Nat
  BY SMT, <1>1, <1>4, <1>5
<1> HIDE DEF f, z, y
<1>7. Divisor(ps, a) = d
  <2>1. d * y \in Nat /\ (2 * d) * y = 2 * (d * y) /\ (2 * (d + 1)) * y = 2 * (d * y) + 2 * y
    BY SMT, <1>5, <1>6
  <2>2. /\ (2 * d) * y <= 2 * CH341_OSC_FREQ + y
        /\ 2 * CH341_OSC_FREQ + y < (2 * (d + 1)) * y
    BY SMT, <1>1, <1>2, <1>3, <1>6, <2>1
  <2>3. Divisor(ps, a) \in Nat /\ d <= Divisor(ps, a) /\ Divisor(ps, a) <= d
    BY <1>5, <2>2, DivisorWithin, Zenon DEF y, f
  <2> QED
    BY SMT, <1>5, <2>3
<1>8. ASSUME NEW p \in 0..3, p > ps PROVE ~ Fits(p, a)
  <2>1. Factor(p) \in Nat /\ 8 * Factor(p) <= f /\ 33 <= d
    <3>1. \/ ps = 0 /\ p \in {1, 2, 3}
          \/ ps = 1 /\ p \in {2, 3}
          \/ ps = 2 /\ p = 3
      BY SMT, <1>8
    <3> QED
      BY SMT, <3>1, Factors DEF f
  <2>2. 8 * (Factor(p) * a) <= y /\ 33 * y <= a * z
    <3>1. y = f * a /\ d * y = a * z
      BY <1>6 DEF y
    <3> QED
      BY SMT, <1>1, <1>5, <1>6, <2>1, <3>1
  <2>3. 513 * Factor(p) * a <= 2 * CH341_OSC_FREQ
    <3>1. Factor(p) * a \in Nat /\ 513 * Factor(p) * a = 513 * (Factor(p) * a)
      BY SMT, <1>5, <2>1
    <3> QED
      BY SMT, <1>1, <1>3, <1>6, <2>2, <3>1
  <2> QED
    BY <1>5, <2>3, FitsNotBelow
<1>9. Fits(ps, a)
  BY SMT, <1>7 DEF Fits
<1>10. Prescaler(a) = ps
  BY SMT, <1>8, <1>9 DEF Prescaler
<1> QED
  BY <1>7, <1>10 DEF BaudRegisters

(* The rate stored for b, rounded down, has the registers of b.            *)
KeepsRegisters(b) == BaudRegisters(ActualBaud(BaudRegisters(b))) = BaudRegisters(b)

(* Rates of which this holds.  Among the lowest rates, which are as coarse *)
(* as the divisors, it holds of some and not of others; in the gaps below  *)
(* 434, 2924 and 23392 the stored rate is often within reach of a finer    *)
(* prescaler.                                                              *)
Repeatable(b) ==
  \/ 154 <= b /\ b <= 360
  \/ 434 <= b /\ b <= 2884
  \/ 2924 <= b /\ b <= 23076
  \/ 23392 <= b /\ b <= 3000000

(* Ch341SetBaudRate stores the rate rounded down and Ch341InitHardware     *)
(* computes the registers from what is stored.  For these rates, of the    *)
(* legal ones almost all, they are the registers of the rate that the      *)
(* application asked for.                                                  *)
THEOREM StoredRateKeepsRegisters ==
  \A b \in Nat : Repeatable(b) => KeepsRegisters(b)
<1> SUFFICES ASSUME NEW b \in Nat, Repeatable(b)
             PROVE  KeepsRegisters(b)
  OBVIOUS
<1> DEFINE ps == Prescaler(b)
           d == Divisor(ps, b)
<1>1. /\ ps \in 0..3 /\ d \in 2..256 /\ (ps = 3 \/ 33 <= d)
      /\ (2 * d) * (Factor(ps) * d) <= CH341_OSC_FREQ
  <2>1. CASE 23392 <= b /\ b <= 3000000
    <3>1. Fits(3, b)
      BY SMT, <2>1, FitsWhere, Factors
    <3>2. ps = 3 /\ d \in 2..256
      BY <3>1 DEF Fits, Prescaler
    <3> HIDE DEF ps, d
    <3> QED
      BY SMT, <3>2, Factors
  <2>2. CASE 2924 <= b /\ b <= 23076
    <3>1. Fits(2, b) /\ ~ Fits(3, b)
      BY SMT, <2>2, FitsWhere, FitsNotBelow, Factors
    <3>2. ps = 2 /\ d \in 2..256
      BY <3>1 DEF Fits, Prescaler
    <3>3. 33 <= d
      <4>1. /\ (2 * 33) * (Factor(2) * b) <= 2 * CH341_OSC_FREQ + Factor(2) * b
            /\ 2 * CH341_OSC_FREQ + Factor(2) * b < (2 * (256 + 1)) * (Factor(2) * b)
        BY SMT, <2>2, Factors
      <4>2. 2 \in 0..3 /\ 33 \in Nat /\ 256 \in Nat /\ b \in Nat \ {0}
        BY SMT, <2>2
      <4> QED
        BY <3>2, <4>1, <4>2, DivisorWithin, Zenon
    <3> HIDE DEF ps, d
    <3> QED
      BY SMT, <3>2, <3>3, Factors
  <2>3. CASE 434 <= b /\ b <= 2884
    <3>1. Fits(1, b) /\ ~ Fits(2, b) /\ ~ Fits(3, b)
      BY SMT, <2>3, FitsWhere, FitsNotBelow, Factors
    <3>2. ps = 1 /\ d \in 2..256
      BY <3>1 DEF Fits, Prescaler
    <3>3. 33 <= d /\ d <= 216
      <4>1. /\ (2 * 33) * (Factor(1) * b) <= 2 * CH341_OSC_FREQ + Factor(1) * b
            /\ 2 * CH341_OSC_FREQ + Factor(1) * b < (2 * (216 + 1)) * (Factor(1) * b)
        BY SMT, <2>3, Factors
      <4>2. 1 \in 0..3 /\ 33 \in Nat /\ 216 \in Nat /\ b \in Nat \ {0}
        BY SMT, <2>3
      <4>3. 33 <= Divisor(1, b) /\ Divisor(1, b) <= 216
        BY <4>1, <4>2, DivisorWithin, Zenon
      <4> QED
        BY <3>2, <4>3
    <3> HIDE DEF ps, d
    <3>4. d * d <= 216 * 216
      BY SMT, <3>2, <3>3
    <3>5. (2 * d) * (512 * d) = 1024 * (d * d)
      BY SMT, <3>2
    <3> QED
      BY SMT, <3>2, <3>3, <3>4, <3>5, Factors
  <2>4. CASE 154 <= b /\ b <= 360
    <3>1. Fits(0, b) /\ ~ Fits(1, b) /\ ~ Fits(2, b) /\ ~ Fits(3, b)
      BY SMT, <2>4, FitsWhere, FitsNotBelow, Factors
    <3>2. ps = 0 /\ d \in 2..256
      BY <3>1 DEF Fits, Prescaler
    <3>3. 33 <= d /\ d <= 76
      <4>1. /\ (2 * 33) * (Factor(0) * b) <= 2 * CH341_OSC_FREQ + Factor(0) * b
            /\ 2 * CH341_OSC_FREQ + Factor(0) * b < (2 * (76 + 1)) * (Factor(0) * b)
        BY SMT, <2>4, Factors
      <4>2. 0 \in 0..3 /\ 33 \in Nat /\ 76 \in Nat /\ b \in Nat \ {0}
        BY SMT, <2>4
      <4>3. 33 <= Divisor(0, b) /\ Divisor(0, b) <= 76
        BY <4>1, <4>2, DivisorWithin, Zenon
      <4> QED
        BY <3>2, <4>3
    <3> HIDE DEF ps, d
    <3>4. d * d <= 76 * 76
      BY SMT, <3>2, <3>3
    <3>5. (2 * d) * (4096 * d) = 8192 * (d * d)
      BY SMT, <3>2
    <3> QED
      BY SMT, <3>2, <3>3, <3>4, <3>5, Factors
  <2> QED
    BY <2>1, <2>2, <2>3, <2>4 DEF Repeatable
<1>2. BaudRegisters(b) = [ps |-> ps, div |-> d]
  BY DEF BaudRegisters
<1> HIDE DEF ps, d
<1> QED
  BY <1>1, <1>2, RegistersAgain DEF KeepsRegisters
=============================================================================
