-------------------------- MODULE ArithmeticProofs --------------------------
(***************************************************************************)
(* Proofs about the two calculations of the driver, for every input: TLC   *)
(* evaluates CalcReadTimeoutMs for a small ULONG and Ch341CalcDivisor for  *)
(* some thousands of the three million rates the driver accepts.           *)
(***************************************************************************)
EXTENDS MCArithmetic, BaudRateProofs

-----------------------------------------------------------------------------
(* CalcReadTimeoutMs. *)

(* The saturating formula of CalcReadTimeoutMs is the capped total, so the *)
(* guarded product neither wraps nor saturates early.                      *)
LEMMA TotalTimeoutSaturates ==
  ASSUME NEW T \in SerialTimeouts, NEW numBytes \in ULONG
  PROVE  LET total == T.multiplier * numBytes + T.constant IN
         TotalTimeout(T, numBytes) = IF total > MAXULONG THEN MAXULONG ELSE total
<1>1. T.constant \in ULONG /\ T.multiplier \in ULONG
  BY DEF SerialTimeouts
<1>2. CASE T.multiplier > 0 /\ numBytes > 0
  <2>1. T.multiplier > (MAXULONG - T.constant) \div numBytes
        <=> T.multiplier * numBytes > MAXULONG - T.constant
    <3>1. MAXULONG - T.constant \in Nat /\ numBytes \in Nat \ {0} /\ T.multiplier \in Nat
      BY <1>1, <1>2, MaxUlongAssumption DEF ULONG
    <3> QED
      BY <3>1, ProductAbove
  <2>2. T.multiplier * numBytes \in Nat
    BY <1>1, <1>2 DEF ULONG
  <2> QED
    BY <1>1, <1>2, <2>1, <2>2, MaxUlongAssumption DEF TotalTimeout, ULONG
<1>3. CASE ~ (T.multiplier > 0 /\ numBytes > 0)
  <2>1. T.multiplier * numBytes = 0
    BY <1>1, <1>3 DEF ULONG
  <2> QED
    BY <1>1, <1>3, <2>1, MaxUlongAssumption DEF TotalTimeout, ULONG
<1> QED
  BY <1>2, <1>3

(* For every timeout setting and every read length, whatever the width of  *)
(* ULONG, CalcReadTimeoutMs of queue.c computes the contract's value.      *)
THEOREM CalcMatchesContract ==
  \A T \in SerialTimeouts, numBytes \in ULONG :
    CalcReadTimeoutMs(T, numBytes) = ContractTimeout(T, numBytes)
BY TotalTimeoutSaturates DEF CalcReadTimeoutMs, ContractTimeout

-----------------------------------------------------------------------------
(* Ch341CalcDivisor: how good its choice is. *)

(* How far registers are off the bit time of rate b, times a constant.     *)
Off(ps, div, b) == Distance(Factor(ps) * div * b, CH341_OSC_FREQ)

(* Rounding the quotient of n and an even y to the nearest integer d makes *)
(* d * y the multiple of y nearest to n.                                   *)
LEMMA RoundedQuotient ==
  ASSUME NEW n \in Nat, NEW y \in Nat \ {0}, NEW h \in Nat, 2 * h = y,
         NEW d, d = (n + h) \div y, NEW m \in Nat
  PROVE  d \in Nat /\ Distance(d * y, n) <= Distance(m * y, n)
<1>1. d \in Nat /\ d * y <= n + h /\ n + h < d * y + y
  BY SMT
<1>2. CASE m = d
  BY SMT, <1>1, <1>2 DEF Distance
<1>3. CASE m >= d + 1
  <2>1. m * y >= (d + 1) * y /\ (d + 1) * y = d * y + y
    BY SMT, <1>1, <1>3
  <2>2. d * y \in Nat /\ m * y \in Nat
    BY SMT, <1>1
  <2> QED
    BY SMT, <1>1, <2>1, <2>2 DEF Distance
<1>4. CASE m <= d - 1
  <2>1. m * y <= (d - 1) * y /\ (d - 1) * y = d * y - y
    BY SMT, <1>1, <1>4
  <2>2. d * y \in Nat /\ m * y \in Nat
    BY SMT, <1>1
  <2> QED
    BY SMT, <1>1, <2>1, <2>2 DEF Distance
<1> QED
  BY SMT, <1>1, <1>2, <1>3, <1>4

(* No multiple of its factor comes nearer than the rounded divisor.        *)
LEMMA DivisorIsNearest ==
  ASSUME NEW ps \in 0..3, NEW b \in Nat \ {0}, NEW m \in Nat
  PROVE  /\ Divisor(ps, b) \in Nat
         /\ Off(ps, Divisor(ps, b), b) <= Off(ps, m, b)
<1> DEFINE y == Factor(ps) * b
           h == y \div 2
           d == Divisor(ps, b)
<1>1. Factor(ps) \in Nat /\ 2 * h = y /\ y \in Nat \ {0} /\ h \in Nat
  <2>1. Factor(ps) \in {4096, 512, 64, 8} /\ 2 * h = y
    BY SMT, HalfProduct
  <2> QED
    BY SMT, <2>1
<1>2. d = (CH341_OSC_FREQ + h) \div y
  BY DEF Divisor
<1> HIDE DEF y, h, d
<1>3. d \in Nat /\ Distance(d * y, CH341_OSC_FREQ) <= Distance(m * y, CH341_OSC_FREQ)
  <2>1. CH341_OSC_FREQ \in Nat
    BY SMT DEF CH341_OSC_FREQ
  <2> QED
    BY <1>1, <1>2, <2>1, RoundedQuotient, Zenon
<1>4. ASSUME NEW k \in Nat PROVE Factor(ps) * k * b = k * y
  BY SMT, <1>1 DEF y
<1>5. Off(ps, d, b) = Distance(d * y, CH341_OSC_FREQ)
  BY <1>3, <1>4 DEF Off
<1>6. Off(ps, m, b) = Distance(m * y, CH341_OSC_FREQ)
  BY <1>4 DEF Off
<1> QED
  BY <1>3, <1>5, <1>6 DEF d

(* If a prescaler fits and the next finer one does not, the finer one      *)
(* falls short with its largest divisor.                                   *)
LEMMA TooFine ==
  ASSUME NEW ps \in 0..2, NEW b \in Nat \ {0}, Fits(ps, b), ~ Fits(ps + 1, b)
  PROVE  256 * Factor(ps + 1) * b <= CH341_OSC_FREQ
<1> DEFINE f == Factor(ps + 1) * b
<1>1. Factor(ps) = 8 * Factor(ps + 1) /\ Factor(ps + 1) \in {512, 64, 8}
  BY SMT, Factors
<1>2. 3 * Factor(ps) * b <= 2 * CH341_OSC_FREQ
  BY SMT, FitsOnlyBelow
<1>3. 3 * Factor(ps + 1) * b <= 2 * CH341_OSC_FREQ
  BY SMT, <1>1, <1>2, Factors
<1>4. ~ (2 * CH341_OSC_FREQ < 513 * Factor(ps + 1) * b)
  BY SMT, <1>3, FitsWhere
<1> QED
  BY SMT, <1>1, <1>4, Factors

(* Ch341CalcDivisor stops at the finest prescaler that fits and still      *)
(* finds, of all registers the chip has, those whose bit time comes        *)
(* nearest to the one asked for.                                           *)
LEMMA RegistersAreNearest ==
  ASSUME NEW b \in Nat \ {0}, Programmable(b), NEW ps \in 0..3, NEW div \in 2..256
  PROVE  Off(Prescaler(b), Divisor(Prescaler(b), b), b) <= Off(ps, div, b)
<1> DEFINE c == Prescaler(b)
<1> SUFFICES Off(c, Divisor(c, b), b) <= Off(ps, div, b)
  OBVIOUS
<1>1. /\ c \in 0..3 /\ Fits(c, b)
      /\ \A p \in 0..3 : p > c => ~ Fits(p, b)
  BY SMT DEF Programmable, Prescaler
<1> HIDE DEF c
<1>2. ASSUME NEW k \in {1, 8, 64, 512}, Factor(ps) = k * Factor(c)
      PROVE  Off(c, Divisor(c, b), b) <= Off(ps, div, b)
  <2>1. k * div \in Nat /\ Factor(c) * (k * div) = Factor(ps) * div
    BY SMT, <1>1, <1>2, Factors
  <2>2. Off(c, k * div, b) = Off(ps, div, b)
    BY <2>1 DEF Off
  <2> QED
    BY <1>1, <2>1, <2>2, DivisorIsNearest
<1>3. CASE ps <= c
  <2>1. \E k \in {1, 8, 64, 512} : Factor(ps) = k * Factor(c)
    <3>1. \/ ps = c
          \/ ps = 0 /\ c \in {1, 2, 3}
          \/ ps = 1 /\ c \in {2, 3}
          \/ ps = 2 /\ c = 3
      BY SMT, <1>1, <1>3
    <3>2. \/ Factor(ps) = 1 * Factor(c)
          \/ Factor(ps) = 8 * Factor(c)
          \/ Factor(ps) = 64 * Factor(c)
          \/ Factor(ps) = 512 * Factor(c)
      BY SMT, <3>1, Factors
    <3> QED
      BY SMT, <3>2
  <2> QED
    BY <1>2, <2>1
<1>4. CASE ps > c
  <2>1. c \in 0..2 /\ ~ Fits(c + 1, b)
    BY SMT, <1>1, <1>4
  <2>2. 256 * Factor(c + 1) * b <= CH341_OSC_FREQ
    BY <1>1, <2>1, TooFine
  <2>3. Factor(c) * 32 = 256 * Factor(c + 1) /\ Factor(ps) <= Factor(c + 1)
        /\ Factor(ps) \in Nat /\ Factor(c + 1) \in Nat
    BY SMT, <1>4, <2>1, Factors
  <2>4. Factor(ps) * div <= 256 * Factor(c + 1)
    BY SMT, <2>3
  <2>5. Factor(ps) * div * b <= 256 * Factor(c + 1) * b
    BY SMT, <2>3, <2>4
  <2>6. Off(c, 32, b) <= Off(ps, div, b)
    <3>1. /\ Factor(c) * 32 * b <= CH341_OSC_FREQ
          /\ Factor(ps) * div * b <= Factor(c) * 32 * b
          /\ Factor(c) * 32 * b \in Nat /\ Factor(ps) * div * b \in Nat
      BY SMT, <1>1, <2>1, <2>2, <2>3, <2>5, Factors
    <3> QED
      BY SMT, <3>1, Factors DEF Off, Distance
  <2>7. Off(c, Divisor(c, b), b) <= Off(c, 32, b)
    BY <1>1, DivisorIsNearest
  <2>8. /\ Off(c, Divisor(c, b), b) \in Int /\ Off(c, 32, b) \in Int
        /\ Off(ps, div, b) \in Int
    <3>1. Divisor(c, b) \in Nat /\ Factor(c) \in Nat
      BY <1>1, DivisorIsNearest, SMT, Factors
    <3> QED
      BY SMT, <2>3, <3>1, Factors DEF Off, Distance
  <2> QED
    BY SMT, <2>6, <2>7, <2>8
<1> QED
  BY SMT, <1>1, <1>3, <1>4

(* Trying the prescalers from 3 down and stopping at the first whose       *)
(* divisor fits is as good as trying them all: for every rate the driver   *)
(* accepts, no other registers come nearer to the bit time asked for.      *)
THEOREM NearestForEveryRate ==
  \A b \in Int : Legal(b) =>
    \A ps \in 0..3, div \in 2..256 :
      Distance(Factor(BaudRegisters(b).ps) * BaudRegisters(b).div * b, CH341_OSC_FREQ)
        <= Distance(Factor(ps) * div * b, CH341_OSC_FREQ)
<1> SUFFICES ASSUME NEW b \in Int, Legal(b), NEW ps \in 0..3, NEW div \in 2..256
             PROVE  Off(BaudRegisters(b).ps, BaudRegisters(b).div, b) <= Off(ps, div, b)
  BY DEF Off
<1>1. b \in Nat \ {0} /\ Programmable(b)
  BY SMT, LegalBounds, LegalIsProgrammable
<1> QED
  BY <1>1, RegistersAreNearest DEF BaudRegisters

-----------------------------------------------------------------------------
(* The calls that TLC makes. *)

(* The result is what the calculation computes from the input.             *)
Computed ==
  result # NotCalled =>
    \/ call \in TimeoutCalls /\ result = [ms |-> CalcReadTimeoutMs(call.timeouts, call.numBytes)]
    \/ call \in DivisorCalls /\ Programmable(call.baud) /\ result = BaudRegisters(call.baud)

LEMMA ComputedHolds == Spec => []Computed
<1>1. Init => Computed
  BY DEF Init, Computed
<1>2. Computed /\ [Next]_vars => Computed'
  BY DEF Computed, Next, CallReadTimeout, CallDivisor, vars
<1> QED
  BY <1>1, <1>2, PTL DEF Spec

(* For every ULONG width, CalcReadTimeoutMs returns what the contract asks *)
(* for, in every call.                                                     *)
THEOREM TimeoutsMatchContract == Spec => []MatchesContract
<1>1. Computed => MatchesContract
  <2> SUFFICES ASSUME Computed, result # NotCalled, call \in TimeoutCalls
               PROVE  result.ms = ContractTimeout(call.timeouts, call.numBytes)
    BY DEF MatchesContract
  <2>1. /\ call.timeouts \in SerialTimeouts /\ call.numBytes \in ULONG
        /\ call = [timeouts |-> call.timeouts, numBytes |-> call.numBytes]
    BY DEF TimeoutCalls
  <2>2. call \notin DivisorCalls
    BY <2>1 DEF DivisorCalls
  <2> QED
    BY <2>1, <2>2, CalcMatchesContract DEF Computed
<1> QED
  BY <1>1, ComputedHolds, PTL

LEMMA DivisorCallsComputed ==
  ASSUME Computed, result # NotCalled, call \in DivisorCalls
  PROVE  call.baud \in Int /\ Legal(call.baud) /\ result = BaudRegisters(call.baud)
<1>1. call = [baud |-> call.baud] /\ call \notin TimeoutCalls
  BY DEF DivisorCalls, TimeoutCalls
<1>2. Programmable(call.baud) /\ result = BaudRegisters(call.baud)
  BY <1>1 DEF Computed
<1> QED
  BY <1>2 DEF Programmable, Legal

(* Ch341CalcDivisor returns the nearest registers in every call.           *)
THEOREM ChosenBitTimeIsNearest == Spec => []NearestBitTime
<1>1. Computed => NearestBitTime
  BY DivisorCallsComputed, NearestForEveryRate DEF NearestBitTime, Error
<1> QED
  BY <1>1, ComputedHolds, PTL

(* The rate Ch341CalcDivisor returns for the context is one it would take  *)
(* as its argument, in every call but for the lowest rate.                 *)
THEOREM StoredRateStaysAccepted == Spec => []StoredRateIsAccepted
<1>1. Computed => StoredRateIsAccepted
  BY DivisorCallsComputed, StoredRateIsLegal DEF StoredRateIsAccepted
<1> QED
  BY <1>1, ComputedHolds, PTL
=============================================================================
