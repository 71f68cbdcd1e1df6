---------------------------- MODULE ReadTimeout ----------------------------
(***************************************************************************)
(* The read timeout policy of queue.c: how long EvtIoRead lets a read wait *)
(* for data, from the SERIAL_TIMEOUTS the application set.  The fields     *)
(* ReadIntervalTimeout, ReadTotalTimeoutMultiplier and                     *)
(* ReadTotalTimeoutConstant are called interval, multiplier and constant.  *)
(***************************************************************************)
EXTENDS Integers

CONSTANT MAXULONG  \* the largest ULONG, 2^32 - 1 in the code

ASSUME MaxUlongAssumption == MAXULONG \in Nat \ {0}

ULONG == 0..MAXULONG

SerialTimeouts == [interval : ULONG, multiplier : ULONG, constant : ULONG]

ImmediateRule(T) ==
  /\ T.interval = MAXULONG
  /\ T.multiplier = 0
  /\ T.constant = 0

FirstByteRule(T) ==
  /\ T.interval = MAXULONG
  /\ T.multiplier = MAXULONG
  /\ T.constant > 0
  /\ T.constant < MAXULONG

(* A wrong TotalTimeout: it saturates when the total is exactly MAXULONG's *)
(* last multiple.                                                          *)
EagerTotalTimeout(T, numBytes) ==
  IF T.multiplier > 0 /\ numBytes > 0
    THEN IF T.multiplier >= (MAXULONG - T.constant) \div numBytes
           THEN MAXULONG
           ELSE T.constant + T.multiplier * numBytes
    ELSE T.constant

(* The standard formula, saturating: the quotient is compared before the   *)
(* product is formed, so no ULONG operation overflows.                     *)
TotalTimeout(T, numBytes) ==
  IF T.multiplier > 0 /\ numBytes > 0
    THEN IF T.multiplier > (MAXULONG - T.constant) \div numBytes
           THEN MAXULONG
           ELSE T.constant + T.multiplier * numBytes
    ELSE T.constant

CalcReadTimeoutMs(T, numBytes) ==
  IF ImmediateRule(T) THEN 0
  ELSE IF FirstByteRule(T) THEN T.constant
  ELSE TotalTimeout(T, numBytes)

-----------------------------------------------------------------------------

(* What the SERIAL_TIMEOUTS contract asks for, in unbounded integers:      *)
(* multiplier * numBytes + constant, capped at the value that means the    *)
(* driver sets no timer.                                                   *)
ContractTimeout(T, numBytes) ==
  LET total == T.multiplier * numBytes + T.constant IN
  IF ImmediateRule(T) THEN 0
  ELSE IF FirstByteRule(T) THEN T.constant
  ELSE IF total > MAXULONG THEN MAXULONG ELSE total
=============================================================================
