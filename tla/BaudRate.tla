------------------------------ MODULE BaudRate ------------------------------
(***************************************************************************)
(* Ch341CalcDivisor: the prescaler and divisor that approximate a baud     *)
(* rate, and the rate they really give.                                    *)
(*                                                                         *)
(* The code computes in ULONGs.  No product it computes for a legal rate   *)
(* reaches 2^32 (theorem ProductsFitUlong of ArithmeticProofs), so the     *)
(* plain integers used here agree with it.                                 *)
(***************************************************************************)
EXTENDS Integers

CH341_OSC_FREQ == 48000000
CH341_BAUD_MIN == 46
CH341_BAUD_MAX == 3000000
CH341_BAUD_DEFAULT == 9600

Legal(baud) == baud \in CH341_BAUD_MIN..CH341_BAUD_MAX

(* CH341_PRESCALER_FACTOR, 1 << (12 - 3 * ps). *)
Factor(ps) == <<4096, 512, 64, 8>>[ps + 1]

(* A wrong Divisor: the quotient is truncated, not rounded. *)
TruncatedDivisor(ps, baud) == CH341_OSC_FREQ \div (Factor(ps) * baud)

(* CH341_OSC_FREQ / (factor * baud), rounded to the nearest integer. *)
Divisor(ps, baud) ==
  (CH341_OSC_FREQ + ((Factor(ps) * baud) \div 2)) \div (Factor(ps) * baud)

Fits(ps, baud) == Divisor(ps, baud) \in 2..256

(* The first of 3, 2, 1, 0 whose divisor fits, or -1: the loop stops there *)
(* and never looks at the prescalers after it.                             *)
Prescaler(baud) ==
  IF Fits(3, baud) THEN 3
  ELSE IF Fits(2, baud) THEN 2
  ELSE IF Fits(1, baud) THEN 1
  ELSE IF Fits(0, baud) THEN 0 ELSE -1

(* Ch341CalcDivisor succeeds. *)
Programmable(baud) == Legal(baud) /\ Prescaler(baud) >= 0

(* What it stores through PrescalerReg and DivisorReg: the flag bit of the *)
(* one and the complement of the other are encodings of ps and div.        *)
BaudRegisters(baud) ==
  [ps |-> Prescaler(baud), div |-> Divisor(Prescaler(baud), baud)]

(* A wrong ActualBaud: the prescaler is forgotten. *)
ActualBaudUnscaled(registers) == CH341_OSC_FREQ \div registers.div

(* What it stores through ActualBaud. *)
ActualBaud(registers) == CH341_OSC_FREQ \div (Factor(registers.ps) * registers.div)
=============================================================================
