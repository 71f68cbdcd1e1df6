------------------------------- MODULE Ulong -------------------------------
(***************************************************************************)
(* The arithmetic the driver does on ULONGs: 32-bit unsigned counters that *)
(* wrap.  The modulus is a parameter so that TLC can check the wrap with a *)
(* small one; the code's modulus is 2^32.                                  *)
(***************************************************************************)
EXTENDS Integers

(* Ways to get the definitions below wrong, used to test the properties:   *)
(* no clamp, and no wrap.                                                  *)
Unclamped(a, b) == a
UnwrappedAdd(a, b, modulus) == a + b

(* The min macro of ntdef.h. *)
Lesser(a, b) == IF a <= b THEN a ELSE b

(* a + b for ULONGs a and b: at most one wrap can happen. *)
WrapAdd(a, b, modulus) == IF a + b < modulus THEN a + b ELSE a + b - modulus

(* a - b for ULONGs a and b: a borrow adds the modulus. *)
WrapSub(a, b, modulus) == IF a >= b THEN a - b ELSE a - b + modulus
=============================================================================
