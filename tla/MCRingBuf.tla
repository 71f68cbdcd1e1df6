----------------------------- MODULE MCRingBuf -----------------------------
(***************************************************************************)
(* Model-checking instance of RingBuf: four slots, counters that wrap at 8 *)
(* and two byte values, so every slot offset meets every counter wrap.     *)
(***************************************************************************)
EXTENDS RingBuf

MCByte == {0, 1}
=============================================================================
