----------------------------- MODULE MCDevice -----------------------------
(***************************************************************************)
(* Model-checking instances of WritePath: one adapter or two, the port     *)
(* names COM3 and COM10.                                                   *)
(***************************************************************************)
EXTENDS DeviceClaims

CONSTANTS a, b, v1
=============================================================================
