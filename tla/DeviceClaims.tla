--------------------------- MODULE DeviceClaims ---------------------------
(***************************************************************************)
(* What a comment of the driver says of its devices and the code does not  *)
(* keep.                                                                   *)
(***************************************************************************)
EXTENDS WritePath

(* serial.c:611, "Ignore - we use a fixed ring buffer", the size of which  *)
(* GET_PROPERTIES reports (serial.c:588): a working device has its buffer. *)
WorkingDeviceHasBuffer == \A d \in Devices : stage[d] = "D0" => buffer[d] # NULL
=============================================================================
