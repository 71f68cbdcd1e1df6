---------------------------- MODULE MCChipConfig ----------------------------
(***************************************************************************)
(* Model-checking instances of ChipConfig.                                 *)
(***************************************************************************)
EXTENDS ChipConfig

CONSTANTS t1, pnp

Line7E15 == [size |-> 7, parity |-> "even", stop |-> "1.5"]
TooWide  == [size |-> 9, parity |-> "none", stop |-> "1"]
SomeLineControls == {Line8N1, Line7E15, TooWide}

RtsCtsFlow == [rts |-> "handshake", cts |-> TRUE]
SomeHandFlows == {NoFlow, RtsCtsFlow}

(* Rates of SettableBaud, the highest legal one, and one that is rejected; *)
(* 110 is left out, as it does not keep its registers (BaudAsAsked).       *)
ListedRates == {45, 300, 115200, CH341_BAUD_MAX}
=============================================================================
