----------------------------- MODULE ChipConfig -----------------------------
(***************************************************************************)
(* The serial configuration exists twice: in the registers of the CH341    *)
(* and in DEVICE_CONTEXT.  The IOCTLs that change it and Ch341InitHardware *)
(* write a register with a synchronous control transfer and then store the *)
(* new value in the context.  They take no lock, and the default queue     *)
(* dispatches IOCTLs in parallel, so those of an application with several  *)
(* overlapped requests interleave: Setters are the threads that serve it,  *)
(* one for an application that waits for each answer.                      *)
(***************************************************************************)
EXTENDS BaudRate, Sequences

CONSTANTS
  Setters,       \* threads running SerialHandleIoctl
  Pnp,           \* the thread running the power callbacks
  BaudRates,     \* the rates applications ask for
  LineControls,  \* the SERIAL_LINE_CONTROL values they ask for
  HandFlows      \* the SERIAL_HANDFLOW values they ask for

Parities == {"none", "odd", "even", "mark", "space"}
StopBits == {"1", "1.5", "2"}

(* RTS control is a field of two bits in FlowReplace. *)
RtsControls == {"disable", "control", "handshake", "toggle"}

ASSUME ChipAssumption ==
  /\ Pnp \notin Setters
  /\ BaudRates \subseteq Nat
  /\ \A lc \in LineControls : DOMAIN lc = {"size", "parity", "stop"}
  /\ HandFlows \subseteq [rts : RtsControls, cts : BOOLEAN]

VARIABLES
  chip,         \* the registers of the chip
  CurrentBaud, LineControl, HandFlow, DtrState, RtsState,  \* DEVICE_CONTEXT
  pc,           \* progress of each thread: idle, transfer or store
  request,      \* the register it is writing and the argument it was given
  power,        \* off, entering D0, in D0, or failed to enter it
  step,         \* the step of Ch341InitHardware that is next
  unsure,       \* history: registers whose last transfer failed
  askedBaud     \* history: the last rate SET_BAUD_RATE could program

context == <<CurrentBaud, LineControl, HandFlow, DtrState, RtsState>>
vars == <<chip, context, pc, request, power, step, unsure, askedBaud>>

Threads == Setters \cup {Pnp}

Idle == \A t \in Threads : pc[t] = "idle"

-----------------------------------------------------------------------------
(* What the routines of ch341.c make of their arguments. *)

ValidLineControl(lc) ==
  lc.size \in 5..8 /\ lc.parity \in Parities /\ lc.stop \in StopBits

(* LCR has no 1.5 stop bits. *)
Lcr(lc) == [size |-> lc.size, parity |-> lc.parity, two |-> lc.stop \in {"1.5", "2"}]

(* FlowReplace & SERIAL_RTS_HANDSHAKE tests one bit of the RTS control     *)
(* field, which SERIAL_TRANSMIT_TOGGLE has set too.                        *)
RtsCts(handflow) == handflow.rts \in {"handshake", "toggle"} /\ handflow.cts

RegisterValue(reg, arg) ==
  CASE reg = "baud" -> BaudRegisters(arg.baud)
    [] reg = "lcr" -> Lcr(arg)
    [] reg = "flow" -> [on |-> RtsCts(arg)]
    [] reg \in {"modem", "break"} -> arg

Registers == {"baud", "lcr", "modem", "flow", "break"}

(* External: what the chip powers up with.  Nothing depends on it but the  *)
(* break, which Ch341InitHardware does not set.                            *)
PoweredUpChip ==
  [reg \in Registers |-> IF reg = "break" THEN [on |-> FALSE] ELSE [unset |-> TRUE]]

Line8N1 == [size |-> 8, parity |-> "none", stop |-> "1"]
NoFlow == [rts |-> "disable", cts |-> FALSE]
NoRequest == [reg |-> "none"]

Init ==
  /\ chip = PoweredUpChip
  /\ CurrentBaud = CH341_BAUD_DEFAULT
  /\ LineControl = Line8N1
  /\ HandFlow = NoFlow
  /\ DtrState = TRUE
  /\ RtsState = TRUE
  /\ pc = [t \in Threads |-> "idle"]
  /\ request = [t \in Threads |-> NoRequest]
  /\ power = "off"
  /\ step = 1
  /\ unsure = {}
  /\ askedBaud = CH341_BAUD_DEFAULT

-----------------------------------------------------------------------------
(* A call of one of the routines, up to its control transfer. *)
Begin(t, reg, arg) ==
  /\ pc[t] = "idle"
  /\ pc' = [pc EXCEPT ![t] = "transfer"]
  /\ request' = [request EXCEPT ![t] = [reg |-> reg, arg |-> arg]]
  /\ UNCHANGED <<chip, context, power, step, unsure, askedBaud>>

(* SerialHandleIoctl.  An argument the routine rejects changes nothing. *)
SetBaudRate(t, baud) ==
  Programmable(baud) /\ Begin(t, "baud", [baud |-> baud])

SetLineControl(t, lc) == ValidLineControl(lc) /\ Begin(t, "lcr", lc)

SetHandflow(t, handflow) == Begin(t, "flow", handflow)

(* A wrong SetDtr: RTS is asserted whatever its state. *)
SetDtrAssertsRts(t, on) == Begin(t, "modem", [dtr |-> on, rts |-> TRUE])

(* The state of the other line is read when the routine is called. *)
SetDtr(t, on) == Begin(t, "modem", [dtr |-> on, rts |-> RtsState])

SetRts(t, on) == Begin(t, "modem", [dtr |-> DtrState, rts |-> on])

SetBreak(t, on) == Begin(t, "break", [on |-> on])

Ioctl(t) ==
  /\ power = "D0"
  /\ \/ \E baud \in BaudRates : SetBaudRate(t, baud)
     \/ \E lc \in LineControls : SetLineControl(t, lc)
     \/ \E handflow \in HandFlows : SetHandflow(t, handflow)
     \/ \E on \in BOOLEAN : SetDtr(t, on) \/ SetRts(t, on) \/ SetBreak(t, on)

(* Ch341VendorWrite.  A transfer that fails may have reached the chip; a   *)
(* failure ends the routine, and Ch341InitHardware with it.                *)
VendorWrite(t) ==
  LET r == request[t]
      written == [chip EXCEPT ![r.reg] = RegisterValue(r.reg, r.arg)]
  IN
  /\ pc[t] = "transfer"
  /\ \/ /\ chip' = written
        /\ unsure' = unsure \ {r.reg}
        /\ pc' = [pc EXCEPT ![t] = "store"]
        /\ askedBaud' = IF r.reg = "baud" /\ t # Pnp THEN r.arg.baud ELSE askedBaud
        /\ UNCHANGED <<request, power>>
     \/ /\ chip' \in {chip, written}
        /\ unsure' = unsure \cup {r.reg}
        /\ pc' = [pc EXCEPT ![t] = "idle"]
        /\ request' = [request EXCEPT ![t] = NoRequest]
        /\ power' = IF t = Pnp THEN "failed" ELSE power
        /\ UNCHANGED askedBaud
  /\ UNCHANGED <<context, step>>

(* A wrong StoreConfig: the rate asked for is stored. *)
StoreRequestedBaud(t) ==
  LET reg == request[t].reg
      arg == request[t].arg
  IN
  /\ pc[t] = "store"
  /\ CurrentBaud' = IF reg = "baud" THEN arg.baud ELSE CurrentBaud
  /\ LineControl' = IF reg = "lcr" THEN arg ELSE LineControl
  /\ HandFlow' = IF reg = "flow" /\ t # Pnp THEN arg ELSE HandFlow
  /\ DtrState' = IF reg = "modem" THEN arg.dtr ELSE DtrState
  /\ RtsState' = IF reg = "modem" THEN arg.rts ELSE RtsState
  /\ pc' = [pc EXCEPT ![t] = "idle"]
  /\ request' = [request EXCEPT ![t] = NoRequest]
  /\ step' = IF t = Pnp THEN step + 1 ELSE step
  /\ UNCHANGED <<chip, power, unsure, askedBaud>>

(* The rest of the routine.  HandFlow is stored by the IOCTL and not by    *)
(* Ch341SetFlowControl; the break is stored nowhere.                       *)
StoreConfig(t) ==
  LET reg == request[t].reg
      arg == request[t].arg
  IN
  /\ pc[t] = "store"
  /\ CurrentBaud' = IF reg = "baud" THEN ActualBaud(BaudRegisters(arg.baud)) ELSE CurrentBaud
  /\ LineControl' = IF reg = "lcr" THEN arg ELSE LineControl
  /\ HandFlow' = IF reg = "flow" /\ t # Pnp THEN arg ELSE HandFlow
  /\ DtrState' = IF reg = "modem" THEN arg.dtr ELSE DtrState
  /\ RtsState' = IF reg = "modem" THEN arg.rts ELSE RtsState
  /\ pc' = [pc EXCEPT ![t] = "idle"]
  /\ request' = [request EXCEPT ![t] = NoRequest]
  /\ step' = IF t = Pnp THEN step + 1 ELSE step
  /\ UNCHANGED <<chip, power, unsure, askedBaud>>

-----------------------------------------------------------------------------
(* EvtDeviceD0Entry and Ch341InitHardware. *)

InitOrder == <<"baud", "lcr", "modem", "flow">>

(* A wrong InitArgument: the default rate, as the comment on step 3 says. *)
DefaultInitArgument(reg) ==
  CASE reg = "baud" -> [baud |-> CH341_BAUD_DEFAULT]
    [] reg = "lcr" -> Line8N1
    [] reg = "modem" -> [dtr |-> DtrState, rts |-> RtsState]
    [] reg = "flow" -> NoFlow

InitArgument(reg) ==
  CASE reg = "baud" -> [baud |-> CurrentBaud]
    [] reg = "lcr" -> Line8N1
    [] reg = "modem" -> [dtr |-> DtrState, rts |-> RtsState]
    [] reg = "flow" -> NoFlow

(* READ_VERSION and SERIAL_INIT come first and can fail. *)
EvtDeviceD0Entry ==
  /\ power = "off"
  /\ power' \in {"entering", "failed"}
  /\ step' = 1
  /\ UNCHANGED <<chip, context, pc, request, unsure, askedBaud>>

(* The next routine of the sequence; only Ch341SetBaudRate can reject its  *)
(* argument.                                                               *)
InitHardwareStep ==
  /\ power = "entering"
  /\ pc[Pnp] = "idle"
  /\ step <= Len(InitOrder)
  /\ LET reg == InitOrder[step] IN
       IF reg = "baud" /\ ~ Programmable(CurrentBaud)
         THEN /\ power' = "failed"
              /\ UNCHANGED <<chip, context, pc, request, step, unsure, askedBaud>>
         ELSE Begin(Pnp, reg, InitArgument(reg))

(* The modem status read at the end is allowed to fail. *)
InitHardwareEnds ==
  /\ power = "entering"
  /\ step > Len(InitOrder)
  /\ power' = "D0"
  /\ UNCHANGED <<chip, context, pc, request, step, unsure, askedBaud>>

(* The framework lets the handlers that are running return first.  The     *)
(* chip keeps its registers or powers up anew.                             *)
EvtDeviceD0Exit ==
  /\ power = "D0"
  /\ Idle
  /\ power' = "off"
  /\ chip' \in {chip, PoweredUpChip}
  /\ UNCHANGED <<context, pc, request, step, unsure, askedBaud>>

Next ==
  \/ \E t \in Setters : Ioctl(t)
  \/ \E t \in Threads : VendorWrite(t) \/ StoreConfig(t)
  \/ EvtDeviceD0Entry
  \/ InitHardwareStep
  \/ InitHardwareEnds
  \/ EvtDeviceD0Exit

Spec == Init /\ [][Next]_vars

-----------------------------------------------------------------------------
(* Nothing is being changed: the application can look. *)
Settled == power = "D0" /\ Idle

(* The context says what the chip does: what GET_BAUD_RATE and GET_LINE_   *)
(* CONTROL report, and what the next SET_DTR takes for the state of RTS,   *)
(* is in the registers, whatever failed before and across power cycles.    *)
(* A register whose last transfer failed is excepted.                      *)
ContextIsCurrent ==
  Settled =>
    /\ "baud" \notin unsure => ActualBaud(chip["baud"]) = CurrentBaud
    /\ "lcr" \notin unsure => chip["lcr"] = Lcr(LineControl)
    /\ "modem" \notin unsure => chip["modem"] = [dtr |-> DtrState, rts |-> RtsState]

(* SET_DTR and CLR_DTR leave RTS alone and the RTS requests leave DTR      *)
(* alone, although one transfer writes both lines.                         *)
OneLineAtATime ==
  [][power = "D0" /\ power' = "D0" /\ "modem" \notin unsure =>
       \/ chip'["modem"].dtr = chip["modem"].dtr
       \/ chip'["modem"].rts = chip["modem"].rts]_vars

(* The chip runs at the registers computed from the rate the application   *)
(* last set, after a power cycle as well, when Ch341InitHardware has only  *)
(* the rounded-down CurrentBaud to compute them from.  This holds of rates *)
(* that keep their registers when they are rounded down; of SettableBaud,  *)
(* 110 does not: it drifts from one power-up to the next.                  *)
BaudAsAsked ==
  Settled /\ "baud" \notin unsure => chip["baud"] = BaudRegisters(askedBaud)

(* The stored rate is one Ch341SetBaudRate accepts when Ch341InitHardware  *)
(* calls it with it, after any number of power cycles that round it down   *)
(* each time: no start fails for the rate.  An application that asks for   *)
(* the lowest legal rate is excepted: 46 is stored as 45.                  *)
StoredBaudIsAccepted == CH341_BAUD_MIN \notin BaudRates => Programmable(CurrentBaud)
=============================================================================
