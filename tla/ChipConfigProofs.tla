-------------------------- MODULE ChipConfigProofs --------------------------
(***************************************************************************)
(* Proofs about ChipConfig, for every set of rates, line controls and      *)
(* flow control settings an application may ask for, if it waits for the   *)
(* answer to a request before it sends the next: the routines take no lock *)
(* and only this keeps two of them apart.  The last theorem needs no such  *)
(* application.                                                            *)
(***************************************************************************)
EXTENDS ChipConfig, BaudRateProofs

(* There is one thread that serves the application. *)
WaitsForAnswers == \A s, t \in Setters : s = t

-----------------------------------------------------------------------------
(* The inductive invariant. *)

(* The registers that DEVICE_CONTEXT has a copy of. *)
Copied == {"baud", "lcr", "modem"}

Agrees(reg) ==
  /\ reg = "baud" => ActualBaud(chip["baud"]) = CurrentBaud
  /\ reg = "lcr" => chip["lcr"] = Lcr(LineControl)
  /\ reg = "modem" => chip["modem"] = [dtr |-> DtrState, rts |-> RtsState]

(* The transfer to this register is done and the context does not have the *)
(* value yet.                                                              *)
Storing(reg) == \E t \in Threads : pc[t] = "store" /\ request[t].reg = reg

(* Since the device was powered up Ch341InitHardware has written it.       *)
Written(reg) ==
  \/ power = "D0"
  \/ power = "entering" /\ \E i \in 1..4 : i < step /\ InitOrder[i] = reg

ThreadsOK ==
  /\ pc \in [Threads -> {"idle", "transfer", "store"}]
  /\ \A t \in Setters : pc[t] # "idle" => power = "D0"
  /\ pc[Pnp] # "idle" =>
       power = "entering" /\ step \in 1..4 /\ request[Pnp].reg = InitOrder[step]
  /\ step \in Nat \ {0}
  /\ power = "entering" => step \in 1..5

(* A request of the routines, and what SetDtr or SetRts took for the state *)
(* of the other line.                                                      *)
RequestsOK ==
  \A t \in Threads : pc[t] # "idle" =>
    /\ request[t].reg \in Registers
    /\ request[t].reg = "modem" =>
         /\ request[t].arg = [dtr |-> request[t].arg.dtr, rts |-> request[t].arg.rts]
         /\ pc[t] = "transfer" => \/ request[t].arg.dtr = DtrState
                                  \/ request[t].arg.rts = RtsState

ChipOK ==
  /\ chip = [reg \in Registers |-> chip[reg]]
  /\ request = [t \in Threads |-> request[t]]
  /\ \A t \in Threads : pc[t] = "store" =>
       /\ request[t].reg \notin unsure
       /\ chip[request[t].reg] = RegisterValue(request[t].reg, request[t].arg)
  /\ \A reg \in Copied : Written(reg) /\ reg \notin unsure /\ ~ Storing(reg) => Agrees(reg)

Inv == ThreadsOK /\ RequestsOK /\ ChipOK

-----------------------------------------------------------------------------
(* Every action keeps it. *)

LEMMA InitInv == Init => Inv
<1> SUFFICES ASSUME Init PROVE Inv
  OBVIOUS
<1>1. chip = [reg \in Registers |-> chip[reg]] /\ request = [t \in Threads |-> request[t]]
  BY DEF Init, PoweredUpChip
<1>2. \A t \in Threads : pc[t] = "idle"
  BY DEF Init
<1>3. ThreadsOK
  BY <1>2 DEF Init, ThreadsOK, Threads
<1>4. RequestsOK
  BY <1>2 DEF RequestsOK
<1>5. ~ Written("baud") /\ ~ Written("lcr") /\ ~ Written("modem")
  BY DEF Init, Written
<1> QED
  BY <1>1, <1>2, <1>3, <1>4, <1>5 DEF Inv, ChipOK, Copied

LEMMA OneThread ==
  ASSUME WaitsForAnswers, ThreadsOK, NEW s \in Threads, NEW t \in Threads,
         pc[s] # "idle", pc[t] # "idle"
  PROVE  s = t
BY DEF WaitsForAnswers, ThreadsOK, Threads

LEMMA BeginInv ==
  ASSUME Inv, NEW t \in Threads, NEW reg \in Registers, NEW arg, Begin(t, reg, arg),
         t \in Setters => power = "D0",
         t = Pnp => power = "entering" /\ step \in 1..4 /\ reg = InitOrder[step],
         reg = "modem" => \/ \E on : arg = [dtr |-> on, rts |-> RtsState]
                          \/ \E on : arg = [dtr |-> DtrState, rts |-> on]
  PROVE  Inv'
<1>1. /\ pc' = [pc EXCEPT ![t] = "transfer"]
      /\ request' = [request EXCEPT ![t] = [reg |-> reg, arg |-> arg]]
      /\ request'[t] = [reg |-> reg, arg |-> arg]
      /\ UNCHANGED <<chip, context, power, step, unsure>>
  BY DEF Begin, Inv, ChipOK
<1>2. ThreadsOK'
  BY <1>1, ChipAssumption DEF Inv, ThreadsOK, Threads, ChipOK
<1>3. RequestsOK'
  <2>1. \A u \in Threads \ {t} : pc'[u] = pc[u] /\ request'[u] = request[u]
    BY <1>1 DEF Inv, ThreadsOK, ChipOK
  <2>2. request'[t].reg = reg /\ request'[t].arg = arg
    BY <1>1
  <2>3. reg = "modem" => /\ arg = [dtr |-> arg.dtr, rts |-> arg.rts]
                         /\ arg.dtr = DtrState \/ arg.rts = RtsState
    OBVIOUS
  <2>4. UNCHANGED <<DtrState, RtsState>>
    BY <1>1 DEF context
  <2> QED
    BY <2>1, <2>2, <2>3, <2>4 DEF Inv, RequestsOK
<1>4. ChipOK'
  <2>1. request' = [u \in Threads |-> request'[u]]
    BY <1>1 DEF Inv, ChipOK
  <2>2. \A u \in Threads : pc'[u] = "store" =>
          u # t /\ pc[u] = "store" /\ request'[u] = request[u]
    BY <1>1 DEF Inv, ThreadsOK, ChipOK
  <2>3. \A r : Storing(r) => Storing(r)'
    BY <1>1, <2>2 DEF Storing, Inv, ThreadsOK, ChipOK, Begin
  <2>4. \A r : (Written(r)' <=> Written(r)) /\ (Agrees(r)' <=> Agrees(r))
    BY <1>1 DEF Written, Agrees, context
  <2> QED
    BY <1>1, <2>1, <2>2, <2>3, <2>4 DEF Inv, ChipOK
<1> QED
  BY <1>2, <1>3, <1>4 DEF Inv

LEMMA IoctlInv ==
  ASSUME WaitsForAnswers, Inv, NEW t \in Setters, Ioctl(t)
  PROVE  Inv'
<1>1. t \in Threads /\ t # Pnp /\ power = "D0"
  BY ChipAssumption DEF Threads, Ioctl
<1>2. ASSUME NEW reg \in Registers, NEW arg, Begin(t, reg, arg),
             reg = "modem" => \/ \E on : arg = [dtr |-> on, rts |-> RtsState]
                              \/ \E on : arg = [dtr |-> DtrState, rts |-> on]
      PROVE  Inv'
  BY <1>1, <1>2, BeginInv
<1>3. "baud" \in Registers /\ "lcr" \in Registers /\ "flow" \in Registers
      /\ "modem" \in Registers /\ "break" \in Registers
  BY DEF Registers
<1>4. CASE \E baud \in BaudRates : SetBaudRate(t, baud)
  BY <1>2, <1>3, <1>4 DEF SetBaudRate
<1>5. CASE \E lc \in LineControls : SetLineControl(t, lc)
  BY <1>2, <1>3, <1>5 DEF SetLineControl
<1>6. CASE \E handflow \in HandFlows : SetHandflow(t, handflow)
  BY <1>2, <1>3, <1>6 DEF SetHandflow
<1>7. CASE \E on \in BOOLEAN : SetDtr(t, on) \/ SetRts(t, on)
  BY <1>2, <1>3, <1>7 DEF SetDtr, SetRts
<1>8. CASE \E on \in BOOLEAN : SetBreak(t, on)
  BY <1>2, <1>3, <1>8 DEF SetBreak
<1> QED
  BY <1>4, <1>5, <1>6, <1>7, <1>8 DEF Ioctl

LEMMA InitOrderIs ==
  /\ Len(InitOrder) = 4
  /\ InitOrder[1] = "baud" /\ InitOrder[2] = "lcr"
  /\ InitOrder[3] = "modem" /\ InitOrder[4] = "flow"
BY DEF InitOrder

LEMMA InitHardwareStepInv ==
  ASSUME Inv, InitHardwareStep
  PROVE  Inv'
<1> DEFINE reg == InitOrder[step]
<1>1. Pnp \in Threads /\ Pnp \notin Setters /\ power = "entering" /\ step \in 1..4
  BY ChipAssumption, InitOrderIs DEF Threads, InitHardwareStep, Inv, ThreadsOK
<1>2. CASE power' = "failed" /\ UNCHANGED <<chip, context, pc, request, step, unsure>>
            /\ pc[Pnp] = "idle"
  <2>1. ThreadsOK'
    BY <1>1, <1>2 DEF Inv, ThreadsOK
  <2>2. RequestsOK'
    BY <1>2 DEF Inv, RequestsOK, context
  <2>3. \A r : ~ Written(r)'
    BY <1>2 DEF Written
  <2> QED
    BY <1>2, <2>1, <2>2, <2>3 DEF Inv, ChipOK
<1>3. CASE Begin(Pnp, reg, InitArgument(reg))
  <2>1. reg \in Registers
    BY <1>1, InitOrderIs DEF Registers
  <2>2. reg = "modem" => InitArgument(reg) = [dtr |-> DtrState, rts |-> RtsState]
    BY DEF InitArgument
  <2> HIDE DEF reg
  <2>3. reg = InitOrder[step]
    BY DEF reg
  <2> QED
    BY <1>1, <1>3, <2>1, <2>2, <2>3, BeginInv
<1> QED
  BY <1>2, <1>3 DEF InitHardwareStep

(* The transfer makes the register agree with the request, or leaves it    *)
(* uncertain.                                                              *)
LEMMA VendorWriteInv ==
  ASSUME WaitsForAnswers, Inv, NEW t \in Threads, VendorWrite(t)
  PROVE  Inv'
<1>1. /\ ThreadsOK /\ RequestsOK /\ ChipOK /\ pc[t] = "transfer"
      /\ \A u \in Threads \ {t} : pc[u] = "idle"
      /\ request[t].reg \in Registers
      /\ UNCHANGED <<context, step>>
  BY OneThread DEF VendorWrite, Inv, ThreadsOK, RequestsOK
<1> PICK r, arg : r \in Registers /\ r = request[t].reg /\ arg = request[t].arg
  BY <1>1
<1> DEFINE written == [chip EXCEPT ![r] = RegisterValue(r, arg)]
<1>2. /\ written[r] = RegisterValue(r, arg)
      /\ written = [reg \in Registers |-> written[reg]]
      /\ \A reg \in Registers \ {r} : written[reg] = chip[reg]
  BY <1>1 DEF ChipOK
<1>3. \A reg : ~ Storing(reg)
  BY <1>1 DEF Storing
<1> HIDE DEF written
<1>4. CASE /\ chip' = written
           /\ unsure' = unsure \ {r}
           /\ pc' = [pc EXCEPT ![t] = "store"]
           /\ UNCHANGED <<request, power>>
  <2>1. ThreadsOK'
    BY <1>1, <1>4 DEF ThreadsOK
  <2>2. pc'[t] = "store" /\ \A u \in Threads \ {t} : pc'[u] = pc[u]
    BY <1>1, <1>4 DEF ThreadsOK
  <2>3. RequestsOK'
    BY <1>1, <1>4, <2>2 DEF RequestsOK, context
  <2>4. \A u \in Threads : pc'[u] = "store" => u = t
    BY <1>1, <2>2
  <2>5. Storing(r)'
    BY <1>4, <2>2 DEF Storing
  <2>6. ASSUME NEW reg \in Copied, Written(reg)', reg \notin unsure', ~ Storing(reg)'
        PROVE  Agrees(reg)'
    <3>1. reg # r /\ reg \in Registers
      BY <2>5, <2>6 DEF Copied, Registers
    <3>2. Written(reg) /\ reg \notin unsure
      <4>1. Written(reg)
        BY <1>1, <1>4, <2>6 DEF Written
      <4>2. reg \notin unsure
        BY <1>4, <2>6, <3>1
      <4> QED
        BY <4>1, <4>2
    <3>3. Agrees(reg) /\ chip'[reg] = chip[reg]
      BY <1>1, <1>2, <1>3, <1>4, <3>1, <3>2 DEF ChipOK
    <3> QED
      BY <1>1, <3>3 DEF Agrees, context, Copied
  <2>7. ChipOK'
    BY <1>1, <1>2, <1>4, <2>4, <2>6 DEF ChipOK
  <2> QED
    BY <2>1, <2>3, <2>7 DEF Inv
<1>5. CASE /\ chip' \in {chip, written}
           /\ unsure' = unsure \cup {r}
           /\ pc' = [pc EXCEPT ![t] = "idle"]
           /\ request' = [request EXCEPT ![t] = NoRequest]
           /\ power' = IF t = Pnp THEN "failed" ELSE power
  <2>1. \A u \in Threads : pc'[u] = "idle"
    BY <1>1, <1>5 DEF ThreadsOK
  <2>2. ThreadsOK'
    <3>1. Pnp \in Threads /\ Setters \subseteq Threads
      BY DEF Threads
    <3>2. pc' \in [Threads -> {"idle", "transfer", "store"}]
      BY <1>1, <1>5 DEF ThreadsOK
    <3> QED
      BY <1>1, <1>5, <2>1, <3>1, <3>2 DEF ThreadsOK
  <2>3. RequestsOK'
    BY <2>1 DEF RequestsOK
  <2>4. ASSUME NEW reg \in Copied, Written(reg)', reg \notin unsure'
        PROVE  Agrees(reg)'
    <3>1. reg # r /\ reg \in Registers /\ reg \notin unsure
      BY <1>5, <2>4 DEF Copied, Registers
    <3>2. Written(reg)
      BY <1>1, <1>5, <2>4 DEF Written
    <3>3. Agrees(reg) /\ chip'[reg] = chip[reg]
      BY <1>1, <1>2, <1>3, <1>5, <3>1, <3>2 DEF ChipOK
    <3> QED
      BY <1>1, <3>3 DEF Agrees, context, Copied
  <2>5. ChipOK'
    <3>1. request' = [u \in Threads |-> request'[u]]
      BY <1>1, <1>5 DEF ChipOK
    <3>2. chip' = [reg \in Registers |-> chip'[reg]]
      BY <1>1, <1>2, <1>5 DEF ChipOK
    <3> QED
      BY <2>1, <2>4, <3>1, <3>2 DEF ChipOK
  <2> QED
    BY <2>2, <2>3, <2>5 DEF Inv
<1> QED
  BY <1>4, <1>5 DEF VendorWrite, written

(* Storing the value makes the context agree with the register again.      *)
LEMMA StoreConfigInv ==
  ASSUME WaitsForAnswers, Inv, NEW t \in Threads, StoreConfig(t)
  PROVE  Inv'
<1> PICK r, arg : r = request[t].reg /\ arg = request[t].arg
  OBVIOUS
<1>1. /\ ThreadsOK /\ RequestsOK /\ ChipOK /\ pc[t] = "store"
      /\ \A u \in Threads \ {t} : pc[u] = "idle"
      /\ r \in Registers /\ chip[r] = RegisterValue(r, arg)
      /\ r = "modem" => arg = [dtr |-> arg.dtr, rts |-> arg.rts]
  BY OneThread DEF StoreConfig, Inv, ThreadsOK, RequestsOK, ChipOK
<1>2. \A reg : Storing(reg) => reg = r
  BY <1>1 DEF Storing
<1>3. /\ pc' = [pc EXCEPT ![t] = "idle"]
      /\ request' = [request EXCEPT ![t] = NoRequest]
      /\ UNCHANGED <<chip, power, unsure>>
      /\ step' = IF t = Pnp THEN step + 1 ELSE step
      /\ CurrentBaud' = IF r = "baud" THEN ActualBaud(BaudRegisters(arg.baud)) ELSE CurrentBaud
      /\ LineControl' = IF r = "lcr" THEN arg ELSE LineControl
      /\ DtrState' = IF r = "modem" THEN arg.dtr ELSE DtrState
      /\ RtsState' = IF r = "modem" THEN arg.rts ELSE RtsState
  BY DEF StoreConfig
<1>4. \A u \in Threads : pc'[u] = "idle"
  BY <1>1, <1>3 DEF ThreadsOK
<1>5. ThreadsOK'
  <2>1. Pnp \in Threads /\ Setters \subseteq Threads
    BY DEF Threads
  <2>2. pc' \in [Threads -> {"idle", "transfer", "store"}]
    BY <1>1, <1>3 DEF ThreadsOK
  <2>3. step' \in Nat \ {0} /\ (power = "entering" => step' \in 1..5)
    BY <1>1, <1>3 DEF ThreadsOK
  <2> QED
    BY <1>3, <1>4, <2>1, <2>2, <2>3 DEF ThreadsOK
<1>6. RequestsOK'
  BY <1>4 DEF RequestsOK
<1>7. r \in Copied => Agrees(r)'
  <2>1. CASE r = "baud"
    <3>1. chip'["baud"] = BaudRegisters(arg.baud)
      BY <1>1, <1>3, <2>1 DEF RegisterValue
    <3>2. CurrentBaud' = ActualBaud(BaudRegisters(arg.baud))
      BY <1>3, <2>1
    <3> QED
      BY <2>1, <3>1, <3>2 DEF Agrees
  <2>2. CASE r = "lcr"
    <3>1. chip'["lcr"] = Lcr(arg)
      BY <1>1, <1>3, <2>2 DEF RegisterValue
    <3>2. LineControl' = arg
      BY <1>3, <2>2
    <3> QED
      BY <2>2, <3>1, <3>2 DEF Agrees
  <2>3. CASE r = "modem"
    <3>1. chip'["modem"] = arg
      BY <1>1, <1>3, <2>3 DEF RegisterValue
    <3>2. DtrState' = arg.dtr /\ RtsState' = arg.rts
      BY <1>3, <2>3
    <3> QED
      BY <1>1, <2>3, <3>1, <3>2 DEF Agrees
  <2> QED
    BY <2>1, <2>2, <2>3 DEF Copied
<1>8. ASSUME NEW reg \in Copied, Written(reg)', reg \notin unsure', reg # r
      PROVE  Agrees(reg)'
  <2>1. Written(reg)
    <3>1. t = Pnp => r = InitOrder[step] /\ step \in 1..4
      BY <1>1 DEF ThreadsOK
    <3> QED
      BY <1>1, <1>3, <1>8, <3>1 DEF Written, ThreadsOK
  <2>2. Agrees(reg)
    BY <1>1, <1>2, <1>3, <1>8, <2>1 DEF ChipOK
  <2> QED
    BY <1>3, <1>8, <2>2 DEF Agrees, Copied
<1>9. ChipOK'
  <2>1. request' = [u \in Threads |-> request'[u]]
    BY <1>1, <1>3 DEF ChipOK
  <2>2. chip' = [reg \in Registers |-> chip'[reg]]
    BY <1>1, <1>3 DEF ChipOK
  <2>3. \A reg \in Copied : Written(reg)' /\ reg \notin unsure' => Agrees(reg)'
    BY <1>7, <1>8
  <2> QED
    BY <1>4, <2>1, <2>2, <2>3 DEF ChipOK
<1> QED
  BY <1>5, <1>6, <1>9 DEF Inv

LEMMA PowerInv ==
  ASSUME Inv, EvtDeviceD0Entry \/ InitHardwareEnds \/ EvtDeviceD0Exit \/ UNCHANGED vars
  PROVE  Inv'
<1>1. ThreadsOK /\ RequestsOK /\ ChipOK /\ UNCHANGED <<context, pc, request, unsure>>
  BY DEF Inv, EvtDeviceD0Entry, InitHardwareEnds, EvtDeviceD0Exit, vars
<1>2. RequestsOK'
  BY <1>1 DEF RequestsOK, context
<1>3. \A reg : Storing(reg)' <=> Storing(reg)
  BY <1>1 DEF Storing
<1>4. CASE EvtDeviceD0Entry
  <2>1. Pnp \in Threads /\ Setters \subseteq Threads /\ \A u \in Threads : pc[u] = "idle"
    BY <1>1, <1>4 DEF EvtDeviceD0Entry, ThreadsOK, Threads
  <2>2. ThreadsOK'
    BY <1>1, <1>4, <2>1 DEF EvtDeviceD0Entry, ThreadsOK
  <2>3. \A reg : ~ Written(reg)'
    BY <1>4 DEF EvtDeviceD0Entry, Written
  <2>4. ChipOK'
    BY <1>1, <1>4, <2>3 DEF EvtDeviceD0Entry, ChipOK
  <2> QED
    BY <1>2, <2>2, <2>4 DEF Inv
<1>5. CASE InitHardwareEnds
  <2>1. power = "entering" /\ step = 5 /\ power' = "D0" /\ UNCHANGED <<chip, step>>
    BY <1>1, <1>5, InitOrderIs DEF InitHardwareEnds, ThreadsOK
  <2>2. ThreadsOK'
    BY <1>1, <2>1 DEF ThreadsOK
  <2>3. \A reg \in Copied : Written(reg)
    BY <2>1, InitOrderIs DEF Written, Copied
  <2>4. \A reg : Agrees(reg)' <=> Agrees(reg)
    BY <1>1, <2>1 DEF Agrees, context
  <2>5. ChipOK'
    BY <1>1, <1>3, <2>1, <2>3, <2>4 DEF ChipOK
  <2> QED
    BY <1>2, <2>2, <2>5 DEF Inv
<1>6. CASE EvtDeviceD0Exit
  <2>1. power' = "off" /\ UNCHANGED step /\ \A u \in Threads : pc[u] = "idle"
    BY <1>6 DEF EvtDeviceD0Exit, Idle
  <2>2. ThreadsOK'
    BY <1>1, <2>1 DEF ThreadsOK, Threads
  <2>3. chip' = [reg \in Registers |-> chip'[reg]]
    BY <1>1, <1>6 DEF EvtDeviceD0Exit, ChipOK, PoweredUpChip
  <2>4. \A reg : ~ Written(reg)'
    BY <2>1 DEF Written
  <2>5. ChipOK'
    BY <1>1, <2>1, <2>3, <2>4 DEF ChipOK
  <2> QED
    BY <1>2, <2>2, <2>5 DEF Inv
<1>7. CASE UNCHANGED vars
  <2>1. UNCHANGED <<chip, power, step>>
    BY <1>7 DEF vars
  <2>2. \A reg : (Written(reg)' <=> Written(reg)) /\ (Agrees(reg)' <=> Agrees(reg))
    BY <1>1, <2>1 DEF Written, Agrees, context
  <2>3. ThreadsOK' /\ ChipOK'
    BY <1>1, <1>3, <2>1, <2>2 DEF ThreadsOK, ChipOK
  <2> QED
    BY <1>2, <2>3 DEF Inv
<1> QED
  BY <1>4, <1>5, <1>6, <1>7

LEMMA NextInv == WaitsForAnswers /\ Inv /\ [Next]_vars => Inv'
BY IoctlInv, InitHardwareStepInv, VendorWriteInv, StoreConfigInv, PowerInv DEF Next

LEMMA InvHolds ==
  ASSUME WaitsForAnswers
  PROVE  Spec => []Inv
<1>1. Inv /\ [Next]_vars => Inv'
  BY NextInv
<1> QED
  BY <1>1, InitInv, PTL DEF Spec

(* For an application that waits for its answers, whatever it asks for and *)
(* whatever transfers fail, DEVICE_CONTEXT says what is in the registers   *)
(* whenever the device is in D0 and no routine runs.                       *)
THEOREM ContextStaysCurrent ==
  ASSUME WaitsForAnswers
  PROVE  Spec => []ContextIsCurrent
<1>1. Inv => ContextIsCurrent
  <2> SUFFICES ASSUME Inv, Settled PROVE ContextIsCurrent
    BY DEF ContextIsCurrent
  <2>1. \A reg \in Copied : reg \notin unsure => Agrees(reg)
    BY DEF Inv, ChipOK, Settled, Idle, Storing, Written
  <2> QED
    BY <2>1 DEF ContextIsCurrent, Agrees, Copied
<1>2. Spec => []Inv
  BY InvHolds
<1> QED
  BY <1>1, <1>2, PTL

(* The line that a request is not about keeps its state on the wire.       *)
THEOREM LinesChangeOneAtATime ==
  ASSUME WaitsForAnswers
  PROVE  Spec => OneLineAtATime
<1> DEFINE A == power = "D0" /\ power' = "D0" /\ "modem" \notin unsure =>
                  \/ chip'["modem"].dtr = chip["modem"].dtr
                  \/ chip'["modem"].rts = chip["modem"].rts
<1>1. Inv /\ [Next]_vars => [A]_vars
  <2> SUFFICES ASSUME Inv, Next,
                      power = "D0", power' = "D0", "modem" \notin unsure
               PROVE  \/ chip'["modem"] = chip["modem"]
                      \/ chip'["modem"].dtr = chip["modem"].dtr
                      \/ chip'["modem"].rts = chip["modem"].rts
    OBVIOUS
  <2>1. CASE \E t \in Threads : VendorWrite(t)
    <3>1. PICK t \in Threads : VendorWrite(t)
      BY <2>1
    <3>2. /\ pc[t] = "transfer" /\ \A u \in Threads \ {t} : pc[u] = "idle"
          /\ chip' \in {chip, [chip EXCEPT ![request[t].reg] =
                                 RegisterValue(request[t].reg, request[t].arg)]}
      BY <3>1, OneThread DEF VendorWrite, Inv
    <3>3. CASE request[t].reg = "modem"
      <4>1. chip["modem"] = [dtr |-> DtrState, rts |-> RtsState]
        <5>1. "modem" \in Copied /\ ~ Storing("modem") /\ Written("modem")
          BY <3>2 DEF Copied, Storing, Written
        <5> QED
          BY <5>1 DEF Inv, ChipOK, Agrees
      <4>2. request[t].arg.dtr = DtrState \/ request[t].arg.rts = RtsState
        BY <3>2, <3>3 DEF Inv, RequestsOK
      <4>3. chip'["modem"] \in {chip["modem"], request[t].arg}
        BY <3>2, <3>3 DEF RegisterValue, Inv, ChipOK
      <4> QED
        BY <4>1, <4>2, <4>3
    <3>4. CASE request[t].reg # "modem"
      BY <3>2, <3>4 DEF Inv, ChipOK, Registers
    <3> QED
      BY <3>3, <3>4
  <2>2. CASE UNCHANGED chip
    BY <2>2
  <2> QED
    BY <2>1, <2>2 DEF Next, Ioctl, SetBaudRate, SetLineControl, SetHandflow, SetDtr,
       SetRts, SetBreak, Begin, StoreConfig, EvtDeviceD0Entry, InitHardwareStep,
       InitHardwareEnds, EvtDeviceD0Exit
<1>2. Spec => []Inv
  BY InvHolds
<1> QED
  BY <1>1, <1>2, PTL DEF Spec, OneLineAtATime

-----------------------------------------------------------------------------
(* The baud rate across power cycles. *)

(* No rate the application asks for changes its registers when it is       *)
(* computed again from what is stored.                                     *)
RatesKeepRegisters ==
  \A b \in BaudRates : Programmable(b) => KeepsRegisters(b)

(* A new rate is in the registers and not yet in the context.              *)
StoringNewBaud == \E t \in Setters : pc[t] = "store" /\ request[t].reg = "baud"

(* CurrentBaud has the registers of the rate that was asked for, although  *)
(* it need not be that rate; so what is computed from either is the same.  *)
BaudInv ==
  /\ KeepsRegisters(askedBaud)
  /\ ~ StoringNewBaud => BaudRegisters(CurrentBaud) = BaudRegisters(askedBaud)
  /\ \A t \in Setters : pc[t] # "idle" /\ request[t].reg = "baud" =>
       /\ KeepsRegisters(request[t].arg.baud)
       /\ pc[t] = "store" => request[t].arg.baud = askedBaud
  /\ pc[Pnp] # "idle" /\ request[Pnp].reg = "baud" => request[Pnp].arg.baud = CurrentBaud
  /\ Written("baud") /\ "baud" \notin unsure => chip["baud"] = BaudRegisters(askedBaud)

LEMMA DefaultKeepsRegisters == KeepsRegisters(CH341_BAUD_DEFAULT)
<1>1. CH341_BAUD_DEFAULT = 9600
  BY DEF CH341_BAUD_DEFAULT
<1>2. CH341_BAUD_DEFAULT \in Nat /\ Repeatable(CH341_BAUD_DEFAULT)
  BY SMT, <1>1 DEF Repeatable
<1> QED
  BY <1>2, StoredRateKeepsRegisters

LEMMA BeginBaudInv ==
  ASSUME Inv, BaudInv, NEW t \in Threads, NEW reg, NEW arg, Begin(t, reg, arg),
         t \in Setters /\ reg = "baud" => KeepsRegisters(arg.baud),
         t = Pnp /\ reg = "baud" => arg.baud = CurrentBaud
  PROVE  BaudInv'
<1>1. /\ pc[t] = "idle" /\ pc'[t] = "transfer"
      /\ request'[t].reg = reg /\ request'[t].arg = arg
      /\ \A u \in Threads \ {t} : pc'[u] = pc[u] /\ request'[u] = request[u]
      /\ UNCHANGED <<chip, CurrentBaud, power, step, unsure, askedBaud>>
  BY DEF Begin, Inv, ThreadsOK, ChipOK, context
<1>2. Pnp \in Threads /\ Setters \subseteq Threads
  BY DEF Threads
<1>3. (Written("baud")' <=> Written("baud")) /\ (StoringNewBaud' <=> StoringNewBaud)
  BY <1>1, <1>2 DEF Written, StoringNewBaud
<1>4. \A b : KeepsRegisters(b)' <=> KeepsRegisters(b)
  BY DEF KeepsRegisters
<1>5. \A u \in Setters : pc'[u] # "idle" /\ request'[u].reg = "baud" =>
        /\ KeepsRegisters(request'[u].arg.baud)
        /\ pc'[u] = "store" => request'[u].arg.baud = askedBaud'
  <2> SUFFICES ASSUME NEW u \in Setters, pc'[u] # "idle", request'[u].reg = "baud"
               PROVE  /\ KeepsRegisters(request'[u].arg.baud)
                      /\ pc'[u] = "store" => request'[u].arg.baud = askedBaud'
    OBVIOUS
  <2>1. CASE u = t
    BY <1>1, <2>1
  <2>2. CASE u # t
    BY <1>1, <1>2, <2>2 DEF BaudInv
  <2> QED
    BY <2>1, <2>2
<1>6. pc'[Pnp] # "idle" /\ request'[Pnp].reg = "baud" =>
        request'[Pnp].arg.baud = CurrentBaud'
  BY <1>1, <1>2 DEF BaudInv
<1> QED
  BY <1>1, <1>3, <1>4, <1>5, <1>6 DEF BaudInv

LEMMA VendorWriteBaudInv ==
  ASSUME WaitsForAnswers, Inv, BaudInv, NEW t \in Threads, VendorWrite(t)
  PROVE  BaudInv'
<1>1. /\ ThreadsOK /\ ChipOK /\ pc[t] = "transfer" /\ request[t].reg \in Registers
      /\ \A u \in Threads \ {t} : pc[u] = "idle"
      /\ UNCHANGED <<CurrentBaud, step>>
  BY OneThread DEF VendorWrite, Inv, ThreadsOK, RequestsOK, context
<1>2. Pnp \in Threads /\ Setters \subseteq Threads /\ Pnp \notin Setters
  BY ChipAssumption DEF Threads
<1> PICK reg, arg : reg = request[t].reg /\ arg = request[t].arg
  OBVIOUS
<1>3. ~ StoringNewBaud
  BY <1>1, <1>2 DEF StoringNewBaud
<1>4. CASE /\ chip' = [chip EXCEPT ![reg] = RegisterValue(reg, arg)]
           /\ unsure' = unsure \ {reg}
           /\ pc' = [pc EXCEPT ![t] = "store"]
           /\ askedBaud' = IF reg = "baud" /\ t # Pnp THEN arg.baud ELSE askedBaud
           /\ UNCHANGED <<request, power>>
  <2>1. /\ pc'[t] = "store" /\ \A u \in Threads \ {t} : pc'[u] = "idle"
        /\ Written("baud")' <=> Written("baud")
    BY <1>1, <1>4 DEF ThreadsOK, Written
  <2>2. CASE reg = "baud" /\ t # Pnp
    <3>1. /\ t \in Setters /\ KeepsRegisters(arg.baud) /\ askedBaud' = arg.baud
          /\ chip'["baud"] = BaudRegisters(arg.baud)
      BY <1>1, <1>4, <2>2 DEF BaudInv, Threads, ChipOK, RegisterValue
    <3>2. StoringNewBaud'
      BY <1>4, <2>1, <2>2, <3>1 DEF StoringNewBaud
    <3>3. KeepsRegisters(askedBaud)'
      BY <3>1 DEF KeepsRegisters
    <3>4. \A u \in Setters : pc'[u] # "idle" =>
            KeepsRegisters(request'[u].arg.baud) /\ request'[u].arg.baud = askedBaud'
      BY <1>2, <1>4, <2>1, <3>1
    <3>5. pc'[Pnp] = "idle"
      BY <1>2, <2>1, <2>2
    <3>6. (\A u \in Setters : pc[u] # "idle" /\ request[u].reg = "baud" =>
            /\ KeepsRegisters(request[u].arg.baud)
            /\ pc[u] = "store" => request[u].arg.baud = askedBaud)'
      BY <3>4 DEF KeepsRegisters
    <3>7. (Written("baud") /\ "baud" \notin unsure => chip["baud"] = BaudRegisters(askedBaud))'
      BY <3>1
    <3>8. (~ StoringNewBaud => BaudRegisters(CurrentBaud) = BaudRegisters(askedBaud))'
      BY <3>2
    <3>9. (pc[Pnp] # "idle" /\ request[Pnp].reg = "baud" =>
            request[Pnp].arg.baud = CurrentBaud)'
      BY <3>5
    <3> QED
      BY <3>3, <3>6, <3>7, <3>8, <3>9 DEF BaudInv
  <2>3. CASE reg = "baud" /\ t = Pnp
    <3>1. ~ Written("baud")
      <4>1. power = "entering" /\ step \in 1..4 /\ InitOrder[step] = "baud"
        BY <1>1, <2>3 DEF ThreadsOK
      <4>2. step = 1
        BY <4>1, InitOrderIs
      <4> QED
        BY <4>1, <4>2 DEF Written
    <3>2. \A u \in Setters : pc'[u] = "idle"
      BY <1>2, <2>1, <2>3
    <3> QED
      BY <1>1, <1>3, <1>4, <2>1, <2>3, <3>1, <3>2 DEF BaudInv, KeepsRegisters
  <2>4. CASE reg # "baud"
    <3>1. chip'["baud"] = chip["baud"] /\ ("baud" \in unsure' <=> "baud" \in unsure)
      BY <1>1, <1>4, <2>4 DEF ChipOK, Registers
    <3>2. ~ StoringNewBaud'
      BY <1>2, <1>4, <2>1, <2>4 DEF StoringNewBaud
    <3>3. UNCHANGED <<CurrentBaud, askedBaud, request>>
      BY <1>1, <1>4, <2>4
    <3>4. \A u \in Threads : pc'[u] # "idle" => request'[u].reg # "baud"
      BY <2>1, <2>4, <3>3
    <3> QED
      BY <1>2, <1>3, <2>1, <3>1, <3>2, <3>3, <3>4 DEF BaudInv, KeepsRegisters
  <2> QED
    BY <2>2, <2>3, <2>4
<1>5. CASE /\ chip' \in {chip, [chip EXCEPT ![reg] = RegisterValue(reg, arg)]}
           /\ unsure' = unsure \cup {reg}
           /\ pc' = [pc EXCEPT ![t] = "idle"]
           /\ power' = IF t = Pnp THEN "failed" ELSE power
           /\ UNCHANGED askedBaud
  <2>1. \A u \in Threads : pc'[u] = "idle"
    BY <1>1, <1>5 DEF ThreadsOK
  <2>2. Written("baud")' => Written("baud")
    BY <1>1, <1>5 DEF Written
  <2>3. "baud" \notin unsure' => "baud" \notin unsure /\ chip'["baud"] = chip["baud"]
    BY <1>1, <1>5 DEF ChipOK, Registers
  <2> QED
    BY <1>1, <1>2, <1>3, <1>5, <2>1, <2>2, <2>3 DEF BaudInv, KeepsRegisters
<1> QED
  BY <1>4, <1>5 DEF VendorWrite

LEMMA StoreConfigBaudInv ==
  ASSUME WaitsForAnswers, Inv, BaudInv, NEW t \in Threads, StoreConfig(t)
  PROVE  BaudInv'
<1>1. /\ ThreadsOK /\ ChipOK /\ pc[t] = "store"
      /\ \A u \in Threads \ {t} : pc[u] = "idle"
      /\ UNCHANGED <<chip, power, unsure, askedBaud>>
  BY OneThread DEF StoreConfig, Inv
<1>2. Pnp \in Threads /\ Setters \subseteq Threads /\ Pnp \notin Setters
  BY ChipAssumption DEF Threads
<1> PICK reg, arg : reg = request[t].reg /\ arg = request[t].arg
  OBVIOUS
<1>3. /\ CurrentBaud' = IF reg = "baud" THEN ActualBaud(BaudRegisters(arg.baud)) ELSE CurrentBaud
      /\ step' = IF t = Pnp THEN step + 1 ELSE step
  BY DEF StoreConfig
<1>4. \A u \in Threads : pc'[u] = "idle"
  BY <1>1 DEF StoreConfig, ThreadsOK
<1>5. KeepsRegisters(askedBaud) /\ KeepsRegisters(askedBaud)'
  BY <1>1 DEF BaudInv, KeepsRegisters
<1>6. reg = "baud" => BaudRegisters(arg.baud) = BaudRegisters(askedBaud)
  <2>1. CASE t \in Setters
    BY <1>1, <2>1 DEF BaudInv
  <2>2. CASE t = Pnp
    <3>1. ~ StoringNewBaud
      BY <1>1, <1>2, <2>2 DEF StoringNewBaud
    <3> QED
      BY <1>1, <2>2, <3>1 DEF BaudInv
  <2> QED
    BY <2>1, <2>2 DEF Threads
<1>7. BaudRegisters(CurrentBaud') = BaudRegisters(askedBaud)
  <2>1. CASE reg = "baud"
    BY <1>3, <1>5, <1>6, <2>1 DEF KeepsRegisters
  <2>2. CASE reg # "baud"
    <3>1. ~ StoringNewBaud
      BY <1>1, <1>2, <2>2 DEF StoringNewBaud
    <3> QED
      BY <1>3, <2>2, <3>1 DEF BaudInv
  <2> QED
    BY <2>1, <2>2
<1>8. Written("baud")' /\ "baud" \notin unsure' => chip'["baud"] = BaudRegisters(askedBaud)
  <2>1. CASE reg = "baud"
    BY <1>1, <1>6, <2>1 DEF ChipOK, RegisterValue
  <2>2. CASE reg # "baud"
    <3>1. t = Pnp => reg = InitOrder[step] /\ step \in 1..4
      BY <1>1 DEF ThreadsOK
    <3>2. Written("baud")' => Written("baud")
      BY <1>1, <1>3, <2>2, <3>1 DEF Written, ThreadsOK
    <3> QED
      BY <1>1, <3>2 DEF BaudInv
  <2> QED
    BY <2>1, <2>2
<1> QED
  BY <1>1, <1>2, <1>4, <1>5, <1>7, <1>8 DEF BaudInv, KeepsRegisters

LEMMA NextBaudInv ==
  ASSUME WaitsForAnswers, RatesKeepRegisters, Inv, BaudInv, [Next]_vars
  PROVE  BaudInv'
<1>1. CASE \E t \in Setters : Ioctl(t)
  <2>1. PICK t \in Setters : Ioctl(t)
    BY <1>1
  <2>2. t \in Threads /\ t # Pnp
    BY ChipAssumption DEF Threads
  <2>3. ASSUME NEW reg, NEW arg, Begin(t, reg, arg),
               reg = "baud" => KeepsRegisters(arg.baud)
        PROVE  BaudInv'
    BY <2>2, <2>3, BeginBaudInv
  <2>4. CASE \E baud \in BaudRates : SetBaudRate(t, baud)
    BY <2>3, <2>4 DEF SetBaudRate, RatesKeepRegisters
  <2>5. CASE \/ \E lc \in LineControls : SetLineControl(t, lc)
             \/ \E handflow \in HandFlows : SetHandflow(t, handflow)
             \/ \E on \in BOOLEAN : SetDtr(t, on) \/ SetRts(t, on) \/ SetBreak(t, on)
    BY <2>3, <2>5 DEF SetLineControl, SetHandflow, SetDtr, SetRts, SetBreak
  <2> QED
    BY <2>1, <2>4, <2>5 DEF Ioctl
<1>2. CASE \E t \in Threads : VendorWrite(t)
  BY <1>2, VendorWriteBaudInv
<1>3. CASE \E t \in Threads : StoreConfig(t)
  BY <1>3, StoreConfigBaudInv
<1>4. CASE InitHardwareStep
  <2> DEFINE reg == InitOrder[step]
  <2>1. CASE Begin(Pnp, reg, InitArgument(reg))
    <3>1. reg = "baud" => InitArgument(reg).baud = CurrentBaud
      BY DEF InitArgument
    <3>2. Pnp \in Threads /\ Pnp \notin Setters
      BY ChipAssumption DEF Threads
    <3> HIDE DEF reg
    <3> QED
      BY <2>1, <3>1, <3>2, BeginBaudInv
  <2>2. CASE power' = "failed" /\ UNCHANGED <<chip, context, pc, request, step, unsure, askedBaud>>
    BY <2>2 DEF BaudInv, StoringNewBaud, Written, KeepsRegisters, context
  <2> QED
    BY <1>4, <2>1, <2>2 DEF InitHardwareStep
<1>5. CASE EvtDeviceD0Entry \/ EvtDeviceD0Exit
  <2>1. /\ ~ Written("baud")'
        /\ UNCHANGED <<CurrentBaud, pc, request, unsure, askedBaud>>
    BY <1>5 DEF EvtDeviceD0Entry, EvtDeviceD0Exit, Written, context
  <2> QED
    BY <2>1 DEF BaudInv, StoringNewBaud, KeepsRegisters
<1>6. CASE InitHardwareEnds
  <2>1. Written("baud")
    BY <1>6, InitOrderIs DEF InitHardwareEnds, Written, Inv, ThreadsOK
  <2>2. UNCHANGED <<chip, CurrentBaud, pc, request, unsure, askedBaud>>
    BY <1>6 DEF InitHardwareEnds, context
  <2> QED
    BY <2>1, <2>2 DEF BaudInv, StoringNewBaud, KeepsRegisters
<1>7. CASE UNCHANGED vars
  BY <1>7 DEF vars, context, BaudInv, StoringNewBaud, Written, KeepsRegisters
<1> QED
  BY <1>1, <1>2, <1>3, <1>4, <1>5, <1>6, <1>7 DEF Next

(* It is enough that the rates the driver accepts are Repeatable.          *)
LEMMA RepeatableRatesKeepRegisters ==
  ASSUME \A b \in BaudRates : Legal(b) => Repeatable(b)
  PROVE  RatesKeepRegisters
BY ChipAssumption, StoredRateKeepsRegisters DEF RatesKeepRegisters, Programmable

(* If rounding down loses none of the rates it asks for, an application    *)
(* that waits for its answers finds the chip at the registers of the rate  *)
(* it last set, after any number of power cycles and failed transfers.     *)
THEOREM BaudStaysAsAsked ==
  ASSUME WaitsForAnswers, RatesKeepRegisters
  PROVE  Spec => []BaudAsAsked
<1>1. Init => BaudInv
  BY DefaultKeepsRegisters DEF Init, BaudInv, StoringNewBaud, Written, Threads
<1>2. Inv /\ BaudInv /\ [Next]_vars => BaudInv'
  BY NextBaudInv
<1>3. BaudInv => BaudAsAsked
  BY DEF BaudInv, BaudAsAsked, Settled, Written
<1>4. Spec => []Inv
  BY InvHolds
<1> QED
  BY <1>1, <1>2, <1>3, <1>4, PTL DEF Spec

-----------------------------------------------------------------------------
(* The stored rate is accepted again. *)

(* Rates that stay so when they are rounded down and stored.               *)
Lasting(b) == b \in Int /\ Programmable(b) /\ b # CH341_BAUD_MIN

(* Whatever has been stored, and whatever is about to be.                  *)
LastingInv ==
  /\ pc = [t \in Threads |-> pc[t]] /\ request = [t \in Threads |-> request[t]]
  /\ Lasting(CurrentBaud)
  /\ \A t \in Threads : pc[t] # "idle" /\ request[t].reg = "baud" =>
       Lasting(request[t].arg.baud)

LEMMA StoredLasts ==
  ASSUME NEW b, Lasting(b)
  PROVE  Lasting(ActualBaud(BaudRegisters(b)))
BY StoredRateIsLegal DEF Lasting, Programmable

LEMMA InitLasting == Init => LastingInv
<1>1. CH341_BAUD_DEFAULT = 9600 /\ CH341_BAUD_MIN = 46
  BY DEF CH341_BAUD_DEFAULT, CH341_BAUD_MIN
<1>2. CH341_BAUD_DEFAULT \in Int /\ Legal(CH341_BAUD_DEFAULT)
  BY SMT, <1>1, LegalBounds
<1>3. CH341_BAUD_DEFAULT # CH341_BAUD_MIN
  BY SMT, <1>1
<1>4. Lasting(CH341_BAUD_DEFAULT)
  BY <1>2, <1>3, LegalIsProgrammable DEF Lasting
<1> QED
  BY <1>4 DEF Init, LastingInv

LEMMA BeginLasting ==
  ASSUME LastingInv, NEW t \in Threads, NEW reg, NEW arg, Begin(t, reg, arg),
         reg = "baud" => Lasting(arg.baud)
  PROVE  LastingInv'
BY DEF LastingInv, Begin, context, Lasting

LEMMA NextLasting ==
  ASSUME CH341_BAUD_MIN \notin BaudRates, LastingInv, [Next]_vars
  PROVE  LastingInv'
<1>1. Pnp \in Threads /\ Setters \subseteq Threads
  BY DEF Threads
<1>2. CASE \E t \in Setters : Ioctl(t)
  <2>1. PICK t \in Setters : Ioctl(t)
    BY <1>2
  <2>2. \A b \in BaudRates : Programmable(b) => Lasting(b)
    BY ChipAssumption DEF Lasting
  <2>3. ASSUME NEW reg, NEW arg, Begin(t, reg, arg), reg = "baud" => Lasting(arg.baud)
        PROVE  LastingInv'
    BY <1>1, <2>3, BeginLasting
  <2> QED
    BY <2>1, <2>2, <2>3
       DEF Ioctl, SetBaudRate, SetLineControl, SetHandflow, SetDtr, SetRts, SetBreak
<1>3. CASE \E t \in Threads : VendorWrite(t)
  BY <1>3 DEF VendorWrite, LastingInv, context, Lasting
<1>4. CASE \E t \in Threads : StoreConfig(t)
  <2>1. PICK t \in Threads : StoreConfig(t)
    BY <1>4
  <2>2. Lasting(CurrentBaud')
    BY <2>1, StoredLasts DEF StoreConfig, LastingInv
  <2> QED
    BY <2>1, <2>2 DEF StoreConfig, LastingInv, Lasting
<1>5. CASE InitHardwareStep
  <2>1. CASE Begin(Pnp, InitOrder[step], InitArgument(InitOrder[step]))
    <3>1. InitOrder[step] = "baud" => InitArgument(InitOrder[step]).baud = CurrentBaud
      BY DEF InitArgument
    <3> QED
      BY <1>1, <2>1, <3>1, BeginLasting DEF LastingInv
  <2>2. CASE UNCHANGED <<CurrentBaud, pc, request>>
    BY <2>2 DEF LastingInv, Lasting
  <2> QED
    BY <1>5, <2>1, <2>2 DEF InitHardwareStep, context
<1>6. CASE EvtDeviceD0Entry \/ InitHardwareEnds \/ EvtDeviceD0Exit \/ UNCHANGED vars
  <2>1. UNCHANGED <<CurrentBaud, pc, request>>
    BY <1>6 DEF EvtDeviceD0Entry, InitHardwareEnds, EvtDeviceD0Exit, vars, context
  <2> QED
    BY <2>1 DEF LastingInv, Lasting
<1> QED
  BY <1>2, <1>3, <1>4, <1>5, <1>6 DEF Next

(* With any number of threads that change the configuration at once, and   *)
(* whatever rates they ask for but the lowest, Ch341InitHardware finds a   *)
(* rate in the context that Ch341SetBaudRate accepts.                      *)
THEOREM PowerUpAcceptsTheRate == Spec => []StoredBaudIsAccepted
<1>1. CASE CH341_BAUD_MIN \in BaudRates
  <2>1. StoredBaudIsAccepted
    BY <1>1 DEF StoredBaudIsAccepted
  <2> QED
    BY <2>1, PTL
<1>2. CASE CH341_BAUD_MIN \notin BaudRates
  <2>1. LastingInv /\ [Next]_vars => LastingInv'
    BY <1>2, NextLasting
  <2>2. LastingInv => StoredBaudIsAccepted
    BY DEF LastingInv, Lasting, StoredBaudIsAccepted
  <2> QED
    BY <2>1, <2>2, InitLasting, PTL DEF Spec
<1> QED
  BY <1>1, <1>2
=============================================================================
