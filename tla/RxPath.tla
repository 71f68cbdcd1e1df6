------------------------------- MODULE RxPath -------------------------------
(***************************************************************************)
(* The receive side of the driver put together: reads (PendingRead),       *)
(* WaitCommEvent (WaitOnMask), the completion of bulk IN transfers, purges *)
(* and the device leaving D0, all over the state of RxState.  This is      *)
(* where the callbacks of queue.c, serial.c and device.c meet on           *)
(* PendingReadRequest, PendingWaitRequest, the read timer and RxBuffer.    *)
(***************************************************************************)
EXTENDS PendingRead, WaitOnMask

(* Has the RX completion routine a wait to answer? *)
WaitSignalled == EV_RXCHAR \in WaitMask /\ PendingWaitRequest # NULL

(* The last part of EvtUsbBulkInReadComplete's locked region. *)
CheckWait(x) ==
  IF WaitSignalled
    THEN /\ Goto(x, "unmarkWait", PendingWaitRequest)
         /\ PendingWaitRequest' = NULL
    ELSE /\ Goto(x, "idle", NULL)
         /\ UNCHANGED PendingWaitRequest

(* A transfer of n > 0 bytes has completed.  RingBufWrite keeps what fits; *)
(* a pending read is taken, else a pending wait, and the lock is released. *)
EvtUsbBulkInReadComplete(x) ==
  /\ pc[x] = "idle"
  /\ power \in {"D0", "exit"}
  /\ packets > 0
  /\ packets' = packets - 1
  /\ \E n \in 1..MaxTransfer :
       LET written == Lesser(n, RingSize - rxAvailable) IN
       /\ rxAvailable' = rxAvailable + written
       /\ \/ /\ written > 0
             /\ PendingReadRequest # NULL
             /\ Goto(x, "stopTimer", PendingReadRequest)
             /\ PendingReadRequest' = NULL
             /\ UNCHANGED PendingWaitRequest
          \/ /\ written > 0
             /\ PendingReadRequest = NULL
             /\ CheckWait(x)
             /\ UNCHANGED PendingReadRequest
          \/ /\ written = 0
             /\ UNCHANGED <<threadVars, PendingReadRequest, PendingWaitRequest>>
  /\ UNCHANGED <<PendingReadLength, ReadTimer, length, timeoutMs, WaitMask,
                 ModemStatus, newMask, timeoutVars, requestVars, handler, power>>

(* QueueCompletePendingRead, after it has released the lock. *)
RxStopsTimer(x) ==
  /\ pc[x] = "stopTimer"
  /\ ReadTimer' = FALSE
  /\ Goto(x, "unmarkRead", held[x])
  /\ UNCHANGED <<PendingReadRequest, PendingReadLength, length, timeoutMs,
                 waitVars, timeoutVars, rxAvailable, requestVars, handler, envVars>>

RxUnmarksRead(x) == UnmarkRead(x, "waitCheck")

RxCopies(x) == CopyToRead(x, "waitCheck")

(* The lock is held again: look at the wait slot as it is now. *)
RxChecksWait(x) ==
  /\ pc[x] = "waitCheck"
  /\ CheckWait(x)
  /\ UNCHANGED <<readVars, WaitMask, ModemStatus, newMask, timeoutVars,
                 rxAvailable, requestVars, handler, envVars>>

RxAnswersWait(x) ==
  /\ pc[x] = "unmarkWait"
  /\ AnswerWait(x, ULONG_SIZE)
  /\ Goto(x, "idle", NULL)
  /\ UNCHANGED <<readVars, waitVars, timeoutVars, rxAvailable, handler, envVars>>

-----------------------------------------------------------------------------
(* IOCTL_SERIAL_PURGE with SERIAL_PURGE_RXCLEAR; the other purge flags     *)
(* change no state.                                                        *)
PurgeRx ==
  /\ power = "D0"
  /\ rxAvailable > 0
  /\ rxAvailable' = 0
  /\ UNCHANGED <<readVars, waitVars, timeoutVars, requestVars, handler,
                 threadVars, envVars>>

(* EvtDeviceD0Exit.  From its first step on the queue dispatches nothing   *)
(* new until D0 is entered again; callbacks already running go on.         *)
EvtDeviceD0Exit(p) ==
  /\ power = "D0"
  /\ power' = "exit"
  /\ ReadTimer' = FALSE
  /\ Goto(p, "take", NULL)
  /\ UNCHANGED <<PendingReadRequest, PendingReadLength, length, timeoutMs,
                 waitVars, timeoutVars, rxAvailable, requestVars, handler, packets>>

(* With no read pending the buffer is purged under the same lock.          *)
D0ExitTakesRead(p) ==
  /\ pc[p] = "take"
  /\ \/ /\ PendingReadRequest # NULL
        /\ Goto(p, "unmarkRead", PendingReadRequest)
        /\ UNCHANGED <<rxAvailable, power>>
     \/ /\ PendingReadRequest = NULL
        /\ rxAvailable' = 0
        /\ power' = "Dx"
        /\ Goto(p, "idle", NULL)
  /\ PendingReadRequest' = NULL
  /\ UNCHANGED <<PendingReadLength, ReadTimer, length, timeoutMs, waitVars,
                 timeoutVars, requestVars, handler, packets>>

(* A wrong D0ExitCancelsRead: the status of the unmark is ignored. *)
D0ExitCancelsAnyRead(p) ==
  /\ pc[p] = "unmarkRead"
  /\ Complete(held[p], "CANCELLED", 0)
  /\ Goto(p, "purge", NULL)
  /\ UNCHANGED <<readVars, waitVars, timeoutVars, rxAvailable, cancel, handler, envVars>>

D0ExitCancelsRead(p) ==
  LET r == held[p] IN
  /\ pc[p] = "unmarkRead"
  /\ IF UnmarkSucceeds(r)
       THEN /\ cancel' = [cancel EXCEPT ![r] = "no"]
            /\ Complete(r, "CANCELLED", 0)
       ELSE UNCHANGED requestVars
  /\ Goto(p, "purge", NULL)
  /\ UNCHANGED <<readVars, waitVars, timeoutVars, rxAvailable, handler, envVars>>

D0ExitPurges(p) ==
  /\ pc[p] = "purge"
  /\ rxAvailable' = 0
  /\ power' = "Dx"
  /\ Goto(p, "idle", NULL)
  /\ UNCHANGED <<readVars, waitVars, timeoutVars, requestVars, handler, packets>>

(* Of this state, EvtDeviceD0Entry sets the modem lines, to what they are  *)
(* then.                                                                   *)
EvtDeviceD0Entry ==
  /\ power = "Dx"
  /\ power' = "D0"
  /\ ModemStatus' \in SUBSET ModemEvents
  /\ UNCHANGED <<readVars, PendingWaitRequest, WaitMask, newMask, timeoutVars,
                 rxAvailable, requestVars, handler, threadVars, packets>>

-----------------------------------------------------------------------------
(* What the application and the device may do at any time. *)
Environment ==
  \/ \E T \in TimeoutPool : SetTimeouts(T)
  \/ \E r \in Reads : EvtIoRead(r)
  \/ \E w \in Waits : WaitOnMask(w)
  \/ \E r \in Requests : AppCancel(r)
  \/ \E s \in MaskSetters, mask \in Masks : SetWaitMask(s, mask)
  \/ \E x \in RxThreads : EvtUsbBulkInReadComplete(x)
  \/ GetModemStatus
  \/ \E m \in ModemThreads, lines \in SUBSET ModemEvents :
       SerialNotifyModemStatusChange(m, lines)
  \/ PurgeRx
  \/ \E p \in PowerThreads : EvtDeviceD0Exit(p)
  \/ EvtDeviceD0Entry

(* The steps of callbacks that have begun, one operator per callback. *)
ReadHandler(r) == ReadMark(r) \/ ReadUnpublish(r) \/ ReadStartTimer(r)

ReadCancelRoutine(r) == ReadCancelStopsTimer(r) \/ ReadCancelCompletes(r)

WaitHandler(w) == WaitMark(w) \/ WaitUnpublish(w)

TimerDpc(d) == TimerTakesRead(d) \/ TimerUnmarksRead(d) \/ TimerCopies(d)

RxThread(x) ==
  \/ RxStopsTimer(x)
  \/ RxUnmarksRead(x)
  \/ RxCopies(x)
  \/ RxChecksWait(x)
  \/ RxAnswersWait(x)

MaskSetter(s) == SetWaitMaskAnswersOld(s) \/ SetWaitMaskStores(s)

PowerThread(p) ==
  \/ D0ExitTakesRead(p)
  \/ D0ExitCancelsRead(p)
  \/ D0ExitPurges(p)

Next ==
  \/ Environment
  \/ SetTimeoutsReturn
  \/ \E r \in Reads : ReadHandler(r) \/ ReadCancelRoutine(r)
  \/ \E w \in Waits : WaitHandler(w) \/ WaitCancelCompletes(w)
  \/ \E d \in TimerDpcs : TimerExpires(d) \/ TimerDpc(d)
  \/ \E x \in RxThreads : RxThread(x)
  \/ \E s \in MaskSetters : MaskSetter(s)
  \/ \E m \in ModemThreads : ModemAnswersWait(m)
  \/ \E p \in PowerThreads : PowerThread(p)

Spec == Init /\ [][Next]_vars

(* A callback that has begun runs to its end, a timer that is set expires  *)
(* and a cancelled request's cancel routine is called.  Nothing obliges    *)
(* the application, the device or the power manager to act.                *)
Fairness ==
  /\ WF_vars(SetTimeoutsReturn)
  /\ \A r \in Reads : WF_vars(ReadHandler(r)) /\ WF_vars(ReadCancelRoutine(r))
  /\ \A w \in Waits : WF_vars(WaitHandler(w)) /\ WF_vars(WaitCancelCompletes(w))
  /\ \A d \in TimerDpcs : WF_vars(TimerDpc(d))
  /\ WF_vars(\E d \in TimerDpcs : TimerExpires(d))
  /\ \A x \in RxThreads : WF_vars(RxThread(x))
  /\ \A s \in MaskSetters : WF_vars(MaskSetter(s))
  /\ \A m \in ModemThreads : WF_vars(ModemAnswersWait(m))
  /\ \A p \in PowerThreads : WF_vars(PowerThread(p))

FairSpec == Spec /\ Fairness

-----------------------------------------------------------------------------
Statuses == {"NONE", "SUCCESS", "CANCELLED", "DEVICE_BUSY", "BUFFER_TOO_SMALL",
             "INVALID_PARAMETER", "INVALID_DEVICE_REQUEST"}

CancelStates == {"no", "requested", "cancelable", "claimed", "running", "finished"}

HandlerStates == {"idle", "mark", "unpublish", "startTimer", "returned"}

ThreadStates == {"idle", "take", "stopTimer", "unmarkRead", "copy", "waitCheck",
                 "unmarkWait", "store", "purge"}

Outcome == [status : Statuses, info : Nat]

(* Type invariant. *)
TypeOK ==
  /\ PendingReadRequest \in Reads \cup {NULL}
  /\ PendingReadLength \in Nat
  /\ ReadTimer \in BOOLEAN
  /\ PendingWaitRequest \in Waits \cup {NULL}
  /\ WaitMask \in Masks \cup {{}}
  /\ ModemStatus \subseteq ModemEvents
  /\ Timeouts \in SerialTimeouts
  /\ newTimeouts \in SerialTimeouts \cup {NULL}
  /\ rxAvailable \in 0..RingSize
  /\ cancel \in [Requests -> CancelStates]
  /\ completions \in [Requests -> Nat]
  /\ result \in [Requests -> Outcome]
  /\ handler \in [Requests -> HandlerStates]
  /\ length \in [Reads -> Nat]
  /\ timeoutMs \in [Reads -> Nat]
  /\ pc \in [Threads -> ThreadStates]
  /\ held \in [Threads -> Requests \cup {NULL}]
  /\ newMask \in [MaskSetters -> Masks \cup {{}}]
  /\ power \in {"D0", "exit", "Dx"}
  /\ packets \in 0..MaxPackets

(* Whoever wins the race between RX data, the timer, a cancellation and    *)
(* the device leaving D0 for a pended request completes it, and nobody     *)
(* completes it again.                                                     *)
CompletedAtMostOnce == \A r \in Requests : completions[r] <= 1

(* A read never stays in its slot while there is data it could return: the *)
(* test for data and the publication of the read are one locked region,    *)
(* and so are the arrival of data and the taking of the read.              *)
NoReadSleepsOnData == PendingReadRequest # NULL => rxAvailable = 0

-----------------------------------------------------------------------------
(* Who may complete a request: the inductive invariant behind the two.     *)

InSlot(r) == r \in {PendingReadRequest, PendingWaitRequest}

HeldBySomeone(r) == \E t \in Threads : held[t] = r

(* The I/O callback has marked the request cancelable, or answered it. *)
HandlerThrough(r) == handler[r] \in {"startTimer", "returned"}

Revocable == {"cancelable", "claimed", "running"}

UnsentUntouched ==
  \A r \in Requests : handler[r] = "idle" =>
    /\ completions[r] = 0
    /\ cancel[r] = "no"
    /\ ~ InSlot(r)
    /\ ~ HeldBySomeone(r)

HandlerOwns ==
  \A r \in Requests : handler[r] \in {"mark", "unpublish"} =>
    /\ completions[r] = 0
    /\ cancel[r] \in {"no", "requested"}
    /\ handler[r] = "unpublish" => cancel[r] = "requested"

CancelRoutineOwns ==
  \A r \in Requests : cancel[r] \in Revocable =>
    completions[r] = 0 /\ HandlerThrough(r)

CopierOwns ==
  \A t \in Threads : pc[t] = "copy" =>
    /\ held[t] \in Reads
    /\ completions[held[t]] = 0
    /\ cancel[held[t]] \in {"no", "requested"}
    /\ HandlerThrough(held[t])

HeldByOne == \A t, u \in Threads : held[t] = held[u] /\ held[t] # NULL => t = u

HeldWhenNeeded ==
  \A t \in Threads :
    /\ pc[t] \in {"stopTimer", "unmarkRead"} => held[t] \in Reads
    /\ pc[t] = "unmarkWait" => held[t] \in Waits
    /\ pc[t] \in {"idle", "take", "waitCheck", "store", "purge"} => held[t] = NULL

SlotOwns ==
  \A r \in Requests : InSlot(r) =>
    /\ completions[r] = 0
    /\ ~ HeldBySomeone(r)
    /\ HandlerThrough(r) => cancel[r] \in Revocable

(* A pended request has one owner at a time: its I/O callback until it is  *)
(* marked, then the slot together with the cancel routine, then whoever    *)
(* took it from the slot and could unmark it.                              *)
OneOwner ==
  /\ UnsentUntouched
  /\ HandlerOwns
  /\ CancelRoutineOwns
  /\ CopierOwns
  /\ HeldByOne
  /\ HeldWhenNeeded
  /\ SlotOwns

-----------------------------------------------------------------------------
Service == INSTANCE RequestService WITH
  Request   <- Requests,
  phase     <- [r \in Requests |-> IF Completed(r) THEN "done"
                                  ELSE IF handler[r] = "idle" THEN "unsent"
                                  ELSE "pending"],
  cancelled <- [r \in Requests |->
                 cancel[r] \in {"requested", "claimed", "running", "finished"}],
  outcome   <- [r \in Requests |-> result[r].status],
  leaving   <- power = "exit"

(* Reads and waits are served as RequestService says, whatever the         *)
(* interleaving of the callbacks: an outcome is final, and STATUS_         *)
(* CANCELLED goes only to requests that were cancelled or that             *)
(* EvtDeviceD0Exit gave up.                                                *)
ImplementsService == Service!Spec

(* A request the application cancels is completed in the end, even one     *)
(* that has dropped out of its slot: CancelIo and closing the handle never *)
(* hang on this driver.                                                    *)
CancelIsAnswered == Service!CancelIsAnswered

(* While the line is silent and the device stays in D0, a read in the slot *)
(* that has a finite timeout is completed, by its timer or a cancellation. *)
(* Checked for one read that pends on a line silent from the start: what   *)
(* follows a transfer or belongs to another read can stop the timer late,  *)
(* see TimedReadKeepsItsTimer of RxClaims.                                 *)
Quiet == packets = MaxPackets /\ power = "D0"

TimedReadCompletes ==
  \A r \in Reads :
    handler[r] = "startTimer" /\ PendingReadRequest = r /\ Quiet ~>
      Completed(r) \/ ~ Quiet
=============================================================================
