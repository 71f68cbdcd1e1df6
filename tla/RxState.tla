------------------------------ MODULE RxState ------------------------------
(***************************************************************************)
(* The state the data path of the driver shares: the fields of             *)
(* DEVICE_CONTEXT that SerialLock protects, the requests the framework has *)
(* handed to the driver, and the threads that run the driver's callbacks.  *)
(*                                                                         *)
(* A region between WdfSpinLockAcquire and WdfSpinLockRelease is one       *)
(* action: every access to these fields but the ones noted at PendingRead- *)
(* Length and Timeouts is made inside such a region.  What a callback does *)
(* after it has released the lock is an action of its own.                 *)
(***************************************************************************)
EXTENDS Integers, ReadTimeout, Ulong

CONSTANTS
  Reads,         \* the read requests of the application, each sent once
  Waits,         \* its WAIT_ON_MASK requests, each sent once
  RxThreads,     \* threads running EvtUsbBulkInReadComplete
  TimerDpcs,     \* threads running EvtReadTimeoutTimer
  MaskSetters,   \* threads running SET_WAIT_MASK
  ModemThreads,  \* threads running SerialNotifyModemStatusChange
  PowerThreads,  \* threads running EvtDeviceD0Exit: one or, to leave it out, none
  Lengths,       \* the lengths a read can have
  TimeoutPool,   \* the SERIAL_TIMEOUTS values the application uses
  Masks,         \* the wait masks it uses, sets of events
  ModemEvents,   \* the events of the modem lines that the device moves
  RingSize,      \* capacity of RxBuffer in bytes
  MaxTransfer,   \* most bytes in one bulk IN transfer, 64 in the code
  MaxPackets,    \* bound: bulk IN transfers in one behaviour
  NULL

Requests == Reads \cup Waits
Threads ==
  RxThreads \cup TimerDpcs \cup MaskSetters \cup ModemThreads \cup PowerThreads

EV_RXCHAR == "EV_RXCHAR"
EV_CTS == "EV_CTS"
EV_DSR == "EV_DSR"
EV_RING == "EV_RING"
EV_RLSD == "EV_RLSD"
Events == {EV_RXCHAR, EV_CTS, EV_DSR, EV_RING, EV_RLSD}

(* Zero-length reads never reach the driver: the default queue leaves      *)
(* AllowZeroLengthRequests unset.                                          *)
ASSUME RxAssumption ==
  /\ Reads \cap Waits = {}
  /\ NULL \notin Requests
  /\ \A t \in RxThreads :
       t \notin TimerDpcs \cup MaskSetters \cup ModemThreads \cup PowerThreads
  /\ \A t \in TimerDpcs : t \notin MaskSetters \cup ModemThreads \cup PowerThreads
  /\ \A t \in MaskSetters : t \notin ModemThreads \cup PowerThreads
  /\ ModemThreads \cap PowerThreads = {}
  /\ Lengths \subseteq Nat \ {0}
  /\ TimeoutPool \subseteq SerialTimeouts
  /\ Masks \subseteq SUBSET Events
  /\ ModemEvents \subseteq Events \ {EV_RXCHAR}
  /\ RingSize \in Nat \ {0}
  /\ MaxTransfer \in Nat
  /\ MaxPackets \in Nat

VARIABLES
  \* DEVICE_CONTEXT
  PendingReadRequest, \* the read that waits for data, or NULL
  PendingReadLength,  \* its length; read outside the lock by the completers
  ReadTimer,          \* TRUE while the read timer is set
  PendingWaitRequest, \* the WAIT_ON_MASK that waits for an event, or NULL
  WaitMask,           \* the events it may be completed by
  ModemStatus,        \* the modem lines that are on, each named by its event
  Timeouts,           \* the SERIAL_TIMEOUTS in force
  newTimeouts,        \* what SET_TIMEOUTS is copying over it, or NULL
  rxAvailable,        \* bytes in RxBuffer
  \* the framework's view of a request
  cancel,             \* how far its cancellation is
  completions,        \* how often the driver completed it
  result,             \* what it was completed with
  \* the callbacks
  handler,            \* progress of the I/O callback a request was sent to
  length,             \* length of a read's buffer
  timeoutMs,          \* the timeout EvtIoRead computed for a pended read
  pc,                 \* progress of the other threads
  held,               \* the request such a thread took from its slot, or NULL
  newMask,            \* the mask a SET_WAIT_MASK thread is to store
  power,              \* whether the device is in D0, leaving it, or powered down
  packets             \* bulk IN transfers left under MaxPackets

readVars == <<PendingReadRequest, PendingReadLength, ReadTimer, length, timeoutMs>>
waitVars == <<PendingWaitRequest, WaitMask, ModemStatus, newMask>>
timeoutVars == <<Timeouts, newTimeouts>>
requestVars == <<cancel, completions, result>>
threadVars == <<pc, held>>
envVars == <<power, packets>>

vars == <<readVars, waitVars, timeoutVars, rxAvailable, requestVars, handler,
          threadVars, envVars>>

NoResult == [status |-> "NONE", info |-> 0]

(* EvtDeviceAdd zeroes the context. *)
FreshTimeouts == [interval |-> 0, multiplier |-> 0, constant |-> 0]

Init ==
  /\ PendingReadRequest = NULL
  /\ PendingReadLength = 0
  /\ ReadTimer = FALSE
  /\ PendingWaitRequest = NULL
  /\ WaitMask = {}
  /\ ModemStatus \in SUBSET ModemEvents
  /\ Timeouts = FreshTimeouts
  /\ newTimeouts = NULL
  /\ rxAvailable = 0
  /\ cancel = [r \in Requests |-> "no"]
  /\ completions = [r \in Requests |-> 0]
  /\ result = [r \in Requests |-> NoResult]
  /\ handler = [r \in Requests |-> "idle"]
  /\ length = [r \in Reads |-> 0]
  /\ timeoutMs = [r \in Reads |-> 0]
  /\ pc = [t \in Threads |-> "idle"]
  /\ held = [t \in Threads |-> NULL]
  /\ newMask = [t \in MaskSetters |-> {}]
  /\ power = "D0"
  /\ packets = MaxPackets

-----------------------------------------------------------------------------
(* The framework.  cancel[r] is                                            *)
(*   "no"         not cancelable by the framework, not cancelled           *)
(*   "requested"  cancelled by the application, not cancelable             *)
(*   "cancelable" the driver marked it cancelable                          *)
(*   "claimed"    cancelled while cancelable: the cancel routine will run  *)
(*   "running"    the cancel routine of a read has stopped the timer       *)
(*   "finished"   the cancel routine has returned                          *)

(* WdfRequestComplete and WdfRequestCompleteWithInformation. *)
Complete(r, status, info) ==
  /\ completions' = [completions EXCEPT ![r] = @ + 1]
  /\ result' = [result EXCEPT ![r] = [status |-> status, info |-> info]]

Completed(r) == completions[r] > 0

(* A wrong unmark: its status is ignored. *)
UnmarkIgnored(r) == TRUE

(* WdfRequestUnmarkCancelable succeeds only on a request that is marked    *)
(* and that no cancellation has claimed.                                   *)
UnmarkSucceeds(r) == cancel[r] = "cancelable"

(* WdfRequestMarkCancelableEx fails when the request is already cancelled. *)
MarkFails(r) == cancel[r] = "requested"

(* The application cancels a request it sent: CancelIo, closing the handle *)
(* or the end of a thread.                                                 *)
AppCancel(r) ==
  /\ handler[r] # "idle"
  /\ ~ Completed(r)
  /\ \/ /\ cancel[r] = "no"
        /\ cancel' = [cancel EXCEPT ![r] = "requested"]
     \/ /\ cancel[r] = "cancelable"
        /\ cancel' = [cancel EXCEPT ![r] = "claimed"]
  /\ UNCHANGED <<readVars, waitVars, timeoutVars, rxAvailable, completions,
                 result, handler, threadVars, envVars>>

(* Moves thread t to pc q holding request r. *)
Goto(t, q, r) ==
  /\ pc' = [pc EXCEPT ![t] = q]
  /\ held' = [held EXCEPT ![t] = r]
=============================================================================
