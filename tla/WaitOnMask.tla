----------------------------- MODULE WaitOnMask -----------------------------
(***************************************************************************)
(* WaitCommEvent in serial.c: IOCTL_SERIAL_WAIT_ON_MASK pends a request in *)
(* the single slot PendingWaitRequest, IOCTL_SERIAL_SET_WAIT_MASK sends    *)
(* the pended one back and stores a new mask, a cancel routine, and the    *)
(* modem lines whose changes are events to wait for.                       *)
(***************************************************************************)
EXTENDS RxState

ULONG_SIZE == 4  \* sizeof(ULONG), the size of the event mask returned

(* The first locked region of WAIT_ON_MASK.  A zero mask, an occupied slot *)
(* and data already in the buffer answer the request at once.              *)
WaitAnsweredAtOnce(w) ==
  /\ \/ /\ WaitMask = {}
        /\ Complete(w, "INVALID_PARAMETER", 0)
     \/ /\ WaitMask # {}
        /\ PendingWaitRequest # NULL
        /\ Complete(w, "INVALID_DEVICE_REQUEST", 0)
     \/ /\ PendingWaitRequest = NULL
        /\ EV_RXCHAR \in WaitMask
        /\ rxAvailable > 0
        /\ Complete(w, "SUCCESS", ULONG_SIZE)
  /\ handler' = [handler EXCEPT ![w] = "returned"]
  /\ UNCHANGED PendingWaitRequest

WaitPended(w) ==
  /\ WaitMask # {}
  /\ PendingWaitRequest = NULL
  /\ ~ (EV_RXCHAR \in WaitMask /\ rxAvailable > 0)
  /\ PendingWaitRequest' = w
  /\ handler' = [handler EXCEPT ![w] = "mark"]
  /\ UNCHANGED <<completions, result>>

WaitOnMask(w) ==
  /\ handler[w] = "idle"
  /\ power = "D0"
  /\ WaitAnsweredAtOnce(w) \/ WaitPended(w)
  /\ UNCHANGED <<readVars, WaitMask, ModemStatus, newMask, timeoutVars,
                 rxAvailable, cancel, threadVars, envVars>>

WaitMark(w) ==
  /\ handler[w] = "mark"
  /\ IF MarkFails(w)
       THEN /\ handler' = [handler EXCEPT ![w] = "unpublish"]
            /\ UNCHANGED cancel
       ELSE /\ handler' = [handler EXCEPT ![w] = "returned"]
            /\ cancel' = [cancel EXCEPT ![w] = "cancelable"]
  /\ UNCHANGED <<readVars, waitVars, timeoutVars, rxAvailable, completions,
                 result, threadVars, envVars>>

(* As in EvtIoRead, the slot is cleared whatever it holds by now; the      *)
(* request is completed at the end of SerialHandleIoctl.                   *)
WaitUnpublish(w) ==
  /\ handler[w] = "unpublish"
  /\ PendingWaitRequest' = NULL
  /\ Complete(w, "CANCELLED", 0)
  /\ handler' = [handler EXCEPT ![w] = "returned"]
  /\ UNCHANGED <<readVars, WaitMask, ModemStatus, newMask, timeoutVars,
                 rxAvailable, cancel, threadVars, envVars>>

(* EvtWaitOnMaskCancel. *)
WaitCancelCompletes(w) ==
  /\ cancel[w] = "claimed"
  /\ PendingWaitRequest' = IF PendingWaitRequest = w THEN NULL ELSE PendingWaitRequest
  /\ Complete(w, "CANCELLED", 0)
  /\ cancel' = [cancel EXCEPT ![w] = "finished"]
  /\ UNCHANGED <<readVars, WaitMask, ModemStatus, newMask, timeoutVars,
                 rxAvailable, handler, threadVars, envVars>>

(* A wrong AnswerWait: the status of the unmark is ignored. *)
AnswerWaitUnchecked(t, info) ==
  /\ UNCHANGED cancel
  /\ Complete(held[t], "SUCCESS", info)

(* A thread that took a wait from the slot answers it, unless the unmark   *)
(* fails.                                                                  *)
AnswerWait(t, info) ==
  LET w == held[t] IN
  IF UnmarkSucceeds(w)
    THEN /\ cancel' = [cancel EXCEPT ![w] = "no"]
         /\ Complete(w, "SUCCESS", info)
    ELSE UNCHANGED requestVars

-----------------------------------------------------------------------------
(* IOCTL_SERIAL_SET_WAIT_MASK. *)

(* A wrong SetWaitMask: the slot is not cleared. *)
SetWaitMaskKeepsSlot(s, mask) ==
  /\ pc[s] = "idle"
  /\ power = "D0"
  /\ IF PendingWaitRequest = NULL
       THEN /\ WaitMask' = mask
            /\ UNCHANGED <<newMask, threadVars>>
       ELSE /\ newMask' = [newMask EXCEPT ![s] = mask]
            /\ Goto(s, "unmarkWait", PendingWaitRequest)
            /\ UNCHANGED WaitMask
  /\ UNCHANGED <<readVars, PendingWaitRequest, ModemStatus, timeoutVars,
                 rxAvailable, requestVars, handler, envVars>>

SetWaitMask(s, mask) ==
  /\ pc[s] = "idle"
  /\ power = "D0"
  /\ IF PendingWaitRequest = NULL
       THEN /\ WaitMask' = mask
            /\ UNCHANGED <<newMask, threadVars>>
       ELSE /\ newMask' = [newMask EXCEPT ![s] = mask]
            /\ Goto(s, "unmarkWait", PendingWaitRequest)
            /\ UNCHANGED WaitMask
  /\ PendingWaitRequest' = NULL
  /\ UNCHANGED <<readVars, ModemStatus, timeoutVars, rxAvailable, requestVars,
                 handler, envVars>>

SetWaitMaskAnswersOld(s) ==
  /\ pc[s] = "unmarkWait"
  /\ AnswerWait(s, 0)
  /\ Goto(s, "store", NULL)
  /\ UNCHANGED <<readVars, waitVars, timeoutVars, rxAvailable, handler, envVars>>

SetWaitMaskStores(s) ==
  /\ pc[s] = "store"
  /\ WaitMask' = newMask[s]
  /\ Goto(s, "idle", NULL)
  /\ UNCHANGED <<readVars, PendingWaitRequest, ModemStatus, newMask, timeoutVars,
                 rxAvailable, requestVars, handler, envVars>>

-----------------------------------------------------------------------------
(* The modem lines.  PreviousModemStatus is never read and left out. *)

(* IOCTL_SERIAL_GET_MODEMSTATUS stores what it has read from the chip some *)
(* time ago, without the lock.                                             *)
GetModemStatus ==
  /\ power = "D0"
  /\ ModemStatus' \in SUBSET ModemEvents
  /\ UNCHANGED <<readVars, PendingWaitRequest, WaitMask, newMask, timeoutVars,
                 rxAvailable, requestVars, handler, threadVars, envVars>>

(* A wrong SerialNotifyModemStatusChange: the slot is not cleared. *)
NotifyKeepsSlot(m, lines) ==
  LET changed == (ModemStatus \ lines) \cup (lines \ ModemStatus) IN
  /\ pc[m] = "idle"
  /\ ModemStatus' = lines
  /\ IF changed \cap WaitMask # {} /\ PendingWaitRequest # NULL
       THEN Goto(m, "unmarkWait", PendingWaitRequest)
       ELSE UNCHANGED threadVars
  /\ UNCHANGED <<readVars, PendingWaitRequest, WaitMask, newMask, timeoutVars,
                 rxAvailable, requestVars, handler, envVars>>

(* SerialNotifyModemStatusChange, for a caller that has learnt the state   *)
(* of the lines.  The driver as it stands has no such caller: ModemThreads *)
(* is empty for it, and otherwise stands for the one serial.h declares the *)
(* function for.                                                           *)
SerialNotifyModemStatusChange(m, lines) ==
  LET changed == (ModemStatus \ lines) \cup (lines \ ModemStatus) IN
  /\ pc[m] = "idle"
  /\ ModemStatus' = lines
  /\ IF changed \cap WaitMask # {} /\ PendingWaitRequest # NULL
       THEN /\ Goto(m, "unmarkWait", PendingWaitRequest)
            /\ PendingWaitRequest' = NULL
       ELSE UNCHANGED <<threadVars, PendingWaitRequest>>
  /\ UNCHANGED <<readVars, WaitMask, newMask, timeoutVars, rxAvailable,
                 requestVars, handler, envVars>>

ModemAnswersWait(m) ==
  /\ pc[m] = "unmarkWait"
  /\ AnswerWait(m, ULONG_SIZE)
  /\ Goto(m, "idle", NULL)
  /\ UNCHANGED <<readVars, waitVars, timeoutVars, rxAvailable, handler, envVars>>
=============================================================================
