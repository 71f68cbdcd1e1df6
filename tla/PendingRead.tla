---------------------------- MODULE PendingRead ----------------------------
(***************************************************************************)
(* The read path of queue.c: EvtIoRead serves a read from RxBuffer or      *)
(* pends it in the single slot PendingReadRequest; the timer, the cancel   *)
(* routine and the receive path compete to complete a pended read.         *)
(***************************************************************************)
EXTENDS RxState

(* SET_TIMEOUTS copies the structure without the lock while EvtIoRead may  *)
(* be reading it, so until the copy has ended each field can be read old   *)
(* or new.  One SET_TIMEOUTS is in progress at a time.                     *)
ReadableTimeouts ==
  IF newTimeouts = NULL
    THEN {Timeouts}
    ELSE [interval   : {Timeouts.interval, newTimeouts.interval},
          multiplier : {Timeouts.multiplier, newTimeouts.multiplier},
          constant   : {Timeouts.constant, newTimeouts.constant}]

SetTimeouts(T) ==
  /\ newTimeouts = NULL
  /\ power = "D0"
  /\ newTimeouts' = T
  /\ UNCHANGED <<readVars, waitVars, Timeouts, rxAvailable, requestVars,
                 handler, threadVars, envVars>>

SetTimeoutsReturn ==
  /\ newTimeouts # NULL
  /\ Timeouts' = newTimeouts
  /\ newTimeouts' = NULL
  /\ UNCHANGED <<readVars, waitVars, rxAvailable, requestVars, handler,
                 threadVars, envVars>>

-----------------------------------------------------------------------------
(* EvtIoRead.  The four outcomes of its first locked region; a request     *)
(* that is answered there was never published, so completing it right      *)
(* after the release is part of the same action.                           *)

ReadFromBuffer(r, n) ==
  LET bytesRead == Lesser(n, rxAvailable) IN
  /\ rxAvailable > 0
  /\ rxAvailable' = rxAvailable - bytesRead
  /\ Complete(r, "SUCCESS", bytesRead)
  /\ handler' = [handler EXCEPT ![r] = "returned"]
  /\ UNCHANGED <<PendingReadRequest, PendingReadLength, timeoutMs>>

ReadAnsweredAtOnce(r, ms) ==
  /\ rxAvailable = 0
  /\ \/ /\ ms = 0
        /\ Complete(r, "SUCCESS", 0)
     \/ /\ ms > 0
        /\ PendingReadRequest # NULL
        /\ Complete(r, "DEVICE_BUSY", 0)
  /\ handler' = [handler EXCEPT ![r] = "returned"]
  /\ UNCHANGED <<PendingReadRequest, PendingReadLength, timeoutMs, rxAvailable>>

(* A wrong ReadPended: the buffer is not looked at under the same lock. *)
ReadPendedBlindly(r, n, ms) ==
  /\ ms > 0
  /\ PendingReadRequest = NULL
  /\ PendingReadRequest' = r
  /\ PendingReadLength' = n
  /\ timeoutMs' = [timeoutMs EXCEPT ![r] = ms]
  /\ handler' = [handler EXCEPT ![r] = "mark"]
  /\ UNCHANGED <<rxAvailable, completions, result>>

ReadPended(r, n, ms) ==
  /\ rxAvailable = 0
  /\ ms > 0
  /\ PendingReadRequest = NULL
  /\ PendingReadRequest' = r
  /\ PendingReadLength' = n
  /\ timeoutMs' = [timeoutMs EXCEPT ![r] = ms]
  /\ handler' = [handler EXCEPT ![r] = "mark"]
  /\ UNCHANGED <<rxAvailable, completions, result>>

EvtIoRead(r) ==
  /\ handler[r] = "idle"
  /\ power = "D0"
  /\ \E n \in Lengths, T \in ReadableTimeouts :
       LET ms == CalcReadTimeoutMs(T, n) IN
       /\ length' = [length EXCEPT ![r] = n]
       /\ \/ ReadFromBuffer(r, n)
          \/ ReadAnsweredAtOnce(r, ms)
          \/ ReadPended(r, n, ms)
  /\ UNCHANGED <<ReadTimer, cancel, waitVars, timeoutVars, threadVars, envVars>>

(* A wrong ReadMark: its status is ignored. *)
ReadMarkUnchecked(r) ==
  /\ handler[r] = "mark"
  /\ handler' = [handler EXCEPT ![r] =
                   IF timeoutMs[r] < MAXULONG THEN "startTimer" ELSE "returned"]
  /\ cancel' = [cancel EXCEPT ![r] = IF MarkFails(r) THEN @ ELSE "cancelable"]
  /\ UNCHANGED <<readVars, waitVars, timeoutVars, rxAvailable, completions,
                 result, threadVars, envVars>>

(* WdfRequestMarkCancelableEx, after the lock has been released. *)
ReadMark(r) ==
  /\ handler[r] = "mark"
  /\ IF MarkFails(r)
       THEN /\ handler' = [handler EXCEPT ![r] = "unpublish"]
            /\ UNCHANGED cancel
       ELSE /\ cancel' = [cancel EXCEPT ![r] = "cancelable"]
            /\ handler' = [handler EXCEPT ![r] =
                             IF timeoutMs[r] < MAXULONG THEN "startTimer" ELSE "returned"]
  /\ UNCHANGED <<readVars, waitVars, timeoutVars, rxAvailable, completions,
                 result, threadVars, envVars>>

(* The slot is cleared whatever it holds by now. *)
ReadUnpublish(r) ==
  /\ handler[r] = "unpublish"
  /\ PendingReadRequest' = NULL
  /\ Complete(r, "CANCELLED", 0)
  /\ handler' = [handler EXCEPT ![r] = "returned"]
  /\ UNCHANGED <<PendingReadLength, ReadTimer, length, timeoutMs, waitVars,
                 timeoutVars, rxAvailable, cancel, threadVars, envVars>>

(* A wrong ReadStartTimer: the timer is not started. *)
ReadSkipsTimer(r) ==
  /\ handler[r] = "startTimer"
  /\ handler' = [handler EXCEPT ![r] = "returned"]
  /\ UNCHANGED <<readVars, waitVars, timeoutVars, rxAvailable, requestVars,
                 threadVars, envVars>>

ReadStartTimer(r) ==
  /\ handler[r] = "startTimer"
  /\ ReadTimer' = TRUE
  /\ handler' = [handler EXCEPT ![r] = "returned"]
  /\ UNCHANGED <<PendingReadRequest, PendingReadLength, length, timeoutMs,
                 waitVars, timeoutVars, rxAvailable, requestVars, threadVars,
                 envVars>>

-----------------------------------------------------------------------------
(* Completing a read taken from the slot: QueueCompletePendingRead and the *)
(* timer callback share these two steps.  `after` is where the thread goes *)
(* when it is done with the request.                                       *)

(* WdfRequestUnmarkCancelable, then WdfRequestRetrieveOutputBuffer with    *)
(* the PendingReadLength of the moment.                                    *)
UnmarkRead(t, after) ==
  LET r == held[t] IN
  /\ pc[t] = "unmarkRead"
  /\ \/ /\ ~ UnmarkSucceeds(r)
        /\ Goto(t, after, NULL)
        /\ UNCHANGED requestVars
     \/ /\ UnmarkSucceeds(r)
        /\ PendingReadLength > length[r]
        /\ cancel' = [cancel EXCEPT ![r] = "no"]
        /\ Complete(r, "BUFFER_TOO_SMALL", 0)
        /\ Goto(t, after, NULL)
     \/ /\ UnmarkSucceeds(r)
        /\ PendingReadLength <= length[r]
        /\ cancel' = [cancel EXCEPT ![r] = "no"]
        /\ Goto(t, "copy", r)
        /\ UNCHANGED <<completions, result>>
  /\ UNCHANGED <<readVars, waitVars, timeoutVars, rxAvailable, handler, envVars>>

(* The second locked region: RingBufRead, again with the PendingReadLength *)
(* of the moment, and the completion.                                      *)
CopyToRead(t, after) ==
  LET bytesRead == Lesser(PendingReadLength, rxAvailable) IN
  /\ pc[t] = "copy"
  /\ rxAvailable' = rxAvailable - bytesRead
  /\ Complete(held[t], "SUCCESS", bytesRead)
  /\ Goto(t, after, NULL)
  /\ UNCHANGED <<readVars, waitVars, timeoutVars, cancel, handler, envVars>>

-----------------------------------------------------------------------------
(* The read timer. *)

(* The timer expires and its DPC is queued; WdfTimerStop(.., FALSE) can no *)
(* longer call it back.                                                    *)
TimerExpires(d) ==
  /\ ReadTimer
  /\ pc[d] = "idle"
  /\ ReadTimer' = FALSE
  /\ Goto(d, "take", NULL)
  /\ UNCHANGED <<PendingReadRequest, PendingReadLength, length, timeoutMs,
                 waitVars, timeoutVars, rxAvailable, requestVars, handler, envVars>>

(* A wrong TimerTakesRead: the slot is not cleared. *)
TimerPeeksRead(d) ==
  /\ pc[d] = "take"
  /\ IF PendingReadRequest = NULL
       THEN Goto(d, "idle", NULL)
       ELSE Goto(d, "unmarkRead", PendingReadRequest)
  /\ UNCHANGED <<readVars, waitVars, timeoutVars, rxAvailable, requestVars,
                 handler, envVars>>

(* EvtReadTimeoutTimer takes whatever read is pending now. *)
TimerTakesRead(d) ==
  /\ pc[d] = "take"
  /\ IF PendingReadRequest = NULL
       THEN Goto(d, "idle", NULL)
       ELSE Goto(d, "unmarkRead", PendingReadRequest)
  /\ PendingReadRequest' = NULL
  /\ UNCHANGED <<PendingReadLength, ReadTimer, length, timeoutMs, waitVars,
                 timeoutVars, rxAvailable, requestVars, handler, envVars>>

TimerUnmarksRead(d) == UnmarkRead(d, "idle")

TimerCopies(d) == CopyToRead(d, "idle")

-----------------------------------------------------------------------------
(* EvtPendingReadCancel. *)

ReadCancelStopsTimer(r) ==
  /\ cancel[r] = "claimed"
  /\ ReadTimer' = FALSE
  /\ cancel' = [cancel EXCEPT ![r] = "running"]
  /\ UNCHANGED <<PendingReadRequest, PendingReadLength, length, timeoutMs,
                 waitVars, timeoutVars, rxAvailable, completions, result, handler,
                 threadVars, envVars>>

ReadCancelCompletes(r) ==
  /\ cancel[r] = "running"
  /\ PendingReadRequest' = IF PendingReadRequest = r THEN NULL ELSE PendingReadRequest
  /\ Complete(r, "CANCELLED", 0)
  /\ cancel' = [cancel EXCEPT ![r] = "finished"]
  /\ UNCHANGED <<PendingReadLength, ReadTimer, length, timeoutMs, waitVars,
                 timeoutVars, rxAvailable, handler, threadVars, envVars>>
=============================================================================
