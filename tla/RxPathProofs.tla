---------------------------- MODULE RxPathProofs ----------------------------
(***************************************************************************)
(* Proofs about RxPath, for any number of requests and threads, any ring   *)
(* size, any transfer sizes and any set of timeouts and masks.             *)
(***************************************************************************)
EXTENDS RxPath, TLAPS

USE RxAssumption, MaxUlongAssumption
    DEF readVars, waitVars, timeoutVars, requestVars, threadVars, envVars,
        CancelStates, HandlerStates, ThreadStates

-----------------------------------------------------------------------------
(* Type correctness. *)

(* The timeout EvtIoRead works with is a natural number. *)
LEMMA TimeoutIsNat ==
  ASSUME NEW T \in SerialTimeouts, NEW n \in Nat
  PROVE  CalcReadTimeoutMs(T, n) \in Nat
<1>1. T.constant \in Nat /\ T.multiplier \in Nat /\ MAXULONG \in Nat
  BY DEF SerialTimeouts, ULONG
<1>2. T.multiplier * n \in Nat
  BY <1>1
<1> QED
  BY <1>1, <1>2 DEF CalcReadTimeoutMs, TotalTimeout

(* Even a torn read of Timeouts yields a SERIAL_TIMEOUTS value. *)
LEMMA TornTimeoutsAreTimeouts ==
  ASSUME TypeOK
  PROVE  ReadableTimeouts \subseteq SerialTimeouts
<1>1. Timeouts \in SerialTimeouts
  BY DEF TypeOK
<1>2. newTimeouts # NULL => newTimeouts \in SerialTimeouts
  BY DEF TypeOK
<1> QED
  BY <1>1, <1>2 DEF ReadableTimeouts, SerialTimeouts

LEMMA LesserIsNat ==
  \A a, b \in Nat : Lesser(a, b) \in Nat /\ Lesser(a, b) <= a /\ Lesser(a, b) <= b
BY DEF Lesser

(* Completing a request with a status and a length keeps the types. *)
LEMMA CompleteType ==
  ASSUME TypeOK, NEW r \in Requests, NEW status \in Statuses, NEW info \in Nat,
         Complete(r, status, info)
  PROVE  /\ completions' \in [Requests -> Nat]
         /\ result' \in [Requests -> Outcome]
<1>1. [status |-> status, info |-> info] \in Outcome
  BY DEF Outcome
<1> QED
  BY <1>1 DEF TypeOK, Complete

(* Marking or unmarking a request keeps the types, and so does moving a    *)
(* thread.                                                                 *)
LEMMA CancelType ==
  ASSUME TypeOK, NEW r \in Requests,
         NEW c \in CancelStates,
         cancel' = [cancel EXCEPT ![r] = c]
  PROVE  cancel' \in [Requests -> CancelStates]
BY DEF TypeOK

LEMMA GotoType ==
  ASSUME TypeOK, NEW t \in Threads, NEW r \in Requests \cup {NULL},
         NEW q \in ThreadStates,
         Goto(t, q, r)
  PROVE  /\ pc' \in [Threads -> ThreadStates]
         /\ held' \in [Threads -> Requests \cup {NULL}]
BY DEF TypeOK, Goto

LEMMA InitTypeOK == Init => TypeOK
<1> SUFFICES ASSUME Init PROVE TypeOK
  OBVIOUS
<1>1. NoResult \in Outcome
  BY DEF NoResult, Outcome, Statuses
<1>2. /\ result \in [Requests -> Outcome]
      /\ newMask \in [MaskSetters -> Masks \cup {{}}]
      /\ WaitMask \in Masks \cup {{}}
  BY <1>1 DEF Init
<1>3. rxAvailable \in 0..RingSize /\ packets \in 0..MaxPackets
  BY DEF Init
<1>4. /\ cancel \in [Requests -> CancelStates]
      /\ completions \in [Requests -> Nat]
      /\ handler \in [Requests -> HandlerStates]
  BY DEF Init
<1>5. /\ pc \in [Threads -> ThreadStates]
      /\ held \in [Threads -> Requests \cup {NULL}]
  BY DEF Init
<1>6. length \in [Reads -> Nat] /\ timeoutMs \in [Reads -> Nat] /\ PendingReadLength \in Nat
  BY DEF Init
<1>7. FreshTimeouts \in SerialTimeouts
  BY DEF FreshTimeouts, SerialTimeouts, ULONG
<1>8. Timeouts \in SerialTimeouts /\ newTimeouts \in SerialTimeouts \cup {NULL}
  BY <1>7 DEF Init
<1>9. PendingReadRequest \in Reads \cup {NULL} /\ PendingWaitRequest \in Waits \cup {NULL}
  BY DEF Init
<1>10. ReadTimer \in BOOLEAN /\ power \in {"D0", "exit", "Dx"}
  BY DEF Init
<1>11. ModemStatus \subseteq ModemEvents
  BY DEF Init
<1> QED
  BY <1>2, <1>3, <1>4, <1>5, <1>6, <1>8, <1>9, <1>10, <1>11 DEF TypeOK

LEMMA EvtIoReadTypeOK ==
  ASSUME TypeOK, NEW r \in Reads, EvtIoRead(r)
  PROVE  TypeOK'
<1>1. PICK n \in Lengths, T \in ReadableTimeouts :
        /\ length' = [length EXCEPT ![r] = n]
        /\ \/ ReadFromBuffer(r, n)
           \/ ReadAnsweredAtOnce(r, CalcReadTimeoutMs(T, n))
           \/ ReadPended(r, n, CalcReadTimeoutMs(T, n))
  BY DEF EvtIoRead
<1> DEFINE ms == CalcReadTimeoutMs(T, n)
<1>2. /\ r \in Requests /\ n \in Nat /\ rxAvailable \in Nat
      /\ {"SUCCESS", "DEVICE_BUSY"} \subseteq Statuses
  BY DEF TypeOK, Requests, Statuses
<1>3. ms \in Nat
  BY <1>2, TornTimeoutsAreTimeouts, TimeoutIsNat
<1> HIDE DEF ms
<1>4. /\ length' \in [Reads -> Nat]
      /\ UNCHANGED <<ReadTimer, cancel, waitVars, timeoutVars, threadVars, envVars>>
  BY <1>1, <1>2 DEF TypeOK, EvtIoRead
<1>5. CASE ReadFromBuffer(r, n)
  <2>1. Lesser(n, rxAvailable) \in Nat /\ Lesser(n, rxAvailable) <= rxAvailable
    BY <1>2, LesserIsNat
  <2>2. completions' \in [Requests -> Nat] /\ result' \in [Requests -> Outcome]
    BY <1>2, <1>5, <2>1, CompleteType DEF ReadFromBuffer
  <2>3. rxAvailable' \in 0..RingSize
    BY <1>5, <2>1 DEF ReadFromBuffer, TypeOK
  <2> QED
    BY <1>2, <1>4, <1>5, <2>2, <2>3 DEF ReadFromBuffer, TypeOK
<1>6. CASE ReadAnsweredAtOnce(r, ms)
  <2>1. completions' \in [Requests -> Nat] /\ result' \in [Requests -> Outcome]
    BY <1>2, <1>6, CompleteType DEF ReadAnsweredAtOnce
  <2> QED
    BY <1>2, <1>4, <1>6, <2>1 DEF ReadAnsweredAtOnce, TypeOK
<1>7. CASE ReadPended(r, n, ms)
  BY <1>2, <1>3, <1>4, <1>7 DEF ReadPended, TypeOK
<1> QED
  BY <1>1, <1>5, <1>6, <1>7 DEF ms

LEMMA ReadHandlerTypeOK ==
  ASSUME TypeOK, NEW r \in Reads, ReadHandler(r)
  PROVE  TypeOK'
<1>1. r \in Requests /\ "CANCELLED" \in Statuses /\ 0 \in Nat
  BY DEF Requests, Statuses
<1>2. CASE ReadMark(r)
  BY <1>1, <1>2 DEF ReadMark, TypeOK
<1>3. CASE ReadUnpublish(r)
  <2>1. completions' \in [Requests -> Nat] /\ result' \in [Requests -> Outcome]
    BY <1>1, <1>3, CompleteType DEF ReadUnpublish
  <2> QED
    BY <1>1, <1>3, <2>1 DEF ReadUnpublish, TypeOK
<1>4. CASE ReadStartTimer(r)
  BY <1>1, <1>4 DEF ReadStartTimer, TypeOK
<1> QED
  BY <1>2, <1>3, <1>4 DEF ReadHandler

LEMMA ReadCancelRoutineTypeOK ==
  ASSUME TypeOK, NEW r \in Reads, ReadCancelRoutine(r)
  PROVE  TypeOK'
<1>1. r \in Requests /\ "CANCELLED" \in Statuses /\ 0 \in Nat
  BY DEF Requests, Statuses
<1>2. CASE ReadCancelStopsTimer(r)
  BY <1>1, <1>2, CancelType DEF ReadCancelStopsTimer, TypeOK
<1>3. CASE ReadCancelCompletes(r)
  <2>1. completions' \in [Requests -> Nat] /\ result' \in [Requests -> Outcome]
    BY <1>1, <1>3, CompleteType DEF ReadCancelCompletes
  <2> QED
    BY <1>1, <1>3, <2>1, CancelType DEF ReadCancelCompletes, TypeOK
<1> QED
  BY <1>2, <1>3 DEF ReadCancelRoutine

LEMMA WaitOnMaskTypeOK ==
  ASSUME TypeOK, NEW w \in Waits, WaitOnMask(w)
  PROVE  TypeOK'
<1>1. /\ w \in Requests /\ 0 \in Nat /\ ULONG_SIZE \in Nat
      /\ {"SUCCESS", "INVALID_PARAMETER", "INVALID_DEVICE_REQUEST"} \subseteq Statuses
  BY DEF Requests, Statuses, ULONG_SIZE
<1>2. CASE WaitAnsweredAtOnce(w)
  <2>1. completions' \in [Requests -> Nat] /\ result' \in [Requests -> Outcome]
    BY <1>1, <1>2, CompleteType DEF WaitAnsweredAtOnce
  <2> QED
    BY <1>1, <1>2, <2>1 DEF WaitOnMask, WaitAnsweredAtOnce, TypeOK
<1>3. CASE WaitPended(w)
  BY <1>1, <1>3 DEF WaitOnMask, WaitPended, TypeOK
<1> QED
  BY <1>2, <1>3 DEF WaitOnMask

LEMMA WaitHandlerTypeOK ==
  ASSUME TypeOK, NEW w \in Waits, WaitHandler(w)
  PROVE  TypeOK'
<1>1. w \in Requests /\ "CANCELLED" \in Statuses /\ 0 \in Nat
  BY DEF Requests, Statuses
<1>2. CASE WaitMark(w)
  BY <1>1, <1>2 DEF WaitMark, TypeOK
<1>3. CASE WaitUnpublish(w)
  <2>1. completions' \in [Requests -> Nat] /\ result' \in [Requests -> Outcome]
    BY <1>1, <1>3, CompleteType DEF WaitUnpublish
  <2> QED
    BY <1>1, <1>3, <2>1 DEF WaitUnpublish, TypeOK
<1> QED
  BY <1>2, <1>3 DEF WaitHandler

LEMMA WaitCancelTypeOK ==
  ASSUME TypeOK, NEW w \in Waits, WaitCancelCompletes(w)
  PROVE  TypeOK'
<1>1. w \in Requests /\ "CANCELLED" \in Statuses /\ 0 \in Nat
  BY DEF Requests, Statuses
<1>2. completions' \in [Requests -> Nat] /\ result' \in [Requests -> Outcome]
  BY <1>1, CompleteType DEF WaitCancelCompletes
<1> QED
  BY <1>1, <1>2, CancelType DEF WaitCancelCompletes, TypeOK

(* The three steps several threads share. *)
LEMMA UnmarkReadTypeOK ==
  ASSUME TypeOK, NEW t \in Threads, held[t] \in Requests,
         NEW after \in ThreadStates, UnmarkRead(t, after)
  PROVE  TypeOK'
<1>1. "BUFFER_TOO_SMALL" \in Statuses /\ 0 \in Nat
  BY DEF Statuses
<1>2. completions' \in [Requests -> Nat] /\ result' \in [Requests -> Outcome]
  BY <1>1, CompleteType DEF UnmarkRead, TypeOK
<1>3. cancel' \in [Requests -> CancelStates]
  BY CancelType DEF UnmarkRead, TypeOK
<1>4. pc' \in [Threads -> ThreadStates] /\ held' \in [Threads -> Requests \cup {NULL}]
  BY GotoType DEF UnmarkRead
<1> QED
  BY <1>2, <1>3, <1>4 DEF UnmarkRead, TypeOK

LEMMA CopyToReadTypeOK ==
  ASSUME TypeOK, NEW t \in Threads, held[t] \in Requests,
         NEW after \in ThreadStates, CopyToRead(t, after)
  PROVE  TypeOK'
<1> DEFINE n == Lesser(PendingReadLength, rxAvailable)
<1>0. PendingReadLength \in Nat /\ rxAvailable \in 0..RingSize
  BY DEF TypeOK
<1>1. n \in Nat /\ n <= rxAvailable
  BY <1>0, LesserIsNat
<1>2. completions' \in [Requests -> Nat] /\ result' \in [Requests -> Outcome]
  BY <1>1, CompleteType DEF CopyToRead, Statuses
<1>3. rxAvailable' \in 0..RingSize
  BY <1>0, <1>1 DEF CopyToRead
<1>4. pc' \in [Threads -> ThreadStates] /\ held' \in [Threads -> Requests \cup {NULL}]
  BY GotoType DEF CopyToRead
<1> QED
  BY <1>2, <1>3, <1>4 DEF CopyToRead, TypeOK

LEMMA AnswerWaitType ==
  ASSUME TypeOK, NEW t \in Threads, held[t] \in Requests, NEW info \in Nat,
         AnswerWait(t, info)
  PROVE  /\ completions' \in [Requests -> Nat] /\ result' \in [Requests -> Outcome]
         /\ cancel' \in [Requests -> CancelStates]
<1>1. CASE UnmarkSucceeds(held[t])
  <2>1. "SUCCESS" \in Statuses /\ Complete(held[t], "SUCCESS", info)
    BY <1>1 DEF AnswerWait, Statuses
  <2> QED
    BY <1>1, <2>1, CompleteType, CancelType DEF AnswerWait
<1>2. CASE ~ UnmarkSucceeds(held[t])
  BY <1>2 DEF AnswerWait, TypeOK
<1> QED
  BY <1>1, <1>2

LEMMA CheckWaitType ==
  ASSUME TypeOK, NEW x \in Threads, CheckWait(x)
  PROVE  /\ pc' \in [Threads -> ThreadStates]
         /\ held' \in [Threads -> Requests \cup {NULL}]
         /\ PendingWaitRequest' \in Waits \cup {NULL}
<1>1. PendingWaitRequest \in Requests \cup {NULL}
  BY DEF TypeOK, Requests
<1>2. CASE WaitSignalled
  BY <1>1, <1>2, GotoType DEF CheckWait
<1>3. CASE ~ WaitSignalled
  BY <1>3, GotoType DEF CheckWait, TypeOK
<1> QED
  BY <1>2, <1>3

LEMMA EvtUsbBulkInReadCompleteTypeOK ==
  ASSUME TypeOK, NEW x \in RxThreads, EvtUsbBulkInReadComplete(x)
  PROVE  TypeOK'
<1>1. x \in Threads /\ PendingReadRequest \in Requests \cup {NULL}
  BY DEF Threads, TypeOK, Requests
<1>2. PICK n \in 1..MaxTransfer :
        LET written == Lesser(n, RingSize - rxAvailable) IN
        /\ rxAvailable' = rxAvailable + written
        /\ \/ /\ Goto(x, "stopTimer", PendingReadRequest)
              /\ PendingReadRequest' = NULL
              /\ UNCHANGED PendingWaitRequest
           \/ CheckWait(x) /\ UNCHANGED PendingReadRequest
           \/ UNCHANGED <<threadVars, PendingReadRequest, PendingWaitRequest>>
  BY DEF EvtUsbBulkInReadComplete
<1>3. rxAvailable' \in 0..RingSize
  <2>1. n \in Nat /\ RingSize - rxAvailable \in Nat
    BY DEF TypeOK
  <2>2. /\ Lesser(n, RingSize - rxAvailable) \in Nat
        /\ Lesser(n, RingSize - rxAvailable) <= RingSize - rxAvailable
    BY <2>1, LesserIsNat
  <2> QED
    BY <1>2, <2>1, <2>2 DEF TypeOK
<1>4. packets' \in 0..MaxPackets
  BY DEF EvtUsbBulkInReadComplete, TypeOK
<1>5. /\ pc' \in [Threads -> ThreadStates]
      /\ held' \in [Threads -> Requests \cup {NULL}]
      /\ PendingReadRequest' \in Reads \cup {NULL}
      /\ PendingWaitRequest' \in Waits \cup {NULL}
  BY <1>1, <1>2, GotoType, CheckWaitType DEF TypeOK
<1> QED
  BY <1>3, <1>4, <1>5 DEF EvtUsbBulkInReadComplete, TypeOK

LEMMA TimerDpcTypeOK ==
  ASSUME TypeOK, HeldWhenNeeded, CopierOwns, NEW d \in TimerDpcs,
         TimerExpires(d) \/ TimerDpc(d)
  PROVE  TypeOK'
<1>1. d \in Threads /\ PendingReadRequest \in Requests \cup {NULL}
  BY DEF Threads, TypeOK, Requests
<1>2. CASE TimerExpires(d)
  <2>1. pc' \in [Threads -> ThreadStates] /\ held' \in [Threads -> Requests \cup {NULL}]
    BY <1>1, <1>2, GotoType DEF TimerExpires
  <2> QED
    BY <1>2, <2>1 DEF TimerExpires, TypeOK
<1>3. CASE TimerTakesRead(d)
  <2>1. pc' \in [Threads -> ThreadStates] /\ held' \in [Threads -> Requests \cup {NULL}]
    BY <1>1, <1>3, GotoType DEF TimerTakesRead
  <2> QED
    BY <1>3, <2>1 DEF TimerTakesRead, TypeOK
<1>4. CASE TimerUnmarksRead(d)
  BY <1>1, <1>4, UnmarkReadTypeOK DEF TimerUnmarksRead, UnmarkRead, HeldWhenNeeded, Requests
<1>5. CASE TimerCopies(d)
  BY <1>1, <1>5, CopyToReadTypeOK DEF TimerCopies, CopyToRead, CopierOwns, Requests
<1> QED
  BY <1>2, <1>3, <1>4, <1>5 DEF TimerDpc

LEMMA RxThreadTypeOK ==
  ASSUME TypeOK, HeldWhenNeeded, CopierOwns, NEW x \in RxThreads, RxThread(x)
  PROVE  TypeOK'
<1>1. x \in Threads
  BY DEF Threads
<1>2. CASE RxStopsTimer(x)
  <2>1. held[x] \in Requests \cup {NULL}
    BY <1>1 DEF TypeOK
  <2>2. pc' \in [Threads -> ThreadStates] /\ held' \in [Threads -> Requests \cup {NULL}]
    BY <1>1, <1>2, <2>1, GotoType DEF RxStopsTimer
  <2> QED
    BY <1>2, <2>2 DEF RxStopsTimer, TypeOK
<1>3. CASE RxUnmarksRead(x)
  BY <1>1, <1>3, UnmarkReadTypeOK DEF RxUnmarksRead, UnmarkRead, HeldWhenNeeded, Requests
<1>4. CASE RxCopies(x)
  BY <1>1, <1>4, CopyToReadTypeOK DEF RxCopies, CopyToRead, CopierOwns, Requests
<1>5. CASE RxChecksWait(x)
  BY <1>1, <1>5, CheckWaitType DEF RxChecksWait, TypeOK
<1>6. CASE RxAnswersWait(x)
  <2>1. held[x] \in Requests /\ ULONG_SIZE \in Nat
    BY <1>1, <1>6 DEF RxAnswersWait, HeldWhenNeeded, Requests, ULONG_SIZE
  <2>2. /\ completions' \in [Requests -> Nat] /\ result' \in [Requests -> Outcome]
        /\ cancel' \in [Requests -> CancelStates]
    BY <1>1, <1>6, <2>1, AnswerWaitType DEF RxAnswersWait
  <2>3. pc' \in [Threads -> ThreadStates] /\ held' \in [Threads -> Requests \cup {NULL}]
    BY <1>1, <1>6, GotoType DEF RxAnswersWait
  <2> QED
    BY <1>6, <2>2, <2>3 DEF RxAnswersWait, TypeOK
<1> QED
  BY <1>2, <1>3, <1>4, <1>5, <1>6 DEF RxThread

LEMMA SetWaitMaskTypeOK ==
  ASSUME TypeOK, NEW s \in MaskSetters, NEW mask \in Masks, SetWaitMask(s, mask)
  PROVE  TypeOK'
<1>1. s \in Threads /\ PendingWaitRequest \in Requests \cup {NULL}
  BY DEF Threads, TypeOK, Requests
<1>2. pc' \in [Threads -> ThreadStates] /\ held' \in [Threads -> Requests \cup {NULL}]
  BY <1>1, GotoType DEF SetWaitMask, TypeOK
<1>3. newMask' \in [MaskSetters -> Masks \cup {{}}] /\ WaitMask' \in Masks \cup {{}}
  BY DEF SetWaitMask, TypeOK
<1> QED
  BY <1>2, <1>3 DEF SetWaitMask, TypeOK

LEMMA MaskSetterTypeOK ==
  ASSUME TypeOK, HeldWhenNeeded, NEW s \in MaskSetters, MaskSetter(s)
  PROVE  TypeOK'
<1>1. s \in Threads
  BY DEF Threads
<1>3. CASE SetWaitMaskAnswersOld(s)
  <2>1. held[s] \in Requests /\ 0 \in Nat
    BY <1>1, <1>3 DEF SetWaitMaskAnswersOld, HeldWhenNeeded, Requests
  <2>2. /\ completions' \in [Requests -> Nat] /\ result' \in [Requests -> Outcome]
        /\ cancel' \in [Requests -> CancelStates]
    BY <1>1, <1>3, <2>1, AnswerWaitType DEF SetWaitMaskAnswersOld
  <2>3. pc' \in [Threads -> ThreadStates] /\ held' \in [Threads -> Requests \cup {NULL}]
    BY <1>1, <1>3, GotoType DEF SetWaitMaskAnswersOld
  <2> QED
    BY <1>3, <2>2, <2>3 DEF SetWaitMaskAnswersOld, TypeOK
<1>4. CASE SetWaitMaskStores(s)
  <2>1. pc' \in [Threads -> ThreadStates] /\ held' \in [Threads -> Requests \cup {NULL}]
    BY <1>1, <1>4, GotoType DEF SetWaitMaskStores
  <2>2. newMask[s] \in Masks \cup {{}}
    BY DEF TypeOK
  <2> QED
    BY <1>4, <2>1, <2>2 DEF SetWaitMaskStores, TypeOK
<1> QED
  BY <1>3, <1>4 DEF MaskSetter

LEMMA NotifyTypeOK ==
  ASSUME TypeOK, NEW m \in ModemThreads, NEW lines \in SUBSET ModemEvents,
         SerialNotifyModemStatusChange(m, lines)
  PROVE  TypeOK'
<1>1. m \in Threads /\ PendingWaitRequest \in Requests \cup {NULL}
  BY DEF Threads, TypeOK, Requests
<1>2. pc' \in [Threads -> ThreadStates] /\ held' \in [Threads -> Requests \cup {NULL}]
  BY <1>1, GotoType DEF SerialNotifyModemStatusChange, TypeOK
<1>3. /\ ModemStatus' \subseteq ModemEvents
      /\ PendingWaitRequest' \in Waits \cup {NULL}
  BY DEF SerialNotifyModemStatusChange, TypeOK
<1> QED
  BY <1>2, <1>3 DEF SerialNotifyModemStatusChange, TypeOK

LEMMA ModemAnswersWaitTypeOK ==
  ASSUME TypeOK, HeldWhenNeeded, NEW m \in ModemThreads, ModemAnswersWait(m)
  PROVE  TypeOK'
<1>1. m \in Threads
  BY DEF Threads
<1>2. held[m] \in Requests /\ ULONG_SIZE \in Nat
  BY <1>1 DEF ModemAnswersWait, HeldWhenNeeded, Requests, ULONG_SIZE
<1>3. /\ completions' \in [Requests -> Nat] /\ result' \in [Requests -> Outcome]
      /\ cancel' \in [Requests -> CancelStates]
  BY <1>1, <1>2, AnswerWaitType DEF ModemAnswersWait
<1>4. pc' \in [Threads -> ThreadStates] /\ held' \in [Threads -> Requests \cup {NULL}]
  BY <1>1, GotoType DEF ModemAnswersWait
<1> QED
  BY <1>3, <1>4 DEF ModemAnswersWait, TypeOK

LEMMA PowerThreadTypeOK ==
  ASSUME TypeOK, HeldWhenNeeded, NEW p \in PowerThreads,
         EvtDeviceD0Exit(p) \/ PowerThread(p)
  PROVE  TypeOK'
<1>1. /\ p \in Threads /\ PendingReadRequest \in Requests \cup {NULL}
      /\ 0 \in 0..RingSize
  BY DEF Threads, TypeOK, Requests
<1>2. CASE EvtDeviceD0Exit(p)
  <2>1. pc' \in [Threads -> ThreadStates] /\ held' \in [Threads -> Requests \cup {NULL}]
    BY <1>1, <1>2, GotoType DEF EvtDeviceD0Exit
  <2> QED
    BY <1>2, <2>1 DEF EvtDeviceD0Exit, TypeOK
<1>3. CASE D0ExitTakesRead(p)
  <2>1. pc' \in [Threads -> ThreadStates] /\ held' \in [Threads -> Requests \cup {NULL}]
    BY <1>1, <1>3, GotoType DEF D0ExitTakesRead
  <2> QED
    BY <1>1, <1>3, <2>1 DEF D0ExitTakesRead, TypeOK
<1>4. CASE D0ExitCancelsRead(p)
  <2>1. held[p] \in Requests /\ 0 \in Nat /\ "CANCELLED" \in Statuses
    BY <1>1, <1>4 DEF D0ExitCancelsRead, HeldWhenNeeded, Requests, Statuses
  <2>2. /\ completions' \in [Requests -> Nat] /\ result' \in [Requests -> Outcome]
        /\ cancel' \in [Requests -> CancelStates]
    BY <1>4, <2>1, CompleteType, CancelType DEF D0ExitCancelsRead, TypeOK
  <2>3. pc' \in [Threads -> ThreadStates] /\ held' \in [Threads -> Requests \cup {NULL}]
    BY <1>1, <1>4, GotoType DEF D0ExitCancelsRead
  <2> QED
    BY <1>4, <2>2, <2>3 DEF D0ExitCancelsRead, TypeOK
<1>5. CASE D0ExitPurges(p)
  <2>1. pc' \in [Threads -> ThreadStates] /\ held' \in [Threads -> Requests \cup {NULL}]
    BY <1>1, <1>5, GotoType DEF D0ExitPurges
  <2> QED
    BY <1>1, <1>5, <2>1 DEF D0ExitPurges, TypeOK
<1> QED
  BY <1>2, <1>3, <1>4, <1>5 DEF PowerThread

(* Every step keeps the types; that a thread at a step which needs a       *)
(* request holds one is part of OneOwner.                                  *)
LEMMA NextTypeOK == TypeOK /\ OneOwner /\ [Next]_vars => TypeOK'
<1> SUFFICES ASSUME TypeOK, OneOwner, [Next]_vars PROVE TypeOK'
  OBVIOUS
<1>1. HeldWhenNeeded /\ CopierOwns
  BY DEF OneOwner
<1>2. CASE \E T \in TimeoutPool : SetTimeouts(T)
  BY <1>2 DEF SetTimeouts, TypeOK
<1>3. CASE \E r \in Reads : EvtIoRead(r)
  BY <1>3, EvtIoReadTypeOK
<1>4. CASE \E w \in Waits : WaitOnMask(w)
  BY <1>4, WaitOnMaskTypeOK
<1>5. CASE \E r \in Requests : AppCancel(r)
  BY <1>5 DEF AppCancel, TypeOK
<1>6. CASE \E s \in MaskSetters, mask \in Masks : SetWaitMask(s, mask)
  BY <1>6, SetWaitMaskTypeOK
<1>7. CASE \E x \in RxThreads : EvtUsbBulkInReadComplete(x)
  BY <1>7, EvtUsbBulkInReadCompleteTypeOK
<1>8. CASE PurgeRx
  BY <1>8 DEF PurgeRx, TypeOK
<1>9. CASE \E p \in PowerThreads : EvtDeviceD0Exit(p) \/ PowerThread(p)
  BY <1>1, <1>9, PowerThreadTypeOK
<1>10. CASE EvtDeviceD0Entry
  BY <1>10 DEF EvtDeviceD0Entry, TypeOK
<1>11. CASE SetTimeoutsReturn
  BY <1>11 DEF SetTimeoutsReturn, TypeOK
<1>12. CASE \E r \in Reads : ReadHandler(r) \/ ReadCancelRoutine(r)
  BY <1>12, ReadHandlerTypeOK, ReadCancelRoutineTypeOK
<1>13. CASE \E w \in Waits : WaitHandler(w) \/ WaitCancelCompletes(w)
  BY <1>13, WaitHandlerTypeOK, WaitCancelTypeOK
<1>14. CASE \E d \in TimerDpcs : TimerExpires(d) \/ TimerDpc(d)
  BY <1>1, <1>14, TimerDpcTypeOK
<1>15. CASE \E x \in RxThreads : RxThread(x)
  BY <1>1, <1>15, RxThreadTypeOK
<1>16. CASE \E s \in MaskSetters : MaskSetter(s)
  BY <1>1, <1>16, MaskSetterTypeOK
<1>17. CASE UNCHANGED vars
  BY <1>17 DEF vars, TypeOK
<1>18. CASE GetModemStatus
  BY <1>18 DEF GetModemStatus, TypeOK
<1>19. CASE \E m \in ModemThreads, lines \in SUBSET ModemEvents :
               SerialNotifyModemStatusChange(m, lines)
  BY <1>19, NotifyTypeOK
<1>20. CASE \E m \in ModemThreads : ModemAnswersWait(m)
  BY <1>1, <1>20, ModemAnswersWaitTypeOK
<1> QED
  BY <1>2, <1>3, <1>4, <1>5, <1>6, <1>7, <1>8, <1>9, <1>10, <1>11, <1>12, <1>13,
     <1>14, <1>15, <1>16, <1>17, <1>18, <1>19, <1>20 DEF Next, Environment
=============================================================================
