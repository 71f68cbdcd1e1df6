---------------------------- MODULE RxOwnerProofs ----------------------------
(***************************************************************************)
(* The race for a pended request, for any number of requests and threads:  *)
(* OneOwner is inductive, and with it no request is completed twice and no *)
(* read sleeps on data.                                                    *)
(*                                                                         *)
(* One lemma per action says that the action keeps OneOwner, with one step *)
(* for each of the seven parts of OneOwner it can disturb.                 *)
(***************************************************************************)
EXTENDS RxPathProofs

USE RxAssumption, MaxUlongAssumption
    DEF readVars, waitVars, timeoutVars, requestVars, threadVars, envVars,
        CancelStates, HandlerStates, ThreadStates

-----------------------------------------------------------------------------
(* EvtIoRead and what it does after it has released the lock.              *)
LEMMA EvtIoReadOneOwner ==
  ASSUME TypeOK, OneOwner, NEW r \in Reads,
         EvtIoRead(r)
  PROVE  OneOwner'
<1>1. UnsentUntouched'
  BY DEF OneOwner, UnsentUntouched, TypeOK, InSlot, HeldBySomeone, Threads,
     EvtIoRead, ReadFromBuffer, ReadAnsweredAtOnce, ReadPended, Complete
<1>2. HandlerOwns'
  BY DEF OneOwner, HandlerOwns, UnsentUntouched, TypeOK, Threads, EvtIoRead,
     ReadFromBuffer, ReadAnsweredAtOnce, ReadPended, Complete
<1>3. CancelRoutineOwns'
  BY DEF OneOwner, CancelRoutineOwns, TypeOK, HandlerThrough, Threads,
     EvtIoRead, ReadFromBuffer, ReadAnsweredAtOnce, ReadPended, Complete
<1>4. CopierOwns'
  BY DEF OneOwner, CopierOwns, TypeOK, HandlerThrough, Requests, EvtIoRead,
     ReadFromBuffer, ReadAnsweredAtOnce, ReadPended, Complete
<1>5. SlotOwns'
  BY DEF OneOwner, SlotOwns, UnsentUntouched, TypeOK, InSlot, HeldBySomeone,
     HandlerThrough, EvtIoRead, ReadFromBuffer, ReadAnsweredAtOnce, ReadPended,
     Complete
<1>6. HeldByOne' /\ HeldWhenNeeded'
  BY DEF OneOwner, HeldByOne, HeldWhenNeeded, EvtIoRead
<1> QED
  BY <1>1, <1>2, <1>3, <1>4, <1>5, <1>6 DEF OneOwner

LEMMA ReadMarkOneOwner ==
  ASSUME TypeOK, OneOwner, NEW r \in Reads,
         ReadMark(r)
  PROVE  OneOwner'
<1>1. UnsentUntouched'
  BY DEF OneOwner, UnsentUntouched, TypeOK, InSlot, HeldBySomeone, ReadMark,
     MarkFails
<1>2. HandlerOwns'
  BY DEF OneOwner, HandlerOwns, TypeOK, Threads, ReadMark, MarkFails
<1>3. CancelRoutineOwns'
  BY DEF OneOwner, CancelRoutineOwns, HandlerOwns, TypeOK, HandlerThrough,
     ReadMark, MarkFails
<1>4. CopierOwns'
  BY DEF OneOwner, CopierOwns, TypeOK, HandlerThrough, Requests, ReadMark,
     MarkFails
<1>5. SlotOwns'
  BY DEF OneOwner, SlotOwns, TypeOK, InSlot, HeldBySomeone, HandlerThrough,
     Revocable, ReadMark, MarkFails
<1>6. HeldByOne' /\ HeldWhenNeeded'
  BY DEF OneOwner, HeldByOne, HeldWhenNeeded, ReadMark
<1> QED
  BY <1>1, <1>2, <1>3, <1>4, <1>5, <1>6 DEF OneOwner

LEMMA ReadUnpublishOneOwner ==
  ASSUME TypeOK, OneOwner, NEW r \in Reads,
         ReadUnpublish(r)
  PROVE  OneOwner'
<1>1. UnsentUntouched'
  BY DEF OneOwner, UnsentUntouched, InSlot, HeldBySomeone, Threads,
     ReadUnpublish, Complete
<1>2. HandlerOwns'
  BY DEF OneOwner, HandlerOwns, TypeOK, Threads, ReadUnpublish, Complete
<1>3. CancelRoutineOwns'
  BY DEF OneOwner, CancelRoutineOwns, HandlerThrough, Requests, ReadUnpublish,
     Complete
<1>4. CopierOwns'
  BY DEF OneOwner, CopierOwns, HandlerThrough, Threads, ReadUnpublish,
     Complete
<1>5. SlotOwns'
  BY DEF OneOwner, SlotOwns, TypeOK, InSlot, HeldBySomeone, HandlerThrough,
     Threads, ReadUnpublish, Complete
<1>6. HeldByOne' /\ HeldWhenNeeded'
  BY DEF OneOwner, HeldByOne, HeldWhenNeeded, ReadUnpublish
<1> QED
  BY <1>1, <1>2, <1>3, <1>4, <1>5, <1>6 DEF OneOwner

LEMMA ReadStartTimerOneOwner ==
  ASSUME TypeOK, OneOwner, NEW r \in Reads,
         ReadStartTimer(r)
  PROVE  OneOwner'
<1>1. UnsentUntouched'
  BY DEF OneOwner, UnsentUntouched, InSlot, HeldBySomeone, Threads,
     ReadStartTimer
<1>2. HandlerOwns'
  BY DEF OneOwner, HandlerOwns, Requests, ReadStartTimer
<1>3. CancelRoutineOwns'
  BY DEF OneOwner, CancelRoutineOwns, HandlerThrough, Requests, ReadStartTimer
<1>4. CopierOwns'
  BY DEF OneOwner, CopierOwns, HandlerThrough, Threads, ReadStartTimer
<1>5. SlotOwns'
  BY DEF OneOwner, SlotOwns, InSlot, HeldBySomeone, HandlerThrough, Threads,
     ReadStartTimer
<1>6. HeldByOne' /\ HeldWhenNeeded'
  BY DEF OneOwner, HeldByOne, HeldWhenNeeded, ReadStartTimer
<1> QED
  BY <1>1, <1>2, <1>3, <1>4, <1>5, <1>6 DEF OneOwner

-----------------------------------------------------------------------------
(* EvtPendingReadCancel.                                                   *)
LEMMA ReadCancelStopsTimerOneOwner ==
  ASSUME TypeOK, OneOwner, NEW r \in Reads,
         ReadCancelStopsTimer(r)
  PROVE  OneOwner'
<1>1. UnsentUntouched'
  BY DEF OneOwner, UnsentUntouched, InSlot, HeldBySomeone, Threads,
     ReadCancelStopsTimer
<1>2. HandlerOwns'
  BY DEF OneOwner, HandlerOwns, ReadCancelStopsTimer
<1>3. CancelRoutineOwns'
  BY DEF OneOwner, CancelRoutineOwns, HandlerThrough, Revocable,
     ReadCancelStopsTimer
<1>4. CopierOwns'
  BY DEF OneOwner, CopierOwns, HandlerThrough, ReadCancelStopsTimer
<1>5. SlotOwns'
  BY DEF OneOwner, SlotOwns, InSlot, HeldBySomeone, HandlerThrough, Revocable,
     ReadCancelStopsTimer
<1>6. HeldByOne' /\ HeldWhenNeeded'
  BY DEF OneOwner, HeldByOne, HeldWhenNeeded, ReadCancelStopsTimer
<1> QED
  BY <1>1, <1>2, <1>3, <1>4, <1>5, <1>6 DEF OneOwner

LEMMA ReadCancelCompletesOneOwner ==
  ASSUME TypeOK, OneOwner, NEW r \in Reads,
         ReadCancelCompletes(r)
  PROVE  OneOwner'
<1>1. UnsentUntouched'
  BY DEF OneOwner, UnsentUntouched, InSlot, HeldBySomeone,
     ReadCancelCompletes, Complete
<1>2. HandlerOwns'
  BY DEF OneOwner, HandlerOwns, ReadCancelCompletes, Complete
<1>3. CancelRoutineOwns'
  BY DEF OneOwner, CancelRoutineOwns, TypeOK, HandlerThrough, Revocable,
     ReadCancelCompletes, Complete
<1>4. CopierOwns'
  BY DEF OneOwner, CopierOwns, HandlerThrough, ReadCancelCompletes, Complete
<1>5. SlotOwns'
  BY DEF OneOwner, SlotOwns, TypeOK, InSlot, HeldBySomeone, HandlerThrough,
     ReadCancelCompletes, Complete
<1>6. HeldByOne' /\ HeldWhenNeeded'
  BY DEF OneOwner, HeldByOne, HeldWhenNeeded, ReadCancelCompletes
<1> QED
  BY <1>1, <1>2, <1>3, <1>4, <1>5, <1>6 DEF OneOwner

-----------------------------------------------------------------------------
(* Taking the read from its slot and completing it: the steps shared by    *)
(* the timer callback and QueueCompletePendingRead, and the timer itself.  *)
LEMMA UnmarkReadOneOwner ==
  ASSUME TypeOK, OneOwner, NEW t \in RxThreads \cup TimerDpcs, NEW after \in {"idle", "waitCheck"},
         UnmarkRead(t, after)
  PROVE  OneOwner'
<1>1. UnsentUntouched'
  BY DEF OneOwner, UnsentUntouched, TypeOK, InSlot, HeldBySomeone, UnmarkRead,
     UnmarkSucceeds, Complete, Goto
<1>2. HandlerOwns'
  BY DEF OneOwner, HandlerOwns, TypeOK, UnmarkRead, UnmarkSucceeds, Complete
<1>3. CancelRoutineOwns'
  BY DEF OneOwner, CancelRoutineOwns, TypeOK, HandlerThrough, Revocable,
     UnmarkRead, Complete
<1>4. CopierOwns'
  BY DEF OneOwner, CopierOwns, CancelRoutineOwns, HeldWhenNeeded, TypeOK,
     HandlerThrough, Revocable, Requests, UnmarkRead, UnmarkSucceeds, Complete,
     Goto
<1>5. HeldByOne'
  BY DEF OneOwner, HeldByOne, TypeOK, UnmarkRead, Goto
<1>6. HeldWhenNeeded'
  BY DEF OneOwner, HeldWhenNeeded, TypeOK, UnmarkRead, Goto
<1>7. SlotOwns'
  BY DEF OneOwner, SlotOwns, TypeOK, InSlot, HeldBySomeone, HandlerThrough,
     Threads, UnmarkRead, Complete, Goto
<1> QED
  BY <1>1, <1>2, <1>3, <1>4, <1>5, <1>6, <1>7 DEF OneOwner

LEMMA CopyToReadOneOwner ==
  ASSUME TypeOK, OneOwner, NEW t \in RxThreads \cup TimerDpcs, NEW after \in {"idle", "waitCheck"},
         CopyToRead(t, after)
  PROVE  OneOwner'
<1>1. UnsentUntouched'
  BY DEF OneOwner, UnsentUntouched, InSlot, HeldBySomeone, Threads,
     CopyToRead, Complete, Goto
<1>2. HandlerOwns'
  BY DEF OneOwner, HandlerOwns, CopierOwns, HandlerThrough, Threads,
     CopyToRead, Complete
<1>3. CancelRoutineOwns'
  BY DEF OneOwner, CancelRoutineOwns, CopierOwns, HandlerThrough, Revocable,
     Threads, CopyToRead, Complete
<1>4. CopierOwns'
  BY DEF OneOwner, CopierOwns, HeldByOne, TypeOK, HandlerThrough, Threads,
     CopyToRead, Complete, Goto
<1>5. HeldByOne'
  BY DEF OneOwner, HeldByOne, CopyToRead, Goto
<1>6. HeldWhenNeeded'
  BY DEF OneOwner, HeldWhenNeeded, TypeOK, CopyToRead, Goto
<1>7. SlotOwns'
  BY DEF OneOwner, SlotOwns, InSlot, HeldBySomeone, HandlerThrough, Threads,
     CopyToRead, Complete, Goto
<1> QED
  BY <1>1, <1>2, <1>3, <1>4, <1>5, <1>6, <1>7 DEF OneOwner

LEMMA TimerExpiresOneOwner ==
  ASSUME TypeOK, OneOwner, NEW d \in TimerDpcs,
         TimerExpires(d)
  PROVE  OneOwner'
<1>1. UnsentUntouched'
  BY DEF OneOwner, UnsentUntouched, InSlot, HeldBySomeone, Threads,
     TimerExpires, Goto
<1>2. CopierOwns'
  BY DEF OneOwner, CopierOwns, HandlerThrough, Threads, TimerExpires, Goto
<1>3. HeldByOne'
  BY DEF OneOwner, HeldByOne, Threads, TimerExpires, Goto
<1>4. HeldWhenNeeded'
  BY DEF OneOwner, HeldWhenNeeded, Threads, TimerExpires, Goto
<1>5. SlotOwns'
  BY DEF OneOwner, SlotOwns, InSlot, HeldBySomeone, HandlerThrough, Threads,
     TimerExpires, Goto
<1>6. HandlerOwns' /\ CancelRoutineOwns'
  BY DEF OneOwner, HandlerOwns, CancelRoutineOwns, HandlerThrough,
     TimerExpires
<1> QED
  BY <1>1, <1>2, <1>3, <1>4, <1>5, <1>6 DEF OneOwner

LEMMA TimerTakesReadOneOwner ==
  ASSUME TypeOK, OneOwner, NEW d \in TimerDpcs,
         TimerTakesRead(d)
  PROVE  OneOwner'
<1>1. UnsentUntouched'
  BY DEF OneOwner, UnsentUntouched, TypeOK, InSlot, HeldBySomeone,
     TimerTakesRead, Goto
<1>2. CopierOwns'
  BY DEF OneOwner, CopierOwns, TypeOK, HandlerThrough, TimerTakesRead, Goto
<1>3. HeldByOne'
  BY DEF OneOwner, HeldByOne, SlotOwns, TypeOK, InSlot, HeldBySomeone,
     TimerTakesRead, Goto
<1>4. HeldWhenNeeded'
  BY DEF OneOwner, HeldWhenNeeded, TypeOK, TimerTakesRead, Goto
<1>5. SlotOwns'
  BY DEF OneOwner, SlotOwns, TypeOK, InSlot, HeldBySomeone, HandlerThrough,
     TimerTakesRead, Goto
<1>6. HandlerOwns' /\ CancelRoutineOwns'
  BY DEF OneOwner, HandlerOwns, CancelRoutineOwns, HandlerThrough,
     TimerTakesRead
<1> QED
  BY <1>1, <1>2, <1>3, <1>4, <1>5, <1>6 DEF OneOwner

-----------------------------------------------------------------------------
(* WAIT_ON_MASK, its cancel routine, and SET_WAIT_MASK.                    *)
LEMMA WaitOnMaskOneOwner ==
  ASSUME TypeOK, OneOwner, NEW w \in Waits,
         WaitOnMask(w)
  PROVE  OneOwner'
<1>1. UnsentUntouched'
  BY DEF OneOwner, UnsentUntouched, TypeOK, InSlot, HeldBySomeone, WaitOnMask,
     WaitAnsweredAtOnce, WaitPended, Complete
<1>2. HandlerOwns'
  BY DEF OneOwner, HandlerOwns, UnsentUntouched, TypeOK, WaitOnMask,
     WaitAnsweredAtOnce, WaitPended, Complete
<1>3. CancelRoutineOwns'
  BY DEF OneOwner, CancelRoutineOwns, TypeOK, HandlerThrough, WaitOnMask,
     WaitAnsweredAtOnce, WaitPended, Complete
<1>4. CopierOwns'
  BY DEF OneOwner, CopierOwns, TypeOK, HandlerThrough, Requests, WaitOnMask,
     WaitAnsweredAtOnce, WaitPended, Complete
<1>5. SlotOwns'
  BY DEF OneOwner, SlotOwns, UnsentUntouched, TypeOK, InSlot, HeldBySomeone,
     HandlerThrough, WaitOnMask, WaitAnsweredAtOnce, WaitPended, Complete
<1>6. HeldByOne' /\ HeldWhenNeeded'
  BY DEF OneOwner, HeldByOne, HeldWhenNeeded, WaitOnMask
<1> QED
  BY <1>1, <1>2, <1>3, <1>4, <1>5, <1>6 DEF OneOwner

LEMMA WaitMarkOneOwner ==
  ASSUME TypeOK, OneOwner, NEW w \in Waits,
         WaitMark(w)
  PROVE  OneOwner'
<1>1. UnsentUntouched'
  BY DEF OneOwner, UnsentUntouched, TypeOK, InSlot, HeldBySomeone, WaitMark
<1>2. HandlerOwns'
  BY DEF OneOwner, HandlerOwns, TypeOK, WaitMark, MarkFails
<1>3. CancelRoutineOwns'
  BY DEF OneOwner, CancelRoutineOwns, HandlerOwns, TypeOK, HandlerThrough,
     WaitMark
<1>4. CopierOwns'
  BY DEF OneOwner, CopierOwns, TypeOK, HandlerThrough, Requests, WaitMark
<1>5. SlotOwns'
  BY DEF OneOwner, SlotOwns, TypeOK, InSlot, HeldBySomeone, HandlerThrough,
     Revocable, WaitMark
<1>6. HeldByOne' /\ HeldWhenNeeded'
  BY DEF OneOwner, HeldByOne, HeldWhenNeeded, WaitMark
<1> QED
  BY <1>1, <1>2, <1>3, <1>4, <1>5, <1>6 DEF OneOwner

LEMMA WaitUnpublishOneOwner ==
  ASSUME TypeOK, OneOwner, NEW w \in Waits,
         WaitUnpublish(w)
  PROVE  OneOwner'
<1>1. UnsentUntouched'
  BY DEF OneOwner, UnsentUntouched, InSlot, HeldBySomeone, WaitUnpublish,
     Complete
<1>2. HandlerOwns'
  BY DEF OneOwner, HandlerOwns, TypeOK, WaitUnpublish, Complete
<1>3. CancelRoutineOwns'
  BY DEF OneOwner, CancelRoutineOwns, HandlerThrough, WaitUnpublish, Complete
<1>4. CopierOwns'
  BY DEF OneOwner, CopierOwns, HandlerThrough, WaitUnpublish, Complete
<1>5. SlotOwns'
  BY DEF OneOwner, SlotOwns, TypeOK, InSlot, HeldBySomeone, HandlerThrough,
     WaitUnpublish, Complete
<1>6. HeldByOne' /\ HeldWhenNeeded'
  BY DEF OneOwner, HeldByOne, HeldWhenNeeded, WaitUnpublish
<1> QED
  BY <1>1, <1>2, <1>3, <1>4, <1>5, <1>6 DEF OneOwner

LEMMA WaitCancelCompletesOneOwner ==
  ASSUME TypeOK, OneOwner, NEW w \in Waits,
         WaitCancelCompletes(w)
  PROVE  OneOwner'
<1>1. UnsentUntouched'
  BY DEF OneOwner, UnsentUntouched, InSlot, HeldBySomeone,
     WaitCancelCompletes, Complete
<1>2. HandlerOwns'
  BY DEF OneOwner, HandlerOwns, WaitCancelCompletes, Complete
<1>3. CancelRoutineOwns'
  BY DEF OneOwner, CancelRoutineOwns, TypeOK, HandlerThrough, Revocable,
     WaitCancelCompletes, Complete
<1>4. CopierOwns'
  BY DEF OneOwner, CopierOwns, HandlerThrough, WaitCancelCompletes, Complete
<1>5. SlotOwns'
  BY DEF OneOwner, SlotOwns, TypeOK, InSlot, HeldBySomeone, HandlerThrough,
     WaitCancelCompletes, Complete
<1>6. HeldByOne' /\ HeldWhenNeeded'
  BY DEF OneOwner, HeldByOne, HeldWhenNeeded, WaitCancelCompletes
<1> QED
  BY <1>1, <1>2, <1>3, <1>4, <1>5, <1>6 DEF OneOwner

LEMMA SetWaitMaskOneOwner ==
  ASSUME TypeOK, OneOwner, NEW s \in MaskSetters, NEW mask \in Masks,
         SetWaitMask(s, mask)
  PROVE  OneOwner'
<1>1. UnsentUntouched'
  BY DEF OneOwner, UnsentUntouched, TypeOK, InSlot, HeldBySomeone,
     SetWaitMask, Goto
<1>2. CopierOwns'
  BY DEF OneOwner, CopierOwns, TypeOK, HandlerThrough, SetWaitMask, Goto
<1>3. HeldByOne'
  BY DEF OneOwner, HeldByOne, SlotOwns, TypeOK, InSlot, HeldBySomeone,
     SetWaitMask, Goto
<1>4. HeldWhenNeeded'
  BY DEF OneOwner, HeldWhenNeeded, TypeOK, SetWaitMask, Goto
<1>5. SlotOwns'
  BY DEF OneOwner, SlotOwns, TypeOK, InSlot, HeldBySomeone, HandlerThrough,
     SetWaitMask, Goto
<1>6. HandlerOwns' /\ CancelRoutineOwns'
  BY DEF OneOwner, HandlerOwns, CancelRoutineOwns, HandlerThrough, SetWaitMask
<1> QED
  BY <1>1, <1>2, <1>3, <1>4, <1>5, <1>6 DEF OneOwner

LEMMA SetWaitMaskAnswersOldOneOwner ==
  ASSUME TypeOK, OneOwner, NEW s \in MaskSetters,
         SetWaitMaskAnswersOld(s)
  PROVE  OneOwner'
<1>1. UnsentUntouched'
  BY DEF OneOwner, UnsentUntouched, TypeOK, InSlot, HeldBySomeone,
     SetWaitMaskAnswersOld, AnswerWait, UnmarkSucceeds, Complete, Goto
<1>2. HandlerOwns'
  BY DEF OneOwner, HandlerOwns, TypeOK, SetWaitMaskAnswersOld, AnswerWait,
     UnmarkSucceeds, Complete
<1>3. CancelRoutineOwns'
  BY DEF OneOwner, CancelRoutineOwns, TypeOK, HandlerThrough, Revocable,
     SetWaitMaskAnswersOld, AnswerWait, Complete
<1>4. CopierOwns'
  BY DEF OneOwner, CopierOwns, TypeOK, HandlerThrough, Requests,
     SetWaitMaskAnswersOld, AnswerWait, UnmarkSucceeds, Complete, Goto
<1>5. HeldByOne'
  BY DEF OneOwner, HeldByOne, SetWaitMaskAnswersOld, Goto
<1>6. HeldWhenNeeded'
  BY DEF OneOwner, HeldWhenNeeded, TypeOK, SetWaitMaskAnswersOld, Goto
<1>7. SlotOwns'
  BY DEF OneOwner, SlotOwns, TypeOK, InSlot, HeldBySomeone, HandlerThrough,
     Threads, SetWaitMaskAnswersOld, AnswerWait, Complete, Goto
<1> QED
  BY <1>1, <1>2, <1>3, <1>4, <1>5, <1>6, <1>7 DEF OneOwner

LEMMA SetWaitMaskStoresOneOwner ==
  ASSUME TypeOK, OneOwner, NEW s \in MaskSetters,
         SetWaitMaskStores(s)
  PROVE  OneOwner'
<1>1. UnsentUntouched'
  BY DEF OneOwner, UnsentUntouched, InSlot, HeldBySomeone, SetWaitMaskStores,
     Goto
<1>2. CopierOwns'
  BY DEF OneOwner, CopierOwns, HandlerThrough, SetWaitMaskStores, Goto
<1>3. HeldByOne'
  BY DEF OneOwner, HeldByOne, SetWaitMaskStores, Goto
<1>4. HeldWhenNeeded'
  BY DEF OneOwner, HeldWhenNeeded, SetWaitMaskStores, Goto
<1>5. SlotOwns'
  BY DEF OneOwner, SlotOwns, InSlot, HeldBySomeone, HandlerThrough,
     SetWaitMaskStores, Goto
<1>6. HandlerOwns' /\ CancelRoutineOwns'
  BY DEF OneOwner, HandlerOwns, CancelRoutineOwns, HandlerThrough,
     SetWaitMaskStores
<1> QED
  BY <1>1, <1>2, <1>3, <1>4, <1>5, <1>6 DEF OneOwner

-----------------------------------------------------------------------------
(* EvtUsbBulkInReadComplete.                                               *)
LEMMA EvtUsbBulkInReadCompleteOneOwner ==
  ASSUME TypeOK, OneOwner, NEW x \in RxThreads,
         EvtUsbBulkInReadComplete(x)
  PROVE  OneOwner'
<1>1. UnsentUntouched'
  BY DEF OneOwner, UnsentUntouched, TypeOK, InSlot, HeldBySomeone,
     EvtUsbBulkInReadComplete, CheckWait, Goto
<1>2. CopierOwns'
  BY DEF OneOwner, CopierOwns, TypeOK, HandlerThrough,
     EvtUsbBulkInReadComplete, CheckWait, Goto
<1>3. HeldByOne'
  BY DEF OneOwner, HeldByOne, SlotOwns, TypeOK, InSlot, HeldBySomeone,
     EvtUsbBulkInReadComplete, CheckWait, Goto
<1>4. HeldWhenNeeded'
  BY DEF OneOwner, HeldWhenNeeded, TypeOK, EvtUsbBulkInReadComplete,
     CheckWait, WaitSignalled, Goto
<1>5. SlotOwns'
  BY DEF OneOwner, SlotOwns, TypeOK, InSlot, HeldBySomeone, HandlerThrough,
     EvtUsbBulkInReadComplete, CheckWait, Goto
<1>6. HandlerOwns' /\ CancelRoutineOwns'
  BY DEF OneOwner, HandlerOwns, CancelRoutineOwns, HandlerThrough,
     EvtUsbBulkInReadComplete
<1> QED
  BY <1>1, <1>2, <1>3, <1>4, <1>5, <1>6 DEF OneOwner

LEMMA RxStopsTimerOneOwner ==
  ASSUME TypeOK, OneOwner, NEW x \in RxThreads,
         RxStopsTimer(x)
  PROVE  OneOwner'
<1>1. UnsentUntouched'
  BY DEF OneOwner, UnsentUntouched, InSlot, HeldBySomeone, RxStopsTimer, Goto
<1>2. CopierOwns'
  BY DEF OneOwner, CopierOwns, HandlerThrough, RxStopsTimer, Goto
<1>3. HeldByOne'
  BY DEF OneOwner, HeldByOne, RxStopsTimer, Goto
<1>4. HeldWhenNeeded'
  BY DEF OneOwner, HeldWhenNeeded, RxStopsTimer, Goto
<1>5. SlotOwns'
  BY DEF OneOwner, SlotOwns, InSlot, HeldBySomeone, HandlerThrough,
     RxStopsTimer, Goto
<1>6. HandlerOwns' /\ CancelRoutineOwns'
  BY DEF OneOwner, HandlerOwns, CancelRoutineOwns, HandlerThrough,
     RxStopsTimer
<1> QED
  BY <1>1, <1>2, <1>3, <1>4, <1>5, <1>6 DEF OneOwner

LEMMA RxChecksWaitOneOwner ==
  ASSUME TypeOK, OneOwner, NEW x \in RxThreads,
         RxChecksWait(x)
  PROVE  OneOwner'
<1>1. UnsentUntouched'
  BY DEF OneOwner, UnsentUntouched, TypeOK, InSlot, HeldBySomeone,
     RxChecksWait, CheckWait, Goto
<1>2. CopierOwns'
  BY DEF OneOwner, CopierOwns, TypeOK, HandlerThrough, RxChecksWait,
     CheckWait, Goto
<1>3. HeldByOne'
  BY DEF OneOwner, HeldByOne, SlotOwns, TypeOK, InSlot, HeldBySomeone,
     RxChecksWait, CheckWait, Goto
<1>4. HeldWhenNeeded'
  BY DEF OneOwner, HeldWhenNeeded, TypeOK, RxChecksWait, CheckWait,
     WaitSignalled, Goto
<1>5. SlotOwns'
  BY DEF OneOwner, SlotOwns, TypeOK, InSlot, HeldBySomeone, HandlerThrough,
     RxChecksWait, CheckWait, Goto
<1>6. HandlerOwns' /\ CancelRoutineOwns'
  BY DEF OneOwner, HandlerOwns, CancelRoutineOwns, HandlerThrough,
     RxChecksWait
<1> QED
  BY <1>1, <1>2, <1>3, <1>4, <1>5, <1>6 DEF OneOwner

LEMMA RxAnswersWaitOneOwner ==
  ASSUME TypeOK, OneOwner, NEW x \in RxThreads,
         RxAnswersWait(x)
  PROVE  OneOwner'
<1>1. UnsentUntouched'
  BY DEF OneOwner, UnsentUntouched, TypeOK, InSlot, HeldBySomeone,
     RxAnswersWait, AnswerWait, UnmarkSucceeds, Complete, Goto
<1>2. HandlerOwns'
  BY DEF OneOwner, HandlerOwns, TypeOK, RxAnswersWait, AnswerWait,
     UnmarkSucceeds, Complete
<1>3. CancelRoutineOwns'
  BY DEF OneOwner, CancelRoutineOwns, TypeOK, HandlerThrough, Revocable,
     RxAnswersWait, AnswerWait, Complete
<1>4. CopierOwns'
  BY DEF OneOwner, CopierOwns, TypeOK, HandlerThrough, Requests,
     RxAnswersWait, AnswerWait, UnmarkSucceeds, Complete, Goto
<1>5. HeldByOne'
  BY DEF OneOwner, HeldByOne, RxAnswersWait, Goto
<1>6. HeldWhenNeeded'
  BY DEF OneOwner, HeldWhenNeeded, TypeOK, RxAnswersWait, Goto
<1>7. SlotOwns'
  BY DEF OneOwner, SlotOwns, TypeOK, InSlot, HeldBySomeone, HandlerThrough,
     Threads, RxAnswersWait, AnswerWait, Complete, Goto
<1> QED
  BY <1>1, <1>2, <1>3, <1>4, <1>5, <1>6, <1>7 DEF OneOwner

-----------------------------------------------------------------------------
(* A change of the modem lines.                                            *)
LEMMA NotifyOneOwner ==
  ASSUME TypeOK, OneOwner, NEW m \in ModemThreads,
         NEW lines \in SUBSET ModemEvents, SerialNotifyModemStatusChange(m, lines)
  PROVE  OneOwner'
<1>1. UnsentUntouched'
  BY DEF OneOwner, UnsentUntouched, TypeOK, InSlot, HeldBySomeone,
     SerialNotifyModemStatusChange, Goto
<1>2. CopierOwns'
  BY DEF OneOwner, CopierOwns, TypeOK, HandlerThrough, SerialNotifyModemStatusChange, Goto
<1>3. HeldByOne'
  BY DEF OneOwner, HeldByOne, SlotOwns, TypeOK, InSlot, HeldBySomeone,
     SerialNotifyModemStatusChange, Goto
<1>4. HeldWhenNeeded'
  BY DEF OneOwner, HeldWhenNeeded, TypeOK, SerialNotifyModemStatusChange, Goto
<1>5. SlotOwns'
  BY DEF OneOwner, SlotOwns, TypeOK, InSlot, HeldBySomeone, HandlerThrough,
     SerialNotifyModemStatusChange, Goto
<1>6. HandlerOwns' /\ CancelRoutineOwns'
  BY DEF OneOwner, HandlerOwns, CancelRoutineOwns, HandlerThrough, SerialNotifyModemStatusChange
<1> QED
  BY <1>1, <1>2, <1>3, <1>4, <1>5, <1>6 DEF OneOwner

LEMMA ModemAnswersWaitOneOwner ==
  ASSUME TypeOK, OneOwner, NEW m \in ModemThreads,
         ModemAnswersWait(m)
  PROVE  OneOwner'
<1>1. UnsentUntouched'
  BY DEF OneOwner, UnsentUntouched, TypeOK, InSlot, HeldBySomeone,
     ModemAnswersWait, AnswerWait, UnmarkSucceeds, Complete, Goto
<1>2. HandlerOwns'
  BY DEF OneOwner, HandlerOwns, TypeOK, ModemAnswersWait, AnswerWait,
     UnmarkSucceeds, Complete
<1>3. CancelRoutineOwns'
  BY DEF OneOwner, CancelRoutineOwns, TypeOK, HandlerThrough, Revocable,
     ModemAnswersWait, AnswerWait, Complete
<1>4. CopierOwns'
  BY DEF OneOwner, CopierOwns, TypeOK, HandlerThrough, Requests,
     ModemAnswersWait, AnswerWait, UnmarkSucceeds, Complete, Goto
<1>5. HeldByOne'
  BY DEF OneOwner, HeldByOne, ModemAnswersWait, Goto
<1>6. HeldWhenNeeded'
  BY DEF OneOwner, HeldWhenNeeded, TypeOK, ModemAnswersWait, Goto
<1>7. SlotOwns'
  BY DEF OneOwner, SlotOwns, TypeOK, InSlot, HeldBySomeone, HandlerThrough,
     Threads, ModemAnswersWait, AnswerWait, Complete, Goto
<1> QED
  BY <1>1, <1>2, <1>3, <1>4, <1>5, <1>6, <1>7 DEF OneOwner

-----------------------------------------------------------------------------
(* EvtDeviceD0Exit.                                                        *)
LEMMA EvtDeviceD0ExitOneOwner ==
  ASSUME TypeOK, OneOwner, NEW p \in PowerThreads,
         EvtDeviceD0Exit(p)
  PROVE  OneOwner'
<1>1. UnsentUntouched'
  BY DEF OneOwner, UnsentUntouched, InSlot, HeldBySomeone, EvtDeviceD0Exit,
     Goto
<1>2. CopierOwns'
  BY DEF OneOwner, CopierOwns, TypeOK, HandlerThrough, EvtDeviceD0Exit, Goto
<1>3. HeldByOne'
  BY DEF OneOwner, HeldByOne, EvtDeviceD0Exit, Goto
<1>4. HeldWhenNeeded'
  BY DEF OneOwner, HeldWhenNeeded, TypeOK, EvtDeviceD0Exit, Goto
<1>5. SlotOwns'
  BY DEF OneOwner, SlotOwns, InSlot, HeldBySomeone, HandlerThrough,
     EvtDeviceD0Exit, Goto
<1>6. HandlerOwns' /\ CancelRoutineOwns'
  BY DEF OneOwner, HandlerOwns, CancelRoutineOwns, HandlerThrough,
     EvtDeviceD0Exit
<1> QED
  BY <1>1, <1>2, <1>3, <1>4, <1>5, <1>6 DEF OneOwner

LEMMA D0ExitTakesReadOneOwner ==
  ASSUME TypeOK, OneOwner, NEW p \in PowerThreads,
         D0ExitTakesRead(p)
  PROVE  OneOwner'
<1>1. UnsentUntouched'
  BY DEF OneOwner, UnsentUntouched, TypeOK, InSlot, HeldBySomeone,
     D0ExitTakesRead, Goto
<1>2. CopierOwns'
  BY DEF OneOwner, CopierOwns, TypeOK, HandlerThrough, D0ExitTakesRead, Goto
<1>3. HeldByOne'
  BY DEF OneOwner, HeldByOne, SlotOwns, TypeOK, InSlot, HeldBySomeone,
     D0ExitTakesRead, Goto
<1>4. HeldWhenNeeded'
  BY DEF OneOwner, HeldWhenNeeded, TypeOK, D0ExitTakesRead, Goto
<1>5. SlotOwns'
  BY DEF OneOwner, SlotOwns, TypeOK, InSlot, HeldBySomeone, HandlerThrough,
     D0ExitTakesRead, Goto
<1>6. HandlerOwns' /\ CancelRoutineOwns'
  BY DEF OneOwner, HandlerOwns, CancelRoutineOwns, HandlerThrough,
     D0ExitTakesRead
<1> QED
  BY <1>1, <1>2, <1>3, <1>4, <1>5, <1>6 DEF OneOwner

LEMMA D0ExitCancelsReadOneOwner ==
  ASSUME TypeOK, OneOwner, NEW p \in PowerThreads,
         D0ExitCancelsRead(p)
  PROVE  OneOwner'
<1>1. UnsentUntouched'
  BY DEF OneOwner, UnsentUntouched, TypeOK, InSlot, HeldBySomeone,
     D0ExitCancelsRead, UnmarkSucceeds, Complete, Goto
<1>2. HandlerOwns'
  BY DEF OneOwner, HandlerOwns, TypeOK, D0ExitCancelsRead, UnmarkSucceeds,
     Complete
<1>3. CancelRoutineOwns'
  BY DEF OneOwner, CancelRoutineOwns, TypeOK, HandlerThrough, Revocable,
     D0ExitCancelsRead, Complete
<1>4. CopierOwns'
  BY DEF OneOwner, CopierOwns, TypeOK, HandlerThrough, Requests,
     D0ExitCancelsRead, UnmarkSucceeds, Complete, Goto
<1>5. HeldByOne'
  BY DEF OneOwner, HeldByOne, D0ExitCancelsRead, Goto
<1>6. HeldWhenNeeded'
  BY DEF OneOwner, HeldWhenNeeded, TypeOK, D0ExitCancelsRead, Goto
<1>7. SlotOwns'
  BY DEF OneOwner, SlotOwns, TypeOK, InSlot, HeldBySomeone, HandlerThrough,
     Threads, D0ExitCancelsRead, Complete, Goto
<1> QED
  BY <1>1, <1>2, <1>3, <1>4, <1>5, <1>6, <1>7 DEF OneOwner

LEMMA D0ExitPurgesOneOwner ==
  ASSUME TypeOK, OneOwner, NEW p \in PowerThreads,
         D0ExitPurges(p)
  PROVE  OneOwner'
<1>1. UnsentUntouched'
  BY DEF OneOwner, UnsentUntouched, InSlot, HeldBySomeone, D0ExitPurges, Goto
<1>2. CopierOwns'
  BY DEF OneOwner, CopierOwns, HandlerThrough, D0ExitPurges, Goto
<1>3. HeldByOne'
  BY DEF OneOwner, HeldByOne, D0ExitPurges, Goto
<1>4. HeldWhenNeeded'
  BY DEF OneOwner, HeldWhenNeeded, D0ExitPurges, Goto
<1>5. SlotOwns'
  BY DEF OneOwner, SlotOwns, InSlot, HeldBySomeone, HandlerThrough,
     D0ExitPurges, Goto
<1>6. HandlerOwns' /\ CancelRoutineOwns'
  BY DEF OneOwner, HandlerOwns, CancelRoutineOwns, HandlerThrough,
     D0ExitPurges
<1> QED
  BY <1>1, <1>2, <1>3, <1>4, <1>5, <1>6 DEF OneOwner

-----------------------------------------------------------------------------
(* The application cancels a request.                                      *)
LEMMA AppCancelOneOwner ==
  ASSUME TypeOK, OneOwner, NEW r \in Requests,
         AppCancel(r)
  PROVE  OneOwner'
<1>1. UnsentUntouched'
  BY DEF OneOwner, UnsentUntouched, TypeOK, InSlot, HeldBySomeone, AppCancel
<1>2. HandlerOwns'
  BY DEF OneOwner, HandlerOwns, TypeOK, AppCancel
<1>3. CancelRoutineOwns'
  BY DEF OneOwner, CancelRoutineOwns, TypeOK, HandlerThrough, Revocable,
     AppCancel
<1>4. CopierOwns'
  BY DEF OneOwner, CopierOwns, TypeOK, HandlerThrough, Requests, AppCancel
<1>5. SlotOwns'
  BY DEF OneOwner, SlotOwns, TypeOK, InSlot, HeldBySomeone, HandlerThrough,
     Revocable, AppCancel
<1>6. HeldByOne' /\ HeldWhenNeeded'
  BY DEF OneOwner, HeldByOne, HeldWhenNeeded, AppCancel
<1> QED
  BY <1>1, <1>2, <1>3, <1>4, <1>5, <1>6 DEF OneOwner

-----------------------------------------------------------------------------
(* OneOwner is inductive relative to the types. *)

LEMMA InitOneOwner == Init => OneOwner
<1> SUFFICES ASSUME Init PROVE OneOwner
  OBVIOUS
<1>1. /\ \A r \in Requests : /\ handler[r] = "idle" /\ completions[r] = 0
                             /\ cancel[r] = "no" /\ ~ InSlot(r)
      /\ \A t \in Threads : pc[t] = "idle" /\ held[t] = NULL
  BY DEF Init, InSlot
<1>2. UnsentUntouched /\ HandlerOwns /\ CancelRoutineOwns
  BY <1>1 DEF UnsentUntouched, HandlerOwns, CancelRoutineOwns, Revocable, HeldBySomeone
<1>3. CopierOwns /\ HeldByOne /\ HeldWhenNeeded /\ SlotOwns
  BY <1>1 DEF CopierOwns, HeldByOne, HeldWhenNeeded, SlotOwns
<1> QED
  BY <1>2, <1>3 DEF OneOwner

(* The actions that touch no request, no slot and no thread. *)
LEMMA OutsidersOneOwner ==
  ASSUME OneOwner,
         \/ \E T \in TimeoutPool : SetTimeouts(T)
         \/ SetTimeoutsReturn
         \/ PurgeRx
         \/ EvtDeviceD0Entry
         \/ GetModemStatus
         \/ UNCHANGED vars
  PROVE  OneOwner'
<1>1. UNCHANGED <<requestVars, handler, threadVars, PendingReadRequest, PendingWaitRequest>>
  BY DEF SetTimeouts, SetTimeoutsReturn, PurgeRx, EvtDeviceD0Entry, GetModemStatus, vars
<1>2. UnsentUntouched' /\ HandlerOwns' /\ CancelRoutineOwns'
  BY <1>1 DEF OneOwner, UnsentUntouched, HandlerOwns, CancelRoutineOwns, InSlot,
              HeldBySomeone, HandlerThrough
<1>3. CopierOwns' /\ HeldByOne' /\ HeldWhenNeeded' /\ SlotOwns'
  BY <1>1 DEF OneOwner, CopierOwns, HeldByOne, HeldWhenNeeded, SlotOwns, InSlot,
              HeldBySomeone, HandlerThrough
<1> QED
  BY <1>2, <1>3 DEF OneOwner

LEMMA NextOneOwner == TypeOK /\ OneOwner /\ [Next]_vars => OneOwner'
<1> SUFFICES ASSUME TypeOK, OneOwner, [Next]_vars PROVE OneOwner'
  OBVIOUS
<1>1. CASE \E r \in Reads : EvtIoRead(r)
  BY <1>1, EvtIoReadOneOwner
<1>2. CASE \E r \in Reads : ReadHandler(r) \/ ReadCancelRoutine(r)
  BY <1>2, ReadMarkOneOwner, ReadUnpublishOneOwner, ReadStartTimerOneOwner,
     ReadCancelStopsTimerOneOwner, ReadCancelCompletesOneOwner
     DEF ReadHandler, ReadCancelRoutine
<1>3. CASE \E d \in TimerDpcs : TimerExpires(d) \/ TimerDpc(d)
  BY <1>3, TimerExpiresOneOwner, TimerTakesReadOneOwner, UnmarkReadOneOwner,
     CopyToReadOneOwner
     DEF TimerDpc, TimerUnmarksRead, TimerCopies
<1>4. CASE \E w \in Waits : WaitOnMask(w)
  BY <1>4, WaitOnMaskOneOwner
<1>5. CASE \E w \in Waits : WaitHandler(w) \/ WaitCancelCompletes(w)
  BY <1>5, WaitMarkOneOwner, WaitUnpublishOneOwner, WaitCancelCompletesOneOwner
     DEF WaitHandler
<1>6. CASE \E s \in MaskSetters, mask \in Masks : SetWaitMask(s, mask)
  BY <1>6, SetWaitMaskOneOwner
<1>7. CASE \E s \in MaskSetters : MaskSetter(s)
  BY <1>7, SetWaitMaskAnswersOldOneOwner, SetWaitMaskStoresOneOwner DEF MaskSetter
<1>8. CASE \E x \in RxThreads : EvtUsbBulkInReadComplete(x)
  BY <1>8, EvtUsbBulkInReadCompleteOneOwner
<1>9. CASE \E x \in RxThreads : RxThread(x)
  BY <1>9, RxStopsTimerOneOwner, UnmarkReadOneOwner, CopyToReadOneOwner,
     RxChecksWaitOneOwner, RxAnswersWaitOneOwner
     DEF RxThread, RxUnmarksRead, RxCopies
<1>10. CASE \E p \in PowerThreads : EvtDeviceD0Exit(p) \/ PowerThread(p)
  BY <1>10, EvtDeviceD0ExitOneOwner, D0ExitTakesReadOneOwner,
     D0ExitCancelsReadOneOwner, D0ExitPurgesOneOwner DEF PowerThread
<1>11. CASE \E r \in Requests : AppCancel(r)
  BY <1>11, AppCancelOneOwner
<1>12. CASE \E m \in ModemThreads, lines \in SUBSET ModemEvents :
               SerialNotifyModemStatusChange(m, lines)
  BY <1>12, NotifyOneOwner
<1>13. CASE \E m \in ModemThreads : ModemAnswersWait(m)
  BY <1>13, ModemAnswersWaitOneOwner
<1> QED
  BY <1>1, <1>2, <1>3, <1>4, <1>5, <1>6, <1>7, <1>8, <1>9, <1>10, <1>11, <1>12,
     <1>13, OutsidersOneOwner DEF Next, Environment

(* The types of RxPath hold in every reachable state.                      *)
THEOREM TypeCorrect == Spec => []TypeOK
<1>1. Init => TypeOK /\ OneOwner
  BY InitTypeOK, InitOneOwner
<1>2. TypeOK /\ OneOwner /\ [Next]_vars => (TypeOK /\ OneOwner)'
  BY NextTypeOK, NextOneOwner
<1> QED
  BY <1>1, <1>2, PTL DEF Spec

(* A pended read or wait has one owner at a time, whatever the number of   *)
(* receive, timer, mask, modem and power threads that race for it.         *)
THEOREM OneOwnerHolds == Spec => []OneOwner
<1>1. Init => TypeOK /\ OneOwner
  BY InitTypeOK, InitOneOwner
<1>2. TypeOK /\ OneOwner /\ [Next]_vars => (TypeOK /\ OneOwner)'
  BY NextTypeOK, NextOneOwner
<1> QED
  BY <1>1, <1>2, PTL DEF Spec

-----------------------------------------------------------------------------
(* No request is completed twice. *)

(* Whoever completes a request owns it: it has not been completed before. *)
LEMMA CompletesOnlyWhatItOwns ==
  ASSUME TypeOK, OneOwner, [Next]_vars,
         NEW r \in Requests, completions'[r] # completions[r]
  PROVE  completions[r] = 0 /\ completions'[r] = 1
<1> DEFINE Owned == completions[r] = 0 /\ completions'[r] = 1
<1>1. /\ UnsentUntouched /\ HandlerOwns /\ CancelRoutineOwns /\ CopierOwns
      /\ completions \in [Requests -> Nat]
  BY DEF OneOwner, TypeOK
<1>2. ASSUME NEW q \in Requests, NEW status, NEW info, Complete(q, status, info),
             completions[q] = 0
      PROVE  Owned
  BY <1>1, <1>2 DEF Complete
<1>3. CASE \E q \in Reads : EvtIoRead(q)
  <2>1. PICK q \in Reads : EvtIoRead(q)
    BY <1>3
  <2>2. q \in Requests /\ completions[q] = 0
    BY <1>1, <2>1 DEF EvtIoRead, UnsentUntouched, Requests
  <2> QED
    BY <1>2, <2>1, <2>2 DEF EvtIoRead, ReadFromBuffer, ReadAnsweredAtOnce, ReadPended
<1>4. CASE \E q \in Reads : ReadHandler(q) \/ ReadCancelRoutine(q)
  <2>1. PICK q \in Reads : ReadUnpublish(q) \/ ReadCancelCompletes(q)
    BY <1>4 DEF ReadHandler, ReadMark, ReadStartTimer, ReadCancelRoutine,
                ReadCancelStopsTimer
  <2>2. q \in Requests /\ completions[q] = 0
    BY <1>1, <2>1 DEF ReadUnpublish, ReadCancelCompletes, HandlerOwns,
                      CancelRoutineOwns, Revocable, Requests
  <2> QED
    BY <1>2, <2>1, <2>2 DEF ReadUnpublish, ReadCancelCompletes
<1>5. ASSUME NEW t \in Threads, NEW after, UnmarkRead(t, after)
      PROVE  Owned
  <2>1. UnmarkSucceeds(held[t]) /\ Complete(held[t], "BUFFER_TOO_SMALL", 0)
    BY <1>5 DEF UnmarkRead
  <2>2. held[t] \in Requests
    BY <1>5 DEF UnmarkRead, OneOwner, HeldWhenNeeded, Requests
  <2>3. completions[held[t]] = 0
    BY <1>1, <2>1, <2>2 DEF UnmarkSucceeds, CancelRoutineOwns, Revocable
  <2> QED
    BY <1>2, <2>1, <2>2, <2>3
<1>6. ASSUME NEW t \in Threads, NEW after, CopyToRead(t, after)
      PROVE  Owned
  <2>1. held[t] \in Requests /\ completions[held[t]] = 0
    BY <1>1, <1>6 DEF CopyToRead, CopierOwns, Requests
  <2> QED
    BY <1>2, <1>6, <2>1 DEF CopyToRead
<1>7. ASSUME NEW t \in Threads, NEW info, pc[t] = "unmarkWait", AnswerWait(t, info)
      PROVE  Owned
  <2>1. UnmarkSucceeds(held[t]) /\ Complete(held[t], "SUCCESS", info)
    BY <1>7 DEF AnswerWait
  <2>2. held[t] \in Requests
    BY <1>7 DEF OneOwner, HeldWhenNeeded, Requests
  <2>3. completions[held[t]] = 0
    BY <1>1, <2>1, <2>2 DEF UnmarkSucceeds, CancelRoutineOwns, Revocable
  <2> QED
    BY <1>2, <2>1, <2>2, <2>3
<1>8. CASE \E d \in TimerDpcs : TimerExpires(d) \/ TimerDpc(d)
  BY <1>5, <1>6, <1>8 DEF TimerExpires, TimerDpc, TimerTakesRead, TimerUnmarksRead,
                          TimerCopies, Threads
<1>9. CASE \E w \in Waits : WaitOnMask(w) \/ WaitHandler(w) \/ WaitCancelCompletes(w)
  <2>1. PICK w \in Waits : WaitOnMask(w) \/ WaitUnpublish(w) \/ WaitCancelCompletes(w)
    BY <1>9 DEF WaitHandler, WaitMark
  <2>2. w \in Requests /\ completions[w] = 0
    BY <1>1, <2>1 DEF WaitOnMask, WaitUnpublish, WaitCancelCompletes, UnsentUntouched,
                      HandlerOwns, CancelRoutineOwns, Revocable, Requests
  <2> QED
    BY <1>2, <2>1, <2>2 DEF WaitOnMask, WaitAnsweredAtOnce, WaitPended, WaitUnpublish,
                            WaitCancelCompletes
<1>10. CASE \E s \in MaskSetters : MaskSetter(s)
  BY <1>7, <1>10 DEF MaskSetter, SetWaitMaskAnswersOld, SetWaitMaskStores, Threads
<1>11. CASE \E x \in RxThreads : RxThread(x)
  BY <1>5, <1>6, <1>7, <1>11 DEF RxThread, RxStopsTimer, RxUnmarksRead, RxCopies,
                                 RxChecksWait, RxAnswersWait, Threads
<1>12. CASE \E p \in PowerThreads : EvtDeviceD0Exit(p) \/ PowerThread(p)
  <2>1. PICK p \in PowerThreads : D0ExitCancelsRead(p)
    BY <1>12 DEF EvtDeviceD0Exit, PowerThread, D0ExitTakesRead, D0ExitPurges
  <2>2. UnmarkSucceeds(held[p]) /\ Complete(held[p], "CANCELLED", 0)
    BY <2>1 DEF D0ExitCancelsRead
  <2>3. held[p] \in Requests
    BY <2>1 DEF D0ExitCancelsRead, OneOwner, HeldWhenNeeded, Requests, Threads
  <2>4. completions[held[p]] = 0
    BY <1>1, <2>2, <2>3 DEF UnmarkSucceeds, CancelRoutineOwns, Revocable
  <2> QED
    BY <1>2, <2>2, <2>3, <2>4
<1>13. CASE \/ \E T \in TimeoutPool : SetTimeouts(T)
            \/ \E q \in Requests : AppCancel(q)
            \/ \E s \in MaskSetters, mask \in Masks : SetWaitMask(s, mask)
            \/ \E x \in RxThreads : EvtUsbBulkInReadComplete(x)
            \/ \E m \in ModemThreads, lines \in SUBSET ModemEvents :
                 SerialNotifyModemStatusChange(m, lines)
            \/ PurgeRx \/ EvtDeviceD0Entry \/ SetTimeoutsReturn \/ GetModemStatus
            \/ UNCHANGED vars
  BY <1>13 DEF SetTimeouts, AppCancel, SetWaitMask, EvtUsbBulkInReadComplete,
               SerialNotifyModemStatusChange, PurgeRx, EvtDeviceD0Entry,
               SetTimeoutsReturn, GetModemStatus, vars
<1>14. CASE \E m \in ModemThreads : ModemAnswersWait(m)
  BY <1>7, <1>14 DEF ModemAnswersWait, Threads
<1> QED
  BY <1>3, <1>4, <1>8, <1>9, <1>10, <1>11, <1>12, <1>13, <1>14 DEF Next, Environment

(* RX data, the timer, a cancellation, a mask change, a modem line and the *)
(* device leaving D0 may race for a request in any number: it is completed *)
(* at most once.                                                           *)
THEOREM NoRequestCompletedTwice == Spec => []CompletedAtMostOnce
<1>1. Init => CompletedAtMostOnce
  BY DEF Init, CompletedAtMostOnce
<1>2. TypeOK /\ OneOwner /\ CompletedAtMostOnce /\ [Next]_vars => CompletedAtMostOnce'
  <2> SUFFICES ASSUME TypeOK, OneOwner, CompletedAtMostOnce, [Next]_vars, NEW r \in Requests
               PROVE  completions'[r] <= 1
    BY DEF CompletedAtMostOnce
  <2> QED
    BY CompletesOnlyWhatItOwns DEF CompletedAtMostOnce
<1> QED
  BY <1>1, <1>2, TypeCorrect, OneOwnerHolds, PTL DEF Spec

-----------------------------------------------------------------------------
(* No read sleeps on data. *)

LEMMA NextNoReadSleepsOnData ==
  ASSUME TypeOK, NoReadSleepsOnData, [Next]_vars
  PROVE  NoReadSleepsOnData'
<1>1. /\ PendingReadRequest # NULL => rxAvailable = 0
      /\ rxAvailable \in Nat /\ PendingReadLength \in Nat
  BY DEF NoReadSleepsOnData, TypeOK
<1>2. CASE \E r \in Reads : EvtIoRead(r)
  BY <1>1, <1>2 DEF EvtIoRead, ReadFromBuffer, ReadAnsweredAtOnce, ReadPended,
                    NoReadSleepsOnData
<1>3. ASSUME NEW t \in Threads, NEW after, CopyToRead(t, after)
      PROVE  NoReadSleepsOnData'
  BY <1>1, <1>3 DEF CopyToRead, Lesser, NoReadSleepsOnData
<1>4. ASSUME NEW x \in RxThreads, EvtUsbBulkInReadComplete(x)
      PROVE  NoReadSleepsOnData'
  <2>1. PICK n \in 1..MaxTransfer :
          LET written == Lesser(n, RingSize - rxAvailable) IN
          /\ rxAvailable' = rxAvailable + written
          /\ \/ PendingReadRequest' = NULL
             \/ PendingReadRequest = NULL /\ UNCHANGED PendingReadRequest
             \/ written = 0 /\ UNCHANGED PendingReadRequest
    BY <1>4 DEF EvtUsbBulkInReadComplete
  <2> QED
    BY <1>1, <2>1 DEF NoReadSleepsOnData
<1>5. ASSUME \/ UNCHANGED <<PendingReadRequest, rxAvailable>>
             \/ PendingReadRequest' = NULL
             \/ rxAvailable' = 0
      PROVE  NoReadSleepsOnData'
  BY <1>1, <1>5 DEF NoReadSleepsOnData
<1>6. CASE \E r \in Reads : ReadHandler(r) \/ ReadCancelRoutine(r)
  BY <1>5, <1>6 DEF ReadHandler, ReadMark, ReadUnpublish, ReadStartTimer,
                    ReadCancelRoutine, ReadCancelStopsTimer, ReadCancelCompletes
<1>7. CASE \E d \in TimerDpcs : TimerExpires(d) \/ TimerDpc(d)
  BY <1>3, <1>5, <1>7 DEF TimerExpires, TimerDpc, TimerTakesRead, TimerUnmarksRead,
                          UnmarkRead, TimerCopies, Threads
<1>8. CASE \E w \in Waits : WaitOnMask(w) \/ WaitHandler(w) \/ WaitCancelCompletes(w)
  BY <1>5, <1>8 DEF WaitOnMask, WaitHandler, WaitMark, WaitUnpublish, WaitCancelCompletes
<1>9. CASE \/ \E s \in MaskSetters : MaskSetter(s)
           \/ \E s \in MaskSetters, mask \in Masks : SetWaitMask(s, mask)
  BY <1>5, <1>9 DEF MaskSetter, SetWaitMask, SetWaitMaskAnswersOld, SetWaitMaskStores
<1>10. CASE \E x \in RxThreads : RxThread(x)
  BY <1>3, <1>5, <1>10 DEF RxThread, RxStopsTimer, RxUnmarksRead, UnmarkRead, RxCopies,
                           RxChecksWait, RxAnswersWait, Threads
<1>11. CASE \E p \in PowerThreads : EvtDeviceD0Exit(p) \/ PowerThread(p)
  BY <1>5, <1>11 DEF EvtDeviceD0Exit, PowerThread, D0ExitTakesRead, D0ExitCancelsRead,
                     D0ExitPurges
<1>12. CASE \/ \E T \in TimeoutPool : SetTimeouts(T)
            \/ \E r \in Requests : AppCancel(r)
            \/ PurgeRx \/ EvtDeviceD0Entry \/ SetTimeoutsReturn \/ GetModemStatus
            \/ UNCHANGED vars
  BY <1>5, <1>12 DEF SetTimeouts, AppCancel, PurgeRx, EvtDeviceD0Entry,
                     SetTimeoutsReturn, GetModemStatus, vars
<1>13. CASE \/ \E m \in ModemThreads, lines \in SUBSET ModemEvents :
                 SerialNotifyModemStatusChange(m, lines)
            \/ \E m \in ModemThreads : ModemAnswersWait(m)
  BY <1>5, <1>13 DEF SerialNotifyModemStatusChange, ModemAnswersWait
<1> QED
  BY <1>2, <1>4, <1>6, <1>7, <1>8, <1>9, <1>10, <1>11, <1>12, <1>13
     DEF Next, Environment

(* The receive path never loses a wakeup: a read that waits in its slot    *)
(* waits for data that has not arrived.                                    *)
THEOREM ReadsSleepOnlyWithoutData == Spec => []NoReadSleepsOnData
<1>1. Init => NoReadSleepsOnData
  BY DEF Init, NoReadSleepsOnData
<1>2. TypeOK /\ NoReadSleepsOnData /\ [Next]_vars => NoReadSleepsOnData'
  BY NextNoReadSleepsOnData
<1> QED
  BY <1>1, <1>2, TypeCorrect, PTL DEF Spec
=============================================================================
