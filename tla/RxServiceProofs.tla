--------------------------- MODULE RxServiceProofs ---------------------------
(***************************************************************************)
(* RxPath implements RequestService: every step of the receive side is,    *)
(* for the application, the sending, cancelling or completing of one       *)
(* request, the device leaving or having left its working state, or        *)
(* nothing at all.                                                         *)
(*                                                                         *)
(* One lemma per step of RequestService says which changes of the driver's *)
(* state amount to it; one lemma per callback shows that its actions make  *)
(* only such changes.                                                      *)
(***************************************************************************)
EXTENDS RxOwnerProofs

USE RxAssumption, MaxUlongAssumption
    DEF readVars, waitVars, timeoutVars, requestVars, threadVars, envVars,
        CancelStates, HandlerStates, ThreadStates

-----------------------------------------------------------------------------
(* What the application sees of the requests: the values RxPath gives the *)
(* variables of RequestService.                                           *)
Phase == [r \in Requests |-> IF Completed(r) THEN "done"
                             ELSE IF handler[r] = "idle" THEN "unsent"
                             ELSE "pending"]

CancelAsked(r) == cancel[r] \in {"requested", "claimed", "running", "finished"}

Asked == [r \in Requests |-> CancelAsked(r)]

Status == [r \in Requests |-> result[r].status]

Exiting == power = "exit"

LEMMA PhaseUnchanged ==
  ASSUME UNCHANGED completions,
         \A r \in Requests : handler'[r] = "idle" <=> handler[r] = "idle"
  PROVE  UNCHANGED Phase
BY DEF Phase, Completed

LEMMA PhaseMoves ==
  ASSUME NEW r \in Requests, NEW p,
         Phase'[r] = p,
         \A q \in Requests \ {r} : /\ completions'[q] = completions[q]
                                   /\ handler'[q] = handler[q]
  PROVE  Phase' = [Phase EXCEPT ![r] = p]
BY DEF Phase, Completed

LEMMA AskedUnchanged ==
  ASSUME \A r \in Requests : CancelAsked(r)' = CancelAsked(r)
  PROVE  UNCHANGED Asked
BY DEF Asked

LEMMA AskedMoves ==
  ASSUME NEW r \in Requests, CancelAsked(r)',
         \A q \in Requests \ {r} : CancelAsked(q)' = CancelAsked(q)
  PROVE  Asked' = [Asked EXCEPT ![r] = TRUE]
BY DEF Asked

LEMMA StatusMoves ==
  ASSUME TypeOK, NEW r \in Requests, NEW s, NEW info, Complete(r, s, info)
  PROVE  Status' = [Status EXCEPT ![r] = s]
BY DEF TypeOK, Status, Complete

-----------------------------------------------------------------------------
(* The steps of RequestService, in these terms. *)

LEMMA StatusesAgree == Statuses \ {"NONE"} \subseteq Service!Statuses
BY DEF Statuses, Service!Statuses

LEMMA StutterStep ==
  ASSUME UNCHANGED <<Phase, Asked, Status, Exiting>>
  PROVE  UNCHANGED Service!serviceVars
BY DEF Phase, Asked, Status, Exiting, CancelAsked, Service!serviceVars

LEMMA SendStep ==
  ASSUME NEW r \in Requests,
         Phase[r] = "unsent", Phase' = [Phase EXCEPT ![r] = "pending"],
         UNCHANGED <<Asked, Status, Exiting>>
  PROVE  Service!Send(r)
BY DEF Phase, Asked, Status, Exiting, CancelAsked, Service!Send

LEMMA CancelStep ==
  ASSUME NEW r \in Requests,
         Phase[r] = "pending", Asked' = [Asked EXCEPT ![r] = TRUE],
         UNCHANGED <<Phase, Status, Exiting>>
  PROVE  Service!Cancel(r)
BY DEF Phase, Asked, Status, Exiting, CancelAsked, Service!Cancel

LEMMA FinishStep ==
  ASSUME NEW r \in Requests, NEW s,
         Phase[r] = "pending", Phase' = [Phase EXCEPT ![r] = "done"],
         s = "CANCELLED" => Asked[r] \/ Exiting,
         Status' = [Status EXCEPT ![r] = s],
         UNCHANGED <<Asked, Exiting>>
  PROVE  Service!Finish(r, s)
BY DEF Phase, Asked, Status, Exiting, CancelAsked, Service!Finish

LEMMA ServeStep ==
  ASSUME NEW r \in Requests, NEW s, s # "CANCELLED",
         Phase[r] = "unsent", Phase' = [Phase EXCEPT ![r] = "done"],
         Status' = [Status EXCEPT ![r] = s],
         UNCHANGED <<Asked, Exiting>>
  PROVE  Service!Serve(r, s)
BY DEF Phase, Asked, Status, Exiting, CancelAsked, Service!Serve

LEMMA LeavingStep ==
  ASSUME Exiting' = ~ Exiting, UNCHANGED <<Phase, Asked, Status>>
  PROVE  Service!LeaveOrReturn
BY DEF Phase, Asked, Status, Exiting, CancelAsked, Service!LeaveOrReturn

-----------------------------------------------------------------------------
(* The same steps, as changes of the driver's state. *)

ServiceStep == Service!Next \/ UNCHANGED Service!serviceVars

SameCancels == \A r \in Requests : CancelAsked(r)' = CancelAsked(r)

LEMMA Pends ==
  ASSUME NEW r \in Requests,
         handler[r] = "idle", handler'[r] # "idle", completions[r] = 0,
         \A q \in Requests \ {r} : handler'[q] = handler[q],
         UNCHANGED <<completions, result, cancel, power>>
  PROVE  ServiceStep
<1>1. Phase[r] = "unsent" /\ Phase' = [Phase EXCEPT ![r] = "pending"]
  BY PhaseMoves DEF Phase, Completed
<1>2. UNCHANGED <<Asked, Status, Exiting>>
  BY DEF Asked, CancelAsked, Status, Exiting
<1> QED
  BY <1>1, <1>2, SendStep DEF ServiceStep, Service!Next

LEMMA Cancels ==
  ASSUME NEW r \in Requests,
         handler[r] # "idle", completions[r] = 0, CancelAsked(r)',
         \A q \in Requests \ {r} : cancel'[q] = cancel[q],
         UNCHANGED <<completions, result, handler, power>>
  PROVE  ServiceStep
<1>1. Phase[r] = "pending" /\ UNCHANGED <<Phase, Status, Exiting>>
  BY DEF Phase, Completed, Status, Exiting
<1>2. \A q \in Requests \ {r} : CancelAsked(q)' = CancelAsked(q)
  BY DEF CancelAsked
<1>3. Asked' = [Asked EXCEPT ![r] = TRUE]
  BY <1>2, AskedMoves
<1> QED
  BY <1>1, <1>3, CancelStep DEF ServiceStep, Service!Next

LEMMA Finishes ==
  ASSUME TypeOK, NEW r \in Requests, NEW s \in Statuses \ {"NONE"}, NEW info,
         handler[r] # "idle", completions[r] = 0,
         s = "CANCELLED" => CancelAsked(r) \/ Exiting,
         Complete(r, s, info),
         \A q \in Requests : handler'[q] = "idle" <=> handler[q] = "idle",
         SameCancels, UNCHANGED power
  PROVE  ServiceStep
<1>1. Phase[r] = "pending" /\ Phase'[r] = "done"
  BY DEF Phase, Completed, Complete, TypeOK
<1>2. Phase' = [Phase EXCEPT ![r] = "done"]
  BY <1>1 DEF Phase, Completed, Complete, TypeOK
<1>3. s = "CANCELLED" => Asked[r] \/ Exiting
  BY DEF Asked
<1>4. UNCHANGED <<Asked, Exiting>>
  BY AskedUnchanged DEF SameCancels, Exiting
<1> QED
  BY <1>1, <1>2, <1>3, <1>4, StatusMoves, StatusesAgree, FinishStep DEF ServiceStep, Service!Next

LEMMA Serves ==
  ASSUME TypeOK, NEW r \in Requests, NEW s \in Statuses \ {"NONE"}, NEW info,
         handler[r] = "idle", completions[r] = 0, s # "CANCELLED",
         Complete(r, s, info),
         \A q \in Requests \ {r} : handler'[q] = handler[q],
         UNCHANGED <<cancel, power>>
  PROVE  ServiceStep
<1>1. Phase[r] = "unsent" /\ Phase'[r] = "done"
  BY DEF Phase, Completed, Complete, TypeOK
<1>2. Phase' = [Phase EXCEPT ![r] = "done"]
  BY <1>1 DEF Phase, Completed, Complete, TypeOK
<1>3. UNCHANGED <<Asked, Exiting>>
  BY DEF Asked, CancelAsked, Exiting
<1> QED
  BY <1>1, <1>2, <1>3, StatusMoves, StatusesAgree, ServeStep DEF ServiceStep, Service!Next

LEMMA Stutters ==
  ASSUME \A r \in Requests : handler'[r] = "idle" <=> handler[r] = "idle",
         UNCHANGED <<completions, result>>, SameCancels, UNCHANGED Exiting
  PROVE  ServiceStep
<1>1. UNCHANGED <<Phase, Asked, Status>>
  BY PhaseUnchanged, AskedUnchanged DEF SameCancels, Status
<1> QED
  BY <1>1, StutterStep DEF ServiceStep

LEMMA Leaves ==
  ASSUME Exiting' = ~ Exiting, UNCHANGED <<completions, result, handler, cancel>>
  PROVE  ServiceStep
<1>1. UNCHANGED <<Phase, Asked, Status>>
  BY DEF Phase, Completed, Asked, CancelAsked, Status
<1> QED
  BY <1>1, LeavingStep DEF ServiceStep, Service!Next

-----------------------------------------------------------------------------
(* The device leaves D0 in one thread at a time, and while it does, power  *)
(* is "exit": what EvtDeviceD0Exit cancels may be cancelled.               *)

ExitAlone ==
  \A p \in PowerThreads : pc[p] # "idle" =>
    /\ power = "exit"
    /\ \A q \in PowerThreads \ {p} : pc[q] = "idle"

(* The other threads leave the power threads and power alone. *)
LEMMA OthersExitAlone ==
  ASSUME ExitAlone, UNCHANGED power,
         \A p \in PowerThreads : pc'[p] = pc[p]
  PROVE  ExitAlone'
BY DEF ExitAlone

LEMMA NextExitAlone ==
  ASSUME TypeOK, ExitAlone, [Next]_vars
  PROVE  ExitAlone'
<1>1. ASSUME NEW t \in Threads \ PowerThreads, NEW q, pc' = [pc EXCEPT ![t] = q]
      PROVE  \A p \in PowerThreads : pc'[p] = pc[p]
  BY <1>1 DEF TypeOK
<1>2. /\ RxThreads \subseteq Threads \ PowerThreads
      /\ TimerDpcs \subseteq Threads \ PowerThreads
      /\ MaskSetters \subseteq Threads \ PowerThreads
      /\ ModemThreads \subseteq Threads \ PowerThreads
      /\ pc \in [Threads -> ThreadStates] /\ PowerThreads \subseteq Threads
  BY DEF Threads, TypeOK
<1>3. CASE \E p \in PowerThreads : EvtDeviceD0Exit(p) \/ PowerThread(p)
  <2>1. PICK p \in PowerThreads : EvtDeviceD0Exit(p) \/ PowerThread(p)
    BY <1>3
  <2>2. \A q \in PowerThreads \ {p} : pc'[q] = pc[q]
    BY <1>2, <2>1 DEF EvtDeviceD0Exit, PowerThread, D0ExitTakesRead, D0ExitCancelsRead,
                      D0ExitPurges, Goto
  <2>3. CASE EvtDeviceD0Exit(p)
    BY <1>2, <2>2, <2>3 DEF EvtDeviceD0Exit, Goto, ExitAlone
  <2>4. CASE PowerThread(p)
    <3>1. pc[p] # "idle" /\ (pc'[p] = "idle" \/ UNCHANGED power)
      BY <1>2, <2>4 DEF PowerThread, D0ExitTakesRead, D0ExitCancelsRead, D0ExitPurges, Goto
    <3> QED
      BY <2>2, <3>1 DEF ExitAlone
  <2> QED
    BY <2>1, <2>3, <2>4
<1>4. CASE EvtDeviceD0Entry
  BY <1>4 DEF EvtDeviceD0Entry, ExitAlone
<1>5. CASE \/ \E r \in Reads : EvtIoRead(r) \/ ReadHandler(r) \/ ReadCancelRoutine(r)
           \/ \E w \in Waits : WaitOnMask(w) \/ WaitHandler(w) \/ WaitCancelCompletes(w)
           \/ \E r \in Requests : AppCancel(r)
           \/ \E T \in TimeoutPool : SetTimeouts(T)
           \/ SetTimeoutsReturn \/ GetModemStatus \/ PurgeRx \/ UNCHANGED vars
  BY <1>5, OthersExitAlone
     DEF EvtIoRead, ReadHandler, ReadMark, ReadUnpublish, ReadStartTimer,
         ReadCancelRoutine, ReadCancelStopsTimer, ReadCancelCompletes, WaitOnMask,
         WaitHandler, WaitMark, WaitUnpublish, WaitCancelCompletes, AppCancel,
         SetTimeouts, SetTimeoutsReturn, GetModemStatus, PurgeRx, vars
<1>6. CASE \E d \in TimerDpcs : TimerExpires(d) \/ TimerDpc(d)
  BY <1>1, <1>2, <1>6, OthersExitAlone
     DEF TimerExpires, TimerDpc, TimerTakesRead, TimerUnmarksRead, UnmarkRead,
         TimerCopies, CopyToRead, Goto
<1>7. CASE \E x \in RxThreads : EvtUsbBulkInReadComplete(x) \/ RxThread(x)
  BY <1>1, <1>2, <1>7, OthersExitAlone
     DEF EvtUsbBulkInReadComplete, CheckWait, RxThread, RxStopsTimer, RxUnmarksRead,
         UnmarkRead, RxCopies, CopyToRead, RxChecksWait, RxAnswersWait, Goto
<1>8. CASE \/ \E s \in MaskSetters : MaskSetter(s)
           \/ \E s \in MaskSetters, mask \in Masks : SetWaitMask(s, mask)
  BY <1>1, <1>2, <1>8, OthersExitAlone
     DEF MaskSetter, SetWaitMask, SetWaitMaskAnswersOld, SetWaitMaskStores, Goto
<1>9. CASE \/ \E m \in ModemThreads : ModemAnswersWait(m)
           \/ \E m \in ModemThreads, lines \in SUBSET ModemEvents :
                SerialNotifyModemStatusChange(m, lines)
  BY <1>1, <1>2, <1>9, OthersExitAlone
     DEF ModemAnswersWait, SerialNotifyModemStatusChange, Goto
<1> QED
  BY <1>3, <1>4, <1>5, <1>6, <1>7, <1>8, <1>9 DEF Next, Environment

LEMMA ExitAloneHolds == Spec => []ExitAlone
<1>1. Init => ExitAlone
  BY DEF Init, ExitAlone, Threads
<1> QED
  BY <1>1, NextExitAlone, TypeCorrect, PTL DEF Spec

-----------------------------------------------------------------------------
(* The callbacks. *)

(* Whoever completes a request has it to itself, so the application sees a *)
(* pending request become done.                                            *)

LEMMA OwnedByHandler ==
  ASSUME OneOwner, NEW r \in Requests
  PROVE  /\ handler[r] = "idle" => completions[r] = 0 /\ cancel[r] = "no"
         /\ handler[r] = "mark" =>
              completions[r] = 0 /\ cancel[r] \in {"no", "requested"}
         /\ handler[r] = "unpublish" => completions[r] = 0 /\ cancel[r] = "requested"
BY DEF OneOwner, UnsentUntouched, HandlerOwns

LEMMA OwnedByCanceller ==
  ASSUME OneOwner, NEW r \in Requests, cancel[r] \in Revocable
  PROVE  completions[r] = 0 /\ handler[r] # "idle"
BY DEF OneOwner, CancelRoutineOwns, HandlerThrough

LEMMA EvtIoReadServes ==
  ASSUME TypeOK, OneOwner, NEW r \in Reads, EvtIoRead(r)
  PROVE  ServiceStep
<1>1. /\ r \in Requests /\ handler[r] = "idle" /\ completions[r] = 0
      /\ UNCHANGED <<cancel, power>>
      /\ \A q \in Requests \ {r} : handler'[q] = handler[q]
      /\ {"SUCCESS", "DEVICE_BUSY"} \subseteq Statuses \ {"NONE", "CANCELLED"}
  BY OwnedByHandler DEF EvtIoRead, ReadFromBuffer, ReadAnsweredAtOnce, ReadPended,
                        TypeOK, Requests, Statuses
<1>2. CASE \E s \in {"SUCCESS", "DEVICE_BUSY"} : \E info : Complete(r, s, info)
  BY <1>1, <1>2, Serves
<1>3. CASE handler'[r] # "idle" /\ UNCHANGED <<completions, result>>
  BY <1>1, <1>3, Pends
<1> QED
  BY <1>1, <1>2, <1>3 DEF EvtIoRead, ReadFromBuffer, ReadAnsweredAtOnce, ReadPended, TypeOK

LEMMA ReadHandlerServes ==
  ASSUME TypeOK, OneOwner, NEW r \in Reads, ReadHandler(r)
  PROVE  ServiceStep
<1>1. /\ r \in Requests /\ UNCHANGED power
      /\ \A q \in Requests : handler'[q] = "idle" <=> handler[q] = "idle"
  BY DEF ReadHandler, ReadMark, ReadUnpublish, ReadStartTimer, TypeOK, Requests
<1>2. CASE ReadMark(r)
  <2>1. \A q \in Requests : CancelAsked(q)' = CancelAsked(q)
    BY <1>1, <1>2, OwnedByHandler DEF ReadMark, MarkFails, CancelAsked, TypeOK
  <2> QED
    BY <1>1, <1>2, <2>1, Stutters DEF ReadMark, SameCancels, Exiting
<1>3. CASE ReadUnpublish(r)
  <2>1. completions[r] = 0 /\ cancel[r] = "requested" /\ handler[r] # "idle"
    BY <1>1, <1>3, OwnedByHandler DEF ReadUnpublish
  <2> QED
    BY <1>1, <1>3, <2>1, Finishes
       DEF ReadUnpublish, CancelAsked, SameCancels, Statuses
<1>4. CASE ReadStartTimer(r)
  BY <1>1, <1>4, Stutters DEF ReadStartTimer, SameCancels, CancelAsked, Exiting
<1> QED
  BY <1>2, <1>3, <1>4 DEF ReadHandler

LEMMA ReadCancelRoutineServes ==
  ASSUME TypeOK, OneOwner, NEW r \in Reads, ReadCancelRoutine(r)
  PROVE  ServiceStep
<1>1. /\ r \in Requests /\ cancel[r] \in {"claimed", "running"}
      /\ \A q \in Requests : CancelAsked(q)' = CancelAsked(q)
      /\ UNCHANGED <<handler, power>>
  BY DEF ReadCancelRoutine, ReadCancelStopsTimer, ReadCancelCompletes, CancelAsked,
         TypeOK, Requests
<1>2. CASE ReadCancelStopsTimer(r)
  BY <1>1, <1>2, Stutters DEF ReadCancelStopsTimer, SameCancels, Exiting
<1>3. CASE ReadCancelCompletes(r)
  <2>1. completions[r] = 0 /\ handler[r] # "idle" /\ CancelAsked(r)
    BY <1>1, OwnedByCanceller DEF Revocable, CancelAsked
  <2> QED
    BY <1>1, <1>3, <2>1, Finishes DEF ReadCancelCompletes, SameCancels, Statuses
<1> QED
  BY <1>2, <1>3 DEF ReadCancelRoutine

(* The steps that complete a read taken from the slot. *)
LEMMA UnmarkReadServes ==
  ASSUME TypeOK, OneOwner, NEW t \in Threads, NEW after, UnmarkRead(t, after)
  PROVE  ServiceStep
<1>1. /\ held[t] \in Requests
      /\ \A q \in Requests : CancelAsked(q)' = CancelAsked(q)
      /\ UNCHANGED <<handler, power>>
  BY DEF UnmarkRead, UnmarkSucceeds, OneOwner, HeldWhenNeeded, CancelAsked, TypeOK,
         Requests
<1>2. CASE UNCHANGED <<completions, result>>
  BY <1>1, <1>2, Stutters DEF SameCancels, Exiting
<1>3. CASE UnmarkSucceeds(held[t]) /\ Complete(held[t], "BUFFER_TOO_SMALL", 0)
  <2>1. completions[held[t]] = 0 /\ handler[held[t]] # "idle"
    BY <1>1, <1>3, OwnedByCanceller DEF UnmarkSucceeds, Revocable
  <2> QED
    BY <1>1, <1>3, <2>1, Finishes DEF SameCancels, Statuses
<1> QED
  BY <1>2, <1>3 DEF UnmarkRead

LEMMA CopyToReadServes ==
  ASSUME TypeOK, OneOwner, NEW t \in Threads, NEW after, CopyToRead(t, after)
  PROVE  ServiceStep
<1>1. held[t] \in Requests /\ completions[held[t]] = 0 /\ handler[held[t]] # "idle"
  BY DEF CopyToRead, OneOwner, CopierOwns, HandlerThrough, Requests
<1>2. SameCancels /\ UNCHANGED <<handler, power>>
  BY DEF CopyToRead, SameCancels, CancelAsked
<1> QED
  BY <1>1, <1>2, Finishes DEF CopyToRead, Statuses

(* Answering a wait that was taken from the slot. *)
LEMMA AnswerWaitServes ==
  ASSUME TypeOK, OneOwner, NEW t \in Threads, NEW info,
         pc[t] = "unmarkWait", AnswerWait(t, info), UNCHANGED <<handler, power>>
  PROVE  ServiceStep
<1>1. held[t] \in Requests
  BY DEF OneOwner, HeldWhenNeeded, Requests
<1>2. SameCancels
  BY <1>1 DEF AnswerWait, UnmarkSucceeds, SameCancels, CancelAsked, TypeOK
<1>3. CASE UnmarkSucceeds(held[t])
  <2>1. completions[held[t]] = 0 /\ handler[held[t]] # "idle"
    BY <1>1, <1>3, OwnedByCanceller DEF UnmarkSucceeds, Revocable
  <2> QED
    BY <1>1, <1>2, <1>3, <2>1, Finishes DEF AnswerWait, Statuses
<1>4. CASE ~ UnmarkSucceeds(held[t])
  BY <1>2, <1>4, Stutters DEF AnswerWait, Exiting
<1> QED
  BY <1>3, <1>4

LEMMA WaitOnMaskServes ==
  ASSUME TypeOK, OneOwner, NEW w \in Waits, WaitOnMask(w)
  PROVE  ServiceStep
<1> DEFINE Answers == {"SUCCESS", "INVALID_PARAMETER", "INVALID_DEVICE_REQUEST"}
<1>1. /\ w \in Requests /\ handler[w] = "idle" /\ completions[w] = 0
      /\ UNCHANGED <<cancel, power>>
      /\ \A q \in Requests \ {w} : handler'[q] = handler[q]
      /\ Answers \subseteq Statuses \ {"NONE", "CANCELLED"}
  BY OwnedByHandler DEF WaitOnMask, WaitAnsweredAtOnce, WaitPended, TypeOK, Requests,
                        Statuses
<1>2. CASE \E s \in Answers : \E info : Complete(w, s, info)
  BY <1>1, <1>2, Serves
<1>3. CASE handler'[w] # "idle" /\ UNCHANGED <<completions, result>>
  BY <1>1, <1>3, Pends
<1> QED
  BY <1>1, <1>2, <1>3 DEF WaitOnMask, WaitAnsweredAtOnce, WaitPended, TypeOK

LEMMA WaitHandlerServes ==
  ASSUME TypeOK, OneOwner, NEW w \in Waits, WaitHandler(w)
  PROVE  ServiceStep
<1>1. /\ w \in Requests /\ UNCHANGED power
      /\ \A q \in Requests : handler'[q] = "idle" <=> handler[q] = "idle"
  BY DEF WaitHandler, WaitMark, WaitUnpublish, TypeOK, Requests
<1>2. CASE WaitMark(w)
  <2>1. \A q \in Requests : CancelAsked(q)' = CancelAsked(q)
    BY <1>1, <1>2, OwnedByHandler DEF WaitMark, MarkFails, CancelAsked, TypeOK
  <2> QED
    BY <1>1, <1>2, <2>1, Stutters DEF WaitMark, SameCancels, Exiting
<1>3. CASE WaitUnpublish(w)
  <2>1. completions[w] = 0 /\ cancel[w] = "requested" /\ handler[w] # "idle"
    BY <1>1, <1>3, OwnedByHandler DEF WaitUnpublish
  <2> QED
    BY <1>1, <1>3, <2>1, Finishes DEF WaitUnpublish, CancelAsked, SameCancels, Statuses
<1> QED
  BY <1>2, <1>3 DEF WaitHandler

LEMMA WaitCancelServes ==
  ASSUME TypeOK, OneOwner, NEW w \in Waits, WaitCancelCompletes(w)
  PROVE  ServiceStep
<1>1. /\ w \in Requests /\ cancel[w] = "claimed"
      /\ \A q \in Requests : CancelAsked(q)' = CancelAsked(q)
  BY DEF WaitCancelCompletes, CancelAsked, TypeOK, Requests
<1>2. completions[w] = 0 /\ handler[w] # "idle" /\ CancelAsked(w)
  BY <1>1, OwnedByCanceller DEF Revocable, CancelAsked
<1> QED
  BY <1>1, <1>2, Finishes DEF WaitCancelCompletes, SameCancels, Statuses

LEMMA AppCancelServes ==
  ASSUME TypeOK, NEW r \in Requests, AppCancel(r)
  PROVE  ServiceStep
<1>1. handler[r] # "idle" /\ completions[r] = 0
  BY DEF AppCancel, Completed, TypeOK
<1>2. CancelAsked(r)' /\ \A q \in Requests \ {r} : cancel'[q] = cancel[q]
  BY DEF AppCancel, CancelAsked, TypeOK
<1> QED
  BY <1>1, <1>2, Cancels DEF AppCancel

(* EvtDeviceD0Exit cancels a read while the device is leaving D0.          *)
LEMMA PowerServes ==
  ASSUME TypeOK, OneOwner, ExitAlone, NEW p \in PowerThreads,
         EvtDeviceD0Exit(p) \/ PowerThread(p)
  PROVE  ServiceStep
<1>1. p \in Threads /\ UNCHANGED handler
  BY DEF Threads, EvtDeviceD0Exit, PowerThread, D0ExitTakesRead, D0ExitCancelsRead,
         D0ExitPurges
<1>2. CASE EvtDeviceD0Exit(p)
  BY <1>2, Leaves DEF EvtDeviceD0Exit, Exiting
<1>3. CASE PowerThread(p)
  <2>1. Exiting
    BY <1>3 DEF ExitAlone, Exiting, PowerThread, D0ExitTakesRead, D0ExitCancelsRead,
                D0ExitPurges
  <2>2. CASE ~ Exiting' /\ UNCHANGED requestVars
    BY <1>1, <2>1, <2>2, Leaves DEF Exiting
  <2>3. CASE UNCHANGED <<requestVars, power>>
    BY <1>1, <2>3, Stutters DEF SameCancels, CancelAsked, Exiting
  <2>4. CASE D0ExitCancelsRead(p) /\ UnmarkSucceeds(held[p])
    <3>1. held[p] \in Requests
      BY <1>1, <2>4 DEF D0ExitCancelsRead, OneOwner, HeldWhenNeeded, Requests
    <3>2. completions[held[p]] = 0 /\ handler[held[p]] # "idle"
      BY <2>4, <3>1, OwnedByCanceller DEF UnmarkSucceeds, Revocable
    <3>3. SameCancels
      BY <2>4, <3>1 DEF D0ExitCancelsRead, UnmarkSucceeds, SameCancels, CancelAsked, TypeOK
    <3> QED
      BY <1>1, <2>1, <2>4, <3>1, <3>2, <3>3, Finishes DEF D0ExitCancelsRead, Statuses
  <2> QED
    BY <1>3, <2>2, <2>3, <2>4 DEF PowerThread, D0ExitTakesRead, D0ExitCancelsRead,
                                  D0ExitPurges, Exiting
<1> QED
  BY <1>2, <1>3

(* Steps that the application does not see. *)
LEMMA UnseenSteps ==
  ASSUME UNCHANGED <<requestVars, handler>>, UNCHANGED Exiting
  PROVE  ServiceStep
BY Stutters DEF SameCancels, CancelAsked

LEMMA NextServes ==
  ASSUME TypeOK, OneOwner, ExitAlone, [Next]_vars
  PROVE  ServiceStep
<1>1. /\ RxThreads \subseteq Threads /\ TimerDpcs \subseteq Threads
      /\ MaskSetters \subseteq Threads /\ ModemThreads \subseteq Threads
  BY DEF Threads
<1>2. CASE \E r \in Reads : EvtIoRead(r) \/ ReadHandler(r) \/ ReadCancelRoutine(r)
  BY <1>2, EvtIoReadServes, ReadHandlerServes, ReadCancelRoutineServes
<1>3. CASE \E w \in Waits : WaitOnMask(w) \/ WaitHandler(w) \/ WaitCancelCompletes(w)
  BY <1>3, WaitOnMaskServes, WaitHandlerServes, WaitCancelServes
<1>4. CASE \E r \in Requests : AppCancel(r)
  BY <1>4, AppCancelServes
<1>5. CASE \E p \in PowerThreads : EvtDeviceD0Exit(p) \/ PowerThread(p)
  BY <1>5, PowerServes
<1>6. CASE \E d \in TimerDpcs : TimerExpires(d) \/ TimerDpc(d)
  BY <1>1, <1>6, UnmarkReadServes, CopyToReadServes, UnseenSteps
     DEF TimerExpires, TimerDpc, TimerTakesRead, TimerUnmarksRead, TimerCopies, Exiting
<1>7. CASE \E x \in RxThreads : EvtUsbBulkInReadComplete(x) \/ RxThread(x)
  BY <1>1, <1>7, UnmarkReadServes, CopyToReadServes, AnswerWaitServes, UnseenSteps
     DEF EvtUsbBulkInReadComplete, RxThread, RxStopsTimer, RxUnmarksRead, RxCopies,
         RxChecksWait, RxAnswersWait, Exiting
<1>8. CASE \/ \E s \in MaskSetters : MaskSetter(s)
           \/ \E s \in MaskSetters, mask \in Masks : SetWaitMask(s, mask)
  BY <1>1, <1>8, AnswerWaitServes, UnseenSteps
     DEF MaskSetter, SetWaitMask, SetWaitMaskAnswersOld, SetWaitMaskStores, Exiting
<1>9. CASE \/ \E m \in ModemThreads : ModemAnswersWait(m)
           \/ \E m \in ModemThreads, lines \in SUBSET ModemEvents :
                SerialNotifyModemStatusChange(m, lines)
  BY <1>1, <1>9, AnswerWaitServes, UnseenSteps
     DEF ModemAnswersWait, SerialNotifyModemStatusChange, Exiting
<1>10. CASE \/ \E T \in TimeoutPool : SetTimeouts(T)
            \/ SetTimeoutsReturn \/ GetModemStatus \/ PurgeRx \/ EvtDeviceD0Entry
            \/ UNCHANGED vars
  BY <1>10, UnseenSteps DEF SetTimeouts, SetTimeoutsReturn, GetModemStatus, PurgeRx,
                            EvtDeviceD0Entry, Exiting, vars
<1> QED
  BY <1>2, <1>3, <1>4, <1>5, <1>6, <1>7, <1>8, <1>9, <1>10 DEF Next, Environment

(* For any number of requests and of racing threads, reads and waits are   *)
(* served as RequestService says: one outcome per request, never changed   *)
(* again, and STATUS_CANCELLED only for a request the application          *)
(* cancelled or that EvtDeviceD0Exit gave up.                              *)
THEOREM RequestsAreServed == Spec => ImplementsService
<1>1. Init => Service!Init
  <2> SUFFICES ASSUME Init PROVE Service!Init
    OBVIOUS
  <2>1. Phase = [r \in Requests |-> "unsent"] /\ Status = [r \in Requests |-> "NONE"]
    BY DEF Init, NoResult, Phase, Status, Completed
  <2>2. Asked = [r \in Requests |-> FALSE]
    <3>1. \A r \in Requests : CancelAsked(r) = FALSE
      BY DEF Init, CancelAsked
    <3> QED
      BY <3>1 DEF Asked
  <2>3. Exiting = FALSE
    BY DEF Init, Exiting
  <2> QED
    BY <2>1, <2>2, <2>3 DEF Phase, Asked, Status, Exiting, CancelAsked, Service!Init
<1>2. TypeOK /\ OneOwner /\ ExitAlone /\ [Next]_vars => [Service!Next]_(Service!serviceVars)
  BY NextServes DEF ServiceStep
<1> QED
  BY <1>1, <1>2, TypeCorrect, OneOwnerHolds, ExitAloneHolds, PTL
     DEF Spec, ImplementsService, Service!Spec
=============================================================================
