------------------------------ MODULE RxClaims ------------------------------
(***************************************************************************)
(* What the driver's comments say of the receive side and its code does    *)
(* not keep: each is a property a run shows violated.                      *)
(***************************************************************************)
EXTENDS RxPath

(* The read has been marked, is not cancelled and has no answer yet. *)
PendedForGood(r) == handler[r] = "returned" /\ cancel[r] = "cancelable"

(* queue.c:168, "Pend the request - will be completed by RX data or        *)
(* timer": a marked, uncancelled read is in the slot where RX data and the *)
(* timer look for it, or one of them has just taken it.                    *)
PendedReadIsReachable ==
  \A r \in Reads : PendedForGood(r) => PendingReadRequest = r \/ HeldBySomeone(r)

(* queue.c:182, "Start timeout timer": as long as a read with a finite     *)
(* timeout sits in the slot, its timer is set or its callback is about to  *)
(* look at the slot.                                                       *)
TimedReadKeepsItsTimer ==
  \A r \in Reads :
    PendedForGood(r) /\ PendingReadRequest = r /\ timeoutMs[r] < MAXULONG =>
      ReadTimer \/ \E d \in TimerDpcs : pc[d] = "take"

(* ringbuf.h:47, RingBufRead fills at most MaxLen bytes of Dest: a read is *)
(* never answered with more bytes than its own buffer has.                 *)
ReadWithinLength == \A r \in Reads : result[r].info <= length[r]

(* serial.c:445, "Pend the request - will be completed when an event       *)
(* fires": when a modem line in the mask is seen to have changed, the wait *)
(* that is pending is taken from its slot to be completed.                 *)
ModemChangeIsSignalled ==
  [][\A e \in WaitMask :
       (e \in ModemStatus) # (e \in ModemStatus') /\ PendingWaitRequest # NULL =>
         PendingWaitRequest' = NULL]_vars
=============================================================================
