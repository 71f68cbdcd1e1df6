----------------------------- MODULE WritePath -----------------------------
(***************************************************************************)
(* The devices of Lifecycle, and the writes of the application that has    *)
(* opened one of them: EvtIoWrite forwards a write to the bulk OUT pipe    *)
(* and EvtWriteComplete completes it with what became of it there.  The    *)
(* driver keeps nothing about a write; the framework passes a cancellation *)
(* on to whoever has the request.                                          *)
(***************************************************************************)
EXTENDS Lifecycle

CONSTANTS
  Writes,  \* the write requests, each sent once
  Port     \* the device they are sent to

ASSUME WriteAssumption == Port \in Devices

VARIABLES
  handler,    \* progress of a write: idle, send, sent (at the bulk OUT pipe),
              \* returned
  cancelled,  \* the writes the application has cancelled
  status      \* what a write was completed with

writeVars == <<handler, cancelled, status>>

vars == <<lifecycleVars, writeVars>>

Init ==
  /\ LifecycleInit
  /\ handler = [w \in Writes |-> "idle"]
  /\ cancelled = {}
  /\ status = [w \in Writes |-> "NONE"]

Completed(w) == status[w] # "NONE"

Complete(w, s) == status' = [status EXCEPT ![w] = s]

(* Out of D0 with its hardware not yet released. *)
Leaving == stage[Port] \in {"asleep", "failed"}

(* A request may come back as cancelled for one of these reasons. *)
MayCancel(w) == w \in cancelled \/ Leaving

-----------------------------------------------------------------------------
(* A wrong EvtIoWrite: no return after a failure was completed. *)
EvtIoWriteGoesOn(w) ==
  /\ handler[w] = "idle"
  /\ stage[Port] = "D0"
  /\ handler' = [handler EXCEPT ![w] = "send"]
  /\ status' \in {status, [status EXCEPT ![w] = "UNSUCCESSFUL"]}
  /\ UNCHANGED <<lifecycleVars, cancelled>>

(* Retrieving the memory or formatting the request may fail. *)
EvtIoWrite(w) ==
  /\ handler[w] = "idle"
  /\ stage[Port] = "D0"
  /\ \/ /\ Complete(w, "UNSUCCESSFUL")
        /\ handler' = [handler EXCEPT ![w] = "returned"]
     \/ /\ handler' = [handler EXCEPT ![w] = "send"]
        /\ UNCHANGED status
  /\ UNCHANGED <<lifecycleVars, cancelled>>

(* A wrong SendWrite: a request that could not be sent is not completed. *)
SendWriteUnchecked(w) ==
  /\ handler[w] = "send"
  /\ handler' \in {[handler EXCEPT ![w] = "sent"], [handler EXCEPT ![w] = "returned"]}
  /\ UNCHANGED <<lifecycleVars, cancelled, status>>

(* WdfRequestSend. *)
SendWrite(w) ==
  /\ handler[w] = "send"
  /\ \/ /\ handler' = [handler EXCEPT ![w] = "sent"]
        /\ UNCHANGED status
     \/ /\ \/ Complete(w, "UNSUCCESSFUL")
           \/ MayCancel(w) /\ Complete(w, "CANCELLED")
        /\ handler' = [handler EXCEPT ![w] = "returned"]
  /\ UNCHANGED <<lifecycleVars, cancelled>>

(* The pipe is done with w and the framework calls EvtWriteComplete, which *)
(* passes status and length on.                                            *)
EvtWriteComplete(w, s) ==
  /\ handler[w] = "sent"
  /\ Complete(w, s)
  /\ handler' = [handler EXCEPT ![w] = "returned"]
  /\ UNCHANGED <<lifecycleVars, cancelled>>

(* External: the device takes the data, an endpoint that flow control      *)
(* holds up takes none, and a transfer may fail.                           *)
PipeTakes(w) == stage[Port] = "D0" /\ EvtWriteComplete(w, "SUCCESS")

PipeFails(w) == EvtWriteComplete(w, "UNSUCCESSFUL")

PipeCancels(w) == MayCancel(w) /\ EvtWriteComplete(w, "CANCELLED")

(* The application cancels a write it has sent. *)
AppCancel(w) ==
  /\ handler[w] # "idle"
  /\ ~ Completed(w)
  /\ cancelled' = cancelled \cup {w}
  /\ UNCHANGED <<lifecycleVars, handler, status>>

-----------------------------------------------------------------------------
(* External: before the hardware is released the framework has the         *)
(* requests of the device back.                                            *)
AllReturned == \A w \in Writes : handler[w] \in {"idle", "returned"}

DeviceStep(d) ==
  /\ \/ \E n \in PortNames : AssignPortName(d, n)
     \/ EvtDeviceAdd(d)
     \/ DeviceAddFails(d)
     \/ EvtDevicePrepareHardware(d)
     \/ EvtDeviceD0Entry(d)
     \/ EvtDeviceD0Exit(d)
     \/ /\ d = Port => AllReturned
        /\ EvtDeviceReleaseHardware(d)
     \/ DeviceRemoved(d)
  /\ UNCHANGED writeVars

WriteStep(w) ==
  \/ EvtIoWrite(w)
  \/ SendWrite(w)
  \/ PipeTakes(w)
  \/ PipeFails(w)
  \/ PipeCancels(w)
  \/ AppCancel(w)

Next ==
  \/ \E d \in Devices : DeviceStep(d)
  \/ \E w \in Writes : WriteStep(w)

Spec == Init /\ [][Next]_vars

(* EvtIoWrite runs to its end, and what is cancelled at the pipe comes     *)
(* back.  The device need never take a byte.                               *)
Fairness == \A w \in Writes : WF_vars(SendWrite(w)) /\ WF_vars(PipeCancels(w))

FairSpec == Spec /\ Fairness

-----------------------------------------------------------------------------
Stages == {"gone", "added", "prepared", "D0", "asleep", "failed", "broken"}

PartialMap(S, T) == UNION {[D -> T] : D \in SUBSET S}

(* Type invariant. *)
TypeOK ==
  /\ stage \in [Devices -> Stages]
  /\ PortNumber \in [Devices -> Nat]
  /\ PortRegistered \in [Devices -> BOOLEAN]
  /\ buffer \in [Devices -> Nat \cup {NULL}]
  /\ pipes \in [Devices -> SUBSET Bulk]
  /\ PortName \in [Devices -> PortNames \cup {NULL}]
  /\ links \in PartialMap(PortNames, Devices)
  /\ serialcomm \subseteq Nat
  /\ undeleted \subseteq serialcomm
  /\ pool \subseteq 1..adds
  /\ unprepared \subseteq 1..adds
  /\ adds \in 0..MaxAdds
  /\ handler \in [Writes -> {"idle", "send", "sent", "returned"}]
  /\ cancelled \subseteq Writes
  /\ status \in [Writes -> {"NONE", "SUCCESS", "CANCELLED", "UNSUCCESSFUL"}]

(* The device may own the SERIALCOMM entry of this number. *)
MapsAs(d, n) ==
  /\ stage[d] \in {"D0", "asleep", "failed"}
  /\ PortRegistered[d]
  /\ PortNumber[d] = n

(* A COM port stays listed without a device behind it for one reason only, *)
(* that the registry refused to delete its entry, which the code does not  *)
(* notice, and only until a device of the same number writes or deletes    *)
(* it.  Whatever else fails, and in whatever order devices come and go and *)
(* Windows renames ports, EvtDeviceReleaseHardware takes back the entry    *)
(* that EvtDeviceD0Entry made.                                             *)
NoStaleEntry ==
  \A n \in serialcomm : n \in undeleted \/ \E d \in Devices : MapsAs(d, n)

(* The receive buffers of the devices are distinct live allocations, never *)
(* freed twice or used after they were freed, across failed starts and     *)
(* restarts; and all else in the pool was left there by devices that were  *)
(* never prepared: EvtDeviceReleaseHardware frees every other buffer.      *)
BuffersAccounted ==
  /\ \A d, e \in Devices : buffer[d] = buffer[e] /\ buffer[d] # NULL => d = e
  /\ \A d \in Devices : buffer[d] # NULL => Present(d) /\ buffer[d] \in pool
  /\ \A a \in pool : a \in unprepared \/ \E d \in Devices : buffer[d] = a

(* EvtIoWrite reads BulkOutPipe twice and checks it never: it is there as  *)
(* long as a write is on its way, although EvtDevicePrepareHardware may    *)
(* clear it and find no such endpoint.                                     *)
WriteHasPipe ==
  \A w \in Writes :
    stage[Port] = "D0" \/ handler[w] \in {"send", "sent"} => "bulkOut" \in pipes[Port]

Service == INSTANCE RequestService WITH
  Request   <- Writes,
  phase     <- [w \in Writes |-> IF Completed(w) THEN "done"
                                 ELSE IF handler[w] = "idle" THEN "unsent"
                                 ELSE "pending"],
  cancelled <- [w \in Writes |-> w \in cancelled],
  outcome   <- status,
  leaving   <- Leaving

(* Writes are served as RequestService says, whichever step of EvtIoWrite  *)
(* fails and whatever becomes of the request at the pipe: one outcome, and *)
(* STATUS_CANCELLED only for a write that was cancelled or was on its way  *)
(* when the device left D0.                                                *)
ImplementsService == Service!Spec

(* A write that is cancelled is completed in the end, at whichever step    *)
(* the cancellation meets it.                                              *)
CancelIsAnswered == Service!CancelIsAnswered
=============================================================================
