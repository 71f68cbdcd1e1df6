--------------------------- MODULE RequestService ---------------------------
(***************************************************************************)
(* What a driver owes the application for every request it is sent: the    *)
(* request is completed at most once, its outcome never changes, it is     *)
(* completed as cancelled only if the application cancelled it or the      *)
(* device is leaving its working state, and a cancelled request is         *)
(* completed in the end.                                                   *)
(***************************************************************************)
CONSTANT Request

VARIABLES
  phase,      \* "unsent", "pending" or "done"
  cancelled,  \* whether the application cancelled the request
  outcome,    \* the status it was completed with
  leaving     \* whether the device is leaving its working state

serviceVars == <<phase, cancelled, outcome, leaving>>

Statuses == {"SUCCESS", "CANCELLED", "DEVICE_BUSY", "BUFFER_TOO_SMALL",
             "INVALID_PARAMETER", "INVALID_DEVICE_REQUEST", "UNSUCCESSFUL"}

Init ==
  /\ phase = [r \in Request |-> "unsent"]
  /\ cancelled = [r \in Request |-> FALSE]
  /\ outcome = [r \in Request |-> "NONE"]
  /\ leaving = FALSE

Send(r) ==
  /\ phase[r] = "unsent"
  /\ phase' = [phase EXCEPT ![r] = "pending"]
  /\ UNCHANGED <<cancelled, outcome, leaving>>

Cancel(r) ==
  /\ phase[r] = "pending"
  /\ cancelled' = [cancelled EXCEPT ![r] = TRUE]
  /\ UNCHANGED <<phase, outcome, leaving>>

Finish(r, status) ==
  /\ phase[r] = "pending"
  /\ status = "CANCELLED" => cancelled[r] \/ leaving
  /\ phase' = [phase EXCEPT ![r] = "done"]
  /\ outcome' = [outcome EXCEPT ![r] = status]
  /\ UNCHANGED <<cancelled, leaving>>

(* A request that can be answered at once is sent and finished in one step. *)
Serve(r, status) ==
  /\ phase[r] = "unsent"
  /\ status # "CANCELLED"
  /\ phase' = [phase EXCEPT ![r] = "done"]
  /\ outcome' = [outcome EXCEPT ![r] = status]
  /\ UNCHANGED <<cancelled, leaving>>

LeaveOrReturn ==
  /\ leaving' = ~ leaving
  /\ UNCHANGED <<phase, cancelled, outcome>>

Next ==
  \/ \E r \in Request : Send(r) \/ Cancel(r)
  \/ \E r \in Request, status \in Statuses : Finish(r, status) \/ Serve(r, status)
  \/ LeaveOrReturn

Spec == Init /\ [][Next]_serviceVars

CancelIsAnswered == \A r \in Request : cancelled[r] ~> phase[r] = "done"
=============================================================================
