------------------------------- MODULE RxFifo -------------------------------
(***************************************************************************)
(* What the receive buffer of the driver promises: a bounded first-in      *)
(* first-out queue of bytes.  A transfer that does not fit keeps the bytes *)
(* already queued and the longest prefix of the new ones that fits; a read *)
(* takes the oldest bytes; a purge empties the queue.  After the buffer is *)
(* closed it holds nothing and accepts nothing.                            *)
(***************************************************************************)
EXTENDS Integers, Sequences, Ulong

CONSTANTS
  Byte,        \* the values a byte can have
  MaxCapacity, \* capacity of the open queue
  MaxTransfer  \* most bytes moved by one call

VARIABLES
  queue,     \* the bytes received and not yet read, oldest first
  capacity,  \* MaxCapacity while open, 0 once closed
  accepted,  \* how many bytes the last Put kept
  delivered  \* the bytes the last Get returned

fifoVars == <<queue, capacity, accepted, delivered>>

Transfers == UNION {[1..n -> Byte] : n \in 0..MaxTransfer}

Init ==
  /\ queue = << >>
  /\ capacity = MaxCapacity
  /\ accepted = 0
  /\ delivered = << >>

Put(data) ==
  LET n == Lesser(Len(data), capacity - Len(queue)) IN
  /\ queue' = queue \o SubSeq(data, 1, n)
  /\ accepted' = n
  /\ UNCHANGED <<capacity, delivered>>

Get(maxLen) ==
  LET n == Lesser(maxLen, Len(queue)) IN
  /\ delivered' = SubSeq(queue, 1, n)
  /\ queue' = SubSeq(queue, n + 1, Len(queue))
  /\ UNCHANGED <<capacity, accepted>>

Clear ==
  /\ queue' = << >>
  /\ UNCHANGED <<capacity, accepted, delivered>>

Close ==
  /\ queue' = << >>
  /\ capacity' = 0
  /\ UNCHANGED <<accepted, delivered>>

Next ==
  \/ \E data \in Transfers : Put(data)
  \/ \E n \in 0..MaxTransfer : Get(n)
  \/ Clear
  \/ Close

Spec == Init /\ [][Next]_fifoVars
=============================================================================
