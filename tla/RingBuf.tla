------------------------------ MODULE RingBuf ------------------------------
(***************************************************************************)
(* The circular buffer of ringbuf.c.  Its fields Head and Tail (HeadPos    *)
(* and TailPos here: Head and Tail are sequence operators of TLA+) are     *)
(* free-running ULONG counters: they wrap at CounterMod (2^32 in the code) *)
(* and are masked to a slot only when a byte is touched.  Every caller in  *)
(* the data path holds SerialLock around a call, so a call is one action.  *)
(***************************************************************************)
EXTENDS Integers, Sequences, Ulong

CONSTANTS
  Byte,        \* the values a byte can have
  ZeroByte,    \* what the pool allocation is filled with
  AllocSize,   \* the Size given to RingBufInit, 4096 in the code
  CounterMod,  \* modulus of HeadPos and TailPos
  MaxTransfer  \* most bytes moved by one call

(* RingBufInit rejects a size that is not a power of two, so Size divides  *)
(* the counters' modulus and is at most half of it.                        *)
ASSUME RingAssumption ==
  /\ ZeroByte \in Byte
  /\ AllocSize \in Nat \ {0}
  /\ CounterMod \in Nat
  /\ AllocSize < CounterMod
  /\ CounterMod % AllocSize = 0
  /\ MaxTransfer \in Nat
  /\ MaxTransfer < CounterMod

VARIABLES
  Buffer,  \* the pool allocation, slot by slot
  Size,    \* AllocSize, or 0 once freed
  HeadPos, \* next write position
  TailPos, \* next read position
  written, \* result of the last RingBufWrite
  dest     \* bytes copied out by the last RingBufRead

ringVars == <<Buffer, Size, HeadPos, TailPos, written, dest>>

Slots == 0..(AllocSize - 1)

Transfers == UNION {[1..n -> Byte] : n \in 0..MaxTransfer}

RingBufAvailable == WrapSub(HeadPos, TailPos, CounterMod)

(* A wrong RingBufSpace: one byte too many. *)
OneTooManySpace == WrapSub(Size + 1, RingBufAvailable, CounterMod)

RingBufSpace == WrapSub(Size, WrapSub(HeadPos, TailPos, CounterMod), CounterMod)

(* counter & Mask: Mask is Size - 1 and Size is a power of two. *)
SlotOf(counter) == counter % AllocSize

(* A wrong SlotAfter: the counter is advanced before the byte is copied. *)
NextSlotAfter(counter, offset) == SlotOf(WrapAdd(counter, offset + 1, CounterMod))

(* The slot offset places after the one counter designates. *)
SlotAfter(counter, offset) == SlotOf(WrapAdd(counter, offset, CounterMod))

(* How far slot i lies ahead of the one counter designates. *)
Distance(counter, i) ==
  IF i >= SlotOf(counter) THEN i - SlotOf(counter) ELSE i - SlotOf(counter) + AllocSize

RingBufInit ==
  /\ Buffer = [i \in Slots |-> ZeroByte]
  /\ Size = AllocSize
  /\ HeadPos = 0
  /\ TailPos = 0
  /\ written = 0
  /\ dest = << >>

RingBufWrite(data) ==
  LET toWrite == Lesser(Len(data), RingBufSpace) IN
  /\ Buffer' = [i \in Slots |->
                  IF Distance(HeadPos, i) < toWrite
                    THEN data[Distance(HeadPos, i) + 1]
                    ELSE Buffer[i]]
  /\ HeadPos' = WrapAdd(HeadPos, toWrite, CounterMod)
  /\ written' = toWrite
  /\ UNCHANGED <<Size, TailPos, dest>>

RingBufRead(maxLen) ==
  LET toRead == Lesser(maxLen, RingBufAvailable) IN
  /\ dest' = [j \in 1..toRead |-> Buffer[SlotAfter(TailPos, j - 1)]]
  /\ TailPos' = WrapAdd(TailPos, toRead, CounterMod)
  /\ UNCHANGED <<Buffer, Size, HeadPos, written>>

RingBufPurge ==
  /\ HeadPos' = 0
  /\ TailPos' = 0
  /\ UNCHANGED <<Buffer, Size, written, dest>>

(* The allocation is given back; the driver goes on calling the buffer     *)
(* when the device is started again, since only EvtDeviceAdd allocates it. *)
RingBufFree ==
  /\ Size' = 0
  /\ HeadPos' = 0
  /\ TailPos' = 0
  /\ UNCHANGED <<Buffer, written, dest>>

Next ==
  \/ \E data \in Transfers : RingBufWrite(data)
  \/ \E n \in 0..MaxTransfer : RingBufRead(n)
  \/ RingBufPurge
  \/ RingBufFree

Spec == RingBufInit /\ [][Next]_ringVars

-----------------------------------------------------------------------------

(* Type invariant: the counters stay ULONGs and the buffer is either the   *)
(* allocation of RingBufInit or freed.                                     *)
TypeOK ==
  /\ Buffer \in [Slots -> Byte]
  /\ Size \in {0, AllocSize}
  /\ HeadPos \in 0..(CounterMod - 1)
  /\ TailPos \in 0..(CounterMod - 1)
  /\ written \in 0..MaxTransfer
  /\ dest \in Transfers

(* The unsigned differences RingBufAvailable and RingBufSpace compute stay *)
(* within the buffer whatever the wraps of HeadPos and TailPos, so neither *)
(* a write nor a read ever runs past the other counter.                    *)
OccupancyWithinSize ==
  /\ RingBufAvailable <= Size
  /\ RingBufSpace = Size - RingBufAvailable

(* The bytes between TailPos and HeadPos, oldest first. *)
Contents == [j \in 1..RingBufAvailable |-> Buffer[SlotAfter(TailPos, j - 1)]]

Fifo == INSTANCE RxFifo WITH
          MaxCapacity <- AllocSize,
          queue       <- Contents,
          capacity    <- Size,
          accepted    <- written,
          delivered   <- dest

(* The circular buffer implements the bounded FIFO: RingBufRead returns    *)
(* bytes in the order RingBufWrite stored them, none twice and none        *)
(* overwritten, across the wrap of the counters and of the slots.          *)
ImplementsFifo == Fifo!Spec
=============================================================================
