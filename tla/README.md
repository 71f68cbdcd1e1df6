# TLA+ models of the CH341 ARM64 driver

This directory specifies the behaviour of the KMDF driver under `src/`: TLA+
modules translated from the source, TLC configurations that check them on small
instances, and proofs, checked by TLAPS, that hold for every value of the
constants. Paths below are relative to the repository's `src/` directory, so
`queue.c:173` is line 173 of `src/queue.c`.

1. [The system](#1-the-system)
2. [The modules](#2-the-modules)
3. [How the code is read](#3-how-the-code-is-read)
4. [What TLC checks](#4-what-tlc-checks)
5. [What is proved](#5-what-is-proved)
6. [Where code and text disagree](#6-where-code-and-text-disagree)
7. [What is not modelled, and the plan](#7-what-is-not-modelled-and-the-plan)

## 1. The system

The driver turns a CH341 USB bridge into a COM port. Windows' framework calls it
in callbacks, several at once: the default queue is parallel (`queue.c:42`), so
every read, write and IOCTL has a thread of its own; the continuous reader
delivers bulk IN transfers; the read timer, the cancel routines and the power
callbacks each come on their own thread. All share one `DEVICE_CONTEXT`
(`device.h`), part of which one spin lock, `SerialLock`, protects.

| Component | State | Operations | Talks to |
|---|---|---|---|
| Receive buffer, `ringbuf.c` | `Buffer`, `Size`, free-running `Head`, `Tail` | Init, Free, Write, Read, Available, Space, Purge | called by the read path, bulk IN completion, PURGE, D0Exit, under `SerialLock` |
| Read path, `queue.c` | `PendingReadRequest` (one slot), `PendingReadLength`, `ReadTimer`, `Timeouts` | `EvtIoRead`, `CalcReadTimeoutMs`, `EvtReadTimeoutTimer`, `EvtPendingReadCancel`, `QueueCompletePendingRead` | drains the buffer; woken by bulk IN completion |
| WaitCommEvent, `serial.c` | `WaitMask`, `PendingWaitRequest` (one slot) | SET_WAIT_MASK, WAIT_ON_MASK, `EvtWaitOnMaskCancel` | woken by bulk IN completion |
| Bulk IN completion, purge and power-down, `device.c`, `serial.c` | (that of the two above) | `EvtUsbBulkInReadComplete`, PURGE, `EvtDeviceD0Exit`, `EvtDeviceD0Entry` | buffer, both slots, the timer |
| Baud rate generator, `ch341.c` | none | `Ch341CalcDivisor` | called by `Ch341SetBaudRate` |
| Serial configuration, `serial.c`, `ch341.c` | `CurrentBaud`, `LineControl`, `HandFlow`, `DtrState`, `RtsState`, and the chip's registers | the set IOCTLs, `Ch341InitHardware` | control transfers; power-up |
| Modem status, `serial.c`, `ch341.c` | `ModemStatus`, `PreviousModemStatus` | GET_MODEMSTATUS, the read at power-up, `SerialNotifyModemStatusChange` (no caller) | would signal the wait slot |
| Write path, `queue.c` | none of its own | `EvtIoWrite`, `EvtWriteComplete` | the bulk OUT pipe that the lifecycle finds |
| Device lifecycle, `driver.c`, `device.c` | the pipes, the buffer's allocation | `EvtDeviceAdd`, `EvtDevicePrepareHardware`, `EvtDeviceD0Entry`, `EvtDeviceD0Exit`, `EvtDeviceReleaseHardware` | the pool; all of the above |
| COM port registration, `serial.c` | `PortNumber`, `PortRegistered` | `SerialRegisterComPort` at Add, `SerialMapComPort` at D0Entry and Release | registry, `\DosDevices` links, the SERIALCOMM map, all shared by the adapters |

What is hard about it:

- **A pended request has four possible completers.** Receive data, the timer, the
  cancel routine and `EvtDeviceD0Exit` race for the read; receive data,
  SET_WAIT_MASK and the cancel routine race for the wait. Who may complete it is
  decided by who empties the slot under the lock and by
  `WdfRequestUnmarkCancelable` after it. Completing twice crashes the machine;
  completing never makes `CloseHandle` hang. `SerialNotifyModemStatusChange` would
  be one more completer of waits.
- **The lock is released in the middle.** Publish and mark (`queue.c:171`, `173`),
  take and copy (`queue.c:211`, `228`), take and store (`serial.c:372`, `381`) are
  separate locked regions. `PendingReadLength` (`queue.c:230`) and `Timeouts`
  (`serial.c:229`) are touched outside any.
- **The timer belongs to the slot, not to the read**, and is stopped outside the
  lock (`queue.c:217`, `298`).
- **The configuration exists twice**, in the chip and in the context. A control
  transfer can fail halfway, the chip loses its registers in a power cycle, and
  set requests take no lock.
- **Acquire and release are in callbacks that need not pair up.** The buffer is
  allocated at Add and freed at Release, the SERIALCOMM entry written at D0Entry
  and deleted at Release; a start can fail between any two of them, and a stopped
  device can be started again. The entry is named after a number that two adapters
  can share, parsed from a name that Windows can change in the registry meanwhile.
- **Arithmetic at the edges**: wrapping ring counters, a timeout product that can
  exceed a ULONG, a divisor rounded one way and a rate rounded the other.

What makes each component correct: the buffer is a bounded FIFO; the timeout rule
is the documented formula, saturated; a request is completed exactly once, not
CANCELLED without a cause, and after a cancellation it is completed; no read
sleeps on data; the context agrees with the chip and the chip with what was asked;
the divisor is the best there is, and its rounded rate is accepted again; what a
device acquires is returned when it goes, and no sooner than its last use.
`PROJECT.json` lists the individual hazards with their lines and the properties
that cover them.

## 2. The modules

```
 Receive buffer        RxFifo (abstract)
                          ▲ refines
            Ulong ──── RingBuf ──┬── MCRingBuf
                                 └── RingBufProofs

 Receive side   ReadTimeout ─┐               ┌─ PendingRead ─┐
                             ├── RxState ────┤               ├── RxPath ── RxClaims ── MCRxPath
                      Ulong ─┘               └─ WaitOnMask ──┘     │ │
                                                                   │ └─ RxPathProofs ── RxOwnerProofs
                                                           refines ▼        ── RxServiceProofs
                                                   RequestService (abstract)
                                                           refines ▲
 Devices, writes                        Lifecycle ──────────── WritePath ── DeviceClaims ── MCDevice
                                                                   └─ DeviceProofs

 Configuration          BaudRate ──┬── ChipConfig ── MCChipConfig
                                   └── BaudRateProofs
                        ChipConfig + BaudRateProofs ── ChipConfigProofs

 Calculations           BaudRate + ReadTimeout ── MCArithmetic
                        MCArithmetic + BaudRateProofs ── ArithmeticProofs
```

| Module | Models |
|---|---|
| `Ulong` | minimum, addition and subtraction of C's unsigned arithmetic |
| `RingBuf` | `ringbuf.c`, byte by byte. `HeadPos`, `TailPos` wrap at `CounterMod` and are reduced to a slot only when a byte is touched |
| `RxFifo` | what the buffer promises: a bounded queue that keeps the oldest bytes |
| `ReadTimeout` | `CalcReadTimeoutMs`, and the formula in unbounded integers |
| `RxState` | the state the data path shares, and the framework's marking, unmarking and cancelling of requests |
| `PendingRead` | `EvtIoRead`, the timer callback, the cancel routine, SET_TIMEOUTS, and the two steps (`UnmarkRead`, `CopyToRead`) that the timer and the receive path have in common |
| `WaitOnMask` | WAIT_ON_MASK, SET_WAIT_MASK, the wait's cancel routine; GET_MODEMSTATUS and `SerialNotifyModemStatusChange` |
| `RxPath` | composes the two with bulk IN completion, PURGE, D0Exit and D0Entry; the properties of the data path, fairness, and the refinement mapping |
| `RequestService` | what a driver owes for each request, without slots, timers or locks |
| `RxClaims` | statements of comments that the receive side does not keep |
| `Lifecycle` | what the callbacks from Add to Release, with COM port registration in them, do to devices and to what outlives or is shared by them: the pool, the names, the links, the SERIALCOMM map |
| `WritePath` | composes the devices with the writes sent to one of them; the properties of both, and the refinement mapping |
| `DeviceClaims` | a statement of a comment that the lifecycle does not keep |
| `BaudRate` | `Ch341CalcDivisor` with the code's constants |
| `ChipConfig` | the set IOCTLs, `Ch341InitHardware`, power cycles, failing transfers |
| `*Proofs` | the theorems of section 5 |
| `MC*` | the instances TLC checks |

State variables carry the names of the fields of `DEVICE_CONTEXT`; actions carry
the names of the callbacks, and the steps of a callback after its first locked
region begin with its name or its thread's (`ReadMark`, `RxCopies`,
`D0ExitPurges`). `EvtDeviceD0Entry` and `EvtDeviceD0Exit` occur in three modules,
which model what these callbacks do to the data path (`RxPath`), to the chip
(`ChipConfig`) and to the COM port (`Lifecycle`). `PROJECT.json` maps each
definition to its lines. A definition introduced as "A wrong ..." is a plausible
slip in the code; no specification uses it, and the property checks are known to
notice it.

## 3. How the code is read

**Atomicity.** A region between `WdfSpinLockAcquire` and `WdfSpinLockRelease` is
one action, with the code before it that touches nothing shared. Everything a
callback does after the release is an action of its own, so any other callback
can come in between. A request answered in the first region was never published
and nobody else can reach it; its completion is part of that action.

**Requests.** `cancel[r]` is the framework's view of a request. Marking fails if
the application has cancelled it; unmarking succeeds only on a request that is
marked and not claimed by a cancellation. The code asks for an unmark before the
mark (`queue.c:219` against `173`) and possibly after the cancel routine has
completed the request, a wait (`device.c:379`, `serial.c:374`) or a read
(`queue.c:219`, `264`, `device.c:153`); the model takes both to fail and change
nothing, the mildest outcome the framework has for them. Each
request is sent once. Zero-length reads do not reach the driver, since
`AllowZeroLengthRequests` is not set (`queue.c:42`).

**Torn reads.** SET_TIMEOUTS copies three ULONGs without the lock
(`serial.c:229`) while `EvtIoRead` may compute with them; until the copy has
returned, each field reads as old or new. One SET_TIMEOUTS runs at a time.

**Modem lines.** `ModemStatus` is the set of lines that are on, each named by the
event of its change. GET_MODEMSTATUS stores what it read from the chip some time
ago, so any value. `SerialNotifyModemStatusChange` has no caller in the driver:
the set `ModemThreads` of its callers is empty for the driver as it stands
(`RxLive`, `RxReads`, `ClaimModem`), and has a member in `RxWaits` for the caller
that `serial.h` declares it for. `PreviousModemStatus` is never read and left out.

**Timer.** `ReadTimer` is set or not; there are no clocks. When it expires its
DPC is queued and can no longer be stopped, as `WdfTimerStop(..., FALSE)` does not
wait. It can expire at any time after it was started.

**Power.** From the first step of `EvtDeviceD0Exit` until D0 is entered again the
queue dispatches nothing, but callbacks that are running go on and a read may be
pended: `device.c:146-155` is written for that case. The framework may in fact
hold the power-down back until requests are completed; the model allows more. In
`RxPath` the continuous reader is taken to be stopped and restarted by the
framework. In `ChipConfig` power-down waits for the IOCTL handlers that are
running, each of them a synchronous control transfer. The chip keeps its
registers or loses them.

**Control transfers.** A transfer succeeds, or fails having reached the chip or
not; the register is then in `unsure` until a transfer to it succeeds. A failure
during `Ch341InitHardware` fails D0Entry, after which the device is gone: this is
the one place where `ChipConfig` stops. READ_VERSION and SERIAL_INIT appear only
as possible failures. `Setters` are the threads that serve set requests: one for
a handle that waits for each answer, more for an overlapped one.

**Devices.** The framework calls Prepare, then D0Entry; Release after a failure of
either and after every D0Exit; a device that failed to start is not prepared again,
one that was stopped may be. Any call into the system can fail where the code looks
at its status, and where it does not the effect may be missing: a registry key that
cannot be opened or read, a link or an entry that is not made, an entry that is not
deleted (`serial.c:808`). `undeleted` is the history of these: the numbers of the
entries whose last delete was refused, with no write since; no action depends on it.
The data of an entry is left out, since the driver never reads it: `serialcomm` is the
set of numbers that are listed. A deleted device object takes
its links with it; the driver has no cleanup callback. `AssignPortName` is Windows or
the user changing the port in the hardware key at any time. COM port names are
their numbers; the buffer is the number of its allocation.

**Writes.** A request at the pipe ends in one of three ways: the device takes it,
the transfer fails, or it comes back cancelled because the application cancelled it
or the device has left D0. It need not end at all as long as neither happens: flow
control may hold the endpoint up. `EvtIoWrite` is entered in D0 only, as the queue is
power-managed, but may be overtaken by a D0Exit before it sends. Before Release the
framework has all requests of the device back.

**Data.** In `RxPath` the buffer is a count of bytes, `rxAvailable`, which is what
its callers look at; `RingBuf` is where bytes and their order matter. The bounds
`RingSize` and `MaxTransfer` are small; only `MaxPackets`, the number of bulk IN
transfers, is a bound on the length of a behaviour.

**Fairness** (`FairSpec` in `RxPath`). A callback that has begun runs to its end: a
kernel thread that holds no lock but `SerialLock` is scheduled. A timer that is
set expires. The cancel routine of a claimed request is called. Each of them is
weak fairness of one thread's or one request's steps. Nothing is assumed of the
application, the device or the power manager: no data need arrive, nobody need
cancel, D0 need not be left or entered again. In `WritePath` it is the same:
`EvtIoWrite` gets to its send, and the USB stack returns a request that was cancelled
(`PipeCancels`); that the device ever takes a byte is not assumed, nor any step of
the lifecycle.

## 4. What TLC checks

| Run | Instance | Properties |
|---|---|---|
| `RingBuffer` | 4 slots, counters modulo 8, two byte values, transfers up to 3 | `TypeOK`, `OccupancyWithinSize`, `ImplementsFifo` |
| `Arithmetic` | every timeout triple and length for MAXULONG = 12; every rate from 46 to 3000, the rates around each change of prescaler, `SettableBaud` | `MatchesContract`, `NearestBitTime`, `StoredRateIsAccepted` |
| `RxReads` | 2 reads of lengths 1 and 2, timer, 1 receive thread, power cycles, 2 transfers of 1 or 2 bytes into 2 | `TypeOK`, `CompletedAtMostOnce`, `NoReadSleepsOnData`, `OneOwner`, `ImplementsService` |
| `RxWaits` | 2 waits, 2 receive threads with 3 transfers, SET_WAIT_MASK with 3 masks, a modem line, GET_MODEMSTATUS and a thread that reports changes, power cycles | `OneOwner`, `ImplementsService` |
| `RxLive` | 1 read with a finite timeout or none, 1 wait, timer, 1 transfer, SET_WAIT_MASK, power cycles; `FairSpec` | `OneOwner`, `ImplementsService`, `CancelIsAnswered`, `TimedReadCompletes` |
| `ChipSync` | 1 setter, rates 45 (rejected), 300, 115200 and 3000000, 3 line controls (one rejected), 2 handflows | `ContextIsCurrent`, `BaudAsAsked`, `StoredBaudIsAccepted`, `OneLineAtATime` |
| `Device` | 2 adapters, ports COM3 and COM10, 2 calls of Add, 1 write to one of them; `FairSpec` | `TypeOK`, `NoStaleEntry`, `BuffersAccounted`, `WriteHasPipe`, `ImplementsService`, `CancelIsAnswered` |

What the properties say:

- `ImplementsFifo`: reads return the bytes in the order writes stored them, none
  twice, none overwritten, a full buffer keeps the old ones; across wraps of
  slots and counters, purges and a free. `OccupancyWithinSize`: the unsigned
  differences never wrap.
- `MatchesContract`: no product overflows a ULONG and none that fits is turned
  into "wait forever". `NearestBitTime`: stopping at the first prescaler that fits
  loses nothing against trying every prescaler and divisor. `StoredRateIsAccepted`:
  the rate `Ch341SetBaudRate` stores is one the next power-up accepts; 46 is the
  exception (section 6).
- `CompletedAtMostOnce`, `OneOwner`: whoever wins the race for a pended request
  completes it and nobody does again. `NoReadSleepsOnData`: no lost wakeup.
- `ImplementsService`: the data path refines `RequestService`: an outcome is
  final, and CANCELLED goes only to a request that was cancelled or that D0Exit
  gave up.
- `CancelIsAnswered`: a cancelled request is completed, even one that has fallen
  out of its slot (section 6). `TimedReadCompletes`: with a silent line and the
  device in D0, a pended read with a timeout does not wait for ever.
- `NoStaleEntry`: every SERIALCOMM entry has a device that is working, asleep or
  about to be released, or the registry has refused the last attempt to delete it. A
  failed start, a changed name or a shared number leave none: the entry is found again
  although the name in the registry may have changed. `BuffersAccounted`: buffers are distinct live allocations, freed
  once; what else is in the pool belonged to devices that were never prepared.
  `WriteHasPipe`: the pipe `EvtIoWrite` uses unchecked is set in D0 and as long as a
  write is on its way. `WritePath` refines the same `RequestService` as the receive
  side.
- `StoredBaudIsAccepted`: however often a rate is rounded down and programmed again,
  the next power-up accepts it, unless it was 46.
- `ContextIsCurrent`, `BaudAsAsked`, `OneLineAtATime`: rate, line control and modem
  lines in the context are those in the chip whenever nothing is in progress,
  whatever failed before and across power cycles; the chip runs at the rate last
  asked for although only its rounded value is stored; changing DTR never moves
  RTS.

**Why the bounds are enough.** Each slot holds one request, so two requests show
every hand-over of a slot, including a late completer of the first meeting the
second, and lengths 1 and 2 tell a right length from a wrong one. Two transfers
show a second arrival while the first is being dealt with; with a buffer of 2 they
fill it, overflow it and empty it. Three transfers on two receive threads are run
for the waits. A read distinguishes three timeouts: 0, which the fresh context
gives, finite and none; the first two are in `RxReads`, all three in `RxLive`.
Reads and waits meet only in the receive thread, `EvtDeviceD0Exit` and the buffer:
`RxLive` has one of each with all of these. Two adapters show the sharing of a
name and of a number; with two calls of Add both can be present, or one can be
added, removed and added again, and stops, restarts and power cycles are
unbounded. Writes meet neither each other nor any state of the driver but the
pipe, so one is enough. Four slots with counters modulo 8 meet every slot offset
at every wrap. One setter is the synchronous handle; section 6 tells what two do.
Requests and threads of the same kind are interchangeable, so `RxReads` and
`RxWaits` use symmetry; `RxLive` and `Device`, which check liveness, do not.

`CHECK_DEADLOCK FALSE` is given where a behaviour ends: each request is sent once
and transfers are bounded (`RxPath`), a failed D0Entry is final (`ChipConfig`), each
calculation is called once (`MCArithmetic`). `RingBuf` and `WritePath` never
stop and are checked.

## 5. What is proved

Every safety property the runs check is a theorem. The theorems hold for every
value of the constants that satisfies the named assumptions of the modules
(`RingAssumption`, `MaxUlongAssumption`, `RxAssumption`, `LifecycleAssumption`,
`WriteAssumption`, `ChipAssumption`): any number of requests and threads of each kind,
any buffer size, transfer length and width of ULONG, any number of adapters, port
names and writes, any set of rates and settings. Only three theorems of
`ChipConfigProofs` assume more, which is named below.

| Module | Theorem | Says |
|---|---|---|
| `RingBufProofs` | `RingTypeCorrect` | `Spec => []TypeOK` |
| | `OccupancyStaysWithinSize` | `Spec => []OccupancyWithinSize` |
| | `RingBufferIsFifo` | `Spec => ImplementsFifo`: the ring refines `RxFifo` |
| `RxOwnerProofs` | `TypeCorrect` | `Spec => []TypeOK` |
| | `OneOwnerHolds` | `Spec => []OneOwner` |
| | `NoRequestCompletedTwice` | `Spec => []CompletedAtMostOnce` |
| | `ReadsSleepOnlyWithoutData` | `Spec => []NoReadSleepsOnData` |
| `RxServiceProofs` | `RequestsAreServed` | `Spec => ImplementsService`: the receive side refines `RequestService` |
| `DeviceProofs` | `DeviceTypeCorrect` | `Spec => []TypeOK` |
| | `DeviceMapIsClean` | `Spec => []NoStaleEntry` |
| | `NoBufferIsLost` | `Spec => []BuffersAccounted` |
| | `WritesHaveTheirPipe` | `Spec => []WriteHasPipe` |
| | `WritesAreServed` | `Spec => ImplementsService`: the write path refines `RequestService` |
| `ChipConfigProofs` | `ContextStaysCurrent` | `Spec => []ContextIsCurrent`, given `WaitsForAnswers` |
| | `LinesChangeOneAtATime` | `Spec => OneLineAtATime`, given `WaitsForAnswers` |
| | `BaudStaysAsAsked` | `Spec => []BaudAsAsked`, given `WaitsForAnswers` and `RatesKeepRegisters` |
| | `PowerUpAcceptsTheRate` | `Spec => []StoredBaudIsAccepted`, for any number of setters |
| `BaudRateProofs` | `LegalIsProgrammable` | the loop of `Ch341CalcDivisor` finds a prescaler for every rate it admits |
| | `ProductsFitUlong` | none of its sums and products reaches 2^32 |
| | `StoredRateIsLegal` | the rate it stores, rounded down, is legal and not 46, for every legal rate but 46 |
| | `StoredRateKeepsRegisters` | for nearly all rates, the stored rate has the registers of the rate asked for |
| `ArithmeticProofs` | `CalcMatchesContract` | the code's timeout rule equals the formula in unbounded integers, saturated |
| | `NearestForEveryRate` | no registers come nearer to the bit time of a legal rate than those chosen |
| | `TimeoutsMatchContract` | `Spec => []MatchesContract` |
| | `ChosenBitTimeIsNearest` | `Spec => []NearestBitTime` |
| | `StoredRateStaysAccepted` | `Spec => []StoredRateIsAccepted` |

**The ring.** `RingAssumption` asks of the size only what `RingBufInit` checks, that
it divides the counters' modulus and is smaller. `TypeOK /\ OccupancyWithinSize` is
inductive: advancing `HeadPos` by at most the free space, or `TailPos` by at most
the occupied, changes the difference by exactly that much modulo `CounterMod`. For the
refinement, `SlotAfterIsRound` shows that going on from a counter goes round the
slots, also where the counter wraps, which is where the size must divide the modulus;
`DistanceFromHead` then tells which slots a write of `n` bytes hits: those just after
the occupied ones and no other. So a write appends to `Contents` the prefix of the
data that fits, a read takes a prefix off and returns it, and purge and free empty it.

**One owner.** `CompletedAtMostOnce` is not inductive: nothing in it stops the
timer from completing a read the cancel routine is about to complete. `OneOwner`
says who may complete a request at each moment, in seven parts: a request not yet
sent is untouched; until it is marked its own I/O callback may complete it; while
it is marked, or its cancel routine has claimed it, it is not completed; a thread
that copies holds a request it has unmarked; no two threads hold the same request;
a thread holds one exactly where its code needs it; what is in a slot is not
completed, not held by a thread and, once its callback is through, marked. It is
checked by TLC as an invariant of three runs and proved inductive with one lemma per
action and one step per part. `NoRequestCompletedTwice` follows with the step
that no action completes a request that has been completed already.
`ReadsSleepOnlyWithoutData` needs only `TypeOK` besides itself: the test of the
buffer and the publication of the read are one locked region, and so are the
arrival of data and the taking of the read.

**The request service.** `RequestService` sees of a request that it is unsent, pending
or done, whether the application cancelled it, and its outcome; and whether the
device is leaving D0. One lemma for each of its steps says which changes of the
driver's state amount to it (`Pends`, `Cancels`, `Finishes`, `Leaves`, `Stutters`), one
lemma for each callback that its actions make only such changes, and `OneOwner` is
what makes them so: whoever completes a request owns one that is still pending.
CANCELLED needs two more facts: a cancel routine runs only for a request that was
cancelled, and D0Exit completes requests so only while the device is leaving, and
alone, which is the invariant `ExitAlone`. On the write side a write is completed
exactly when its callback or its completion routine has returned
(`CompletedOnReturn`); a device's steps are stutters but for those by which it leaves D0
or is back in it or gone.

**The devices.** `NoStaleEntry` is inductive beside `TypeOK`: a device that may own an
entry stops doing so only in Release, which deletes the entry of its number or leaves
it in `undeleted`, and the number is set only by Add, before there is an entry. The
exception for `undeleted` is the code's: it ignores the status of the delete, and the
theorem holds of nothing less. `BuffersAccounted` is not: it
does not say that the buffer of a device that is about to be removed is one that was
never prepared. `BuffersInv` adds that: an added device has such a buffer or none, a
broken one none. Nor is `WriteHasPipe`; `PipesInv` adds that both pipes are set from a
successful Prepare on, and that while a write is on its way the device is in D0,
asleep or failed, where Prepare, the only callback to clear the pipes, does not run.

**The configuration.** `ContextIsCurrent` speaks only of quiet moments. Its inductive
form `Inv` follows a value through a routine: which step of `Ch341InitHardware`
the power thread is at; that chip and context agree on a register from the time that
sequence has written it, except while a routine is between its transfer and its
store; that what is about to be stored is what was transferred; and that SET_DTR
still has the state of RTS right when it gets to its transfer, and SET_RTS that of DTR.
The last is where `WaitsForAnswers`, at most one setter, is needed: no lock keeps two
requests apart, and with two setters TLC finds the property violated (section 6). The
code justifies it for a handle opened without FILE_FLAG_OVERLAPPED, whose requests the
I/O manager sends one at a time, and only for that. `BaudInv` carries the rate through
a power cycle: `CurrentBaud` need not be the rate that was asked for but has the same
registers. That is `KeepsRegisters`, a property of the rate, and `RatesKeepRegisters`
asks it of the rates of the application. It cannot be dropped: 110 baud does not have
it. `RepeatableRatesKeepRegisters` derives it for rates in the four ranges of
`StoredRateKeepsRegisters`, which hold all rates commonly used but those up to 150.
`PowerUpAcceptsTheRate` needs neither assumption: `LastingInv` says that the rate in the
context, and every rate on its way there, is legal and above 46, and `StoredRateIsLegal`
that rounding keeps it so, since above 46 no rate needs a divisor that gives 46 or less.

**The divisor.** A prescaler fits exactly where the unrounded quotient lies between
1.5 and 256.5; these ranges overlap from one prescaler to the next, cover 46 to
3000000, and bound the products of the prescalers the loop visits. With the prescaler
chosen, the rounded divisor gives the multiple nearest to the bit time; a coarser
prescaler gives only multiples of these multiples, and the finer ones that did
not fit fall short even with divisor 256, which 32 times the chosen factor equals or
beats. The stored rate `a` is below the exact one by less than 1, so for registers
`ps`, `d` it rounds to `d` again if it is at least `2 * d`; and if `d` is at least 33, `a`
is below what any finer prescaler can give. These two conditions are the four ranges.
They leave out 46 to 153, where some rates keep their registers and some do not, and
361 to 433, 2885 to 2923 and 23077 to 23391.

**Model-checked only.** Liveness, `CancelIsAnswered` of both compositions and
`TimedReadCompletes`, which rests on fairness and so on ENABLED, is beyond the
prover. It is checked in `RxLive` and `Device`. The five statements of section 6 are
refuted by counterexamples.

## 6. Where code and text disagree

Each of these runs checks one statement of a comment and TLC finds it violated.
The traces are short and start from a fresh device.

| Run | Statement | What happens |
|---|---|---|
| `ClaimReachable` | `queue.c:168`, pended reads "will be completed by RX data or timer" | A read is published before it is marked. A completer that takes it in between fails to unmark it and drops it ("Cancel routine owns it"). The read is then marked, in no slot, and only cancellation ever ends it |
| `ClaimTimer` | `queue.c:182`, "Start timeout timer" | A completer stops the timer after it has released the lock, when it may be the next read's. That read waits without a timeout |
| `ClaimLength` | `ringbuf.h:47`, at most `MaxLen` bytes of `Dest` | `PendingReadLength` is read again after the lock was released and may be that of a later, longer read |
| `ClaimModem` | `serial.c:445`, pended waits "will be completed when an event fires" | GET_MODEMSTATUS sees that a line in the mask has changed, stores it (`serial.c:343`) and leaves the wait pending. Nothing else in the driver looks for modem changes |
| `ClaimRestart` | `serial.c:611`, "we use a fixed ring buffer" | `device.c:89` frees the buffer when the device is stopped; started again, without a new Add, the device is in D0 with a buffer of size 0 and receives nothing |

Met while modelling, with no run of their own:

- `serial.c:368`, pended waits end "if the mask changes": a wait can pend under the
  old mask between `serial.c:372` and `381`, and stay pended under the new one.
- `queue.c:82-83`, "0 means no timeout (wait forever)": a total of 0, which the fresh
  context's all-zero timeouts give, returns at once with nothing.
- `ch341_hw.h:130`, "~46 to ~11,718": 46 is stored as 45 (`ch341.c:249`), which the
  next power-up rejects, so that the device fails to start. `StoredRateIsAccepted`
  holds of every other rate.
- `serial.c:787` "Read the actual port name Windows assigned": the name may have
  changed since Add made the link, and then the port that is listed cannot be opened
  under its name.
- `serial.c:775` "unique value name": two adapters whose keys cannot be opened, or
  hold the same name, share it, and the first to go takes the entry of the other.
- `ch341.c:160` "default line control (8N1)" is set at every power-up, whatever the
  application had asked for.
- `queue.c:187` "wait indefinitely": a read with no timeout can come back empty and
  successful when another read or a purge empties the buffer between `queue.c:214`
  and `228`.
- `device.c:379`, `serial.c:374` for a wait, `queue.c:219`, `queue.c:264` and
  `device.c:153` for a read: the unmark can be asked for after the cancel routine has
  completed the request, when it is no longer the driver's.
- `serial.c:813` logs "Unregistered from SERIALCOMM device map" whatever became of the
  delete. An entry that could not be deleted stays listed with no device behind it until
  one of the same number is started or released.
- `README.md:225` of the repository says that reads never block; `queue.c:168-186`
  pends them.
- `queue.c:176`, `serial.c:453`: a request whose mark fails clears the slot even if
  another request is in it by then; that one is left to cancellation.
- Two overlapped set requests can reach the chip in one order and the context in
  the other. `ContextIsCurrent` fails with two setters.
- `ch341.c:151` says "default baud rate (9600)"; line 153 sets `CurrentBaud`.
- `ch341.c:180` switches flow control off at every power-up and leaves `HandFlow`
  saying that it is on.
- `serial.c:276` tests one bit of the RTS field, so that
  `SERIAL_TRANSMIT_TOGGLE` also turns RTS/CTS handshaking on.
- 110 baud, one of the `SettableBaud`, is rounded down once more at each power-up
  and is at 104 after five.

## 7. What is not modelled, and the plan

| Part | Why, or when |
|---|---|
| Query IOCTLs | not planned: they return constants or one field |
| INF, build, signing | not planned: no run-time behaviour |
| SET_WAIT_MASK and WAIT_ON_MASK with buffers that are too small | answered with an error before the lock is taken and anything changed (`serial.c:357-364`, `408-411`); an output buffer whose length was tested there can be retrieved at `436` |
| PURGE with TXABORT, TXCLEAR, RXABORT | they change nothing (`serial.c:514-527`) |
| The data of writes, and their order at the pipe | the driver neither keeps nor looks at it; overlapped writes may be reordered by the parallel queue |
| Starting the continuous reader | external: taken to be done by the framework, as `ReaderStarted` is never read |
| Break across a power cycle, torn timeouts | modelled, with no property: the repository says nowhere what should hold |

Left to prove: nothing that a run checks and the prover can reach. What could still be
stated and proved is

1. for a rate outside the four ranges of `StoredRateKeepsRegisters`, where its decay over
   power cycles ends (110 ends at 101);
2. for two setters, the part of `ContextIsCurrent` that survives: a register that only
   one of them writes.
