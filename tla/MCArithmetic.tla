---------------------------- MODULE MCArithmetic ----------------------------
(***************************************************************************)
(* Evaluates the two calculations of the driver once for each input:       *)
(* CalcReadTimeoutMs for every SERIAL_TIMEOUTS value and read length of a  *)
(* small ULONG, and Ch341CalcDivisor for the slow rates, the rates around  *)
(* its changes of prescaler and the rates of SettableBaud.                 *)
(***************************************************************************)
EXTENDS BaudRate, ReadTimeout

CONSTANT SlowRates  \* bound: every rate from CH341_BAUD_MIN to this one

VARIABLES
  call,   \* the input of the call
  result  \* what it returned, or NotCalled

vars == <<call, result>>

NotCalled == [called |-> FALSE]

TimeoutCalls == [timeouts : SerialTimeouts, numBytes : ULONG]

(* Divisors are coarsest at the slow rates; the prescaler changes from 1   *)
(* to 2 and from 2 to 3 within the next two ranges.                        *)
DivisorCalls ==
  [baud : (CH341_BAUD_MIN..SlowRates) \cup (2900..2960) \cup (23370..23460)
            \cup {4800, 7200, 9600, 14400, 19200, 38400, 56000, 57600, 115200, 128000}
            \cup {1500000, 1714285, 1714286, 2399999, 2400001, CH341_BAUD_MAX}]

Init ==
  /\ call \in TimeoutCalls \cup DivisorCalls
  /\ result = NotCalled

CallReadTimeout ==
  /\ result = NotCalled
  /\ call \in TimeoutCalls
  /\ result' = [ms |-> CalcReadTimeoutMs(call.timeouts, call.numBytes)]
  /\ UNCHANGED call

CallDivisor ==
  /\ result = NotCalled
  /\ call \in DivisorCalls
  /\ Programmable(call.baud)
  /\ result' = BaudRegisters(call.baud)
  /\ UNCHANGED call

Next == CallReadTimeout \/ CallDivisor

Spec == Init /\ [][Next]_vars

(* CalcReadTimeoutMs returns what the contract computes in unbounded       *)
(* integers, saturated: the division that guards the product admits every  *)
(* product that fits a ULONG and no other.                                 *)
MatchesContract ==
  result # NotCalled /\ call \in TimeoutCalls =>
    result.ms = ContractTimeout(call.timeouts, call.numBytes)

Distance(a, b) == IF a < b THEN b - a ELSE a - b

(* How far registers are off the wanted bit time, times a constant. *)
Error(registers) ==
  Distance(Factor(registers.ps) * registers.div * call.baud, CH341_OSC_FREQ)

(* Trying the prescalers from 3 down and stopping at the first whose       *)
(* rounded divisor fits gives the registers whose bit time is nearest to   *)
(* the one asked for, of all registers the chip has.  Registers with twice *)
(* that bit time and more are farther off than any that are chosen.        *)
NearestBitTime ==
  result # NotCalled /\ call \in DivisorCalls =>
    \A ps \in 0..3, div \in 2..256 :
      Factor(ps) * div <= (2 * CH341_OSC_FREQ) \div call.baud =>
        Error(result) <= Error([ps |-> ps, div |-> div])

(* The rate that is stored, rounded down, is one the next power-up accepts *)
(* when Ch341InitHardware computes with it again.  The lowest legal rate   *)
(* is the exception: 46 is stored as 45, which is refused.                 *)
StoredRateIsAccepted ==
  result # NotCalled /\ call \in DivisorCalls /\ call.baud # CH341_BAUD_MIN =>
    Programmable(ActualBaud(result))
=============================================================================
