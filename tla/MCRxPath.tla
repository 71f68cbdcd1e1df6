------------------------------ MODULE MCRxPath ------------------------------
(***************************************************************************)
(* Model-checking instances of RxPath.  MAXULONG is 3.  A read can tell    *)
(* three timeouts apart: 0, which the fresh context gives, a finite one,   *)
(* for which the timer is set, and MAXULONG, for which it is not.          *)
(***************************************************************************)
EXTENDS RxClaims, TLC

CONSTANTS r1, r2, w1, w2, x1, x2, d1, d2, s1, p1, m1

ShortWait   == [interval |-> 0, multiplier |-> 0, constant |-> 1]
EndlessWait == [interval |-> 0, multiplier |-> 0, constant |-> MAXULONG]

OnlyShortWait == {ShortWait}
ShortOrEndless == {ShortWait, EndlessWait}
RxCtsOrBoth == {{EV_RXCHAR}, {EV_CTS}, {EV_RXCHAR, EV_CTS}}
OnlyRx == {{EV_RXCHAR}}
OnlyCts == {EV_CTS}
TwoLengths == {1, 2}
OneLength == {1}

ReadSymmetry == Permutations({r1, r2})
WaitSymmetry == Permutations({w1, w2})
=============================================================================
