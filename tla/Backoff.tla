------------------------------ MODULE Backoff ------------------------------
(***************************************************************************)
(* Manager.calculateDuration in the arithmetic it runs in: time.Duration   *)
(* is a signed 64-bit number of nanoseconds.  A duration is a function     *)
(* from bit positions to its two's complement bits, so the product with a  *)
(* power of two is exact, wrap-around included.                            *)
(*                                                                         *)
(* The behaviour is one backend's count of consecutive errors, under one   *)
(* configuration of the manager.  A count may outgrow the threshold of     *)
(* three: failures of a kind that is not retried raise it and never cool   *)
(* the backend, and those of requests in flight raise it while it cools.   *)
(***************************************************************************)
EXTENDS Integers

CONSTANTS
    BaseMinutes,    \* the values of baseCooldown examined
    MaxMinutes,     \* the values of maxCooldown examined
    MaxErrors       \* bound on ConsecErrors

(* The most whole minutes a Duration holds.                                *)
LongestMinutes == 153722867

(* What BackoffExactWhileItFits rests on. *)
BackoffAssumption ==
    /\ BaseMinutes \subseteq 1..LongestMinutes
    /\ MaxMinutes \subseteq 1..LongestMinutes
    /\ MaxErrors \in Nat

VARIABLES base, cap, consec

backoffVars == <<base, cap, consec>>

-----------------------------------------------------------------------------
(* int64 arithmetic *)

Sign == 63
Positions == 0..Sign

(* Halves(x)[k]: x without its k lowest bits *)
Halves(x) ==
    LET h[k \in Positions] == IF k = 0 THEN x ELSE h[k - 1] \div 2
    IN  h

(* The duration of x * 2^11 nanoseconds; a minute is 29296875 of these.    *)
Bits(x) == [i \in Positions |-> i >= 11 /\ Halves(x)[i - 11] % 2 = 1]
Minutes(n) == Bits(n * 29296875)

(* d * (1 << k), modulo 2^64 *)
TimesPowerOfTwo(d, k) == [i \in Positions |-> i >= k /\ d[i - k]]

(* d > e as signed numbers *)
Exceeds(d, e) ==
    IF d[Sign] # e[Sign] THEN e[Sign]
    ELSE \E i \in Positions :
            d[i] /\ ~e[i] /\ \A j \in i + 1 .. Sign : d[j] = e[j]

Capped(d) == IF Exceeds(d, Minutes(cap)) THEN Minutes(cap) ELSE d

Multiplier(n) == IF n - 1 > 30 THEN 30 ELSE n - 1

calculateDuration(n) ==
    IF n <= 1 THEN Minutes(base)
    ELSE Capped(TimesPowerOfTwo(Minutes(base), Multiplier(n)))

-----------------------------------------------------------------------------
BackoffInit ==
    /\ base \in BaseMinutes
    /\ cap \in {m \in MaxMinutes : m >= base}
    /\ consec = 0

CountFailure ==
    /\ consec < MaxErrors
    /\ consec' = consec + 1
    /\ UNCHANGED <<base, cap>>

CountSuccess ==
    /\ consec' = 0
    /\ UNCHANGED <<base, cap>>

BackoffNext == CountFailure \/ CountSuccess

BackoffSpec == BackoffInit /\ [][BackoffNext]_backoffVars

-----------------------------------------------------------------------------
(* The contract of manager.go:21-34: min(base * 2^(consec-1), max).        *)
ContractMinutes(n) ==
    LET grown == IF n <= 1 THEN base ELSE base * 2^(n - 1)
    IN  IF grown > cap THEN cap ELSE grown

(* Whatever its error count, a backend cools down for the time the         *)
(* contract gives (manager.go:21-34); the cut of the exponent at 30 is     *)
(* said to keep the shift from overflowing (manager.go:134).  It fails:    *)
(* base * 2^(consec-1) leaves 63 bits before the cut.                      *)
BackoffMatchesContract == calculateDuration(consec) = Minutes(ContractMinutes(consec))
=============================================================================
