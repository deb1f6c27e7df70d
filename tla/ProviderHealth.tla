---------------------------- MODULE ProviderHealth ----------------------------
(***************************************************************************)
(* health.ProviderHealth and the methods of health.Tracker that change it. *)
(* Each method of the tracker holds the tracker's lock, so each is one     *)
(* operator on the record.  Times are natural numbers; the zero time, long *)
(* before all of them, is Never.                                           *)
(***************************************************************************)
EXTENDS Integers, Sequences

CONSTANTS
    Window,         \* the five minutes of ShouldSkip and Record429
    Threshold,      \* Tracker.consecutiveThreshold
    Cooldown        \* Tracker.cooldownDuration

ASSUME HealthAssumption ==
    /\ Window \in Nat \ {0}
    /\ Threshold \in Nat \ {0}
    /\ Cooldown \in Nat \ {0}

Never == -(Window + Cooldown)

Health == [last429At : Int, consecutive429s : Nat, isInCooldown : BOOLEAN, cooldownUntil : Int]

NewHealth == [last429At |-> Never, consecutive429s |-> 0, isInCooldown |-> FALSE,
              cooldownUntil |-> Never]

(* Two in a row are skipped whatever the threshold is.                     *)
ShouldSkip(h, now) ==
    \/ h.isInCooldown /\ now < h.cooldownUntil
    \/ h.consecutive429s >= 2 /\ now - h.last429At < Window

SetCooldown(h, now) == [h EXCEPT !.isInCooldown = TRUE, !.cooldownUntil = now + Cooldown]

(* A 429 within the window continues the row, a later one starts another.  *)
Counted429_Endless(h, now) ==                                 \* faulty variant
    [h EXCEPT !.consecutive429s = @ + 1, !.last429At = now]
Counted429(h, now) ==
    [h EXCEPT !.consecutive429s = IF now - h.last429At < Window THEN @ + 1 ELSE 1,
              !.last429At = now]

Record429(h, now) ==
    LET counted == Counted429(h, now)
    IN  IF counted.consecutive429s >= Threshold THEN SetCooldown(counted, now) ELSE counted

ClearCooldown(h) ==
    [h EXCEPT !.isInCooldown = FALSE, !.cooldownUntil = Never, !.consecutive429s = 0]

-----------------------------------------------------------------------------
(* The reference: what ought to be skipped, from the times of all 429s     *)
(* since the last ClearCooldown, in order.                                 *)

(* The 429s up to the i-th that are in a row with it.                      *)
InARow(times, i) ==
    {j \in 1..i : \A k \in j..(i - 1) : times[k + 1] - times[k] < Window}

RowAtLeast(times, i, n) == i >= n /\ (i - n + 1) \in InARow(times, i)

SkipReference(times, now) ==
    \/ \E i \in DOMAIN times : RowAtLeast(times, i, Threshold) /\ now < times[i] + Cooldown
    \/ /\ RowAtLeast(times, Len(times), 2)
       /\ now - times[Len(times)] < Window
=============================================================================
