------------------------------- MODULE Throttle -------------------------------
(***************************************************************************)
(* What keeps a request from a provider: the sliding windows and the daily *)
(* quota of ratelimit.Limiter, and the provider's row of 429s that         *)
(* health.Tracker keeps.                                                   *)
(*                                                                         *)
(* A caller asks the limiter, forwards, and records the request.  Each     *)
(* reads the clock once and then takes the locks of the windows one after  *)
(* the other, so an entry may be appended after one that is younger, and   *)
(* callers may all be allowed before any of them records.                  *)
(*                                                                         *)
(* Abstractions: one provider with one model.  A request window counts     *)
(* entries of one, a token window the tokens.  The copy written to SQLite  *)
(* is never read.  The methods are public and their contract is modelled:  *)
(* today's router asks with limits of zero and records nothing.            *)
(***************************************************************************)
EXTENDS ProviderHealth, Sequences, FiniteSets

CONSTANTS
    Callers,        \* concurrent callers (bound)
    Kinds,          \* the windows, in the order they are asked and recorded
    RequestKinds,   \* how many of them, the first ones, count requests
    Duration,       \* their lengths
    Limit,          \* their limits
    Cost,           \* what one request adds to each
    Day,            \* the length of a day
    MaxTime,        \* bound on the clock
    MaxRecords,     \* bound on the requests recorded
    Max429s         \* bound on the 429s between two ClearCooldown

KindSet == {Kinds[i] : i \in DOMAIN Kinds}

ASSUME ThrottleAssumption ==
    /\ IsFiniteSet(Callers)
    /\ Kinds \in Seq(STRING) /\ \A i, j \in DOMAIN Kinds : Kinds[i] = Kinds[j] => i = j
    /\ RequestKinds \in 1..(Len(Kinds) - 1)
    /\ Duration \in [KindSet -> Nat \ {0}]
    /\ Limit \in [KindSet -> Nat \ {0}]
    /\ Cost \in [KindSet -> Nat \ {0}]
    /\ \A k \in KindSet : Cost[k] <= Limit[k]
    /\ Day \in Nat \ {0}
    /\ MaxTime \in Nat /\ MaxRecords \in Nat /\ Max429s \in Nat

VARIABLES
    now,        \* the clock
    window,     \* Limiter.windows: entries in the order they were appended
    quota,      \* ProviderQuota: dailyReq, and the day of lastReset
    health,     \* ProviderHealth of the provider
    caller,
    recorded,   \* history: every entry ever appended to each window
    today,      \* history: requests counted by the quota since midnight
    unasked,    \* history: one of them was recorded before anybody asked today
    hits        \* history: times of the 429s since the last ClearCooldown

vars == <<now, window, quota, health, caller, recorded, today, unasked, hits>>

CallerPc == {"idle", "ask", "tokens", "granted", "record", "quota"}
Entry == [ts : 0..MaxTime, n : Nat]
Quota == [dailyReq : 0..MaxRecords, lastReset : 0..(MaxTime \div Day)]
Caller == [pc : CallerPc, ts : 0..MaxTime, i : 1..(Len(Kinds) + 1)]

(* Where a call is says which windows it still has before it.              *)
CallerFits(k) ==
    /\ k.pc \in {"ask", "record"} => k.i \in DOMAIN Kinds
    /\ k.pc \in {"tokens", "quota"} => k.i = RequestKinds + 1

TypeOK ==
    /\ now \in 0..MaxTime
    /\ window \in [KindSet -> Seq(Entry)]
    /\ quota \in Quota
    /\ health \in Health
    /\ caller \in [Callers -> Caller]
    /\ \A c \in Callers : CallerFits(caller[c])

IdleCaller == [pc |-> "idle", ts |-> 0, i |-> 1]

Init ==
    /\ now = 0
    /\ window = [k \in KindSet |-> <<>>]
    /\ quota = [dailyReq |-> 0, lastReset |-> 0]
    /\ health = NewHealth
    /\ caller = [c \in Callers |-> IdleCaller]
    /\ recorded = [k \in KindSet |-> <<>>]
    /\ today = 0
    /\ unasked = FALSE
    /\ hits = <<>>

Today == now \div Day

-----------------------------------------------------------------------------
(* Window *)

(* filterInt64, filterTokenEntries: what is left from the first entry on   *)
(* that is young enough; nothing if there is none.                         *)
Filter_FirstDropped(entries, cutoff) ==                       \* faulty variant
    LET young == {i \in DOMAIN entries : entries[i].ts >= cutoff}
        idx == CHOOSE i \in young : \A j \in young : i <= j
    IN  IF young = {} \/ idx = 1 THEN <<>> ELSE SubSeq(entries, idx, Len(entries))
Filter(entries, cutoff) ==
    LET young == {i \in DOMAIN entries : entries[i].ts >= cutoff}
        idx == CHOOSE i \in young : \A j \in young : i <= j
    IN  IF young = {} THEN <<>> ELSE SubSeq(entries, idx, Len(entries))

(* The loop over the entries: total += e.tokens.                           *)
SumOf(amounts) ==
    LET total[i \in 0..Len(amounts)] == IF i = 0 THEN 0 ELSE total[i - 1] + amounts[i]
    IN  total[Len(amounts)]

Total(entries) == SumOf([i \in DOMAIN entries |-> entries[i].n])

Kept(k, time) == Filter(window[k], time - Duration[k])

-----------------------------------------------------------------------------
(* Limiter *)

(* ProviderQuota.ResetIfNeeded                                             *)
Reset_KeepsCount == [quota EXCEPT !.lastReset = Today]        \* faulty variant
Reset == [dailyReq |-> 0, lastReset |-> Today]

ResetIfNeeded == IF quota.lastReset = Today THEN quota ELSE Reset

(* AllowRequest begins: the quota's day, then the clock.                   *)
Ask(c) ==
    /\ caller[c].pc = "idle"
    /\ Len(recorded[Kinds[1]]) < MaxRecords
    /\ quota' = ResetIfNeeded
    /\ caller' = [caller EXCEPT ![c] = [pc |-> "ask", ts |-> now, i |-> 1]]
    /\ UNCHANGED <<now, window, health, recorded, today, unasked, hits>>

(* One window is counted, which prunes it too.  A request adds one.        *)
Exceeds_OnlyWhenPassed(k, sum) == sum > Limit[k]              \* faulty variant
Exceeds(k, sum) == sum + Cost[k] > Limit[k]

(* The method returns after its last window.                               *)
AfterCheck(i) == IF i = Len(Kinds) THEN "granted"
                 ELSE IF i = RequestKinds THEN "tokens" ELSE "ask"

Passed(k) == [k EXCEPT !.pc = AfterCheck(k.i), !.i = @ + 1]

CheckWindow(c) ==
    /\ caller[c].pc = "ask"
    /\ LET k == Kinds[caller[c].i]
           kept == Kept(k, caller[c].ts)
       IN  /\ window' = [window EXCEPT ![k] = kept]
           /\ caller' = [caller EXCEPT ![c] =
                            IF Exceeds(k, Total(kept)) THEN IdleCaller ELSE Passed(caller[c])]
    /\ UNCHANGED <<now, quota, health, recorded, today, unasked, hits>>

(* AllowTokens begins, with a clock of its own.                            *)
AskTokens(c) ==
    /\ caller[c].pc = "tokens"
    /\ caller' = [caller EXCEPT ![c].pc = "ask", ![c].ts = now]
    /\ UNCHANGED <<now, window, quota, health, recorded, today, unasked, hits>>

(* RecordRequest begins: the clock is read again.                          *)
Forwarded(c) ==
    /\ caller[c].pc = "granted"
    /\ Len(recorded[Kinds[1]]) < MaxRecords
    /\ caller' = [caller EXCEPT ![c] = [pc |-> "record", ts |-> now, i |-> 1]]
    /\ UNCHANGED <<now, window, quota, health, recorded, today, unasked, hits>>

RecordWindow(c) ==
    /\ caller[c].pc = "record"
    /\ LET i == caller[c].i
           k == Kinds[i]
           entry == [ts |-> caller[c].ts, n |-> Cost[k]]
       IN  /\ Len(recorded[k]) < MaxRecords
           /\ window' = [window EXCEPT ![k] = Append(@, entry)]
           /\ recorded' = [recorded EXCEPT ![k] = Append(@, entry)]
           /\ caller' = [caller EXCEPT ![c] =
                            IF i = Len(Kinds) THEN IdleCaller
                            ELSE [caller[c] EXCEPT !.pc = IF i = RequestKinds THEN "quota"
                                                          ELSE "record",
                                                   !.i = i + 1]]
    /\ UNCHANGED <<now, quota, health, today, unasked, hits>>

(* ProviderQuota.RecordRequest, between the two sorts of windows.          *)
RecordQuota(c) ==
    /\ caller[c].pc = "quota"
    /\ quota.dailyReq < MaxRecords
    /\ quota' = [quota EXCEPT !.dailyReq = @ + 1]
    /\ today' = today + 1
    /\ unasked' = (unasked \/ quota.lastReset # Today)
    /\ caller' = [caller EXCEPT ![c].pc = "record"]
    /\ UNCHANGED <<now, window, health, recorded, hits>>

-----------------------------------------------------------------------------
(* The tracker, and time *)

Hit429 ==
    /\ Len(hits) < Max429s
    /\ health' = Record429(health, now)
    /\ hits' = Append(hits, now)
    /\ UNCHANGED <<now, window, quota, caller, recorded, today, unasked>>

AdminClears ==
    /\ hits # <<>>
    /\ health' = ClearCooldown(health)
    /\ hits' = <<>>
    /\ UNCHANGED <<now, window, quota, caller, recorded, today, unasked>>

Tick ==
    /\ now < MaxTime
    /\ now' = now + 1
    /\ today' = IF (now + 1) \div Day = Today THEN today ELSE 0
    /\ unasked' = (unasked /\ (now + 1) \div Day = Today)
    /\ UNCHANGED <<window, quota, health, caller, recorded, hits>>

Next ==
    \/ \E c \in Callers :
          \/ Ask(c) \/ CheckWindow(c) \/ AskTokens(c)
          \/ Forwarded(c) \/ RecordWindow(c) \/ RecordQuota(c)
    \/ Hit429
    \/ AdminClears
    \/ Tick

Spec == Init /\ [][Next]_vars

-----------------------------------------------------------------------------
(* Properties *)

(* The reference: what was recorded for the last Duration, the boundary    *)
(* included (window.go:43-49).                                             *)
Recent(k) ==
    SumOf([i \in DOMAIN recorded[k] |->
              IF recorded[k][i].ts >= now - Duration[k] THEN recorded[k][i].n ELSE 0])

InOrder(entries) ==
    \A i, j \in DOMAIN entries : i < j => entries[i].ts <= entries[j].ts

(* A window never counts less than was recorded within its length, however *)
(* callers interleave and whoever pruned it before; it counts more only    *)
(* when concurrent callers have appended out of the order of their clocks. *)
WindowCounts ==
    \A k \in KindSet :
        /\ Total(Kept(k, now)) >= Recent(k)
        /\ InOrder(recorded[k]) => Total(Kept(k, now)) = Recent(k)

(* Asking and recording are separate, so callers can be let in together:   *)
(* a window overshoots its limit by no more than one request of every      *)
(* other caller (limiter.go:61-108).                                       *)
OvershootBounded ==
    \A k \in KindSet :
        Recent(k) <= Limit[k] + (Cardinality(Callers) - 1) * Cost[k]

(* Once somebody has asked today the quota has counted exactly today's     *)
(* requests, unless one was recorded after midnight before anybody asked:  *)
(* that one is lost (provider_quota.go:27-31, 56-65).                      *)
QuotaCountsToday == quota.lastReset = Today /\ ~unasked => quota.dailyReq = today

(* The tracker's three fields say what all the 429s since the last clear   *)
(* say: a provider is skipped for the cooldown after a row that reaches    *)
(* the threshold, and for the window after two in a row                    *)
(* (provider_health.go:18-28, 87-99).                                      *)
SkipMatchesHistory == ShouldSkip(health, now) = SkipReference(hits, now)
=============================================================================
