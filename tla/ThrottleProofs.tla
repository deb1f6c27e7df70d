---------------------------- MODULE ThrottleProofs ----------------------------
(***************************************************************************)
(* The limiter and the provider's row of 429s, for any windows, any number *)
(* of concurrent callers and any times: the types, the daily quota against *)
(* the requests of the day, and the three fields of the tracker against    *)
(* the whole history of 429s.                                              *)
(***************************************************************************)
EXTENDS Throttle, FiniteSetTheorems, WellFoundedInduction, TLAPS

-----------------------------------------------------------------------------
(* Arithmetic: the least of a set, and days that only go forward. *)

Below == {p \in Nat \X Nat : p[1] < p[2]}

LEMMA BelowWellFounded == IsWellFoundedOn(Below, Nat)
<1>1. Below = OpToRel(<, Nat)
    BY DEF OpToRel, Below
<1> QED BY <1>1, NatLessThanWellFounded

LEMMA Least == ASSUME NEW S \in SUBSET Nat, S # {} PROVE \E x \in S : \A y \in S : x <= y
<1>1. PICK x \in S : \A y \in S : <<y, x>> \notin Below
    BY BelowWellFounded, WFMin
<1>2. ASSUME NEW y \in S PROVE x <= y
    <2>1. x \in Nat /\ y \in Nat /\ <<y, x>> \notin Below
        BY <1>1
    <2>2. <<y, x>> \in Nat \X Nat /\ <<y, x>>[1] = y /\ <<y, x>>[2] = x
        BY <2>1
    <2>3. ~(y < x)
        BY <2>1, <2>2 DEF Below
    <2> QED BY <2>1, <2>3
<1> QED BY <1>2

LEMMA Divided ==
    ASSUME NEW n \in Nat, NEW d \in Nat \ {0}
    PROVE  n \div d \in Nat /\ n = d * (n \div d) + (n % d) /\ n % d \in 0..(d - 1)
OBVIOUS

LEMMA DaysPass ==
    ASSUME NEW m \in Nat, NEW n \in Nat, m <= n, NEW d \in Nat \ {0}
    PROVE  m \div d <= n \div d
<1> DEFINE p == m \div d
           q == n \div d
           r == m % d
           s == n % d
<1>1. /\ p \in Nat /\ m = d * p + r /\ r \in 0..(d - 1)
      /\ q \in Nat /\ n = d * q + s /\ s \in 0..(d - 1)
    BY Divided
<1> HIDE DEF p, q, r, s
<1> SUFFICES ASSUME q < p PROVE FALSE
    BY <1>1 DEF p, q
<1>2. PICK e \in Nat : p = q + 1 + e
    <2>1. p - (q + 1) \in Nat /\ p = q + 1 + (p - (q + 1))
        BY <1>1
    <2> QED BY <2>1
<1>3. d * p = d * q + d + d * e
    BY <1>1, <1>2
<1>4. d * p \in Int /\ d * q \in Int /\ d * e \in Nat
    BY <1>1
<1> DEFINE dp == d * p
           dq == d * q
           de == d * e
<1>5. m = dp + r /\ n = dq + s /\ dp = dq + d + de /\ dp \in Int /\ dq \in Int /\ de \in Nat
    BY <1>1, <1>3, <1>4
<1> HIDE DEF dp, dq, de
<1> QED BY <1>1, <1>5

-----------------------------------------------------------------------------
(* Types *)

TypeInv ==
    /\ TypeOK
    /\ today \in Nat /\ unasked \in BOOLEAN

LEMMA Constants ==
    /\ MaxTime \in Nat /\ MaxRecords \in Nat /\ Day \in Nat \ {0}
    /\ Len(Kinds) \in Nat /\ DOMAIN Kinds = 1..Len(Kinds)
    /\ RequestKinds \in 1..(Len(Kinds) - 1)
    /\ \A i \in 1..Len(Kinds) : Kinds[i] \in KindSet
    /\ Cost \in [KindSet -> Nat \ {0}] /\ Duration \in [KindSet -> Nat \ {0}]
<1>1. Kinds \in Seq(STRING)
    BY ThrottleAssumption
<1>2. Len(Kinds) \in Nat /\ DOMAIN Kinds = 1..Len(Kinds)
    BY <1>1
<1> QED BY <1>2, ThrottleAssumption DEF KindSet

LEMMA HealthTypes ==
    ASSUME NEW h \in Health, NEW t \in Nat
    PROVE  Record429(h, t) \in Health /\ ClearCooldown(h) \in Health
<1>0. Window \in Nat /\ Cooldown \in Nat /\ Never \in Int
    BY HealthAssumption DEF Never
<1> DEFINE row == IF t - h.last429At < Window THEN h.consecutive429s + 1 ELSE 1
<1>1. row \in Nat
    BY DEF Health
<1>2. Counted429(h, t) = [h EXCEPT !.consecutive429s = row, !.last429At = t]
    BY DEF Counted429
<1> HIDE DEF row
<1>3. Counted429(h, t) \in Health
    <2>1. t \in Int
        OBVIOUS
    <2> QED BY <1>1, <1>2, <2>1 DEF Health
<1>4. ASSUME NEW g \in Health PROVE SetCooldown(g, t) \in Health
    <2>1. t + Cooldown \in Int
        BY <1>0
    <2> QED BY <2>1 DEF SetCooldown, Health
<1>5. ClearCooldown(h) \in Health
    BY <1>0 DEF ClearCooldown, Health
<1> QED BY <1>3, <1>4, <1>5 DEF Record429

LEMMA FilterType ==
    ASSUME NEW s \in Seq(Entry), NEW cutoff \in Int
    PROVE  Filter(s, cutoff) \in Seq(Entry)
<1> DEFINE young == {i \in DOMAIN s : s[i].ts >= cutoff}
           idx == CHOOSE i \in young : \A j \in young : i <= j
<1>1. CASE young = {}
    BY <1>1 DEF Filter
<1>2. CASE young # {}
    <2>1. young \in SUBSET Nat
        OBVIOUS
    <2>2. \E i \in young : \A j \in young : i <= j
        BY <1>2, <2>1, Least
    <2>3. idx \in young
        BY <2>2
    <2>4. idx \in 1..Len(s)
        BY <2>3
    <2> HIDE DEF idx, young
    <2>5. SubSeq(s, idx, Len(s)) \in Seq(Entry)
        BY <2>4
    <2> QED BY <1>2, <2>5 DEF Filter, idx, young
<1> QED BY <1>1, <1>2

LEMMA TypeInit == Init => TypeInv
<1> SUFFICES ASSUME Init PROVE TypeInv
    OBVIOUS
<1>1. 0 \in 0..MaxTime /\ 0 \in 0..MaxRecords
    BY Constants
<1>2. 0 \in 0..(MaxTime \div Day)
    <2>1. MaxTime \div Day \in Nat
        BY Constants, Divided
    <2> QED BY <2>1
<1>3. NewHealth \in Health
    BY HealthAssumption DEF NewHealth, Health, Never
<1>4. IdleCaller \in Caller
    BY Constants, <1>1 DEF IdleCaller, Caller, CallerPc
<1>5. window \in [KindSet -> Seq(Entry)]
    BY DEF Init
<1> QED BY <1>1, <1>2, <1>3, <1>4, <1>5
        DEF Init, TypeInv, TypeOK, IdleCaller, CallerFits, Quota

(* A step that leaves everything typed, a caller's step in particular.     *)
LEMMA Typed ==
    ASSUME now' \in 0..MaxTime, window' \in [KindSet -> Seq(Entry)], quota' \in Quota,
           health' \in Health, today' \in Nat, unasked' \in BOOLEAN,
           caller' \in [Callers -> Caller], \A c \in Callers : CallerFits(caller'[c])
    PROVE  TypeInv'
BY DEF TypeInv, TypeOK, CallerFits

LEMMA CallerTyped ==
    ASSUME TypeInv, NEW c \in Callers, NEW k \in Caller, CallerFits(k),
           caller' = [caller EXCEPT ![c] = k]
    PROVE  caller' \in [Callers -> Caller] /\ \A d \in Callers : CallerFits(caller'[d])
<1>1. caller \in [Callers -> Caller] /\ \A d \in Callers : CallerFits(caller[d])
    BY DEF TypeInv, TypeOK
<1>2. \A d \in Callers : caller'[d] = IF d = c THEN k ELSE caller[d]
    BY <1>1
<1>3. caller' \in [Callers -> Caller]
    BY <1>1
<1>4. \A d \in Callers : CallerFits(caller'[d])
    BY <1>1, <1>2
<1> QED BY <1>3, <1>4

LEMMA CallerState ==
    ASSUME TypeInv, NEW c \in Callers
    PROVE  /\ caller[c] \in Caller /\ CallerFits(caller[c])
           /\ caller \in [Callers -> Caller]
           /\ caller[c].ts \in 0..MaxTime /\ caller[c].i \in 1..(Len(Kinds) + 1)
           /\ now \in 0..MaxTime /\ window \in [KindSet -> Seq(Entry)] /\ quota \in Quota
           /\ today \in Nat /\ unasked \in BOOLEAN /\ health \in Health
<1>1. caller[c] \in Caller
    BY DEF TypeInv, TypeOK
<1> QED BY <1>1 DEF TypeInv, TypeOK, Caller

LEMMA TodayType == ASSUME now \in 0..MaxTime PROVE Today \in 0..(MaxTime \div Day)
<1>1. /\ now \in Nat /\ MaxTime \in Nat /\ now <= MaxTime /\ Day \in Nat \ {0}
    BY Constants
<1>2. now \div Day \in Nat /\ MaxTime \div Day \in Nat
    BY <1>1, Divided
<1>3. now \div Day <= MaxTime \div Day
    BY <1>1, DaysPass
<1> QED BY <1>2, <1>3 DEF Today

LEMMA AskType == ASSUME TypeInv, NEW c \in Callers, Ask(c) PROVE TypeInv'
<1> DEFINE k == [pc |-> "ask", ts |-> now, i |-> 1]
<1>0. 1 \in DOMAIN Kinds /\ 1 \in 1..(Len(Kinds) + 1) /\ 0 \in 0..MaxRecords
    BY Constants
<1>1. k \in Caller /\ CallerFits(k)
    BY <1>0, CallerState DEF Caller, CallerPc, CallerFits
<1>2. quota' \in Quota
    BY <1>0, CallerState, TodayType DEF Ask, ResetIfNeeded, Reset, Quota
<1>3. caller' = [caller EXCEPT ![c] = k] /\ UNCHANGED <<now, window, health, today, unasked>>
    BY DEF Ask
<1> HIDE DEF k
<1>4. caller' \in [Callers -> Caller] /\ \A d \in Callers : CallerFits(caller'[d])
    BY <1>1, <1>3, CallerTyped
<1> QED BY <1>2, <1>3, <1>4, CallerState, Typed

LEMMA CheckType == ASSUME TypeInv, NEW c \in Callers, CheckWindow(c) PROVE TypeInv'
<1> DEFINE i == caller[c].i
           k == Kinds[i]
           kept == Kept(k, caller[c].ts)
           passed == Passed(caller[c])
<1>1. i \in 1..Len(Kinds) /\ k \in KindSet
    BY CallerState, Constants DEF CheckWindow, CallerFits
<1>2. kept \in Seq(Entry)
    <2>1. window[k] \in Seq(Entry) /\ caller[c].ts - Duration[k] \in Int
        BY <1>1, CallerState, Constants
    <2> QED BY <2>1, FilterType DEF Kept
<1>3. passed.pc = AfterCheck(i) /\ passed.i = i + 1 /\ passed.ts = caller[c].ts
    BY CallerState DEF Caller, Passed
<1>4. AfterCheck(i) \in CallerPc /\ i + 1 \in 1..(Len(Kinds) + 1)
    BY <1>1, Constants DEF AfterCheck, CallerPc
<1>5. passed \in Caller
    BY <1>4, CallerState DEF Caller, Passed
<1>6. CallerFits(passed)
    <2>1. AfterCheck(i) = "ask" => i + 1 \in 1..Len(Kinds)
        BY <1>1, Constants DEF AfterCheck
    <2>2. AfterCheck(i) = "tokens" => i = RequestKinds
        BY DEF AfterCheck
    <2>3. AfterCheck(i) \in {"ask", "tokens", "granted"}
        BY DEF AfterCheck
    <2> HIDE DEF i, passed
    <2> QED BY <1>3, <2>1, <2>2, <2>3, Constants DEF CallerFits
<1>7. IdleCaller \in Caller /\ CallerFits(IdleCaller)
    BY Constants DEF IdleCaller, Caller, CallerPc, CallerFits
<1>8. window' = [window EXCEPT ![k] = kept] /\ UNCHANGED <<now, quota, health, today, unasked>>
    BY DEF CheckWindow
<1>9. caller' = [caller EXCEPT ![c] = IdleCaller] \/ caller' = [caller EXCEPT ![c] = passed]
    <2>1. caller' = [caller EXCEPT ![c] = IF Exceeds(k, Total(kept)) THEN IdleCaller ELSE passed]
        BY DEF CheckWindow
    <2> HIDE DEF passed, kept, k
    <2> QED BY <2>1
<1> HIDE DEF i, k, kept, passed
<1>10. window' \in [KindSet -> Seq(Entry)]
    BY <1>2, <1>8, CallerState
<1>11. caller' \in [Callers -> Caller] /\ \A d \in Callers : CallerFits(caller'[d])
    BY <1>5, <1>6, <1>7, <1>9, CallerTyped
<1> QED BY <1>8, <1>10, <1>11, CallerState, Typed

LEMMA ForwardType ==
    ASSUME TypeInv, NEW c \in Callers, AskTokens(c) \/ Forwarded(c)
    PROVE  TypeInv'
<1> DEFINE again == [caller[c] EXCEPT !.pc = "ask", !.ts = now]
           record == [pc |-> "record", ts |-> now, i |-> 1]
<1>0. 1 \in DOMAIN Kinds /\ 1 \in 1..(Len(Kinds) + 1) /\ RequestKinds + 1 \in DOMAIN Kinds
    BY Constants
<1>1. record \in Caller /\ CallerFits(record)
    BY <1>0, CallerState DEF Caller, CallerPc, CallerFits
<1>2. again \in Caller /\ again.pc = "ask" /\ again.i = caller[c].i
    BY CallerState DEF Caller, CallerPc
<1>3. caller[c].pc = "tokens" => CallerFits(again)
    <2> SUFFICES ASSUME caller[c].pc = "tokens" PROVE CallerFits(again)
        OBVIOUS
    <2>1. caller[c].i = RequestKinds + 1
        BY CallerState DEF CallerFits
    <2> HIDE DEF again
    <2> QED BY <1>0, <1>2, <2>1 DEF CallerFits
<1>4. UNCHANGED <<now, window, quota, health, today, unasked>>
    BY DEF AskTokens, Forwarded
<1>5. CASE AskTokens(c)
    <2>1. caller' = [caller EXCEPT ![c] = again] /\ caller[c].pc = "tokens"
        BY <1>5, CallerState DEF AskTokens, Caller
    <2> HIDE DEF again
    <2>2. caller' \in [Callers -> Caller] /\ \A d \in Callers : CallerFits(caller'[d])
        BY <1>2, <1>3, <2>1, CallerTyped
    <2> QED BY <1>4, <2>2, CallerState, Typed
<1>6. CASE Forwarded(c)
    <2>1. caller' = [caller EXCEPT ![c] = record]
        BY <1>6 DEF Forwarded
    <2> HIDE DEF record
    <2>2. caller' \in [Callers -> Caller] /\ \A d \in Callers : CallerFits(caller'[d])
        BY <1>1, <2>1, CallerTyped
    <2> QED BY <1>4, <2>2, CallerState, Typed
<1> QED BY <1>5, <1>6

LEMMA RecordType ==
    ASSUME TypeInv, NEW c \in Callers, RecordWindow(c)
    PROVE  TypeInv'
<1> DEFINE i == caller[c].i
           k == Kinds[i]
           entry == [ts |-> caller[c].ts, n |-> Cost[k]]
           pc == IF i = RequestKinds THEN "quota" ELSE "record"
           left == [caller[c] EXCEPT !.pc = pc, !.i = i + 1]
<1>1. i \in 1..Len(Kinds) /\ k \in KindSet
    BY CallerState, Constants DEF RecordWindow, CallerFits
<1>2. entry \in Entry
    BY <1>1, CallerState, Constants DEF Entry
<1>3. window' = [window EXCEPT ![k] = Append(@, entry)] /\ UNCHANGED <<now, quota, health, today, unasked>>
    BY DEF RecordWindow
<1>4. caller' = [caller EXCEPT ![c] = IF i = Len(Kinds) THEN IdleCaller ELSE left]
    BY CallerState DEF RecordWindow, Caller
<1>5. pc \in CallerPc /\ pc \in {"quota", "record"} /\ (pc = "quota" => i = RequestKinds)
    BY DEF CallerPc
<1>6. ASSUME i # Len(Kinds) PROVE left \in Caller /\ CallerFits(left)
    <2>1. i + 1 \in 1..Len(Kinds) /\ i + 1 \in 1..(Len(Kinds) + 1)
        BY <1>1, <1>6, Constants
    <2> HIDE DEF pc, i
    <2>2. left \in Caller /\ left.pc = pc /\ left.i = i + 1
        BY <1>5, <2>1, CallerState DEF Caller
    <2> HIDE DEF left
    <2> QED BY <1>5, <2>1, <2>2, Constants DEF CallerFits
<1>7. IdleCaller \in Caller /\ CallerFits(IdleCaller)
    BY Constants DEF IdleCaller, Caller, CallerPc, CallerFits
<1> HIDE DEF i, k, entry, pc, left
<1>8. window' \in [KindSet -> Seq(Entry)]
    BY <1>1, <1>2, <1>3, CallerState
<1>9. caller' \in [Callers -> Caller] /\ \A d \in Callers : CallerFits(caller'[d])
    <2> DEFINE next == IF i = Len(Kinds) THEN IdleCaller ELSE left
    <2>1. next \in Caller /\ CallerFits(next)
        BY <1>6, <1>7
    <2>2. caller' = [caller EXCEPT ![c] = next]
        BY <1>4
    <2> HIDE DEF next
    <2> QED BY <2>1, <2>2, CallerTyped
<1> QED BY <1>3, <1>8, <1>9, CallerState, Typed

LEMMA QuotaType == ASSUME TypeInv, NEW c \in Callers, RecordQuota(c) PROVE TypeInv'
<1> DEFINE left == [caller[c] EXCEPT !.pc = "record"]
<1>1. caller[c].i = RequestKinds + 1 /\ RequestKinds + 1 \in DOMAIN Kinds
    BY CallerState, Constants DEF RecordQuota, CallerFits
<1>2. left \in Caller /\ left.pc = "record" /\ left.i = caller[c].i
    BY CallerState DEF Caller, CallerPc
<1>3. /\ caller' = [caller EXCEPT ![c] = left]
      /\ quota' = [quota EXCEPT !.dailyReq = @ + 1] /\ quota.dailyReq < MaxRecords
      /\ UNCHANGED <<now, window, health>>
    BY CallerState DEF RecordQuota, Caller
<1>4. today' \in Nat /\ unasked' \in BOOLEAN
    BY CallerState DEF RecordQuota
<1>5. quota' \in Quota
    <2>1. quota \in Quota /\ quota.dailyReq \in 0..MaxRecords /\ quota.dailyReq + 1 \in 0..MaxRecords
        BY <1>3, CallerState, Constants DEF Quota
    <2> QED BY <1>3, <2>1 DEF Quota
<1> HIDE DEF left
<1>6. caller' \in [Callers -> Caller] /\ \A d \in Callers : CallerFits(caller'[d])
    <2>1. CallerFits(left)
        BY <1>1, <1>2 DEF CallerFits
    <2> QED BY <1>2, <1>3, <2>1, CallerTyped
<1> QED BY <1>3, <1>4, <1>5, <1>6, CallerState, Typed

LEMMA TypeStep == TypeInv /\ [Next]_vars => TypeInv'
<1> SUFFICES ASSUME TypeInv, [Next]_vars PROVE TypeInv'
    OBVIOUS
<1>1. CASE Hit429 \/ AdminClears
    <2>1. now \in Nat /\ health \in Health
        BY Constants DEF TypeInv, TypeOK
    <2>2. health' \in Health
        BY <1>1, <2>1, HealthTypes DEF Hit429, AdminClears
    <2> QED BY <1>1, <2>2 DEF Hit429, AdminClears, TypeInv, TypeOK
<1>2. CASE Tick
    <2>1. now' \in 0..MaxTime
        BY <1>2, Constants DEF Tick, TypeInv, TypeOK
    <2>2. today' \in Nat /\ unasked' \in BOOLEAN
        BY <1>2 DEF Tick, TypeInv
    <2> QED BY <1>2, <2>1, <2>2 DEF Tick, TypeInv, TypeOK
<1>3. CASE UNCHANGED vars
    BY <1>3 DEF vars, TypeInv, TypeOK
<1> QED BY <1>1, <1>2, <1>3, AskType, CheckType, ForwardType, RecordType, QuotaType DEF Next

-----------------------------------------------------------------------------
(* The daily quota *)

(* A quota that has not been reset today has nothing of today to count,    *)
(* unless something was recorded unasked.                                  *)
QuotaInv ==
    /\ quota.lastReset <= Today
    /\ QuotaCountsToday
    /\ quota.lastReset # Today /\ ~unasked => today = 0

LEMMA QuotaInit == Init => QuotaInv
<1> SUFFICES ASSUME Init PROVE QuotaInv
    OBVIOUS
<1>1. 0 \div Day \in Nat
    BY Constants, Divided
<1> QED BY <1>1 DEF Init, QuotaInv, QuotaCountsToday, Today

LEMMA QuotaStep == TypeInv /\ QuotaInv /\ [Next]_vars => QuotaInv'
<1> SUFFICES ASSUME TypeInv, QuotaInv, [Next]_vars PROVE QuotaInv'
    OBVIOUS
<1>0. /\ now \in Nat /\ now + 1 \in Nat /\ Day \in Nat \ {0} /\ quota \in Quota
      /\ quota.lastReset \in Int /\ quota.dailyReq \in Int /\ today \in Nat
      /\ unasked \in BOOLEAN
    BY Constants DEF TypeInv, TypeOK, Quota
<1>1. Today \in Nat
    BY <1>0, Divided DEF Today
<1>2. ASSUME UNCHANGED <<now, quota, today, unasked>> PROVE QuotaInv'
    BY <1>2 DEF QuotaInv, QuotaCountsToday, Today
<1>3. ASSUME NEW c \in Callers, Ask(c) PROVE QuotaInv'
    <2>1. /\ Today' = Today /\ UNCHANGED <<today, unasked>>
          /\ \/ quota.lastReset = Today /\ quota' = quota
             \/ quota.lastReset # Today /\ quota' = [dailyReq |-> 0, lastReset |-> Today]
        BY <1>3 DEF Ask, ResetIfNeeded, Reset, Today
    <2> QED BY <1>1, <2>1 DEF QuotaInv, QuotaCountsToday
<1>4. ASSUME NEW c \in Callers, RecordQuota(c) PROVE QuotaInv'
    <2>1. /\ Today' = Today /\ today' = today + 1
          /\ unasked' = (unasked \/ quota.lastReset # Today)
          /\ quota' = [quota EXCEPT !.dailyReq = @ + 1]
        BY <1>4 DEF RecordQuota, Today
    <2>2. quota'.dailyReq = quota.dailyReq + 1 /\ quota'.lastReset = quota.lastReset
        BY <1>0, <2>1 DEF Quota
    <2> QED BY <1>0, <1>1, <2>1, <2>2 DEF QuotaInv, QuotaCountsToday
<1>5. CASE Tick
    <2>1. /\ Today' = (now + 1) \div Day /\ quota' = quota
          /\ today' = (IF Today' = Today THEN today ELSE 0)
          /\ unasked' = (unasked /\ Today' = Today)
        BY <1>5 DEF Tick, Today
    <2>2. Today <= Today' /\ Today' \in Nat
        <3>1. now <= now + 1
            BY <1>0
        <3>2. now \div Day <= (now + 1) \div Day
            BY <1>0, <3>1, DaysPass
        <3>3. (now + 1) \div Day \in Nat
            <4>1. now + 1 \in Nat
                BY <1>0
            <4> QED BY <1>0, <4>1, Divided
        <3> QED BY <2>1, <3>2, <3>3 DEF Today
    <2> QED BY <1>0, <1>1, <2>1, <2>2 DEF QuotaInv, QuotaCountsToday
<1>6. ASSUME NEW c \in Callers, CheckWindow(c) \/ AskTokens(c) \/ Forwarded(c) \/ RecordWindow(c)
      PROVE  QuotaInv'
    BY <1>2, <1>6 DEF CheckWindow, AskTokens, Forwarded, RecordWindow
<1>7. CASE Hit429 \/ AdminClears
    BY <1>2, <1>7 DEF Hit429, AdminClears
<1>8. CASE UNCHANGED vars
    BY <1>2, <1>8 DEF vars
<1> QED BY <1>3, <1>4, <1>5, <1>6, <1>7, <1>8 DEF Next

(* The windows only ever hold entries, the quota counts within its bounds, *)
(* and a call is at a window it still has before it.                       *)
THEOREM TypeCorrect == Spec => []TypeOK
<1> QED BY TypeInit, TypeStep, PTL DEF Spec, TypeInv

(* ProviderQuota has counted exactly the requests of the day once somebody *)
(* has asked that day before the first of them was recorded                *)
(* (provider_quota.go:27-31, 56-65).                                       *)
THEOREM QuotaIsToday == Spec => []QuotaCountsToday
<1>1. QuotaInv => QuotaCountsToday
    BY DEF QuotaInv
<1> QED BY TypeInit, TypeStep, QuotaInit, QuotaStep, <1>1, PTL DEF Spec

-----------------------------------------------------------------------------
(* The tracker's fields against the history of 429s *)

Rows == Nat \ {0}

(* A row of m that ends at the i-th 429, gap by gap.                       *)
LEMMA RowByGaps ==
    ASSUME NEW times \in Seq(Nat), NEW i \in Nat, i <= Len(times), NEW m \in Rows
    PROVE  RowAtLeast(times, i, m)
              <=> i >= m /\ \A k \in (i - m + 1)..(i - 1) : times[k + 1] - times[k] < Window
<1>1. i >= m => i - m + 1 \in 1..i
    BY DEF Rows
<1> QED BY <1>1 DEF RowAtLeast, InARow

(* One more 429 leaves the rows that ended before it as they were, and its *)
(* own row continues the last one if that is within the window.            *)
LEMMA RowAppended ==
    ASSUME NEW times \in Seq(Nat), NEW t \in Nat, NEW m \in Rows
    PROVE  /\ \A i \in 1..Len(times) :
                 RowAtLeast(Append(times, t), i, m) <=> RowAtLeast(times, i, m)
           /\ RowAtLeast(Append(times, t), Len(times) + 1, m)
                 <=> \/ m = 1
                     \/ /\ m > 1 /\ Len(times) > 0 /\ t - times[Len(times)] < Window
                        /\ RowAtLeast(times, Len(times), m - 1)
<1> DEFINE n == Len(times)
           more == Append(times, t)
<1>1. /\ n \in Nat /\ more \in Seq(Nat) /\ Len(more) = n + 1 /\ more[n + 1] = t
      /\ \A k \in 1..n : more[k] = times[k]
    OBVIOUS
<1>2. m \in Nat /\ m >= 1
    BY DEF Rows
<1> HIDE DEF n, more
<1>3. ASSUME NEW i \in 1..n PROVE RowAtLeast(more, i, m) <=> RowAtLeast(times, i, m)
    <2>1. i \in Nat /\ i <= Len(more) /\ i <= Len(times)
        BY <1>1 DEF n
    <2>2. ASSUME i >= m, NEW k \in (i - m + 1)..(i - 1)
          PROVE  more[k + 1] = times[k + 1] /\ more[k] = times[k]
        <3>1. k \in 1..n /\ k + 1 \in 1..n
            BY <1>1, <1>2, <2>1, <2>2
        <3> QED BY <1>1, <3>1
    <2>3. RowAtLeast(more, i, m)
             <=> i >= m /\ \A k \in (i - m + 1)..(i - 1) : more[k + 1] - more[k] < Window
        BY <1>1, <2>1, RowByGaps
    <2>4. RowAtLeast(times, i, m)
             <=> i >= m /\ \A k \in (i - m + 1)..(i - 1) : times[k + 1] - times[k] < Window
        BY <1>1, <2>1, RowByGaps
    <2> QED BY <2>2, <2>3, <2>4
<1>4. RowAtLeast(more, n + 1, m)
         <=> n + 1 >= m /\ \A k \in (n + 1 - m + 1)..n : more[k + 1] - more[k] < Window
    <2> DEFINE i == n + 1
    <2>1. i \in Nat /\ i <= Len(more) /\ i - 1 = n /\ i = n + 1
        BY <1>1
    <2> HIDE DEF i
    <2>2. RowAtLeast(more, i, m)
             <=> i >= m /\ \A k \in (i - m + 1)..(i - 1) : more[k + 1] - more[k] < Window
        BY <1>1, <2>1, RowByGaps
    <2>3. (i - m + 1)..(i - 1) = (i - m + 1)..n
        BY <2>1
    <2>4. RowAtLeast(more, i, m)
             <=> i >= m /\ \A k \in (i - m + 1)..n : more[k + 1] - more[k] < Window
        BY <2>2, <2>3
    <2> QED BY <1>1, <1>2, <2>1, <2>4
<1>5. CASE m = 1
    <2>1. (n + 1 - m + 1)..n = {}
        BY <1>1, <1>5
    <2> QED BY <1>1, <1>3, <1>4, <1>5, <2>1 DEF n, more
<1>6. CASE m > 1
    <2> DEFINE p == m - 1
    <2>1. p \in Rows /\ n <= Len(times) /\ n - p + 1 = n + 1 - m + 1
        BY <1>1, <1>2, <1>6 DEF Rows, n
    <2> HIDE DEF p
    <2>2. RowAtLeast(times, n, p)
             <=> n >= p /\ \A k \in (n - p + 1)..(n - 1) : times[k + 1] - times[k] < Window
        BY <1>1, <2>1, RowByGaps
    <2>3. RowAtLeast(times, n, p)
             <=> n >= p /\ \A k \in (n + 1 - m + 1)..(n - 1) : times[k + 1] - times[k] < Window
        BY <2>1, <2>2
    <2>4. ASSUME n >= m - 1
          PROVE  /\ n >= 1 /\ n \in (n + 1 - m + 1)..n
                 /\ (n + 1 - m + 1)..n = ((n + 1 - m + 1)..(n - 1)) \cup {n}
                 /\ more[n + 1] = t /\ more[n] = times[n]
                 /\ \A k \in (n + 1 - m + 1)..(n - 1) : more[k + 1] = times[k + 1] /\ more[k] = times[k]
        <3>1. n >= 1 /\ n \in 1..n /\ n + 1 - m + 1 >= 1 /\ n + 1 - m + 1 <= n
            BY <1>1, <1>2, <1>6, <2>4
        <3>2. ASSUME NEW k \in (n + 1 - m + 1)..(n - 1) PROVE k \in 1..n /\ k + 1 \in 1..n
            BY <1>1, <1>2, <3>1
        <3> QED BY <1>1, <1>2, <3>1, <3>2
    <2>5. n + 1 >= m <=> n >= m - 1
        BY <1>1, <1>2
    <2>7. n >= m - 1 => n > 0
        BY <1>1, <1>2, <1>6
    <2>6. n >= m - 1 =>
             ((\A k \in (n + 1 - m + 1)..n : more[k + 1] - more[k] < Window)
                <=> /\ t - times[n] < Window
                    /\ \A k \in (n + 1 - m + 1)..(n - 1) : times[k + 1] - times[k] < Window)
        BY <2>4
    <2>8. RowAtLeast(more, n + 1, m)
             <=> n > 0 /\ t - times[n] < Window /\ RowAtLeast(times, n, m - 1)
        BY <1>4, <2>3, <2>5, <2>6, <2>7 DEF p
    <2>9. m # 1
        BY <1>2, <1>6
    <2> QED BY <1>3, <1>6, <2>8, <2>9 DEF n, more
<1> QED BY <1>2, <1>5, <1>6

(* consecutive429s is the length of the row that ends now; cooldownUntil   *)
(* is the end of the latest cooldown that a row has begun.                 *)
RowInv ==
    /\ hits \in Seq(Nat)
    /\ \A i \in 1..Len(hits) : hits[i] <= now
    /\ Len(hits) = 0 => health.consecutive429s = 0
    /\ Len(hits) > 0 =>
          /\ health.last429At = hits[Len(hits)]
          /\ \A m \in Rows : RowAtLeast(hits, Len(hits), m) <=> m <= health.consecutive429s
    /\ \A i \in 1..Len(hits) : RowAtLeast(hits, i, Threshold) =>
          health.isInCooldown /\ hits[i] + Cooldown <= health.cooldownUntil
    /\ health.isInCooldown => \E i \in 1..Len(hits) :
          RowAtLeast(hits, i, Threshold) /\ health.cooldownUntil = hits[i] + Cooldown

LEMMA RowInit == Init => RowInv
<1>1. NewHealth.consecutive429s = 0 /\ NewHealth.isInCooldown = FALSE
    BY DEF NewHealth
<1>2. <<>> \in Seq(Nat) /\ Len(<<>>) = 0 /\ 1..0 = {}
    OBVIOUS
<1> QED BY <1>1, <1>2 DEF Init, RowInv

LEMMA RowStep == TypeInv /\ RowInv /\ [Next]_vars => RowInv'
<1> SUFFICES ASSUME TypeInv, RowInv, [Next]_vars PROVE RowInv'
    OBVIOUS
<1>0. /\ now \in Nat /\ health \in Health /\ health.consecutive429s \in Nat
      /\ health.last429At \in Int /\ health.isInCooldown \in BOOLEAN
      /\ health.cooldownUntil \in Int /\ hits \in Seq(Nat) /\ Len(hits) \in Nat
      /\ Window \in Nat \ {0} /\ Cooldown \in Nat \ {0} /\ Threshold \in Rows
    BY Constants, HealthAssumption DEF TypeInv, TypeOK, RowInv, Health, Rows
<1>1. ASSUME hits' = hits, health' = health, now' = now \/ now' = now + 1 PROVE RowInv'
    <2>1. ASSUME NEW i \in 1..Len(hits) PROVE hits[i] <= now'
        <3>1. hits[i] \in Nat /\ hits[i] <= now
            BY <1>0 DEF RowInv
        <3> QED BY <1>0, <1>1, <3>1
    <2> QED BY <1>1, <2>1 DEF RowInv
<1>2. CASE Hit429
    <2> DEFINE n == Len(hits)
               row == IF now - health.last429At < Window THEN health.consecutive429s + 1 ELSE 1
    <2>1. hits' = Append(hits, now) /\ now' = now /\ health' = Record429(health, now)
        BY <1>2 DEF Hit429
    <2>2. /\ hits' \in Seq(Nat) /\ Len(hits') = n + 1 /\ hits'[n + 1] = now /\ n \in Nat
          /\ \A i \in 1..n : hits'[i] = hits[i] /\ hits[i] <= now
        BY <1>0, <2>1 DEF RowInv
    <2>3. row \in Rows
        BY <1>0 DEF Rows
    <2>4. /\ health'.consecutive429s = row /\ health'.last429At = now
          /\ IF row >= Threshold
             THEN health'.isInCooldown = TRUE /\ health'.cooldownUntil = now + Cooldown
             ELSE /\ health'.isInCooldown = health.isInCooldown
                  /\ health'.cooldownUntil = health.cooldownUntil
        <3>1. Counted429(health, now) = [health EXCEPT !.consecutive429s = row, !.last429At = now]
            BY DEF Counted429
        <3> DEFINE counted == Counted429(health, now)
        <3> HIDE DEF row
        <3>0. row \in Nat /\ now \in Int
            BY <1>0, <2>3 DEF Rows
        <3>2. /\ counted \in Health /\ counted.consecutive429s = row /\ counted.last429At = now
              /\ counted.isInCooldown = health.isInCooldown
              /\ counted.cooldownUntil = health.cooldownUntil
            <4>1. counted = [health EXCEPT !.consecutive429s = row, !.last429At = now]
                BY <3>1
            <4> HIDE DEF counted
            <4> QED BY <1>0, <3>0, <4>1 DEF Health
        <3>3. health' = IF row >= Threshold THEN SetCooldown(counted, now) ELSE counted
            BY <2>1, <3>2 DEF Record429
        <3> HIDE DEF counted
        <3>4. /\ SetCooldown(counted, now).consecutive429s = row
              /\ SetCooldown(counted, now).last429At = now
              /\ SetCooldown(counted, now).isInCooldown = TRUE
              /\ SetCooldown(counted, now).cooldownUntil = now + Cooldown
            BY <3>2 DEF SetCooldown, Health
        <3> QED BY <3>2, <3>3, <3>4
    <2> HIDE DEF n
    <2>5. \A m \in Rows : RowAtLeast(hits', n + 1, m) <=> m <= row
        <3> SUFFICES ASSUME NEW m \in Rows PROVE RowAtLeast(hits', n + 1, m) <=> m <= row
            OBVIOUS
        <3>1. RowAtLeast(hits', n + 1, m)
                 <=> \/ m = 1
                     \/ m > 1 /\ n > 0 /\ now - hits[n] < Window /\ RowAtLeast(hits, n, m - 1)
            BY <1>0, <2>1, RowAppended DEF n
        <3>2. m \in Nat /\ m >= 1 /\ row \in Nat /\ row >= 1
            BY <2>3 DEF Rows
        <3>3. CASE n = 0
            <4>1. row = 1
                BY <1>0, <3>3 DEF RowInv, n
            <4> QED BY <2>2, <3>1, <3>2, <3>3, <4>1
        <3>4. CASE n > 0 /\ m = 1
            BY <3>1, <3>2, <3>4
        <3>5. CASE n > 0 /\ m > 1
            <4>1. m - 1 \in Rows
                BY <3>2, <3>5 DEF Rows
            <4>2. /\ health.last429At = hits[n]
                  /\ RowAtLeast(hits, n, m - 1) <=> m - 1 <= health.consecutive429s
                BY <3>5, <4>1 DEF RowInv, n
            <4>3. RowAtLeast(hits', n + 1, m)
                     <=> now - health.last429At < Window /\ m - 1 <= health.consecutive429s
                BY <3>1, <3>2, <3>5, <4>2
            <4> QED BY <1>0, <3>2, <3>5, <4>3
        <3> QED BY <2>2, <3>2, <3>3, <3>4, <3>5
    <2>6. \A i \in 1..n : RowAtLeast(hits', i, Threshold) <=> RowAtLeast(hits, i, Threshold)
        BY <1>0, <2>1, RowAppended DEF n
    <2>7. RowAtLeast(hits', n + 1, Threshold) <=> Threshold <= row
        BY <1>0, <2>5
    <2> HIDE DEF row
    <2>8. ASSUME NEW i \in 1..(n + 1), RowAtLeast(hits', i, Threshold)
          PROVE  health'.isInCooldown /\ hits'[i] + Cooldown <= health'.cooldownUntil
        <3>0. row \in Nat /\ Threshold \in Nat /\ Cooldown \in Nat /\ now \in Nat
            BY <1>0, <2>3 DEF Rows
        <3>1. CASE i = n + 1
            BY <2>2, <2>4, <2>7, <2>8, <3>0, <3>1
        <3>2. CASE i \in 1..n
            <4>1. hits'[i] = hits[i] /\ hits[i] <= now /\ hits[i] \in Nat
                BY <1>0, <2>2, <3>2 DEF n
            <4>2. RowAtLeast(hits, i, Threshold)
                BY <2>6, <2>8, <3>2
            <4>3. health.isInCooldown /\ hits[i] + Cooldown <= health.cooldownUntil
                BY <3>2, <4>2 DEF RowInv, n
            <4>4. CASE row >= Threshold
                BY <2>4, <3>0, <4>1, <4>4
            <4>5. CASE ~(row >= Threshold)
                BY <2>4, <4>1, <4>3, <4>5
            <4> QED BY <4>4, <4>5
        <3> QED BY <2>2, <3>1, <3>2
    <2>9. ASSUME health'.isInCooldown
          PROVE  \E i \in 1..(n + 1) : /\ RowAtLeast(hits', i, Threshold)
                                       /\ health'.cooldownUntil = hits'[i] + Cooldown
        <3>0. row \in Nat /\ Threshold \in Nat /\ n + 1 \in 1..(n + 1)
            BY <1>0, <2>2, <2>3 DEF Rows
        <3>1. CASE row >= Threshold
            <4>1. RowAtLeast(hits', n + 1, Threshold) /\ health'.cooldownUntil = hits'[n + 1] + Cooldown
                BY <2>2, <2>4, <2>7, <3>0, <3>1
            <4> QED BY <3>0, <4>1
        <3>2. CASE ~(row >= Threshold)
            <4>1. PICK i \in 1..n : /\ RowAtLeast(hits, i, Threshold)
                                    /\ health.cooldownUntil = hits[i] + Cooldown
                BY <2>4, <2>9, <3>2 DEF RowInv, n
            <4>2. i \in 1..(n + 1) /\ RowAtLeast(hits', i, Threshold) /\ hits'[i] = hits[i]
                BY <2>2, <2>6, <4>1
            <4> QED BY <2>4, <3>2, <4>1, <4>2
        <3> QED BY <3>1, <3>2
    <2>10. \A i \in 1..(n + 1) : hits'[i] <= now'
        BY <1>0, <2>1, <2>2
    <2>11. n + 1 > 0 /\ n + 1 # 0
        BY <2>2
    <2> QED BY <2>2, <2>4, <2>5, <2>8, <2>9, <2>10, <2>11 DEF RowInv
<1>3. CASE AdminClears
    <2>1. hits' = <<>> /\ health' = ClearCooldown(health)
        BY <1>3 DEF AdminClears
    <2>2. health'.consecutive429s = 0 /\ health'.isInCooldown = FALSE
        BY <1>0, <2>1 DEF ClearCooldown, Health
    <2>3. <<>> \in Seq(Nat) /\ Len(<<>>) = 0 /\ 1..0 = {}
        OBVIOUS
    <2>4. hits' \in Seq(Nat) /\ Len(hits') = 0 /\ 1..Len(hits') = {}
        BY <2>1, <2>3
    <2> QED BY <2>2, <2>4 DEF RowInv
<1>4. ASSUME NEW c \in Callers,
             \/ Ask(c) \/ CheckWindow(c) \/ AskTokens(c)
             \/ Forwarded(c) \/ RecordWindow(c) \/ RecordQuota(c)
      PROVE  RowInv'
    BY <1>1, <1>4 DEF Ask, CheckWindow, AskTokens, Forwarded, RecordWindow, RecordQuota
<1>5. CASE Tick
    BY <1>1, <1>5 DEF Tick
<1>6. CASE UNCHANGED vars
    BY <1>1, <1>6 DEF vars
<1> QED BY <1>2, <1>3, <1>4, <1>5, <1>6 DEF Next

(* The three fields of the tracker skip a provider exactly when the whole  *)
(* history of its 429s says so, for any threshold, window and cooldown     *)
(* (provider_health.go:18-50, 85-112).                                     *)
THEOREM SkipIsHistory == Spec => []SkipMatchesHistory
<1>1. TypeInv /\ RowInv => SkipMatchesHistory
    <2> SUFFICES ASSUME TypeInv, RowInv PROVE SkipMatchesHistory
        OBVIOUS
    <2> DEFINE n == Len(hits)
    <2>0. /\ now \in Nat /\ n \in Nat /\ health.consecutive429s \in Nat
          /\ health.cooldownUntil \in Int /\ health.isInCooldown \in BOOLEAN
          /\ \A i \in 1..n : hits[i] \in Nat
          /\ Cooldown \in Nat /\ Window \in Nat /\ Threshold \in Rows /\ 2 \in Rows
          /\ DOMAIN hits = 1..n
        BY Constants, HealthAssumption DEF TypeInv, TypeOK, RowInv, Health, Rows
    <2>1. (health.isInCooldown /\ now < health.cooldownUntil)
             <=> \E i \in 1..n : RowAtLeast(hits, i, Threshold) /\ now < hits[i] + Cooldown
        <3>1. ASSUME NEW i \in 1..n, RowAtLeast(hits, i, Threshold), now < hits[i] + Cooldown
              PROVE  health.isInCooldown /\ now < health.cooldownUntil
            <4>1. health.isInCooldown /\ hits[i] + Cooldown <= health.cooldownUntil
                BY <3>1 DEF RowInv
            <4> QED BY <2>0, <3>1, <4>1
        <3>2. health.isInCooldown => \E i \in 1..n :
                 RowAtLeast(hits, i, Threshold) /\ health.cooldownUntil = hits[i] + Cooldown
            BY DEF RowInv
        <3> QED BY <3>1, <3>2
    <2>2. (health.consecutive429s >= 2 /\ now - health.last429At < Window)
             <=> (RowAtLeast(hits, n, 2) /\ now - hits[n] < Window)
        <3>1. CASE n = 0
            <4>1. health.consecutive429s = 0 /\ ~RowAtLeast(hits, n, 2)
                BY <3>1 DEF RowInv, RowAtLeast
            <4> QED BY <4>1
        <3>2. CASE n > 0
            <4>1. /\ health.last429At = hits[n]
                  /\ RowAtLeast(hits, n, 2) <=> 2 <= health.consecutive429s
                BY <2>0, <3>2 DEF RowInv
            <4> QED BY <2>0, <4>1
        <3> QED BY <2>0, <3>1, <3>2
    <2> QED BY <2>0, <2>1, <2>2 DEF SkipMatchesHistory, ShouldSkip, SkipReference
<1> QED BY TypeInit, TypeStep, RowInit, RowStep, <1>1, PTL DEF Spec

-----------------------------------------------------------------------------
(* Sums *)

LEMMA Induction ==
    ASSUME NEW T, 0 \in T, \A n \in Nat : n \in T => n + 1 \in T
    PROVE  \A n \in Nat : n \in T
<1> DEFINE U == Nat \ T
<1> SUFFICES ASSUME U # {} PROVE FALSE
    OBVIOUS
<1>1. U \in SUBSET Nat
    OBVIOUS
<1> HIDE DEF U
<1>2. PICK j \in U : \A k \in U : j <= k
    BY <1>1, Least
<1>3. j \in Nat /\ j \notin T
    BY <1>2 DEF U
<1>4. j - 1 \in Nat /\ j - 1 + 1 = j
    BY <1>3
<1>5. j - 1 \in T
    BY <1>2, <1>3, <1>4 DEF U
<1> QED BY <1>3, <1>4, <1>5

(* t is the sum of a, place by place.                                      *)
Adds(a, t) == t = [i \in 0..Len(a) |-> IF i = 0 THEN 0 ELSE t[i - 1] + a[i]]

LEMMA AddsExists == ASSUME NEW a \in Seq(Nat) PROVE \E t : Adds(a, t)
<1> DEFINE UpTo(n, t) == t = [i \in 0..n |-> IF i = 0 THEN 0 ELSE t[i - 1] + a[i]]
           Has(n) == \E t : UpTo(n, t)
           T == {n \in Nat : Has(n)}
<1>1. Has(0)
    <2> DEFINE g == [i \in 0..0 |-> 0]
    <2>1. UpTo(0, g)
        OBVIOUS
    <2> HIDE DEF g, UpTo
    <2> QED BY <2>1
<1>2. ASSUME NEW n \in Nat, Has(n) PROVE Has(n + 1)
    <2>1. PICK t : UpTo(n, t)
        BY <1>2
    <2> DEFINE g == [i \in 0..(n + 1) |-> IF i = 0 THEN 0 ELSE t[i - 1] + a[i]]
    <2>2. ASSUME NEW i \in 0..(n + 1), i # 0 PROVE g[i - 1] = t[i - 1]
        <3>1. i - 1 \in 0..n /\ i - 1 \in 0..(n + 1)
            BY <2>2
        <3>2. t[i - 1] = IF i - 1 = 0 THEN 0 ELSE t[i - 1 - 1] + a[i - 1]
            BY <2>1, <3>1
        <3> QED BY <3>1, <3>2
    <2>3. UpTo(n + 1, g)
        BY <2>2
    <2> HIDE DEF g, UpTo
    <2> QED BY <2>3
<1> HIDE DEF Has
<1>3. 0 \in T /\ \A n \in Nat : n \in T => n + 1 \in T
    BY <1>1, <1>2
<1> HIDE DEF T
<1>4. \A n \in Nat : n \in T
    BY <1>3, Induction
<1>5. Len(a) \in T
    BY <1>4
<1> USE DEF T, Has
<1>6. \E t : UpTo(Len(a), t)
    BY <1>5
<1> QED BY <1>6 DEF Adds

LEMMA AddsType ==
    ASSUME NEW a \in Seq(Nat), NEW t, Adds(a, t)
    PROVE  /\ t[0] = 0 /\ \A i \in 1..Len(a) : t[i] = t[i - 1] + a[i]
           /\ \A i \in 0..Len(a) : t[i] \in Nat
<1>1. \A i \in 0..Len(a) : t[i] = IF i = 0 THEN 0 ELSE t[i - 1] + a[i]
    BY DEF Adds
<1>2. t[0] = 0
    BY <1>1
<1>3. ASSUME NEW i \in 1..Len(a) PROVE t[i] = t[i - 1] + a[i]
    BY <1>1
<1> DEFINE T == {n \in Nat : n \in 0..Len(a) => t[n] \in Nat}
<1>4. 0 \in T
    BY <1>2
<1>5. ASSUME NEW n \in Nat, n \in T PROVE n + 1 \in T
    <2> SUFFICES ASSUME n + 1 \in 0..Len(a) PROVE t[n + 1] \in Nat
        OBVIOUS
    <2>1. n \in 0..Len(a) /\ n + 1 \in 1..Len(a) /\ n + 1 - 1 = n
        OBVIOUS
    <2>2. t[n] \in Nat /\ a[n + 1] \in Nat
        BY <1>5, <2>1
    <2>3. t[n + 1] = t[n] + a[n + 1]
        BY <1>3, <2>1
    <2> QED BY <2>2, <2>3
<1> HIDE DEF T
<1>6. \A n \in Nat : n \in T
    BY <1>4, <1>5, Induction
<1> QED BY <1>2, <1>3, <1>6 DEF T

LEMMA SumAt == ASSUME NEW a \in Seq(Nat) PROVE \E t : Adds(a, t) /\ SumOf(a) = t[Len(a)]
<1> DEFINE t == CHOOSE t : t = [i \in 0..Len(a) |-> IF i = 0 THEN 0 ELSE t[i - 1] + a[i]]
<1>1. \E u : u = [i \in 0..Len(a) |-> IF i = 0 THEN 0 ELSE u[i - 1] + a[i]]
    BY AddsExists DEF Adds
<1>2. Adds(a, t)
    BY <1>1 DEF Adds
<1>3. SumOf(a) = t[Len(a)]
    BY DEF SumOf
<1> QED BY <1>2, <1>3

LEMMA SumType == ASSUME NEW a \in Seq(Nat) PROVE SumOf(a) \in Nat
<1>1. PICK t : Adds(a, t) /\ SumOf(a) = t[Len(a)]
    BY SumAt
<1>2. Len(a) \in 0..Len(a)
    OBVIOUS
<1>3. t[Len(a)] \in Nat
    BY <1>1, <1>2, AddsType
<1> QED BY <1>1, <1>3

LEMMA SumNone == ASSUME NEW a \in Seq(Nat), Len(a) = 0 PROVE SumOf(a) = 0
<1>1. PICK t : Adds(a, t) /\ SumOf(a) = t[Len(a)]
    BY SumAt
<1>2. t[0] = 0
    BY <1>1, AddsType
<1> QED BY <1>1, <1>2

(* One place more adds what is in it.                                      *)
LEMMA SumMore ==
    ASSUME NEW a \in Seq(Nat), NEW b \in Seq(Nat), Len(b) = Len(a) + 1,
           \A i \in 1..Len(a) : b[i] = a[i]
    PROVE  SumOf(b) = SumOf(a) + b[Len(b)]
<1>1. PICK t : Adds(a, t) /\ SumOf(a) = t[Len(a)]
    BY SumAt
<1>2. PICK u : Adds(b, u) /\ SumOf(b) = u[Len(b)]
    BY SumAt
<1>3. t[0] = 0 /\ \A i \in 1..Len(a) : t[i] = t[i - 1] + a[i]
    BY <1>1, AddsType
<1>4. u[0] = 0 /\ \A i \in 1..Len(b) : u[i] = u[i - 1] + b[i]
    BY <1>2, AddsType
<1> DEFINE T == {n \in Nat : n \in 0..Len(a) => u[n] = t[n]}
<1>5. 0 \in T
    BY <1>3, <1>4
<1>6. ASSUME NEW n \in Nat, n \in T PROVE n + 1 \in T
    <2> SUFFICES ASSUME n + 1 \in 0..Len(a) PROVE u[n + 1] = t[n + 1]
        OBVIOUS
    <2>1. n \in 0..Len(a) /\ n + 1 \in 1..Len(a) /\ n + 1 \in 1..Len(b) /\ n + 1 - 1 = n
        OBVIOUS
    <2>2. u[n] = t[n] /\ b[n + 1] = a[n + 1]
        BY <1>6, <2>1
    <2>3. t[n + 1] = t[n] + a[n + 1] /\ u[n + 1] = u[n] + b[n + 1]
        BY <1>3, <1>4, <2>1
    <2> QED BY <2>2, <2>3
<1> HIDE DEF T
<1>7. \A n \in Nat : n \in T
    BY <1>5, <1>6, Induction
<1>8. Len(a) \in 0..Len(a) /\ Len(b) \in 1..Len(b) /\ Len(b) - 1 = Len(a)
    OBVIOUS
<1>9. u[Len(a)] = t[Len(a)]
    BY <1>7, <1>8 DEF T
<1>10. u[Len(b)] = u[Len(a)] + b[Len(b)]
    BY <1>4, <1>8
<1> QED BY <1>1, <1>2, <1>9, <1>10

(* a is b behind d zeros, its places no greater than b's, or the same.     *)
Under(a, b, d) ==
    /\ Len(a) = d + Len(b)
    /\ \A i \in 1..d : a[i] = 0
    /\ \A i \in 1..Len(b) : a[d + i] <= b[i]
Exactly(a, b, d) == \A i \in 1..Len(b) : a[d + i] = b[i]

LEMMA SumUnder ==
    ASSUME NEW d \in Nat, NEW a \in Seq(Nat), NEW b \in Seq(Nat), Under(a, b, d)
    PROVE  SumOf(a) <= SumOf(b) /\ (Exactly(a, b, d) => SumOf(a) = SumOf(b))
<1>1. PICK t : Adds(a, t) /\ SumOf(a) = t[Len(a)]
    BY SumAt
<1>2. PICK u : Adds(b, u) /\ SumOf(b) = u[Len(b)]
    BY SumAt
<1>3. /\ t[0] = 0 /\ \A i \in 1..Len(a) : t[i] = t[i - 1] + a[i]
      /\ \A i \in 0..Len(a) : t[i] \in Nat
    BY <1>1, AddsType
<1>4. /\ u[0] = 0 /\ \A i \in 1..Len(b) : u[i] = u[i - 1] + b[i]
      /\ \A i \in 0..Len(b) : u[i] \in Nat
    BY <1>2, AddsType
<1>0. Len(a) = d + Len(b) /\ Len(a) \in Nat /\ Len(b) \in Nat
    BY DEF Under
<1> DEFINE Z == {n \in Nat : n \in 0..d => t[n] = 0}
<1>5. 0 \in Z
    BY <1>3
<1>6. ASSUME NEW n \in Nat, n \in Z PROVE n + 1 \in Z
    <2> SUFFICES ASSUME n + 1 \in 0..d PROVE t[n + 1] = 0
        OBVIOUS
    <2>1. n \in 0..d /\ n + 1 \in 1..d /\ n + 1 \in 1..Len(a) /\ n + 1 - 1 = n
        BY <1>0
    <2>2. t[n] = 0 /\ a[n + 1] = 0
        BY <1>6, <2>1 DEF Under
    <2>3. t[n + 1] = t[n] + a[n + 1]
        BY <1>3, <2>1
    <2> QED BY <2>2, <2>3
<1> HIDE DEF Z
<1>7. \A n \in Nat : n \in Z
    BY <1>5, <1>6, Induction
<1>8. t[d] = 0
    <2>1. d \in 0..d
        OBVIOUS
    <2> QED BY <1>7, <2>1 DEF Z
<1> DEFINE T == {n \in Nat : n \in 0..Len(b) =>
                               t[d + n] <= u[n] /\ (Exactly(a, b, d) => t[d + n] = u[n])}
<1>9. 0 \in T
    BY <1>4, <1>8
<1>10. ASSUME NEW n \in Nat, n \in T PROVE n + 1 \in T
    <2> SUFFICES ASSUME n + 1 \in 0..Len(b)
                 PROVE  /\ t[d + (n + 1)] <= u[n + 1]
                        /\ Exactly(a, b, d) => t[d + (n + 1)] = u[n + 1]
        OBVIOUS
    <2> DEFINE m == n + 1
    <2>1. /\ n \in 0..Len(b) /\ m \in 1..Len(b) /\ m - 1 = n
          /\ d + m \in 1..Len(a) /\ d + m - 1 = d + n /\ d + n \in 0..Len(a)
        BY <1>0
    <2>2. t[d + n] <= u[n] /\ (Exactly(a, b, d) => t[d + n] = u[n])
        BY <1>10, <2>1
    <2> HIDE DEF m
    <2>3. a[d + m] <= b[m]
        BY <2>1, Zenon DEF Under
    <2>7. a[d + m] \in Nat /\ b[m] \in Nat
        <3> DEFINE j == d + m
        <3>1. j \in 1..Len(a)
            BY <2>1
        <3> HIDE DEF j
        <3>2. a[j] \in Nat
            BY <3>1
        <3> QED BY <2>1, <3>2 DEF j
    <2>4. t[d + m] = t[d + n] + a[d + m] /\ t[d + n] \in Nat
        <3> DEFINE j == d + m
                   k == d + n
        <3>1. j \in 1..Len(a) /\ j - 1 = k /\ k \in 0..Len(a)
            BY <2>1, SMTT(60)
        <3> HIDE DEF j, k
        <3>2. t[j] = t[j - 1] + a[j] /\ t[k] \in Nat
            BY <1>3, <3>1
        <3> QED BY <3>1, <3>2 DEF j, k
    <2>8. u[m] = u[n] + b[m] /\ u[n] \in Nat
        <3>1. m \in 1..Len(b) /\ m - 1 = n /\ n \in 0..Len(b)
            BY <2>1
        <3>2. u[m] = u[m - 1] + b[m] /\ u[n] \in Nat
            BY <1>4, <3>1, Zenon
        <3> QED BY <3>1, <3>2, Zenon
    <2>5. Exactly(a, b, d) => a[d + m] = b[m]
        BY <2>1, Zenon DEF Exactly
    <2>6. t[d + m] <= u[m] /\ (Exactly(a, b, d) => t[d + m] = u[m])
        <3> DEFINE am == a[d + m]
                   bm == b[m]
                   tn == t[d + n]
                   un == u[n]
                   same == Exactly(a, b, d)
        <3>1. /\ am <= bm /\ am \in Nat /\ bm \in Nat /\ tn \in Nat /\ un \in Nat
              /\ tn <= un /\ (same => tn = un) /\ (same => am = bm)
              /\ t[d + m] = tn + am /\ u[m] = un + bm
            BY <2>2, <2>3, <2>4, <2>5, <2>7, <2>8, Zenon
        <3> HIDE DEF am, bm, tn, un, same
        <3>2. t[d + m] <= u[m] /\ (same => t[d + m] = u[m])
            BY <3>1
        <3> QED BY <3>2 DEF same
    <2> QED BY <2>6 DEF m
<1> HIDE DEF T
<1>11. \A n \in Nat : n \in T
    BY <1>9, <1>10, Induction
<1>12. t[d + Len(b)] <= u[Len(b)] /\ (Exactly(a, b, d) => t[d + Len(b)] = u[Len(b)])
    <2>1. Len(b) \in 0..Len(b) /\ Len(b) \in Nat
        BY <1>0
    <2> QED BY <1>11, <2>1 DEF T
<1> QED BY <1>0, <1>1, <1>2, <1>12

-----------------------------------------------------------------------------
(* Windows: what one still holds is the end of what was recorded in it     *)

Behind(w, r, d) == Len(r) = d + Len(w) /\ \A i \in 1..Len(w) : w[i] = r[d + i]
Old(r, d, cutoff) == \A i \in 1..d : r[i].ts < cutoff

(* The filter drops a beginning, of old entries only.                      *)
LEMMA Filtered ==
    ASSUME NEW s \in Seq(Entry), NEW cutoff \in Int
    PROVE  \E e \in Nat : /\ Behind(Filter(s, cutoff), s, e) /\ Old(s, e, cutoff)
                          /\ e < Len(s) => s[e + 1].ts >= cutoff
<1> DEFINE young == {i \in DOMAIN s : s[i].ts >= cutoff}
           idx == CHOOSE i \in young : \A j \in young : i <= j
           n == Len(s)
<1>0. n \in Nat /\ DOMAIN s = 1..n /\ \A i \in 1..n : s[i].ts \in Int
    <2>1. ASSUME NEW i \in 1..Len(s) PROVE s[i].ts \in Int
        <3>1. s[i] \in Entry
            OBVIOUS
        <3>2. MaxTime \in Nat
            BY Constants
        <3> QED BY <3>1, <3>2 DEF Entry
    <2> QED BY <2>1
<1>1. CASE young = {}
    <2>1. Filter(s, cutoff) = <<>>
        BY <1>1 DEF Filter
    <2>2. Behind(<<>>, s, n)
        BY <1>0 DEF Behind
    <2>3. Old(s, n, cutoff)
        BY <1>0, <1>1 DEF Old
    <2> QED BY <1>0, <2>1, <2>2, <2>3
<1>2. CASE young # {}
    <2>1. young \in SUBSET Nat
        OBVIOUS
    <2>2. \E i \in young : \A j \in young : i <= j
        BY <1>2, <2>1, Least
    <2>3. idx \in young /\ \A j \in young : idx <= j
        BY <2>2
    <2>4. Filter(s, cutoff) = SubSeq(s, idx, n)
        BY <1>2 DEF Filter
    <2> HIDE DEF idx
    <2>5. idx \in 1..n /\ s[idx].ts >= cutoff
        BY <2>3
    <2>6. ASSUME NEW i \in 1..(idx - 1) PROVE s[i].ts < cutoff
        <3>1. i \in 1..n /\ ~(idx <= i)
            BY <1>0, <2>5
        <3>2. i \notin young
            BY <2>3, <3>1
        <3> QED BY <1>0, <3>1, <3>2
    <2> DEFINE e == idx - 1
    <2>7. e \in Nat /\ e + 1 = idx
        BY <1>0, <2>5
    <2>8. Old(s, e, cutoff)
        BY <2>6 DEF Old
    <2>9. Behind(SubSeq(s, idx, n), s, e)
        BY <1>0, <2>5 DEF Behind
    <2> HIDE DEF e, young, n
    <2>10. s[e + 1].ts >= cutoff
        BY <2>5, <2>7
    <2> QED BY <2>4, <2>7, <2>8, <2>9, <2>10
<1> QED BY <1>1, <1>2

HistInv ==
    /\ recorded \in [KindSet -> Seq(Entry)]
    /\ \A c \in Callers : caller[c].ts <= now
    /\ \A k \in KindSet : \E d \in Nat : /\ Behind(window[k], recorded[k], d)
                                         /\ Old(recorded[k], d, now - Duration[k])

LEMMA KeptBehind ==
    ASSUME TypeInv, HistInv, NEW k \in KindSet, NEW time \in Nat, time <= now
    PROVE  /\ Kept(k, time) \in Seq(Entry)
           /\ \E d \in Nat : /\ Behind(Kept(k, time), recorded[k], d)
                             /\ Old(recorded[k], d, now - Duration[k])
                             /\ d < Len(recorded[k]) => recorded[k][d + 1].ts >= time - Duration[k]
<1> DEFINE w == window[k]
           r == recorded[k]
           old == now - Duration[k]
           cutoff == time - Duration[k]
           s == Filter(w, cutoff)
<1>1. w \in Seq(Entry) /\ r \in Seq(Entry) /\ Duration[k] \in Nat /\ now \in Nat
    BY Constants DEF TypeInv, TypeOK, HistInv
<1>2. PICK d \in Nat : Behind(w, r, d) /\ Old(r, d, old)
    BY DEF HistInv
<1>3. cutoff \in Int /\ old \in Int /\ cutoff <= old
    BY <1>1
<1> HIDE DEF w, r, old, cutoff
<1>4. s \in Seq(Entry)
    BY <1>1, <1>3, FilterType
<1>5. PICK e \in Nat : Behind(s, w, e) /\ Old(w, e, cutoff) /\ (e < Len(w) => w[e + 1].ts >= cutoff)
    BY <1>1, <1>3, Filtered
<1> HIDE DEF s
<1>6. /\ Len(r) = d + Len(w) /\ \A i \in 1..Len(w) : w[i] = r[d + i]
      /\ Len(w) = e + Len(s) /\ \A i \in 1..Len(s) : s[i] = w[e + i]
      /\ Len(r) \in Nat /\ Len(w) \in Nat /\ Len(s) \in Nat
    BY <1>1, <1>2, <1>4, <1>5 DEF Behind
<1>7. Behind(s, r, d + e)
    <2>1. ASSUME NEW i \in 1..Len(s) PROVE s[i] = r[d + e + i]
        <3>1. e + i \in 1..Len(w) /\ d + (e + i) = d + e + i
            BY <1>6
        <3>2. w[e + i] = r[d + (e + i)]
            BY <1>6, <3>1
        <3> QED BY <1>6, <3>1, <3>2
    <2> QED BY <1>6, <2>1 DEF Behind
<1>8. Old(r, d + e, old)
    <2>1. ASSUME NEW i \in 1..(d + e) PROVE r[i].ts < old
        <3>1. CASE i <= d
            BY <1>2, <3>1 DEF Old
        <3>2. CASE i > d
            <4> DEFINE j == i - d
            <4>1. j \in 1..e /\ j \in 1..Len(w) /\ d + j = i /\ i \in 1..Len(r)
                BY <1>6, <3>2
            <4> HIDE DEF j
            <4>2. w[j].ts < cutoff /\ w[j] = r[i]
                BY <1>5, <1>6, <4>1 DEF Old
            <4>3. r[i].ts \in Int
                <5>1. r[i] \in Entry
                    BY <1>1, <4>1
                <5> QED BY <5>1, Constants DEF Entry
            <4> QED BY <1>3, <4>2, <4>3
        <3> QED BY <3>1, <3>2
    <2> QED BY <2>1 DEF Old
<1>9. d + e < Len(r) => r[d + e + 1].ts >= cutoff
    <2> SUFFICES ASSUME d + e < Len(r) PROVE r[d + e + 1].ts >= cutoff
        OBVIOUS
    <2>1. e < Len(w) /\ e + 1 \in 1..Len(w) /\ d + (e + 1) = d + e + 1
        BY <1>6
    <2> QED BY <1>5, <1>6, <2>1
<1>10. Kept(k, time) = s
    BY DEF Kept, s, w, cutoff
<1>11. d + e \in Nat
    OBVIOUS
<1> QED BY <1>4, <1>7, <1>8, <1>9, <1>10, <1>11 DEF r, old, cutoff

(* What entries count, all of them or those not older than the cutoff.     *)
RecentOf(r, cutoff) ==
    SumOf([i \in DOMAIN r |-> IF r[i].ts >= cutoff THEN r[i].n ELSE 0])

LEMMA RecentIs == \A k \in KindSet : Recent(k) = RecentOf(recorded[k], now - Duration[k])
BY DEF Recent, RecentOf

LEMMA Amounts ==
    ASSUME NEW r \in Seq(Entry), NEW cutoff \in Int
    PROVE  /\ [i \in DOMAIN r |-> r[i].n] \in Seq(Nat)
           /\ [i \in DOMAIN r |-> IF r[i].ts >= cutoff THEN r[i].n ELSE 0] \in Seq(Nat)
           /\ \A i \in 1..Len(r) : r[i].ts \in Int /\ r[i].n \in Nat
           /\ RecentOf(r, cutoff) \in Nat /\ Total(r) \in Nat
<1>1. ASSUME NEW i \in 1..Len(r) PROVE r[i].ts \in Int /\ r[i].n \in Nat
    <2>1. r[i] \in Entry
        OBVIOUS
    <2> QED BY <2>1, Constants DEF Entry
<1> DEFINE a == [i \in DOMAIN r |-> r[i].n]
           b == [i \in DOMAIN r |-> IF r[i].ts >= cutoff THEN r[i].n ELSE 0]
<1>2. DOMAIN r = 1..Len(r) /\ Len(r) \in Nat
    OBVIOUS
<1>3. a \in Seq(Nat)
    BY <1>1, <1>2
<1>4. b \in Seq(Nat)
    BY <1>1, <1>2
<1>5. SumOf(a) \in Nat /\ SumOf(b) \in Nat
    BY <1>3, <1>4, SumType
<1> QED BY <1>1, <1>3, <1>4, <1>5 DEF RecentOf, Total

(* Whoever drops only old entries still counts all recent ones, and        *)
(* nothing else if what is left begins with the recent ones, in order.     *)
LEMMA CountsAll ==
    ASSUME NEW r \in Seq(Entry), NEW w \in Seq(Entry), NEW d \in Nat, NEW cutoff \in Int,
           Behind(w, r, d), Old(r, d, cutoff)
    PROVE  /\ RecentOf(r, cutoff) <= Total(w)
           /\ (\A i \in 1..Len(w) : w[i].ts >= cutoff) => RecentOf(r, cutoff) = Total(w)
<1> DEFINE a == [i \in DOMAIN r |-> IF r[i].ts >= cutoff THEN r[i].n ELSE 0]
           b == [i \in DOMAIN w |-> w[i].n]
<1>1. /\ a \in Seq(Nat) /\ b \in Seq(Nat)
      /\ \A i \in 1..Len(r) : r[i].ts \in Int /\ r[i].n \in Nat
    BY Amounts
<1>2. /\ Len(a) = Len(r) /\ Len(b) = Len(w) /\ Len(r) = d + Len(w)
      /\ Len(r) \in Nat /\ Len(w) \in Nat
      /\ \A i \in 1..Len(r) : a[i] = IF r[i].ts >= cutoff THEN r[i].n ELSE 0
      /\ \A i \in 1..Len(w) : b[i] = w[i].n /\ w[i] = r[d + i]
    BY DEF Behind
<1>3. SumOf(a) = RecentOf(r, cutoff) /\ SumOf(b) = Total(w)
    BY DEF RecentOf, Total
<1> HIDE DEF a, b
<1>4. ASSUME NEW i \in 1..d PROVE a[i] = 0
    <2>1. i \in 1..Len(r) /\ r[i].ts < cutoff
        BY <1>2 DEF Old
    <2>2. ~(r[i].ts >= cutoff)
        BY <1>1, <2>1
    <2> QED BY <1>2, <2>1, <2>2
<1>5. ASSUME NEW i \in 1..Len(w)
      PROVE  a[d + i] <= b[i] /\ (w[i].ts >= cutoff => a[d + i] = b[i])
    <2> DEFINE j == d + i
    <2>1. j \in 1..Len(r)
        BY <1>2
    <2> HIDE DEF j
    <2>2. b[i] = r[j].n /\ w[i] = r[j] /\ a[j] = (IF r[j].ts >= cutoff THEN r[j].n ELSE 0)
        BY <1>2, <2>1, Zenon DEF j
    <2>3. r[j].n \in Nat
        BY <1>1, <2>1
    <2>4. a[j] <= b[i] /\ (w[i].ts >= cutoff => a[j] = b[i])
        BY <2>2, <2>3
    <2> QED BY <2>4 DEF j
<1>6. Under(a, b, d)
    BY <1>2, <1>4, <1>5 DEF Under
<1>7. SumOf(a) <= SumOf(b) /\ (Exactly(a, b, d) => SumOf(a) = SumOf(b))
    BY <1>1, <1>6, SumUnder
<1>8. (\A i \in 1..Len(w) : w[i].ts >= cutoff) => Exactly(a, b, d)
    BY <1>2, <1>5 DEF Exactly
<1> QED BY <1>3, <1>7, <1>8

LEMMA WindowsCount == TypeInv /\ HistInv => WindowCounts
<1> SUFFICES ASSUME TypeInv, HistInv, NEW k \in KindSet
             PROVE  /\ Total(Kept(k, now)) >= Recent(k)
                    /\ InOrder(recorded[k]) => Total(Kept(k, now)) = Recent(k)
    BY DEF WindowCounts
<1> DEFINE w == Kept(k, now)
           r == recorded[k]
           cutoff == now - Duration[k]
<1>1. now \in Nat /\ r \in Seq(Entry) /\ Duration[k] \in Nat /\ cutoff \in Int
    BY Constants DEF TypeInv, TypeOK, HistInv
<1>2. w \in Seq(Entry)
    BY <1>1, KeptBehind
<1>3. PICK d \in Nat : /\ Behind(w, r, d) /\ Old(r, d, cutoff)
                       /\ d < Len(r) => r[d + 1].ts >= cutoff
    BY <1>1, KeptBehind
<1>4. Recent(k) = RecentOf(r, cutoff)
    BY RecentIs
<1> HIDE DEF w, r, cutoff
<1>5. /\ RecentOf(r, cutoff) <= Total(w)
      /\ (\A i \in 1..Len(w) : w[i].ts >= cutoff) => RecentOf(r, cutoff) = Total(w)
    BY <1>1, <1>2, <1>3, CountsAll
<1>6. RecentOf(r, cutoff) \in Nat /\ Total(w) \in Nat
      /\ \A i \in 1..Len(r) : r[i].ts \in Int
    BY <1>1, <1>2, Amounts
<1>7. ASSUME InOrder(r), NEW i \in 1..Len(w) PROVE w[i].ts >= cutoff
    <2>1. Len(r) = d + Len(w) /\ w[i] = r[d + i] /\ Len(w) \in Nat
        BY <1>2, <1>3 DEF Behind
    <2> DEFINE j == d + i
               f == d + 1
    <2>2. j \in 1..Len(r) /\ f \in 1..Len(r) /\ (f < j \/ f = j) /\ d < Len(r)
        BY <2>1
    <2>3. r[f].ts >= cutoff
        BY <1>3, <2>2
    <2>5. DOMAIN r = 1..Len(r)
        BY <1>1
    <2>6. w[i] = r[j]
        BY <2>1
    <2> HIDE DEF j, f
    <2>4. r[f].ts <= r[j].ts
        BY <1>6, <1>7, <2>2, <2>5, SMTT(60) DEF InOrder
    <2>7. r[f].ts \in Int /\ r[j].ts \in Int
        BY <1>6, <2>2
    <2> QED BY <1>1, <2>3, <2>4, <2>6, <2>7
<1> QED BY <1>4, <1>5, <1>6, <1>7 DEF w, r

LEMMA HistInit == Init => HistInv
<1> SUFFICES ASSUME Init PROVE HistInv
    OBVIOUS
<1>1. recorded \in [KindSet -> Seq(Entry)]
    BY DEF Init
<1>2. \A c \in Callers : caller[c].ts <= now
    BY DEF Init, IdleCaller
<1>3. ASSUME NEW k \in KindSet
      PROVE  Behind(window[k], recorded[k], 0) /\ Old(recorded[k], 0, now - Duration[k])
    <2>1. window[k] = <<>> /\ recorded[k] = <<>>
        BY <1>3 DEF Init
    <2> QED BY <2>1 DEF Behind, Old
<1> QED BY <1>1, <1>2, <1>3 DEF HistInv

(* A caller's clock is one it has read.                                    *)
LEMMA ClocksRead ==
    ASSUME TypeInv, HistInv, NEW c \in Callers, NEW s, s.ts <= now', now <= now', now' \in Nat,
           caller' = [caller EXCEPT ![c] = s] \/ caller' = caller
    PROVE  \A d \in Callers : caller'[d].ts <= now'
<1>1. caller \in [Callers -> Caller] /\ now \in Nat /\ \A d \in Callers : caller[d].ts <= now
    BY Constants DEF TypeInv, TypeOK, HistInv
<1>2. ASSUME NEW d \in Callers PROVE caller'[d].ts <= now'
    <2>1. caller[d].ts \in Nat /\ caller[d].ts <= now
        BY <1>1, CallerState
    <2>2. caller'[d] = s \/ caller'[d] = caller[d]
        BY <1>1
    <2> QED BY <1>1, <2>1, <2>2
<1> QED BY <1>2

(* A window grows by what is recorded in it, and is pruned of old entries. *)
LEMMA Grows ==
    ASSUME NEW w \in Seq(Entry), NEW r \in Seq(Entry), NEW e \in Entry, NEW d \in Nat,
           NEW cutoff \in Int, Behind(w, r, d), Old(r, d, cutoff)
    PROVE  Behind(Append(w, e), Append(r, e), d) /\ Old(Append(r, e), d, cutoff)
<1> DEFINE u == Append(w, e)
           v == Append(r, e)
<1>1. /\ Len(r) = d + Len(w) /\ Len(u) = Len(w) + 1 /\ Len(v) = Len(r) + 1
      /\ Len(r) \in Nat /\ Len(w) \in Nat
      /\ \A i \in 1..Len(w) : u[i] = w[i] /\ w[i] = r[d + i]
      /\ \A i \in 1..Len(r) : v[i] = r[i]
      /\ u[Len(w) + 1] = e /\ v[Len(r) + 1] = e
    <2>1. /\ Len(u) = Len(w) + 1 /\ Len(w) \in Nat /\ u[Len(w) + 1] = e
          /\ \A i \in 1..Len(w) : u[i] = w[i]
        OBVIOUS
    <2>2. /\ Len(v) = Len(r) + 1 /\ Len(r) \in Nat /\ v[Len(r) + 1] = e
          /\ \A i \in 1..Len(r) : v[i] = r[i]
        OBVIOUS
    <2> QED BY <2>1, <2>2, Zenon DEF Behind
<1> HIDE DEF u, v
<1>2. ASSUME NEW i \in 1..Len(u) PROVE u[i] = v[d + i]
    <2>1. CASE i <= Len(w)
        <3>1. i \in 1..Len(w) /\ d + i \in 1..Len(r)
            <4>1. Len(r) = d + Len(w) /\ Len(w) \in Nat /\ Len(u) = Len(w) + 1
                BY <1>1
            <4> QED BY <2>1, <4>1
        <3>2. v[d + i] = r[d + i]
            BY <1>1, <3>1, Zenon
        <3>3. u[i] = w[i] /\ w[i] = r[d + i]
            BY <1>1, <3>1, Zenon
        <3> QED BY <3>2, <3>3
    <2>2. CASE i > Len(w)
        <3>1. i = Len(w) + 1 /\ d + i = Len(r) + 1
            <4>1. Len(r) = d + Len(w) /\ Len(w) \in Nat /\ Len(u) = Len(w) + 1
                BY <1>1
            <4> QED BY <2>2, <4>1
        <3> QED BY <1>1, <3>1, Zenon
    <2> QED BY <1>1, <2>1, <2>2
<1>3. Behind(u, v, d)
    BY <1>1, <1>2 DEF Behind
<1>4. Old(v, d, cutoff)
    <2>1. ASSUME NEW i \in 1..d PROVE v[i].ts < cutoff
        <3>1. i \in 1..Len(r)
            BY <1>1
        <3>2. v[i] = r[i] /\ r[i].ts < cutoff
            BY <1>1, <3>1 DEF Old
        <3> QED BY <3>2
    <2> QED BY <2>1 DEF Old
<1> QED BY <1>3, <1>4 DEF u, v

LEMMA OldAges ==
    ASSUME NEW r \in Seq(Entry), NEW d \in Nat, d <= Len(r), NEW cutoff \in Int,
           NEW later \in Int, cutoff <= later, Old(r, d, cutoff)
    PROVE  Old(r, d, later)
<1> SUFFICES ASSUME NEW i \in 1..d PROVE r[i].ts < later
    BY DEF Old
<1>1. i \in 1..Len(r)
    OBVIOUS
<1>2. r[i].ts \in Int /\ r[i].ts < cutoff
    BY <1>1, Amounts DEF Old
<1> QED BY <1>2

LEMMA HistStep == TypeInv /\ HistInv /\ [Next]_vars => HistInv'
<1> SUFFICES ASSUME TypeInv, HistInv, [Next]_vars PROVE HistInv'
    OBVIOUS
<1> USE DEF HistInv
<1>0. /\ now \in Nat /\ recorded \in [KindSet -> Seq(Entry)] /\ window \in [KindSet -> Seq(Entry)]
      /\ \A c \in Callers : caller[c].ts <= now
    BY Constants DEF TypeInv, TypeOK
<1>1. ASSUME NEW c \in Callers, NEW s, s.ts <= now, UNCHANGED <<now, window, recorded>>,
             caller' = [caller EXCEPT ![c] = s] \/ caller' = caller
      PROVE  HistInv'
    <2>1. \A d \in Callers : caller'[d].ts <= now'
        BY <1>0, <1>1, ClocksRead
    <2> QED BY <1>0, <1>1, <2>1
<1>2. ASSUME NEW c \in Callers, Ask(c) PROVE HistInv'
    <2> DEFINE s == [pc |-> "ask", ts |-> now, i |-> 1]
    <2>1. caller' = [caller EXCEPT ![c] = s] /\ UNCHANGED <<now, window, recorded>> /\ s.ts = now
        BY <1>2 DEF Ask
    <2> HIDE DEF s
    <2>2. s.ts <= now
        BY <1>0, <2>1
    <2> QED BY <1>1, <2>1, <2>2
<1>3. ASSUME NEW c \in Callers, CheckWindow(c) PROVE HistInv'
    <2> DEFINE i == caller[c].i
               k == Kinds[i]
               time == caller[c].ts
               kept == Kept(k, time)
               s == IF Exceeds(k, Total(kept)) THEN IdleCaller ELSE Passed(caller[c])
    <2>0. i \in 1..Len(Kinds) /\ k \in KindSet
        BY <1>3, CallerState, Constants DEF CheckWindow, CallerFits
    <2>1. i \in 1..Len(Kinds) /\ k \in KindSet /\ time \in Nat /\ time <= now
        BY <1>0, <2>0, CallerState
    <2>2. caller' = [caller EXCEPT ![c] = s] /\ window' = [window EXCEPT ![k] = kept]
          /\ UNCHANGED <<now, recorded>>
        BY <1>3 DEF CheckWindow
    <2>3. s.ts <= now
        <3>1. IdleCaller.ts = 0 /\ Passed(caller[c]).ts = time
            BY CallerState DEF IdleCaller, Passed, Caller
        <3> QED BY <1>0, <2>1, <3>1
    <2> HIDE DEF s
    <2>4. \A d \in Callers : caller'[d].ts <= now'
        BY <1>0, <2>2, <2>3, ClocksRead
    <2>5. \E d \in Nat : Behind(kept, recorded[k], d) /\ Old(recorded[k], d, now - Duration[k])
        BY <2>1, KeptBehind
    <2> HIDE DEF kept, k
    <2>6. ASSUME NEW j \in KindSet
          PROVE  \E d \in Nat : /\ Behind(window'[j], recorded'[j], d)
                                /\ Old(recorded'[j], d, now' - Duration[j])
        <3>1. CASE j = k
            <4>1. window'[j] = kept
                BY <1>0, <2>1, <2>2, <3>1
            <4> QED BY <2>2, <2>5, <3>1, <4>1
        <3>2. CASE j # k
            <4>1. window'[j] = window[j]
                BY <1>0, <2>1, <2>2, <3>2
            <4> QED BY <2>2, <4>1
        <3> QED BY <3>1, <3>2
    <2> QED BY <1>0, <2>2, <2>4, <2>6
<1>4. ASSUME NEW c \in Callers, AskTokens(c) PROVE HistInv'
    <2> DEFINE s == [caller[c] EXCEPT !.pc = "ask", !.ts = now]
    <2>1. caller' = [caller EXCEPT ![c] = s] /\ s.ts = now /\ UNCHANGED <<now, window, recorded>>
        BY <1>4, CallerState DEF AskTokens, Caller
    <2> HIDE DEF s
    <2>2. s.ts <= now
        BY <1>0, <2>1
    <2> QED BY <1>1, <2>1, <2>2
<1>5. ASSUME NEW c \in Callers, Forwarded(c) PROVE HistInv'
    <2> DEFINE s == [pc |-> "record", ts |-> now, i |-> 1]
    <2>1. caller' = [caller EXCEPT ![c] = s] /\ UNCHANGED <<now, window, recorded>> /\ s.ts = now
        BY <1>5 DEF Forwarded
    <2> HIDE DEF s
    <2>2. s.ts <= now
        BY <1>0, <2>1
    <2> QED BY <1>1, <2>1, <2>2
<1>6. ASSUME NEW c \in Callers, RecordWindow(c) PROVE HistInv'
    <2> DEFINE i == caller[c].i
               k == Kinds[i]
               entry == [ts |-> caller[c].ts, n |-> Cost[k]]
               more == [caller[c] EXCEPT !.pc = IF i = RequestKinds THEN "quota" ELSE "record",
                                         !.i = i + 1]
               s == IF i = Len(Kinds) THEN IdleCaller ELSE more
    <2>1. i \in 1..Len(Kinds) /\ k \in KindSet
        BY <1>6, CallerState, Constants DEF RecordWindow, CallerFits
    <2>2. entry \in Entry
        BY <2>1, CallerState, Constants DEF Entry
    <2>3. /\ window' = [window EXCEPT ![k] = Append(@, entry)]
          /\ recorded' = [recorded EXCEPT ![k] = Append(@, entry)]
          /\ caller' = [caller EXCEPT ![c] = s] /\ UNCHANGED now
        BY <1>6 DEF RecordWindow
    <2>4. s.ts <= now
        <3>1. IdleCaller.ts = 0 /\ more.ts = caller[c].ts
            BY CallerState DEF IdleCaller, Caller
        <3> HIDE DEF more
        <3> QED BY <1>0, <3>1
    <2> HIDE DEF s, entry, k
    <2>5. \A d \in Callers : caller'[d].ts <= now'
        BY <1>0, <2>3, <2>4, ClocksRead
    <2>6. recorded' \in [KindSet -> Seq(Entry)]
        BY <1>0, <2>1, <2>2, <2>3
    <2>7. ASSUME NEW j \in KindSet
          PROVE  \E d \in Nat : /\ Behind(window'[j], recorded'[j], d)
                                /\ Old(recorded'[j], d, now' - Duration[j])
        <3>1. CASE j = k
            <4>1. window'[j] = Append(window[j], entry) /\ recorded'[j] = Append(recorded[j], entry)
                BY <1>0, <2>1, <2>3, <3>1
            <4>2. PICK d \in Nat : /\ Behind(window[j], recorded[j], d)
                                   /\ Old(recorded[j], d, now - Duration[j])
                OBVIOUS
            <4>3. now - Duration[j] \in Int /\ window[j] \in Seq(Entry) /\ recorded[j] \in Seq(Entry)
                BY <1>0, Constants
            <4>4. /\ Behind(Append(window[j], entry), Append(recorded[j], entry), d)
                  /\ Old(Append(recorded[j], entry), d, now - Duration[j])
                BY <2>2, <4>2, <4>3, Grows
            <4> QED BY <2>3, <4>1, <4>4
        <3>2. CASE j # k
            <4>1. window'[j] = window[j] /\ recorded'[j] = recorded[j]
                BY <1>0, <2>1, <2>3, <3>2
            <4> QED BY <2>3, <4>1
        <3> QED BY <3>1, <3>2
    <2> QED BY <2>5, <2>6, <2>7
<1>7. ASSUME NEW c \in Callers, RecordQuota(c) PROVE HistInv'
    <2> DEFINE s == [caller[c] EXCEPT !.pc = "record"]
    <2>1. caller' = [caller EXCEPT ![c] = s] /\ s.ts = caller[c].ts
          /\ UNCHANGED <<now, window, recorded>>
        BY <1>7, CallerState DEF RecordQuota, Caller
    <2> HIDE DEF s
    <2>2. s.ts <= now
        BY <1>0, <2>1
    <2> QED BY <1>1, <2>1, <2>2
<1>8. CASE Tick
    <2>1. now' = now + 1 /\ UNCHANGED <<window, recorded, caller>>
        BY <1>8 DEF Tick
    <2>2. ASSUME NEW d \in Callers PROVE caller'[d].ts <= now'
        <3>1. caller[d].ts \in Nat /\ caller[d].ts <= now
            BY <1>0, CallerState
        <3> QED BY <1>0, <2>1, <3>1
    <2>3. ASSUME NEW j \in KindSet
          PROVE  \E d \in Nat : /\ Behind(window'[j], recorded'[j], d)
                                /\ Old(recorded'[j], d, now' - Duration[j])
        <3>1. PICK d \in Nat : /\ Behind(window[j], recorded[j], d)
                               /\ Old(recorded[j], d, now - Duration[j])
            OBVIOUS
        <3>2. Len(recorded[j]) = d + Len(window[j]) /\ Len(window[j]) \in Nat /\ Duration[j] \in Nat
              /\ recorded[j] \in Seq(Entry)
            BY <1>0, <3>1, Constants DEF Behind
        <3>3. now - Duration[j] \in Int /\ now' - Duration[j] \in Int
              /\ now - Duration[j] <= now' - Duration[j] /\ d <= Len(recorded[j])
            BY <1>0, <2>1, <3>2
        <3>4. Old(recorded[j], d, now' - Duration[j])
            BY <3>1, <3>2, <3>3, OldAges
        <3> QED BY <2>1, <3>1, <3>4
    <2> QED BY <1>0, <2>1, <2>2, <2>3
<1>9. CASE Hit429 \/ AdminClears \/ UNCHANGED vars
    <2>1. UNCHANGED <<now, window, recorded, caller>>
        BY <1>9 DEF Hit429, AdminClears, vars
    <2> QED BY <1>0, <2>1
<1> QED BY <1>2, <1>3, <1>4, <1>5, <1>6, <1>7, <1>8, <1>9, Zenon DEF Next

(* A window never counts less than was recorded within its length, however *)
(* callers interleave, and no more unless they have appended out of order  *)
(* (window.go:43-90).                                                      *)
THEOREM WindowsAreTrue == Spec => []WindowCounts
<1> QED BY TypeInit, TypeStep, HistInit, HistStep, WindowsCount, PTL DEF Spec

-----------------------------------------------------------------------------
(* How far a window overshoots: those let in who have not recorded in it   *)

(* A caller that has been let in by window j and has not recorded in it.   *)
Waits(s, j) ==
    \/ s.pc \in {"ask", "tokens"} /\ j < s.i
    \/ s.pc = "granted"
    \/ s.pc \in {"record", "quota"} /\ s.i <= j
Pending(f, j) == {c \in Callers : Waits(f[c], j)}

Within(k, sum, waiting) ==
    sum + Cost[k] * waiting <= Limit[k] + (Cardinality(Callers) - 1) * Cost[k]

OverInv ==
    \A j \in 1..Len(Kinds) : Within(Kinds[j], Recent(Kinds[j]), Cardinality(Pending(caller, j)))

LEMMA Product ==
    ASSUME NEW c \in Nat, NEW p \in Nat, NEW q \in Nat, p <= q
    PROVE  c * p <= c * q /\ c * p \in Nat /\ c * (p + 1) = c * p + c /\ (p - 1) * c = c * p - c
<1>1. PICK r \in Nat : q = p + r
    <2>1. q - p \in Nat /\ q = p + (q - p)
        OBVIOUS
    <2> QED BY <2>1
<1>2. c * q = c * p + c * r
    BY <1>1
<1>3. c * p \in Nat /\ c * r \in Nat
    OBVIOUS
<1>4. c * p <= c * p + c * r
    BY <1>3
<1> QED BY <1>2, <1>3, <1>4

LEMMA Sizes ==
    /\ IsFiniteSet(Callers) /\ Cardinality(Callers) \in Nat
    /\ \A f, j : /\ IsFiniteSet(Pending(f, j)) /\ Cardinality(Pending(f, j)) \in Nat
              /\ Cardinality(Pending(f, j)) <= Cardinality(Callers)
<1>1. IsFiniteSet(Callers) /\ Cardinality(Callers) \in Nat
    BY ThrottleAssumption, FS_CardinalityType
<1>2. ASSUME NEW f, NEW j
      PROVE  /\ IsFiniteSet(Pending(f, j)) /\ Cardinality(Pending(f, j)) \in Nat
             /\ Cardinality(Pending(f, j)) <= Cardinality(Callers)
    <2>1. Pending(f, j) \in SUBSET Callers
        BY DEF Pending
    <2>2. IsFiniteSet(Pending(f, j)) /\ Cardinality(Pending(f, j)) <= Cardinality(Callers)
        BY <1>1, <2>1, FS_Subset
    <2> QED BY <2>2, FS_CardinalityType
<1> QED BY <1>1, <1>2

LEMMA Money ==
    ASSUME NEW k \in KindSet
    PROVE  Cost[k] \in Nat /\ Cost[k] > 0 /\ Limit[k] \in Nat /\ Cost[k] <= Limit[k]
BY ThrottleAssumption

(* Fewer who wait and less that counts stays within.                       *)
LEMMA LessIsWithin ==
    ASSUME NEW k \in KindSet, NEW sum \in Nat, NEW waiting \in Nat, Within(k, sum, waiting),
           NEW less \in Nat, less <= sum, NEW fewer \in Nat, fewer <= waiting
    PROVE  Within(k, less, fewer)
<1> DEFINE c == Cost[k]
           bound == Limit[k] + (Cardinality(Callers) - 1) * c
<1>1. c \in Nat /\ bound \in Int
    BY Money, Sizes
<1>2. c * fewer <= c * waiting /\ c * fewer \in Nat /\ c * waiting \in Nat
    BY <1>1, Product
<1>3. sum + c * waiting <= bound
    BY DEF Within
<1> DEFINE x == c * fewer
           y == c * waiting
<1> HIDE DEF x, y, bound, c
<1>4. x <= y /\ x \in Nat /\ y \in Nat /\ sum + y <= bound
    BY <1>2, <1>3 DEF x, y
<1>5. less + x <= bound
    BY <1>1, <1>4
<1> QED BY <1>5 DEF Within, x, bound, c

(* Who records is one less who waits.                                      *)
LEMMA RecordedIsWithin ==
    ASSUME NEW k \in KindSet, NEW sum \in Nat, NEW waiting \in Nat, Within(k, sum, waiting + 1),
           NEW more \in Nat, more <= sum + Cost[k]
    PROVE  Within(k, more, waiting)
<1> DEFINE c == Cost[k]
           bound == Limit[k] + (Cardinality(Callers) - 1) * c
           x == c * waiting
           y == c * (waiting + 1)
<1>1. c \in Nat /\ bound \in Int
    BY Money, Sizes
<1>2. x \in Nat /\ y = x + c
    <2>1. waiting <= waiting
        OBVIOUS
    <2> HIDE DEF c
    <2> QED BY <1>1, <2>1, Product
<1>3. sum + y <= bound
    BY DEF Within
<1> HIDE DEF x, y, bound
<1>4. more + x <= bound
    BY <1>1, <1>2, <1>3
<1> QED BY <1>4 DEF Within, x, bound

(* Whoever is let in leaves room for itself, and all may wait.             *)
LEMMA RoomIsWithin ==
    ASSUME NEW k \in KindSet, NEW sum \in Nat, sum + Cost[k] <= Limit[k],
           NEW waiting \in Nat, waiting <= Cardinality(Callers)
    PROVE  Within(k, sum, waiting)
<1> DEFINE c == Cost[k]
           n == Cardinality(Callers)
           l == Limit[k]
           x == c * waiting
           y == c * n
<1>1. c \in Nat /\ l \in Nat /\ n \in Nat
    BY Money, Sizes
<1>2. x <= y /\ x \in Nat /\ y \in Nat /\ (n - 1) * c = y - c
    BY <1>1, Product
<1>3. sum + c <= l
    OBVIOUS
<1> DEFINE z == (n - 1) * c
<1> HIDE DEF x, y, z, c, l, n
<1>4. sum + x <= l + z
    BY <1>1, <1>2, <1>3 DEF z
<1> QED BY <1>4 DEF Within, x, z, c, l, n

LEMMA BoundKept == TypeInv /\ HistInv /\ OverInv => OvershootBounded
<1> SUFFICES ASSUME TypeInv, HistInv, OverInv, NEW k \in KindSet
             PROVE  Recent(k) <= Limit[k] + (Cardinality(Callers) - 1) * Cost[k]
    BY DEF OvershootBounded
<1>1. PICK j \in 1..Len(Kinds) : k = Kinds[j]
    BY Constants DEF KindSet
<1>2. Within(k, Recent(k), Cardinality(Pending(caller, j))) /\ Cardinality(Pending(caller, j)) \in Nat
    BY <1>1, Sizes DEF OverInv
<1>3. Recent(k) \in Nat
    <2>1. recorded[k] \in Seq(Entry) /\ now - Duration[k] \in Int
        BY Constants DEF TypeInv, TypeOK, HistInv
    <2> QED BY <2>1, RecentIs, Amounts
<1>4. Within(k, Recent(k), 0)
    BY <1>2, <1>3, LessIsWithin
<1>5. Cost[k] * 0 = 0
    BY Money
<1> DEFINE bound == Limit[k] + (Cardinality(Callers) - 1) * Cost[k]
<1>6. Recent(k) + Cost[k] * 0 <= bound
    BY <1>4 DEF Within
<1> HIDE DEF bound
<1>7. Recent(k) <= bound
    BY <1>3, <1>5, <1>6
<1> QED BY <1>7 DEF bound

LEMMA OverInit == Init => OverInv
<1> SUFFICES ASSUME Init, NEW j \in 1..Len(Kinds)
             PROVE  Within(Kinds[j], Recent(Kinds[j]), Cardinality(Pending(caller, j)))
    BY DEF OverInv
<1> DEFINE k == Kinds[j]
<1>1. k \in KindSet
    BY Constants
<1> HIDE DEF k
<1>2. Recent(k) = 0
    <2>1. recorded[k] = <<>> /\ <<>> \in Seq(Nat) /\ Len(<<>>) = 0
        BY <1>1 DEF Init
    <2> DEFINE a == [i \in DOMAIN recorded[k] |->
                        IF recorded[k][i].ts >= now - Duration[k] THEN recorded[k][i].n ELSE 0]
    <2>2. a = <<>>
        BY <2>1
    <2> HIDE DEF a
    <2>3. SumOf(a) = 0
        BY <2>1, <2>2, SumNone
    <2> QED BY <2>3 DEF Recent, a
<1>3. 0 + Cost[k] <= Limit[k] /\ 0 \in Nat
    BY <1>1, Money
<1> QED BY <1>1, <1>2, <1>3, Sizes, RoomIsWithin DEF k

LEMMA RecentAges ==
    ASSUME NEW r \in Seq(Entry), NEW cutoff \in Int, NEW later \in Int, cutoff <= later
    PROVE  RecentOf(r, later) <= RecentOf(r, cutoff)
<1> DEFINE a == [i \in DOMAIN r |-> IF r[i].ts >= later THEN r[i].n ELSE 0]
           b == [i \in DOMAIN r |-> IF r[i].ts >= cutoff THEN r[i].n ELSE 0]
<1>1. a \in Seq(Nat) /\ b \in Seq(Nat) /\ \A i \in 1..Len(r) : r[i].ts \in Int /\ r[i].n \in Nat
    BY Amounts
<1>2. SumOf(a) = RecentOf(r, later) /\ SumOf(b) = RecentOf(r, cutoff)
    BY DEF RecentOf
<1>3. /\ Len(a) = Len(r) /\ Len(b) = Len(r) /\ Len(r) \in Nat
      /\ \A i \in 1..Len(r) : /\ a[i] = IF r[i].ts >= later THEN r[i].n ELSE 0
                              /\ b[i] = IF r[i].ts >= cutoff THEN r[i].n ELSE 0
    OBVIOUS
<1> HIDE DEF a, b
<1>4. ASSUME NEW i \in 1..Len(r) PROVE a[0 + i] <= b[i]
    <2>1. r[i].ts \in Int /\ r[i].n \in Nat /\ 0 + i = i
        BY <1>1
    <2>2. CASE r[i].ts >= later
        <3>1. r[i].ts >= cutoff
            BY <2>1, <2>2
        <3> QED BY <1>3, <2>1, <2>2, <3>1
    <2>3. CASE ~(r[i].ts >= later)
        <3>1. a[i] = 0 /\ b[i] \in Nat
            BY <1>3, <2>1, <2>3
        <3> QED BY <2>1, <3>1
    <2> QED BY <2>2, <2>3
<1>5. Under(a, b, 0)
    BY <1>3, <1>4 DEF Under
<1> QED BY <1>1, <1>2, <1>5, SumUnder

LEMMA RecentMore ==
    ASSUME NEW r \in Seq(Entry), NEW e \in Entry, NEW cutoff \in Int
    PROVE  RecentOf(Append(r, e), cutoff) <= RecentOf(r, cutoff) + e.n
<1> DEFINE v == Append(r, e)
           a == [i \in DOMAIN r |-> IF r[i].ts >= cutoff THEN r[i].n ELSE 0]
           b == [i \in DOMAIN v |-> IF v[i].ts >= cutoff THEN v[i].n ELSE 0]
<1>1. /\ v \in Seq(Entry) /\ Len(v) = Len(r) + 1 /\ Len(r) \in Nat
      /\ v[Len(v)] = e /\ \A i \in 1..Len(r) : v[i] = r[i]
    OBVIOUS
<1> HIDE DEF v
<1>2. a \in Seq(Nat) /\ b \in Seq(Nat)
    BY <1>1, Amounts
<1>3. SumOf(a) = RecentOf(r, cutoff) /\ SumOf(b) = RecentOf(v, cutoff)
    BY DEF RecentOf
<1>4. /\ Len(a) = Len(r) /\ Len(b) = Len(v)
      /\ \A i \in 1..Len(r) : a[i] = IF r[i].ts >= cutoff THEN r[i].n ELSE 0
      /\ \A i \in 1..Len(v) : b[i] = IF v[i].ts >= cutoff THEN v[i].n ELSE 0
    BY <1>1
<1> HIDE DEF a, b
<1>5. Len(b) = Len(a) + 1 /\ \A i \in 1..Len(a) : b[i] = a[i]
    BY <1>1, <1>4
<1>6. SumOf(b) = SumOf(a) + b[Len(b)] /\ SumOf(a) \in Nat
    BY <1>2, <1>5, SumMore, SumType
<1>7. b[Len(b)] \in Nat /\ b[Len(b)] <= e.n /\ e.n \in Nat
    <2>1. Len(v) \in 1..Len(v) /\ e.n \in Nat
        BY <1>1 DEF Entry
    <2>2. b[Len(v)] = IF e.ts >= cutoff THEN e.n ELSE 0
        BY <1>1, <1>4, <2>1
    <2> QED BY <1>4, <2>1, <2>2
<1> QED BY <1>3, <1>6, <1>7 DEF v

(* How the set of those who wait changes with one caller.                  *)
LEMMA PendingStep ==
    ASSUME TypeInv, NEW c \in Callers, NEW s, NEW g, g = [caller EXCEPT ![c] = s], NEW j,
           Waits(s, j) => Waits(caller[c], j)
    PROVE  Cardinality(Pending(g, j)) <= Cardinality(Pending(caller, j))
<1> DEFINE p == Pending(caller, j)
           q == Pending(g, j)
<1>1. \A d \in Callers : g[d] = IF d = c THEN s ELSE caller[d]
    BY DEF TypeInv, TypeOK
<1>2. IsFiniteSet(p) /\ Cardinality(p) \in Nat
    BY Sizes
<1>3. q \in SUBSET p
    BY <1>1 DEF Pending
<1> HIDE DEF p, q
<1>4. Cardinality(q) <= Cardinality(p)
    BY <1>2, <1>3, FS_Subset
<1> QED BY <1>4 DEF p, q

LEMMA OverStep == TypeInv /\ HistInv /\ OverInv /\ [Next]_vars => OverInv'
<1> SUFFICES ASSUME TypeInv, HistInv, OverInv, [Next]_vars PROVE OverInv'
    OBVIOUS
<1>0. /\ now \in Nat /\ recorded \in [KindSet -> Seq(Entry)]
      /\ \A c \in Callers : caller[c].ts <= now
      /\ \A j \in 1..Len(Kinds) : Kinds[j] \in KindSet
    BY Constants DEF TypeInv, TypeOK, HistInv
<1>1. ASSUME NEW k \in KindSet
      PROVE  /\ Recent(k) = RecentOf(recorded[k], now - Duration[k])
             /\ Recent(k)' = RecentOf(recorded'[k], now' - Duration[k])
             /\ recorded[k] \in Seq(Entry) /\ now - Duration[k] \in Int /\ Recent(k) \in Nat
    <2>1. recorded[k] \in Seq(Entry) /\ now - Duration[k] \in Int
        BY <1>0, Constants
    <2>2. Recent(k) = RecentOf(recorded[k], now - Duration[k])
        BY RecentIs
    <2>3. Recent(k)' = RecentOf(recorded'[k], now' - Duration[k])
        BY DEF Recent, RecentOf
    <2>4. RecentOf(recorded[k], now - Duration[k]) \in Nat
        BY <2>1, Amounts
    <2> QED BY <2>1, <2>2, <2>3, <2>4
<1>2. ASSUME \A j \in 1..Len(Kinds) :
                 Within(Kinds[j], Recent(Kinds[j])', Cardinality(Pending(caller', j)))
      PROVE  OverInv'
    BY <1>2 DEF OverInv
(* Nothing is recorded and nobody more waits at j.                         *)
<1>3. ASSUME NEW c \in Callers, NEW s, caller' = [caller EXCEPT ![c] = s],
             UNCHANGED <<now, recorded>>, NEW j \in 1..Len(Kinds), Waits(s, j) => Waits(caller[c], j)
      PROVE  Within(Kinds[j], Recent(Kinds[j])', Cardinality(Pending(caller', j)))
    <2> DEFINE k == Kinds[j]
               n == Cardinality(Pending(caller, j))
               m == Cardinality(Pending(caller', j))
    <2>1. k \in KindSet /\ Within(k, Recent(k), n)
        BY <1>0 DEF OverInv
    <2>2. n \in Nat /\ m \in Nat
        BY Sizes
    <2>3. m <= n
        BY <1>3, PendingStep
    <2> HIDE DEF k, n, m
    <2>4. Recent(k)' = Recent(k) /\ Recent(k) \in Nat
        BY <1>1, <1>3, <2>1
    <2>6. Recent(k) <= Recent(k)
        BY <2>4
    <2>5. Within(k, Recent(k), m)
        BY <2>1, <2>2, <2>3, <2>4, <2>6, LessIsWithin
    <2> QED BY <2>4, <2>5 DEF k, m
<1>4. ASSUME UNCHANGED <<caller, recorded>>, now <= now', now' \in Nat PROVE OverInv'
    <2>1. ASSUME NEW j \in 1..Len(Kinds)
          PROVE  Within(Kinds[j], Recent(Kinds[j])', Cardinality(Pending(caller', j)))
        <3> DEFINE k == Kinds[j]
                   n == Cardinality(Pending(caller, j))
        <3>1. k \in KindSet /\ Within(k, Recent(k), n) /\ n \in Nat
            BY <1>0, Sizes DEF OverInv
        <3>4. Cardinality(Pending(caller', j)) = n
            BY <1>4
        <3> HIDE DEF k, n
        <3> DEFINE r == recorded[k]
                   cutoff == now - Duration[k]
                   later == now' - Duration[k]
        <3>2. /\ r \in Seq(Entry) /\ cutoff \in Int /\ later \in Int /\ cutoff <= later
              /\ Recent(k) = RecentOf(r, cutoff) /\ Recent(k)' = RecentOf(r, later)
              /\ Recent(k) \in Nat
            <4>1. Duration[k] \in Nat
                BY <3>1, Constants
            <4>2. cutoff \in Int /\ later \in Int /\ cutoff <= later
                BY <1>0, <1>4, <4>1
            <4>3. recorded' = recorded
                BY <1>4
            <4>4. Recent(k)' = RecentOf(recorded'[k], now' - Duration[k])
                BY <1>1, <3>1
            <4>5. Recent(k) = RecentOf(r, cutoff) /\ r \in Seq(Entry) /\ Recent(k) \in Nat
                BY <1>1, <3>1
            <4>6. Recent(k)' = RecentOf(r, later)
                BY <4>3, <4>4, Zenon
            <4> QED BY <4>2, <4>5, <4>6
        <3> HIDE DEF r, cutoff, later
        <3>3. Recent(k)' <= Recent(k) /\ Recent(k)' \in Nat
            BY <3>2, RecentAges, Amounts
        <3>6. n <= n
            BY <3>1
        <3>5. Within(k, Recent(k)', n)
            BY <3>1, <3>2, <3>3, <3>6, LessIsWithin
        <3> QED BY <3>4, <3>5 DEF k
    <2> QED BY <1>2, <2>1
<1>5. ASSUME NEW c \in Callers, Ask(c) PROVE OverInv'
    <2> DEFINE s == [pc |-> "ask", ts |-> now, i |-> 1]
    <2>1. caller' = [caller EXCEPT ![c] = s] /\ UNCHANGED <<now, recorded>>
        BY <1>5 DEF Ask
    <2>2. ASSUME NEW j \in 1..Len(Kinds) PROVE ~Waits(s, j)
        <3>1. ~(j < 1)
            OBVIOUS
        <3> QED BY <3>1 DEF Waits
    <2> HIDE DEF s
    <2> QED BY <1>2, <1>3, <2>1, <2>2
<1>6. ASSUME NEW c \in Callers, CheckWindow(c) PROVE OverInv'
    <2> DEFINE i == caller[c].i
               k == Kinds[i]
               time == caller[c].ts
               kept == Kept(k, time)
               passed == Passed(caller[c])
    <2>1. i \in 1..Len(Kinds) /\ k \in KindSet
        BY <1>6, CallerState, Constants DEF CheckWindow, CallerFits
    <2>2. time \in Nat /\ time <= now /\ caller[c].pc = "ask"
        BY <1>0, <1>6, CallerState DEF CheckWindow
    <2>3. /\ caller' = [caller EXCEPT ![c] = IF Exceeds(k, Total(kept)) THEN IdleCaller ELSE passed]
          /\ UNCHANGED <<now, recorded>>
        BY <1>6 DEF CheckWindow
    <2>4. passed.pc = AfterCheck(i) /\ passed.i = i + 1
        BY CallerState DEF Caller, Passed
    <2>5. ASSUME NEW j \in 1..Len(Kinds), j # i, Waits(passed, j) PROVE Waits(caller[c], j)
        <3>1. j < i
            <4>1. CASE i = Len(Kinds)
                <5>1. Len(Kinds) \in Nat /\ j \in 1..Len(Kinds) /\ j # i
                    BY <2>5, Constants
                <5> HIDE DEF passed, i
                <5> QED BY <4>1, <5>1
            <4>2. CASE i # Len(Kinds)
                <5>1. passed.pc \in {"ask", "tokens"}
                    BY <2>4, <4>2 DEF AfterCheck
                <5> HIDE DEF passed
                <5>2. j < i + 1
                    BY <2>4, <2>5, <5>1 DEF Waits
                <5> QED BY <2>1, <2>5, <5>2
            <4> QED BY <4>1, <4>2
        <3> QED BY <2>2, <3>1 DEF Waits
    <2> HIDE DEF passed
    <2>6. CASE Exceeds(k, Total(kept))
        <3>1. caller' = [caller EXCEPT ![c] = IdleCaller]
            BY <2>3, <2>6
        <3>2. \A j \in 1..Len(Kinds) : ~Waits(IdleCaller, j)
            BY DEF Waits, IdleCaller
        <3> QED BY <1>2, <1>3, <2>3, <3>1, <3>2
    <2>7. CASE ~Exceeds(k, Total(kept))
        <3>1. caller' = [caller EXCEPT ![c] = passed]
            BY <2>3, <2>7
        <3>2. ASSUME NEW j \in 1..Len(Kinds)
              PROVE  Within(Kinds[j], Recent(Kinds[j])', Cardinality(Pending(caller', j)))
            <4>1. CASE j # i
                <5>1. Waits(passed, j) => Waits(caller[c], j)
                    BY <2>5, <4>1
                <5> QED BY <1>3, <2>3, <3>1, <5>1
            <4>2. CASE j = i
                <5> DEFINE l == Kinds[j]
                           r == recorded[l]
                           cutoff == now - Duration[l]
                           m == Cardinality(Pending(caller', j))
                <5>0. l = k /\ l \in KindSet
                    BY <2>1, <4>2
                <5> HIDE DEF l, k
                <5>1. /\ Recent(l) = RecentOf(r, cutoff) /\ Recent(l) \in Nat
                      /\ r \in Seq(Entry) /\ cutoff \in Int
                    BY <1>1, <5>0
                <5>2. Recent(l)' = Recent(l)
                    <6>1. Recent(l)' = RecentOf(recorded'[l], now' - Duration[l])
                        BY <1>1, <5>0
                    <6>2. recorded' = recorded /\ now' = now
                        BY <2>3
                    <6> QED BY <5>1, <6>1, <6>2, Zenon
                <5>3. kept \in Seq(Entry)
                      /\ \E d \in Nat : Behind(kept, r, d) /\ Old(r, d, cutoff)
                    BY <2>2, <5>0, KeptBehind
                <5> HIDE DEF kept, r, cutoff
                <5>4. RecentOf(r, cutoff) <= Total(kept) /\ Total(kept) \in Nat
                    <6>1. PICK d \in Nat : Behind(kept, r, d) /\ Old(r, d, cutoff)
                        BY <5>3
                    <6>2. Total(kept) \in Nat
                        BY <5>1, <5>3, Amounts, Zenon
                    <6> QED BY <5>1, <5>3, <6>1, <6>2, CountsAll
                <5>5. Total(kept) + Cost[l] <= Limit[l]
                    <6>1. Cost[l] \in Nat /\ Limit[l] \in Nat
                        BY <5>0, Money
                    <6> QED BY <2>7, <5>0, <5>4, <6>1 DEF Exceeds
                <5>6. Recent(l) + Cost[l] <= Limit[l]
                    <6>1. Cost[l] \in Nat /\ Limit[l] \in Nat
                        BY <5>0, Money
                    <6> QED BY <5>1, <5>4, <5>5, <6>1
                <5>7. m \in Nat /\ m <= Cardinality(Callers)
                    BY Sizes
                <5> HIDE DEF m
                <5>8. Within(l, Recent(l), m)
                    BY <5>0, <5>1, <5>6, <5>7, RoomIsWithin
                <5>9. Within(l, Recent(l)', m)
                    BY <5>2, <5>8, Zenon
                <5> QED BY <5>9 DEF l, m
            <4> QED BY <4>1, <4>2
        <3> QED BY <1>2, <3>2
    <2> QED BY <2>6, <2>7
<1>7. ASSUME NEW c \in Callers, AskTokens(c) PROVE OverInv'
    <2> DEFINE s == [caller[c] EXCEPT !.pc = "ask", !.ts = now]
    <2>1. /\ caller' = [caller EXCEPT ![c] = s] /\ s.pc = "ask" /\ s.i = caller[c].i
          /\ caller[c].pc = "tokens" /\ UNCHANGED <<now, recorded>>
        BY <1>7, CallerState DEF AskTokens, Caller
    <2> HIDE DEF s
    <2>2. \A j \in 1..Len(Kinds) : Waits(s, j) => Waits(caller[c], j)
        BY <2>1 DEF Waits
    <2> QED BY <1>2, <1>3, <2>1, <2>2
<1>8. ASSUME NEW c \in Callers, Forwarded(c) PROVE OverInv'
    <2> DEFINE s == [pc |-> "record", ts |-> now, i |-> 1]
    <2>1. /\ caller' = [caller EXCEPT ![c] = s] /\ caller[c].pc = "granted"
          /\ UNCHANGED <<now, recorded>>
        BY <1>8 DEF Forwarded
    <2> HIDE DEF s
    <2>2. \A j \in 1..Len(Kinds) : Waits(caller[c], j)
        BY <2>1 DEF Waits
    <2> QED BY <1>2, <1>3, <2>1, <2>2
<1>9. ASSUME NEW c \in Callers, RecordQuota(c) PROVE OverInv'
    <2> DEFINE s == [caller[c] EXCEPT !.pc = "record"]
    <2>1. /\ caller' = [caller EXCEPT ![c] = s] /\ s.pc = "record" /\ s.i = caller[c].i
          /\ caller[c].pc = "quota" /\ UNCHANGED <<now, recorded>>
        BY <1>9, CallerState DEF RecordQuota, Caller
    <2> HIDE DEF s
    <2>2. \A j \in 1..Len(Kinds) : Waits(s, j) => Waits(caller[c], j)
        BY <2>1 DEF Waits
    <2> QED BY <1>2, <1>3, <2>1, <2>2
<1>10. ASSUME NEW c \in Callers, RecordWindow(c) PROVE OverInv'
    <2> DEFINE i == caller[c].i
               k == Kinds[i]
               entry == [ts |-> caller[c].ts, n |-> Cost[k]]
               more == [caller[c] EXCEPT !.pc = IF i = RequestKinds THEN "quota" ELSE "record",
                                         !.i = i + 1]
               s == IF i = Len(Kinds) THEN IdleCaller ELSE more
    <2>1. i \in 1..Len(Kinds) /\ k \in KindSet /\ caller[c].pc = "record"
        BY <1>10, CallerState, Constants DEF RecordWindow, CallerFits
    <2>2. entry \in Entry /\ entry.n = Cost[k]
        BY <2>1, CallerState, Constants DEF Entry
    <2>3. /\ recorded' = [recorded EXCEPT ![k] = Append(@, entry)]
          /\ caller' = [caller EXCEPT ![c] = s] /\ UNCHANGED now
        BY <1>10 DEF RecordWindow
    <2>4. more.pc \in {"quota", "record"} /\ more.i = i + 1
        BY CallerState DEF Caller
    <2> HIDE DEF more
    <2>5. ASSUME NEW j \in 1..Len(Kinds)
          PROVE  /\ Waits(s, j) => Waits(caller[c], j)
                 /\ j = i => ~Waits(s, j) /\ Waits(caller[c], j)
        <3>1. CASE i = Len(Kinds)
            <4>1. ~Waits(s, j)
                BY <3>1 DEF Waits, IdleCaller
            <4>2. j = i => Waits(caller[c], j)
                BY <2>1 DEF Waits
            <4> QED BY <4>1, <4>2
        <3>2. CASE i # Len(Kinds)
            <4>1. s = more
                BY <3>2
            <4>2. Waits(s, j) <=> i + 1 <= j
                BY <2>4, <4>1 DEF Waits
            <4>3. Waits(caller[c], j) <=> i <= j
                BY <2>1 DEF Waits
            <4> QED BY <2>1, <4>2, <4>3
        <3> QED BY <3>1, <3>2
    <2> HIDE DEF entry, s
    <2>6. ASSUME NEW j \in 1..Len(Kinds)
          PROVE  Within(Kinds[j], Recent(Kinds[j])', Cardinality(Pending(caller', j)))
        <3> DEFINE l == Kinds[j]
                   n == Cardinality(Pending(caller, j))
                   m == Cardinality(Pending(caller', j))
        <3>1. l \in KindSet /\ Within(l, Recent(l), n) /\ n \in Nat /\ m \in Nat
            BY <1>0, Sizes DEF OverInv
        <3>2. /\ m <= n
              /\ j = i => n = m + 1
            <4>1. caller' = [caller EXCEPT ![c] = s]
                BY <2>3
            <4>2. (Waits(s, j) => Waits(caller[c], j))
                  /\ (j = i => Waits(caller[c], j) /\ ~Waits(s, j))
                BY <2>5
            <4>3. m <= n
                BY <4>1, <4>2, PendingStep
            <4>4. CASE j = i
                <5>1. Waits(caller[c], j) /\ ~Waits(s, j)
                    BY <4>2, <4>4
                <5>2. n = m + 1
                    <6> DEFINE p == Pending(caller, j)
                               q == Pending(caller', j)
                    <6>1. \A d \in Callers : caller'[d] = IF d = c THEN s ELSE caller[d]
                        BY <4>1, CallerState
                    <6>2. q = p \ {c} /\ c \in p
                        BY <5>1, <6>1 DEF Pending
                    <6>3. IsFiniteSet(p) /\ n = Cardinality(p) /\ m = Cardinality(q)
                        BY Sizes
                    <6> HIDE DEF p, q
                    <6>4. Cardinality(p \ {c}) = Cardinality(p) - 1
                        BY <6>2, <6>3, FS_RemoveElement
                    <6> HIDE DEF n, m
                    <6>5. n \in Nat /\ m = n - 1
                        BY <3>1, <6>2, <6>3, <6>4
                    <6> QED BY <6>5
                <5> QED BY <4>3, <5>2
            <4> QED BY <4>3, <4>4
        <3>3. j = i \/ l # k
            <4>1. \A a, b \in DOMAIN Kinds : Kinds[a] = Kinds[b] => a = b
                BY ThrottleAssumption
            <4> QED BY <2>1, <4>1, Constants
        <3>4. j = i => l = k
            OBVIOUS
        <3> HIDE DEF n, m, l, k
        <3>5. CASE j = i
            <4> DEFINE r == recorded[l]
                       cutoff == now - Duration[l]
            <4>1. /\ Recent(l) = RecentOf(r, cutoff) /\ Recent(l) \in Nat
                  /\ r \in Seq(Entry) /\ cutoff \in Int
                BY <1>1, <3>1
            <4>2. Recent(l)' = RecentOf(Append(r, entry), cutoff)
                <5>1. recorded'[l] = Append(r, entry)
                    BY <1>0, <2>3, <3>1, <3>4, <3>5
                <5> QED BY <1>1, <2>3, <3>1, <5>1
            <4> HIDE DEF r, cutoff
            <4>3. Recent(l)' <= Recent(l) + Cost[l]
                BY <2>2, <3>4, <3>5, <4>1, <4>2, RecentMore
            <4>4. Recent(l)' \in Nat
                <5>1. Append(r, entry) \in Seq(Entry)
                    BY <2>2, <4>1
                <5> QED BY <4>1, <4>2, <5>1, Amounts
            <4>5. Within(l, Recent(l), m + 1)
                BY <3>1, <3>2, <3>5
            <4>6. Within(l, Recent(l)', m)
                BY <3>1, <4>1, <4>3, <4>4, <4>5, RecordedIsWithin
            <4> QED BY <4>6 DEF l, m
        <3>6. CASE j # i
            <4>1. l # k
                BY <3>3, <3>6
            <4>2. recorded'[l] = recorded[l]
                BY <1>0, <2>3, <3>1, <4>1
            <4>3. Recent(l)' = Recent(l) /\ Recent(l) \in Nat /\ Recent(l) <= Recent(l)
                BY <1>1, <2>3, <3>1, <4>2
            <4>4. Within(l, Recent(l), m)
                BY <3>1, <3>2, <4>3, LessIsWithin
            <4> QED BY <4>3, <4>4 DEF l, m
        <3> QED BY <3>5, <3>6
    <2> QED BY <1>2, <2>6
<1>11. CASE Tick
    <2>1. UNCHANGED <<caller, recorded>> /\ now' = now + 1
        BY <1>11 DEF Tick
    <2>2. now <= now' /\ now' \in Nat
        BY <1>0, <2>1
    <2> QED BY <1>4, <2>1, <2>2
<1>12. CASE Hit429 \/ AdminClears \/ UNCHANGED vars
    <2>1. UNCHANGED <<caller, recorded, now>>
        BY <1>12 DEF Hit429, AdminClears, vars
    <2>2. now <= now' /\ now' \in Nat
        BY <1>0, <2>1
    <2> QED BY <1>4, <2>1, <2>2
<1> QED BY <1>5, <1>6, <1>7, <1>8, <1>9, <1>10, <1>11, <1>12, Zenon DEF Next

(* Callers let in together overshoot a window's limit by no more than one  *)
(* request of every other caller, whatever the order they ask and record   *)
(* in (limiter.go:61-108).                                                 *)
THEOREM OvershootIsBounded == Spec => []OvershootBounded
<1> QED BY TypeInit, TypeStep, HistInit, HistStep, OverInit, OverStep, BoundKept, PTL DEF Spec
=============================================================================
