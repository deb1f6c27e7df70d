----------------------- MODULE CooldownManagerProofs -----------------------
(***************************************************************************)
(* Type correctness of CooldownManager and its bookkeeping of timers, for  *)
(* any pool, any number of callers and timers and any durations; and the   *)
(* durations themselves (module Backoff) in their 64-bit arithmetic.       *)
(***************************************************************************)
EXTENDS CooldownManager, Backoff, WellFoundedInduction, TLAPS

(* The two invariants about timers strengthen one another: to see that the *)
(* registered timer is alive one must know that an armed timer is          *)
(* registered, and TypeOK gives both their domains.                        *)
IInv == TypeOK /\ OnlyRegisteredTimerArmed /\ RegisteredTimerIsLive

-----------------------------------------------------------------------------
(* A deadline counted down never becomes negative. *)
LEMMA RemainingNat == ASSUME NEW d \in Int PROVE Remaining(d) \in Nat
BY DEF Remaining

(* The methods of a backend keep its type and its error count's bound. *)
LEMMA BackendMethods ==
    ASSUME NEW b \in BackendModel
    PROVE  /\ MarkSuccess(b) \in BackendModel
           /\ MarkFailure(b) \in BackendModel
           /\ MarkKeyInvalid(b) \in BackendModel
           /\ Recover(b) \in BackendModel
           /\ Elapse(b) \in BackendModel
           /\ MarkSuccess(b).consec = 0
           /\ MarkFailure(b).consec = b.consec + 1
           /\ MarkKeyInvalid(b).consec = b.consec
           /\ Recover(b).consec \in {0, b.consec}
           /\ Elapse(b).consec = b.consec
<1> USE DEF BackendModel, Status
<1>1. MarkSuccess(b) \in BackendModel /\ MarkSuccess(b).consec = 0
    BY DEF MarkSuccess
<1>2. MarkFailure(b) \in BackendModel /\ MarkFailure(b).consec = b.consec + 1
    BY DEF MarkFailure
<1>3. MarkKeyInvalid(b) \in BackendModel /\ MarkKeyInvalid(b).consec = b.consec
    BY DEF MarkKeyInvalid
<1>4. Recover(b) \in BackendModel /\ Recover(b).consec \in {0, b.consec}
    BY DEF Recover
<1>5. Elapse(b) \in BackendModel /\ Elapse(b).consec = b.consec
    BY RemainingNat DEF Elapse
<1> QED BY <1>1, <1>2, <1>3, <1>4, <1>5

LEMMA EnterCooldownMethod ==
    ASSUME NEW b \in BackendModel, NEW d \in Int
    PROVE  EnterCooldown(b, d) \in BackendModel /\ EnterCooldown(b, d).consec = b.consec
BY RemainingNat DEF EnterCooldown, BackendModel, Status

-----------------------------------------------------------------------------
(* Recover only ever lowers the error count. *)
LEMMA RecoverBounded ==
    ASSUME NEW b \in BackendModel, b.consec <= MaxConsec
    PROVE  Recover(b) \in BackendModel /\ Recover(b).consec <= MaxConsec
<1>1. Recover(b).consec = 0 \/ Recover(b).consec = b.consec
    BY BackendMethods
<1>2. 0 <= MaxConsec
    BY ConstantsAssumption
<1> QED BY <1>1, <1>2, BackendMethods

(* Initially nothing is armed and nothing is registered. *)
LEMMA InitIInv == Init => IInv
<1> SUFFICES ASSUME Init PROVE IInv
    OBVIOUS
<1>1. TypeOK
    BY ConstantsAssumption DEF Init, TypeOK, NewBackendModel, BackendModel, Status,
       FreeTimer, IdleCaller, TimerPhase, CallerPc
<1>2. OnlyRegisteredTimerArmed /\ RegisteredTimerIsLive
    BY ConstantsAssumption DEF Init, OnlyRegisteredTimerArmed, RegisteredTimerIsLive, FreeTimer
<1> QED BY <1>1, <1>2 DEF IInv

-----------------------------------------------------------------------------
(* Stopping the registered timer of a backend frees it if it was armed and *)
(* leaves every other timer as it was.                                     *)
LEMMA StopRegisteredFacts ==
    ASSUME TypeOK, NEW b \in Backends
    PROVE  /\ StopRegistered(b) \in [TimerIds -> [phase : TimerPhase,
                                       key : Backends \cup {None}, left : Nat]]
           /\ \A t \in TimerIds :
                  \/ StopRegistered(b)[t] = timer[t]
                  \/ t = timers[b] /\ StopRegistered(b)[t] = FreeTimer
           /\ \A t \in TimerIds :
                  t = timers[b] => StopRegistered(b)[t].phase # "armed"
<1>1. FreeTimer \in [phase : TimerPhase, key : Backends \cup {None}, left : Nat]
      /\ FreeTimer.phase = "free"
    BY DEF FreeTimer, TimerPhase
<1> QED BY <1>1 DEF StopRegistered, TypeOK

(* The timer that ArmTimer allocates is one that was free. *)
LEMMA NewTimerIsFree ==
    ASSUME FreeTimers # {}
    PROVE  (CHOOSE t \in FreeTimers : TRUE) \in FreeTimers
OBVIOUS

(* What TypeOK says of the callers, and how a step of one caller keeps it. *)
CallersOK ==
    /\ caller \in [Callers -> [pc : CallerPc, key : Backends \cup {None}, dur : Int]]
    /\ \A g \in Callers : caller[g].pc # "idle" => caller[g].key \in Backends

LEMMA CallerReturns ==
    ASSUME TypeOK, NEW g \in Callers, caller' = [caller EXCEPT ![g] = IdleCaller]
    PROVE  CallersOK'
<1>1. IdleCaller \in [pc : CallerPc, key : Backends \cup {None}, dur : Int]
      /\ IdleCaller.pc = "idle"
    BY DEF IdleCaller, CallerPc
<1>2. CallersOK
    BY DEF TypeOK, CallersOK
<1> QED BY <1>1, <1>2 DEF CallersOK

LEMMA CallerMoves ==
    ASSUME TypeOK, NEW g \in Callers, NEW pc \in CallerPc, NEW d \in Int,
           caller[g].pc # "idle",
           caller' = [caller EXCEPT ![g] = [@ EXCEPT !.pc = pc, !.dur = d]]
    PROVE  CallersOK'
<1>1. CallersOK
    BY DEF TypeOK, CallersOK
<1> DEFINE q == [caller[g] EXCEPT !.pc = pc, !.dur = d]
<1>2. q \in [pc : CallerPc, key : Backends \cup {None}, dur : Int] /\ q.key \in Backends
    BY <1>1 DEF CallersOK
<1>3. caller' = [caller EXCEPT ![g] = q]
    OBVIOUS
<1> HIDE DEF q
<1> QED BY <1>1, <1>2, <1>3 DEF CallersOK

(* Every step keeps the types. *)
LEMMA TypeOKStep == ASSUME TypeOK, [Next]_vars PROVE TypeOK'
<1> USE DEF TypeOK
<1>1. ASSUME NEW g \in Callers, NEW b \in Backends, PickBackend(g, b) PROVE TypeOK'
    BY <1>1 DEF PickBackend, CallerPc
<1>2. ASSUME NEW g \in Callers, Answered(g) PROVE TypeOK'
    <2>1. caller[g].key \in Backends
        BY <1>2 DEF Answered
    <2>2. backend' \in [Backends -> BackendModel]
          /\ \A b \in Backends : backend'[b].consec <= MaxConsec
        BY <1>2, <2>1, BackendMethods, ConstantsAssumption DEF Answered
    <2> QED BY <1>2, <2>2 DEF Answered, IdleCaller, CallerPc
<1>3. ASSUME NEW g \in Callers, KeyRejected(g) PROVE TypeOK'
    <2>1. caller[g].key \in Backends
        BY <1>3 DEF KeyRejected
    <2>2. backend' \in [Backends -> BackendModel]
          /\ \A b \in Backends : backend'[b].consec <= MaxConsec
        BY <1>3, <2>1, BackendMethods DEF KeyRejected
    <2> QED BY <1>3, <2>2 DEF KeyRejected, IdleCaller, CallerPc
<1>4. ASSUME NEW g \in Callers, RefusedForGood(g) \/ UpstreamFailed(g) PROVE TypeOK'
    <2>1. caller[g].key \in Backends /\ Blame(caller[g].key)
        BY <1>4 DEF RefusedForGood, UpstreamFailed
    <2>2. backend' \in [Backends -> BackendModel]
          /\ \A b \in Backends : backend'[b].consec <= MaxConsec
        <3>1. /\ MarkFailure(backend[caller[g].key]) \in BackendModel
              /\ MarkFailure(backend[caller[g].key]).consec <= MaxConsec
            <4> DEFINE m == backend[caller[g].key]
            <4>1. m \in BackendModel /\ m.consec \in Nat /\ m.consec < MaxConsec
                BY <2>1 DEF Blame, BackendModel
            <4>2. MarkFailure(m) \in BackendModel /\ MarkFailure(m).consec = m.consec + 1
                BY <4>1, BackendMethods
            <4> QED BY <4>1, <4>2, ConstantsAssumption
        <3> QED BY <2>1, <3>1 DEF Blame
    <2>3. CallersOK'
        <3>1. CASE RefusedForGood(g)
            BY <3>1, CallerReturns DEF RefusedForGood
        <3>2. CASE UpstreamFailed(g)
            <4>1. caller[g].dur \in Int
                OBVIOUS
            <4>2. caller[g].pc # "idle"
                  /\ caller' = [caller EXCEPT ![g] = [@ EXCEPT !.pc = "failed",
                                                               !.dur = caller[g].dur]]
                BY <3>2 DEF UpstreamFailed
            <4> QED BY <4>1, <4>2, CallerMoves DEF CallerPc
        <3> QED BY <1>4, <3>1, <3>2
    <2>4. UNCHANGED <<timers, timer>>
        BY <1>4 DEF RefusedForGood, UpstreamFailed
    <2> QED BY <2>2, <2>3, <2>4 DEF CallersOK
<1>5. ASSUME NEW g \in Callers, Escalate(g) PROVE TypeOK'
    <2>1. CallersOK'
        <3>1. CASE backend[caller[g].key].consec >= 3
            <4>1. caller[g].dur \in Int
                OBVIOUS
            <4>2. caller[g].pc # "idle"
                  /\ caller' = [caller EXCEPT ![g] = [@ EXCEPT !.pc = "measuring",
                                                               !.dur = caller[g].dur]]
                BY <1>5, <3>1 DEF Escalate
            <4> QED BY <4>1, <4>2, CallerMoves DEF CallerPc
        <3>2. CASE ~(backend[caller[g].key].consec >= 3)
            BY <1>5, <3>2, CallerReturns DEF Escalate
        <3> QED BY <3>1, <3>2
    <2>2. UNCHANGED <<backend, timers, timer>>
        BY <1>5 DEF Escalate
    <2> QED BY <2>1, <2>2 DEF CallersOK
<1>6. ASSUME NEW g \in Callers, MeasureBackoff(g) PROVE TypeOK'
    <2>1. caller[g].key \in Backends
        BY <1>6 DEF MeasureBackoff
    <2>2. backend[caller[g].key].consec \in 0..MaxConsec
        BY <2>1, ConstantsAssumption DEF BackendModel
    <2>3. Backoff[backend[caller[g].key].consec] \in Int
        BY <2>2, ConstantsAssumption
    <2>4. CallersOK'
        <3> DEFINE d == Backoff[backend[caller[g].key].consec]
        <3>1. caller[g].pc # "idle" /\ "entering" \in CallerPc
            BY <1>6 DEF MeasureBackoff, CallerPc
        <3>2. caller' = [caller EXCEPT ![g] = [@ EXCEPT !.pc = "entering", !.dur = d]]
            BY <1>6 DEF MeasureBackoff
        <3> QED BY <2>3, <3>1, <3>2, CallerMoves, Zenon
    <2>5. UNCHANGED <<backend, timers, timer>>
        BY <1>6 DEF MeasureBackoff
    <2> QED BY <2>4, <2>5 DEF CallersOK
<1>7. ASSUME NEW g \in Callers, NEW d \in RateLimitCooldowns, RateLimited(g, d) PROVE TypeOK'
    <2>1. d \in Int
        BY ConstantsAssumption
    <2> QED BY <1>7, <2>1 DEF RateLimited, CallerPc
<1>8. ASSUME NEW g \in Callers, MarkCooldown(g) PROVE TypeOK'
    <2>1. caller[g].key \in Backends /\ caller[g].dur \in Int
        BY <1>8 DEF MarkCooldown
    <2>2. backend' \in [Backends -> BackendModel]
          /\ \A b \in Backends : backend'[b].consec <= MaxConsec
        BY <1>8, <2>1, EnterCooldownMethod DEF MarkCooldown
    <2> QED BY <1>8, <2>2 DEF MarkCooldown, CallerPc
<1>9. ASSUME NEW g \in Callers, ArmTimer(g) PROVE TypeOK'
    <2> DEFINE b == caller[g].key
               new == CHOOSE t \in FreeTimers : TRUE
    <2>1. b \in Backends /\ Remaining(caller[g].dur) \in Nat
        BY <1>9, RemainingNat DEF ArmTimer
    <2>2. new \in TimerIds
        BY <1>9, NewTimerIsFree DEF ArmTimer, FreeTimers
    <2>3. /\ timer' = [StopRegistered(b) EXCEPT
                          ![new] = [phase |-> "armed", key |-> b,
                                    left |-> Remaining(caller[g].dur)]]
          /\ timers' = [timers EXCEPT ![b] = new]
        BY <1>9 DEF ArmTimer, ReplaceTimer, StartTimer
    <2>4. /\ timer' \in [TimerIds -> [phase : TimerPhase,
                                     key : Backends \cup {None}, left : Nat]]
          /\ \A t \in TimerIds : timer'[t].phase # "free" => timer'[t].key \in Backends
        <3> HIDE DEF b, new
        <3> QED BY <2>1, <2>2, <2>3, StopRegisteredFacts DEF FreeTimer, TimerPhase
    <2>5. timers' \in [Backends -> TimerIds \cup {None}]
        BY <2>1, <2>2, <2>3
    <2> QED BY <1>9, <2>4, <2>5 DEF ArmTimer, IdleCaller, CallerPc
<1>10. ASSUME NEW t \in TimerIds, Fire(t) PROVE TypeOK'
    BY <1>10 DEF Fire, TimerPhase
<1>11. ASSUME NEW t \in TimerIds, RecoverBackend(t) PROVE TypeOK'
    <2>1. timer[t].key \in Backends
        BY <1>11 DEF RecoverBackend
    <2>2. backend' \in [Backends -> BackendModel]
          /\ \A b \in Backends : backend'[b].consec <= MaxConsec
        <3>1. /\ Recover(backend[timer[t].key]) \in BackendModel
              /\ Recover(backend[timer[t].key]).consec <= MaxConsec
            BY <2>1, RecoverBounded
        <3> QED BY <1>11, <2>1, <3>1 DEF RecoverBackend
    <2> QED BY <1>11, <2>2 DEF RecoverBackend, TimerPhase
<1>12. ASSUME NEW t \in TimerIds, DropTimer(t) PROVE TypeOK'
    <2>1. timer[t].key \in Backends
        BY <1>12 DEF DropTimer
    <2>2. /\ timer' \in [TimerIds -> [phase : TimerPhase,
                                     key : Backends \cup {None}, left : Nat]]
          /\ \A u \in TimerIds : timer'[u].phase # "free" => timer'[u].key \in Backends
        <3> DEFINE b == timer[t].key
        <3>1. timer' = [StopRegistered(b) EXCEPT ![t] = FreeTimer]
            BY <1>12 DEF DropTimer
        <3>2. /\ StopRegistered(b) \in [TimerIds -> [phase : TimerPhase,
                                             key : Backends \cup {None}, left : Nat]]
              /\ \A u \in TimerIds : StopRegistered(b)[u] = timer[u]
                                     \/ StopRegistered(b)[u] = FreeTimer
            BY <2>1, StopRegisteredFacts
        <3>3. FreeTimer \in [phase : TimerPhase, key : Backends \cup {None}, left : Nat]
              /\ FreeTimer.phase = "free"
            BY DEF FreeTimer, TimerPhase
        <3> QED BY <3>1, <3>2, <3>3
    <2>3. /\ timers' \in [Backends -> TimerIds \cup {None}]
          /\ UNCHANGED <<backend, caller>>
        BY <1>12 DEF DropTimer, Forget
    <2> QED BY <2>2, <2>3
<1>13. ASSUME NEW b \in Backends, AdminRecover(b) PROVE TypeOK'
    <2>1. backend' \in [Backends -> BackendModel]
          /\ \A c \in Backends : backend'[c].consec <= MaxConsec
        <3>1. Recover(backend[b]) \in BackendModel /\ Recover(backend[b]).consec <= MaxConsec
            BY RecoverBounded
        <3> QED BY <1>13, <3>1 DEF AdminRecover
    <2> QED BY <1>13, <2>1 DEF AdminRecover
<1>14. ASSUME Tick PROVE TypeOK'
    <2>1. backend' \in [Backends -> BackendModel]
          /\ \A c \in Backends : backend'[c].consec <= MaxConsec
        BY <1>14, BackendMethods DEF Tick
    <2>2. \A t \in TimerIds : Remaining(timer[t].left - 1) \in Nat
        BY RemainingNat
    <2> QED BY <1>14, <2>1, <2>2 DEF Tick
<1>15. CASE UNCHANGED vars
    BY <1>15 DEF vars
<1> QED
    BY <1>1, <1>2, <1>3, <1>4, <1>5, <1>6, <1>7, <1>8, <1>9, <1>10, <1>11, <1>12,
       <1>13, <1>14, <1>15 DEF Next

-----------------------------------------------------------------------------
(* Every step keeps the timer bookkeeping.  Only ArmTimer registers and    *)
(* arms, and only DropTimer forgets; both stop the registered timer first. *)
LEMMA TimersStep == ASSUME IInv, [Next]_vars
                    PROVE  OnlyRegisteredTimerArmed' /\ RegisteredTimerIsLive'
<1> USE DEF IInv, OnlyRegisteredTimerArmed, RegisteredTimerIsLive
<1>1. CASE UNCHANGED <<timers, timer>>
    BY <1>1
<1>2. ASSUME NEW g \in Callers, ArmTimer(g)
      PROVE  OnlyRegisteredTimerArmed' /\ RegisteredTimerIsLive'
    <2> DEFINE b == caller[g].key
               new == CHOOSE t \in FreeTimers : TRUE
    <2>1. b \in Backends /\ new \in TimerIds /\ timer[new].phase = "free" /\ new # None
        BY <1>2, NewTimerIsFree, ConstantsAssumption DEF ArmTimer, FreeTimers, TypeOK
    <2>2. /\ timer' = [StopRegistered(b) EXCEPT
                          ![new] = [phase |-> "armed", key |-> b,
                                    left |-> Remaining(caller[g].dur)]]
          /\ timers' = [timers EXCEPT ![b] = new]
        BY <1>2 DEF ArmTimer, ReplaceTimer, StartTimer
    <2> HIDE DEF b, new
    <2>3. /\ timer'[new].phase = "armed" /\ timer'[new].key = b
          /\ timers'[b] = new
          /\ \A c \in Backends \ {b} : timers'[c] = timers[c]
          /\ \A t \in TimerIds \ {new} : timer'[t] = StopRegistered(b)[t]
        BY <2>1, <2>2, StopRegisteredFacts DEF TypeOK
    <2>4. ASSUME NEW t \in TimerIds, timer'[t].phase = "armed"
          PROVE  timers'[timer'[t].key] = t
        <3>1. CASE t = new
            BY <2>3, <3>1
        <3>2. CASE t # new
            <4>1. timer'[t] = timer[t] /\ t # timers[b]
                BY <2>1, <2>3, <2>4, <3>2, StopRegisteredFacts DEF FreeTimer
            <4>2. timer[t].key \in Backends /\ timers[timer[t].key] = t
                BY <2>4, <4>1 DEF TypeOK
            <4> QED BY <2>3, <4>1, <4>2
        <3> QED BY <3>1, <3>2
    <2>5. ASSUME NEW c \in Backends, timers'[c] # None
          PROVE  timer'[timers'[c]].phase # "free" /\ timer'[timers'[c]].key = c
        <3>1. CASE c = b
            BY <2>3, <3>1
        <3>2. CASE c # b
            <4>1. /\ timers'[c] = timers[c] /\ timers[c] \in TimerIds
                  /\ timer[timers[c]].phase # "free" /\ timer[timers[c]].key = c
                BY <2>3, <2>5, <3>2 DEF TypeOK
            <4>2. timers[c] # None /\ timers[c] # new
                BY <2>1, <2>3, <2>5, <3>2, <4>1
            <4>3. timers[c] # timers[b]
                BY <2>1, <3>2, <4>1, <4>2
            <4> QED BY <2>1, <2>3, <4>1, <4>2, <4>3, StopRegisteredFacts
        <3> QED BY <3>1, <3>2
    <2> QED BY <2>4, <2>5
<1>3. ASSUME NEW t \in TimerIds, Fire(t)
      PROVE  OnlyRegisteredTimerArmed' /\ RegisteredTimerIsLive'
    BY <1>3 DEF Fire, TypeOK
<1>4. ASSUME NEW t \in TimerIds, RecoverBackend(t)
      PROVE  OnlyRegisteredTimerArmed' /\ RegisteredTimerIsLive'
    BY <1>4 DEF RecoverBackend, TypeOK
<1>5. ASSUME NEW t \in TimerIds, DropTimer(t)
      PROVE  OnlyRegisteredTimerArmed' /\ RegisteredTimerIsLive'
    <2> DEFINE b == timer[t].key
    <2>1. b \in Backends /\ timer[t].phase = "recovered"
        BY <1>5 DEF DropTimer, TypeOK
    <2>2. /\ timer' = [StopRegistered(b) EXCEPT ![t] = FreeTimer]
          /\ timers' = [timers EXCEPT ![b] = None]
        BY <1>5 DEF DropTimer, Forget
    <2> HIDE DEF b
    <2>3. /\ timer'[t].phase = "free" /\ timers'[b] = None
          /\ \A c \in Backends \ {b} : timers'[c] = timers[c]
          /\ \A u \in TimerIds \ {t} : timer'[u] = StopRegistered(b)[u]
        BY <2>1, <2>2, StopRegisteredFacts DEF TypeOK, FreeTimer
    <2>4. ASSUME NEW u \in TimerIds, timer'[u].phase = "armed"
          PROVE  timers'[timer'[u].key] = u
        <3>1. timer'[u] = timer[u] /\ u # timers[b]
            BY <2>1, <2>3, <2>4, StopRegisteredFacts DEF FreeTimer
        <3>2. timer[u].key \in Backends /\ timers[timer[u].key] = u
            BY <2>4, <3>1 DEF TypeOK
        <3> QED BY <2>3, <3>1, <3>2
    <2>5. ASSUME NEW c \in Backends, timers'[c] # None
          PROVE  timer'[timers'[c]].phase # "free" /\ timer'[timers'[c]].key = c
        <3>1. c # b /\ timers'[c] = timers[c] /\ timers[c] \in TimerIds
              /\ timer[timers[c]].phase # "free" /\ timer[timers[c]].key = c
            BY <2>3, <2>5 DEF TypeOK
        <3>2. timers[c] # None /\ timers[c] # t
            BY <2>3, <2>5, <3>1 DEF b
        <3>3. timers[c] # timers[b]
            BY <2>1, <3>1, <3>2
        <3> QED BY <2>1, <2>3, <3>1, <3>2, <3>3, StopRegisteredFacts
    <2> QED BY <2>4, <2>5
<1>6. CASE Tick
    <2>1. /\ timers' = timers
          /\ \A t \in TimerIds : timer'[t].phase = timer[t].phase /\ timer'[t].key = timer[t].key
        BY <1>6 DEF Tick, TypeOK
    <2>2. \A b \in Backends : timers[b] # None => timers[b] \in TimerIds
        BY DEF TypeOK
    <2> QED BY <2>1, <2>2
<1> QED
    BY <1>1, <1>2, <1>3, <1>4, <1>5, <1>6 DEF Next, vars, PickBackend, Answered,
       KeyRejected, RefusedForGood, UpstreamFailed, Escalate, MeasureBackoff, RateLimited, MarkCooldown, AdminRecover

-----------------------------------------------------------------------------
(* Type correctness: in particular every timer and every caller in the     *)
(* middle of a call belongs to a backend of the pool.                      *)
THEOREM TypeCorrect == Spec => []TypeOK
<1>1. TypeOK /\ [Next]_vars => TypeOK'
    BY TypeOKStep
<1>2. Init => TypeOK
    BY InitIInv DEF IInv
<1> QED BY <1>1, <1>2, PTL DEF Spec

(* The inductive invariant holds in every reachable state. *)
THEOREM Invariance == Spec => []IInv
<1>1. IInv /\ [Next]_vars => IInv'
    BY TypeOKStep, TimersStep DEF IInv
<1> QED BY InitIInv, <1>1, PTL DEF Spec

(* No forgotten timer is left armed, however enterCooldown, Recover and    *)
(* the timer callbacks interleave (manager.go: Stop before AfterFunc).     *)
THEOREM NoForgottenTimer == Spec => []OnlyRegisteredTimerArmed
<1>1. IInv => OnlyRegisteredTimerArmed
    BY DEF IInv
<1> QED BY Invariance, <1>1, PTL

(* m.timers never holds a timer whose callback has ended, nor another      *)
(* backend's (manager.go: Recover deletes what it finds registered).       *)
THEOREM NoDeadRegistration == Spec => []RegisteredTimerIsLive
<1>1. IInv => RegisteredTimerIsLive
    BY DEF IInv
<1> QED BY Invariance, <1>1, PTL

-----------------------------------------------------------------------------
(* How long the armed timer lasts.  Between the halves of enterCooldown    *)
(* the deadline is no later than the duration the caller goes on to arm,   *)
(* and once nobody is between them, no later than the armed timer.         *)
Marked(g, b) == caller[g].pc = "marked" /\ caller[g].key = b

Covered(b) ==
    /\ ~Uncovered(b)
    /\ \A g \in Callers : Marked(g, b) => backend[b].until <= Remaining(caller[g].dur)

LEMMA RemainingMonotone ==
    ASSUME NEW m \in Int, NEW n \in Int, m <= n
    PROVE  /\ Remaining(m) <= Remaining(n)
           /\ Remaining(m - 1) <= Remaining(n - 1)
BY DEF Remaining

(* Of the methods only EnterCooldown puts the deadline off. *)
LEMMA DeadlineKept ==
    ASSUME NEW m \in BackendModel
    PROVE  /\ m.until \in Nat
           /\ MarkSuccess(m).until = m.until
           /\ MarkFailure(m).until = m.until
           /\ MarkKeyInvalid(m).until = m.until
           /\ Recover(m).until \in {0, m.until}
           /\ Elapse(m).until = Remaining(m.until - 1)
           /\ Remaining(m.until - 1) <= m.until
<1>1. m.until \in Nat
    BY DEF BackendModel
<1>2. MarkSuccess(m).until = m.until
    BY DEF BackendModel, MarkSuccess
<1>3. MarkFailure(m).until = m.until
    BY DEF BackendModel, MarkFailure
<1>4. MarkKeyInvalid(m).until = m.until
    BY DEF BackendModel, MarkKeyInvalid
<1>5. Recover(m).until \in {0, m.until}
    BY DEF BackendModel, Recover
<1>6. Elapse(m).until = Remaining(m.until - 1)
    BY DEF BackendModel, Elapse
<1>7. Remaining(m.until - 1) <= m.until
    BY <1>1 DEF Remaining
<1> QED BY <1>1, <1>2, <1>3, <1>4, <1>5, <1>6, <1>7

(* A step that neither marks b, nor moves a caller that stands between the *)
(* halves for b, nor arms a timer of b, nor lets time pass, keeps b        *)
(* covered if it does not put b's deadline off.                            *)
LEMMA CoveredKept ==
    ASSUME IInv, NEW b \in Backends, Covered(b),
           backend[b].until \in Nat, backend'[b].until \in Nat,
           backend'[b].until <= backend[b].until,
           \A g \in Callers : Marked(g, b)' <=> Marked(g, b),
           \A g \in Callers : Marked(g, b) => caller'[g] = caller[g],
           timers'[b] # None =>
               /\ timers'[b] = timers[b]
               /\ timer'[timers[b]].phase = "armed" => timer'[timers[b]] = timer[timers[b]]
    PROVE  Covered(b)'
<1>1. ASSUME NEW g \in Callers, Marked(g, b)'
      PROVE  backend'[b].until <= Remaining(caller'[g].dur)
    <2>1. Marked(g, b) /\ caller'[g] = caller[g] /\ caller[g].dur \in Int
        BY <1>1 DEF IInv, TypeOK
    <2>2. backend[b].until <= Remaining(caller[g].dur) /\ Remaining(caller[g].dur) \in Nat
        BY <2>1, RemainingNat DEF Covered
    <2> QED BY <2>1, <2>2
<1>2. ASSUME Uncovered(b)' PROVE FALSE
    <2>1. /\ timers[b] # None /\ timers[b] \in TimerIds
          /\ timer[timers[b]].phase = "armed"
          /\ backend'[b].until > timer[timers[b]].left
          /\ ~\E g \in Callers : Marked(g, b)
        BY <1>2 DEF Uncovered, Marked, IInv, TypeOK
    <2>2. timer[timers[b]].left \in Nat
        BY <2>1 DEF IInv, TypeOK
    <2>3. ~(backend[b].until > timer[timers[b]].left)
        BY <2>1 DEF Covered, Uncovered, Marked
    <2> QED BY <2>1, <2>2, <2>3
<1> QED BY <1>1, <1>2 DEF Covered

LEMMA CoveredStep ==
    ASSUME IInv, [Next]_vars, NEW b \in Backends, Covered(b), ~Crossing(b), ~Crossing(b)'
    PROVE  Covered(b)'
<1>0. /\ backend \in [Backends -> BackendModel]
      /\ caller \in [Callers -> [pc : CallerPc, key : Backends \cup {None}, dur : Int]]
      /\ timer \in [TimerIds -> [phase : TimerPhase, key : Backends \cup {None}, left : Nat]]
      /\ timers \in [Backends -> TimerIds \cup {None}]
      /\ \A g \in Callers : caller[g].pc # "idle" => caller[g].key \in Backends
      /\ \A t \in TimerIds : timer[t].phase # "free" => timer[t].key \in Backends
      /\ \A c \in Backends : timers[c] # None =>
             timer[timers[c]].phase # "free" /\ timer[timers[c]].key = c
      /\ \A c \in Backends : backend[c].until \in Nat
    BY DeadlineKept DEF IInv, TypeOK, RegisteredTimerIsLive
<1>1. ASSUME NEW g \in Callers,
             \/ \E c \in Backends : PickBackend(g, c)
             \/ Answered(g) \/ KeyRejected(g) \/ RefusedForGood(g) \/ UpstreamFailed(g)
             \/ Escalate(g) \/ MeasureBackoff(g)
             \/ \E d \in RateLimitCooldowns : RateLimited(g, d)
      PROVE  Covered(b)'
    <2>1. UNCHANGED <<timers, timer>>
        BY <1>1 DEF PickBackend, Answered, KeyRejected, RefusedForGood, UpstreamFailed,
           Escalate, MeasureBackoff, RateLimited
    <2>2. /\ \A h \in Callers \ {g} : caller'[h] = caller[h]
          /\ caller[g].pc # "marked" /\ caller'[g].pc # "marked"
        BY <1>0, <1>1 DEF PickBackend, Answered, KeyRejected, RefusedForGood, UpstreamFailed,
           Escalate, MeasureBackoff, RateLimited, IdleCaller
    <2>3. backend'[b].until = backend[b].until
        <3>1. CASE UNCHANGED backend
            BY <3>1
        <3>2. ASSUME NEW c \in Backends,
                     \/ backend' = [backend EXCEPT ![c] = MarkSuccess(@)]
                     \/ backend' = [backend EXCEPT ![c] = MarkKeyInvalid(@)]
                     \/ backend' = [backend EXCEPT ![c] = MarkFailure(@)]
              PROVE  backend'[b].until = backend[b].until
            BY <1>0, <3>2, DeadlineKept
        <3>3. CASE Answered(g) \/ KeyRejected(g) \/ RefusedForGood(g) \/ UpstreamFailed(g)
            <4>1. caller[g].key \in Backends
                BY <1>0, <3>3 DEF Answered, KeyRejected, RefusedForGood, UpstreamFailed
            <4> QED BY <3>2, <3>3, <4>1 DEF Answered, KeyRejected, RefusedForGood,
                   UpstreamFailed, Blame
        <3> QED BY <1>1, <3>1, <3>3 DEF PickBackend, Escalate, MeasureBackoff, RateLimited
    <2>4. \A h \in Callers : /\ Marked(h, b)' <=> Marked(h, b)
                             /\ Marked(h, b) => caller'[h] = caller[h]
        BY <2>2 DEF Marked
    <2> QED BY <1>0, <2>1, <2>3, <2>4, CoveredKept
<1>2. ASSUME NEW g \in Callers, MarkCooldown(g) PROVE Covered(b)'
    <2> DEFINE c == caller[g].key
               d == caller[g].dur
    <2>1. c \in Backends /\ d \in Int /\ caller[g].pc = "entering"
        BY <1>0, <1>2 DEF MarkCooldown
    <2>2. /\ backend' = [backend EXCEPT ![c] = EnterCooldown(@, d)]
          /\ \A h \in Callers \ {g} : caller'[h] = caller[h]
          /\ caller'[g].pc = "marked" /\ caller'[g].key = c /\ caller'[g].dur = d
          /\ UNCHANGED <<timers, timer>>
        BY <1>0, <1>2 DEF MarkCooldown
    <2> HIDE DEF c, d
    <2>3. CASE c = b
        <3>1. backend'[b].until = Remaining(d)
            BY <1>0, <2>1, <2>2, <2>3 DEF EnterCooldown, BackendModel
        <3>2. Marked(g, b)'
            BY <2>2, <2>3 DEF Marked
        <3>3. ~Uncovered(b)'
            BY <3>2 DEF Uncovered, Marked
        <3>4. ASSUME NEW h \in Callers, Marked(h, b)' PROVE h = g
            BY <3>2, <3>4 DEF Crossing, Marked
        <3> QED BY <2>1, <2>2, <3>1, <3>3, <3>4, RemainingNat DEF Covered
    <2>4. CASE c # b
        <3>1. backend'[b].until = backend[b].until
            BY <1>0, <2>1, <2>2, <2>4
        <3>2. \A h \in Callers : /\ Marked(h, b)' <=> Marked(h, b)
                                 /\ Marked(h, b) => caller'[h] = caller[h]
            BY <2>1, <2>2, <2>4 DEF Marked
        <3> QED BY <1>0, <2>2, <3>1, <3>2, CoveredKept
    <2> QED BY <2>3, <2>4
<1>3. ASSUME NEW g \in Callers, ArmTimer(g) PROVE Covered(b)'
    <2> DEFINE c == caller[g].key
               d == caller[g].dur
               new == CHOOSE t \in FreeTimers : TRUE
    <2>1. /\ c \in Backends /\ d \in Int /\ Marked(g, c)
          /\ new \in TimerIds /\ timer[new].phase = "free"
        BY <1>0, <1>3, NewTimerIsFree DEF ArmTimer, FreeTimers, Marked
    <2>2. /\ timer' = [StopRegistered(c) EXCEPT
                          ![new] = [phase |-> "armed", key |-> c, left |-> Remaining(d)]]
          /\ timers' = [timers EXCEPT ![c] = new]
          /\ \A h \in Callers \ {g} : caller'[h] = caller[h]
          /\ caller'[g].pc = "idle"
          /\ backend' = backend
        BY <1>0, <1>3 DEF ArmTimer, ReplaceTimer, StartTimer, IdleCaller
    <2> HIDE DEF c, d, new
    <2>3. /\ timer'[new].left = Remaining(d) /\ timers'[c] = new
          /\ \A t \in TimerIds \ {new} : timer'[t] = StopRegistered(c)[t]
        BY <1>0, <2>1, <2>2, StopRegisteredFacts DEF IInv
    <2>4. CASE c = b
        <3>1. \A h \in Callers : ~Marked(h, b)'
            <4>1. \A h \in Callers \ {g} : ~Marked(h, b)
                BY <2>1, <2>4 DEF Crossing, Marked
            <4> QED BY <2>2, <4>1 DEF Marked
        <3>2. backend[b].until <= Remaining(d)
            BY <2>1, <2>4 DEF Covered, d
        <3>3. ~Uncovered(b)'
            BY <1>0, <2>1, <2>2, <2>3, <2>4, <3>2, RemainingNat DEF Uncovered
        <3> QED BY <3>1, <3>3 DEF Covered
    <2>5. CASE c # b
        <3>1. \A h \in Callers : /\ Marked(h, b)' <=> Marked(h, b)
                                 /\ Marked(h, b) => caller'[h] = caller[h]
            BY <2>1, <2>2, <2>5 DEF Marked
        <3>2. timers'[b] = timers[b]
            BY <1>0, <2>2, <2>5
        <3>3. ASSUME timers[b] # None
              PROVE  timer'[timers[b]] = timer[timers[b]]
            <4>1. timers[b] \in TimerIds /\ timer[timers[b]].phase # "free"
                  /\ timer[timers[b]].key = b
                BY <1>0, <3>3
            <4>2. timers[b] # new /\ timers[b] # timers[c]
                BY <1>0, <2>1, <2>5, <3>3, <4>1
            <4> QED BY <2>1, <2>3, <4>1, <4>2, StopRegisteredFacts DEF IInv
        <3> QED BY <1>0, <2>2, <3>1, <3>2, <3>3, CoveredKept
    <2> QED BY <2>4, <2>5
<1>4. ASSUME NEW t \in TimerIds, Fire(t) PROVE Covered(b)'
    <2>1. timer'[t].phase # "armed" /\ \A u \in TimerIds \ {t} : timer'[u] = timer[u]
        BY <1>0, <1>4 DEF Fire
    <2>2. UNCHANGED <<backend, timers, caller>>
        BY <1>4 DEF Fire
    <2> QED BY <1>0, <2>1, <2>2, CoveredKept DEF Marked
<1>5. ASSUME NEW t \in TimerIds, RecoverBackend(t) PROVE Covered(b)'
    <2>1. timer'[t].phase # "armed" /\ \A u \in TimerIds \ {t} : timer'[u] = timer[u]
        BY <1>0, <1>5 DEF RecoverBackend
    <2>2. UNCHANGED <<timers, caller>>
        BY <1>5 DEF RecoverBackend
    <2>3. backend'[b].until \in Nat /\ backend'[b].until <= backend[b].until
        <3>1. timer[t].key \in Backends
              /\ backend' = [backend EXCEPT ![timer[t].key] = Recover(@)]
            BY <1>0, <1>5 DEF RecoverBackend
        <3>2. Recover(backend[b]).until \in {0, backend[b].until}
            BY <1>0, DeadlineKept
        <3> QED BY <1>0, <3>1, <3>2
    <2> QED BY <1>0, <2>1, <2>2, <2>3, CoveredKept DEF Marked
<1>6. ASSUME NEW t \in TimerIds, DropTimer(t) PROVE Covered(b)'
    <2> DEFINE c == timer[t].key
    <2>1. c \in Backends /\ timer[t].phase = "recovered"
        BY <1>0, <1>6 DEF DropTimer
    <2>2. /\ timer' = [StopRegistered(c) EXCEPT ![t] = FreeTimer]
          /\ timers' = [timers EXCEPT ![c] = None]
          /\ UNCHANGED <<backend, caller>>
        BY <1>6 DEF DropTimer, Forget
    <2> HIDE DEF c
    <2>3. /\ timer'[t].phase = "free"
          /\ \A u \in TimerIds \ {t} : timer'[u] = StopRegistered(c)[u]
        BY <2>1, <2>2, StopRegisteredFacts DEF IInv, FreeTimer
    <2>4. ASSUME timers'[b] # None
          PROVE  /\ timers'[b] = timers[b]
                 /\ timer'[timers[b]].phase = "armed" => timer'[timers[b]] = timer[timers[b]]
        <3>1. c # b /\ timers'[b] = timers[b]
            BY <1>0, <2>1, <2>2, <2>4
        <3>2. timers[b] \in TimerIds /\ timer[timers[b]].key = b
            BY <1>0, <2>4, <3>1
        <3>3. timers[b] # timers[c]
            BY <1>0, <2>1, <2>4, <3>1, <3>2
        <3>4. CASE timers[b] = t
            BY <2>3, <3>1, <3>4
        <3>5. CASE timers[b] # t
            BY <2>1, <2>3, <3>1, <3>2, <3>3, <3>5, StopRegisteredFacts DEF IInv
        <3> QED BY <3>4, <3>5
    <2> QED BY <1>0, <2>2, <2>4, CoveredKept DEF Marked
<1>7. ASSUME NEW c \in Backends, AdminRecover(c) PROVE Covered(b)'
    <2>1. backend'[b].until \in Nat /\ backend'[b].until <= backend[b].until
        <3>1. Recover(backend[b]).until \in {0, backend[b].until}
            BY <1>0, DeadlineKept
        <3> QED BY <1>0, <1>7, <3>1 DEF AdminRecover
    <2>2. UNCHANGED <<timers, timer, caller>>
        BY <1>7 DEF AdminRecover
    <2> QED BY <1>0, <2>1, <2>2, CoveredKept DEF Marked
<1>8. CASE Tick
    <2>1. /\ backend'[b].until = Remaining(backend[b].until - 1)
          /\ Remaining(backend[b].until - 1) \in Nat
          /\ Remaining(backend[b].until - 1) <= backend[b].until
          /\ UNCHANGED <<timers, caller>>
        BY <1>0, <1>8, DeadlineKept, RemainingNat DEF Tick
    <2>2. ASSUME NEW g \in Callers, Marked(g, b)'
          PROVE  backend'[b].until <= Remaining(caller'[g].dur)
        <3>1. backend[b].until <= Remaining(caller[g].dur) /\ caller[g].dur \in Int
            BY <1>0, <2>1, <2>2 DEF Covered, Marked
        <3> QED BY <1>0, <2>1, <3>1, RemainingNat
    <2>3. ASSUME Uncovered(b)' PROVE FALSE
        <3>1. timers[b] # None /\ timers[b] \in TimerIds
            BY <1>0, <2>1, <2>3 DEF Uncovered
        <3>2. /\ timer'[timers[b]].phase = timer[timers[b]].phase
              /\ timer'[timers[b]].left = Remaining(timer[timers[b]].left - 1)
            BY <1>0, <1>8, <3>1 DEF Tick
        <3>3. backend[b].until <= timer[timers[b]].left
            BY <1>0, <2>1, <2>3, <3>1, <3>2 DEF Covered, Uncovered
        <3>4. backend'[b].until <= timer'[timers[b]].left
            BY <1>0, <2>1, <3>1, <3>2, <3>3, RemainingMonotone
        <3> QED BY <1>0, <2>1, <2>3, <3>1, <3>2, <3>4, RemainingNat DEF Uncovered
    <2> QED BY <2>2, <2>3 DEF Covered
<1>9. CASE UNCHANGED vars
    BY <1>0, <1>9, CoveredKept DEF vars, Marked
<1> QED BY <1>1, <1>2, <1>3, <1>4, <1>5, <1>6, <1>7, <1>8, <1>9 DEF Next

(* In every run in which no two callers stand between the halves of        *)
(* enterCooldown for a backend, its armed timer never runs out before its  *)
(* cooldown does, whatever the durations, the timer callbacks and the      *)
(* admin's recoveries (manager.go:17-18).                                  *)
THEOREM TimerNeverEarly == Spec => TimerCoversCooldown
<1>1. ASSUME NEW b \in Backends
      PROVE  Spec => (([]~Crossing(b)) => []~Uncovered(b))
    <2>1. Init => Covered(b)
        BY <1>1 DEF Init, Covered, Uncovered, Marked, IdleCaller
    <2>2. IInv /\ Covered(b) /\ ~Crossing(b) /\ ~Crossing(b)' /\ [Next]_vars => Covered(b)'
        BY <1>1, CoveredStep
    <2>3. Covered(b) => ~Uncovered(b)
        BY DEF Covered
    <2> QED BY <2>1, <2>2, <2>3, Invariance, PTL DEF Spec
<1> QED BY <1>1 DEF TimerCoversCooldown

-----------------------------------------------------------------------------
(* Induction on the natural numbers, for a set of them *)

Below == {p \in Nat \X Nat : p[1] < p[2]}

LEMMA BelowWellFounded == IsWellFoundedOn(Below, Nat)
<1>1. Below = OpToRel(<, Nat)
    BY DEF OpToRel, Below
<1> QED BY <1>1, NatLessThanWellFounded

LEMMA Least == ASSUME NEW S \in SUBSET Nat, S # {} PROVE \E x \in S : \A y \in S : x <= y
<1>1. PICK x \in S : \A y \in S : <<y, x>> \notin Below
    BY BelowWellFounded, WFMin
<1>2. ASSUME NEW y \in S PROVE x <= y
    <2>1. x \in Nat /\ y \in Nat /\ <<y, x>> \notin Below
        BY <1>1
    <2>2. <<y, x>> \in Nat \X Nat /\ <<y, x>>[1] = y /\ <<y, x>>[2] = x
        BY <2>1
    <2>3. ~(y < x)
        BY <2>1, <2>2 DEF Below
    <2> QED BY <2>1, <2>3
<1> QED BY <1>2

LEMMA Induction ==
    ASSUME NEW T, 0 \in T, \A n \in Nat : n \in T => n + 1 \in T
    PROVE  \A n \in Nat : n \in T
<1> DEFINE U == Nat \ T
<1> SUFFICES ASSUME U # {} PROVE FALSE
    OBVIOUS
<1>1. U \in SUBSET Nat
    OBVIOUS
<1> HIDE DEF U
<1>2. PICK j \in U : \A k \in U : j <= k
    BY <1>1, Least
<1>3. j \in Nat /\ j \notin T
    BY <1>2 DEF U
<1>4. j - 1 \in Nat /\ j - 1 + 1 = j
    BY <1>3
<1>5. j - 1 \in T
    BY <1>2, <1>3, <1>4 DEF U
<1> QED BY <1>3, <1>4, <1>5

-----------------------------------------------------------------------------
(* Powers *)

(* The powers of two a duration of 63 bits leaves room for.                *)
LEMMA Powers ==
    /\ 2^0 = 1
    /\ 2^1 = 2
    /\ 2^2 = 4
    /\ 2^3 = 8
    /\ 2^4 = 16
    /\ 2^5 = 32
    /\ 2^6 = 64
    /\ 2^7 = 128
    /\ 2^8 = 256
    /\ 2^9 = 512
    /\ 2^10 = 1024
    /\ 2^11 = 2048
    /\ 2^12 = 4096
    /\ 2^13 = 8192
    /\ 2^14 = 16384
    /\ 2^15 = 32768
    /\ 2^16 = 65536
    /\ 2^17 = 131072
    /\ 2^18 = 262144
    /\ 2^19 = 524288
    /\ 2^20 = 1048576
    /\ 2^21 = 2097152
    /\ 2^22 = 4194304
    /\ 2^23 = 8388608
    /\ 2^24 = 16777216
    /\ 2^25 = 33554432
    /\ 2^26 = 67108864
    /\ 2^27 = 134217728
OBVIOUS

LEMMA PowerSuccessor ==
    ASSUME NEW k \in 0..26
    PROVE  2^k \in Nat \ {0} /\ 2^(k + 1) = 2 * 2^k
<1>1. k = 0 \/ k = 1 \/ k = 2 \/ k = 3 \/ k = 4 \/ k = 5 \/ k = 6 \/ k = 7 \/ k = 8 \/
      k = 9 \/ k = 10 \/ k = 11 \/ k = 12 \/ k = 13 \/ k = 14 \/ k = 15 \/ k = 16 \/ k = 17 \/
      k = 18 \/ k = 19 \/ k = 20 \/ k = 21 \/ k = 22 \/ k = 23 \/ k = 24 \/ k = 25 \/ k = 26
    OBVIOUS
<1>2. CASE k = 0 BY <1>2, Powers
<1>3. CASE k = 1 BY <1>3, Powers
<1>4. CASE k = 2 BY <1>4, Powers
<1>5. CASE k = 3 BY <1>5, Powers
<1>6. CASE k = 4 BY <1>6, Powers
<1>7. CASE k = 5 BY <1>7, Powers
<1>8. CASE k = 6 BY <1>8, Powers
<1>9. CASE k = 7 BY <1>9, Powers
<1>10. CASE k = 8 BY <1>10, Powers
<1>11. CASE k = 9 BY <1>11, Powers
<1>12. CASE k = 10 BY <1>12, Powers
<1>13. CASE k = 11 BY <1>13, Powers
<1>14. CASE k = 12 BY <1>14, Powers
<1>15. CASE k = 13 BY <1>15, Powers
<1>16. CASE k = 14 BY <1>16, Powers
<1>17. CASE k = 15 BY <1>17, Powers
<1>18. CASE k = 16 BY <1>18, Powers
<1>19. CASE k = 17 BY <1>19, Powers
<1>20. CASE k = 18 BY <1>20, Powers
<1>21. CASE k = 19 BY <1>21, Powers
<1>22. CASE k = 20 BY <1>22, Powers
<1>23. CASE k = 21 BY <1>23, Powers
<1>24. CASE k = 22 BY <1>24, Powers
<1>25. CASE k = 23 BY <1>25, Powers
<1>26. CASE k = 24 BY <1>26, Powers
<1>27. CASE k = 25 BY <1>27, Powers
<1>28. CASE k = 26 BY <1>28, Powers
<1> QED BY <1>1, <1>2, <1>3, <1>4, <1>5, <1>6, <1>7, <1>8, <1>9, <1>10, <1>11, <1>12,
       <1>13, <1>14, <1>15, <1>16, <1>17, <1>18, <1>19, <1>20, <1>21, <1>22, <1>23,
       <1>24, <1>25, <1>26, <1>27, <1>28

-----------------------------------------------------------------------------
(* Halving *)

Halving(x, h) == h = [k \in Positions |-> IF k = 0 THEN x ELSE h[k - 1] \div 2]

LEMMA HalvingExists == ASSUME NEW x PROVE \E h : Halving(x, h)
<1> DEFINE UpTo(n, h) == h = [k \in 0..n |-> IF k = 0 THEN x ELSE h[k - 1] \div 2]
           Has(n) == \E h : UpTo(n, h)
           T == {n \in Nat : Has(n)}
<1>1. Has(0)
    <2> DEFINE g == [k \in 0..0 |-> x]
    <2>1. UpTo(0, g)
        OBVIOUS
    <2> HIDE DEF g, UpTo
    <2> QED BY <2>1
<1>2. ASSUME NEW n \in Nat, Has(n) PROVE Has(n + 1)
    <2>1. PICK h : UpTo(n, h)
        BY <1>2
    <2> DEFINE g == [k \in 0..(n + 1) |-> IF k = 0 THEN x ELSE h[k - 1] \div 2]
    <2>2. ASSUME NEW k \in 0..(n + 1), k # 0 PROVE g[k - 1] = h[k - 1]
        <3>1. k - 1 \in 0..n /\ k - 1 \in 0..(n + 1)
            BY <2>2
        <3>2. h[k - 1] = IF k - 1 = 0 THEN x ELSE h[k - 1 - 1] \div 2
            BY <2>1, <3>1
        <3> QED BY <3>1, <3>2
    <2>3. UpTo(n + 1, g)
        BY <2>2
    <2> HIDE DEF g, UpTo
    <2> QED BY <2>3
<1> HIDE DEF Has
<1>3. 0 \in T /\ \A n \in Nat : n \in T => n + 1 \in T
    BY <1>1, <1>2
<1> HIDE DEF T
<1>4. \A n \in Nat : n \in T
    BY <1>3, Induction
<1>5. 63 \in T
    BY <1>4
<1> USE DEF T, Has
<1>6. \E h : UpTo(63, h)
    BY <1>5
<1> QED BY <1>6 DEF Halving, Positions, Sign

LEMMA HalvesStep ==
    ASSUME NEW x \in Nat
    PROVE  /\ Halves(x)[0] = x
           /\ \A k \in 1..63 : Halves(x)[k] = Halves(x)[k - 1] \div 2
<1> DEFINE h == CHOOSE g : g = [k \in Positions |-> IF k = 0 THEN x ELSE g[k - 1] \div 2]
<1>1. \E g : g = [k \in Positions |-> IF k = 0 THEN x ELSE g[k - 1] \div 2]
    BY HalvingExists DEF Halving
<1>2. Halving(x, h)
    BY <1>1 DEF Halving
<1>3. Halves(x) = h
    BY DEF Halves
<1> HIDE DEF h
<1> QED BY <1>2, <1>3 DEF Halving, Positions, Sign

LEMMA HalvesType ==
    ASSUME NEW x \in Nat
    PROVE  \A k \in Positions : Halves(x)[k] \in Nat
<1> DEFINE h == Halves(x)
           T == {n \in Nat : n \in 0..63 => h[n] \in Nat}
<1>0. h[0] = x /\ \A k \in 1..63 : h[k] = h[k - 1] \div 2
    BY HalvesStep
<1> HIDE DEF h
<1>1. 0 \in T
    BY <1>0
<1>2. ASSUME NEW n \in Nat, n \in T PROVE n + 1 \in T
    <2> SUFFICES ASSUME n + 1 \in 0..63 PROVE h[n + 1] \in Nat
        OBVIOUS
    <2>1. n \in 0..63 /\ n + 1 \in 1..63 /\ n + 1 - 1 = n
        OBVIOUS
    <2>2. h[n] \in Nat
        BY <1>2, <2>1
    <2>3. h[n + 1] = h[n] \div 2
        BY <1>0, <2>1
    <2> QED BY <2>2, <2>3
<1> HIDE DEF T
<1>3. \A n \in Nat : n \in T
    BY <1>1, <1>2, Induction
<1> QED BY <1>3 DEF T, h, Positions, Sign

(* The k-th half is twice the next one, or one more.                       *)
LEMMA HalvesParity ==
    ASSUME NEW x \in Nat, NEW k \in 0..62
    PROVE  /\ Halves(x)[k] \in Nat /\ Halves(x)[k + 1] \in Nat
           /\ Halves(x)[k + 1] = Halves(x)[k] \div 2
           /\ Halves(x)[k] = 2 * Halves(x)[k + 1] + (Halves(x)[k] % 2)
           /\ Halves(x)[k] % 2 \in 0..1
<1> DEFINE h == Halves(x)
           j == k + 1
<1>1. \A i \in 0..63 : h[i] \in Nat
    BY HalvesType DEF Positions, Sign
<1>2. \A i \in 1..63 : h[i] = h[i - 1] \div 2
    BY HalvesStep
<1>3. k \in 0..63 /\ j \in 0..63 /\ j \in 1..63 /\ j - 1 = k
    OBVIOUS
<1> HIDE DEF h, j
<1>4. h[k] \in Nat /\ h[j] \in Nat
    BY <1>1, <1>3
<1>5. h[j] = h[k] \div 2
    BY <1>2, <1>3
<1>6. h[k] = 2 * h[j] + (h[k] % 2) /\ h[k] % 2 \in 0..1
    BY <1>4, <1>5
<1> QED BY <1>4, <1>5, <1>6 DEF h, j

LEMMA FourHalves ==
    ASSUME NEW x \in Nat, NEW k \in 0..59
    PROVE  Halves(x)[k + 4] = Halves(x)[k] \div 16
<1> DEFINE h == Halves(x)
           k1 == k + 1
           k2 == k + 2
           k3 == k + 3
           k4 == k + 4
<1>1. /\ k \in 0..62 /\ k1 \in 0..62 /\ k2 \in 0..62 /\ k3 \in 0..62
      /\ k1 = k + 1 /\ k2 = k1 + 1 /\ k3 = k2 + 1 /\ k4 = k3 + 1
    OBVIOUS
<1>2. \A i \in 0..62 : h[i] \in Nat /\ h[i + 1] = h[i] \div 2
    BY HalvesParity
<1> HIDE DEF h, k1, k2, k3, k4
<1>3. h[k] \in Nat /\ h[k1] = h[k] \div 2
    BY <1>1, <1>2
<1>4. h[k1] \in Nat /\ h[k2] = h[k1] \div 2
    BY <1>1, <1>2
<1>5. h[k2] \in Nat /\ h[k3] = h[k2] \div 2
    BY <1>1, <1>2
<1>6. h[k3] \in Nat /\ h[k4] = h[k3] \div 2
    BY <1>1, <1>2
<1>7. h[k2] = h[k] \div 4
    BY <1>3, <1>4
<1>8. h[k4] = h[k2] \div 4
    BY <1>5, <1>6
<1>9. h[k4] = h[k] \div 16
    BY <1>3, <1>7, <1>8
<1> QED BY <1>9 DEF h, k4

LEMMA ThirteenHalves ==
    ASSUME NEW x \in Nat, NEW k \in 0..50
    PROVE  Halves(x)[k + 13] = Halves(x)[k] \div 8192
<1> DEFINE h == Halves(x)
           k1 == k + 4
           k2 == k + 8
           k3 == k + 12
           k4 == k + 13
<1>1. /\ k \in 0..59 /\ k1 \in 0..59 /\ k2 \in 0..59 /\ k3 \in 0..62
      /\ k1 = k + 4 /\ k2 = k1 + 4 /\ k3 = k2 + 4 /\ k4 = k3 + 1
    OBVIOUS
<1>2. \A i \in 0..59 : h[i] \in Nat /\ h[i + 4] = h[i] \div 16
    <2> SUFFICES ASSUME NEW i \in 0..59 PROVE h[i] \in Nat /\ h[i + 4] = h[i] \div 16
        OBVIOUS
    <2>1. i \in Positions
        BY DEF Positions, Sign
    <2> QED BY <2>1, FourHalves, HalvesType
<1>3. \A i \in 0..62 : h[i] \in Nat /\ h[i + 1] = h[i] \div 2
    BY HalvesParity
<1> HIDE DEF h, k1, k2, k3, k4
<1>4. h[k] \in Nat /\ h[k1] = h[k] \div 16
    BY <1>1, <1>2
<1>5. h[k1] \in Nat /\ h[k2] = h[k1] \div 16 /\ h[k2] \in Nat
    BY <1>1, <1>2
<1>6. h[k3] = h[k2] \div 16 /\ h[k4] = h[k3] \div 2
    BY <1>1, <1>2, <1>3
<1>7. h[k2] = h[k] \div 256
    BY <1>4, <1>5, SMTT(60)
<1>8. h[k4] = h[k2] \div 32
    BY <1>5, <1>6, SMTT(60)
<1>9. h[k4] = h[k] \div 8192
    BY <1>4, <1>7, <1>8, SMT
<1> QED BY <1>9, SMT DEF h, k4

(* 2^52: the 11 low bits of a duration of whole minutes are 0.             *)
HighBit == 4503599627370496

(* A number of 52 bits has no bits above them.                             *)
LEMMA HalvesEnd ==
    ASSUME NEW x \in Nat, x < HighBit
    PROVE  \A k \in 52..63 : Halves(x)[k] = 0
<1> DEFINE h == Halves(x)
<1>0. h[0] = x /\ \A k \in 1..63 : h[k] = h[k - 1] \div 2
    BY HalvesStep
<1>1. h[0] \in Nat /\ h[13] \in Nat /\ h[26] \in Nat /\ h[39] \in Nat /\ h[52] \in Nat
    BY HalvesType DEF Positions, Sign
<1>2. h[0 + 13] = h[0] \div 8192 /\ h[13 + 13] = h[13] \div 8192
    BY ThirteenHalves, SMT
<1>3. h[26 + 13] = h[26] \div 8192 /\ h[39 + 13] = h[39] \div 8192
    BY ThirteenHalves, SMT
<1> HIDE DEF h
<1>4. h[26] < 67108864
    BY <1>0, <1>1, <1>2, SMT DEF HighBit
<1>6. h[52] = 0
    BY <1>1, <1>3, <1>4, SMT
<1> DEFINE T == {n \in Nat : n \in 0..11 => h[52 + n] = 0}
<1>7. 0 \in T
    BY <1>6
<1>8. ASSUME NEW n \in Nat, n \in T PROVE n + 1 \in T
    <2> SUFFICES ASSUME n + 1 \in 0..11 PROVE h[52 + (n + 1)] = 0
        OBVIOUS
    <2> DEFINE j == 52 + (n + 1)
    <2>1. n \in 0..11 /\ j \in 1..63 /\ j - 1 = 52 + n
        OBVIOUS
    <2>2. h[52 + n] = 0
        BY <1>8, <2>1
    <2> HIDE DEF j
    <2>3. h[j] = h[j - 1] \div 2
        BY <1>0, <2>1
    <2>4. h[j] = 0
        BY <2>1, <2>2, <2>3
    <2> QED BY <2>4 DEF j
<1> HIDE DEF T
<1>9. \A n \in Nat : n \in T
    BY <1>7, <1>8, Induction
<1>10. ASSUME NEW k \in 52..63 PROVE h[k] = 0
    <2>1. k - 52 \in Nat /\ k - 52 \in 0..11 /\ 52 + (k - 52) = k
        OBVIOUS
    <2>2. h[52 + (k - 52)] = 0
        BY <1>9, <2>1 DEF T
    <2> QED BY <2>1, <2>2
<1> QED BY <1>10 DEF h

-----------------------------------------------------------------------------
(* Doubling *)

LEMMA BitsType ==
    ASSUME NEW x \in Nat
    PROVE  Bits(x) \in [Positions -> BOOLEAN]
BY DEF Bits

(* A half of twice a number, one place up, is the number's.                *)
LEMMA DoubleHalves ==
    ASSUME NEW x \in Nat
    PROVE  \A k \in 0..62 : Halves(2 * x)[k + 1] = Halves(x)[k]
<1> DEFINE h == Halves(x)
           d == Halves(2 * x)
           T == {n \in Nat : n \in 0..62 => d[n + 1] = h[n]}
<1>1. h[0] = x /\ d[0] = 2 * x
    BY HalvesStep
<1>2. \A k \in 0..62 : /\ h[k] \in Nat /\ h[k + 1] = h[k] \div 2
                       /\ d[k] \in Nat /\ d[k + 1] = d[k] \div 2
    <2> SUFFICES ASSUME NEW k \in 0..62
                 PROVE  /\ h[k] \in Nat /\ h[k + 1] = h[k] \div 2
                        /\ d[k] \in Nat /\ d[k + 1] = d[k] \div 2
        OBVIOUS
    <2>1. 2 * x \in Nat
        OBVIOUS
    <2> QED BY <2>1, HalvesParity, Zenon
<1> HIDE DEF h, d
<1>3. 0 \in T
    <2>1. d[0 + 1] = d[0] \div 2
        BY <1>2
    <2> QED BY <1>1, <2>1
<1>4. ASSUME NEW n \in Nat, n \in T PROVE n + 1 \in T
    <2> SUFFICES ASSUME n + 1 \in 0..62 PROVE d[n + 1 + 1] = h[n + 1]
        OBVIOUS
    <2>1. n \in 0..62 /\ n + 1 \in 0..62
        OBVIOUS
    <2>2. d[n + 1] = h[n]
        BY <1>4, <2>1
    <2>3. d[n + 1 + 1] = d[n + 1] \div 2 /\ h[n + 1] = h[n] \div 2
        BY <1>2, <2>1
    <2> QED BY <2>2, <2>3
<1> HIDE DEF T
<1>5. \A n \in Nat : n \in T
    BY <1>3, <1>4, Induction
<1> QED BY <1>5 DEF T, h, d

LEMMA DoubleBits ==
    ASSUME NEW x \in Nat
    PROVE  TimesPowerOfTwo(Bits(x), 1) = Bits(2 * x)
<1> DEFINE t == TimesPowerOfTwo(Bits(x), 1)
<1>1. ASSUME NEW i \in Positions PROVE t[i] = Bits(2 * x)[i]
    <2>1. Bits(2 * x)[i] = (i >= 11 /\ Halves(2 * x)[i - 11] % 2 = 1)
        BY DEF Bits
    <2>2. t[i] = (i >= 1 /\ Bits(x)[i - 1])
        BY DEF TimesPowerOfTwo
    <2>3. i \in 0..63
        BY DEF Positions, Sign
    <2>4. i >= 1 => Bits(x)[i - 1] = (i - 1 >= 11 /\ Halves(x)[i - 1 - 11] % 2 = 1)
        <3>1. i >= 1 => i - 1 \in Positions
            BY <2>3 DEF Positions, Sign
        <3> QED BY <3>1 DEF Bits
    <2>5. CASE i < 11
        <3>1. ~(i >= 11) /\ ~(i - 1 >= 11)
            BY <2>3, <2>5
        <3> QED BY <2>1, <2>2, <2>4, <3>1, Zenon
    <2>6. CASE i = 11
        <3>1. Halves(2 * x)[0] = 2 * x
            BY HalvesStep
        <3>2. (2 * x) % 2 = 0
            OBVIOUS
        <3>3. i - 11 = 0 /\ ~(i - 1 >= 11) /\ 0 # 1
            BY <2>6
        <3>4. ~(Halves(2 * x)[i - 11] % 2 = 1)
            BY <3>1, <3>2, <3>3
        <3> QED BY <2>1, <2>2, <2>4, <3>3, <3>4, Zenon
    <2>7. CASE i > 11
        <3> DEFINE j == i - 12
        <3>1. j \in 0..62 /\ i - 11 = j + 1 /\ i - 1 - 11 = j /\ i >= 1 /\ i - 1 >= 11 /\ i >= 11
            BY <2>3, <2>7
        <3> HIDE DEF j
        <3>2. Halves(2 * x)[j + 1] = Halves(x)[j]
            BY <3>1, DoubleHalves
        <3> QED BY <2>1, <2>2, <2>4, <3>1, <3>2, Zenon
    <2> QED BY <2>3, <2>5, <2>6, <2>7
<1>2. t = [i \in Positions |-> t[i]] /\ Bits(2 * x) = [i \in Positions |-> Bits(2 * x)[i]]
    BY DEF TimesPowerOfTwo, Bits
<1> HIDE DEF t
<1>3. t = Bits(2 * x)
    BY <1>1, <1>2
<1> QED BY <1>3 DEF t

LEMMA TimesOnce ==
    ASSUME NEW d \in [Positions -> BOOLEAN], NEW k \in Nat
    PROVE  /\ TimesPowerOfTwo(TimesPowerOfTwo(d, k), 1) = TimesPowerOfTwo(d, k + 1)
           /\ TimesPowerOfTwo(d, 0) = d
<1> DEFINE t == TimesPowerOfTwo(d, k)
           u == TimesPowerOfTwo(t, 1)
           v == TimesPowerOfTwo(d, k + 1)
<1>1. ASSUME NEW i \in Positions PROVE u[i] = v[i]
    <2>1. u[i] = (i >= 1 /\ t[i - 1])
        BY DEF TimesPowerOfTwo
    <2>2. v[i] = (i >= k + 1 /\ d[i - (k + 1)])
        BY DEF TimesPowerOfTwo
    <2>3. i \in 0..63 /\ i - (k + 1) = i - 1 - k
        BY DEF Positions, Sign
    <2>4. i >= 1 => t[i - 1] = (i - 1 >= k /\ d[i - 1 - k])
        <3>1. i >= 1 => i - 1 \in Positions
            BY <2>3 DEF Positions, Sign
        <3> QED BY <3>1 DEF TimesPowerOfTwo
    <2> HIDE DEF t, u, v
    <2>5. CASE i = 0
        BY <2>1, <2>2, <2>5
    <2>6. CASE i >= 1
        <3>1. i >= k + 1 <=> i - 1 >= k
            BY <2>3, <2>6
        <3> QED BY <2>1, <2>2, <2>3, <2>4, <2>6, <3>1, Zenon
    <2> QED BY <2>3, <2>5, <2>6
<1>2. u = [i \in Positions |-> u[i]] /\ v = [i \in Positions |-> v[i]]
    BY DEF TimesPowerOfTwo
<1>3. TimesPowerOfTwo(d, 0) = d
    <2>1. \A i \in Positions : TimesPowerOfTwo(d, 0)[i] = d[i]
        BY DEF TimesPowerOfTwo, Positions, Sign
    <2>2. TimesPowerOfTwo(d, 0) = [i \in Positions |-> TimesPowerOfTwo(d, 0)[i]]
        BY DEF TimesPowerOfTwo
    <2> QED BY <2>1, <2>2
<1> HIDE DEF t, u, v
<1>4. u = v
    BY <1>1, <1>2
<1> QED BY <1>3, <1>4 DEF t, u, v

(* The product with a power of two is the product, the sign being far.     *)
LEMMA TimesBits ==
    ASSUME NEW x \in Nat, NEW n \in 0..27
    PROVE  2^n \in Nat /\ TimesPowerOfTwo(Bits(x), n) = Bits(x * 2^n)
<1> DEFINE T == {k \in Nat : k \in 0..27 => /\ 2^k \in Nat
                                            /\ TimesPowerOfTwo(Bits(x), k) = Bits(x * 2^k)}
<1>1. 0 \in T
    <2>1. 2^0 = 1 /\ x * 1 = x
        BY Powers
    <2>2. TimesPowerOfTwo(Bits(x), 0) = Bits(x)
        BY TimesOnce, BitsType
    <2> QED BY <2>1, <2>2
<1>2. ASSUME NEW k \in Nat, k \in T PROVE k + 1 \in T
    <2> SUFFICES ASSUME k + 1 \in 0..27
                 PROVE  /\ 2^(k + 1) \in Nat
                        /\ TimesPowerOfTwo(Bits(x), k + 1) = Bits(x * 2^(k + 1))
        OBVIOUS
    <2> DEFINE p == 2^k
               q == 2^(k + 1)
    <2>1. k \in 0..26 /\ k \in 0..27
        OBVIOUS
    <2>2. p \in Nat /\ q = 2 * p
        BY <2>1, PowerSuccessor
    <2>3. TimesPowerOfTwo(Bits(x), k) = Bits(x * p)
        BY <1>2, <2>1
    <2>4. TimesPowerOfTwo(Bits(x), k + 1) = TimesPowerOfTwo(Bits(x * p), 1)
        BY <2>3, TimesOnce, BitsType
    <2> HIDE DEF p, q
    <2>5. x * p \in Nat /\ 2 * (x * p) = x * q /\ q \in Nat
        BY <2>2
    <2>6. TimesPowerOfTwo(Bits(x * p), 1) = Bits(2 * (x * p))
        BY <2>5, DoubleBits
    <2> QED BY <2>4, <2>5, <2>6 DEF q
<1> HIDE DEF T
<1>3. \A k \in Nat : k \in T
    BY <1>1, <1>2, Induction
<1> QED BY <1>3 DEF T

-----------------------------------------------------------------------------
(* Comparing *)

(* The order of two halves is that of the numbers.                         *)
LEMMA HalvesOrder ==
    ASSUME NEW x \in Nat, NEW y \in Nat, NEW m \in 0..63, Halves(x)[m] > Halves(y)[m]
    PROVE  x > y
<1> DEFINE h == Halves(x)
           g == Halves(y)
           T == {n \in Nat : n \in 0..m => h[m - n] > g[m - n]}
<1>1. h[0] = x /\ g[0] = y
    BY HalvesStep
<1>2. \A k \in 0..62 : /\ h[k] \in Nat /\ h[k + 1] \in Nat /\ h[k + 1] = h[k] \div 2
                       /\ g[k] \in Nat /\ g[k + 1] \in Nat /\ g[k + 1] = g[k] \div 2
    BY HalvesParity
<1>3. h[m] > g[m]
    OBVIOUS
<1> HIDE DEF h, g
<1>4. 0 \in T
    BY <1>3
<1>5. ASSUME NEW n \in Nat, n \in T PROVE n + 1 \in T
    <2> SUFFICES ASSUME n + 1 \in 0..m PROVE h[m - (n + 1)] > g[m - (n + 1)]
        OBVIOUS
    <2> DEFINE k == m - (n + 1)
    <2>1. k \in 0..62 /\ k + 1 = m - n /\ n \in 0..m
        OBVIOUS
    <2>2. h[k + 1] > g[k + 1]
        <3>1. h[m - n] > g[m - n]
            BY <1>5, <2>1
        <3> QED BY <2>1, <3>1
    <2> HIDE DEF k
    <2>3. h[k] > g[k]
        <3>1. /\ h[k] \in Nat /\ h[k + 1] \in Nat /\ h[k + 1] = h[k] \div 2
              /\ g[k] \in Nat /\ g[k + 1] \in Nat /\ g[k + 1] = g[k] \div 2
            BY <1>2, <2>1, Zenon
        <3> QED BY <2>2, <3>1
    <2> QED BY <2>3 DEF k
<1> HIDE DEF T
<1>6. \A n \in Nat : n \in T
    BY <1>4, <1>5, Induction
<1>7. m \in Nat /\ m \in 0..m /\ m - m = 0
    OBVIOUS
<1>8. h[m - m] > g[m - m]
    BY <1>6, <1>7 DEF T
<1> QED BY <1>1, <1>7, <1>8

(* Numbers whose bits agree above a position have the same halves there.   *)
LEMMA HalvesAgree ==
    ASSUME NEW x \in Nat, NEW y \in Nat, NEW m \in 0..51,
           \A k \in 52..63 : Halves(x)[k] = Halves(y)[k],
           \A k \in m + 1 .. 52 : (Halves(x)[k] % 2 = 1) <=> (Halves(y)[k] % 2 = 1)
    PROVE  Halves(x)[m + 1] = Halves(y)[m + 1]
<1> DEFINE h == Halves(x)
           g == Halves(y)
           T == {n \in Nat : n \in 0..(62 - m) => h[63 - n] = g[63 - n]}
<1>1. \A k \in 0..62 : /\ h[k] \in Nat /\ h[k + 1] \in Nat
                       /\ g[k] \in Nat /\ g[k + 1] \in Nat
                       /\ h[k] = 2 * h[k + 1] + (h[k] % 2) /\ h[k] % 2 \in 0..1
                       /\ g[k] = 2 * g[k + 1] + (g[k] % 2) /\ g[k] % 2 \in 0..1
    BY HalvesParity
<1>2. \A k \in 52..63 : h[k] = g[k]
    OBVIOUS
<1>3. \A k \in m + 1 .. 52 : (h[k] % 2 = 1) <=> (g[k] % 2 = 1)
    OBVIOUS
<1> HIDE DEF h, g
<1>4. 0 \in T
    BY <1>2
<1>5. ASSUME NEW n \in Nat, n \in T PROVE n + 1 \in T
    <2> SUFFICES ASSUME n + 1 \in 0..(62 - m) PROVE h[63 - (n + 1)] = g[63 - (n + 1)]
        OBVIOUS
    <2> DEFINE k == 63 - (n + 1)
    <2>1. k \in 0..62 /\ k + 1 = 63 - n /\ n \in 0..(62 - m) /\ k >= m + 1
        OBVIOUS
    <2>2. h[k + 1] = g[k + 1]
        BY <1>5, <2>1
    <2> HIDE DEF k
    <2>3. CASE k >= 52
        <3>1. k \in 52..63
            BY <2>1, <2>3
        <3> QED BY <1>2, <3>1 DEF k
    <2>4. CASE k < 52
        <3>1. k \in m + 1 .. 52
            BY <2>1, <2>4
        <3>2. (h[k] % 2 = 1) <=> (g[k] % 2 = 1)
            BY <1>3, <3>1
        <3>3. /\ h[k] = 2 * h[k + 1] + (h[k] % 2) /\ h[k] % 2 \in 0..1
              /\ g[k] = 2 * g[k + 1] + (g[k] % 2) /\ g[k] % 2 \in 0..1
            BY <1>1, <2>1
        <3>4. h[k] % 2 = g[k] % 2
            BY <3>2, <3>3
        <3>5. h[k] = g[k]
            BY <2>2, <3>3, <3>4
        <3> QED BY <3>5 DEF k
    <2> QED BY <2>1, <2>3, <2>4
<1> HIDE DEF T
<1>6. \A n \in Nat : n \in T
    BY <1>4, <1>5, Induction
<1>7. 62 - m \in Nat /\ 62 - m \in 0..(62 - m) /\ 63 - (62 - m) = m + 1
    OBVIOUS
<1>8. h[63 - (62 - m)] = g[63 - (62 - m)]
    BY <1>6, <1>7 DEF T
<1> QED BY <1>7, <1>8 DEF h, g

(* Two different numbers have a last place where their halves differ.      *)
LEMMA HalvesDiffer ==
    ASSUME NEW x \in Nat, NEW y \in Nat, x # y,
           x < HighBit, y < HighBit
    PROVE  \E m \in 0..51 : /\ Halves(x)[m] # Halves(y)[m]
                            /\ \A k \in m + 1 .. 63 : Halves(x)[k] = Halves(y)[k]
<1> DEFINE h == Halves(x)
           g == Halves(y)
           U == {n \in 0..63 : h[63 - n] # g[63 - n]}
<1>1. h[0] = x /\ g[0] = y
    BY HalvesStep
<1>2. \A k \in 52..63 : h[k] = g[k]
    <2> SUFFICES ASSUME NEW k \in 52..63 PROVE h[k] = g[k]
        OBVIOUS
    <2>1. h[k] = 0 /\ g[k] = 0
        BY HalvesEnd, Zenon
    <2> QED BY <2>1
<1>3. 63 \in U
    BY <1>1
<1>4. U \in SUBSET Nat /\ U # {}
    <2>1. 0..63 \subseteq Nat
        OBVIOUS
    <2> QED BY <1>3, <2>1, Zenon
<1> HIDE DEF U
<1>5. PICK n \in U : \A k \in U : n <= k
    BY <1>4, Least
<1> DEFINE m == 63 - n
<1>6. n \in 0..63 /\ h[m] # g[m]
    BY <1>5 DEF U
<1>7. m \in 0..63
    BY <1>6
<1> HIDE DEF h, g
<1>8. m \notin 52..63
    BY <1>2, <1>6
<1>9. ASSUME NEW k \in m + 1 .. 63 PROVE h[k] = g[k]
    <2>1. 63 - k \in 0..63 /\ 63 - (63 - k) = k /\ ~(n <= 63 - k)
        BY <1>6
    <2>2. 63 - k \notin U
        BY <1>5, <2>1
    <2>3. h[63 - (63 - k)] = g[63 - (63 - k)]
        BY <2>1, <2>2 DEF U
    <2> QED BY <2>1, <2>3
<1>10. m \in 0..51
    BY <1>7, <1>8
<1> HIDE DEF m
<1> QED BY <1>6, <1>9, <1>10 DEF h, g

(* Comparing the bits of two numbers of 52 bits compares the numbers.      *)
LEMMA ExceedsBits ==
    ASSUME NEW x \in Nat, NEW y \in Nat, x < HighBit, y < HighBit
    PROVE  Exceeds(Bits(x), Bits(y)) <=> x > y
<1> DEFINE h == Halves(x)
           g == Halves(y)
           d == Bits(x)
           e == Bits(y)
<1>1. \A i \in Positions : /\ d[i] = (i >= 11 /\ h[i - 11] % 2 = 1)
                           /\ e[i] = (i >= 11 /\ g[i - 11] % 2 = 1)
    BY DEF Bits
<1>2. \A k \in 52..63 : h[k] = 0 /\ g[k] = 0
    BY HalvesEnd, Zenon
<1>3. \A k \in 0..62 : /\ h[k] \in Nat /\ h[k + 1] \in Nat
                       /\ g[k] \in Nat /\ g[k + 1] \in Nat
                       /\ h[k] = 2 * h[k + 1] + (h[k] % 2) /\ h[k] % 2 \in 0..1
                       /\ g[k] = 2 * g[k + 1] + (g[k] % 2) /\ g[k] % 2 \in 0..1
    BY HalvesParity
<1> HIDE DEF h, g, d, e
<1>4. d[Sign] = e[Sign]
    <2>1. 63 \in Positions /\ 63 - 11 \in 52..63
        BY DEF Positions, Sign
    <2>2. h[63 - 11] = g[63 - 11]
        BY <1>2, <2>1
    <2> QED BY <1>1, <2>1, <2>2 DEF Sign
<1>5. Exceeds(d, e) <=> \E i \in Positions :
                            d[i] /\ ~e[i] /\ \A j \in i + 1 .. Sign : d[j] = e[j]
    BY <1>4 DEF Exceeds
<1>6. ASSUME x > y PROVE Exceeds(d, e)
    <2>1. x # y
        BY <1>6
    <2>2. PICK m \in 0..51 : h[m] # g[m] /\ \A k \in m + 1 .. 63 : h[k] = g[k]
        BY <2>1, HalvesDiffer DEF h, g
    <2>0. /\ h[m] \in Nat /\ h[m + 1] \in Nat
          /\ g[m] \in Nat /\ g[m + 1] \in Nat
          /\ h[m] = 2 * h[m + 1] + (h[m] % 2) /\ h[m] % 2 \in 0..1
          /\ g[m] = 2 * g[m + 1] + (g[m] % 2) /\ g[m] % 2 \in 0..1
        <3>1. m \in 0..62
            OBVIOUS
        <3> QED BY <1>3, <3>1, Zenon
    <2>3. ~(h[m] < g[m])
        <3>1. m \in 0..63 /\ ~(y > x)
            BY <1>6
        <3>2. ~(g[m] > h[m])
            BY <3>1, HalvesOrder DEF h, g
        <3> QED BY <2>0, <3>2
    <2>4. h[m + 1] = g[m + 1]
        BY <2>2
    <2>5. h[m] % 2 = 1 /\ ~(g[m] % 2 = 1)
        BY <2>0, <2>2, <2>3, <2>4
    <2> DEFINE i == m + 11
    <2>6. i \in Positions /\ i >= 11 /\ i - 11 = m
        BY DEF Positions, Sign
    <2>7. d[i] /\ ~e[i]
        BY <1>1, <2>5, <2>6
    <2>8. ASSUME NEW j \in i + 1 .. Sign PROVE d[j] = e[j]
        <3>1. j \in Positions /\ j - 11 \in m + 1 .. 63
            BY DEF Positions, Sign
        <3>2. h[j - 11] = g[j - 11]
            BY <2>2, <3>1
        <3> QED BY <1>1, <3>1, <3>2
    <2> HIDE DEF i
    <2> QED BY <1>5, <2>6, <2>7, <2>8
<1>7. ASSUME Exceeds(d, e) PROVE x > y
    <2>1. PICK i \in Positions : d[i] /\ ~e[i] /\ \A j \in i + 1 .. Sign : d[j] = e[j]
        BY <1>5, <1>7
    <2> DEFINE m == i - 11
    <2>2. i \in 0..63
        BY DEF Positions, Sign
    <2>3. i >= 11 /\ h[i - 11] % 2 = 1 /\ ~(g[i - 11] % 2 = 1)
        BY <1>1, <2>1
    <2>4. i # 63
        BY <1>4, <2>1 DEF Sign
    <2>5. m \in 0..51 /\ m \in 0..62 /\ m + 11 = i
        BY <2>2, <2>3, <2>4
    <2>6. ASSUME NEW k \in m + 1 .. 52 PROVE (h[k] % 2 = 1) <=> (g[k] % 2 = 1)
        <3>1. k + 11 \in i + 1 .. Sign /\ k + 11 \in Positions /\ k + 11 - 11 = k /\ k + 11 >= 11
            BY <2>2, <2>3, <2>4 DEF Positions, Sign
        <3>2. d[k + 11] = e[k + 11]
            BY <2>1, <3>1
        <3> QED BY <1>1, <3>1, <3>2
    <2>7. h[m] % 2 = 1 /\ ~(g[m] % 2 = 1)
        BY <2>3
    <2> HIDE DEF m
    <2>8. \A k \in 52..63 : h[k] = g[k]
        BY <1>2, Zenon
    <2>9. h[m + 1] = g[m + 1]
        BY <2>5, <2>6, <2>8, HalvesAgree, Zenon DEF h, g
    <2>10. h[m] > g[m]
        <3>1. /\ h[m] \in Nat /\ h[m + 1] \in Nat
              /\ g[m] \in Nat /\ g[m + 1] \in Nat
              /\ h[m] = 2 * h[m + 1] + (h[m] % 2) /\ h[m] % 2 \in 0..1
              /\ g[m] = 2 * g[m + 1] + (g[m] % 2) /\ g[m] % 2 \in 0..1
            BY <1>3, <2>5, Zenon
        <3> QED BY <2>7, <2>9, <3>1
    <2>11. m \in 0..63
        BY <2>5
    <2> QED BY <2>10, <2>11, HalvesOrder DEF h, g
<1> QED BY <1>6, <1>7 DEF d, e

-----------------------------------------------------------------------------
(* The duration of the n-th error *)

LEMMA LongestNat == LongestMinutes \in Nat /\ LongestMinutes * 29296875 < HighBit
BY SMT DEF LongestMinutes, HighBit

(* A product of whole minutes that a Duration holds is exact.              *)
LEMMA MinutesProduct ==
    ASSUME NEW b \in Nat, NEW k \in 0..27
    PROVE  2^k \in Nat /\ TimesPowerOfTwo(Minutes(b), k) = Minutes(b * 2^k)
<1> DEFINE p == 2^k
           x == b * 29296875
<1>1. x \in Nat
    BY SMT
<1> HIDE DEF x
<1>2. p \in Nat /\ TimesPowerOfTwo(Bits(x), k) = Bits(x * p)
    BY <1>1, TimesBits
<1> HIDE DEF p
<1>3. x * p = (b * p) * 29296875
    BY <1>2, SMT DEF x
<1>4. Minutes(b) = Bits(x) /\ Minutes(b * p) = Bits((b * p) * 29296875)
    BY SMT DEF Minutes, x
<1> QED BY <1>2, <1>3, <1>4, SMT DEF p

(* Minutes are compared as their numbers are.                              *)
LEMMA MinutesCompared ==
    ASSUME NEW m \in 0..LongestMinutes, NEW n \in 0..LongestMinutes
    PROVE  Exceeds(Minutes(m), Minutes(n)) <=> m > n
<1> DEFINE x == m * 29296875
           y == n * 29296875
<1>1. x \in Nat /\ y \in Nat /\ HighBit \in Nat
    BY LongestNat, SMT DEF HighBit
<1>2. m <= LongestMinutes /\ n <= LongestMinutes /\ m \in Nat /\ n \in Nat
    BY LongestNat
<1>3. x < HighBit /\ y < HighBit
    BY <1>1, <1>2, LongestNat, SMT
<1>4. x > y <=> m > n
    BY <1>2, SMT
<1>5. Minutes(m) = Bits(x) /\ Minutes(n) = Bits(y)
    BY SMT DEF Minutes
<1> HIDE DEF x, y
<1> QED BY <1>1, <1>3, <1>4, <1>5, ExceedsBits, Zenon

(* base * 2^(n-1) minutes are a Duration; 2^28 of them would be too long.  *)
Fits(n) ==
    \/ n <= 1
    \/ /\ n <= 28
       /\ base * 2^(n - 1) <= LongestMinutes

LEMMA DurationOfError ==
    ASSUME base \in 1..LongestMinutes, cap \in 1..LongestMinutes, base <= cap,
           NEW n \in Nat, Fits(n)
    PROVE  calculateDuration(n) = Minutes(ContractMinutes(n))
<1>1. CASE n <= 1
    <2>1. calculateDuration(n) = Minutes(base)
        BY <1>1 DEF calculateDuration
    <2>2. ContractMinutes(n) = base
        BY <1>1, LongestNat DEF ContractMinutes
    <2> QED BY <2>1, <2>2
<1>2. CASE n > 1
    <2> DEFINE k == n - 1
               p == 2^k
               grown == base * p
    <2>1. k \in 0..27 /\ ~(n <= 1) /\ ~(n - 1 > 30) /\ grown <= LongestMinutes
        BY <1>2 DEF Fits
    <2>2. Multiplier(n) = k
        BY <2>1 DEF Multiplier
    <2>3. base \in Nat /\ cap \in 0..LongestMinutes
        BY LongestNat
    <2>4. p \in Nat /\ TimesPowerOfTwo(Minutes(base), k) = Minutes(grown)
        BY <2>1, <2>3, MinutesProduct
    <2>5. calculateDuration(n) = Capped(Minutes(grown))
        BY <2>1, <2>2, <2>4 DEF calculateDuration
    <2>6. ContractMinutes(n) = IF grown > cap THEN cap ELSE grown
        BY <2>1 DEF ContractMinutes
    <2> HIDE DEF k, p
    <2>7. grown \in 0..LongestMinutes
        BY <2>1, <2>3, <2>4, LongestNat
    <2> HIDE DEF grown
    <2>8. Exceeds(Minutes(grown), Minutes(cap)) <=> grown > cap
        BY <2>3, <2>7, MinutesCompared, Zenon
    <2>9. Capped(Minutes(grown)) = Minutes(IF grown > cap THEN cap ELSE grown)
        BY <2>8, Zenon DEF Capped
    <2> QED BY <2>5, <2>6, <2>9
<1> QED BY <1>1, <1>2

(* The configuration stays and the errors are counted.                     *)
BackoffInv ==
    /\ base \in BaseMinutes /\ cap \in MaxMinutes /\ base <= cap
    /\ consec \in 0..MaxErrors

LEMMA BackoffInvHolds == ASSUME BackoffAssumption PROVE BackoffSpec => []BackoffInv
<1>1. BackoffInit => BackoffInv
    BY DEF BackoffAssumption, BackoffInit, BackoffInv
<1>2. BackoffInv /\ [BackoffNext]_backoffVars => BackoffInv'
    <2> SUFFICES ASSUME BackoffInv, [BackoffNext]_backoffVars PROVE BackoffInv'
        OBVIOUS
    <2>1. CASE CountFailure
        BY <2>1 DEF BackoffAssumption, BackoffInv, CountFailure
    <2>2. CASE CountSuccess
        BY <2>2 DEF BackoffAssumption, BackoffInv, CountSuccess
    <2>3. CASE UNCHANGED backoffVars
        BY <2>3 DEF BackoffInv, backoffVars
    <2> QED BY <2>1, <2>2, <2>3 DEF BackoffNext
<1> QED BY <1>1, <1>2, PTL DEF BackoffSpec

(* While base * 2^(consec-1) is a Duration at all, the 64-bit computation  *)
(* gives the time of the documented formula, for every configuration.      *)
THEOREM BackoffExactWhileItFits ==
    ASSUME BackoffAssumption
    PROVE  BackoffSpec => [](Fits(consec) => BackoffMatchesContract)
<1>1. BackoffInv => (Fits(consec) => BackoffMatchesContract)
    <2> SUFFICES ASSUME BackoffInv, Fits(consec) PROVE BackoffMatchesContract
        OBVIOUS
    <2>1. base \in 1..LongestMinutes /\ cap \in 1..LongestMinutes /\ base <= cap
        BY DEF BackoffAssumption, BackoffInv
    <2>2. consec \in Nat
        BY DEF BackoffAssumption, BackoffInv
    <2> QED BY <2>1, <2>2, DurationOfError DEF BackoffMatchesContract
<1> QED BY <1>1, BackoffInvHolds, PTL
=============================================================================
