-------------------------- MODULE CooldownManager --------------------------
(***************************************************************************)
(* cooldown.Manager at the granularity of its critical sections.           *)
(*                                                                         *)
(* enterCooldown changes the backend under the backend's lock and only     *)
(* then takes m.mu to replace the registered timer; Recover releases the   *)
(* backend first and only then takes m.mu to drop the registered timer.    *)
(* Timer callbacks run Recover on a goroutine of their own, so the two     *)
(* halves of both functions interleave freely.                             *)
(*                                                                         *)
(* The callers are the request goroutines of the router: they pick an      *)
(* available backend, the upstream answers, and handleError may call the   *)
(* manager.  Durations and deadlines are kept as remaining time.           *)
(***************************************************************************)
EXTENDS Backend, FiniteSets

CONSTANTS
    Backends,           \* the backends of the pool
    Callers,            \* request goroutines
    TimerIds,           \* time.Timer objects alive at once (bound)
    None,               \* nil
    MaxConsec,          \* bound on ConsecErrors
    Backoff,            \* Backoff[c]: calculateDuration with c consecutive errors
    RateLimitCooldowns  \* explicit durations of 429 answers

ASSUME ConstantsAssumption ==
    /\ MaxConsec \in Nat
    /\ Backoff \in [0..MaxConsec -> Int]
    /\ RateLimitCooldowns \subseteq Nat
    /\ None \notin Backends
    /\ None \notin TimerIds

VARIABLES
    backend,    \* the BackendModel objects
    timers,     \* m.timers: the registered timer of each backend
    timer,      \* the timer objects and the callback each has started
    caller      \* where each request goroutine is

vars == <<backend, timers, timer, caller>>

TimerPhase == {"free", "armed", "fired", "recovered"}
CallerPc == {"idle", "inflight", "failed", "measuring", "entering", "marked"}

FreeTimer == [phase |-> "free", key |-> None, left |-> 0]
IdleCaller == [pc |-> "idle", key |-> None, dur |-> 0]

TypeOK ==
    /\ backend \in [Backends -> BackendModel]
    /\ timers \in [Backends -> TimerIds \cup {None}]
    /\ timer \in [TimerIds -> [phase : TimerPhase,
                               key : Backends \cup {None}, left : Nat]]
    /\ caller \in [Callers -> [pc : CallerPc,
                               key : Backends \cup {None}, dur : Int]]
    /\ \A t \in TimerIds : timer[t].phase # "free" => timer[t].key \in Backends
    /\ \A g \in Callers : caller[g].pc # "idle" => caller[g].key \in Backends
    /\ \A b \in Backends : backend[b].consec <= MaxConsec

Init ==
    /\ backend = [b \in Backends |-> NewBackendModel]
    /\ timers = [b \in Backends |-> None]
    /\ timer = [t \in TimerIds |-> FreeTimer]
    /\ caller = [g \in Callers |-> IdleCaller]

-----------------------------------------------------------------------------
(* The request goroutine around the manager (router.handleError). *)

(* The router hands a request only to an available backend. *)
PickBackend(g, b) ==
    /\ caller[g].pc = "idle"
    /\ IsAvailable(backend[b])
    /\ caller' = [caller EXCEPT ![g] = [pc |-> "inflight", key |-> b, dur |-> 0]]
    /\ UNCHANGED <<backend, timers, timer>>

Answered(g) ==
    /\ caller[g].pc = "inflight"
    /\ backend' = [backend EXCEPT ![caller[g].key] = MarkSuccess(@)]
    /\ caller' = [caller EXCEPT ![g] = IdleCaller]
    /\ UNCHANGED <<timers, timer>>

KeyRejected(g) ==
    /\ caller[g].pc = "inflight"
    /\ backend' = [backend EXCEPT ![caller[g].key] = MarkKeyInvalid(@)]
    /\ caller' = [caller EXCEPT ![g] = IdleCaller]
    /\ UNCHANGED <<timers, timer>>

Blame(b) ==
    /\ backend[b].consec < MaxConsec
    /\ backend' = [backend EXCEPT ![b] = MarkFailure(@)]

(* An error that is not retried counts against the backend and that is all. *)
RefusedForGood(g) ==
    /\ caller[g].pc = "inflight"
    /\ Blame(caller[g].key)
    /\ caller' = [caller EXCEPT ![g] = IdleCaller]
    /\ UNCHANGED <<timers, timer>>

(* A retryable upstream error other than 429. *)
UpstreamFailed(g) ==
    /\ caller[g].pc = "inflight"
    /\ Blame(caller[g].key)
    /\ caller' = [caller EXCEPT ![g].pc = "failed"]
    /\ UNCHANGED <<timers, timer>>

(* A third consecutive failure escalates.  The count is read without the   *)
(* backend's lock, now ...                                                 *)
Escalate(g) ==
    /\ caller[g].pc = "failed"
    /\ caller' = IF backend[caller[g].key].consec >= 3
                 THEN [caller EXCEPT ![g].pc = "measuring"]
                 ELSE [caller EXCEPT ![g] = IdleCaller]
    /\ UNCHANGED <<backend, timers, timer>>

(* ... and again by calculateDuration, when it may be another.             *)
MeasureBackoff(g) ==
    /\ caller[g].pc = "measuring"
    /\ caller' = [caller EXCEPT ![g].pc = "entering",
                                ![g].dur = Backoff[backend[caller[g].key].consec]]
    /\ UNCHANGED <<backend, timers, timer>>

(* A 429 cools the backend for the duration its kind asks for. *)
RateLimited(g, d) ==
    /\ caller[g].pc = "inflight"
    /\ caller' = [caller EXCEPT ![g].pc = "entering", ![g].dur = d]
    /\ UNCHANGED <<backend, timers, timer>>

-----------------------------------------------------------------------------
(* enterCooldown *)

(* First half: backend.EnterCooldown(duration), under the backend's lock. *)
MarkCooldown(g) ==
    /\ caller[g].pc = "entering"
    /\ backend' = [backend EXCEPT ![caller[g].key] = EnterCooldown(@, caller[g].dur)]
    /\ caller' = [caller EXCEPT ![g].pc = "marked"]
    /\ UNCHANGED <<timers, timer>>

(* t.Stop() on the timer registered for b: it prevents the callback of an  *)
(* armed timer and does nothing to a callback that has already started.    *)
StopRegistered_Skipped(b) == timer                            \* faulty variant
StopRegistered(b) ==
    [t \in TimerIds |-> IF t = timers[b] /\ timer[t].phase = "armed"
                        THEN FreeTimer ELSE timer[t]]

FreeTimers == {t \in TimerIds : timer[t].phase = "free"}

(* Stop the timer of b, start another with time.AfterFunc, register it. *)
StartTimer(b, d, new) ==
    /\ timer' = [StopRegistered(b) EXCEPT
                    ![new] = [phase |-> "armed", key |-> b, left |-> Remaining(d)]]
    /\ timers' = [timers EXCEPT ![b] = new]

ReplaceTimer_OnlyOnce(b, d, new) ==                           \* faulty variant
    IF timers[b] = None THEN StartTimer(b, d, new) ELSE UNCHANGED <<timer, timers>>
ReplaceTimer_StopOnly(b, d, new) ==                           \* faulty variant
    IF timers[b] = None THEN StartTimer(b, d, new)
    ELSE timer' = StopRegistered(b) /\ UNCHANGED timers
ReplaceTimer(b, d, new) == StartTimer(b, d, new)

(* Second half, under m.mu: stop the old timer, register a new one. *)
ArmTimer(g) ==
    /\ caller[g].pc = "marked"
    /\ FreeTimers # {}
    /\ ReplaceTimer(caller[g].key, caller[g].dur, CHOOSE t \in FreeTimers : TRUE)
    /\ caller' = [caller EXCEPT ![g] = IdleCaller]
    /\ UNCHANGED backend

-----------------------------------------------------------------------------
(* The timer callback and Recover *)

(* The runtime starts the callback of an expired timer. *)
Fire(t) ==
    /\ timer[t].phase = "armed"
    /\ timer[t].left = 0
    /\ timer' = [timer EXCEPT ![t].phase = "fired"]
    /\ UNCHANGED <<backend, timers, caller>>

(* First half of Recover: backend.Recover(), under the backend's lock. *)
RecoverBackend(t) ==
    /\ timer[t].phase = "fired"
    /\ backend' = [backend EXCEPT ![timer[t].key] = Recover(@)]
    /\ timer' = [timer EXCEPT ![t].phase = "recovered"]
    /\ UNCHANGED <<timers, caller>>

(* Second half, under m.mu: stop and forget whatever timer is registered   *)
(* for the backend by now, which need not be the one that fired.           *)
Forget_Skipped(b) == timers                                   \* faulty variant
Forget(b) == [timers EXCEPT ![b] = None]

DropTimer(t) ==
    /\ timer[t].phase = "recovered"
    /\ timer' = [StopRegistered(timer[t].key) EXCEPT ![t] = FreeTimer]
    /\ timers' = Forget(timer[t].key)
    /\ UNCHANGED <<backend, caller>>

(* POST /admin/recover releases the backend directly: the manager is not   *)
(* told, and its timer stays armed.                                        *)
AdminRecover(b) ==
    /\ backend' = [backend EXCEPT ![b] = Recover(@)]
    /\ UNCHANGED <<timers, timer, caller>>

(* Time passes for every deadline at once. *)
Tick ==
    /\ backend' = [b \in Backends |-> Elapse(backend[b])]
    /\ timer' = [t \in TimerIds |-> [timer[t] EXCEPT !.left = Remaining(@ - 1)]]
    /\ UNCHANGED <<timers, caller>>

-----------------------------------------------------------------------------
Next ==
    \/ \E g \in Callers :
          \/ \E b \in Backends : PickBackend(g, b)
          \/ Answered(g)
          \/ KeyRejected(g)
          \/ RefusedForGood(g)
          \/ UpstreamFailed(g)
          \/ Escalate(g)
          \/ MeasureBackoff(g)
          \/ \E d \in RateLimitCooldowns : RateLimited(g, d)
          \/ MarkCooldown(g)
          \/ ArmTimer(g)
    \/ \E t \in TimerIds : Fire(t) \/ RecoverBackend(t) \/ DropTimer(t)
    \/ \E b \in Backends : AdminRecover(b)
    \/ Tick

Spec == Init /\ [][Next]_vars

(* A goroutine that has begun to enter a cooldown is scheduled until it    *)
(* has armed the timer, time passes, and the runtime runs callbacks.  The  *)
(* arrival of requests and the answers of upstreams are not fair.          *)
Fairness ==
    /\ \A g \in Callers : WF_vars(MarkCooldown(g)) /\ WF_vars(ArmTimer(g))
    /\ \A t \in TimerIds :
          WF_vars(Fire(t)) /\ WF_vars(RecoverBackend(t)) /\ WF_vars(DropTimer(t))
    /\ WF_vars(Tick)

FairSpec == Spec /\ Fairness

-----------------------------------------------------------------------------
(* Properties *)

(* An armed timer is the one the manager has registered for its backend:   *)
(* re-entering a cooldown stops the previous timer before it arms another, *)
(* so no forgotten timer is left to release the backend later.             *)
OnlyRegisteredTimerArmed ==
    \A t \in TimerIds : timer[t].phase = "armed" => timers[timer[t].key] = t

(* The manager never keeps a timer whose callback has come to its end, nor *)
(* one that belongs to another backend: what m.timers holds can still act. *)
RegisteredTimerIsLive ==
    \A b \in Backends : timers[b] # None =>
        timer[timers[b]].phase # "free" /\ timer[timers[b]].key = b

(* Two callers stand between the two halves of enterCooldown at once: they *)
(* may have marked the backend in one order and arm in the other.          *)
Crossing(b) ==
    \E g, h \in Callers : /\ g # h
                          /\ caller[g].pc = "marked" /\ caller[g].key = b
                          /\ caller[h].pc = "marked" /\ caller[h].key = b

(* No caller is about to arm a timer for b, and the armed one runs out     *)
(* before the cooldown does.                                               *)
Uncovered(b) ==
    /\ timers[b] # None
    /\ timer[timers[b]].phase = "armed"
    /\ ~\E g \in Callers : caller[g].pc = "marked" /\ caller[g].key = b
    /\ backend[b].until > timer[timers[b]].left

(* In every run in which no two callers cross, an armed timer never expires *)
(* before the cooldown it belongs to: the latest duration holds for both    *)
(* (manager.go:17-18).                                                      *)
TimerCoversCooldown == \A b \in Backends : ([]~Crossing(b)) => []~Uncovered(b)

(* What happens to a backend whose timer callback is between the two       *)
(* halves of Recover while it has been put into cooldown again: the drop   *)
(* that follows stops the new timer.                                       *)
Collision(b) ==
    /\ backend[b].status = "cooldown"
    /\ \E t \in TimerIds : timer[t].phase = "recovered" /\ timer[t].key = b

InCooldown(b) == backend[b].status = "cooldown"

(* A backend in cooldown leaves it without anybody's help, in every run in *)
(* which no callback is overtaken by a new cooldown between its two halves *)
(* ("automatically calls Recover after duration", manager.go:15-16).       *)
CooldownEndsUnlessCollision ==
    \A b \in Backends :
        ([]~Collision(b)) => (InCooldown(b) ~> ~InCooldown(b))

(* The contract as manager.go:15-16 states it, without the proviso.        *)
CooldownEnds == \A b \in Backends : InCooldown(b) ~> ~InCooldown(b)
=============================================================================
