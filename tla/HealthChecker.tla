---------------------------- MODULE HealthChecker ----------------------------
(***************************************************************************)
(* health.Checker: the loop that starts a probe for every backend, the     *)
(* probes, and Stop; with the requests, the cooldown timers and the        *)
(* admin's recoveries that change the same backends.                       *)
(*                                                                         *)
(* A probe reads and writes backend.Status and reads ConsecErrors without  *)
(* the backend's lock.  A status is a Go string, two words: an unlocked    *)
(* write that overlaps another write may leave a string that is none of    *)
(* the four, "garbled" here.  A torn read is taken for a read before or    *)
(* after the write it overlaps.                                            *)
(*                                                                         *)
(* The cooldown manager works in two critical sections in enterCooldown    *)
(* (the backend's lock, then m.mu) and in Recover (likewise), and so do    *)
(* the requests and callbacks here.                                        *)
(*                                                                         *)
(* Abstractions: the pool is not replaced (PoolReload).  Every armed timer *)
(* is the registered one of its backend (CooldownManager), so a set of     *)
(* backends stands for the timers.  An answer and the first of its changes *)
(* to the backend are one action, the reading of a third failure included. *)
(* How long a cooldown lasts is left open.                                 *)
(***************************************************************************)
EXTENDS Backend, FiniteSets

CONSTANTS
    Backends,       \* the pool
    Probes,         \* probe goroutines alive at once (bound)
    Requests,       \* concurrent requests (bound)
    Callbacks,      \* timer callbacks running at once (bound)
    MaxConsec,      \* bound on ConsecErrors
    None

ASSUME ConstantsAssumption ==
    /\ MaxConsec \in Nat
    /\ None \notin Backends

VARIABLES
    backend,    \* the BackendModel objects
    armed,      \* backends whose registered timer has not fired
    callback,   \* the goroutines of timer callbacks
    checking,   \* Checker.checking
    probe,      \* the goroutines of checkOne
    loop,       \* Checker.loop: the backends its round has left (none: in select)
    stop,       \* the caller of Stop
    req         \* where each request is, and the backend it has been sent to

vars == <<backend, armed, callback, checking, probe, loop, stop, req>>

consecutiveFailuresToDisable == 3

ProbePc == {"free", "spawned", "guard", "probing", "credited", "recover", "counted",
            "writing", "done"}
StopPc == {"running", "waiting", "stopped"}
RequestPc == {"idle", "inflight", "marked"}
CallbackPc == {"free", "fired", "recovered"}

(* key: the backend; target: the status to be written; before: the status  *)
(* when the write began.                                                   *)
Free == [pc |-> "free", key |-> None, target |-> "healthy", before |-> "healthy"]
NoRequest == [pc |-> "idle", key |-> None]
NoCallback == [pc |-> "free", key |-> None]

AnyStatus == Status \cup {"garbled"}
AnyBackend == [status : AnyStatus, until : Nat, consec : Nat]

TypeOK ==
    /\ backend \in [Backends -> AnyBackend]
    /\ \A b \in Backends : backend[b].consec <= MaxConsec
    /\ armed \subseteq Backends
    /\ checking \subseteq Backends
    /\ probe \in [Probes -> [pc : ProbePc, key : Backends \cup {None},
                             target : Status, before : AnyStatus]]
    /\ \A p \in Probes : IF probe[p].pc = "free" THEN probe[p] = Free
                          ELSE probe[p].key \in Backends
    /\ loop \in [ended : BOOLEAN, todo : SUBSET Backends]
    /\ stop \in StopPc
    /\ req \in [Requests -> [pc : RequestPc, key : Backends \cup {None}]]
    /\ \A r \in Requests : req[r].pc # "idle" => req[r].key \in Backends
    /\ callback \in [Callbacks -> [pc : CallbackPc, key : Backends \cup {None}]]
    /\ \A c \in Callbacks : callback[c].pc # "free" => callback[c].key \in Backends

Init ==
    /\ backend = [b \in Backends |-> NewBackendModel]
    /\ armed = {}
    /\ checking = {}
    /\ probe = [p \in Probes |-> Free]
    /\ loop = [ended |-> FALSE, todo |-> Backends]
    /\ stop = "running"
    /\ req = [r \in Requests |-> NoRequest]
    /\ callback = [c \in Callbacks |-> NoCallback]

Environment == <<armed, callback, req>>
CheckerVars == <<checking, probe, loop, stop>>

-----------------------------------------------------------------------------
(* The loop *)

Alive(p) == probe[p].pc # "free"

(* checkAll: a backend that is being checked is passed over.               *)
SkipChecking(b) ==
    /\ b \in loop.todo
    /\ b \in checking
    /\ loop' = [loop EXCEPT !.todo = @ \ {b}]
    /\ UNCHANGED <<backend, Environment, checking, probe, stop>>

SpawnProbe(b) ==
    /\ b \in loop.todo
    /\ b \notin checking
    /\ \E p \in Probes : ~Alive(p)
    /\ LET p == CHOOSE q \in Probes : ~Alive(q)
       IN  probe' = [probe EXCEPT ![p] = [Free EXCEPT !.pc = "spawned", !.key = b]]
    /\ loop' = [loop EXCEPT !.todo = @ \ {b}]
    /\ UNCHANGED <<backend, Environment, checking, stop>>

InSelect == ~loop.ended /\ loop.todo = {}

(* The next tick; when stopCh is closed too, select may take either.       *)
Tick ==
    /\ InSelect
    /\ loop' = [loop EXCEPT !.todo = Backends]
    /\ UNCHANGED <<backend, Environment, checking, probe, stop>>

LoopEnds ==
    /\ InSelect
    /\ stop # "running"
    /\ loop' = [loop EXCEPT !.ended = TRUE]
    /\ UNCHANGED <<backend, Environment, checking, probe, stop>>

-----------------------------------------------------------------------------
(* Stop closes stopCh and waits for the loop and the probes it has counted *)

CloseStopCh ==
    /\ stop = "running"
    /\ stop' = "waiting"
    /\ UNCHANGED <<backend, Environment, checking, probe, loop>>

(* wg counts a probe from before its goroutine starts.                     *)
Counted_OnceRunning(p) == probe[p].pc \notin {"free", "spawned"} \* faulty variant
Counted(p) == Alive(p)

StopReturns ==
    /\ stop = "waiting"
    /\ loop.ended
    /\ \A p \in Probes : ~Counted(p)
    /\ stop' = "stopped"
    /\ UNCHANGED <<backend, Environment, checking, probe, loop>>

-----------------------------------------------------------------------------
(* checkOne *)

At(p, pc) == probe[p].pc = pc
Goto(p, pc) == probe' = [probe EXCEPT ![p].pc = pc]
Probed(p) == backend[probe[p].key]

SetChecking(p) ==
    /\ At(p, "spawned")
    /\ checking' = checking \cup {probe[p].key}
    /\ Goto(p, "guard")
    /\ UNCHANGED <<backend, Environment, loop, stop>>

Passed_Exhausted(s) == s = "healthy"                          \* faulty variant
Passed(s) == s \notin {"cooldown", "invalid"}

Guard(p) ==
    /\ At(p, "guard")
    /\ Goto(p, IF Passed(Probed(p).status) THEN "probing" ELSE "done")
    /\ UNCHANGED <<backend, Environment, checking, loop, stop>>

(* The backend answers: it is credited ...                                 *)
ProbeSucceeds(p) ==
    /\ At(p, "probing")
    /\ backend' = [backend EXCEPT ![probe[p].key] = MarkSuccess(@)]
    /\ Goto(p, "credited")
    /\ UNCHANGED <<Environment, checking, loop, stop>>

(* ... and recovered if it does not look healthy.                          *)
LooksIll(s) == s # "healthy"

FindIll(p) ==
    /\ At(p, "credited")
    /\ Goto(p, IF LooksIll(Probed(p).status) THEN "recover" ELSE "done")
    /\ UNCHANGED <<backend, Environment, checking, loop, stop>>

RecoverProbed(p) ==
    /\ At(p, "recover")
    /\ backend' = [backend EXCEPT ![probe[p].key] = Recover(@)]
    /\ Goto(p, "done")
    /\ UNCHANGED <<Environment, checking, loop, stop>>

(* The write of the status without the lock begins; it may take its time.  *)
BeginWrite(p, target) ==
    probe' = [probe EXCEPT ![p].pc = "writing", ![p].target = target,
                           ![p].before = Probed(p).status]

(* 401 or 403 *)
ProbeRejected(p) ==
    /\ At(p, "probing")
    /\ BeginWrite(p, "invalid")
    /\ UNCHANGED <<backend, Environment, checking, loop, stop>>

(* 429, TLS or DNS: a failure, and the third in a row disables.            *)
ProbeFails(p) ==
    /\ At(p, "probing")
    /\ Probed(p).consec < MaxConsec
    /\ backend' = [backend EXCEPT ![probe[p].key] = MarkFailure(@)]
    /\ Goto(p, "counted")
    /\ UNCHANGED <<Environment, checking, loop, stop>>

Disabled_Cooldown == "cooldown"                               \* faulty variant
Disabled == "exhausted"

ReadCount(p) ==
    /\ At(p, "counted")
    /\ IF Probed(p).consec >= consecutiveFailuresToDisable
       THEN BeginWrite(p, Disabled)
       ELSE Goto(p, "done")
    /\ UNCHANGED <<backend, Environment, checking, loop, stop>>

(* Any other error leaves the backend alone.                               *)
ProbeIgnored(p) ==
    /\ At(p, "probing")
    /\ Goto(p, "done")
    /\ UNCHANGED <<backend, Environment, checking, loop, stop>>

EndWrite(p) ==
    /\ At(p, "writing")
    /\ \E s \in IF Probed(p).status = probe[p].before THEN {probe[p].target}
                ELSE {probe[p].target, Probed(p).status, "garbled"} :
          backend' = [backend EXCEPT ![probe[p].key].status = s]
    /\ probe' = [probe EXCEPT ![p] = [Free EXCEPT !.pc = "done", !.key = probe[p].key]]
    /\ UNCHANGED <<Environment, checking, loop, stop>>

(* The deferred end of checkOne, on every path.                            *)
Unchecked_IfProbed(p) ==                                      \* faulty variant
    IF Probed(p).status = "invalid" THEN checking ELSE checking \ {probe[p].key}
Unchecked(p) == checking \ {probe[p].key}

ClearChecking(p) ==
    /\ At(p, "done")
    /\ checking' = Unchecked(p)
    /\ probe' = [probe EXCEPT ![p] = Free]
    /\ UNCHANGED <<backend, Environment, loop, stop>>

-----------------------------------------------------------------------------
(* Requests *)

Send(r, b) ==
    /\ req[r].pc = "idle"
    /\ IsAvailable(backend[b])
    /\ req' = [req EXCEPT ![r] = [pc |-> "inflight", key |-> b]]
    /\ UNCHANGED <<backend, armed, callback, CheckerVars>>

(* The upstream has answered, and this is what becomes of the backend.     *)
Answered(r, b, next) ==
    /\ req[r].pc = "inflight"
    /\ backend' = [backend EXCEPT ![req[r].key] = b]
    /\ req' = [req EXCEPT ![r] = next]
    /\ UNCHANGED <<armed, callback, CheckerVars>>

Asked(r) == backend[req[r].key]
Onward(r, pc) == [req[r] EXCEPT !.pc = pc]

RequestSucceeds(r) == Answered(r, MarkSuccess(Asked(r)), NoRequest)

(* A stream that has been delivered is not credited.                       *)
StreamEnds(r) == Answered(r, Asked(r), NoRequest)

KeyRejected(r) == Answered(r, MarkKeyInvalid(Asked(r)), NoRequest)

(* enterCooldown changes the backend first (its deadline is not read       *)
(* before a Recover has cleared it, and left out) ...                      *)
Cooled(b) == EnterCooldown(b, 0)

RateLimited(r) == Answered(r, Cooled(Asked(r)), Onward(r, "marked"))

(* A third failure in a row cools the backend, unless it is of a kind that *)
(* is not retried.                                                         *)
RequestFails(r) ==
    /\ req[r].pc = "inflight"
    /\ Asked(r).consec < MaxConsec
    /\ LET failed == MarkFailure(Asked(r))
       IN  \/ Answered(r, failed, NoRequest)
           \/ failed.consec >= 3 /\ Answered(r, Cooled(failed), Onward(r, "marked"))

(* ... then its timer, in the place of the registered one.                 *)
ArmTimer(r) ==
    /\ req[r].pc = "marked"
    /\ armed' = armed \cup {req[r].key}
    /\ req' = [req EXCEPT ![r] = NoRequest]
    /\ UNCHANGED <<backend, callback, CheckerVars>>

-----------------------------------------------------------------------------
(* Recoveries *)

TimerFires(b, c) ==
    /\ b \in armed
    /\ callback[c].pc = "free"
    /\ callback' = [callback EXCEPT ![c] = [pc |-> "fired", key |-> b]]
    /\ armed' = armed \ {b}
    /\ UNCHANGED <<backend, req, CheckerVars>>

(* Manager.Recover: the backend first ...                                  *)
RecoverBackend(c) ==
    /\ callback[c].pc = "fired"
    /\ backend' = [backend EXCEPT ![callback[c].key] = Recover(@)]
    /\ callback' = [callback EXCEPT ![c].pc = "recovered"]
    /\ UNCHANGED <<armed, req, CheckerVars>>

(* ... then whatever timer is registered by now.                           *)
DropTimer(c) ==
    /\ callback[c].pc = "recovered"
    /\ armed' = armed \ {callback[c].key}
    /\ callback' = [callback EXCEPT ![c] = NoCallback]
    /\ UNCHANGED <<backend, req, CheckerVars>>

(* POST /admin/recover does not tell the manager.                          *)
AdminRecover(b) ==
    /\ backend' = [backend EXCEPT ![b] = Recover(@)]
    /\ UNCHANGED <<Environment, CheckerVars>>

-----------------------------------------------------------------------------
LoopStep ==
    \/ \E b \in Backends : SkipChecking(b) \/ SpawnProbe(b)
    \/ Tick

ProbeStep(p) ==
    \/ SetChecking(p)
    \/ Guard(p)
    \/ ProbeSucceeds(p)
    \/ FindIll(p)
    \/ RecoverProbed(p)
    \/ ProbeRejected(p)
    \/ ProbeFails(p)
    \/ ReadCount(p)
    \/ ProbeIgnored(p)
    \/ EndWrite(p)
    \/ ClearChecking(p)

RequestStep(r) ==
    \/ \E b \in Backends : Send(r, b)
    \/ RequestSucceeds(r)
    \/ StreamEnds(r)
    \/ KeyRejected(r)
    \/ RateLimited(r)
    \/ RequestFails(r)
    \/ ArmTimer(r)

CallbackStep(c) ==
    \/ \E b \in Backends : TimerFires(b, c)
    \/ RecoverBackend(c)
    \/ DropTimer(c)

Next ==
    \/ LoopStep
    \/ LoopEnds
    \/ CloseStopCh
    \/ StopReturns
    \/ \E p \in Probes : ProbeStep(p)
    \/ \E r \in Requests : RequestStep(r)
    \/ \E c \in Callbacks : CallbackStep(c)
    \/ \E b \in Backends : AdminRecover(b)

Spec == Init /\ [][Next]_vars

(* The loop and its probes are scheduled (a probe has a timeout), a        *)
(* request that has begun to enter a cooldown goes on, timers fire and     *)
(* their callbacks run.  Requests need not be answered, and no admin comes *)
(* to help.                                                                *)
Fairness ==
    /\ WF_vars(LoopStep)
    /\ \A p \in Probes : WF_vars(ProbeStep(p))
    /\ \A r \in Requests : WF_vars(ArmTimer(r))
    /\ \A b \in Backends : WF_vars(\E c \in Callbacks : TimerFires(b, c))
    /\ \A c \in Callbacks : WF_vars(RecoverBackend(c) \/ DropTimer(c))

FairSpec == Spec /\ Fairness

-----------------------------------------------------------------------------
(* Properties *)

(* When Stop has returned, neither the loop nor any probe it has started   *)
(* is left to touch a backend (checker.go:47-50).                          *)
StoppedIsQuiet ==
    stop = "stopped" => loop.ended /\ \A p \in Probes : ~Alive(p)

(* A backend is marked as being checked only while a probe of it runs: no  *)
(* end of a probe leaves the mark behind, which would exclude the backend  *)
(* from every later round (checker.go:75, 99).                             *)
CheckingHasProbe ==
    \A b \in checking : \E p \in Probes : Alive(p) /\ probe[p].key = b

(* A backend whose key was rejected does not become healthy by a probe, a  *)
(* timer or a success: unless a request that was in flight cools it, it    *)
(* takes the unlocked write of a probe that had begun before               *)
(* (checker.go:102, 117, 137; model.go:152).                               *)
RejectionStands ==
    [][\A b \in Backends :
          backend[b].status = "invalid" /\ backend'[b].status # "invalid"
             => \/ /\ backend'[b].status = "cooldown"
                   /\ \E r \in Requests : /\ req[r] = [pc |-> "inflight", key |-> b]
                                           /\ req'[r].pc = "marked"
                \/ /\ backend'[b].status \in {"exhausted", "garbled"}
                   /\ \E p \in Probes : /\ probe[p].key = b
                                         /\ probe[p].pc = "writing" /\ probe'[p].pc = "done"
      ]_vars

Cooling(b) == backend[b].status = "cooldown"

(* Somebody is left who will end the cooldown of b: an armed timer, a      *)
(* callback that has yet to recover it, or a request about to arm one.     *)
Covered(b) ==
    \/ b \in armed
    \/ \E c \in Callbacks : callback[c] = [pc |-> "fired", key |-> b]
    \/ \E r \in Requests : req[r] = [pc |-> "marked", key |-> b]

(* The second section of Recover, for b.                                   *)
Drops(b) ==
    \E c \in Callbacks : callback[c] = [pc |-> "recovered", key |-> b] /\ callback'[c] = NoCallback

(* A cooldown begins with somebody to end it and keeps somebody for as     *)
(* long as it lasts, unless the second section of a Recover takes its      *)
(* timer (cooldown_stranded): no probe writes a cooldown of its own, and   *)
(* none that answers late, no rejection and no recovery takes the timer    *)
(* away (checker.go:102-137).                                              *)
CooldownKeepsTimer ==
    [][\A b \in Backends :
          Cooling(b)' /\ (Cooling(b) => Covered(b)) => Covered(b)' \/ Drops(b)]_vars

(* A callback between its two sections has been overtaken by a cooldown.   *)
Collision(b) ==
    /\ Cooling(b)
    /\ \E c \in Callbacks : callback[c] = [pc |-> "recovered", key |-> b]

(* Only the next probe ends these.                                         *)
ShutOff(b) == backend[b].status \in {"exhausted", "garbled"}

(* From some time on every probe is answered.                              *)
ProbesAnswered ==
    <>[][\A p \in Probes : At(p, "probing") => probe'[p].pc \in {"probing", "credited"}]_vars

(* If the checker runs and probes are answered from some time on, a        *)
(* backend that was disabled or garbled does not stay so: it has no timer, *)
(* only a probe ends it (checker.go:114-119).  If no cooldown overtakes a  *)
(* callback between its sections, it comes back from whatever mix of       *)
(* disablings and cooldowns has hit it.                                    *)
IllnessEnds ==
    \A b \in Backends :
        ProbesAnswered /\ [](stop = "running")
        => /\ ShutOff(b) ~> ~ShutOff(b)
           /\ []~Collision(b) => (ShutOff(b) \/ Cooling(b) ~> ~(ShutOff(b) \/ Cooling(b)))
=============================================================================
