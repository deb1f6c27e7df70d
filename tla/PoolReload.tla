----------------------------- MODULE PoolReload -----------------------------
(***************************************************************************)
(* model.Pool across reloads of the configuration.  Replace builds a new   *)
(* BackendModel for every backend of the new configuration and copies the  *)
(* health of the old object with the same key into it.  Requests, and the  *)
(* timers of the cooldown manager, hold pointers to objects; the manager   *)
(* finds its timers by the backend's key.                                  *)
(*                                                                         *)
(* enterCooldown and Recover take the backend's lock first and m.mu then,  *)
(* so what they do is two actions each.                                    *)
(*                                                                         *)
(* Abstractions: an object is a number, in the order of creation.  An      *)
(* answer and the first of its changes to the object are one action, the   *)
(* reading of a third failure included (CooldownManager parts them).       *)
(* Every armed timer is the registered one of its key (CooldownManager).   *)
(* How long a cooldown lasts is left open.                                 *)
(***************************************************************************)
EXTENDS Backend, FiniteSets

CONSTANTS
    BackendKeys,    \* keys (provider and model) of backends
    Requests,       \* concurrent requests (bound)
    Callbacks,      \* timer callbacks running at once (bound)
    MaxObjects,     \* bound on the objects ever created
    MaxConsec,      \* bound on ConsecErrors
    None            \* nil

Objects == 1..MaxObjects

ASSUME ConstantsAssumption ==
    /\ IsFiniteSet(BackendKeys)
    /\ MaxObjects \in Nat /\ Cardinality(BackendKeys) <= MaxObjects
    /\ MaxConsec \in Nat
    /\ None \notin Objects \cup BackendKeys \cup Nat

VARIABLES
    object,     \* the BackendModel objects
    pool,       \* Pool.index: the object of each key
    timers,     \* Manager.timers: the object that the key's armed timer will recover
    callback,   \* the goroutines of timer callbacks, and the objects they recover
    req,        \* where each request is, and the object it has been sent to
    created,    \* objects created so far
    streak      \* history: failures of each key since it last recovered or answered
                \* in whole; None once an answer has come to an object out of the pool

vars == <<object, pool, timers, callback, req, created, streak>>

RequestPc == {"idle", "inflight", "marked"}
CallbackPc == {"free", "fired", "recovered"}

NoRequest == [pc |-> "idle", obj |-> None]
NoCallback == [pc |-> "free", obj |-> None]

Pooled == {k \in BackendKeys : pool[k] # None}

TypeOK ==
    /\ object \in [Objects -> [key : BackendKeys \cup {None}, model : BackendModel]]
    /\ pool \in [BackendKeys -> Objects \cup {None}]
    /\ timers \in [BackendKeys -> Objects \cup {None}]
    /\ callback \in [Callbacks -> [pc : CallbackPc, obj : Objects \cup {None}]]
    /\ req \in [Requests -> [pc : RequestPc, obj : Objects \cup {None}]]
    /\ created \in 0..MaxObjects
    /\ streak \in [BackendKeys -> 0..MaxConsec \cup {None}]
    /\ \A o \in Objects : o <= created <=> object[o].key # None
    /\ \A k \in Pooled : pool[k] <= created /\ object[pool[k]].key = k
    /\ \A k \in BackendKeys :
          timers[k] # None => timers[k] <= created /\ object[timers[k]].key = k
    /\ \A r \in Requests : req[r].pc # "idle" => req[r].obj \in 1..created
    /\ \A c \in Callbacks : callback[c].pc # "free" => callback[c].obj \in 1..created

(* An order of the keys, in which a configuration lists them.              *)
KeyIndex == CHOOSE f \in [BackendKeys -> 1..Cardinality(BackendKeys)] :
               \A j, k \in BackendKeys : f[j] = f[k] => j = k

(* model.NewPool *)
Init ==
    /\ created = Cardinality(BackendKeys)
    /\ pool = KeyIndex
    /\ object = [o \in Objects |->
                    [key |-> IF o <= created THEN CHOOSE k \in BackendKeys : pool[k] = o
                             ELSE None,
                     model |-> NewBackendModel]]
    /\ timers = [k \in BackendKeys |-> None]
    /\ callback = [c \in Callbacks |-> NoCallback]
    /\ req = [r \in Requests |-> NoRequest]
    /\ streak = [k \in BackendKeys |-> 0]

-----------------------------------------------------------------------------
(* Requests *)

Model(o) == object[o].model
Key(o) == object[o].key

Send(r, k) ==
    /\ req[r].pc = "idle"
    /\ k \in Pooled
    /\ IsAvailable(Model(pool[k]))
    /\ req' = [req EXCEPT ![r] = [pc |-> "inflight", obj |-> pool[k]]]
    /\ UNCHANGED <<object, pool, timers, callback, created, streak>>

(* The upstream has answered, and this is what becomes of the object.      *)
Answered(r, m, next) ==
    /\ req[r].pc = "inflight"
    /\ object' = [object EXCEPT ![req[r].obj].model = m]
    /\ req' = [req EXCEPT ![r] = next]
    /\ UNCHANGED <<pool, timers, callback, created>>

Asked(r) == Model(req[r].obj)
Marked(r) == [req[r] EXCEPT !.pc = "marked"]

(* The answer to r makes the failures in a row n.                          *)
RowIs(r, n) ==
    LET o == req[r].obj
    IN  streak' = [streak EXCEPT ![Key(o)] = IF o = pool[Key(o)] THEN n ELSE None]

Succeeds(r) ==
    /\ Answered(r, MarkSuccess(Asked(r)), NoRequest)
    /\ RowIs(r, 0)

(* A stream that has been delivered is not credited.                       *)
StreamEnds(r) ==
    /\ Answered(r, Asked(r), NoRequest)
    /\ UNCHANGED streak

KeyRejected(r) ==
    /\ Answered(r, MarkKeyInvalid(Asked(r)), NoRequest)
    /\ UNCHANGED streak

(* enterCooldown: the object first (its deadline is not read before a      *)
(* Recover has cleared it, and left out) ...                               *)
Cooled(m) == EnterCooldown(m, 0)

RateLimited(r) ==
    /\ Answered(r, Cooled(Asked(r)), Marked(r))
    /\ UNCHANGED streak

(* A third failure in a row cools the backend, unless it is of a kind that *)
(* is not retried.                                                         *)
Fails(r) ==
    /\ req[r].pc = "inflight"
    /\ Asked(r).consec < MaxConsec
    /\ LET failed == MarkFailure(Asked(r))
           row == streak[Key(req[r].obj)]
       IN  /\ \/ Answered(r, failed, NoRequest)
              \/ failed.consec >= 3 /\ Answered(r, Cooled(failed), Marked(r))
           /\ IF row = None THEN UNCHANGED streak
              ELSE row < MaxConsec /\ RowIs(r, row + 1)

(* ... then its timer, in the place of the one registered for the key.     *)
Register_Never(o) == timers                                   \* faulty variant
Register(o) == [timers EXCEPT ![Key(o)] = o]

ArmTimer(r) ==
    /\ req[r].pc = "marked"
    /\ timers' = Register(req[r].obj)
    /\ req' = [req EXCEPT ![r] = NoRequest]
    /\ UNCHANGED <<object, pool, callback, created, streak>>

-----------------------------------------------------------------------------
(* Recovery *)

(* An object that is recovered starts to count anew.                       *)
Recovers(o) ==
    /\ object' = [object EXCEPT ![o].model = Recover(@)]
    /\ streak' = IF o = pool[Key(o)] /\ Model(o).status # "invalid"
                 THEN [streak EXCEPT ![Key(o)] = 0] ELSE streak

TimerFires(k, c) ==
    /\ timers[k] # None
    /\ callback[c].pc = "free"
    /\ callback' = [callback EXCEPT ![c] = [pc |-> "fired", obj |-> timers[k]]]
    /\ timers' = [timers EXCEPT ![k] = None]
    /\ UNCHANGED <<object, pool, req, created, streak>>

(* Manager.Recover: the object first ...                                   *)
RecoverBackend(c) ==
    /\ callback[c].pc = "fired"
    /\ Recovers(callback[c].obj)
    /\ callback' = [callback EXCEPT ![c].pc = "recovered"]
    /\ UNCHANGED <<pool, timers, req, created>>

(* ... then whatever timer is registered for its key by now.               *)
DropTimer(c) ==
    /\ callback[c].pc = "recovered"
    /\ timers' = [timers EXCEPT ![Key(callback[c].obj)] = None]
    /\ callback' = [callback EXCEPT ![c] = NoCallback]
    /\ UNCHANGED <<object, pool, req, created, streak>>

(* POST /admin/recover does not tell the manager.                          *)
AdminRecover(k) ==
    /\ k \in Pooled
    /\ Recovers(pool[k])
    /\ UNCHANGED <<pool, timers, callback, req, created>>

-----------------------------------------------------------------------------
(* Pool.Replace *)

(* What the new object for k starts with: the health of the old one.       *)
Carried_Fresh(k) == NewBackendModel                           \* faulty variant
Carried_NoCount(k) ==                                         \* faulty variant
    IF k \in Pooled THEN [Model(pool[k]) EXCEPT !.consec = 0] ELSE NewBackendModel
Carried(k) == IF k \in Pooled THEN Model(pool[k]) ELSE NewBackendModel

(* The new objects come in the order of the configuration.                 *)
NewObject(keys, k) == created + Cardinality({j \in keys : KeyIndex[j] <= KeyIndex[k]})

(* The configuration now lists these keys, those of providers that have an *)
(* API key.                                                                *)
Replace(keys) ==
    /\ created + Cardinality(keys) <= MaxObjects
    /\ pool' = [k \in BackendKeys |-> IF k \in keys THEN NewObject(keys, k) ELSE None]
    /\ object' = [o \in Objects |->
                     IF \E k \in keys : pool'[k] = o
                     THEN LET k == CHOOSE j \in keys : pool'[j] = o
                          IN  [key |-> k, model |-> Carried(k)]
                     ELSE object[o]]
    /\ created' = created + Cardinality(keys)
    /\ streak' = [k \in BackendKeys |-> IF k \in Pooled THEN streak[k] ELSE 0]
    /\ UNCHANGED <<timers, callback, req>>

-----------------------------------------------------------------------------
Next ==
    \/ \E r \in Requests :
          \/ \E k \in BackendKeys : Send(r, k)
          \/ Succeeds(r)
          \/ StreamEnds(r)
          \/ KeyRejected(r)
          \/ RateLimited(r)
          \/ Fails(r)
          \/ ArmTimer(r)
    \/ \E c \in Callbacks :
          \/ \E k \in BackendKeys : TimerFires(k, c)
          \/ RecoverBackend(c)
          \/ DropTimer(c)
    \/ \E k \in BackendKeys : AdminRecover(k)
    \/ \E keys \in SUBSET BackendKeys : Replace(keys)

Spec == Init /\ [][Next]_vars

(* A request that has begun to enter a cooldown goes on, timers fire and   *)
(* their callbacks run; nothing else has to happen.                        *)
Fairness ==
    /\ \A r \in Requests : WF_vars(ArmTimer(r))
    /\ \A k \in BackendKeys : WF_vars(\E c \in Callbacks : TimerFires(k, c))
    /\ \A c \in Callbacks : WF_vars(RecoverBackend(c) \/ DropTimer(c))

FairSpec == Spec /\ Fairness

-----------------------------------------------------------------------------
(* Properties *)

Cooling(k) == k \in Pooled /\ Model(pool[k]).status = "cooldown"

(* The timer of k, or somebody who is about to arm or to end it, belongs   *)
(* to an object that a reload has put out of the pool.                     *)
HeldByOld(k) ==
    \/ timers[k] \notin {None, pool[k]}
    \/ \E c \in Callbacks : /\ callback[c].pc = "fired"
                             /\ Key(callback[c].obj) = k /\ callback[c].obj # pool[k]
    \/ \E r \in Requests : /\ req[r].pc = "marked"
                            /\ Key(req[r].obj) = k /\ req[r].obj # pool[k]

(* A callback of k is between its two sections.                            *)
Dropping(k) ==
    \E c \in Callbacks : callback[c].pc = "recovered" /\ Key(callback[c].obj) = k

(* A cooldown ends by itself through any number of reloads, with requests  *)
(* in flight to objects new and old, in every run in which the timer does  *)
(* not belong to an old object while the new one is cooling, and no        *)
(* callback is overtaken between its sections: the two ways in which the   *)
(* code strands a cooldown (pool.go:163-164, manager.go:117).              *)
CooldownEndsUnlessHeld ==
    \A k \in BackendKeys :
        []~(Cooling(k) /\ (HeldByOld(k) \/ Dropping(k))) => (Cooling(k) ~> ~Cooling(k))

(* The error count of a pooled backend is the number of its failures since *)
(* it last recovered or answered in whole, carried from object to object   *)
(* (pool.go:165), unless one of the answers since then came to an object   *)
(* out of the pool.  A reload alone, with requests in flight or not, loses *)
(* no failure and invents none.                                            *)
CountSurvivesReload ==
    \A k \in Pooled : streak[k] # None => Model(pool[k]).consec = streak[k]

RejectionStays(k) ==
    k \in Pooled /\ Model(pool[k]).status = "invalid" /\ pool'[k] # None
       => \/ object'[pool'[k]].model.status = "invalid"
          \/ /\ object'[pool'[k]].model.status = "cooldown"
             /\ \E r \in Requests : /\ req[r] = [pc |-> "inflight", obj |-> pool[k]]
                                     /\ req'[r].pc = "marked"

(* A rejected key stays rejected through timers, recoveries and reloads, a *)
(* reload that brings another API key included (pool.go:163); it takes a   *)
(* cooldown of a request that was in flight, or a reload without the       *)
(* backend, to bring it back.                                              *)
RejectionSurvivesReload ==
    [][\A k \in BackendKeys : RejectionStays(k)]_vars
=============================================================================
