------------------------------- MODULE Router -------------------------------
(***************************************************************************)
(* router.Router: the fallback loops of Route and RouteStream, run by many *)
(* request goroutines over one pool, one cooldown manager, one provider    *)
(* health tracker, the forced model of the admin API and the sticky        *)
(* sessions.                                                               *)
(*                                                                         *)
(* A request takes a snapshot of the candidates, chooses one, forwards,    *)
(* and acts on the answer.  Each of these reads or writes shared state     *)
(* under its own short lock, so a request is a sequence of actions that    *)
(* the others interleave with.                                             *)
(*                                                                         *)
(* Abstractions: the strategy's scores are a choice among the backends it  *)
(* may return.  enterCooldown and a timer callback are one action each     *)
(* (CooldownManager has their halves), a timer is the bit "registered",    *)
(* and how long a cooldown lasts is left open.  The limiter is left out:   *)
(* it is asked with limits of zero, which it always grants.                *)
(***************************************************************************)
EXTENDS Backend, ProviderError, Sequences, FiniteSets

CONSTANTS
    Backends,       \* the pool
    Rank,           \* position of a backend in the pool
    ProviderOf,     \* the provider of a backend
    ModelOf,        \* the model ID of a backend
    Requests,       \* slots for concurrent request goroutines (bound)
    Models,         \* model names a request may ask for: IDs, "auto", unknown ones
    Sessions,       \* sticky session keys of multi-turn conversations
    Streaming,      \* whether requests may be streams
    Answers,        \* upstream errors, [code, msg], msg the search words
    Forceable,      \* backends the admin may force (bound)
    Recoverable,    \* backends the admin may recover (bound)
    MaxRetries,     \* gateway.max_retries
    MaxConsec,      \* bound on ConsecErrors
    None

Providers == {ProviderOf[b] : b \in Backends}

ASSUME ConstantsAssumption ==
    /\ MaxRetries \in Nat
    /\ MaxConsec \in Nat
    /\ Rank \in [Backends -> Nat]
    /\ \A b, c \in Backends : Rank[b] = Rank[c] => b = c
    /\ DOMAIN ProviderOf = Backends
    /\ DOMAIN ModelOf = Backends
    /\ \A a \in Answers : a.code \in Nat
    /\ Streaming \subseteq BOOLEAN
    /\ Forceable \subseteq Backends
    /\ Recoverable \subseteq Backends
    /\ None \notin Backends
    /\ None \notin Sessions

VARIABLES
    backend,        \* the BackendModel objects
    armed,          \* backends with a timer registered in the cooldown manager
    recent429,      \* provider-wide 429s within the five-minute window, up to 2
    forced,         \* r.forcedModelKey
    lastUsed,       \* r.lastUsedProv, r.lastUsedModel
    sticky,         \* preferred backend of each session
    req             \* the request goroutines

vars == <<backend, armed, recent429, forced, lastUsed, sticky, req>>

Pc == {"idle", "snapshot", "choose", "inflight", "won", "unforce", "remember",
       "failed", "rejected", "disown", "forget", "backoff"}

(* cand: filtered; sel: selected; manual: isManual; err: pe; retries:      *)
(* Result.Retries of the slot's last request                               *)
NoError == ParseProviderError(0, {})

NewRequest == [pc |-> "idle", stream |-> FALSE, model |-> "auto", session |-> None,
               attempt |-> 0, tried |-> <<>>, cand |-> {}, sel |-> None,
               manual |-> FALSE, err |-> NoError, retries |-> 0]

RequestRecord ==
    [pc : Pc, stream : BOOLEAN, model : Models \cup {"auto"},
     session : Sessions \cup {None}, attempt : 0..MaxRetries,
     tried : Seq(Backends), cand : SUBSET Backends, sel : Backends \cup {None},
     manual : BOOLEAN, err : ProviderErrors, retries : Int]

(* The program points at which a request has chosen its backend. *)
Chosen == {"inflight", "won", "unforce", "remember", "failed", "rejected", "disown",
           "forget", "backoff"}

TypeOK ==
    /\ backend \in [Backends -> BackendModel]
    /\ armed \subseteq Backends
    /\ recent429 \in [Providers -> 0..2]
    /\ forced \in Backends \cup {None}
    /\ lastUsed \in Backends \cup {None}
    /\ sticky \in [Sessions -> Backends \cup {None}]
    /\ req \in [Requests -> RequestRecord]
    /\ \A r \in Requests : req[r].pc \in Chosen => req[r].sel \in Backends

Init ==
    /\ backend = [b \in Backends |-> NewBackendModel]
    /\ armed = {}
    /\ recent429 = [p \in Providers |-> 0]
    /\ forced = None
    /\ lastUsed = None
    /\ sticky = [s \in Sessions |-> None]
    /\ req = [r \in Requests |-> NewRequest]

-----------------------------------------------------------------------------
(* The parts of the router's surroundings that it calls *)

(* Pool.Available and filterAvailable: what this request may try next. *)
ShouldSkip(p) == recent429[p] >= 2

TriedBy(r) == {req[r].tried[i] : i \in DOMAIN req[r].tried}

filterAvailable_TriedAgain(r) ==                              \* faulty variant
    {b \in Backends : IsAvailable(backend[b]) /\ ~ShouldSkip(ProviderOf[b])}
filterAvailable(r) ==
    {b \in Backends : /\ IsAvailable(backend[b])
                      /\ b \notin TriedBy(r)
                      /\ ~ShouldSkip(ProviderOf[b])}

(* Tracker.Record429: only "two or more in the window" is ever asked. *)
Record429(p) == [recent429 EXCEPT ![p] = IF @ < 2 THEN @ + 1 ELSE @]

(* Manager.EnterCooldown: the backend cools and its timer is registered. *)
Cooled(b) == [backend EXCEPT ![b] = EnterCooldown(@, 1)]

-----------------------------------------------------------------------------
(* A request arrives and takes its snapshot *)

(* The request is answered, with n in Result.Retries (0 in a Result that   *)
(* does not set it, and in none: chat.go:184-188); its goroutine's state   *)
(* goes with it.                                                           *)
Return(r, n) == req' = [req EXCEPT ![r] = [NewRequest EXCEPT !.retries = n]]

(* Retries once every attempt has failed, by the backends that were tried. *)
Exhausted(r) == Len(req[r].tried) - 1

(* An explicit model that no backend of the pool offers is answered 404    *)
(* before the request touches anything.                                    *)
Arrive(r, stream, model, session) ==
    /\ req[r].pc = "idle"
    /\ model = "auto" \/ \E b \in Backends : ModelOf[b] = model
    /\ req' = [req EXCEPT ![r].pc = "snapshot", ![r].stream = stream,
                          ![r].model = model, ![r].session = session, ![r].retries = 0]
    /\ UNCHANGED <<backend, armed, recent429, forced, lastUsed, sticky>>

NoCandidateLeft_Waits(r) == UNCHANGED req                     \* faulty variant
NoCandidateLeft(r) == Return(r, IF req[r].stream THEN 0 ELSE Exhausted(r))

Snapshot(r) ==
    /\ req[r].pc = "snapshot"
    /\ LET cand == filterAvailable(r)
       IN  IF cand = {} THEN NoCandidateLeft(r)
           ELSE req' = [req EXCEPT ![r].cand = cand, ![r].pc = "choose"]
    /\ UNCHANGED <<backend, armed, recent429, forced, lastUsed, sticky>>

-----------------------------------------------------------------------------
(* Choosing among the snapshot *)

(* Candidates that offer the model asked for. *)
Matched(cand, model) == {b \in cand : ModelOf[b] = model}

(* What Strategy.Select may return. *)
Selectable(cand, model) ==
    IF Matched(cand, model) # {} THEN Matched(cand, model) ELSE cand

(* What is left of the slice of candidates once Select has run: it gathers *)
(* the matches in the front of that same slice, over what stood there.     *)
Searchable(cand, model) ==
    LET matched == Matched(cand, model)
        Index(b) == Cardinality({c \in cand : Rank[c] <= Rank[b]})
    IN  matched \cup {b \in cand : Index(b) > Cardinality(matched)}

(* The session's preferred backend, when there is one to be found. *)
Preferred(r) == IF req[r].session = None THEN None ELSE sticky[req[r].session]

StickyOr(r, b) ==
    IF Preferred(r) \in Searchable(req[r].cand, req[r].model) THEN Preferred(r) ELSE b

Send(r, b, manual) ==
    req' = [req EXCEPT ![r].pc = "inflight", ![r].sel = b, ![r].manual = manual,
                       ![r].tried = Append(@, b), ![r].cand = {}]

(* The forced model is used if it is among the candidates, and nothing     *)
(* else is.                                                                *)
ChooseForced(r) ==
    /\ req[r].pc = "choose"
    /\ forced # None
    /\ IF forced \in req[r].cand THEN Send(r, forced, TRUE)
       ELSE Return(r, 0)
    /\ UNCHANGED <<backend, armed, recent429, forced, lastUsed, sticky>>

ChooseByStrategy(r) ==
    /\ req[r].pc = "choose"
    /\ forced = None
    /\ \E b \in Selectable(req[r].cand, req[r].model) : Send(r, StickyOr(r, b), FALSE)
    /\ UNCHANGED <<backend, armed, recent429, forced, lastUsed, sticky>>

-----------------------------------------------------------------------------
(* The backend answers *)

(* The forwarder credits the backend of a Route, and only of a Route. *)
Credited_Never(r) == backend                                  \* faulty variant
Credited(r) ==
    IF req[r].stream THEN backend ELSE [backend EXCEPT ![req[r].sel] = MarkSuccess(@)]

ForwardSucceeds(r) ==
    /\ req[r].pc = "inflight"
    /\ backend' = Credited(r)
    /\ req' = [req EXCEPT ![r].pc = "won"]
    /\ UNCHANGED <<armed, recent429, forced, lastUsed, sticky>>

(* RecordLastUsed, then the forced model is read ... *)
RecordWinner_AnyForced(r) ==                                  \* faulty variant
    /\ req[r].pc = "won"
    /\ lastUsed' = req[r].sel
    /\ req' = [req EXCEPT ![r].pc = IF forced # None THEN "unforce" ELSE "remember"]
    /\ UNCHANGED <<backend, armed, recent429, forced, sticky>>
RecordWinner(r) ==
    /\ req[r].pc = "won"
    /\ lastUsed' = req[r].sel
    /\ req' = [req EXCEPT ![r].pc = IF forced \notin {None, req[r].sel}
                                   THEN "unforce" ELSE "remember"]
    /\ UNCHANGED <<backend, armed, recent429, forced, sticky>>

(* ... and cleared under a lock of its own if another one was forced. *)
ClearOtherForced(r) ==
    /\ req[r].pc = "unforce"
    /\ forced' = None
    /\ req' = [req EXCEPT ![r].pc = "remember"]
    /\ UNCHANGED <<backend, armed, recent429, lastUsed, sticky>>

ReturnSuccess(r) ==
    /\ req[r].pc = "remember"
    /\ sticky' = IF req[r].session = None THEN sticky
                 ELSE [sticky EXCEPT ![req[r].session] = req[r].sel]
    /\ Return(r, req[r].attempt)
    /\ UNCHANGED <<backend, armed, recent429, forced, lastUsed>>

-----------------------------------------------------------------------------
(* The backend fails: handleError *)

Fails(r) == req[r].pc = "inflight"

MarkFailed(r) ==
    /\ backend[req[r].sel].consec < MaxConsec
    /\ backend' = [backend EXCEPT ![req[r].sel] = MarkFailure(@)]
MarkInvalid(r) == backend' = [backend EXCEPT ![req[r].sel] = MarkKeyInvalid(@)]

GoOn(r, pc, e) == req' = [req EXCEPT ![r].pc = pc, ![r].err = e]

(* The failure of a forced model is returned as it is. *)
ManualFails(r, e) ==
    /\ Fails(r)
    /\ req[r].manual
    /\ IF e.markKeyInvalid THEN MarkInvalid(r) ELSE MarkFailed(r)
    /\ Return(r, 0)
    /\ UNCHANGED <<armed, recent429, forced, lastUsed, sticky>>

(* 401 and 403: the key is out, and the request with it. *)
KeyRejected(r, e) ==
    /\ Fails(r)
    /\ ~req[r].manual /\ ~e.retryable /\ e.markKeyInvalid
    /\ MarkInvalid(r)
    /\ GoOn(r, "rejected", e)
    /\ UNCHANGED <<armed, recent429, forced, lastUsed, sticky>>

RefusedForGood(r, e) ==
    /\ Fails(r)
    /\ ~req[r].manual /\ ~e.retryable /\ ~e.markKeyInvalid
    /\ MarkFailed(r)
    /\ Return(r, req[r].attempt)
    /\ UNCHANGED <<armed, recent429, forced, lastUsed, sticky>>

RateLimited(r, e) ==
    /\ Fails(r)
    /\ ~req[r].manual /\ e.retryable /\ e.code = 429
    /\ backend' = Cooled(req[r].sel)
    /\ armed' = armed \cup {req[r].sel}
    /\ recent429' = IF e.skipProvider THEN Record429(ProviderOf[req[r].sel]) ELSE recent429
    /\ GoOn(r, "backoff", e)
    /\ UNCHANGED <<forced, lastUsed, sticky>>

UpstreamFailed(r, e) ==
    /\ Fails(r)
    /\ ~req[r].manual /\ e.retryable /\ e.code # 429
    /\ MarkFailed(r)
    /\ GoOn(r, "failed", e)
    /\ UNCHANGED <<armed, recent429, forced, lastUsed, sticky>>

(* The error count is read again, without the backend's lock. *)
Escalate(r) ==
    /\ req[r].pc = "failed"
    /\ LET b == req[r].sel
           cools == backend[b].consec >= 3
       IN  /\ backend' = IF cools THEN Cooled(b) ELSE backend
           /\ armed' = IF cools THEN armed \cup {b} ELSE armed
           /\ recent429' = IF req[r].err.skipProvider THEN Record429(ProviderOf[b])
                           ELSE recent429
    /\ req' = [req EXCEPT ![r].pc = "backoff"]
    /\ UNCHANGED <<forced, lastUsed, sticky>>

(* A rejected backend must not be shown as in use: the forced model is     *)
(* read, then cleared; the last used one likewise.                         *)
FindForcedRejected(r) ==
    /\ req[r].pc = "rejected"
    /\ req' = [req EXCEPT ![r].pc = IF forced = req[r].sel THEN "disown" ELSE "forget"]
    /\ UNCHANGED <<backend, armed, recent429, forced, lastUsed, sticky>>

ClearForcedRejected(r) ==
    /\ req[r].pc = "disown"
    /\ forced' = None
    /\ req' = [req EXCEPT ![r].pc = "forget"]
    /\ UNCHANGED <<backend, armed, recent429, lastUsed, sticky>>

ForgetRejected(r) ==
    /\ req[r].pc = "forget"
    /\ lastUsed' = IF lastUsed = req[r].sel THEN None ELSE lastUsed
    /\ Return(r, req[r].attempt)
    /\ UNCHANGED <<backend, armed, recent429, forced, sticky>>

(* After the delay the next attempt starts from a new snapshot; the last   *)
(* attempt has none to wait for.                                           *)
MoreAttempts_OffByOne(r) == req[r].attempt <= MaxRetries      \* faulty variant
MoreAttempts(r) == req[r].attempt < MaxRetries

NextAttempt_Same(r) == req[r].attempt                         \* faulty variant
NextAttempt(r) == req[r].attempt + 1

Retry(r) ==
    /\ req[r].pc = "backoff"
    /\ IF MoreAttempts(r)
       THEN req' = [req EXCEPT ![r].pc = "snapshot", ![r].attempt = NextAttempt(r),
                               ![r].sel = None, ![r].err = NoError]
       ELSE Return(r, Exhausted(r))
    /\ UNCHANGED <<backend, armed, recent429, forced, lastUsed, sticky>>

(* The client goes away during the delay. *)
CancelledInBackoff(r) ==
    /\ req[r].pc = "backoff"
    /\ MoreAttempts(r)
    /\ Return(r, 0)
    /\ UNCHANGED <<backend, armed, recent429, forced, lastUsed, sticky>>

-----------------------------------------------------------------------------
(* What happens around the requests *)

(* The callback of a cooldown timer. *)
TimerExpires(b) ==
    /\ b \in armed
    /\ backend' = [backend EXCEPT ![b] = Recover(@)]
    /\ armed' = armed \ {b}
    /\ UNCHANGED <<recent429, forced, lastUsed, sticky, req>>

(* POST /admin/recover *)
AdminRecover(b) ==
    /\ backend' = [backend EXCEPT ![b] = Recover(@)]
    /\ UNCHANGED <<armed, recent429, forced, lastUsed, sticky, req>>

(* POST /admin/switch-model *)
SwitchModel(b) ==
    /\ forced' = b
    /\ lastUsed' = b
    /\ UNCHANGED <<backend, armed, recent429, sticky, req>>

SwitchAuto ==
    /\ forced # None
    /\ forced' = None
    /\ UNCHANGED <<backend, armed, recent429, lastUsed, sticky, req>>

(* Five minutes without a provider-wide 429. *)
WindowCloses(p) ==
    /\ recent429' = [recent429 EXCEPT ![p] = 0]
    /\ UNCHANGED <<backend, armed, forced, lastUsed, sticky, req>>

StickyExpires(s) ==
    /\ sticky' = [sticky EXCEPT ![s] = None]
    /\ UNCHANGED <<backend, armed, recent429, forced, lastUsed, req>>

-----------------------------------------------------------------------------
(* What the errors that upstreams answer make of request r. *)
Errors(r) ==
    {ParseProviderError(a.code, ErrorText(req[r].stream, a.code, a.msg)) : a \in Answers}

(* Everything a request does once it has arrived. *)
Proceed(r) ==
    \/ Snapshot(r)
    \/ ChooseForced(r)
    \/ ChooseByStrategy(r)
    \/ ForwardSucceeds(r)
    \/ RecordWinner(r)
    \/ ClearOtherForced(r)
    \/ ReturnSuccess(r)
    \/ \E e \in Errors(r) :
          \/ ManualFails(r, e)
          \/ KeyRejected(r, e)
          \/ RefusedForGood(r, e)
          \/ RateLimited(r, e)
          \/ UpstreamFailed(r, e)
    \/ Escalate(r)
    \/ FindForcedRejected(r)
    \/ ClearForcedRejected(r)
    \/ ForgetRejected(r)
    \/ Retry(r)
    \/ CancelledInBackoff(r)

Environment ==
    \/ \E b \in Backends : TimerExpires(b)
    \/ \E b \in Recoverable : AdminRecover(b)
    \/ \E b \in Forceable : SwitchModel(b)
    \/ SwitchAuto
    \/ \E p \in Providers : WindowCloses(p)
    \/ \E s \in Sessions : StickyExpires(s)

Next ==
    \/ \E r \in Requests :
          \/ \E stream \in Streaming, model \in Models, session \in Sessions \cup {None} :
                Arrive(r, stream, model, session)
          \/ Proceed(r)
    \/ Environment

Spec == Init /\ [][Next]_vars

(* A request that has arrived is scheduled, its upstream calls end (the    *)
(* HTTP clients have timeouts) and its delays run out.                     *)
FairSpec == Spec /\ \A r \in Requests : WF_vars(Proceed(r))

-----------------------------------------------------------------------------
(* What the client of a request can tell of its progress. *)
StageOf(pc) ==
    CASE pc = "idle" -> "closed"
      [] pc \in {"snapshot", "choose"} -> "deciding"
      [] pc = "inflight" -> "calling"
      [] pc \in {"won", "unforce", "remember"} -> "served"
      [] OTHER -> "failed"

Contract == INSTANCE FallbackContract
                WITH stage <- [r \in Requests |-> StageOf(req[r].pc)],
                     calls <- [r \in Requests |-> req[r].tried]

-----------------------------------------------------------------------------
(* Properties *)

(* A request never sends itself to the same backend twice, even if that    *)
(* backend recovers in the meantime (fallback.go:37-38).                   *)
NoRepeat ==
    \A r \in Requests : \A i, j \in DOMAIN req[r].tried :
        req[r].tried[i] = req[r].tried[j] => i = j

(* The attempt counter and the list of tried backends, which are the two   *)
(* sources of Retries, never drift apart.                                  *)
AttemptsCounted ==
    \A r \in Requests :
        /\ req[r].pc \in Chosen => Len(req[r].tried) = req[r].attempt + 1
        /\ req[r].pc \in {"idle", "snapshot", "choose"} => Len(req[r].tried) = req[r].attempt

(* The answers that do not count: a forced model that fails or is not      *)
(* there, a client that leaves, a stream that finds no candidate.          *)
Uncounted(r) ==
    \/ req[r].manual
    \/ req[r].pc = "choose"
    \/ req[r].pc = "backoff" /\ MoreAttempts(r)
    \/ req[r].pc = "snapshot" /\ req[r].stream

(* The Retries in an answer are the calls the request has made beyond its  *)
(* first, whether they come from the attempt counter (fallback.go:173, 211)*)
(* or from the backends tried (fallback.go:232), which makes them -1 for a *)
(* request no backend was called for; but for the answers that leave them  *)
(* at 0.                                                                   *)
RetriesTold ==
    [][\A r \in Requests :
          req[r].pc # "idle" /\ req'[r].pc = "idle"
             => \/ req'[r].retries = Len(req[r].tried) - 1
                \/ req'[r].retries = 0 /\ Uncounted(r)]_vars

(* Only the timer or the admin takes a backend out of its cooldown: a      *)
(* request that was already in flight and succeeds does not.               *)
CooldownHeld ==
    [][\A b \in Backends :
          backend[b].status = "cooldown" /\ backend'[b].status = "healthy"
             => TimerExpires(b) \/ AdminRecover(b)]_vars

(* No timer, no admin and no late success brings a backend back whose key  *)
(* was rejected; only a request that was sent to it before can, by putting *)
(* it into a cooldown.                                                     *)
RejectedKeyHeld ==
    [][\A b \in Backends :
          backend[b].status = "invalid" /\ backend'[b].status # "invalid"
             => /\ backend'[b].status = "cooldown"
                /\ \E r \in Requests : /\ req[r].sel = b
                                        /\ req[r].pc \in {"inflight", "failed"}
                                        /\ req'[r].pc = "backoff"]_vars

(* The admin has switched: POST /admin/switch-model.                       *)
AdminSwitches == SwitchAuto \/ \E b \in Forceable : SwitchModel(b)

(* No request is under way to or back from a backend the router took by    *)
(* itself, nor about to clear the forced model.                            *)
Settled ==
    /\ forced # None
    /\ \A r \in Requests :
          /\ req[r].pc = "inflight" => req[r].manual
          /\ req[r].pc \in {"inflight", "won"} => req[r].sel = forced
          /\ req[r].pc \notin {"unforce", "rejected", "disown"}

(* "ForceModel forces all subsequent Route/RouteStream calls to use the    *)
(* given model" (router.go:92): once the requests that were under way are  *)
(* over, all that call a backend call the forced one, whatever it answers, *)
(* until the admin switches.  Before that it does not hold: the success of *)
(* a request sent by the router itself clears what the admin has forced    *)
(* meanwhile (fallback.go:151-153).                                        *)
ForcedModelHeld == [][Settled => Settled' \/ AdminSwitches]_vars

(* Every request that has arrived comes to its end. *)
EveryRequestEnds == \A r \in Requests : req[r].pc # "idle" ~> req[r].pc = "idle"

(* Whatever the pool, the timers and the admin do meanwhile, the loops of  *)
(* Route and RouteStream keep the contract of a fallback: one call at a    *)
(* time, no backend twice, MaxRetries + 1 calls at most, none after one    *)
(* that was served (fallback.go:36-38, 62-63).                             *)
ImplementsFallback == Contract!Spec
=============================================================================
