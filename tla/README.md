# FreeModelGateway in TLA+

A verification project for the FreeModelGateway (FMG), a gateway that spreads
OpenAI-style requests over many free upstream models and falls back from one to
the next. The modules are translated from the Go source under `src/`; paths below
are relative to `src/internal/` unless they say otherwise. `PROJECT.json` lists
components, runs, mutants, findings, hazards, theorems, and for every definition
the lines it models.

## 1. The system

| Component (source) | State | Operations | Talks to |
|---|---|---|---|
| Backend health (`model/model.go`) | `Status`, `CooldownUntil`, `ConsecErrors` of one (provider, model), under its own mutex | `IsAvailable`, `MarkSuccess`, `MarkFailure`, `MarkKeyInvalid`, `EnterCooldown`, `Recover` | called by everything below |
| Cooldown manager (`cooldown/manager.go`) | map key -> active `time.Timer`, under `m.mu` | `EnterCooldown`, `EnterCooldownWithDuration`, `Recover`, `calculateDuration` | called by the router; its timers call `Recover` on goroutines of the runtime |
| Error classification (`errors/provider_error.go`) | none | `ParseProviderError` | called by the router |
| Router (`router/fallback.go`, `router.go`) | forced model, last used model; per request: attempt, tried, candidates | `Route`, `RouteStream`, `SelectBackend`, `ForceModel`, ... | pool, strategy, sticky sessions, forwarder, cooldown manager, health tracker, stats |
| Strategies (`router/thompson.go`, `scoring/`) | none that decides | `Select` | called by the router on its own slice of candidates |
| Sticky sessions (`router/sticky.go`) | session -> preferred backend, expiry | `Get`, `Set`, `Prune` | called by the router |
| Provider health tracker (`health/provider_health.go`) | a row of 429s and a cooldown per provider | `Record429`, `RecordSuccess`, `ShouldSkip`, `ClearCooldown` | called by the router |
| Pool (`model/pool.go`) | the list of backend objects | `NewPool`, `Available`, `Replace`, `RecoverAll` | router, admin, the receiver of reloads |
| Configuration, reload (`config/db_loader.go`, `config/reload.go`) | the current configuration, a channel of eight | `LoadConfigFromDB`, `Reload`, `InitBuiltinData` | store; the program that drains the channel is not in the repository |
| Provider administration (`api/providers.go`) | none of its own | create, edit, delete providers and models | store, reload |
| Admin API (`api/admin.go`) | none of its own | recover, switch model, switch strategy, reload | router, pool, store |
| Store (`store/store.go`) | SQLite tables, one connection, no transactions | migration, CRUD, `route_config` | API, start-up |
| Health checker (`health/checker.go`) | keys being probed, a wait group | `Start`, `checkAll`, `checkOne`, `Stop` | probes; writes backends without their lock |
| Rate limiter and quotas (`ratelimit/`) | sliding windows, daily quotas | `AllowRequest`, `AllowTokens`, `RecordRequest` | the router asks with limits of zero, which are always granted |
| Protocol handlers (`api/protocol.go`, `api/handler.go`) | a retry loop of their own for streams | one per endpoint, `handleStream` | translators, router, `SelectBackend` |
| Protocol translators (`protocol/`) | state of a stream under translation | to and from OpenAI's format | called by the handlers |
| Forwarder, adapters (`proxy/forwarder.go`, `provider/`) | none | `Forward`, `ForwardStream`, translation to and from vendor formats | upstream HTTP; `MarkSuccess` |
| Statistics (`stats/`) | totals, ring buffers | `Record`, `Snapshot` | router, admin API |
| Tray (`src/cmd/tray/main.go`) | running flag of the server process | start, stop, monitor | the server process |
| Key encryption (`crypto/aes.go`) | a key made of host and user name | `Encrypt`, `Decrypt` | called by the store |
| Users, middleware, pages | none that decides | | |

**What is hard.** Every request is a goroutine that runs through a dozen short
critical sections of different locks: the backend's, the manager's, the tracker's,
the forced model's, the last used model's, the sticky map's. Between any two of
them other requests, timer callbacks, probes and admin calls run. Timers race with
the calls that replace them (`Stop` does not stop a callback that has started).
Candidates are a snapshot that ages. A probe writes a status it read seconds ago,
with no lock. A reload replaces the objects that requests and timers still hold.
Handlers write the database one statement at a time under the context of a client
that may leave, and a process may die between two statements. A stream is
translated twice, event by event, while either end may go away. The repository has
no tests, so none of these orders has ever been written down.

**What makes each component correct.** Backend: a rejected key stays out; a
cooldown lasts until its deadline. Manager: one live timer for a cooldown, it
fires not before the deadline, and every cooldown ends. Router: no backend twice in
a request, the retry count tells the truth, a request ends, a forced model stays
forced, errors that are called consecutive are. Tracker: a provider is
skipped exactly when its history of 429s says so. Limiter: no window counts less
than was recorded, no quota misses a request of today. Pool: health survives a
reload, and so does the promise that a cooldown ends. Administration: database,
configuration and pool agree when nobody is at work; a delete takes nothing
it was not asked to take, an edit keeps the key it was not given. Start-up: no
crash makes a start fail or seeds twice, and the saved route is the restored one.
Checker: it stops when told to, a probe does not undo a rejection or strand a
cooldown, a disabled backend comes back. Protocols: what one side says the other
hears, once, in its own format, and only who failed is blamed. The hazards, each at
its line, are in `PROJECT.json`.

## 2. Modules

| Module | Models | State and actions |
|---|---|---|
| `Backend` | `model.BackendModel` | operators on a record; every method holds the backend's mutex for its whole body, so it is atomic. `CooldownUntil` is the time that remains. |
| `CooldownManager` | `cooldown.Manager` between its critical sections | `backend`, `timers` (= `m.timers`), `timer` (the timer objects: free, armed, fired, recovered), `caller` (request goroutines). `Escalate`/`MeasureBackoff` are the two unlocked reads of the count, `MarkCooldown`/`ArmTimer` the halves of `enterCooldown`, `RecoverBackend`/`DropTimer` those of `Recover`, `Fire` the runtime starting a callback. |
| `Backoff` | `calculateDuration` in signed 64-bit nanoseconds | a duration is the function of its 64 bits; products wrap as in Go. The state is one backend's error count under one base and cap. |
| `ProviderError` | `ParseProviderError` and its helpers | pure operators; an error text is the set of search words it contains. `ErrorText` is what the adapters keep of it. |
| `FallbackContract` | what a request is promised, with no pool, strategy, timer or admin | `stage`, `calls`: call a backend not called before, fail or be served, give up. The abstract specification, of the router's loop and of `handleStream`'s. |
| `Router` | `Route` and `RouteStream` for many concurrent requests | `req[r]` is a request goroutine with its program counter; `backend`, `armed`, `recent429`, `forced`, `lastUsed`, `sticky` are shared. One action per stretch between two accesses to shared state. |
| `RouterHistory` | `Router` observed | adds the failures of a backend in a row, counted from the upstream's answers and not from the code's counter. |
| `ConfigStore` | the configuration tables, their queries and the encryption of keys | operators; one SQL statement each. An encrypted key is the key and the machine (host and user) it was encrypted on; anywhere else it reads as no key. |
| `ProviderAdmin` | the handlers of `api/providers.go`, the reload they end with, its channel | `job[h]` is a handler goroutine; one action per statement; `ClientLeaves`; `Restart`, after a crash, perhaps on another machine. |
| `Startup` | migration, `InitBuiltinData`, the route between memory and `route_config` | the process's program counter over schema and seed statements; `Crash` anywhere, then the next start. |
| `PoolReload` | `Pool.Replace` against requests, timers and callbacks | objects are numbered; pool, requests, timers and callbacks hold numbers. `enterCooldown` and `Recover` are two actions each. |
| `HealthChecker` | loop, probes and `Stop` | `probe[p]` with one action per unlocked access; beside them requests, whole and streamed, timers, their callbacks in two sections, `AdminRecover`. |
| `ProviderHealth`, `Throttle` | the tracker's methods; the limiter, the quota and the tracker over time | callers that ask, forward and record, taking the window locks one after the other; `Tick`. |
| `Protocols`, `Adapters`, `Relay` | translation between client protocols and OpenAI's format; between that and vendor formats; one request through handler, forwarder and adapter | the first two are pure operators on requests, responses and events; `Relay` has the request, the backends it tries, the vendor's script and what client and vendor have seen. |
| `*Proofs` | theorems | section 5. |
| `MC*` | instances | pools, answers, conversations, durations for TLC. |

How they compose: `Router` EXTENDS `Backend` and `ProviderError`; `PoolReload` and
`HealthChecker` EXTEND `Backend`; `ProviderAdmin` EXTENDS `ConfigStore`; `Throttle`
EXTENDS `ProviderHealth`; `Relay` EXTENDS `Adapters`, which EXTENDS `Protocols`.
`Router` takes `enterCooldown` and a timer callback as one action each: the races
between their halves are `CooldownManager`'s subject, which in turn takes of the
router only the part of `handleError` that calls it. `PoolReload` and
`HealthChecker` keep both halves of `enterCooldown` and of `Recover` apart, for their
properties are about who is left to end a cooldown, and add the actor that is theirs.
`Relay` leaves the
choice of a backend to `Router` and takes any that has not been tried. Everywhere
the order of the code is kept: what is read under one lock and used under another
is two actions (`RecordWinner` then `ClearOtherForced`; `UpstreamFailed` then
`Escalate`).

Program counters of a request in `Router` and the code of `Route`:

| pc | where | next actions |
|---|---|---|
| `snapshot` | fallback.go:65 | `Snapshot`: `Pool.Available`, `filterAvailable` |
| `choose` | :78 | `ChooseForced`, `ChooseByStrategy` (with the sticky override) |
| `inflight` | :144 | `ForwardSucceeds`, or one of the five failures |
| `won`, `unforce`, `remember` | :148, :153, :156 | `RecordWinner`, `ClearOtherForced`, `ReturnSuccess` |
| `failed` | :368, :377 | `Escalate`: the count is read again |
| `rejected`, `disown`, `forget` | :337, :338, :340 | `FindForcedRejected`, `ClearForcedRejected`, `ForgetRejected` |
| `backoff` | :218 | `Retry`, `CancelledInBackoff` |

`RouteStream` runs the same steps (fallback.go:394-589); it differs in that the
forwarder does not credit the backend and that the text of an error is the server's
reason phrase. `Errors(r)` and `Credited(r)` carry these differences.

**Refinement.** `Router` declares
`Contract == INSTANCE FallbackContract WITH stage <- StageOf, calls <- tried` for
every request: a program counter maps to the stage it belongs to (a request
that waits, calls, has failed, was served, is over) and the list of tried backends
to the calls made. `ImplementsFallback` says that every request's behaviour is one
of the contract; TLC checks it in `router_retry` and `RouterProofs` proves it.
`Relay` declares the same contract for its one request, whose stage is what the
client sees of it (`StageSeen`): served from the first byte of an answer on. Its
`ImplementsFallback` covers `handleStream`, which has a loop of its own that shares no
code with the router's; TLC checks it in `relay` and `RelayProofs` proves it. After a
failure `handleStream` takes the next backend at once, where the router looks again at
what is available; the contract allows both.

Abstractions, and why they are safe:

- Router: scores are random, so the strategy may return any backend it has to choose
  from; the snapshot of all backends is one step although the code locks them one
  by one (a backend read earlier may have changed by the end of the loop, which the
  interval between `Snapshot` and the choice already allows); a request with an
  unknown explicit model is answered 404 without touching state, so it does not
  arrive; sessions are those of conversations with more than two messages, the only
  ones `Set` is called for; a cooldown's length is open, its timer may expire any
  time, and releases the backend in one step with the end of the timer; the limiter,
  asked with zero limits, always grants.
- PoolReload, HealthChecker: an upstream's answer and the first of the changes
  `handleError` makes of it are one action, the length of a cooldown is open. That
  the armed timers are the registered ones, so that one timer a backend is enough, is
  proved in `CooldownManagerProofs`. In HealthChecker a status is
  what it is in Go, a string of two words: an unlocked write that overlaps another
  may leave `"garbled"`, which is none of the four. The pool is fixed there.
- ConfigStore, ProviderAdmin, Startup: names, descriptions and headers are left out.
  A key that is stored is one that was entered; whether it decrypts depends on where
  the process runs, and what does not decrypt is read as no key (store.go:354-357).
  The receiver of the reload channel and the order of the calls at start-up belong
  to a main package that is not in the repository; both are marked external.
- Throttle: one provider with one model. Nothing of the SQLite copy is ever read
  back. The limiter's contract is modelled as its public methods offer it, though
  today's router neither gives it limits nor records anything.
- Protocols, Adapters, Relay: a text is a sequence of words, a content a sequence of
  typed blocks. Identifiers, function calls and HTTP headers are left out. A
  response has one choice. A vendor's whole answer may think before it speaks, and
  may give its usage as numbers alone or with parts (`Usage`). Clients and vendors
  speak their protocols correctly; a vendor may answer with an error or break off, a
  client may leave.

## 3. Runs

| Run | Instance | Shows |
|---|---|---|
| `cooldown_timers` | 1 backend, 2 callers, 3 timers, durations 1-3, up to 4 errors | timers and cooldowns agree in every interleaving of the halves; cooldowns end unless a callback is overtaken; timers cover their cooldown unless two callers cross |
| `cooldown_stranded` (violation) | 1 caller | a backend is left in cooldown for ever |
| `backoff_overflow` (violation) | base of 5 minutes, cap of 60, up to 30 errors | the 26th error in a row gives a negative cooldown instead of the cap |
| `router_retry` | 2 backends of 2 providers and models, a request, whole or streamed, with a session, models auto, one that is there and one that is not, 6 kinds of answers, 1 retry, threshold 1, admin, timers; about 472,000 states | the retry count of every answer, refinement of the contract (no repeat among it), every request ends |
| `router_shared` | 2 backends, 2 requests, whole or streamed (exchangeable), server errors and rejected keys, timers, an admin who recovers and forces, up to 3 errors; about 1,388,000 states | consecutive errors are consecutive; a late success does not end a cooldown; a rejected key is not brought back but by a cooldown that was under way; a forced model the requests have settled to is kept |
| `admin_reload` | 2 handlers, 2 instances, 2 models, channel of 1, 3 calls, 2 machines, 1 crash; about 1,056,000 states | what of database, configuration and pool agrees, and what an edit or a delete destroys |
| `startup_crash` | 2 templates, one without models, 4 instances, 2 admins, 2 backends, 2 crashes, new and older databases; about 540,000 states | starts succeed, seed once, seed whole; the route survives |
| `pool_reload` | 1 key, 2 requests, 2 callbacks, 2 objects, up to 3 errors; about 589,000 states | cooldowns, counts and rejections across reloads |
| `health_probes` | 1 backend, 2 probes, 1 request, 1 callback, admin, up to 3 errors; about 454,000 states | what probes may write, `Stop`, who ends a cooldown, recovery |
| `throttle` | 2 callers, a request window of length 1 and limit 1, a token window of length 2 and limit 5 with cost 2, days of 2, times up to 3, 3 records; 429s: window 2, threshold 3, cooldown 3, up to 3; about 700,000 states | counts against histories |
| `relay` | a backend of each of the five formats and one of OpenAI's, every client protocol, whole and streamed, usage with and without parts, 1 retry; about 1,340,000 states | what is said arrives, streams are well formed, blame, refinement of the contract |
| `relay_untranslated` (violation) | chat streams, Gemini backends | a stream in another vendor's format |

Why these bounds are enough to see the interesting cases. A race over one backend
needs two callers and one backend, and three timers let a callback, the timer it was
stopped for and the next one coexist. Two requests are what it takes for one to be
in flight while the other acts; two backends and one retry let a request run out of
backends and let the one it tried recover while it retries. The threshold of three
consecutive errors is reached wherever the count is a subject (with one to spare in
`cooldown_timers`); `router_retry` takes 1 because its properties do not depend on
it. Two objects of a key are a reload that replaces one, after which requests,
timers and callbacks may hold the old one; reloads that leave the key out are not
bounded; two callbacks let one be overtaken by the timer after it.
Thirty errors are four more than overflow. Two handlers over two instances and a
channel of one suffice for crossing, for a full channel and for an id given after a
delete, two machines for a key that does not decrypt; a third call is what reveals
what the two have left. One crash comes between any two statements, and
`startup_crash` has a second one so that the start that repairs the first is
interrupted itself. Times up to 3 cover a window, its edge, and the day after. In
`relay` the stream has two words so that it can break off between them, and the
conversations have no, one and several system messages, one turn and two, plain and
structured contents.

`CHECK_DEADLOCK FALSE` is given where the system really stops: a finished request
(`relay`, `relay_untranslated`), a stopped checker (`health_probes`), or where the
bounded supply of calls, crashes, objects or time runs out (`admin_reload`,
`startup_crash`, `pool_reload`, `throttle`).

Each property of a passing run has a mutant, a faulty variant of one operator marked
`faulty variant` in its module, that TLC catches.

**Conditions in the properties.** Many properties say "unless", and what follows is
the very race or loss the code is open to; the variable that records it is a history
variable or a named predicate (`Crossing`, `Collision`, `HeldByOld`, `Drops`,
`Disturbed`, `Dropping`, `unasked`, `Settled`, `Legible`, `Uncountable`). The
negations are reachable in the runs, so the condition narrows the property to what
the code keeps and names what it does not. Section 4 lists the latter.

**Fairness.**
- `CooldownManager!FairSpec`: a goroutine inside `enterCooldown` is scheduled until
  it has armed the timer, time passes, the runtime starts and runs callbacks.
  Arrivals and answers are not fair.
- `Router!FairSpec`: a request that has arrived is scheduled; upstream calls end,
  the HTTP client having timeouts, and delays run out. Nothing is assumed of timers
  and the admin.
- `PoolReload!FairSpec`: a request inside `enterCooldown` goes on to arm the timer,
  timers fire and their callbacks run; nothing else has to happen.
- `HealthChecker!FairSpec`: the loop ticks and goes through its rounds, every probe
  goes on (its context ends after 15 s, checker.go:105),
  requests arm the timers of the cooldowns they enter, timers fire and their
  callbacks run. Requests need not be answered, and no admin has to help.
  `IllnessEnds` further assumes that probes are answered from some time on; that a
  vendor ever does is not the code's to guarantee.

## 4. Disagreements met

Three are findings with a run: the stranded cooldown (`cooldown_stranded`), the
overflow of the backoff (`backoff_overflow`) and the untranslated streams
(`relay_untranslated`). The others were seen while
modelling; the models contain them as the code has them, and the conditions of the
properties leave them out. First two in detail.

The overflow of the backoff (manager.go:145): with the documented 5 minutes, 25
doublings leave an int64 of nanoseconds, so at the 26th error in a row the product is
negative, the cap of manager.go:34 does not apply and the timer fires at once;
manager.go:134 says that the limit of 30 doublings prevents it. The count gets there
by failures that start no cooldown, those of a forced model or of `handleStream`.
TLC refutes `BackoffMatchesContract` there; that it holds wherever the product fits is
proved (`BackoffExactWhileItFits`).

The forced model: fallback.go:151 (and 493 for streams) compares the winner with what
is forced when the answer comes, so a request that the router had sent by itself
clears a model forced meanwhile, which it never fell back from (router.go:92,
fallback.go:149). `ForcedModelHeld` says what is left: once the requests that were
under way are over, nobody but the admin ends it.

Cooldown and routing:
- The late callback of a stopped timer releases an extended cooldown early
  (manager.go:17-18 and 80-82 say it cannot).
- `/admin/recover` goes to the backend and not through `Manager.Recover`, so the
  timer stays armed (manager.go:110, api/admin.go:33-38).
- A 404 is retried though fallback.go:25 says no 4xx is; a 5xx outside
  500/502/503/504 is not though fallback.go:31 says all are.
- A sticky session overrides an explicit model (fallback.go:114 against
  thompson.go:23).
- A request for which no backend could be tried at all is told -1 retries
  (fallback.go:232). `RetriesTold` has this value, and names the answers that carry no
  count: a forced model's, a cancelled request's, a stream's that finds nothing.
- A forced model whose key is refused stays in use (fallback.go:191 against 335-336).
- Successful streams never reset the error count (forwarder.go:44 against
  fallback.go:31-32).
- Two quota 429s do not make a provider skipped, because the adapters keep the
  status text alone (fallback.go:361; config.go:12, provider_health.go:22).
- `EnterCooldown` overwrites an invalid status, so a rejected key comes back with a
  timer.

Pool, configuration, start-up:
- After a reload timers and requests keep the old objects: a cooldown copied into a
  new object has no timer, an answer for the old one is lost.
- A stored key that does not decrypt, because the host or user name has changed, is
  read as empty (store.go:354-357, aes.go:23-33): its backends leave the pool, and an
  edit that was given no key writes the empty one over it, for good
  (providers.go:140-151).
- An edit without a key puts back the key it read, undoing another's change in
  between (providers.go:140-151). A client that leaves between write and reload
  leaves the change unpublished; crossing handlers may publish the older
  configuration last; a full channel drops the newest.
- Models created while their provider is being deleted go with it.
- A crash in the first seeding leaves a partial seed for good (db_loader.go:98-100).
- `/admin/reload` replaces the settings that are not in the database by defaults.

Limits:
- A request recorded after midnight before anybody has asked is counted to the day
  before and lost (provider_quota.go:27-31, 56-65).

Statistics:
- A snapshot adds what the backends have counted since the start to what the last 24
  hours have recorded (collector.go:101-107), and a whole request is in both: the
  "累计请求数" (all requests) of README.md:162 counts it twice, or once if it is read
  between the two.

Protocols:
- Responses client: input blocks of type `input_text` are lost, the branch that would
  join them cannot be reached (openairesponses.go:47-66). With `stream: true` it gets
  chat events as they are, or, when a backend of Anthropic's or the Responses format
  answers, every backend tried is blamed.
- `openAIToAnthropicRequest` leaves system messages among the others; Gemini and
  Responses vendors get only the last system message (gemini.go:186,
  openai_responses.go:151); Gemini's `topP` is dropped without a temperature
  (gemini.go:168).
- `openAIToAnthropicRequest` parses `stop_sequences` and drops them (anthropic.go:85),
  as every translator drops blocks that are not text.
- `responsesToOpenAIResponse` reads the usage into a `map[string]int`
  (openai_responses.go:189-193): a usage with `input_tokens_details`, which the
  vendor gives, makes the whole answer an error and the backend blamed.
- `geminiToOpenAIResponse` joins every part (gemini.go:211-213), so a vendor's
  thoughts come as part of the text.
- An Anthropic client's stream gets a `message_start` for every chunk with a role
  (anthropic.go:299). `StreamWellFormed` is about vendors that name the role once.
- A whole call to a Responses vendor keeps the client's name of the model
  (openai_responses.go:36) and loses usage and finish reason (:219-225).
- Filtered content has no finish reason in a Gemini client's stream.
- A client that leaves while `handleStream` connects gets every backend tried
  blamed (protocol.go:173-176); a client's write that fails leaves a nil result that
  is dereferenced (openai.go:121, 210). `handleStream` posts to the backend's base
  URL without an adapter and marks nothing on success.
- A line of 64 KiB ends a stream with no error (protocol.go:233); Anthropic's adapter
  writes the end mark for a stream that was cut.

## 5. Theorems

All hold for every value of the constants under the assumptions their modules
declare (`ConstantsAssumption`, `StartupAssumption`, `HealthAssumption`,
`StoreAssumption`, `AdminAssumption`, `ThrottleAssumption`, `RelayAssumption`), which
give the constants their types and keep `None` out of the sets it is added to. TLC
evaluates them in the runs. Those that say more than types:
`Router`'s `Rank` is injective; `Throttle`'s callers are finitely many, its kinds of
windows distinct and no request costs more than a window's limit, for such a
request would never be let in; in `Relay` an input that a Responses client gives as
a plain string is one turn of the user's, which is what the format means by it, and
the vendor's answer has at least one word; `Backoff`'s base and cap are whole
minutes that a `Duration` holds, an assumption of `Backoff` that
`BackoffExactWhileItFits` takes as its hypothesis.

- **`CooldownManagerProofs`**: `TypeCorrect`, `NoForgottenTimer`
  (`OnlyRegisteredTimerArmed`), `NoDeadRegistration` (`RegisteredTimerIsLive`). The
  inductive invariant is their conjunction: that a registered timer is alive is kept
  by `DropTimer`, which frees the fired timer, only because the registration it
  drops is that of the same backend; that an armed timer is registered is kept by
  `ArmTimer` only because the timer it replaces is the only armed one.
  `TimerNeverEarly` (`TimerCoversCooldown`) adds `Covered`: between the halves of
  `enterCooldown` the deadline is no later than the duration the caller goes on to
  arm. The module also has the arithmetic of `Backoff`. `BackoffExactWhileItFits`
  says that whenever the exact product fits a `Duration` (`Fits`) the wrapped one,
  capped by a comparison of bits, is the documented duration
  (`BackoffMatchesContract`), for every base and cap: the overflow that
  `backoff_overflow` shows is the only way to break it. The argument is about the
  sequence of halves of a number, whose parities are its bits: shifting the bits is
  doubling as long as nothing is shifted out (`Halves` of x and of x * 2^k agree k
  places apart), a number below 2^n has no bit from n on, so the sign is clear, and
  of two numbers the greater has the first bit in which they differ, which is what
  `Exceeds` looks for.
- **`RouterProofs`**: `TypeCorrect`, `NeverTwice` (`NoRepeat`), `RetriesTrue`
  (`RetriesTold`), which needs that the attempts are the calls beyond the first
  (`AttemptsCounted`), the two sources of the count in the code. `NoRepeat` is not
  inductive, because the choice looks at the snapshot of candidates and not at
  `tried`; `CandidatesFresh` (no candidate has been tried) is what it lacks. The
  invariant is taken apart into a part about the shared state (`SharedOK`) and one
  about a single request (`RequestOK`): a step changes at most one request, so each
  action is checked on that one. `NoRepeat` is part of the contract, so no run
  checks it by itself. The action properties `CooldownNotCutShort` (`CooldownHeld`)
  and `RejectionHolds` (`RejectedKeyHeld`) follow from types by one lemma,
  `EveryStatusStep`, which classifies what any step can do to a backend's status.
  `ForcedHeld` (`ForcedModelHeld`): as long as every request is `Calm`, that is, not
  out at a backend of the router's choice nor about to clear the forced model,
  choosing leads to that backend or to the end, winning finds no other model forced,
  and failing ends the request, so only the admin's own steps remain. `ErrorsInARow`
  (`ConsecIsConsecutive`) is about `RouterHistory`, whose steps are steps of
  `Router`: the observer counts answers of the upstream and recoveries, the code its
  marks, and `CountKept` shows action by action that the two stay equal, for whole
  requests and for streams, which when delivered count as nothing.
  `FallbackImplemented` (`ImplementsFallback`) is the refinement: the initial state
  maps to the contract's, and lemmas sort the actions by what they map to
  (`Stutters`, `Moves`, `Calling`, `Closes`); only calling needs the invariant, for
  a call must be new and within the retries.
- **`HealthCheckerProofs`**: `TypeCorrect`, `StopIsFinal` (`StoppedIsQuiet`),
  `NoMarkLeftBehind` (`CheckingHasProbe`), `ProbesLeaveTimers` (`CooldownKeepsTimer`).
  The last needs `WritesNoCooldown`: what a probe is about to write without the lock
  is never a cooldown, so who ends a cooldown is the business of requests and
  callbacks, and only the second section of a `Recover` takes a timer away.
  `RejectionHolds` (`RejectionStands`) follows through `EveryBackendStep`.
- **`PoolReloadProofs`**: `TypeCorrect` is inductive by itself once it says that a
  pooled object, and the object of a timer, has the key it is found by; that
  `Replace` keeps this is the lemma `ReplaceObjects`. `RejectionOutlivesReloads`
  (`RejectionSurvivesReload`) is an action property; `CountOutlivesReloads`
  (`CountSurvivesReload`) says that the count is the streak an observer sees until an
  answer comes to an object out of the pool, with streams, reloads and recoveries in
  between, carried from step to step by `CountStep`.
- **`ProviderAdminProofs`**: `TypeCorrect` (`TypeOK`) needs, between two statements
  of a handler, what it still knows of the tables whatever the others have done
  (`IInv`); a lemma per SQL statement says what it keeps.
  `NoProviderReturns` (`DeletedStaysDeleted`), `SweptModelsAreNew`
  (`CountedModelsKept`) and `EditKeepsKey` (`KeyKeptByEdit`) are action properties:
  ids are never given twice, and lemmas say which statement alone can make a row
  appear, change or go. `EditKeepsKey` has two exceptions, which the code is open to: a
  key another handler has put there since the edit read the provider, and one that
  does not decrypt where the process runs. `CurrentKeepsUp` (`CurrentInStep`)
  holds while handlers come one at a time: the invariant says how far the published
  configuration is behind the tables at each point of the only handler at work, and
  needs that the set of those at work is finite to tell one from several.
  `PoolKeepsUp` (`PoolInStep`) adds that the channel, if not empty, ends with what
  was published last.
- **`StartupProofs`**: `EveryStartSucceeds` (`StartSucceeds`) from `SchemaInv`, which
  ties the counter of the running statement to the tables that must be there;
  `NothingSeededTwice` (`SeededOnce`) and `FirstStartIsWhole` (`SeedWhole`) from
  `SeedInv` and `WholeInv`, the templates below the seeding counter being those that
  have their instance; `SavedRouteSurvives` (`RouteSurvives`) from `RouteInv`, which
  says what memory and `route_config` have in common at each point of a call.
- **`ThrottleProofs`**: `QuotaIsToday` (`QuotaCountsToday`) from `QuotaInv`.
  `SkipIsHistory` (`SkipMatchesHistory`) compares three fields with the sequence of
  all 429s: `RowInv` says that `consecutive429s` is the length of the row that ends
  now and `cooldownUntil` the end of the latest cooldown a row began. `RowByGaps`
  describes a row by the gaps between neighbours, and `RowAppended` what one more
  429 does to all rows, which is the induction step over the history.
  `WindowsAreTrue` (`WindowCounts`) compares a window with everything ever recorded
  in it: `HistInv` says that the window is the end of that sequence and that what is
  missing in front is too old for any clock still to be read, callers' included.
  `OvershootIsBounded` (`OvershootBounded`) is not inductive, for the excess shows
  only when the last caller records. `OverInv` charges a caller from the moment a
  window lets it in: what is recent plus a request of everybody who waits to record
  is within the limit and a request of all callers but one. Asking keeps it because
  the one who is let in found room for himself; recording moves a request from one
  summand to the other; time only lowers the first.
- **`RelayProofs`**: for any conversation, words, cutting of the stream, backends
  and retries. `CallInv` ties the request that is out to the backend it was
  translated for. `BlameIsEarned` (`BlameMatchesAnswers`) from `BlameInv`: who has
  not been tried has neither answer nor blame. `WholeAnswer` (`ReplyReachesClient`)
  from `ReplyInv` and a lemma per format: in OpenAI's format all answers are the
  same but for those of Responses, which lose usage and reason, and those of Gemini,
  whose text begins with the thoughts. `BlameIsEarned` has the Responses answer that
  cannot be read among the failures. `RequestHeard` (`RequestReachesVendor`) has no
  invariant beyond `CallInv`: it is one about the composition of a client's
  translator and an adapter's. Every client's request is a list of system messages
  followed by the turns (`Addressed`); every adapter takes the system texts out of
  the messages or leaves them in (`Hears`); where they go, none is lost but those
  the property names. `StreamedWords` (`StreamTextKept`): `ScriptInv` says that the
  events under way are a cut of what the vendor says, `TextInv` that the client has
  the words of the events written so far, or of fewer if it has left, and `StopInv`
  that the reason is told with the event that holds it. `StreamInOrder`
  (`StreamWellFormed`): a chat client's events are, one by one, those of the script
  (`CopyInv`); what an Anthropic client has is `Part`, the message as far as the cut
  has come (`AnthroInv`), which is the beginning of a message for every cut.
  `LoopsImplemented` (`ImplementsFallback`) is the second refinement: `StatusTold`
  ties the status the client has been given to the point of the request, which makes
  every action but `Choose` a move along the contract's stages (`StageStep`) and
  `Choose` a call.

**Induction over data.** Windows are summed and texts joined by recursive functions
(`SumOf`, the library's `FlattenSeq`). What the proofs need of them is shown from
two facts: that such a function exists on every finite sequence, and what one more
place adds. Both are by induction on the length; the library's induction
rules are stated for any predicate, which the provers here cannot instantiate, so
`Induction` in `ThrottleProofs` and `RelayProofs` states it for a set of numbers and
takes its least missing member.

**Only model-checked.** Every liveness property (`EveryRequestEnds`, `CooldownEnds`,
`CooldownEndsUnlessCollision`, `CooldownEndsUnlessHeld`, `IllnessEnds`), which are
beyond the prover, and the three findings, which TLC refutes. Every safety invariant
and every action property of a passing run has its theorem.

## 6. What is not modelled

- Statistics: totals and averages that no decision reads.
- Tray: a desktop menu; its state is that of the operating system's processes.
- Users, tokens, middleware, pages, request logs: single statements and I/O, no
  protocol between them. Of cryptography only whether a key decrypts.
- Of modelled components: the details of `SelectBackend` and the floating-point
  scores behind `Select` (both are a choice among what may be chosen);
  `CheckAllOnce` and `CheckOneOnce`, and the stream translators for Bedrock and
  Responses, which nothing in the repository calls; `Sticky.Prune`, which only frees
  memory; the SQLite copy of the rate limits, which is never read; URLs, headers and
  function calls of the adapters.
- The main package that starts the gateway (`cmd/fmg`) is not in the repository: the
  receiver of the reload channel and the order of the start are external.
