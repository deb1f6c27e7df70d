---------------------------- MODULE ProviderAdmin ----------------------------
(***************************************************************************)
(* The handlers that change providers and models (api/providers.go), the   *)
(* reload of the configuration they end with, and its way to the pool.     *)
(*                                                                         *)
(* A handler is a goroutine; what it does between two statements others    *)
(* may do too.  Its statements run under the context of the HTTP request,  *)
(* so a client that goes away makes the next one fail; a reload that fails *)
(* is ignored.  A reload reads the instances, then the models of one       *)
(* instance after the other, publishes the result and offers it to a       *)
(* channel of bounded capacity.                                            *)
(*                                                                         *)
(* Abstractions: the receiver of the channel, which replaces the pool, is  *)
(* started by a main package that is not in the repository; so is the load *)
(* at start-up.  Backends of the pool are identities here (PoolReload has  *)
(* their state).                                                           *)
(***************************************************************************)
EXTENDS ConfigStore, Sequences

CONSTANTS
    Handlers,       \* concurrent HTTP handlers (bound)
    ChannelCap,     \* capacity of the reload channel (8)
    MaxCalls,       \* bound on the calls of handlers
    MaxCrashes      \* bound on the crashes

ASSUME AdminAssumption ==
    /\ Machines # {}
    /\ Known # {} /\ ModelNames # {} /\ MaxInstances > 0 /\ MaxModels > 0
    /\ ChannelCap \in Nat \ {0}
    /\ MaxCalls \in Nat
    /\ MaxCrashes \in Nat

VARIABLES
    db,         \* the tables
    current,    \* Reloader.current
    changeCh,   \* Reloader.changeCh
    pool,       \* the backends of the pool
    job,        \* the handlers
    machine,    \* where the process runs
    calls, crashes

vars == <<db, current, changeCh, pool, job, calls, machine, crashes>>

(* settings: the gateway, strategy, fallback and log sections.             *)
Config == [settings : {"own", "default"}, providers : Providers]

Pc == {"idle", "update", "counted", "modelsGone", "rewrite", "list", "load", "notify",
       "abandoned"}

(* id: the row the call is about; key: the key in the body; row: what was  *)
(* read of it; upto: next model id when the models were counted; rows:  *)
(* instances read by the reload; todo: those whose models are still to be  *)
(* read; cfg: the configuration being built.                               *)
Idle == [pc |-> "idle", id |-> 0, key |-> NoKey, row |-> None, upto |-> 0,
         rows |-> NoProviders, todo |-> {}, cfg |-> [settings |-> "own", providers |-> NoProviders]]

Job == [pc : Pc, id : 0..(MaxInstances + MaxModels), key : Keys \cup {NoKey},
        row : ProviderInstance \cup Model \cup {None}, upto : 0..(MaxModels + 1),
        rows : [InstanceIds -> ProviderInstance \cup {None}],
        todo : SUBSET InstanceIds, cfg : Config]

TypeOK ==
    /\ db \in Database
    /\ current \in Config
    /\ changeCh \in Seq(Config) /\ Len(changeCh) <= ChannelCap
    /\ pool \subseteq InstanceIds \X ModelNames \X Keys
    /\ job \in [Handlers -> Job]
    /\ \A h \in Handlers :
          /\ job[h].pc \in {"update", "counted", "modelsGone"} => job[h].id \in InstanceIds
          /\ job[h].pc = "update" => job[h].row \in ProviderInstance
          /\ job[h].pc = "rewrite" => job[h].id \in ModelIds /\ job[h].row \in Model
          /\ \A i \in job[h].todo : job[h].rows[i] \in ProviderInstance
    /\ machine \in Machines
    /\ calls \in 0..MaxCalls
    /\ crashes \in 0..MaxCrashes

(* The database as a first start leaves it: an instance of a built-in      *)
(* template, without a key, with the enabled models it comes with, of      *)
(* which one template has none.                                            *)
Seeded(withModel) ==
    LET row == [template |-> CHOOSE t \in Known : TRUE, key |-> NoKey]
        model == [provider |-> 1, model |-> CHOOSE n \in ModelNames : TRUE, enabled |-> TRUE]
    IN  [instances |-> [i \in InstanceIds |-> IF i = 1 THEN row ELSE None],
         models |-> [m \in ModelIds |-> IF withModel /\ m = 1 THEN model ELSE None],
         nextInstance |-> 2,
         nextModel |-> IF withModel THEN 2 ELSE 1]

Init ==
    /\ db \in {Seeded(withModel) : withModel \in BOOLEAN}
    /\ machine \in Machines
    /\ current = [settings |-> "own", providers |-> Load(db, machine)]
    /\ changeCh = <<>>
    /\ pool = PoolOf(Load(db, machine))
    /\ job = [h \in Handlers |-> Idle]
    /\ calls = 0
    /\ crashes = 0

-----------------------------------------------------------------------------
(* Calls *)

Call(h) ==
    /\ job[h].pc = "idle"
    /\ calls < MaxCalls
    /\ calls' = calls + 1
    /\ UNCHANGED <<current, changeCh, pool, machine, crashes>>

(* A client knows the ids it has been shown, of rows that may be gone now. *)
SeenInstances == 1..(db.nextInstance - 1)
SeenModels == 1..(db.nextModel - 1)

(* reloadConfig, and Reload of the admin handler, which starts from the    *)
(* default settings.                                                       *)
Reloading(settings) ==
    [Idle EXCEPT !.pc = "list", !.cfg = [settings |-> settings, providers |-> NoProviders]]

ReloadAfter_Never(h) == Idle                                  \* faulty variant
ReloadAfter(h) == Reloading(current.settings)

AdminReload(h) ==
    /\ Call(h)
    /\ job' = [job EXCEPT ![h] = Reloading("default")]
    /\ UNCHANGED db

(* CreateProviderAPI does not reload.                                      *)
CreateProviderAPI(h, template, key) ==
    /\ Call(h)
    /\ db.nextInstance <= MaxInstances
    /\ db' = CreateProviderInstance(db, [template |-> template, key |-> key], machine)
    /\ UNCHANGED job

(* UpdateProviderAPI reads all instances and looks for its own ...         *)
UpdateProviderAPI(h, i, key) ==
    /\ Call(h)
    /\ i \in Instances(db)
    /\ job' = [job EXCEPT ![h] = [Idle EXCEPT !.pc = "update", !.id = i, !.key = key,
                                              !.row = GetProviderInstances(db, machine)[i]]]
    /\ UNCHANGED db

(* ... and writes back what it read, with the key of the body if there is  *)
(* one.                                                                    *)
Edited_Blanked(p, key) == [p EXCEPT !.key = key]              \* faulty variant
Edited(p, key) == IF key = NoKey THEN p ELSE [p EXCEPT !.key = key]

WriteProvider(h) ==
    /\ job[h].pc = "update"
    /\ db' = UpdateProviderInstance(db, job[h].id, Edited(job[h].row, job[h].key),
                                     machine)
    /\ job' = [job EXCEPT ![h] = ReloadAfter(h)]
    /\ UNCHANGED <<current, changeCh, pool, calls, machine, crashes>>

(* DeleteProviderAPI refuses a provider that has models.                   *)
Deletable_Always(i) == TRUE                                   \* faulty variant
Deletable(i) == CountModelsByProvider(db, i) = 0

DeleteProviderAPI(h, i) ==
    /\ Call(h)
    /\ Deletable(i)
    /\ job' = [job EXCEPT ![h] = [Idle EXCEPT !.pc = "counted", !.id = i,
                                              !.upto = db.nextModel]]
    /\ UNCHANGED db

SweepModels(h) ==
    /\ job[h].pc = "counted"
    /\ db' = DeleteModelsOfProvider(db, job[h].id)
    /\ job' = [job EXCEPT ![h].pc = "modelsGone"]
    /\ UNCHANGED <<current, changeCh, pool, calls, machine, crashes>>

DeleteRow(h) ==
    /\ job[h].pc = "modelsGone"
    /\ db' = DeleteInstanceRow(db, job[h].id)
    /\ job' = [job EXCEPT ![h] = ReloadAfter(h)]
    /\ UNCHANGED <<current, changeCh, pool, calls, machine, crashes>>

(* CreateModelAPI does not look for the provider.                          *)
CreateModelAPI(h, i, name) ==
    /\ Call(h)
    /\ db.nextModel <= MaxModels
    /\ LET row == [provider |-> i, model |-> name, enabled |-> TRUE]
       IN  /\ Unique(db, row, 0)
           /\ db' = CreateModel(db, row)
    /\ job' = [job EXCEPT ![h] = ReloadAfter(h)]

(* UpdateModelAPI reads the model ...                                      *)
UpdateModelAPI(h, m, name, enabled) ==
    /\ Call(h)
    /\ m \in Models(db)
    /\ job' = [job EXCEPT ![h] =
                  [Idle EXCEPT !.pc = "rewrite", !.id = m,
                               !.row = [db.models[m] EXCEPT !.model = name,
                                                            !.enabled = enabled]]]
    /\ UNCHANGED db

(* ... and writes it; a name that is taken ends the handler with an error. *)
WriteModel(h) ==
    /\ job[h].pc = "rewrite"
    /\ IF job[h].id \in Models(db) => Unique(db, job[h].row, job[h].id)
       THEN /\ db' = UpdateModel(db, job[h].id, job[h].row)
            /\ job' = [job EXCEPT ![h] = ReloadAfter(h)]
       ELSE /\ job' = [job EXCEPT ![h] = Idle]
            /\ UNCHANGED db
    /\ UNCHANGED <<current, changeCh, pool, calls, machine, crashes>>

DeleteModelAPI(h, m) ==
    /\ Call(h)
    /\ db' = DeleteModel(db, m)
    /\ job' = [job EXCEPT ![h] = ReloadAfter(h)]

-----------------------------------------------------------------------------
(* The reload *)

ListInstances(h) ==
    /\ job[h].pc = "list"
    /\ job' = [job EXCEPT ![h].pc = "load", ![h].rows = GetProviderInstances(db, machine),
                          ![h].todo = Instances(db)]
    /\ UNCHANGED <<db, current, changeCh, pool, calls, machine, crashes>>

LoadModels(h) ==
    /\ job[h].pc = "load"
    /\ \E i \in job[h].todo :
          /\ \A j \in job[h].todo : i <= j
          /\ job' = [job EXCEPT ![h].todo = @ \ {i},
                                ![h].cfg.providers[i] = LoadProvider(db, i, job[h].rows[i])]
    /\ UNCHANGED <<db, current, changeCh, pool, calls, machine, crashes>>

(* Reloader.Reload: the configuration is current first ...                 *)
Publish(h) ==
    /\ job[h].pc = "load"
    /\ job[h].todo = {}
    /\ current' = job[h].cfg
    /\ job' = [job EXCEPT ![h].pc = "notify"]
    /\ UNCHANGED <<db, changeCh, pool, calls, machine, crashes>>

(* ... and is offered to the channel afterwards, outside the lock; a full  *)
(* channel drops it.                                                       *)
Offer(cfg) == IF Len(changeCh) < ChannelCap THEN Append(changeCh, cfg) ELSE changeCh

Notify(h) ==
    /\ job[h].pc = "notify"
    /\ changeCh' = Offer(job[h].cfg)
    /\ job' = [job EXCEPT ![h] = Idle]
    /\ UNCHANGED <<db, current, pool, calls, machine, crashes>>

(* The receiver of the channel replaces the pool.                          *)
ApplyChange_Merges(cfg) == pool \cup PoolOf(cfg.providers)    \* faulty variant
ApplyChange(cfg) == PoolOf(cfg.providers)

Receive ==
    /\ changeCh # <<>>
    /\ pool' = ApplyChange(Head(changeCh))
    /\ changeCh' = Tail(changeCh)
    /\ UNCHANGED <<db, current, job, calls, machine, crashes>>

-----------------------------------------------------------------------------
(* Failures *)

(* The client goes away: the statement the handler waits for fails.  A     *)
(* handler that has not written yet just ends; after a write it leaves     *)
(* without its reload.                                                     *)
ClientLeaves(h) ==
    /\ \/ /\ job[h].pc \in {"update", "counted", "rewrite"}
          /\ job' = [job EXCEPT ![h] = Idle]
       \/ /\ \/ job[h].pc \in {"modelsGone", "list"}
             \/ job[h].pc = "load" /\ job[h].todo # {}
          /\ job' = [job EXCEPT ![h] = [Idle EXCEPT !.pc = "abandoned"]]
    /\ UNCHANGED <<db, current, changeCh, pool, calls, machine, crashes>>

Leave(h) ==
    /\ job[h].pc = "abandoned"
    /\ job' = [job EXCEPT ![h] = Idle]
    /\ UNCHANGED <<db, current, changeCh, pool, calls, machine, crashes>>

(* The process dies and is started again, perhaps under another host name  *)
(* or user (a new container): it loads what it can read of the tables.     *)
Restart ==
    /\ crashes < MaxCrashes
    /\ crashes' = crashes + 1
    /\ job' = [h \in Handlers |-> Idle]
    /\ changeCh' = <<>>
    /\ machine' \in Machines
    /\ current' = [settings |-> "own", providers |-> Load(db, machine')]
    /\ pool' = PoolOf(Load(db, machine'))
    /\ UNCHANGED <<db, calls>>

-----------------------------------------------------------------------------
Begin(h) ==
    \/ AdminReload(h)
    \/ \E t \in Known \cup Unknown, k \in Keys \cup {NoKey} : CreateProviderAPI(h, t, k)
    \/ \E i \in SeenInstances, k \in Keys \cup {NoKey} : UpdateProviderAPI(h, i, k)
    \/ \E i \in SeenInstances : DeleteProviderAPI(h, i)
    \/ \E i \in SeenInstances, n \in ModelNames : CreateModelAPI(h, i, n)
    \/ \E m \in SeenModels, n \in ModelNames, e \in BOOLEAN : UpdateModelAPI(h, m, n, e)
    \/ \E m \in SeenModels : DeleteModelAPI(h, m)

Continue(h) ==
    \/ WriteProvider(h)
    \/ SweepModels(h)
    \/ DeleteRow(h)
    \/ WriteModel(h)
    \/ ListInstances(h)
    \/ LoadModels(h)
    \/ Publish(h)
    \/ Notify(h)

Next ==
    \/ \E h \in Handlers : Begin(h) \/ Continue(h) \/ ClientLeaves(h) \/ Leave(h)
    \/ Receive
    \/ Restart

Spec == Init /\ [][Next]_vars

-----------------------------------------------------------------------------
(* Properties *)

Busy == {h \in Handlers : job[h].pc # "idle"}

(* Two handlers at work at once, or one left by its client.                *)
Disturbed ==
    \/ Cardinality(Busy) > 1
    \/ \E h \in Handlers : job[h].pc = "abandoned"

(* When no two handlers have ever overlapped and no client has gone away,  *)
(* the current configuration is what the process can read of the database  *)
(* whenever nobody is at work: CreateProviderAPI needs no reload, and every other handler's   *)
(* reload comes after its last write (providers.go:14-23).                 *)
CurrentInStep ==
    ([]~Disturbed) => [](Busy = {} => current.providers = Load(db, machine))

(* A change finds the channel full and is dropped (reload.go:37-40).       *)
Dropping == \E h \in Handlers : job[h].pc = "notify" /\ Len(changeCh) = ChannelCap

(* When handlers have not overlapped and no change was dropped, a drained  *)
(* channel means that the pool has the backends of the current             *)
(* configuration, those without a key left out.                            *)
PoolInStep ==
    ([]~(Disturbed \/ Dropping))
        => [](Busy = {} /\ changeCh = <<>> => pool = PoolOf(current.providers))

(* A provider that has been deleted never comes back, though an update of  *)
(* it may still be on its way (store.go:309-320), and the models somebody  *)
(* created for it meanwhile are never inherited by a new provider.         *)
DeletedStaysDeleted ==
    [][\A i \in InstanceIds :
          i \notin Instances(db) /\ i \in Instances(db')
             => i = db.nextInstance /\ GetModelsByProvider(db', i) = {}]_vars

(* Deleting a provider takes a model with it only if the model was created *)
(* after the handler had counted none (providers.go:177-189).              *)
CountedModelsKept ==
    [][\A h \in Handlers, m \in ModelIds :
          SweepModels(h) /\ m \in Models(db) /\ m \notin Models(db')
             => m >= job[h].upto]_vars

(* The key in a row, whoever may read it.                                  *)
KeyIn(row) == IF row.key = NoKey THEN NoKey ELSE row.key.key

(* An edit that brings no key leaves the stored one as it was ("leave it   *)
(* empty to keep it", Providers.vue.js:239), with two exceptions.  It puts *)
(* an old key back when somebody else has changed the provider since the   *)
(* edit read it (providers.go:140-151); and a key that the process cannot  *)
(* decrypt, having been stored under another host name or user, is read as *)
(* none and overwritten with none (store.go:354-357, aes.go:23-37), with   *)
(* nobody else at work, so that it is lost for the old host too.           *)
KeyKeptByEdit ==
    [][\A h \in Handlers, i \in Instances(db) :
          WriteProvider(h) /\ job[h].key = NoKey
          /\ KeyIn(db'.instances[i]) # KeyIn(db.instances[i])
             => LET before == GetProviderInstances(db, machine)[i]
                IN  \/ before # job[h].row /\ GetProviderInstances(db', machine)[i] = job[h].row
                    \/ /\ ~Legible(db.instances[i].key, machine)
                       /\ before = job[h].row /\ db'.instances[i].key = NoKey]_vars
=============================================================================
