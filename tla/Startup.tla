------------------------------- MODULE Startup -------------------------------
(***************************************************************************)
(* What a start of the gateway finds in its database and what a crash      *)
(* leaves there: the migration of the schema (store.go), the seeding of    *)
(* the built-in providers (config/db_loader.go) and the route the admin    *)
(* has chosen (api/admin.go), which lives in memory and in route_config.   *)
(*                                                                         *)
(* Every SQL statement commits on its own.  The process may die between    *)
(* any two of them and is started again on what is there.                  *)
(*                                                                         *)
(* Abstractions: the order of the calls at start-up, and that a start      *)
(* restores the route it finds, belong to a main package that is not in    *)
(* the repository.  Of the tables only those that seeding or the route     *)
(* need are kept, with one more for all that are only created.  The        *)
(* requests that clear a forced model are one action (Router has them).    *)
(***************************************************************************)
EXTENDS Naturals, Sequences, FiniteSets

CONSTANTS
    Builtin,        \* BuiltinProviderTemplates
    BuiltinModels,  \* the models of each
    Admins,         \* concurrent admin calls (bound)
    Backends,       \* backends that may be forced
    Modes,          \* strategy modes an admin may ask for
    Strategies,     \* those that SetStrategy knows
    MaxCrashes,     \* bound on the crashes
    MaxInstances,   \* bound on the provider instances ever created
    None

VARIABLES
    schema,     \* the tables: absent, of an older version, or as they should be
    templates,  \* provider_templates
    instances,  \* provider_instances ever created, with their models
    route,      \* the row of route_config, or None
    proc,       \* the process
    memory,     \* the router's strategy and forced model
    call,       \* the admin calls
    crashes,
    interrupted,\* history: a crash hit the first start after it had begun to seed
    inStep,     \* history: the last change of the route was saved undisturbed
    fresh       \* history: the database was new

database == <<schema, templates, instances, route>>
vars == <<database, proc, memory, call, crashes, interrupted, inStep, fresh>>

Tables == {"other", "templates", "instances", "models", "route"}

Seeding == {"instance", "models"}
ProcPc == {"off", "migrate", "count", "upsert", "serving", "failed"} \cup Seeding
CallPc == {"idle", "unforce", "name", "save"}

AnyModel == UNION {BuiltinModels[t] : t \in Builtin}
Instance == [template : Builtin, models : SUBSET AnyModel, deleted : BOOLEAN]

RouteConfig == [mode : {"auto", "manual"}, strategy : Modes \cup Strategies,
                forced : Backends \cup {None}]

Off == [pc |-> "off", stmt |-> 1, first |-> FALSE, todo |-> {}]
IdleCall == [pc |-> "idle", row |-> None, alone |-> FALSE]
DefaultRoute == [mode |-> "auto", strategy |-> "balanced", forced |-> None]

ASSUME StartupAssumption ==
    /\ DOMAIN BuiltinModels = Builtin
    /\ "balanced" \in Strategies
    /\ MaxCrashes \in Nat
    /\ MaxInstances \in Nat
    /\ None \notin Backends \cup RouteConfig

TypeOK ==
    /\ schema \in [Tables -> {"absent", "old", "new"}]
    /\ templates \subseteq Builtin
    /\ instances \in Seq(Instance)
    /\ route \in RouteConfig \cup {None}
    /\ proc \in [pc : ProcPc, stmt : Nat, first : BOOLEAN, todo : SUBSET Builtin]
    /\ memory \in [strategy : Strategies, forced : Backends \cup {None}]
    /\ call \in [Admins -> [pc : CallPc, row : RouteConfig \cup {None}, alone : BOOLEAN]]
    /\ {interrupted, inStep, fresh} \subseteq BOOLEAN

(* The database is new, or an older version has left it, whose             *)
(* provider_templates had no api_key_env.                                  *)
NewDatabase ==
    /\ schema = [t \in Tables |-> "absent"]
    /\ templates = {}
    /\ instances = <<>>
    /\ fresh = TRUE

OldDatabase ==
    /\ schema = [t \in Tables |-> IF t = "templates" THEN "old" ELSE "new"]
    /\ templates \in {Builtin \ {t} : t \in Builtin}
    /\ instances = <<>>
    /\ fresh = FALSE

Init ==
    /\ NewDatabase \/ OldDatabase
    /\ route = None
    /\ proc = Off
    /\ memory = [strategy |-> "balanced", forced |-> None]
    /\ call = [a \in Admins |-> IdleCall]
    /\ crashes = 0
    /\ interrupted = FALSE
    /\ inStep = FALSE

-----------------------------------------------------------------------------
(* store.Open: the statements of migrate, one by one *)

Migration_AlterFirst ==                                       \* faulty variant
    << <<"create", "other">>, <<"index", "other">>, <<"alter", "templates">>,
       <<"create", "templates">>, <<"create", "instances">>, <<"create", "models">>,
       <<"index", "models">>, <<"create", "route">> >>
Migration ==
    << <<"create", "other">>, <<"index", "other">>, <<"create", "templates">>,
       <<"alter", "templates">>, <<"create", "instances">>, <<"create", "models">>,
       <<"index", "models">>, <<"create", "route">> >>

(* What the table becomes, or "error": CREATE ... IF NOT EXISTS takes what *)
(* is there; that the column to add exists is not held against ALTER.      *)
Executed(kind, state) ==
    IF kind = "create" THEN IF state = "absent" THEN "new" ELSE state
    ELSE IF state = "absent" THEN "error"
    ELSE IF kind = "alter" THEN "new"
    ELSE state

Start ==
    /\ proc.pc = "off"
    /\ proc' = [proc EXCEPT !.pc = "migrate"]
    /\ UNCHANGED <<database, memory, call, crashes, interrupted, inStep, fresh>>

Migrate ==
    /\ proc.pc = "migrate"
    /\ LET kind == Migration[proc.stmt][1]
           table == Migration[proc.stmt][2]
           result == Executed(kind, schema[table])
       IN  IF result = "error"
           THEN /\ proc' = [proc EXCEPT !.pc = "failed"]
                /\ UNCHANGED schema
           ELSE /\ schema' = [schema EXCEPT ![table] = result]
                /\ proc' = IF proc.stmt = Len(Migration) THEN [proc EXCEPT !.pc = "count"]
                           ELSE [proc EXCEPT !.stmt = @ + 1]
    /\ UNCHANGED <<templates, instances, route, memory, call, crashes, interrupted, inStep,
                   fresh>>

-----------------------------------------------------------------------------
(* config.InitBuiltinData *)

FirstStartup_ByInstances ==                                   \* faulty variant
    \A i \in DOMAIN instances : instances[i].deleted
FirstStartup == templates = {}

(* Templates are written at every start, so that changes of theirs arrive. *)
ToUpsert == Builtin

CountTemplates ==
    /\ proc.pc = "count"
    /\ proc' = [proc EXCEPT !.pc = "upsert", !.first = FirstStartup, !.todo = ToUpsert]
    /\ UNCHANGED <<database, memory, call, crashes, interrupted, inStep, fresh>>

UpsertTemplate ==
    /\ proc.pc = "upsert"
    /\ proc.todo # {}
    /\ LET t == CHOOSE u \in proc.todo : TRUE
       IN  /\ templates' = templates \cup {t}
           /\ proc' = [proc EXCEPT !.todo = @ \ {t}]
    /\ UNCHANGED <<schema, instances, route, memory, call, crashes, interrupted, inStep, fresh>>

(* The process takes up its work with the route it finds (external).       *)
SetStrategy(mode) == IF mode \in Strategies THEN mode ELSE "balanced"

GetRouteConfig == IF route = None THEN DefaultRoute ELSE route

Serve ==
    /\ proc' = [proc EXCEPT !.pc = "serving", !.todo = {}]
    /\ memory' = [strategy |-> SetStrategy(GetRouteConfig.strategy),
                  forced |-> GetRouteConfig.forced]
    /\ inStep' = TRUE

(* Only the first start goes on to seed.                                   *)
TemplatesDone ==
    /\ proc.pc = "upsert"
    /\ proc.todo = {}
    /\ IF proc.first
       THEN /\ proc' = [proc EXCEPT !.pc = "instance", !.todo = Builtin]
            /\ UNCHANGED <<memory, inStep>>
       ELSE Serve
    /\ UNCHANGED <<database, call, crashes, interrupted, fresh>>

(* One instance per template, in the order of a Go map ...                 *)
ToSeed_WithModels == {t \in proc.todo : BuiltinModels[t] # {}} \* faulty variant
ToSeed == proc.todo

SeedInstance ==
    /\ proc.pc = "instance"
    /\ Len(instances) < MaxInstances
    /\ \E t \in ToSeed :
          /\ instances' = Append(instances, [template |-> t, models |-> {}, deleted |-> FALSE])
          /\ proc' = [proc EXCEPT !.pc = "models", !.todo = @ \ {t}]
    /\ UNCHANGED <<schema, templates, route, memory, call, crashes, interrupted, inStep, fresh>>

(* ... each followed by its models.                                        *)
SeedModel ==
    /\ proc.pc = "models"
    /\ LET i == Len(instances)
           missing == BuiltinModels[instances[i].template] \ instances[i].models
       IN  IF missing = {}
           THEN /\ proc' = [proc EXCEPT !.pc = "instance"]
                /\ UNCHANGED instances
           ELSE /\ instances' = [instances EXCEPT ![i].models = @ \cup {CHOOSE m \in missing : TRUE}]
                /\ UNCHANGED proc
    /\ UNCHANGED <<schema, templates, route, memory, call, crashes, interrupted, inStep, fresh>>

SeedDone ==
    /\ proc.pc = "instance"
    /\ ToSeed = {}
    /\ Serve
    /\ UNCHANGED <<database, call, crashes, interrupted, fresh>>

-----------------------------------------------------------------------------
(* The admin deletes a provider, models and all (ProviderAdmin has how).   *)
DeleteProvider(i) ==
    /\ proc.pc = "serving"
    /\ i \in DOMAIN instances /\ ~instances[i].deleted
    /\ instances' = [instances EXCEPT ![i].deleted = TRUE]
    /\ UNCHANGED <<schema, templates, route, proc, memory, call, crashes, interrupted, inStep,
                   fresh>>

-----------------------------------------------------------------------------
(* The route: changed in memory first, then saved *)

RouteOnly == UNCHANGED <<schema, templates, instances, proc, crashes, interrupted, fresh>>

BusyCalls == {a \in Admins : call[a].pc # "idle"}

(* Another call has begun, or a request has changed the memory: no call is *)
(* alone any more.                                                         *)
NobodyAlone == [a \in Admins |-> [call[a] EXCEPT !.alone = FALSE]]

BeginCall(a, pc, row) ==
    /\ proc.pc = "serving"
    /\ call[a].pc = "idle"
    /\ call' = [NobodyAlone EXCEPT ![a] = [pc |-> pc, row |-> row, alone |-> BusyCalls = {}]]
    /\ inStep' = FALSE
    /\ UNCHANGED route
    /\ RouteOnly

(* SwitchStrategy sets the strategy; it saves the mode as it was given.    *)
SwitchStrategy(a, mode) ==
    /\ BeginCall(a, "unforce", [mode |-> "auto", strategy |-> mode, forced |-> None])
    /\ memory' = [memory EXCEPT !.strategy = SetStrategy(mode)]

(* Then it clears the forced model, as the switch to auto does.            *)
Unforced_Kept == memory                                       \* faulty variant
Unforced == [memory EXCEPT !.forced = None]

UnforceForStrategy(a) ==
    /\ call[a].pc = "unforce"
    /\ memory' = Unforced
    /\ call' = [call EXCEPT ![a].pc = "save"]
    /\ UNCHANGED <<route, inStep>>
    /\ RouteOnly

SwitchAuto(a) ==
    /\ BeginCall(a, "name", [mode |-> "auto", strategy |-> "balanced", forced |-> None])
    /\ memory' = Unforced

SwitchModel(a, b) ==
    /\ BeginCall(a, "name", [mode |-> "manual", strategy |-> "balanced", forced |-> b])
    /\ memory' = [memory EXCEPT !.forced = b]

(* The strategy is read again for the row.                                 *)
NameStrategy(a) ==
    /\ call[a].pc = "name"
    /\ call' = [call EXCEPT ![a].pc = "save", ![a].row.strategy = memory.strategy]
    /\ UNCHANGED <<route, memory, inStep>>
    /\ RouteOnly

SaveRouteConfig(a) ==
    /\ call[a].pc = "save"
    /\ route' = call[a].row
    /\ inStep' = (inStep \/ call[a].alone)
    /\ call' = [call EXCEPT ![a] = IdleCall]
    /\ UNCHANGED memory
    /\ RouteOnly

(* The client is gone or the disk is full: the error is ignored.           *)
SaveFails(a) ==
    /\ call[a].pc = "save"
    /\ call' = [call EXCEPT ![a] = IdleCall]
    /\ UNCHANGED <<route, memory, inStep>>
    /\ RouteOnly

(* A request clears the forced model; nothing saves that.                  *)
RequestClears ==
    /\ proc.pc = "serving"
    /\ memory.forced # None
    /\ memory' = Unforced
    /\ call' = NobodyAlone
    /\ inStep' = FALSE
    /\ UNCHANGED route
    /\ RouteOnly

-----------------------------------------------------------------------------
Crash ==
    /\ proc.pc \notin {"off", "failed"}
    /\ crashes < MaxCrashes
    /\ crashes' = crashes + 1
    /\ proc' = Off
    /\ call' = [a \in Admins |-> IdleCall]
    /\ interrupted' = (interrupted \/ (proc.first /\ proc.pc # "serving" /\ templates # {}))
    /\ UNCHANGED <<database, memory, inStep, fresh>>

Next ==
    \/ Start
    \/ Migrate
    \/ CountTemplates
    \/ UpsertTemplate
    \/ TemplatesDone
    \/ SeedInstance
    \/ SeedModel
    \/ SeedDone
    \/ \E i \in 1..MaxInstances : DeleteProvider(i)
    \/ \E a \in Admins :
          \/ \E mode \in Modes : SwitchStrategy(a, mode)
          \/ UnforceForStrategy(a)
          \/ SwitchAuto(a)
          \/ \E b \in Backends : SwitchModel(a, b)
          \/ NameStrategy(a)
          \/ SaveRouteConfig(a)
          \/ SaveFails(a)
    \/ RequestClears
    \/ Crash

Spec == Init /\ [][Next]_vars

-----------------------------------------------------------------------------
(* Properties *)

(* A start never fails on a new database, on an older version's, or on one *)
(* that a crash has left in the middle of a migration or of the seeding    *)
(* (store.go:139-147); it goes on only with every table as it should be,   *)
(* and whoever serves has every built-in template (db_loader.go:82).       *)
StartSucceeds ==
    /\ proc.pc # "failed"
    /\ proc.pc \notin {"off", "migrate"} => \A t \in Tables : schema[t] = "new"
    /\ proc.pc = "serving" => templates = Builtin

(* However often the process dies, no template is seeded twice, and a      *)
(* provider the admin has deleted does not come back with the next start.  *)
SeededOnce ==
    \A i, j \in DOMAIN instances : instances[i].template = instances[j].template => i = j

(* A first start that no crash interrupts leaves every template an         *)
(* instance with all its models; this and only this makes the seed whole,  *)
(* for no later start completes it (db_loader.go:98-100).                  *)
SeedWhole ==
    fresh /\ ~interrupted /\ proc.pc = "serving"
        => \A t \in Builtin : \E i \in DOMAIN instances :
              instances[i] \in [template : {t}, models : {BuiltinModels[t]}, deleted : BOOLEAN]

(* After a call that ran alone and was saved, and after a start, what a    *)
(* start would restore is what the memory has, until the next change.      *)
RouteSurvives ==
    inStep /\ proc.pc = "serving"
        => /\ memory.forced = GetRouteConfig.forced
           /\ memory.strategy = SetStrategy(GetRouteConfig.strategy)
=============================================================================
