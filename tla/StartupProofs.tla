---------------------------- MODULE StartupProofs ----------------------------
(***************************************************************************)
(* Starts and crashes, for any set of built-in templates, any number of    *)
(* crashes and any number of concurrent admin calls: a start never fails,  *)
(* nothing is seeded twice, an undisturbed first start seeds everything,   *)
(* and the route that was saved alone is the route a restart restores.     *)
(***************************************************************************)
EXTENDS Startup, TLAPS

(* The admin's calls and the requests touch memory, route and call alone.  *)
RouteStep ==
    \/ \E a \in Admins :
          \/ \E mode \in Modes : SwitchStrategy(a, mode)
          \/ UnforceForStrategy(a)
          \/ SwitchAuto(a)
          \/ \E b \in Backends : SwitchModel(a, b)
          \/ NameStrategy(a)
          \/ SaveRouteConfig(a)
          \/ SaveFails(a)
    \/ RequestClears

LEMMA RouteStepFrame == RouteStep => RouteOnly
BY DEF RouteStep, SwitchStrategy, UnforceForStrategy, SwitchAuto, SwitchModel, NameStrategy,
       SaveRouteConfig, SaveFails, RequestClears, BeginCall

-----------------------------------------------------------------------------
(* Types *)

LEMMA StrategyType == ASSUME NEW mode PROVE SetStrategy(mode) \in Strategies
BY StartupAssumption DEF SetStrategy

(* A call that is running has a row to save, and models are seeded for an  *)
(* instance.                                                               *)
TypeInv ==
    /\ TypeOK
    /\ \A a \in Admins : call[a].pc # "idle" => call[a].row \in RouteConfig
    /\ proc.pc = "models" => instances # <<>>

LEMMA TypeInit == Init => TypeInv
<1> SUFFICES ASSUME Init PROVE TypeInv
    OBVIOUS
<1>1. schema \in [Tables -> {"absent", "old", "new"}] /\ templates \subseteq Builtin
    BY DEF Init, NewDatabase, OldDatabase
<1>2. instances = <<>> /\ fresh \in BOOLEAN
    BY DEF Init, NewDatabase, OldDatabase
<1>3. proc \in [pc : ProcPc, stmt : Nat, first : BOOLEAN, todo : SUBSET Builtin]
      /\ proc.pc = "off"
    BY DEF Init, Off, ProcPc
<1>4. memory \in [strategy : Strategies, forced : Backends \cup {None}]
    BY StartupAssumption DEF Init
<1>5. call \in [Admins -> [pc : CallPc, row : RouteConfig \cup {None}, alone : BOOLEAN]]
      /\ \A a \in Admins : call[a].pc = "idle"
    BY DEF Init, IdleCall, CallPc
<1>6. instances \in Seq(Instance)
    BY <1>2
<1> QED BY <1>1, <1>2, <1>3, <1>4, <1>5, <1>6 DEF TypeInv, TypeOK, Init

LEMMA ProcessKeepsType ==
    ASSUME TypeInv, Start \/ Migrate \/ CountTemplates \/ UpsertTemplate
    PROVE  TypeInv'
<1> USE DEF TypeInv, TypeOK
<1>1. CASE Start
    BY <1>1 DEF Start, database, ProcPc
<1>2. CASE Migrate
    <2> DEFINE table == Migration[proc.stmt][2]
               result == Executed(Migration[proc.stmt][1], schema[table])
    <2>1. /\ schema' \in {schema, [schema EXCEPT ![table] = result]}
          /\ schema' = schema \/ result # "error"
          /\ proc' \in {[proc EXCEPT !.pc = "failed"], [proc EXCEPT !.pc = "count"],
                        [proc EXCEPT !.stmt = @ + 1]}
          /\ UNCHANGED <<templates, instances, route, memory, call, interrupted, inStep, fresh>>
        BY <1>2 DEF Migrate
    <2>2. result = schema[table] \/ result \in {"new", "error"}
        BY DEF Executed
    <2>3. schema' \in [Tables -> {"absent", "old", "new"}]
        <3> HIDE DEF result, table
        <3>1. CASE table \in Tables
            BY <2>1, <2>2, <3>1
        <3>2. CASE table \notin Tables
            BY <2>1, <3>2
        <3> QED BY <3>1, <3>2
    <2>4. proc' \in [pc : ProcPc, stmt : Nat, first : BOOLEAN, todo : SUBSET Builtin]
        <3> HIDE DEF result, table
        <3> QED BY <2>1 DEF ProcPc
    <2> QED BY <2>1, <2>3, <2>4
<1>3. CASE CountTemplates
    BY <1>3 DEF CountTemplates, database, ProcPc, ToUpsert, FirstStartup
<1>4. CASE UpsertTemplate
    <2>1. PICK t \in proc.todo : templates' = templates \cup {t}
                                 /\ proc' = [proc EXCEPT !.todo = @ \ {t}]
        BY <1>4 DEF UpsertTemplate
    <2>2. templates' \subseteq Builtin
        BY <2>1
    <2>3. proc' \in [pc : ProcPc, stmt : Nat, first : BOOLEAN, todo : SUBSET Builtin]
        BY <2>1
    <2> QED BY <1>4, <2>2, <2>3 DEF UpsertTemplate
<1> QED BY <1>1, <1>2, <1>3, <1>4

LEMMA ServeKeepsType ==
    ASSUME TypeInv, Serve
    PROVE  /\ proc' \in [pc : ProcPc, stmt : Nat, first : BOOLEAN, todo : SUBSET Builtin]
           /\ memory' \in [strategy : Strategies, forced : Backends \cup {None}]
           /\ inStep' \in BOOLEAN
           /\ proc'.pc = "serving"
<1>1. GetRouteConfig.forced \in Backends \cup {None}
    BY DEF TypeInv, TypeOK, GetRouteConfig, DefaultRoute, RouteConfig
<1>2. SetStrategy(GetRouteConfig.strategy) \in Strategies
    BY StrategyType
<1> QED BY <1>1, <1>2 DEF Serve, TypeInv, TypeOK, ProcPc

LEMMA SeedingKeepsType ==
    ASSUME TypeInv, TemplatesDone \/ SeedInstance \/ SeedModel \/ SeedDone
    PROVE  TypeInv'
<1> USE DEF TypeInv, TypeOK
<1>1. CASE TemplatesDone
    <2>1. CASE ~proc.first
        BY <1>1, <2>1, ServeKeepsType DEF TemplatesDone, database
    <2>2. CASE proc.first
        <3>1. proc' = [proc EXCEPT !.pc = "instance", !.todo = Builtin]
              /\ UNCHANGED <<memory, inStep>>
            BY <1>1, <2>2 DEF TemplatesDone
        <3>2. proc' \in [pc : ProcPc, stmt : Nat, first : BOOLEAN, todo : SUBSET Builtin]
              /\ proc'.pc = "instance"
            BY <3>1 DEF ProcPc, Seeding
        <3> QED BY <1>1, <3>1, <3>2 DEF TemplatesDone, database
    <2> QED BY <2>1, <2>2
<1>2. CASE SeedDone
    BY <1>2, ServeKeepsType DEF SeedDone, database
<1>3. CASE SeedInstance
    <2>1. PICK t \in proc.todo :
              /\ instances' = Append(instances, [template |-> t, models |-> {}, deleted |-> FALSE])
              /\ proc' = [proc EXCEPT !.pc = "models", !.todo = @ \ {t}]
        BY <1>3 DEF SeedInstance, ToSeed
    <2>2. [template |-> t, models |-> {}, deleted |-> FALSE] \in Instance
        BY <2>1 DEF Instance
    <2>3. instances' \in Seq(Instance) /\ instances' # <<>>
        BY <2>1, <2>2
    <2>4. proc' \in [pc : ProcPc, stmt : Nat, first : BOOLEAN, todo : SUBSET Builtin]
        BY <2>1 DEF ProcPc, Seeding
    <2> QED BY <1>3, <2>3, <2>4 DEF SeedInstance
<1>4. CASE SeedModel
    <2> DEFINE i == Len(instances)
               missing == BuiltinModels[instances[i].template] \ instances[i].models
    <2>1. CASE missing = {}
        <3>1. instances' = instances /\ proc' = [proc EXCEPT !.pc = "instance"]
            BY <1>4, <2>1 DEF SeedModel
        <3>2. proc' \in [pc : ProcPc, stmt : Nat, first : BOOLEAN, todo : SUBSET Builtin]
            BY <3>1 DEF ProcPc, Seeding
        <3> QED BY <1>4, <3>1, <3>2 DEF SeedModel
    <2>2. CASE missing # {}
        <3>1. PICK m \in missing : instances' = [instances EXCEPT ![i].models = @ \cup {m}]
            BY <1>4, <2>2 DEF SeedModel
        <3>2. proc' = proc
            BY <1>4, <2>2 DEF SeedModel
        <3>3. instances' \in Seq(Instance) /\ instances' # <<>>
            <4>1. i \in DOMAIN instances /\ instances[i] \in Instance
                BY <1>4 DEF SeedModel
            <4>2. m \in AnyModel
                BY <4>1 DEF Instance, AnyModel
            <4>3. [instances[i] EXCEPT !.models = @ \cup {m}] \in Instance
                BY <4>1, <4>2 DEF Instance
            <4> QED BY <3>1, <4>1, <4>3
        <3> QED BY <1>4, <3>2, <3>3 DEF SeedModel
    <2> QED BY <2>1, <2>2
<1> QED BY <1>1, <1>2, <1>3, <1>4

LEMMA OthersKeepType ==
    ASSUME TypeInv, (\E i \in 1..MaxInstances : DeleteProvider(i)) \/ Crash
    PROVE  TypeInv'
<1> USE DEF TypeInv, TypeOK
<1>1. ASSUME NEW i \in 1..MaxInstances, DeleteProvider(i) PROVE TypeInv'
    <2>1. i \in DOMAIN instances /\ instances[i] \in Instance
        BY <1>1 DEF DeleteProvider
    <2>2. [instances[i] EXCEPT !.deleted = TRUE] \in Instance
        BY <2>1 DEF Instance
    <2>3. instances' \in Seq(Instance) /\ instances' # <<>>
        BY <1>1, <2>1, <2>2 DEF DeleteProvider
    <2> QED BY <1>1, <2>3 DEF DeleteProvider
<1>2. CASE Crash
    <2>1. proc' \in [pc : ProcPc, stmt : Nat, first : BOOLEAN, todo : SUBSET Builtin]
          /\ proc'.pc = "off"
        BY <1>2 DEF Crash, Off, ProcPc
    <2>2. call' \in [Admins -> [pc : CallPc, row : RouteConfig \cup {None}, alone : BOOLEAN]]
          /\ \A a \in Admins : call'[a].pc = "idle"
        BY <1>2 DEF Crash, IdleCall, CallPc
    <2>3. interrupted' \in BOOLEAN
        BY <1>2 DEF Crash
    <2> QED BY <1>2, <2>1, <2>2, <2>3 DEF Crash, database
<1> QED BY <1>1, <1>2

CallRecord == [pc : CallPc, row : RouteConfig \cup {None}, alone : BOOLEAN]

LEMMA RouteKeepsType == ASSUME TypeInv, RouteStep PROVE TypeInv'
<1>0. RouteOnly
    BY RouteStepFrame
<1>1. call \in [Admins -> CallRecord] /\ memory \in [strategy : Strategies, forced : Backends \cup {None}]
      /\ route \in RouteConfig \cup {None} /\ inStep \in BOOLEAN
    BY DEF TypeInv, TypeOK, CallRecord
<1> DEFINE Good == /\ call' \in [Admins -> CallRecord]
                   /\ \A a \in Admins : call'[a].pc # "idle" => call'[a].row \in RouteConfig
                   /\ memory' \in [strategy : Strategies, forced : Backends \cup {None}]
                   /\ route' \in RouteConfig \cup {None}
                   /\ inStep' \in BOOLEAN
<1>2. NobodyAlone \in [Admins -> CallRecord]
      /\ \A a \in Admins : NobodyAlone[a].pc = call[a].pc /\ NobodyAlone[a].row = call[a].row
    BY <1>1 DEF NobodyAlone, CallRecord
<1>3. Unforced \in [strategy : Strategies, forced : Backends \cup {None}]
    BY <1>1 DEF Unforced
<1>4. ASSUME NEW a \in Admins, NEW pc \in {"unforce", "name"}, NEW row \in RouteConfig,
             BeginCall(a, pc, row)
      PROVE  /\ call' \in [Admins -> CallRecord]
             /\ \A c \in Admins : call'[c].pc # "idle" => call'[c].row \in RouteConfig
             /\ route' = route /\ inStep' = FALSE
    <2>1. [pc |-> pc, row |-> row, alone |-> BusyCalls = {}] \in CallRecord
        BY DEF CallRecord, CallPc
    <2>2. call' = [NobodyAlone EXCEPT ![a] = [pc |-> pc, row |-> row, alone |-> BusyCalls = {}]]
          /\ route' = route /\ inStep' = FALSE
        BY <1>4 DEF BeginCall
    <2> HIDE DEF NobodyAlone
    <2> QED BY <1>2, <2>1, <2>2 DEF TypeInv
<1>5. ASSUME NEW a \in Admins, NEW mode \in Modes, SwitchStrategy(a, mode) PROVE Good
    <2>1. [mode |-> "auto", strategy |-> mode, forced |-> None] \in RouteConfig
        BY DEF RouteConfig
    <2>2. memory' \in [strategy : Strategies, forced : Backends \cup {None}]
        BY <1>1, <1>5, StrategyType DEF SwitchStrategy
    <2> QED BY <1>1, <1>4, <1>5, <2>1, <2>2 DEF SwitchStrategy
<1>6. ASSUME NEW a \in Admins, UnforceForStrategy(a) PROVE Good
    <2>1. call' \in [Admins -> CallRecord]
          /\ \A c \in Admins : call'[c].row = call[c].row /\ (call'[c].pc # "idle" => call[c].pc # "idle")
        BY <1>1, <1>6 DEF UnforceForStrategy, CallRecord, CallPc
    <2> QED BY <1>1, <1>3, <1>6, <2>1 DEF UnforceForStrategy, TypeInv
<1>7. ASSUME NEW a \in Admins, SwitchAuto(a) PROVE Good
    <2>1. [mode |-> "auto", strategy |-> "balanced", forced |-> None] \in RouteConfig
        BY StartupAssumption DEF RouteConfig
    <2> QED BY <1>1, <1>3, <1>4, <1>7, <2>1 DEF SwitchAuto
<1>8. ASSUME NEW a \in Admins, NEW b \in Backends, SwitchModel(a, b) PROVE Good
    <2>1. [mode |-> "manual", strategy |-> "balanced", forced |-> b] \in RouteConfig
        BY StartupAssumption DEF RouteConfig
    <2>2. memory' \in [strategy : Strategies, forced : Backends \cup {None}]
        BY <1>1, <1>8 DEF SwitchModel
    <2> QED BY <1>1, <1>4, <1>8, <2>1, <2>2 DEF SwitchModel
<1>9. ASSUME NEW a \in Admins, NameStrategy(a) PROVE Good
    <2>1. call[a] \in CallRecord /\ call[a].row \in RouteConfig
        BY <1>1, <1>9 DEF NameStrategy, TypeInv
    <2>2. [call[a].row EXCEPT !.strategy = memory.strategy] \in RouteConfig
        BY <1>1, <2>1 DEF RouteConfig
    <2>3. call' = [call EXCEPT ![a] = [call[a] EXCEPT !.pc = "save",
                                          !.row = [call[a].row EXCEPT !.strategy = memory.strategy]]]
        BY <1>1, <1>9, <2>1 DEF NameStrategy, CallRecord
    <2>4. [call[a] EXCEPT !.pc = "save", !.row = [call[a].row EXCEPT !.strategy = memory.strategy]]
             \in CallRecord
        BY <2>1, <2>2 DEF CallRecord, CallPc
    <2>5. call' \in [Admins -> CallRecord]
          /\ \A c \in Admins : call'[c].pc # "idle" => call'[c].row \in RouteConfig
        BY <1>1, <2>1, <2>2, <2>3, <2>4 DEF TypeInv, CallRecord
    <2> QED BY <1>1, <1>9, <2>5 DEF NameStrategy
<1>10. ASSUME NEW a \in Admins, SaveRouteConfig(a) \/ SaveFails(a) PROVE Good
    <2>1. call[a] \in CallRecord /\ call[a].row \in RouteConfig
        BY <1>1, <1>10 DEF SaveRouteConfig, SaveFails, TypeInv
    <2>2. IdleCall \in CallRecord /\ IdleCall.pc = "idle"
        BY DEF IdleCall, CallRecord, CallPc
    <2>3. call' = [call EXCEPT ![a] = IdleCall] /\ route' \in {route, call[a].row}
          /\ inStep' \in {inStep, inStep \/ call[a].alone} /\ memory' = memory
        BY <1>10 DEF SaveRouteConfig, SaveFails
    <2> QED BY <1>1, <2>1, <2>2, <2>3 DEF TypeInv, CallRecord
<1>11. ASSUME RequestClears PROVE Good
    BY <1>1, <1>2, <1>3, <1>11 DEF RequestClears, TypeInv
<1>12. Good
    BY <1>5, <1>6, <1>7, <1>8, <1>9, <1>10, <1>11 DEF RouteStep
<1> QED BY <1>0, <1>12 DEF RouteOnly, TypeInv, TypeOK, CallRecord

LEMMA TypeStep == TypeInv /\ [Next]_vars => TypeInv'
<1> SUFFICES ASSUME TypeInv, [Next]_vars PROVE TypeInv'
    OBVIOUS
<1>1. CASE UNCHANGED vars
    BY <1>1 DEF vars, database, TypeInv, TypeOK
<1> QED BY <1>1, ProcessKeepsType, SeedingKeepsType, OthersKeepType, RouteKeepsType
        DEF Next, RouteStep

-----------------------------------------------------------------------------
(* The migration *)

(* What the first n - 1 statements have made. *)
MigratedTo(n) ==
    /\ n > 1 => schema["other"] = "new"
    /\ n > 3 => schema["templates"] # "absent"
    /\ n > 4 => schema["templates"] = "new"
    /\ n > 5 => schema["instances"] = "new"
    /\ n > 6 => schema["models"] = "new"

SchemaInv ==
    /\ proc.pc # "failed"
    /\ proc.pc = "off" => proc = Off
    /\ proc.pc = "migrate" => proc.stmt \in 1..8 /\ MigratedTo(proc.stmt)
    /\ proc.pc \notin {"off", "migrate"} => \A t \in Tables : schema[t] = "new"
    /\ \A t \in Tables : schema[t] = "old" => t = "templates"

LEMMA SchemaInit == Init => SchemaInv
BY DEF Init, SchemaInv, Off, NewDatabase, OldDatabase

LEMMA MigrateKeepsSchema == ASSUME TypeInv, SchemaInv, Migrate PROVE SchemaInv'
<1>0. /\ schema \in [Tables -> {"absent", "old", "new"}]
      /\ proc \in [pc : ProcPc, stmt : Nat, first : BOOLEAN, todo : SUBSET Builtin]
      /\ proc.pc = "migrate" /\ proc.stmt \in 1..8 /\ MigratedTo(proc.stmt)
      /\ \A t \in Tables : schema[t] = "old" => t = "templates"
    BY DEF Migrate, TypeInv, TypeOK, SchemaInv
<1> DEFINE n == proc.stmt
           kind == Migration[n][1]
           table == Migration[n][2]
<1>1. \/ n = 1 /\ kind = "create" /\ table = "other"
      \/ n = 2 /\ kind = "index" /\ table = "other"
      \/ n = 3 /\ kind = "create" /\ table = "templates"
      \/ n = 4 /\ kind = "alter" /\ table = "templates"
      \/ n = 5 /\ kind = "create" /\ table = "instances"
      \/ n = 6 /\ kind = "create" /\ table = "models"
      \/ n = 7 /\ kind = "index" /\ table = "models"
      \/ n = 8 /\ kind = "create" /\ table = "route"
    <2>1. n \in {1, 2, 3, 4, 5, 6, 7, 8}
        BY <1>0
    <2> QED BY <2>1 DEF Migration
<1> DEFINE result == Executed(kind, schema[table])
<1>2. result # "error" /\ table \in Tables /\ result \in {"old", "new"}
      /\ (kind # "create" => result = "new" \/ result = schema[table])
      /\ (kind = "alter" => result = "new")
      /\ (kind = "create" => result = schema[table] \/ result = "new")
      /\ (result = "old" => schema[table] = "old")
    BY <1>0, <1>1 DEF Executed, MigratedTo, Tables
<1>3. schema' = [schema EXCEPT ![table] = result]
      /\ proc' = IF n = 8 THEN [proc EXCEPT !.pc = "count"] ELSE [proc EXCEPT !.stmt = @ + 1]
    BY <1>2 DEF Migrate, Migration
<1> HIDE DEF result, kind, table
<1>4. \A t \in Tables : schema'[t] = IF t = table THEN result ELSE schema[t]
    BY <1>0, <1>2, <1>3
<1>5. \A t \in Tables : schema'[t] = "old" => t = "templates"
    BY <1>0, <1>2, <1>4
<1>6. CASE n < 8
    <2>1. proc'.pc = "migrate" /\ proc'.stmt = n + 1 /\ n + 1 \in 1..8
        BY <1>0, <1>3, <1>6
    <2>2. MigratedTo(proc.stmt)'
        <3> USE DEF MigratedTo, Tables
        <3>1. n + 1 > 1 => schema'["other"] = "new"
            BY <1>0, <1>1, <1>2, <1>4, <1>5
        <3>2. n + 1 > 3 => schema'["templates"] # "absent"
            BY <1>0, <1>1, <1>2, <1>4
        <3>3. n + 1 > 4 => schema'["templates"] = "new"
            BY <1>0, <1>1, <1>2, <1>4
        <3>4. n + 1 > 5 => schema'["instances"] = "new"
            BY <1>0, <1>1, <1>2, <1>4, <1>5
        <3>5. n + 1 > 6 => schema'["models"] = "new"
            BY <1>0, <1>1, <1>2, <1>4, <1>5
        <3> QED BY <2>1, <3>1, <3>2, <3>3, <3>4, <3>5
    <2> QED BY <1>5, <2>1, <2>2 DEF SchemaInv
<1>7. CASE n = 8
    <2>1. proc'.pc = "count"
        BY <1>0, <1>3, <1>7
    <2>2. \A t \in Tables : schema'[t] = "new"
        BY <1>0, <1>1, <1>2, <1>4, <1>5, <1>7 DEF MigratedTo, Tables
    <2> QED BY <1>5, <2>1, <2>2 DEF SchemaInv
<1> QED BY <1>0, <1>6, <1>7

LEMMA SchemaStep == TypeInv /\ SchemaInv /\ [Next]_vars => SchemaInv'
<1> SUFFICES ASSUME TypeInv, SchemaInv, [Next]_vars PROVE SchemaInv'
    OBVIOUS
<1>1. proc \in [pc : ProcPc, stmt : Nat, first : BOOLEAN, todo : SUBSET Builtin]
    BY DEF TypeInv, TypeOK
<1>2. CASE Start
    BY <1>1, <1>2 DEF Start, database, SchemaInv, MigratedTo, Off
<1>3. CASE CountTemplates \/ UpsertTemplate \/ TemplatesDone \/ SeedInstance \/ SeedModel
             \/ SeedDone
    <2>1. schema' = schema /\ proc.pc \notin {"off", "migrate"}
        BY <1>3 DEF CountTemplates, UpsertTemplate, TemplatesDone, SeedInstance, SeedModel,
                    SeedDone, database
    <2>2. proc'.pc \notin {"off", "migrate", "failed"}
        <3>1. CASE CountTemplates
            BY <1>1, <3>1 DEF CountTemplates
        <3>2. CASE UpsertTemplate
            BY <1>1, <3>2 DEF UpsertTemplate
        <3>3. CASE TemplatesDone
            BY <1>1, <3>3 DEF TemplatesDone, Serve
        <3>4. CASE SeedInstance
            BY <1>1, <3>4 DEF SeedInstance
        <3>5. CASE SeedModel
            BY <1>1, <3>5 DEF SeedModel
        <3>6. CASE SeedDone
            BY <1>1, <3>6 DEF SeedDone, Serve
        <3> QED BY <1>3, <3>1, <3>2, <3>3, <3>4, <3>5, <3>6
    <2> QED BY <2>1, <2>2 DEF SchemaInv
<1>4. CASE Crash
    BY <1>4 DEF Crash, database, SchemaInv, Off
<1>5. ASSUME NEW i \in 1..MaxInstances, DeleteProvider(i) PROVE SchemaInv'
    BY <1>5 DEF DeleteProvider, SchemaInv, MigratedTo
<1>6. CASE RouteStep
    BY <1>6, RouteStepFrame DEF RouteOnly, SchemaInv, MigratedTo
<1>7. CASE UNCHANGED vars
    BY <1>7 DEF vars, database, SchemaInv, MigratedTo
<1> QED BY <1>2, <1>3, <1>4, <1>5, <1>6, <1>7, MigrateKeepsSchema DEF Next, RouteStep

-----------------------------------------------------------------------------
(* The seed *)

(* There is an instance of t with all its models. *)
Whole(t) == \E i \in DOMAIN instances : /\ instances[i].template = t
                                         /\ instances[i].models = BuiltinModels[t]

SeedInv ==
    /\ templates = {} => instances = <<>>
    /\ proc.pc = "upsert" => /\ Builtin \ proc.todo \subseteq templates
                             /\ proc.first => instances = <<>>
    /\ proc.pc \in {"instance", "models", "serving"} => templates = Builtin
    /\ proc.pc \in {"instance", "models"} =>
          /\ proc.first
          /\ \A i \in DOMAIN instances : instances[i].template \notin proc.todo
    /\ \A i \in DOMAIN instances : instances[i].models \subseteq BuiltinModels[instances[i].template]
    /\ SeededOnce

(* What is whole already, while nothing has disturbed the first start. *)
WholeInv ==
    fresh /\ ~interrupted =>
        /\ proc.pc \in {"off", "migrate", "count"} => templates = {} \/ \A t \in Builtin : Whole(t)
        /\ proc.pc = "upsert" => proc.first \/ \A t \in Builtin : Whole(t)
        /\ proc.pc = "instance" => \A t \in Builtin \ proc.todo : Whole(t)
        /\ proc.pc = "models" =>
              \A t \in Builtin \ proc.todo :
                  Whole(t) \/ t = instances[Len(instances)].template
        /\ proc.pc = "serving" => \A t \in Builtin : Whole(t)

SeedingInv == TypeInv /\ SchemaInv /\ SeedInv /\ WholeInv

LEMMA SeedInit == Init => SeedInv /\ WholeInv
BY DEF Init, NewDatabase, OldDatabase, Off, SeedInv, WholeInv, SeededOnce

(* Steps that leave the database's seed and the phase of the start alone.  *)
LEMMA SeedFrame ==
    ASSUME SeedingInv, UNCHANGED <<templates, instances, fresh, interrupted>>,
           proc' = proc
           \/ {proc.pc, proc'.pc} \subseteq {"off", "migrate", "count"}
    PROVE  SeedInv' /\ WholeInv'
<1>1. SeedInv'
    BY DEF SeedingInv, SeedInv, SeededOnce
<1>2. WholeInv'
    BY DEF SeedingInv, WholeInv, Whole
<1> QED BY <1>1, <1>2

LEMMA SeedingSteps ==
    ASSUME SeedingInv, CountTemplates \/ UpsertTemplate \/ TemplatesDone \/ SeedDone
    PROVE  SeedInv' /\ WholeInv'
<1>0. /\ proc \in [pc : ProcPc, stmt : Nat, first : BOOLEAN, todo : SUBSET Builtin]
      /\ SeedInv /\ WholeInv /\ templates \subseteq Builtin
    BY DEF SeedingInv, TypeInv, TypeOK
<1>1. /\ instances' = instances /\ fresh' = fresh /\ interrupted' = interrupted
      /\ (\A t \in Builtin : Whole(t)' <=> Whole(t))
    BY DEF CountTemplates, UpsertTemplate, TemplatesDone, SeedDone, database, Whole
<1>2. SeededOnce' /\ \A i \in DOMAIN instances' :
                        instances'[i].models \subseteq BuiltinModels[instances'[i].template]
    BY <1>0, <1>1 DEF SeedInv, SeededOnce
<1>3. CASE CountTemplates
    <2>1. templates' = templates /\ proc.pc = "count" /\ proc'.pc = "upsert"
          /\ proc'.first = (templates = {}) /\ proc'.todo = Builtin
        BY <1>0, <1>3 DEF CountTemplates, FirstStartup, ToUpsert, database
    <2> QED BY <1>0, <1>1, <1>2, <2>1 DEF SeedInv, WholeInv
<1>4. CASE UpsertTemplate
    <2>1. PICK t \in proc.todo : /\ templates' = templates \cup {t}
                                 /\ proc' = [proc EXCEPT !.todo = @ \ {t}]
        BY <1>4 DEF UpsertTemplate
    <2>2. /\ proc.pc = "upsert" /\ proc'.pc = "upsert" /\ proc'.first = proc.first
          /\ proc'.todo = proc.todo \ {t} /\ templates' # {}
        BY <1>0, <1>4, <2>1 DEF UpsertTemplate
    <2> QED BY <1>0, <1>1, <1>2, <2>1, <2>2 DEF SeedInv, WholeInv
<1>5. CASE TemplatesDone
    <2>1. templates' = templates /\ proc.pc = "upsert" /\ templates = Builtin
          /\ \/ ~proc.first /\ proc'.pc = "serving"
             \/ proc.first /\ proc'.pc = "instance" /\ proc'.first /\ proc'.todo = Builtin
        BY <1>0, <1>5 DEF TemplatesDone, Serve, database, SeedInv
    <2> QED BY <1>0, <1>1, <1>2, <2>1 DEF SeedInv, WholeInv
<1>6. CASE SeedDone
    <2>1. templates' = templates /\ proc.pc = "instance" /\ proc.todo = {}
          /\ proc'.pc = "serving"
        BY <1>0, <1>6 DEF SeedDone, ToSeed, Serve, database
    <2> QED BY <1>0, <1>1, <1>2, <2>1 DEF SeedInv, WholeInv
<1> QED BY <1>3, <1>4, <1>5, <1>6

LEMMA SeedInstanceStep == ASSUME SeedingInv, SeedInstance PROVE SeedInv' /\ WholeInv'
<1>0. /\ proc \in [pc : ProcPc, stmt : Nat, first : BOOLEAN, todo : SUBSET Builtin]
      /\ SeedInv /\ WholeInv /\ instances \in Seq(Instance)
    BY DEF SeedingInv, TypeInv, TypeOK
<1> DEFINE n == Len(instances)
<1>1. PICK t \in proc.todo :
          /\ instances' = Append(instances, [template |-> t, models |-> {}, deleted |-> FALSE])
          /\ proc' = [proc EXCEPT !.pc = "models", !.todo = @ \ {t}]
    BY DEF SeedInstance, ToSeed
<1>2. /\ Len(instances') = n + 1 /\ n \in Nat /\ DOMAIN instances = 1..n
      /\ DOMAIN instances' = 1..(n + 1)
      /\ \A i \in 1..n : instances'[i] = instances[i]
      /\ instances'[n + 1] = [template |-> t, models |-> {}, deleted |-> FALSE]
    BY <1>0, <1>1
<1>3. /\ proc.pc = "instance" /\ templates' = templates /\ templates = Builtin
      /\ proc'.pc = "models" /\ proc'.todo = proc.todo \ {t} /\ proc'.first = proc.first
      /\ proc.first /\ fresh' = fresh /\ interrupted' = interrupted
    BY <1>0, <1>1 DEF SeedInstance, SeedInv
<1>4. \A i \in 1..n : instances[i].template \notin proc.todo
    BY <1>0, <1>2, <1>3 DEF SeedInv
<1> HIDE DEF n
<1>5. SeededOnce'
    BY <1>0, <1>1, <1>2, <1>4 DEF SeedInv, SeededOnce
<1>6. \A i \in 1..(n + 1) : /\ instances'[i].template \notin proc'.todo
                            /\ instances'[i].models \subseteq BuiltinModels[instances'[i].template]
    <2>1. ASSUME NEW i \in 1..n
          PROVE  /\ instances'[i].template \notin proc'.todo
                 /\ instances'[i].models \subseteq BuiltinModels[instances'[i].template]
        BY <1>0, <1>2, <1>3, <1>4 DEF SeedInv
    <2>2. /\ instances'[n + 1].template \notin proc'.todo
          /\ instances'[n + 1].models \subseteq BuiltinModels[instances'[n + 1].template]
        BY <1>2, <1>3
    <2> QED BY <1>2, <2>1, <2>2
<1>7. SeedInv'
    BY <1>0, <1>1, <1>2, <1>3, <1>5, <1>6 DEF SeedInv
<1>8. \A u \in Builtin : Whole(u) => Whole(u)'
    BY <1>2 DEF Whole
<1>9. instances'[Len(instances')].template = t
    BY <1>2
<1>10. WholeInv'
    BY <1>0, <1>3, <1>8, <1>9 DEF WholeInv
<1> QED BY <1>7, <1>10

LEMMA SeedModelStep == ASSUME SeedingInv, SeedModel PROVE SeedInv' /\ WholeInv'
<1>0. /\ proc \in [pc : ProcPc, stmt : Nat, first : BOOLEAN, todo : SUBSET Builtin]
      /\ SeedInv /\ WholeInv /\ instances \in Seq(Instance) /\ instances # <<>>
    BY DEF SeedingInv, TypeInv, TypeOK, SeedModel
<1> DEFINE n == Len(instances)
           t == instances[n].template
           missing == BuiltinModels[t] \ instances[n].models
<1>1. n \in DOMAIN instances /\ instances[n] \in Instance
    BY <1>0
<1>2. /\ proc.pc = "models" /\ templates' = templates /\ fresh' = fresh
      /\ interrupted' = interrupted /\ instances[n].models \subseteq BuiltinModels[t]
    BY <1>0, <1>1 DEF SeedModel, SeedInv
<1>3. CASE missing = {}
    <2>1. instances' = instances /\ proc' = [proc EXCEPT !.pc = "instance"]
        BY <1>3 DEF SeedModel
    <2>2. proc'.pc = "instance" /\ proc'.todo = proc.todo /\ proc'.first = proc.first
        BY <1>0, <2>1
    <2>3. Whole(t)
        <3>1. instances[n].models = BuiltinModels[t]
            BY <1>2, <1>3
        <3> HIDE DEF missing
        <3> QED BY <1>1, <3>1 DEF Whole
    <2>4. \A u : Whole(u)' <=> Whole(u)
        BY <2>1 DEF Whole
    <2>5. SeedInv'
        BY <1>0, <1>2, <2>1, <2>2 DEF SeedInv, SeededOnce
    <2>6. WholeInv'
        BY <1>0, <1>2, <2>2, <2>3, <2>4 DEF WholeInv
    <2> QED BY <2>5, <2>6
<1>4. CASE missing # {}
    <2>1. PICK m \in missing : instances' = [instances EXCEPT ![n].models = @ \cup {m}]
        BY <1>4 DEF SeedModel
    <2>2. proc' = proc
        BY <1>4 DEF SeedModel
    <2>3. /\ DOMAIN instances' = DOMAIN instances /\ Len(instances') = n
          /\ \A i \in DOMAIN instances : i # n => instances'[i] = instances[i]
          /\ instances'[n].template = t
          /\ instances'[n].models = instances[n].models \cup {m}
        BY <1>0, <1>1, <2>1 DEF Instance
    <2>4. \A i \in DOMAIN instances : instances'[i].template = instances[i].template
        BY <2>3
    <2>5. \A i \in DOMAIN instances' :
             instances'[i].models \subseteq BuiltinModels[instances'[i].template]
        BY <1>0, <1>2, <2>1, <2>3 DEF SeedInv
    <2> HIDE DEF n, t, missing
    <2>6. SeedInv'
        <3>1. SeededOnce'
            BY <1>0, <2>3, <2>4 DEF SeedInv, SeededOnce
        <3>2. instances' # <<>> /\ templates' # {}
            BY <1>0, <1>1, <1>2, <2>3 DEF SeedInv
        <3> QED BY <1>0, <1>2, <2>2, <2>3, <2>4, <2>5, <3>1, <3>2 DEF SeedInv
    <2>7. ASSUME NEW u, Whole(u) PROVE Whole(u)' \/ u = t
        BY <2>3, <2>7 DEF Whole, t, n
    <2>8. WholeInv'
        BY <1>0, <1>2, <2>2, <2>3, <2>7 DEF WholeInv, t, n
    <2> QED BY <2>6, <2>8
<1> QED BY <1>3, <1>4

LEMMA SeedStep == SeedingInv /\ [Next]_vars => SeedInv' /\ WholeInv'
<1> SUFFICES ASSUME SeedingInv, [Next]_vars PROVE SeedInv' /\ WholeInv'
    OBVIOUS
<1>0. /\ proc \in [pc : ProcPc, stmt : Nat, first : BOOLEAN, todo : SUBSET Builtin]
      /\ SeedInv /\ WholeInv /\ SchemaInv /\ instances \in Seq(Instance)
    BY DEF SeedingInv, TypeInv, TypeOK
<1>1. CASE Start
    <2>1. proc.pc = "off" /\ proc'.pc = "migrate"
        BY <1>0, <1>1 DEF Start
    <2> QED BY <1>1, <2>1, SeedFrame DEF Start, database
<1>2. CASE Migrate
    <2>1. proc.pc = "migrate" /\ SchemaInv'
        BY <1>2, MigrateKeepsSchema DEF Migrate, SeedingInv
    <2>2. proc'.pc \in {"migrate", "count", "failed"}
        BY <1>0, <1>2, <2>1 DEF Migrate
    <2>3. proc'.pc # "failed"
        BY <2>1 DEF SchemaInv
    <2> QED BY <1>2, <2>1, <2>2, <2>3, SeedFrame DEF Migrate
<1>3. CASE Crash
    <2>1. proc'.pc = "off" /\ UNCHANGED <<templates, instances, fresh>>
          /\ interrupted' = (interrupted \/ (proc.first /\ proc.pc # "serving" /\ templates # {}))
        BY <1>3 DEF Crash, Off, database
    <2>2. SeedInv'
        BY <1>0, <2>1 DEF SeedInv, SeededOnce
    <2>3. WholeInv'
        <3> SUFFICES ASSUME fresh, ~interrupted, templates # {},
                            ~(proc.first /\ proc.pc # "serving"), NEW t \in Builtin
                     PROVE  Whole(t)'
            BY <2>1 DEF WholeInv
        <3>1. Whole(t)
            <4>1. proc.pc \in {"migrate", "count", "upsert", "instance", "models", "serving"}
                BY <1>0, <1>3 DEF Crash, SchemaInv, ProcPc, Seeding
            <4>2. proc.pc \notin {"instance", "models"}
                BY <1>0 DEF SeedInv
            <4>3. fresh /\ ~interrupted /\ templates # {}
                BY <2>1
            <4> QED BY <1>0, <4>1, <4>2, <4>3 DEF WholeInv
        <3> QED BY <2>1, <3>1 DEF Whole
    <2> QED BY <2>2, <2>3
<1>4. ASSUME NEW i \in 1..MaxInstances, DeleteProvider(i) PROVE SeedInv' /\ WholeInv'
    <2>1. /\ i \in DOMAIN instances /\ instances' = [instances EXCEPT ![i].deleted = TRUE]
          /\ UNCHANGED <<templates, proc, fresh, interrupted>>
        BY <1>4 DEF DeleteProvider
    <2>2. /\ DOMAIN instances' = DOMAIN instances /\ Len(instances') = Len(instances)
          /\ \A j \in DOMAIN instances : /\ instances'[j].template = instances[j].template
                                          /\ instances'[j].models = instances[j].models
        BY <1>0, <2>1 DEF Instance
    <2>3. \A t : Whole(t) <=> Whole(t)'
        BY <2>2 DEF Whole
    <2>4. SeededOnce'
        BY <1>0, <2>2 DEF SeedInv, SeededOnce
    <2>5. SeedInv'
        BY <1>0, <2>1, <2>2, <2>4 DEF SeedInv
    <2>6. proc.pc = "models" => Len(instances) \in DOMAIN instances
        BY <1>0 DEF SeedingInv, TypeInv
    <2>7. WholeInv'
        BY <1>0, <2>1, <2>2, <2>3, <2>6 DEF WholeInv
    <2> QED BY <2>5, <2>7
<1>5. CASE RouteStep
    BY <1>5, RouteStepFrame, SeedFrame DEF RouteOnly
<1>6. CASE UNCHANGED vars
    BY <1>6, SeedFrame DEF vars, database
<1> QED BY <1>1, <1>2, <1>3, <1>4, <1>5, <1>6, SeedingSteps, SeedInstanceStep, SeedModelStep
        DEF Next, RouteStep

-----------------------------------------------------------------------------
(* The route *)

(* What memory and a row agree on when the row of a call gets saved.       *)
Agree(row) == memory.forced = row.forced /\ memory.strategy = SetStrategy(row.strategy)

RouteInv ==
    /\ proc.pc # "serving" => \A a \in Admins : call[a].pc = "idle"
    /\ \A a \in Admins :
          call[a].pc # "idle" /\ call[a].alone =>
              /\ \A c \in Admins : c # a => call[c].pc = "idle"
              /\ call[a].pc = "unforce" => /\ call[a].row.forced = None
                                           /\ memory.strategy = SetStrategy(call[a].row.strategy)
              /\ call[a].pc = "name" => memory.forced = call[a].row.forced
              /\ call[a].pc = "save" => Agree(call[a].row)
    /\ inStep => \A a \in Admins : call[a].pc = "idle"
    /\ RouteSurvives

LEMMA RouteInit == Init => RouteInv
BY DEF Init, Off, IdleCall, RouteInv, RouteSurvives

(* A strategy that is one is taken as it is. *)
LEMMA StrategyKept == ASSUME NEW s \in Strategies PROVE SetStrategy(s) = s
BY DEF SetStrategy

LEMMA ServeRestores == ASSUME Serve, UNCHANGED route PROVE RouteSurvives'
<1>1. GetRouteConfig' = GetRouteConfig
    BY DEF GetRouteConfig
<1> QED BY <1>1 DEF Serve, RouteSurvives, SetStrategy

LEMMA StartKeepsRoute ==
    ASSUME TypeInv, RouteInv,
           \/ Start \/ Migrate \/ CountTemplates \/ UpsertTemplate
           \/ TemplatesDone \/ SeedInstance \/ SeedModel \/ SeedDone
    PROVE  RouteInv'
<1>0. proc \in [pc : ProcPc, stmt : Nat, first : BOOLEAN, todo : SUBSET Builtin]
    BY DEF TypeInv, TypeOK
<1>1. proc.pc # "serving" /\ UNCHANGED <<route, call>>
    BY DEF Start, Migrate, CountTemplates, UpsertTemplate, TemplatesDone, SeedInstance, SeedModel,
           SeedDone, database
<1>2. \A a \in Admins : call'[a].pc = "idle"
    BY <1>1 DEF RouteInv
<1>3. RouteSurvives'
    <2>1. CASE Serve
        BY <1>1, <2>1, ServeRestores
    <2>2. CASE ~Serve
        <3>1. proc'.pc # "serving"
            <4>1. CASE Start
                BY <1>0, <4>1 DEF Start
            <4>2. CASE Migrate
                BY <1>0, <4>2 DEF Migrate
            <4>3. CASE CountTemplates
                BY <1>0, <4>3 DEF CountTemplates
            <4>4. CASE UpsertTemplate
                BY <1>0, <4>4 DEF UpsertTemplate
            <4>5. CASE TemplatesDone
                BY <1>0, <2>2, <4>5 DEF TemplatesDone
            <4>6. CASE SeedInstance
                BY <1>0, <4>6 DEF SeedInstance
            <4>7. CASE SeedModel
                BY <1>0, <4>7 DEF SeedModel
            <4>8. CASE SeedDone
                BY <2>2, <4>8 DEF SeedDone
            <4> QED BY <4>1, <4>2, <4>3, <4>4, <4>5, <4>6, <4>7, <4>8
        <3> QED BY <3>1 DEF RouteSurvives
    <2> QED BY <2>1, <2>2
<1> QED BY <1>2, <1>3 DEF RouteInv

LEMMA CallsKeepRoute == ASSUME TypeInv, TypeInv', RouteInv, RouteStep PROVE RouteInv'
<1>0. /\ call \in [Admins -> CallRecord] /\ call' \in [Admins -> CallRecord]
      /\ memory \in [strategy : Strategies, forced : Backends \cup {None}]
      /\ route \in RouteConfig \cup {None} /\ inStep \in BOOLEAN
      /\ \A a \in Admins : call[a].pc # "idle" => call[a].row \in RouteConfig
    BY DEF TypeInv, TypeOK, CallRecord
<1>1. proc' = proc
    BY RouteStepFrame DEF RouteOnly
<1>2. \A a \in Admins : NobodyAlone[a].pc = call[a].pc /\ ~NobodyAlone[a].alone
    BY <1>0 DEF NobodyAlone, CallRecord
<1>3. ASSUME NEW a \in Admins, NEW pc \in {"unforce", "name"}, NEW row, BeginCall(a, pc, row)
      PROVE  /\ proc.pc = "serving" /\ inStep' = FALSE
             /\ \A c \in Admins : c # a => ~call'[c].alone
             /\ call'[a].pc = pc /\ call'[a].row = row
             /\ call'[a].alone => \A c \in Admins : c # a => call'[c].pc = "idle"
    <2>1. /\ call' = [NobodyAlone EXCEPT ![a] = [pc |-> pc, row |-> row, alone |-> BusyCalls = {}]]
          /\ proc.pc = "serving" /\ inStep' = FALSE
        BY <1>3 DEF BeginCall
    <2>2. DOMAIN NobodyAlone = Admins
        BY DEF NobodyAlone
    <2>3. BusyCalls = {} => \A c \in Admins : call[c].pc = "idle"
        BY DEF BusyCalls
    <2> DEFINE unaccompanied == BusyCalls = {}
    <2> HIDE DEF NobodyAlone, BusyCalls, unaccompanied
    <2>4. call'[a] = [pc |-> pc, row |-> row, alone |-> unaccompanied]
          /\ \A c \in Admins : c # a => call'[c] = NobodyAlone[c]
        BY <2>1, <2>2 DEF unaccompanied
    <2>5. call'[a].pc = pc /\ call'[a].row = row /\ call'[a].alone = unaccompanied
        BY <2>4
    <2>6. \A c \in Admins : c # a => call'[c].pc = call[c].pc /\ ~call'[c].alone
        BY <1>2, <2>4
    <2> QED BY <2>1, <2>3, <2>5, <2>6 DEF unaccompanied
<1>4. ASSUME NEW a \in Admins, NEW mode \in Modes, SwitchStrategy(a, mode) PROVE RouteInv'
    <2> DEFINE row == [mode |-> "auto", strategy |-> mode, forced |-> None]
    <2>1. BeginCall(a, "unforce", row) /\ memory'.strategy = SetStrategy(mode)
        BY <1>0, <1>4 DEF SwitchStrategy
    <2>2. row.forced = None /\ SetStrategy(row.strategy) = SetStrategy(mode)
        OBVIOUS
    <2> HIDE DEF row
    <2>3. /\ proc.pc = "serving" /\ inStep' = FALSE
          /\ \A c \in Admins : c # a => ~call'[c].alone
          /\ call'[a].pc = "unforce" /\ call'[a].row = row
          /\ call'[a].alone => \A c \in Admins : c # a => call'[c].pc = "idle"
        BY <1>3, <2>1
    <2>4. SetStrategy(call'[a].row.strategy) = memory'.strategy /\ call'[a].row.forced = None
        BY <2>1, <2>2, <2>3
    <2> QED BY <1>1, <2>3, <2>4 DEF RouteInv, RouteSurvives, SetStrategy
<1>5. ASSUME NEW a \in Admins, UnforceForStrategy(a) PROVE RouteInv'
    <2>1. /\ call' = [call EXCEPT ![a].pc = "save"] /\ call[a].pc = "unforce"
          /\ memory'.forced = None /\ memory'.strategy = memory.strategy
          /\ route' = route /\ inStep' = inStep
        BY <1>0, <1>5 DEF UnforceForStrategy, Unforced
    <2>2. /\ call'[a].pc = "save" /\ call'[a].row = call[a].row /\ call'[a].alone = call[a].alone
          /\ \A c \in Admins : c # a => call'[c] = call[c]
        BY <1>0, <2>1 DEF CallRecord
    <2>3. ~inStep /\ proc.pc = "serving"
        BY <2>1 DEF RouteInv
    <2>4. \A c \in Admins : c # a /\ call'[c].pc # "idle" => ~call'[c].alone
        BY <2>1, <2>2 DEF RouteInv
    <2>5. call[a].alone => /\ \A c \in Admins : c # a => call[c].pc = "idle"
                           /\ call[a].row.forced = None
                           /\ memory.strategy = SetStrategy(call[a].row.strategy)
        BY <2>1 DEF RouteInv
    <2>6. call'[a].alone => Agree(call[a].row)'
        BY <2>1, <2>2, <2>5 DEF Agree, SetStrategy
    <2> QED BY <1>1, <2>1, <2>2, <2>3, <2>4, <2>5, <2>6 DEF RouteInv, RouteSurvives, Agree, SetStrategy
<1>6. ASSUME NEW a \in Admins, NEW f \in Backends \cup {None}, NEW row,
             BeginCall(a, "name", row), row.forced = f, memory'.forced = f
      PROVE  RouteInv'
    <2>1. /\ proc.pc = "serving" /\ inStep' = FALSE
          /\ \A c \in Admins : c # a => ~call'[c].alone
          /\ call'[a].pc = "name" /\ call'[a].row = row
          /\ call'[a].alone => \A c \in Admins : c # a => call'[c].pc = "idle"
        BY <1>3, <1>6
    <2> QED BY <1>1, <1>6, <2>1 DEF RouteInv, RouteSurvives
<1>7. ASSUME NEW a \in Admins, SwitchAuto(a) PROVE RouteInv'
    <2>1. memory'.forced = None
        BY <1>0, <1>7 DEF SwitchAuto, Unforced
    <2>2. BeginCall(a, "name", [mode |-> "auto", strategy |-> "balanced", forced |-> None])
        BY <1>7 DEF SwitchAuto
    <2> QED BY <1>6, <2>1, <2>2
<1>8. ASSUME NEW a \in Admins, NEW b \in Backends, SwitchModel(a, b) PROVE RouteInv'
    <2>1. memory'.forced = b
        BY <1>0, <1>8 DEF SwitchModel
    <2>2. BeginCall(a, "name", [mode |-> "manual", strategy |-> "balanced", forced |-> b])
        BY <1>8 DEF SwitchModel
    <2> QED BY <1>6, <2>1, <2>2
<1>9. ASSUME NEW a \in Admins, NameStrategy(a) PROVE RouteInv'
    <2>1. /\ call' = [call EXCEPT ![a].pc = "save", ![a].row.strategy = memory.strategy]
          /\ call[a].pc = "name" /\ UNCHANGED <<route, memory, inStep>>
        BY <1>9 DEF NameStrategy
    <2>2. call[a] \in CallRecord /\ call[a].row \in RouteConfig
        BY <1>0, <2>1
    <2>3. /\ call'[a].pc = "save" /\ call'[a].alone = call[a].alone
          /\ call'[a].row.strategy = memory.strategy /\ call'[a].row.forced = call[a].row.forced
          /\ \A c \in Admins : c # a => call'[c] = call[c]
        BY <1>0, <2>1, <2>2 DEF CallRecord, RouteConfig
    <2>4. ~inStep /\ proc.pc = "serving"
        BY <2>1 DEF RouteInv
    <2>5. \A c \in Admins : c # a /\ call'[c].pc # "idle" => ~call'[c].alone
        BY <2>1, <2>3 DEF RouteInv
    <2>6. call[a].alone => /\ \A c \in Admins : c # a => call[c].pc = "idle"
                           /\ memory.forced = call[a].row.forced
        BY <2>1 DEF RouteInv
    <2>7. memory.strategy = SetStrategy(memory.strategy)
        BY <1>0, StrategyKept
    <2>8. call'[a].alone => /\ memory'.forced = call'[a].row.forced
                            /\ memory'.strategy = SetStrategy(call'[a].row.strategy)
        BY <2>1, <2>3, <2>6, <2>7
    <2>9. ASSUME NEW c \in Admins, call'[c].pc # "idle", call'[c].alone
          PROVE  /\ c = a /\ call'[c].pc = "save"
                 /\ \A d \in Admins : d # c => call'[d].pc = "idle"
                 /\ memory'.forced = call'[c].row.forced
                 /\ memory'.strategy = SetStrategy(call'[c].row.strategy)
        <3>1. c = a
            BY <2>5, <2>9
        <3> QED BY <2>3, <2>6, <2>8, <2>9, <3>1
    <2>10. inStep' = inStep
        BY <2>1
    <2> QED BY <1>1, <2>4, <2>9, <2>10 DEF RouteInv, RouteSurvives, Agree, SetStrategy
<1>10. ASSUME NEW a \in Admins, SaveRouteConfig(a) PROVE RouteInv'
    <2>1. /\ call[a].pc = "save" /\ call' = [call EXCEPT ![a] = IdleCall]
          /\ route' = call[a].row /\ memory' = memory
          /\ inStep' = (inStep \/ call[a].alone)
        BY <1>10 DEF SaveRouteConfig
    <2>2. call'[a].pc = "idle" /\ \A c \in Admins : c # a => call'[c] = call[c]
        BY <1>0, <2>1 DEF IdleCall
    <2>3. ~inStep /\ proc.pc = "serving"
        BY <2>1 DEF RouteInv
    <2>4. \A c \in Admins : c # a /\ call'[c].pc # "idle" => ~call'[c].alone /\ ~call[a].alone
        BY <2>1, <2>2 DEF RouteInv
    <2>5. inStep' => Agree(call[a].row)
        BY <2>1, <2>3 DEF RouteInv
    <2>6. call[a].row # None
        BY <1>0, <2>1, StartupAssumption
    <2>7. RouteSurvives'
        BY <2>1, <2>5, <2>6 DEF RouteSurvives, GetRouteConfig, Agree, SetStrategy
    <2> QED BY <1>1, <2>1, <2>2, <2>3, <2>4, <2>7 DEF RouteInv
<1>11. ASSUME NEW a \in Admins, SaveFails(a) PROVE RouteInv'
    <2>1. /\ call[a].pc = "save" /\ call' = [call EXCEPT ![a] = IdleCall]
          /\ UNCHANGED <<route, memory, inStep>>
        BY <1>11 DEF SaveFails
    <2>2. call'[a].pc = "idle" /\ \A c \in Admins : c # a => call'[c] = call[c]
        BY <1>0, <2>1 DEF IdleCall
    <2>3. ~inStep /\ proc.pc = "serving"
        BY <2>1 DEF RouteInv
    <2>4. \A c \in Admins : c # a /\ call'[c].pc # "idle" => ~call'[c].alone
        BY <2>1, <2>2 DEF RouteInv
    <2> QED BY <1>1, <2>1, <2>2, <2>3, <2>4 DEF RouteInv, RouteSurvives
<1>12. ASSUME RequestClears PROVE RouteInv'
    <2>1. call' = NobodyAlone /\ inStep' = FALSE /\ proc.pc = "serving"
        BY <1>12 DEF RequestClears
    <2> QED BY <1>1, <1>2, <2>1 DEF RouteInv, RouteSurvives
<1> QED BY <1>4, <1>5, <1>7, <1>8, <1>9, <1>10, <1>11, <1>12 DEF RouteStep

LEMMA RouteStepsKeep == TypeInv /\ TypeInv' /\ RouteInv /\ [Next]_vars => RouteInv'
<1> SUFFICES ASSUME TypeInv, TypeInv', RouteInv, [Next]_vars PROVE RouteInv'
    OBVIOUS
<1>1. CASE Crash
    BY <1>1 DEF Crash, Off, IdleCall, RouteInv, RouteSurvives
<1>2. ASSUME NEW i \in 1..MaxInstances, DeleteProvider(i) PROVE RouteInv'
    BY <1>2 DEF DeleteProvider, RouteInv, RouteSurvives, GetRouteConfig, Agree, SetStrategy
<1>3. CASE UNCHANGED vars
    BY <1>3 DEF vars, database, RouteInv, RouteSurvives, GetRouteConfig, Agree, SetStrategy
<1> QED BY <1>1, <1>2, <1>3, StartKeepsRoute, CallsKeepRoute DEF Next, RouteStep

-----------------------------------------------------------------------------
LEMMA Invariance == Spec => [](SeedingInv /\ RouteInv)
<1>1. Init => SeedingInv /\ RouteInv
    BY TypeInit, SchemaInit, SeedInit, RouteInit DEF SeedingInv
<1>2. SeedingInv /\ RouteInv /\ [Next]_vars => SeedingInv' /\ RouteInv'
    BY TypeStep, SchemaStep, SeedStep, RouteStepsKeep DEF SeedingInv
<1> QED BY <1>1, <1>2, PTL DEF Spec

(* The database, the process and the memory keep their types.              *)
THEOREM TypeCorrect == Spec => []TypeOK
<1>1. SeedingInv /\ RouteInv => TypeOK
    BY DEF SeedingInv, TypeInv
<1> QED BY <1>1, Invariance, PTL

(* No crash leaves a database on which a later start fails.                *)
THEOREM EveryStartSucceeds == Spec => []StartSucceeds
<1>1. SeedingInv /\ RouteInv => StartSucceeds
    BY DEF SeedingInv, SchemaInv, SeedInv, StartSucceeds
<1> QED BY <1>1, Invariance, PTL

(* No crash makes a later start seed a template again.                     *)
THEOREM NothingSeededTwice == Spec => []SeededOnce
<1>1. SeedingInv /\ RouteInv => SeededOnce
    BY DEF SeedingInv, SeedInv
<1> QED BY <1>1, Invariance, PTL

(* A first start that is not interrupted seeds every template whole.       *)
THEOREM FirstStartIsWhole == Spec => []SeedWhole
<1>1. SeedingInv /\ RouteInv => SeedWhole
    <2> SUFFICES ASSUME SeedingInv, fresh, ~interrupted, proc.pc = "serving", NEW t \in Builtin
                 PROVE  \E i \in DOMAIN instances :
                           instances[i] \in [template : {t}, models : {BuiltinModels[t]},
                                             deleted : BOOLEAN]
        BY DEF SeedWhole
    <2>1. PICK i \in DOMAIN instances : instances[i].template = t
                                        /\ instances[i].models = BuiltinModels[t]
        BY DEF SeedingInv, WholeInv, Whole
    <2>2. instances[i] \in Instance
        BY DEF SeedingInv, TypeInv, TypeOK
    <2> QED BY <2>1, <2>2 DEF Instance
<1> QED BY <1>1, Invariance, PTL

(* What was saved alone is what a restart brings back.                     *)
THEOREM SavedRouteSurvives == Spec => []RouteSurvives
<1>1. SeedingInv /\ RouteInv => RouteSurvives
    BY DEF RouteInv
<1> QED BY <1>1, Invariance, PTL
=============================================================================
