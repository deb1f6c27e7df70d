----------------------------- MODULE ConfigStore -----------------------------
(***************************************************************************)
(* The tables of store.Store that hold the configuration, and the queries  *)
(* on them.  The database has a single connection, so every statement is   *)
(* one atomic operator on the whole; nothing wider is: the code opens no   *)
(* transaction, and the tables have no foreign keys.                       *)
(*                                                                         *)
(* Abstractions: names, descriptions and headers are left out.  A provider *)
(* instance is never disabled by the code, so the flag is left out.  What  *)
(* encryption makes of an API key is the key and where it was encrypted.   *)
(***************************************************************************)
EXTENDS Naturals, FiniteSets

CONSTANTS
    Known,          \* rows of provider_templates, and "custom"
    Unknown,        \* template IDs that no row has
    Keys,           \* API keys
    NoKey,          \* the empty key
    Machines,       \* hosts and users to run under, which encryption keys are made of
    ModelNames,     \* values of models.model_id
    MaxInstances,   \* bound on the provider instances ever created
    MaxModels,      \* bound on the models ever created
    None            \* no row

InstanceIds == 1..MaxInstances
ModelIds == 1..MaxModels

ASSUME StoreAssumption ==
    /\ MaxInstances \in Nat
    /\ MaxModels \in Nat
    /\ NoKey \notin Keys
    /\ NoKey \notin [key : Keys, machine : Machines]
    /\ None \notin [template : Known \cup Unknown, key : Keys \cup {NoKey}]
    /\ None \notin [template : Known \cup Unknown,
                    key : [key : Keys, machine : Machines] \cup {NoKey}]
    /\ None \notin [provider : InstanceIds, model : ModelNames, enabled : BOOLEAN]

ProviderInstance == [template : Known \cup Unknown, key : Keys \cup {NoKey}]

(* A row of provider_instances, where an empty key stays empty.            *)
Ciphertext == [key : Keys, machine : Machines] \cup {NoKey}
InstanceRow == [template : Known \cup Unknown, key : Ciphertext]

Model == [provider : InstanceIds, model : ModelNames, enabled : BOOLEAN]

(* The counters are those of AUTOINCREMENT: an id is never given twice.    *)
Database ==
    [instances : [InstanceIds -> InstanceRow \cup {None}],
     models : [ModelIds -> Model \cup {None}],
     nextInstance : 1..(MaxInstances + 1),
     nextModel : 1..(MaxModels + 1)]

Instances(db) == {i \in InstanceIds : db.instances[i] # None}
Models(db) == {m \in ModelIds : db.models[m] # None}

GetModelsByProvider(db, i) == {m \in Models(db) : db.models[m].provider = i}

CountModelsByProvider(db, i) == Cardinality(GetModelsByProvider(db, i))

(* UNIQUE(provider_instance_id, model_id), for a row with this id.         *)
Unique(db, row, id) ==
    \A m \in GetModelsByProvider(db, row.provider) \ {id} :
        db.models[m].model # row.model

(* crypto.Encrypt and Decrypt; what fails to decrypt is read as no key.    *)
Encrypt(key, machine) == IF key = NoKey THEN NoKey ELSE [key |-> key, machine |-> machine]

Legible(cipher, machine) == cipher = NoKey \/ cipher.machine = machine

Decrypt(cipher, machine) ==
    IF cipher # NoKey /\ Legible(cipher, machine) THEN cipher.key ELSE NoKey

Sealed(p, machine) == [p EXCEPT !.key = Encrypt(@, machine)]

GetProviderInstances(db, machine) ==
    [i \in InstanceIds |->
        IF i \in Instances(db)
        THEN [db.instances[i] EXCEPT !.key = Decrypt(@, machine)]
        ELSE None]

(* The id a new provider instance gets.                                    *)
NewInstanceId(db) == db.nextInstance

CreateProviderInstance(db, p, machine) ==
    [db EXCEPT !.instances[NewInstanceId(db)] = Sealed(p, machine), !.nextInstance = @ + 1]

(* UPDATE ... WHERE id=?: nothing happens to a row that is gone.           *)
UpdateProviderInstance_Upserts(db, i, p, machine) ==          \* faulty variant
    [db EXCEPT !.instances[i] = Sealed(p, machine)]
UpdateProviderInstance(db, i, p, machine) ==
    IF i \in Instances(db) THEN [db EXCEPT !.instances[i] = Sealed(p, machine)] ELSE db

DeleteModelsOfProvider(db, i) ==
    [db EXCEPT !.models = [m \in ModelIds |->
                              IF m \in GetModelsByProvider(db, i) THEN None ELSE @[m]]]

DeleteInstanceRow(db, i) == [db EXCEPT !.instances[i] = None]

CreateModel(db, row) == [db EXCEPT !.models[db.nextModel] = row, !.nextModel = @ + 1]

UpdateModel(db, id, row) ==
    IF id \in Models(db) THEN [db EXCEPT !.models[id] = row] ELSE db

DeleteModel(db, id) == [db EXCEPT !.models[id] = None]

-----------------------------------------------------------------------------
(* config.LoadConfigFromDB *)

(* The providers of a configuration: those with a known template and at    *)
(* least one enabled model.                                                *)
ProviderConfig == [key : Keys \cup {NoKey}, models : SUBSET ModelNames]
Providers == [InstanceIds -> ProviderConfig \cup {None}]

NoProviders == [i \in InstanceIds |-> None]

(* What a provider and the models read for it contribute.              *)
LoadProvider(db, i, p) ==
    LET enabled == {m \in GetModelsByProvider(db, i) : db.models[m].enabled}
    IN  IF p.template \notin Known \/ enabled = {} THEN None
        ELSE [key |-> p.key, models |-> {db.models[m].model : m \in enabled}]

(* The configuration as one look at the whole database would give it.      *)
Load(db, machine) ==
    [i \in InstanceIds |->
        IF i \in Instances(db) THEN LoadProvider(db, i, GetProviderInstances(db, machine)[i])
        ELSE None]

(* model.NewPool and Pool.Replace: the backends of a configuration, those  *)
(* of providers without a key left out.                                    *)
PoolOf(providers) ==
    UNION {{<<i, m, providers[i].key>> : m \in providers[i].models} :
              i \in {j \in InstanceIds : providers[j] # None /\ providers[j].key # NoKey}}
=============================================================================
