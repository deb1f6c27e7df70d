------------------------ MODULE ProviderAdminProofs ------------------------
(***************************************************************************)
(* What the handlers of ProviderAdmin keep of the tables, for any number   *)
(* of handlers, rows, templates and keys: type correctness, that ids are   *)
(* never given twice, that no write is lost on the way to the pool.        *)
(***************************************************************************)
EXTENDS ProviderAdmin, FiniteSetTheorems, TLAPS

(* The tables between two statements: no row has an id that is still to be *)
(* given, and no model names a provider that was never created.            *)
Sound(d) ==
    /\ d \in Database
    /\ \A i \in Instances(d) : i < d.nextInstance
    /\ \A m \in Models(d) : m < d.nextModel /\ d.models[m].provider < d.nextInstance

(* What a handler between two of its statements still knows of the tables  *)
(* d, whatever the others have done: the models it had counted are gone,   *)
(* and the model it is about to write has the provider it read.            *)
Knows(j, d) ==
    /\ j.pc = "counted" =>
          /\ j.upto <= d.nextModel
          /\ \A m \in GetModelsByProvider(d, j.id) : j.upto <= m
    /\ j.pc = "rewrite" =>
          /\ j.id < d.nextModel
          /\ j.row.provider < d.nextInstance
          /\ j.id \in Models(d) => d.models[j.id].provider = j.row.provider

(* The type of one handler. *)
JobOK(j) ==
    /\ j \in Job
    /\ j.pc \in {"update", "counted", "modelsGone"} => j.id \in InstanceIds
    /\ j.pc = "update" => j.row \in ProviderInstance
    /\ j.pc = "rewrite" => j.id \in ModelIds /\ j.row \in Model
    /\ \A i \in j.todo : j.rows[i] \in ProviderInstance

HandlersOK ==
    /\ job \in [Handlers -> Job]
    /\ \A h \in Handlers : JobOK(job[h]) /\ Knows(job[h], db)

IInv ==
    /\ Sound(db)
    /\ HandlersOK
    /\ current \in Config
    /\ changeCh \in Seq(Config) /\ Len(changeCh) <= ChannelCap
    /\ pool \subseteq InstanceIds \X ModelNames \X Keys
    /\ machine \in Machines
    /\ calls \in 0..MaxCalls
    /\ crashes \in 0..MaxCrashes

LEMMA IInvTypes == IInv => TypeOK
BY DEF IInv, TypeOK, Sound, HandlersOK, JobOK

(* Tables e come after tables d: a model of e is new or was in d, of the   *)
(* same provider.                                                          *)
Follows(d, e) ==
    /\ d.nextInstance <= e.nextInstance
    /\ d.nextModel <= e.nextModel
    /\ \A m \in Models(e) :
          \/ d.nextModel <= m
          \/ m \in Models(d) /\ e.models[m].provider = d.models[m].provider

-----------------------------------------------------------------------------
(* The statements *)

LEMMA NoneIsNoRow ==
    /\ None \notin ProviderInstance
    /\ None \notin InstanceRow
    /\ None \notin Model
BY StoreAssumption DEF ProviderInstance, InstanceRow, Ciphertext, Model

(* Encryption and decryption. *)
LEMMA KeyTypes ==
    /\ \A p \in ProviderInstance, m \in Machines : Sealed(p, m) \in InstanceRow
    /\ \A row \in InstanceRow : \A m :
          [row EXCEPT !.key = Decrypt(@, m)] \in ProviderInstance
BY DEF Sealed, Encrypt, Decrypt, Legible, ProviderInstance, InstanceRow, Ciphertext

(* What has been encrypted here is read here as it was.                    *)
LEMMA ReadBack ==
    ASSUME NEW p \in ProviderInstance, NEW m \in Machines
    PROVE  LET row == Sealed(p, m)
           IN  [row EXCEPT !.key = Decrypt(@, m)] = p
<1>1. p.key \in Keys \cup {NoKey}
    BY DEF ProviderInstance
<1>2. Decrypt(Encrypt(p.key, m), m) = p.key
    <2>1. CASE p.key = NoKey
        BY <2>1 DEF Encrypt, Decrypt
    <2>2. CASE p.key # NoKey
        <3>1. [key |-> p.key, machine |-> m] # NoKey
            BY <1>1, <2>2, StoreAssumption
        <3> QED BY <2>2, <3>1 DEF Encrypt, Decrypt, Legible
    <2> QED BY <2>1, <2>2
<1> QED BY <1>2 DEF Sealed, ProviderInstance

LEMMA SoundFields ==
    ASSUME NEW d, Sound(d)
    PROVE  /\ d.instances \in [InstanceIds -> InstanceRow \cup {None}]
           /\ d.models \in [ModelIds -> Model \cup {None}]
           /\ d.nextInstance \in 1..(MaxInstances + 1)
           /\ d.nextModel \in 1..(MaxModels + 1)
           /\ MaxInstances \in Nat /\ MaxModels \in Nat
           /\ \A i \in Instances(d) : d.instances[i] \in InstanceRow
           /\ \A m \in Models(d) : d.models[m] \in Model
BY StoreAssumption DEF Sound, Database, Instances, Models

LEMMA ReadSound ==
    ASSUME NEW d, Sound(d), NEW k
    PROVE  /\ GetProviderInstances(d, k) \in [InstanceIds -> ProviderInstance \cup {None}]
           /\ \A i \in Instances(d) : GetProviderInstances(d, k)[i] \in ProviderInstance
           /\ Instances(d) \subseteq InstanceIds
<1>1. \A i \in Instances(d) :
         [d.instances[i] EXCEPT !.key = Decrypt(@, k)] \in ProviderInstance
    BY SoundFields, KeyTypes
<1>2. Instances(d) \subseteq InstanceIds
    BY DEF Instances
<1> QED BY <1>1, <1>2 DEF GetProviderInstances

LEMMA CreateInstanceSound ==
    ASSUME NEW d, Sound(d), NEW p \in ProviderInstance, NEW k \in Machines,
           d.nextInstance <= MaxInstances
    PROVE  LET e == CreateProviderInstance(d, p, k)
           IN  /\ Sound(e) /\ Follows(d, e)
               /\ e.models = d.models
               /\ e.instances = [d.instances EXCEPT ![d.nextInstance] = Sealed(p, k)]
<1> DEFINE e == CreateProviderInstance(d, p, k)
           n == d.nextInstance
           row == Sealed(p, k)
<1>00. row \in InstanceRow
    BY KeyTypes
<1> HIDE DEF row
<1>0. /\ d \in Database /\ n \in InstanceIds /\ n \in Nat
      /\ d.nextModel \in Nat
      /\ d.instances \in [InstanceIds -> InstanceRow \cup {None}]
      /\ d.models \in [ModelIds -> Model \cup {None}]
    BY SoundFields DEF Sound, InstanceIds
<1>1. /\ e.instances = [d.instances EXCEPT ![n] = row]
      /\ e.models = d.models
      /\ e.nextInstance = n + 1
      /\ e.nextModel = d.nextModel
    BY <1>0 DEF CreateProviderInstance, NewInstanceId, Database, row
<1>2. e \in Database
    <2>1. [d.instances EXCEPT ![n] = row] \in [InstanceIds -> InstanceRow \cup {None}]
        BY <1>0, <1>00
    <2>2. n + 1 \in 1..(MaxInstances + 1)
        BY <1>0, SoundFields
    <2> QED BY <1>0, <2>1, <2>2 DEF CreateProviderInstance, NewInstanceId, Database, row
<1> HIDE DEF e
<1>3. \A i \in Instances(e) : i < e.nextInstance
    BY <1>0, <1>1 DEF Instances, Sound, InstanceIds
<1>4. Models(e) = Models(d)
    BY <1>1 DEF Models
<1>5. \A m \in Models(e) : m < e.nextModel /\ e.models[m].provider < e.nextInstance
    <2> SUFFICES ASSUME NEW m \in Models(e)
                 PROVE  m < e.nextModel /\ e.models[m].provider < e.nextInstance
        OBVIOUS
    <2>1. m < d.nextModel /\ d.models[m].provider < n /\ d.models[m] \in Model
        BY <1>4, SoundFields DEF Sound
    <2>2. d.models[m].provider \in Nat
        BY <2>1 DEF Model, InstanceIds
    <2> QED BY <1>0, <1>1, <2>1, <2>2
<1>6. Follows(d, e)
    BY <1>0, <1>1, <1>4 DEF Follows
<1> QED BY <1>1, <1>2, <1>3, <1>5, <1>6 DEF Sound, e, row

(* A statement that gives no ids, and changes rows in place or drops them. *)
LEMMA InPlaceSound ==
    ASSUME NEW d, Sound(d), NEW e, e \in Database,
           e.nextInstance = d.nextInstance, e.nextModel = d.nextModel,
           Instances(e) \subseteq Instances(d),
           Models(e) \subseteq Models(d),
           \A m \in Models(e) : e.models[m].provider = d.models[m].provider
    PROVE  Sound(e) /\ Follows(d, e)
<1>1. d.nextInstance \in Nat /\ d.nextModel \in Nat
    BY SoundFields
<1> QED BY <1>1 DEF Sound, Follows

LEMMA UpdateInstanceSound ==
    ASSUME NEW d, Sound(d), NEW i \in InstanceIds, NEW p \in ProviderInstance,
           NEW m \in Machines
    PROVE  LET e == UpdateProviderInstance(d, i, p, m)
           IN  /\ Sound(e) /\ Follows(d, e)
               /\ Instances(e) = Instances(d)
               /\ \A k \in InstanceIds :
                     e.instances[k] # d.instances[k] => k = i /\ e.instances[k] = Sealed(p, m)
<1> DEFINE e == UpdateProviderInstance(d, i, p, m)
           row == Sealed(p, m)
<1>00. row \in InstanceRow
    BY KeyTypes
<1> HIDE DEF row
<1>0. /\ d \in Database
      /\ d.instances \in [InstanceIds -> InstanceRow \cup {None}]
      /\ d.nextInstance \in Nat /\ d.nextModel \in Nat
    BY SoundFields DEF Sound
<1>1. CASE i \notin Instances(d)
    <2>1. e = d
        BY <1>1 DEF UpdateProviderInstance
    <2> QED BY <1>0, <2>1 DEF Follows
<1>2. CASE i \in Instances(d)
    <2>1. e = [d EXCEPT !.instances[i] = row]
        BY <1>2 DEF UpdateProviderInstance, row
    <2>2. /\ e.instances = [d.instances EXCEPT ![i] = row]
          /\ e.models = d.models /\ e.nextInstance = d.nextInstance
          /\ e.nextModel = d.nextModel
        BY <1>0, <2>1 DEF Database
    <2>3. e \in Database
        <3>1. [d.instances EXCEPT ![i] = row] \in [InstanceIds -> InstanceRow \cup {None}]
            BY <1>0, <1>00
        <3> QED BY <1>0, <2>1, <3>1 DEF Database
    <2> HIDE DEF e
    <2>4. Instances(e) = Instances(d) /\ Models(e) = Models(d)
        BY <1>0, <1>00, <1>2, <2>2, NoneIsNoRow DEF Instances, Models
    <2>5. Sound(e) /\ Follows(d, e)
        BY <2>2, <2>3, <2>4, InPlaceSound
    <2> QED BY <1>0, <2>2, <2>4, <2>5 DEF e, row
<1> QED BY <1>1, <1>2

LEMMA SweepSound ==
    ASSUME NEW d, Sound(d), NEW i \in InstanceIds
    PROVE  LET e == DeleteModelsOfProvider(d, i)
           IN  /\ Sound(e) /\ Follows(d, e)
               /\ e.instances = d.instances
               /\ Models(e) = Models(d) \ GetModelsByProvider(d, i)
<1> DEFINE e == DeleteModelsOfProvider(d, i)
           models == [m \in ModelIds |-> IF m \in GetModelsByProvider(d, i) THEN None
                                         ELSE d.models[m]]
<1>0. d \in Database /\ d.models \in [ModelIds -> Model \cup {None}]
    BY SoundFields DEF Sound
<1>1. models \in [ModelIds -> Model \cup {None}]
    BY <1>0
<1>2. e = [d EXCEPT !.models = models]
    BY DEF DeleteModelsOfProvider
<1> HIDE DEF models
<1>3. /\ e \in Database
      /\ e.instances = d.instances /\ e.models = models
      /\ e.nextInstance = d.nextInstance /\ e.nextModel = d.nextModel
    BY <1>0, <1>1, <1>2 DEF Database
<1> HIDE DEF e
<1>4. Models(e) = Models(d) \ GetModelsByProvider(d, i)
    BY <1>3 DEF Models, models
<1>5. \A m \in Models(e) : e.models[m].provider = d.models[m].provider
    BY <1>3, <1>4 DEF Models, models
<1>6. Sound(e) /\ Follows(d, e)
    BY <1>3, <1>4, <1>5, InPlaceSound DEF Instances
<1> QED BY <1>3, <1>4, <1>6 DEF e

LEMMA DeleteRowSound ==
    ASSUME NEW d, Sound(d), NEW i \in InstanceIds
    PROVE  LET e == DeleteInstanceRow(d, i)
           IN  /\ Sound(e) /\ Follows(d, e)
               /\ e.models = d.models
               /\ Instances(e) \subseteq Instances(d)
<1> DEFINE e == DeleteInstanceRow(d, i)
<1>0. d \in Database /\ d.instances \in [InstanceIds -> InstanceRow \cup {None}]
    BY SoundFields DEF Sound
<1>1. [d.instances EXCEPT ![i] = None] \in [InstanceIds -> InstanceRow \cup {None}]
    BY <1>0
<1>2. /\ e \in Database
      /\ e.instances = [d.instances EXCEPT ![i] = None] /\ e.models = d.models
      /\ e.nextInstance = d.nextInstance /\ e.nextModel = d.nextModel
    BY <1>0, <1>1 DEF Database, DeleteInstanceRow
<1> HIDE DEF e
<1>3. Instances(e) \subseteq Instances(d) /\ Models(e) = Models(d)
    BY <1>0, <1>2 DEF Instances, Models
<1>4. Sound(e) /\ Follows(d, e)
    BY <1>2, <1>3, InPlaceSound
<1> QED BY <1>2, <1>3, <1>4 DEF e

LEMMA CreateModelSound ==
    ASSUME NEW d, Sound(d), NEW row \in Model,
           d.nextModel <= MaxModels, row.provider < d.nextInstance
    PROVE  LET e == CreateModel(d, row)
           IN  /\ Sound(e) /\ Follows(d, e)
               /\ e.instances = d.instances
               /\ Models(d) \subseteq Models(e)
<1> DEFINE e == CreateModel(d, row)
           n == d.nextModel
<1>0. /\ d \in Database /\ n \in ModelIds /\ n \in Nat /\ d.nextInstance \in Nat
      /\ d.models \in [ModelIds -> Model \cup {None}]
    BY SoundFields DEF Sound, ModelIds
<1>1. /\ e.models = [d.models EXCEPT ![n] = row]
      /\ e.instances = d.instances
      /\ e.nextInstance = d.nextInstance
      /\ e.nextModel = n + 1
    BY <1>0 DEF CreateModel, Database
<1>2. e \in Database
    <2>1. [d.models EXCEPT ![n] = row] \in [ModelIds -> Model \cup {None}]
        BY <1>0
    <2>2. n + 1 \in 1..(MaxModels + 1)
        BY <1>0, SoundFields
    <2> QED BY <1>0, <2>1, <2>2 DEF CreateModel, Database
<1> HIDE DEF e
<1>3. Models(e) = Models(d) \cup {n}
    BY <1>0, <1>1, NoneIsNoRow DEF Models
<1>4. \A m \in Models(e) : m < e.nextModel /\ e.models[m].provider < e.nextInstance
    <2> SUFFICES ASSUME NEW m \in Models(e)
                 PROVE  m < e.nextModel /\ e.models[m].provider < e.nextInstance
        OBVIOUS
    <2>1. CASE m = n
        BY <1>0, <1>1, <2>1
    <2>2. CASE m # n
        <3>1. m \in Models(d) /\ m \in ModelIds
            BY <1>3, <2>2 DEF Models
        <3>2. m < n /\ d.models[m].provider < d.nextInstance
            BY <3>1 DEF Sound
        <3> QED BY <1>0, <1>1, <2>2, <3>1, <3>2 DEF ModelIds
    <2> QED BY <2>1, <2>2
<1>5. Follows(d, e)
    BY <1>0, <1>1, <1>3 DEF Follows, Models
<1> QED BY <1>1, <1>2, <1>3, <1>4, <1>5 DEF Sound, Instances, e

LEMMA UpdateModelSound ==
    ASSUME NEW d, Sound(d), NEW m \in ModelIds, NEW row \in Model,
           m \in Models(d) => d.models[m].provider = row.provider
    PROVE  LET e == UpdateModel(d, m, row)
           IN  /\ Sound(e) /\ Follows(d, e)
               /\ e.instances = d.instances
               /\ Models(e) = Models(d)
<1> DEFINE e == UpdateModel(d, m, row)
<1>0. /\ d \in Database
      /\ d.models \in [ModelIds -> Model \cup {None}]
      /\ d.nextInstance \in Nat /\ d.nextModel \in Nat
    BY SoundFields DEF Sound
<1>1. CASE m \notin Models(d)
    <2>1. e = d
        BY <1>1 DEF UpdateModel
    <2> QED BY <1>0, <2>1 DEF Follows
<1>2. CASE m \in Models(d)
    <2>1. e = [d EXCEPT !.models[m] = row]
        BY <1>2 DEF UpdateModel
    <2>2. /\ e.models = [d.models EXCEPT ![m] = row]
          /\ e.instances = d.instances /\ e.nextInstance = d.nextInstance
          /\ e.nextModel = d.nextModel
        BY <1>0, <2>1 DEF Database
    <2>3. e \in Database
        <3>1. [d.models EXCEPT ![m] = row] \in [ModelIds -> Model \cup {None}]
            BY <1>0
        <3> QED BY <1>0, <2>1, <3>1 DEF Database
    <2> HIDE DEF e
    <2>4. Instances(e) = Instances(d) /\ Models(e) = Models(d)
        BY <1>0, <1>2, <2>2, NoneIsNoRow DEF Instances, Models
    <2>5. \A k \in Models(e) : e.models[k].provider = d.models[k].provider
        BY <1>0, <1>2, <2>2, <2>4 DEF Models
    <2>6. Sound(e) /\ Follows(d, e)
        BY <2>2, <2>3, <2>4, <2>5, InPlaceSound
    <2> QED BY <2>2, <2>4, <2>6 DEF e
<1> QED BY <1>1, <1>2

LEMMA DeleteModelSound ==
    ASSUME NEW d, Sound(d), NEW m \in ModelIds
    PROVE  LET e == DeleteModel(d, m)
           IN  /\ Sound(e) /\ Follows(d, e)
               /\ e.instances = d.instances
<1> DEFINE e == DeleteModel(d, m)
<1>0. d \in Database /\ d.models \in [ModelIds -> Model \cup {None}]
    BY SoundFields DEF Sound
<1>1. [d.models EXCEPT ![m] = None] \in [ModelIds -> Model \cup {None}]
    BY <1>0
<1>2. /\ e \in Database
      /\ e.models = [d.models EXCEPT ![m] = None] /\ e.instances = d.instances
      /\ e.nextInstance = d.nextInstance /\ e.nextModel = d.nextModel
    BY <1>0, <1>1 DEF Database, DeleteModel
<1> HIDE DEF e
<1>3. /\ Instances(e) = Instances(d) /\ Models(e) \subseteq Models(d)
      /\ \A k \in Models(e) : e.models[k].provider = d.models[k].provider
    BY <1>0, <1>2 DEF Instances, Models
<1>4. Sound(e) /\ Follows(d, e)
    BY <1>2, <1>3, InPlaceSound
<1> QED BY <1>2, <1>4 DEF e

(* What a handler knows, it still knows after another's statement. *)
LEMMA StillKnows ==
    ASSUME NEW d, Sound(d), NEW e, Sound(e), Follows(d, e), NEW j, JobOK(j), Knows(j, d)
    PROVE  Knows(j, e)
<1>0. /\ d.nextInstance \in Nat /\ d.nextModel \in Nat
      /\ e.nextInstance \in Nat /\ e.nextModel \in Nat
    BY SoundFields
<1>1. ASSUME j.pc = "counted"
      PROVE  /\ j.upto <= e.nextModel
             /\ \A m \in GetModelsByProvider(e, j.id) : j.upto <= m
    <2>1. j.upto \in Nat /\ j.upto <= d.nextModel
        BY <1>1, StoreAssumption DEF JobOK, Job, Knows
    <2>2. ASSUME NEW m \in GetModelsByProvider(e, j.id)
          PROVE  j.upto <= m
        <3>1. m \in Models(e) /\ e.models[m].provider = j.id /\ m \in Nat
            BY DEF GetModelsByProvider, Models, ModelIds
        <3>2. CASE d.nextModel <= m
            BY <1>0, <2>1, <3>1, <3>2
        <3>3. CASE m \in Models(d) /\ e.models[m].provider = d.models[m].provider
            BY <1>1, <3>1, <3>3 DEF Knows, GetModelsByProvider
        <3> QED BY <3>1, <3>2, <3>3 DEF Follows
    <2> QED BY <1>0, <2>1, <2>2 DEF Follows
<1>2. ASSUME j.pc = "rewrite"
      PROVE  /\ j.id < e.nextModel
             /\ j.row.provider < e.nextInstance
             /\ j.id \in Models(e) => e.models[j.id].provider = j.row.provider
    <2>1. /\ j.id \in Nat /\ j.row.provider \in Nat
          /\ j.id < d.nextModel /\ j.row.provider < d.nextInstance
          /\ j.id \in Models(d) => d.models[j.id].provider = j.row.provider
        BY <1>2 DEF JobOK, Knows, ModelIds, InstanceIds, Model
    <2> QED BY <1>0, <2>1 DEF Follows
<1> QED BY <1>1, <1>2 DEF Knows
-----------------------------------------------------------------------------
(* The configuration and the pool *)

LEMMA LoadProviderType ==
    ASSUME NEW d, Sound(d), NEW i, NEW row \in ProviderInstance
    PROVE  LoadProvider(d, i, row) \in ProviderConfig \cup {None}
<1> DEFINE enabled == {m \in GetModelsByProvider(d, i) : d.models[m].enabled}
<1>1. {d.models[m].model : m \in enabled} \subseteq ModelNames
    BY SoundFields DEF GetModelsByProvider, Model
<1>2. row.key \in Keys \cup {NoKey}
    BY DEF ProviderInstance
<1> QED BY <1>1, <1>2 DEF LoadProvider, ProviderConfig

LEMMA LoadType ==
    ASSUME NEW d, Sound(d), NEW k
    PROVE  Load(d, k) \in Providers
<1>1. \A i \in Instances(d) :
         LoadProvider(d, i, GetProviderInstances(d, k)[i]) \in ProviderConfig \cup {None}
    BY ReadSound, LoadProviderType
<1> QED BY <1>1 DEF Load, Providers

LEMMA PoolOfType ==
    ASSUME NEW p \in Providers
    PROVE  PoolOf(p) \subseteq InstanceIds \X ModelNames \X Keys
<1> SUFFICES ASSUME NEW x \in PoolOf(p) PROVE x \in InstanceIds \X ModelNames \X Keys
    OBVIOUS
<1>1. PICK i \in {j \in InstanceIds : p[j] # None /\ p[j].key # NoKey} :
          x \in {<<i, m, p[i].key>> : m \in p[i].models}
    BY DEF PoolOf
<1>2. p[i] \in ProviderConfig /\ p[i].key # NoKey
    BY <1>1 DEF Providers
<1> QED BY <1>1, <1>2 DEF ProviderConfig

LEMMA IdleOK ==
    /\ JobOK(Idle)
    /\ Idle \in Job /\ Idle.pc = "idle" /\ Idle.todo = {}
    /\ \A settings \in {"own", "default"} :
          JobOK(Reloading(settings)) /\ Reloading(settings).pc = "list"
<1>1. NoProviders \in Providers
    BY DEF NoProviders, Providers
<1>2. Idle \in Job
    BY <1>1, StoreAssumption DEF Idle, Job, Pc, NoProviders, Config
<1>3. \A settings \in {"own", "default"} : Reloading(settings) \in Job
    BY <1>1, <1>2 DEF Reloading, Job, Pc, Config
<1>4. Idle.pc = "idle" /\ Idle.todo = {}
    BY DEF Idle
<1>5. \A settings \in {"own", "default"} :
         Reloading(settings).pc = "list" /\ Reloading(settings).todo = {}
    BY DEF Idle, Reloading
<1> QED BY <1>2, <1>3, <1>4, <1>5 DEF JobOK

(* One handler moves on, after at most one statement. *)
LEMMA HandlerMoves ==
    ASSUME IInv, Sound(db'), Follows(db, db'),
           NEW h \in Handlers, NEW j, JobOK(j), Knows(j, db'),
           job' = [job EXCEPT ![h] = j]
    PROVE  HandlersOK'
<1>1. HandlersOK /\ Sound(db)
    BY DEF IInv
<1>2. j \in Job
    BY DEF JobOK
<1>3. ASSUME NEW g \in Handlers
      PROVE  JobOK(job'[g]) /\ Knows(job'[g], db')
    <2>1. CASE g = h
        BY <1>1, <2>1 DEF HandlersOK
    <2>2. CASE g # h
        BY <1>1, <2>2, StillKnows DEF HandlersOK
    <2> QED BY <2>1, <2>2
<1> QED BY <1>1, <1>2, <1>3 DEF HandlersOK

(* The tables do not change, and no handler does. *)
LEMMA FollowsItself == ASSUME NEW d, Sound(d) PROVE Follows(d, d)
BY SoundFields DEF Follows

(* A handler that is not between two statements knows nothing. *)
LEMMA KnowsNothing ==
    ASSUME NEW j, j.pc \notin {"counted", "rewrite"}, NEW d
    PROVE  Knows(j, d)
BY DEF Knows

LEMMA InitIInv == Init => IInv
<1> SUFFICES ASSUME Init PROVE IInv
    OBVIOUS
<1>1. PICK withModel \in BOOLEAN : db = Seeded(withModel)
    BY DEF Init
<1> DEFINE row == [template |-> CHOOSE t \in Known : TRUE, key |-> NoKey]
           model == [provider |-> 1, model |-> CHOOSE n \in ModelNames : TRUE, enabled |-> TRUE]
<1>2. row \in InstanceRow
    BY AdminAssumption DEF InstanceRow, Ciphertext
<1>3. model \in Model /\ 1 \in InstanceIds /\ 1 \in ModelIds
    BY AdminAssumption, StoreAssumption DEF Model, InstanceIds, ModelIds
<1>4. model.provider = 1
    OBVIOUS
<1>5. /\ db.instances = [i \in InstanceIds |-> IF i = 1 THEN row ELSE None]
      /\ db.models = [m \in ModelIds |-> IF withModel /\ m = 1 THEN model ELSE None]
      /\ db.nextInstance = 2
      /\ db.nextModel = IF withModel THEN 2 ELSE 1
      /\ db = [instances |-> db.instances, models |-> db.models,
               nextInstance |-> db.nextInstance, nextModel |-> db.nextModel]
    BY <1>1 DEF Seeded
<1> HIDE DEF row, model
<1>6. db \in Database
    <2>1. 2 \in 1..(MaxInstances + 1) /\ db.nextModel \in 1..(MaxModels + 1)
        BY <1>5, AdminAssumption, StoreAssumption
    <2> QED BY <1>2, <1>3, <1>5, <2>1 DEF Database
<1>7. Sound(db)
    BY <1>3, <1>4, <1>5, <1>6 DEF Sound, Instances, Models
<1>8. Load(db, machine) \in Providers
    BY <1>7, LoadType
<1>9. current \in Config
    BY <1>8 DEF Init, Config
<1>10. pool \subseteq InstanceIds \X ModelNames \X Keys
    BY <1>8, PoolOfType DEF Init
<1>11. HandlersOK
    BY IdleOK, KnowsNothing DEF Init, HandlersOK, JobOK
<1>12. changeCh \in Seq(Config) /\ Len(changeCh) <= ChannelCap
    BY AdminAssumption DEF Init
<1>13. machine \in Machines /\ calls \in 0..MaxCalls /\ crashes \in 0..MaxCrashes
    BY AdminAssumption DEF Init
<1> QED BY <1>7, <1>9, <1>10, <1>11, <1>12, <1>13 DEF IInv

-----------------------------------------------------------------------------
(* Every step keeps the invariant *)

LEMMA BeginStep ==
    ASSUME IInv, NEW h \in Handlers, Begin(h)
    PROVE  IInv' /\ Follows(db, db')
<1>0. /\ Sound(db) /\ HandlersOK
      /\ current \in Config
      /\ changeCh \in Seq(Config) /\ Len(changeCh) <= ChannelCap
      /\ pool \subseteq InstanceIds \X ModelNames \X Keys
      /\ machine \in Machines
      /\ calls \in 0..MaxCalls
      /\ crashes \in 0..MaxCrashes
      /\ current.settings \in {"own", "default"}
    BY DEF IInv, Config
<1>1. Call(h)
    BY DEF Begin, AdminReload, CreateProviderAPI, UpdateProviderAPI, DeleteProviderAPI,
       CreateModelAPI, UpdateModelAPI, DeleteModelAPI
<1>2. /\ UNCHANGED <<current, changeCh, pool, machine, crashes>>
      /\ calls' \in 0..MaxCalls
    BY <1>0, <1>1, AdminAssumption DEF Call
<1>3. SUFFICES Sound(db') /\ Follows(db, db') /\ HandlersOK'
    BY <1>0, <1>2, <1>3 DEF IInv
<1>4. Follows(db, db)
    BY <1>0, FollowsItself
<1>5. JobOK(Reloading(current.settings)) /\ JobOK(Reloading("default"))
      /\ \A d : Knows(Reloading(current.settings), d) /\ Knows(Reloading("default"), d)
    BY <1>0, IdleOK, KnowsNothing
<1>6. CASE AdminReload(h)
    BY <1>0, <1>4, <1>5, <1>6, HandlerMoves DEF AdminReload
<1>7. CASE \E t \in Known \cup Unknown, k \in Keys \cup {NoKey} : CreateProviderAPI(h, t, k)
    <2>1. PICK t \in Known \cup Unknown, k \in Keys \cup {NoKey} : CreateProviderAPI(h, t, k)
        BY <1>7
    <2> DEFINE row == [template |-> t, key |-> k]
    <2>2. /\ row \in ProviderInstance /\ db.nextInstance <= MaxInstances
          /\ db' = CreateProviderInstance(db, row, machine) /\ job' = job
        BY <2>1 DEF CreateProviderAPI, ProviderInstance
    <2> HIDE DEF row
    <2>3. Sound(db') /\ Follows(db, db')
        BY <1>0, <2>2, CreateInstanceSound
    <2> QED BY <1>0, <2>2, <2>3, StillKnows DEF HandlersOK
<1>8. CASE \E i \in SeenInstances, k \in Keys \cup {NoKey} : UpdateProviderAPI(h, i, k)
    <2>1. PICK i \in SeenInstances, k \in Keys \cup {NoKey} : UpdateProviderAPI(h, i, k)
        BY <1>8
    <2> DEFINE row == GetProviderInstances(db, machine)[i]
               j == [Idle EXCEPT !.pc = "update", !.id = i, !.key = k, !.row = row]
    <2>2. i \in Instances(db) /\ db' = db /\ job' = [job EXCEPT ![h] = j]
        BY <2>1 DEF UpdateProviderAPI
    <2>3. i \in InstanceIds /\ row \in ProviderInstance
        BY <1>0, <2>2, ReadSound
    <2> HIDE DEF row
    <2>4. JobOK(j) /\ j.pc = "update"
        <3>1. i \in 0..(MaxInstances + MaxModels)
            BY <2>3, StoreAssumption DEF InstanceIds
        <3>2. j \in Job /\ j.pc = "update" /\ j.id = i /\ j.row = row /\ j.todo = {}
            BY <2>3, <3>1, IdleOK DEF Job, Pc
        <3> HIDE DEF j
        <3> QED BY <2>3, <3>2 DEF JobOK
    <2> HIDE DEF j
    <2> QED BY <1>0, <1>4, <2>2, <2>4, KnowsNothing, HandlerMoves
<1>9. CASE \E i \in SeenInstances : DeleteProviderAPI(h, i)
    <2>1. PICK i \in SeenInstances : DeleteProviderAPI(h, i)
        BY <1>9
    <2> DEFINE j == [Idle EXCEPT !.pc = "counted", !.id = i, !.upto = db.nextModel]
    <2>2. Deletable(i) /\ db' = db /\ job' = [job EXCEPT ![h] = j]
        BY <2>1 DEF DeleteProviderAPI
    <2>3. i \in InstanceIds /\ db.nextModel \in 1..(MaxModels + 1)
        BY <1>0, SoundFields DEF SeenInstances, InstanceIds
    <2>4. JobOK(j) /\ j.pc = "counted" /\ j.id = i /\ j.upto = db.nextModel
        <3>1. i \in 0..(MaxInstances + MaxModels) /\ db.nextModel \in 0..(MaxModels + 1)
            BY <2>3, StoreAssumption DEF InstanceIds
        <3>2. j \in Job /\ j.pc = "counted" /\ j.id = i /\ j.upto = db.nextModel /\ j.todo = {}
            BY <3>1, IdleOK DEF Job, Pc
        <3> HIDE DEF j
        <3> QED BY <2>3, <3>2 DEF JobOK
    <2>5. GetModelsByProvider(db, i) = {}
        <3>1. GetModelsByProvider(db, i) \in SUBSET (1..MaxModels)
            BY DEF GetModelsByProvider, Models, ModelIds
        <3>2. IsFiniteSet(GetModelsByProvider(db, i))
            <4>1. IsFiniteSet(1..MaxModels)
                BY FS_Interval, StoreAssumption
            <4> QED BY <3>1, <4>1, FS_Subset
        <3> QED BY <2>2, <3>2, FS_EmptySet DEF Deletable, CountModelsByProvider
    <2> HIDE DEF j
    <2>6. Knows(j, db)
        BY <2>3, <2>4, <2>5 DEF Knows
    <2> QED BY <1>0, <1>4, <2>2, <2>4, <2>6, HandlerMoves
<1>10. CASE \E i \in SeenInstances, n \in ModelNames : CreateModelAPI(h, i, n)
    <2>1. PICK i \in SeenInstances, n \in ModelNames : CreateModelAPI(h, i, n)
        BY <1>10
    <2> DEFINE row == [provider |-> i, model |-> n, enabled |-> TRUE]
    <2>2. /\ db.nextModel <= MaxModels /\ db' = CreateModel(db, row)
          /\ job' = [job EXCEPT ![h] = Reloading(current.settings)]
        BY <2>1 DEF CreateModelAPI, ReloadAfter
    <2>3. i \in InstanceIds /\ i < db.nextInstance
        BY <1>0, SoundFields DEF SeenInstances, InstanceIds
    <2>4. row \in Model /\ row.provider < db.nextInstance
        BY <2>3 DEF Model
    <2> HIDE DEF row
    <2>5. Sound(db') /\ Follows(db, db')
        BY <1>0, <2>2, <2>4, CreateModelSound
    <2> QED BY <1>5, <2>2, <2>5, HandlerMoves
<1>11. CASE \E m \in SeenModels, n \in ModelNames, e \in BOOLEAN : UpdateModelAPI(h, m, n, e)
    <2>1. PICK m \in SeenModels, n \in ModelNames, e \in BOOLEAN : UpdateModelAPI(h, m, n, e)
        BY <1>11
    <2> DEFINE row == [db.models[m] EXCEPT !.model = n, !.enabled = e]
               j == [Idle EXCEPT !.pc = "rewrite", !.id = m, !.row = row]
    <2>2. m \in Models(db) /\ db' = db /\ job' = [job EXCEPT ![h] = j]
        BY <2>1 DEF UpdateModelAPI
    <2>3. /\ m \in ModelIds /\ m < db.nextModel /\ db.models[m] \in Model
          /\ db.models[m].provider < db.nextInstance
        BY <1>0, <2>2, SoundFields DEF Models, Sound
    <2>4. row \in Model /\ row.provider = db.models[m].provider
        BY <2>3 DEF Model
    <2> HIDE DEF row
    <2>5. JobOK(j) /\ j.pc = "rewrite" /\ j.id = m /\ j.row = row
        <3>1. m \in 0..(MaxInstances + MaxModels)
            BY <2>3, StoreAssumption DEF ModelIds
        <3>2. j \in Job /\ j.pc = "rewrite" /\ j.id = m /\ j.row = row /\ j.todo = {}
            BY <2>4, <3>1, IdleOK DEF Job, Pc
        <3> HIDE DEF j
        <3> QED BY <2>3, <2>4, <3>2 DEF JobOK
    <2> HIDE DEF j
    <2>6. Knows(j, db)
        BY <2>3, <2>4, <2>5 DEF Knows
    <2> QED BY <1>0, <1>4, <2>2, <2>5, <2>6, HandlerMoves
<1>12. CASE \E m \in SeenModels : DeleteModelAPI(h, m)
    <2>1. PICK m \in SeenModels : DeleteModelAPI(h, m)
        BY <1>12
    <2>2. /\ db' = DeleteModel(db, m)
          /\ job' = [job EXCEPT ![h] = Reloading(current.settings)]
        BY <2>1 DEF DeleteModelAPI, ReloadAfter
    <2>3. m \in ModelIds
        BY <1>0, SoundFields DEF SeenModels, ModelIds
    <2>4. Sound(db') /\ Follows(db, db')
        BY <1>0, <2>2, <2>3, DeleteModelSound
    <2> QED BY <1>5, <2>2, <2>4, HandlerMoves
<1> QED BY <1>6, <1>7, <1>8, <1>9, <1>10, <1>11, <1>12 DEF Begin
LEMMA ContinueStep ==
    ASSUME IInv, NEW h \in Handlers, Continue(h)
    PROVE  IInv' /\ Follows(db, db')
<1>0. /\ Sound(db) /\ HandlersOK
      /\ current \in Config
      /\ changeCh \in Seq(Config) /\ Len(changeCh) <= ChannelCap
      /\ pool \subseteq InstanceIds \X ModelNames \X Keys
      /\ machine \in Machines
      /\ calls \in 0..MaxCalls
      /\ crashes \in 0..MaxCrashes
      /\ current.settings \in {"own", "default"}
      /\ JobOK(job[h]) /\ job[h] \in Job /\ Knows(job[h], db)
    BY DEF IInv, Config, HandlersOK
<1>1. Follows(db, db)
    BY <1>0, FollowsItself
<1>2. JobOK(Reloading(current.settings)) /\ \A d : Knows(Reloading(current.settings), d)
    BY <1>0, IdleOK, KnowsNothing
<1>3. JobOK(Idle) /\ \A d : Knows(Idle, d)
    BY IdleOK, KnowsNothing
<1>4. CASE WriteProvider(h)
    <2> DEFINE row == Edited(job[h].row, job[h].key)
    <2>1. /\ db' = UpdateProviderInstance(db, job[h].id, row, machine)
          /\ job' = [job EXCEPT ![h] = Reloading(current.settings)]
          /\ UNCHANGED <<current, changeCh, pool, calls, machine, crashes>>
        BY <1>4 DEF WriteProvider, ReloadAfter
    <2>2. job[h].id \in InstanceIds /\ row \in ProviderInstance
        <3>1. job[h].id \in InstanceIds /\ job[h].row \in ProviderInstance
              /\ job[h].key \in Keys \cup {NoKey}
            BY <1>0, <1>4 DEF WriteProvider, JobOK, Job
        <3> QED BY <3>1 DEF Edited, ProviderInstance
    <2> HIDE DEF row
    <2>3. Sound(db') /\ Follows(db, db')
        BY <1>0, <2>1, <2>2, UpdateInstanceSound
    <2> QED BY <1>0, <1>2, <2>1, <2>3, HandlerMoves DEF IInv
<1>5. CASE SweepModels(h)
    <2> DEFINE j == [job[h] EXCEPT !.pc = "modelsGone"]
    <2>1. /\ db' = DeleteModelsOfProvider(db, job[h].id)
          /\ job' = [job EXCEPT ![h] = j]
          /\ UNCHANGED <<current, changeCh, pool, calls, machine, crashes>>
        BY <1>5 DEF SweepModels
    <2>2. job[h].id \in InstanceIds
        BY <1>0, <1>5 DEF SweepModels, JobOK
    <2>3. JobOK(j) /\ j.pc = "modelsGone"
        BY <1>0, <2>2 DEF JobOK, Job, Pc
    <2> HIDE DEF j
    <2>4. Sound(db') /\ Follows(db, db')
        BY <1>0, <2>1, <2>2, SweepSound
    <2> QED BY <1>0, <2>1, <2>3, <2>4, KnowsNothing, HandlerMoves DEF IInv
<1>6. CASE DeleteRow(h)
    <2>1. /\ db' = DeleteInstanceRow(db, job[h].id)
          /\ job' = [job EXCEPT ![h] = Reloading(current.settings)]
          /\ UNCHANGED <<current, changeCh, pool, calls, machine, crashes>>
        BY <1>6 DEF DeleteRow, ReloadAfter
    <2>2. job[h].id \in InstanceIds
        BY <1>0, <1>6 DEF DeleteRow, JobOK
    <2>3. Sound(db') /\ Follows(db, db')
        BY <1>0, <2>1, <2>2, DeleteRowSound
    <2> QED BY <1>0, <1>2, <2>1, <2>3, HandlerMoves DEF IInv
<1>7. CASE WriteModel(h)
    <2>1. /\ job[h].id \in ModelIds /\ job[h].row \in Model
          /\ job[h].id \in Models(db) => db.models[job[h].id].provider = job[h].row.provider
        BY <1>0, <1>7 DEF WriteModel, JobOK, Knows
    <2>2. UNCHANGED <<current, changeCh, pool, calls, machine, crashes>>
        BY <1>7 DEF WriteModel
    <2>3. CASE /\ db' = UpdateModel(db, job[h].id, job[h].row)
               /\ job' = [job EXCEPT ![h] = ReloadAfter(h)]
        <3>1. Sound(db') /\ Follows(db, db')
            BY <1>0, <2>1, <2>3, UpdateModelSound
        <3> QED BY <1>0, <1>2, <2>2, <2>3, <3>1, HandlerMoves DEF IInv, ReloadAfter
    <2>4. CASE job' = [job EXCEPT ![h] = Idle] /\ UNCHANGED db
        BY <1>0, <1>1, <1>3, <2>2, <2>4, HandlerMoves DEF IInv
    <2> QED BY <1>7, <2>3, <2>4 DEF WriteModel
<1>8. CASE ListInstances(h)
    <2> DEFINE rows == GetProviderInstances(db, machine)
               j == [job[h] EXCEPT !.pc = "load", !.rows = rows, !.todo = Instances(db)]
    <2>1. job' = [job EXCEPT ![h] = j] /\ UNCHANGED <<db, current, changeCh, pool, calls, machine, crashes>>
        BY <1>8 DEF ListInstances
    <2>2. JobOK(j) /\ j.pc = "load"
        <3>1. /\ rows \in [InstanceIds -> ProviderInstance \cup {None}]
              /\ Instances(db) \subseteq InstanceIds
              /\ \A i \in Instances(db) : rows[i] \in ProviderInstance
            BY <1>0, ReadSound
        <3> HIDE DEF rows
        <3>2. /\ j \in Job /\ j.pc = "load" /\ j.rows = rows /\ j.todo = Instances(db)
            BY <1>0, <3>1 DEF Job, Pc
        <3> HIDE DEF j
        <3> QED BY <3>1, <3>2 DEF JobOK
    <2> HIDE DEF j
    <2> QED BY <1>0, <1>1, <2>1, <2>2, KnowsNothing, HandlerMoves DEF IInv
<1>9. CASE LoadModels(h)
    <2>1. PICK i \in job[h].todo :
              job' = [job EXCEPT ![h].todo = @ \ {i},
                                 ![h].cfg.providers[i] = LoadProvider(db, i, job[h].rows[i])]
        BY <1>9 DEF LoadModels
    <2> DEFINE p == [job[h].cfg.providers EXCEPT ![i] = LoadProvider(db, i, job[h].rows[i])]
               j == [job[h] EXCEPT !.todo = @ \ {i}, !.cfg = [@ EXCEPT !.providers = p]]
    <2>2. job' = [job EXCEPT ![h] = j]
        BY <1>0, <2>1 DEF HandlersOK, Job
    <2>3. /\ job[h].todo \subseteq InstanceIds /\ job[h].cfg \in Config
          /\ job[h].cfg.providers \in Providers
          /\ \A k \in job[h].todo : job[h].rows[k] \in ProviderInstance
        BY <1>0 DEF JobOK, Job, Config
    <2>4. p \in Providers
        <3>1. LoadProvider(db, i, job[h].rows[i]) \in ProviderConfig \cup {None}
            BY <1>0, <2>3, LoadProviderType
        <3> QED BY <2>3, <3>1 DEF Providers
    <2> HIDE DEF p
    <2>5. /\ j \in Job /\ j.pc = "load" /\ j.rows = job[h].rows
          /\ j.todo = job[h].todo \ {i}
        <3>1. [job[h].cfg EXCEPT !.providers = p] \in Config
            BY <2>3, <2>4 DEF Config
        <3> QED BY <1>0, <1>9, <2>3, <3>1 DEF Job, LoadModels
    <2> HIDE DEF j
    <2>6. JobOK(j)
        BY <2>3, <2>5 DEF JobOK
    <2>7. UNCHANGED <<db, current, changeCh, pool, calls, machine, crashes>>
        BY <1>9 DEF LoadModels
    <2> QED BY <1>0, <1>1, <2>2, <2>5, <2>6, <2>7, KnowsNothing, HandlerMoves DEF IInv
<1>10. CASE Publish(h)
    <2> DEFINE j == [job[h] EXCEPT !.pc = "notify"]
    <2>1. /\ job' = [job EXCEPT ![h] = j] /\ current' = job[h].cfg
          /\ UNCHANGED <<db, changeCh, pool, calls, machine, crashes>>
        BY <1>10 DEF Publish
    <2>2. JobOK(j) /\ j.pc = "notify"
        BY <1>0 DEF JobOK, Job, Pc
    <2> HIDE DEF j
    <2>3. current' \in Config
        BY <1>0, <2>1 DEF Job
    <2> QED BY <1>0, <1>1, <2>1, <2>2, <2>3, KnowsNothing, HandlerMoves DEF IInv
<1>11. CASE Notify(h)
    <2>1. /\ job' = [job EXCEPT ![h] = Idle] /\ changeCh' = Offer(job[h].cfg)
          /\ UNCHANGED <<db, current, pool, calls, machine, crashes>>
        BY <1>11 DEF Notify
    <2>2. changeCh' \in Seq(Config) /\ Len(changeCh') <= ChannelCap
        <3>1. job[h].cfg \in Config
            BY <1>0 DEF Job
        <3> QED BY <1>0, <2>1, <3>1, AdminAssumption DEF Offer
    <2> QED BY <1>0, <1>1, <1>3, <2>1, <2>2, HandlerMoves DEF IInv
<1> QED BY <1>4, <1>5, <1>6, <1>7, <1>8, <1>9, <1>10, <1>11 DEF Continue

LEMMA OtherStep ==
    ASSUME IInv,
           \/ \E h \in Handlers : ClientLeaves(h) \/ Leave(h)
           \/ Receive
           \/ Restart
    PROVE  IInv' /\ db' = db
<1>0. /\ Sound(db) /\ HandlersOK
      /\ current \in Config
      /\ changeCh \in Seq(Config) /\ Len(changeCh) <= ChannelCap
      /\ pool \subseteq InstanceIds \X ModelNames \X Keys
      /\ machine \in Machines
      /\ calls \in 0..MaxCalls
      /\ crashes \in 0..MaxCrashes
      /\ Follows(db, db)
    BY FollowsItself DEF IInv
<1>1. ASSUME NEW h \in Handlers, ClientLeaves(h) \/ Leave(h) PROVE IInv' /\ db' = db
    <2> DEFINE gone == [Idle EXCEPT !.pc = "abandoned"]
    <2>1. JobOK(gone) /\ Knows(gone, db)
        BY IdleOK DEF JobOK, Job, Pc, Knows
    <2>2. JobOK(Idle) /\ Knows(Idle, db)
        BY IdleOK, KnowsNothing
    <2>3. UNCHANGED <<db, current, changeCh, pool, calls, machine, crashes>>
        BY <1>1 DEF ClientLeaves, Leave
    <2>4. job' = [job EXCEPT ![h] = Idle] \/ job' = [job EXCEPT ![h] = gone]
        BY <1>1 DEF ClientLeaves, Leave
    <2> HIDE DEF gone
    <2>5. HandlersOK'
        BY <1>0, <2>1, <2>2, <2>3, <2>4, HandlerMoves
    <2> QED BY <1>0, <2>3, <2>5 DEF IInv
<1>2. CASE Receive
    <2>1. /\ Head(changeCh) \in Config
          /\ Tail(changeCh) \in Seq(Config)
          /\ Len(Tail(changeCh)) <= ChannelCap
        BY <1>0, <1>2, AdminAssumption DEF Receive
    <2>2. PoolOf(Head(changeCh).providers) \subseteq InstanceIds \X ModelNames \X Keys
        BY <2>1, PoolOfType DEF Config
    <2> QED BY <1>0, <1>2, <2>1, <2>2 DEF Receive, ApplyChange, IInv, HandlersOK
<1>3. CASE Restart
    <2>1. Load(db, machine') \in Providers
        BY <1>0, LoadType
    <2>2. current' \in Config /\ pool' \subseteq InstanceIds \X ModelNames \X Keys
        BY <1>3, <2>1, PoolOfType DEF Restart, Config
    <2>3. db' = db /\ calls' = calls /\ crashes' \in 0..MaxCrashes /\ machine' \in Machines
          /\ changeCh' \in Seq(Config) /\ Len(changeCh') <= ChannelCap
        BY <1>0, <1>3, AdminAssumption DEF Restart
    <2>4. HandlersOK'
        BY <1>3, IdleOK, KnowsNothing DEF Restart, HandlersOK
    <2> QED BY <1>0, <2>2, <2>3, <2>4 DEF IInv
<1> QED BY <1>1, <1>2, <1>3

LEMMA IInvStep == IInv /\ [Next]_vars => IInv' /\ Follows(db, db')
<1> SUFFICES ASSUME IInv, [Next]_vars PROVE IInv' /\ Follows(db, db')
    OBVIOUS
<1>1. Follows(db, db)
    BY FollowsItself DEF IInv
<1>2. CASE UNCHANGED vars
    BY <1>1, <1>2 DEF vars, IInv, HandlersOK
<1> QED BY <1>1, <1>2, BeginStep, ContinueStep, OtherStep DEF Next

THEOREM Invariance == Spec => []IInv
BY InitIInv, IInvStep, PTL DEF Spec

(* Type correctness: whatever the handlers, their clients and crashes do,  *)
(* every row that is written, every configuration that is published and    *)
(* every handler between two of its statements is well formed.             *)
THEOREM TypeCorrect == Spec => []TypeOK
BY Invariance, IInvTypes, PTL
-----------------------------------------------------------------------------
(* What a step may do to the tables *)

(* A step is a statement on the tables or leaves them alone. *)
LEMMA InstanceAppears ==
    ASSUME IInv, [Next]_vars, NEW i \in InstanceIds,
           i \notin Instances(db), i \in Instances(db')
    PROVE  \E p \in ProviderInstance : /\ db.nextInstance <= MaxInstances
                                       /\ db' = CreateProviderInstance(db, p, machine)
<1>0. Sound(db) /\ HandlersOK /\ machine \in Machines
    BY DEF IInv
<1>1. db' # db
    OBVIOUS
<1>2. ASSUME NEW h \in Handlers, Continue(h) PROVE FALSE
    <2>1. JobOK(job[h]) /\ Knows(job[h], db)
        BY <1>0 DEF HandlersOK
    <2>2. CASE WriteProvider(h)
        <3>1. job[h].id \in InstanceIds /\ Edited(job[h].row, job[h].key) \in ProviderInstance
            BY <1>0, <2>1, <2>2 DEF WriteProvider, JobOK, Job, Edited, ProviderInstance
        <3> QED BY <1>0, <2>2, <3>1, UpdateInstanceSound DEF WriteProvider
    <2>3. CASE SweepModels(h)
        <3>1. job[h].id \in InstanceIds
            BY <2>1, <2>3 DEF SweepModels, JobOK
        <3> QED BY <1>0, <2>3, <3>1, SweepSound DEF SweepModels, Instances
    <2>4. CASE DeleteRow(h)
        <3>1. job[h].id \in InstanceIds
            BY <2>1, <2>4 DEF DeleteRow, JobOK
        <3> QED BY <1>0, <2>4, <3>1, DeleteRowSound DEF DeleteRow
    <2>5. CASE WriteModel(h)
        <3>1. /\ job[h].id \in ModelIds /\ job[h].row \in Model
              /\ job[h].id \in Models(db) =>
                    db.models[job[h].id].provider = job[h].row.provider
            BY <2>1, <2>5 DEF WriteModel, JobOK, Knows
        <3>2. db' = UpdateModel(db, job[h].id, job[h].row)
            BY <1>1, <2>5 DEF WriteModel
        <3> QED BY <1>0, <3>1, <3>2, UpdateModelSound DEF Instances
    <2> QED BY <1>1, <1>2, <2>2, <2>3, <2>4, <2>5 DEF Continue, ListInstances, LoadModels,
           Publish, Notify
<1>3. PICK h \in Handlers : Begin(h)
    BY <1>1, <1>2, OtherStep DEF Next, vars
<1>4. CASE \E t \in Known \cup Unknown, k \in Keys \cup {NoKey} : CreateProviderAPI(h, t, k)
    BY <1>4 DEF CreateProviderAPI, ProviderInstance
<1>5. CASE \E k \in SeenInstances, n \in ModelNames : CreateModelAPI(h, k, n)
    <2>1. PICK k \in SeenInstances, n \in ModelNames : CreateModelAPI(h, k, n)
        BY <1>5
    <2> DEFINE row == [provider |-> k, model |-> n, enabled |-> TRUE]
    <2>2. /\ db.nextModel <= MaxModels /\ db' = CreateModel(db, row)
          /\ row \in Model /\ row.provider < db.nextInstance
        BY <1>0, <2>1, SoundFields DEF CreateModelAPI, SeenInstances, InstanceIds, Model
    <2> HIDE DEF row
    <2> QED BY <1>0, <2>2, CreateModelSound DEF Instances
<1>6. CASE \E m \in SeenModels : DeleteModelAPI(h, m)
    <2>1. PICK m \in ModelIds : db' = DeleteModel(db, m)
        BY <1>0, <1>6, SoundFields DEF DeleteModelAPI, SeenModels, ModelIds
    <2> QED BY <1>0, <2>1, DeleteModelSound DEF Instances
<1> QED BY <1>1, <1>3, <1>4, <1>5, <1>6 DEF Begin, AdminReload, UpdateProviderAPI,
       DeleteProviderAPI, UpdateModelAPI

(* A deleted provider never comes back, whichever updates of it are still  *)
(* on their way, and no new one inherits models that were created for it   *)
(* (store.go:309-320).                                                     *)
THEOREM NoProviderReturns == Spec => DeletedStaysDeleted
<1>1. ASSUME IInv, [Next]_vars, NEW i \in InstanceIds,
             i \notin Instances(db), i \in Instances(db')
      PROVE  i = db.nextInstance /\ GetModelsByProvider(db', i) = {}
    <2>1. PICK p \in ProviderInstance : /\ db.nextInstance <= MaxInstances
                                        /\ db' = CreateProviderInstance(db, p, machine)
        BY <1>1, InstanceAppears
    <2>2. Sound(db) /\ machine \in Machines
        BY <1>1 DEF IInv
    <2>3. /\ db'.models = db.models
          /\ db'.instances = [db.instances EXCEPT ![db.nextInstance] = Sealed(p, machine)]
        BY <2>1, <2>2, CreateInstanceSound
    <2>4. i = db.nextInstance
        BY <1>1, <2>2, <2>3, SoundFields DEF Instances
    <2>5. \A m \in Models(db) : db.models[m].provider # i
        <3> SUFFICES ASSUME NEW m \in Models(db), db.models[m].provider = i PROVE FALSE
            OBVIOUS
        <3>1. i < db.nextInstance
            BY <2>2 DEF Sound
        <3> QED BY <2>2, <2>4, <3>1, SoundFields
    <2> QED BY <2>3, <2>4, <2>5 DEF GetModelsByProvider, Models
<1>2. IInv /\ [Next]_vars =>
          [\A i \in InstanceIds :
              i \notin Instances(db) /\ i \in Instances(db')
                 => i = db.nextInstance /\ GetModelsByProvider(db', i) = {}]_vars
    BY <1>1
<1> QED BY <1>2, Invariance, PTL DEF Spec, DeletedStaysDeleted

(* Deleting a provider takes no model with it that was there when the      *)
(* handler counted none: every one it sweeps was created since             *)
(* (providers.go:177-189).                                                 *)
THEOREM SweptModelsAreNew == Spec => CountedModelsKept
<1>1. ASSUME IInv, NEW h \in Handlers, NEW m \in ModelIds,
             SweepModels(h), m \in Models(db), m \notin Models(db')
      PROVE  m >= job[h].upto
    <2>1. Sound(db) /\ JobOK(job[h]) /\ Knows(job[h], db) /\ job[h].pc = "counted"
        BY <1>1 DEF IInv, HandlersOK, SweepModels
    <2>2. m \in GetModelsByProvider(db, job[h].id)
        BY <1>1, <2>1, SweepSound DEF SweepModels, JobOK
    <2>3. job[h].upto \in Nat /\ m \in Nat
        BY <2>1, StoreAssumption DEF JobOK, Job, ModelIds
    <2> QED BY <2>1, <2>2, <2>3 DEF Knows
<1>2. IInv /\ [Next]_vars =>
          [\A h \in Handlers, m \in ModelIds :
              SweepModels(h) /\ m \in Models(db) /\ m \notin Models(db')
                 => m >= job[h].upto]_vars
    BY <1>1
<1> QED BY <1>2, Invariance, PTL DEF Spec, CountedModelsKept

(* For any number of editors, rows, keys and hosts, an edit without a key  *)
(* changes the stored key only by putting back one that somebody else has  *)
(* changed since it was read, or by losing one that was stored under       *)
(* another host or user (providers.go:140-151, store.go:354-357).          *)
THEOREM EditKeepsKey == Spec => KeyKeptByEdit
<1> DEFINE Read(i) == GetProviderInstances(db, machine)[i]
           Kept(h, i) ==
               WriteProvider(h) /\ job[h].key = NoKey
               /\ KeyIn(db'.instances[i]) # KeyIn(db.instances[i])
                  => \/ Read(i) # job[h].row
                        /\ GetProviderInstances(db', machine)[i] = job[h].row
                     \/ /\ ~Legible(db.instances[i].key, machine)
                        /\ Read(i) = job[h].row /\ db'.instances[i].key = NoKey
<1>1. ASSUME IInv, NEW h \in Handlers, NEW i \in Instances(db) PROVE Kept(h, i)
    <2> SUFFICES ASSUME WriteProvider(h), job[h].key = NoKey,
                        KeyIn(db'.instances[i]) # KeyIn(db.instances[i])
                 PROVE  \/ Read(i) # job[h].row
                           /\ GetProviderInstances(db', machine)[i] = job[h].row
                        \/ /\ ~Legible(db.instances[i].key, machine)
                           /\ Read(i) = job[h].row /\ db'.instances[i].key = NoKey
        BY Zenon
    <2> DEFINE p == job[h].row
    <2>1. /\ Sound(db) /\ job[h].id \in InstanceIds /\ p \in ProviderInstance
          /\ db' = UpdateProviderInstance(db, job[h].id, p, machine)
          /\ machine \in Machines
        BY <1>1 DEF IInv, HandlersOK, JobOK, WriteProvider, Edited
    <2> HIDE DEF p
    <2>2. i \in Instances(db) /\ i \in InstanceIds /\ db.instances[i] \in InstanceRow
        BY <1>1, <2>1, SoundFields DEF Instances
    <2>3. /\ Instances(db') = Instances(db)
          /\ db'.instances[i] = Sealed(p, machine)
        BY <2>1, <2>2, UpdateInstanceSound
    <2>4. GetProviderInstances(db', machine)[i] = p
        BY <2>1, <2>2, <2>3, ReadBack DEF GetProviderInstances
    <2>5. CASE Read(i) # p
        BY <2>4, <2>5 DEF p
    <2>6. CASE Read(i) = p
        <3> DEFINE c == db.instances[i].key
        <3>1. p.key = Decrypt(c, machine) /\ c \in Ciphertext
            BY <2>2, <2>6 DEF GetProviderInstances, InstanceRow
        <3>2. /\ KeyIn(db.instances[i]) = IF c = NoKey THEN NoKey ELSE c.key
              /\ db'.instances[i].key = Encrypt(p.key, machine)
            BY <2>1, <2>3 DEF KeyIn, Sealed, ProviderInstance
        <3>3. KeyIn(db'.instances[i]) = p.key
            <4>1. CASE p.key = NoKey
                BY <3>2, <4>1 DEF KeyIn, Encrypt
            <4>2. CASE p.key # NoKey
                <5>1. p.key \in Keys /\ [key |-> p.key, machine |-> machine] # NoKey
                    BY <2>1, <4>2, StoreAssumption DEF ProviderInstance
                <5> QED BY <3>2, <4>2, <5>1 DEF KeyIn, Encrypt
            <4> QED BY <4>1, <4>2
        <3>4. ~Legible(c, machine)
            BY <3>1, <3>2, <3>3 DEF Decrypt, Legible
        <3>5. db'.instances[i].key = NoKey
            BY <3>1, <3>2, <3>4 DEF Decrypt, Encrypt
        <3> QED BY <2>6, <3>4, <3>5 DEF p
    <2> QED BY <2>5, <2>6
<1>2. IInv /\ [Next]_vars => [\A h \in Handlers, i \in Instances(db) : Kept(h, i)]_vars
    BY <1>1
<1> QED BY <1>2, Invariance, PTL DEF Spec, KeyKeptByEdit
-----------------------------------------------------------------------------
(* Handlers one after the other.  When none have overlapped and no client  *)
(* has gone away, the only handler at work knows how far the current       *)
(* configuration is behind the tables: not at all before its first write   *)
(* and after it has published, and while it reads, what it has read is     *)
(* what the tables hold.                                                   *)
InStep(j, d, k, providers) ==
    /\ j.pc \in {"update", "counted", "rewrite", "notify"} => providers = Load(d, k)
    /\ j.pc = "list" => j.cfg.providers = NoProviders
    /\ j.pc = "load" =>
          /\ j.todo \subseteq Instances(d)
          /\ \A i \in j.todo : j.rows[i] = GetProviderInstances(d, k)[i]
          /\ \A i \in InstanceIds \ j.todo : j.cfg.providers[i] = Load(d, k)[i]

UpToDate ==
    /\ IsFiniteSet(Busy)
    /\ Busy = {} => current.providers = Load(db, machine)
    /\ \A h \in Handlers : InStep(job[h], db, machine, current.providers)

LEMMA OnlyMember ==
    ASSUME NEW S, IsFiniteSet(S), ~(Cardinality(S) > 1), NEW g \in S, NEW h \in S
    PROVE  g = h
<1> SUFFICES ASSUME g # h PROVE FALSE
    OBVIOUS
<1>1. IsFiniteSet({g}) /\ Cardinality({g}) = 1
    BY FS_Singleton
<1>2. Cardinality({g} \cup {h}) = 2
    BY <1>1, FS_AddElement
<1>3. {g} \cup {h} \in SUBSET S
    OBVIOUS
<1>4. 2 <= Cardinality(S) /\ Cardinality(S) \in Nat
    BY <1>2, <1>3, FS_Subset, FS_CardinalityType
<1> QED BY <1>4

(* Busy stays finite: a step brings in one handler at most. *)
LEMMA BusyStaysFinite ==
    ASSUME IsFiniteSet(Busy), NEW h, NEW j, job' = [job EXCEPT ![h] = j],
           job \in [Handlers -> Job]
    PROVE  IsFiniteSet(Busy')
<1>1. Busy' \in SUBSET (Busy \cup {h})
    BY DEF Busy
<1>2. IsFiniteSet(Busy \cup {h})
    BY FS_AddElement
<1> QED BY <1>1, <1>2, FS_Subset

(* What Load makes of the tables does not depend on a provider without     *)
(* models.                                                                 *)
LEMMA CreatedNotLoaded ==
    ASSUME NEW d, Sound(d), NEW p \in ProviderInstance, NEW k \in Machines,
           d.nextInstance <= MaxInstances
    PROVE  LET e == CreateProviderInstance(d, p, k)
           IN  /\ Load(e, k) = Load(d, k)
               /\ Instances(d) \subseteq Instances(e)
               /\ \A i \in Instances(d) :
                     GetProviderInstances(e, k)[i] = GetProviderInstances(d, k)[i]
<1> DEFINE e == CreateProviderInstance(d, p, k)
           n == d.nextInstance
           row == Sealed(p, k)
<1>0. /\ e.models = d.models
      /\ e.instances = [d.instances EXCEPT ![n] = row]
      /\ d.instances \in [InstanceIds -> InstanceRow \cup {None}]
      /\ n \in InstanceIds /\ n \in Nat
    BY CreateInstanceSound, SoundFields DEF InstanceIds
<1>00. row \in InstanceRow
    BY KeyTypes
<1> HIDE DEF row
<1> HIDE DEF e
<1>1. n \notin Instances(d)
    BY <1>0 DEF Sound
<1>2. Instances(e) = Instances(d) \cup {n}
    BY <1>0, <1>00, NoneIsNoRow DEF Instances
<1>3. \A i : GetModelsByProvider(e, i) = GetModelsByProvider(d, i)
    BY <1>0 DEF GetModelsByProvider, Models
<1>4. GetModelsByProvider(d, n) = {}
    <2> SUFFICES ASSUME NEW m \in Models(d), d.models[m].provider = n PROVE FALSE
        BY DEF GetModelsByProvider
    <2>1. n < n
        BY DEF Sound
    <2> QED BY <1>0, <2>1
<1>5. \A i, r : LoadProvider(e, i, r) = LoadProvider(d, i, r)
    <2> SUFFICES ASSUME NEW i, NEW r PROVE LoadProvider(e, i, r) = LoadProvider(d, i, r)
        OBVIOUS
    <2>1. e.models = d.models /\ GetModelsByProvider(e, i) = GetModelsByProvider(d, i)
        BY <1>0, <1>3
    <2> QED BY <2>1 DEF LoadProvider
<1>6. \A r : LoadProvider(d, n, r) = None
    BY <1>4 DEF LoadProvider
<1>9. \A i \in InstanceIds \ {n} :
         GetProviderInstances(e, k)[i] = GetProviderInstances(d, k)[i]
    BY <1>0, <1>2 DEF GetProviderInstances
<1>7. ASSUME NEW i \in InstanceIds
      PROVE  (IF i \in Instances(e) THEN LoadProvider(e, i, GetProviderInstances(e, k)[i])
              ELSE None)
             = (IF i \in Instances(d) THEN LoadProvider(d, i, GetProviderInstances(d, k)[i])
                ELSE None)
    <2>1. CASE i = n
        BY <1>0, <1>1, <1>2, <1>5, <1>6, <2>1
    <2>2. CASE i # n
        BY <1>2, <1>5, <1>9, <2>2
    <2> QED BY <2>1, <2>2
<1>8. Load(e, k) = Load(d, k)
    BY <1>7 DEF Load
<1>10. \A i \in Instances(d) : i # n /\ i \in InstanceIds
    BY <1>1 DEF Instances
<1> QED BY <1>2, <1>8, <1>9, <1>10 DEF e

(* The handler at work moves on while the others are idle. *)
LEMMA OneMoves ==
    ASSUME IInv, IsFiniteSet(Busy),
           NEW h \in Handlers, \A g \in Handlers \ {h} : job[g].pc = "idle",
           NEW j, job' = [job EXCEPT ![h] = j],
           InStep(j, db', machine', current'.providers),
           j.pc = "idle" => current'.providers = Load(db', machine')
    PROVE  UpToDate'
<1>1. job \in [Handlers -> Job]
    BY DEF IInv, HandlersOK
<1>2. IsFiniteSet(Busy')
    BY <1>1, BusyStaysFinite
<1>3. Busy' = {} => current'.providers = Load(db', machine')
    BY <1>1 DEF Busy
<1>4. ASSUME NEW g \in Handlers PROVE InStep(job'[g], db', machine', current'.providers)
    <2>1. CASE g = h
        BY <1>1, <2>1
    <2>2. CASE g # h
        BY <1>1, <2>2 DEF InStep
    <2> QED BY <2>1, <2>2
<1> QED BY <1>2, <1>3, <1>4 DEF UpToDate

LEMMA UpToDateStep ==
    ASSUME IInv, UpToDate, ~Disturbed, ~Disturbed', [Next]_vars
    PROVE  UpToDate'
<1>0. /\ Sound(db) /\ HandlersOK /\ IsFiniteSet(Busy) /\ machine \in Machines
      /\ job \in [Handlers -> Job]
    BY DEF IInv, HandlersOK, UpToDate
<1>1. CASE UNCHANGED vars
    BY <1>1 DEF vars, UpToDate, Busy
<1>2. ASSUME NEW h \in Handlers, Begin(h) PROVE UpToDate'
    <2>0. Call(h) /\ job[h].pc = "idle" /\ current' = current /\ machine' = machine
        BY <1>2 DEF Begin, AdminReload, CreateProviderAPI, UpdateProviderAPI,
           DeleteProviderAPI, CreateModelAPI, UpdateModelAPI, DeleteModelAPI, Call
    <2>1. CASE \E t \in Known \cup Unknown, k \in Keys \cup {NoKey} : CreateProviderAPI(h, t, k)
        <3>1. PICK p \in ProviderInstance : /\ db.nextInstance <= MaxInstances
                                            /\ db' = CreateProviderInstance(db, p, machine)
                                            /\ job' = job
            BY <2>1 DEF CreateProviderAPI, ProviderInstance
        <3>2. /\ Load(db', machine') = Load(db, machine)
              /\ Instances(db) \subseteq Instances(db')
              /\ \A i \in Instances(db) : GetProviderInstances(db', machine')[i]
                                          = GetProviderInstances(db, machine)[i]
            BY <1>0, <2>0, <3>1, CreatedNotLoaded
        <3>3. ASSUME NEW g \in Handlers PROVE InStep(job[g], db', machine', current.providers)
            <4>1. InStep(job[g], db, machine, current.providers)
                BY DEF UpToDate
            <4> QED BY <3>2, <4>1 DEF InStep
        <3> QED BY <2>0, <3>1, <3>2, <3>3 DEF UpToDate, Busy
    <2>2. ASSUME NEW j, job' = [job EXCEPT ![h] = j], j.pc # "idle"
          PROVE  Busy = {}
        <3> SUFFICES ASSUME NEW g \in Busy PROVE FALSE
            OBVIOUS
        <3>1. g \in Busy' /\ h \in Busy' /\ g # h
            BY <1>0, <2>0, <2>2 DEF Busy
        <3>2. IsFiniteSet(Busy')
            BY <1>0, <2>2, BusyStaysFinite
        <3>3. ~(Cardinality(Busy') > 1)
            BY DEF Disturbed
        <3> QED BY <3>1, <3>2, <3>3, OnlyMember
    <2>3. ASSUME NEW j, job' = [job EXCEPT ![h] = j], j.pc # "idle",
                 current.providers = Load(db, machine) => InStep(j, db', machine', current.providers)
          PROVE  UpToDate'
        <3>1. Busy = {}
            BY <2>2, <2>3
        <3>2. current.providers = Load(db, machine) /\ \A g \in Handlers \ {h} : job[g].pc = "idle"
            BY <3>1 DEF UpToDate, Busy
        <3> QED BY <1>0, <2>0, <2>3, <3>2, OneMoves
    <2>4. \A settings, d, k, p : InStep(Reloading(settings), d, k, p)
                              /\ Reloading(settings).pc # "idle"
        BY DEF InStep, Reloading, Idle
    <2>5. CASE \/ AdminReload(h)
               \/ \E i \in SeenInstances, n \in ModelNames : CreateModelAPI(h, i, n)
               \/ \E m \in SeenModels : DeleteModelAPI(h, m)
        <3>1. \/ job' = [job EXCEPT ![h] = Reloading("default")]
              \/ job' = [job EXCEPT ![h] = Reloading(current.settings)]
            BY <2>5 DEF AdminReload, CreateModelAPI, DeleteModelAPI, ReloadAfter
        <3> QED BY <2>3, <2>4, <3>1
    <2>6. CASE \/ \E i \in SeenInstances, k \in Keys \cup {NoKey} : UpdateProviderAPI(h, i, k)
               \/ \E i \in SeenInstances : DeleteProviderAPI(h, i)
               \/ \E m \in SeenModels, n \in ModelNames, e \in BOOLEAN :
                     UpdateModelAPI(h, m, n, e)
        <3>1. PICK j : /\ job' = [job EXCEPT ![h] = j] /\ db' = db
                       /\ j.pc \in {"update", "counted", "rewrite"}
            <4>1. CASE \E i \in SeenInstances, k \in Keys \cup {NoKey} :
                           UpdateProviderAPI(h, i, k)
                <5>1. PICK i \in SeenInstances, k \in Keys \cup {NoKey} :
                               UpdateProviderAPI(h, i, k)
                    BY <4>1
                <5> DEFINE row == GetProviderInstances(db, machine)[i]
                <5>2. [Idle EXCEPT !.pc = "update", !.id = i, !.key = k, !.row = row].pc
                      = "update"
                    BY DEF Idle
                <5> QED BY <5>1, <5>2 DEF UpdateProviderAPI
            <4>2. CASE \E i \in SeenInstances : DeleteProviderAPI(h, i)
                <5>1. PICK i \in SeenInstances : DeleteProviderAPI(h, i)
                    BY <4>2
                <5>2. [Idle EXCEPT !.pc = "counted", !.id = i, !.upto = db.nextModel].pc
                      = "counted"
                    BY DEF Idle
                <5> QED BY <5>1, <5>2 DEF DeleteProviderAPI
            <4>3. CASE \E m \in SeenModels, n \in ModelNames, e \in BOOLEAN :
                           UpdateModelAPI(h, m, n, e)
                <5>1. PICK m \in SeenModels, n \in ModelNames, e \in BOOLEAN :
                               UpdateModelAPI(h, m, n, e)
                    BY <4>3
                <5> DEFINE row == [db.models[m] EXCEPT !.model = n, !.enabled = e]
                <5>2. [Idle EXCEPT !.pc = "rewrite", !.id = m, !.row = row].pc = "rewrite"
                    BY DEF Idle
                <5> QED BY <5>1, <5>2 DEF UpdateModelAPI
            <4> QED BY <2>6, <4>1, <4>2, <4>3
        <3>2. current.providers = Load(db, machine) => InStep(j, db', machine', current.providers)
            BY <2>0, <3>1 DEF InStep
        <3> QED BY <2>3, <3>1, <3>2
    <2> QED BY <1>2, <2>1, <2>5, <2>6 DEF Begin
<1>3. ASSUME NEW h \in Handlers, Continue(h) \/ ClientLeaves(h) \/ Leave(h)
      PROVE  UpToDate'
    <2>1. h \in Busy /\ \A g \in Handlers \ {h} : job[g].pc = "idle"
        <3>1. h \in Busy
            BY <1>3 DEF Busy, Continue, WriteProvider, SweepModels, DeleteRow, WriteModel,
               ListInstances, LoadModels, Publish, Notify, ClientLeaves, Leave
        <3>2. ~(Cardinality(Busy) > 1)
            BY DEF Disturbed
        <3>3. \A g \in Busy : g = h
            BY <1>0, <3>1, <3>2, OnlyMember
        <3> QED BY <3>1, <3>3 DEF Busy
    <2>2. InStep(job[h], db, machine, current.providers) /\ JobOK(job[h])
        BY <1>0 DEF UpToDate, HandlersOK
    <2>14. machine' = machine
        BY <1>3 DEF Continue, WriteProvider, SweepModels, DeleteRow, WriteModel,
           ListInstances, LoadModels, Publish, Notify, ClientLeaves, Leave
    <2>3. \A settings, d, k, p : InStep(Reloading(settings), d, k, p)
                              /\ Reloading(settings).pc # "idle"
        BY DEF InStep, Reloading, Idle
    <2>4. \A d, k, p : InStep(Idle, d, k, p)
        BY DEF InStep, Idle
    <2>5. ASSUME NEW j, job' = [job EXCEPT ![h] = j], InStep(j, db', machine', current'.providers),
                 j.pc = "idle" => current'.providers = Load(db', machine')
          PROVE  UpToDate'
        BY <1>0, <2>1, <2>5, OneMoves
    <2>6. CASE WriteProvider(h) \/ DeleteRow(h)
        BY <2>3, <2>5, <2>6 DEF WriteProvider, DeleteRow, ReloadAfter
    <2>7. CASE SweepModels(h)
        <3> DEFINE j == [job[h] EXCEPT !.pc = "modelsGone"]
        <3>1. job' = [job EXCEPT ![h] = j]
            BY <2>7 DEF SweepModels
        <3>2. j.pc = "modelsGone"
            BY <2>2 DEF JobOK, Job
        <3> HIDE DEF j
        <3>3. InStep(j, db', machine', current'.providers)
            BY <3>2 DEF InStep
        <3> QED BY <2>5, <3>1, <3>2, <3>3
    <2>8. CASE WriteModel(h)
        <3>1. CASE job' = [job EXCEPT ![h] = ReloadAfter(h)]
            BY <2>3, <2>5, <3>1 DEF ReloadAfter
        <3>2. CASE job' = [job EXCEPT ![h] = Idle] /\ db' = db
            <4>1. current'.providers = Load(db', machine')
                BY <2>2, <2>8, <2>14, <3>2 DEF WriteModel, InStep
            <4> QED BY <2>4, <2>5, <3>2, <4>1
        <3> QED BY <2>8, <3>1, <3>2 DEF WriteModel
    <2>9. CASE ListInstances(h)
        <3> DEFINE rows == GetProviderInstances(db, machine)
                   j == [job[h] EXCEPT !.pc = "load", !.rows = rows, !.todo = Instances(db)]
        <3>1. /\ job' = [job EXCEPT ![h] = j] /\ db' = db
              /\ job[h].cfg.providers = NoProviders
            BY <2>2, <2>9 DEF ListInstances, InStep
        <3>2. /\ j.pc = "load" /\ j.rows = rows /\ j.todo = Instances(db)
              /\ j.cfg.providers = NoProviders
            BY <2>2, <3>1 DEF JobOK, Job
        <3> HIDE DEF j
        <3>3. \A i \in InstanceIds \ j.todo : j.cfg.providers[i] = Load(db, machine)[i]
            BY <3>2 DEF NoProviders, Load
        <3> QED BY <2>5, <2>14, <3>1, <3>2, <3>3 DEF InStep
    <2>10. CASE LoadModels(h)
        <3>1. PICK i \in job[h].todo :
                  job' = [job EXCEPT ![h].todo = @ \ {i},
                                     ![h].cfg.providers[i] =
                                         LoadProvider(db, i, job[h].rows[i])]
            BY <2>10 DEF LoadModels
        <3> DEFINE p == [job[h].cfg.providers EXCEPT
                            ![i] = LoadProvider(db, i, job[h].rows[i])]
                   j == [job[h] EXCEPT !.todo = @ \ {i}, !.cfg = [@ EXCEPT !.providers = p]]
        <3>2. job' = [job EXCEPT ![h] = j]
            BY <1>0, <3>1 DEF Job
        <3>3. /\ job[h].cfg \in Config /\ job[h].cfg.providers \in Providers
              /\ job[h].todo \subseteq InstanceIds
            BY <2>2 DEF JobOK, Job, Config
        <3>4. /\ job[h].pc = "load"
              /\ job[h].todo \subseteq Instances(db)
              /\ \A k \in job[h].todo : job[h].rows[k] = GetProviderInstances(db, machine)[k]
              /\ \A k \in InstanceIds \ job[h].todo : job[h].cfg.providers[k] = Load(db, machine)[k]
            BY <2>2, <2>10 DEF LoadModels, InStep
        <3>5. p[i] = Load(db, machine)[i] /\ \A k \in InstanceIds \ {i} : p[k] = job[h].cfg.providers[k]
            <4>1. /\ i \in Instances(db) /\ i \in InstanceIds
                  /\ job[h].rows[i] = GetProviderInstances(db, machine)[i]
                BY <3>3, <3>4
            <4> QED BY <3>3, <4>1 DEF Load, Providers
        <3> HIDE DEF p
        <3>6. /\ j.pc = "load" /\ j.rows = job[h].rows /\ j.todo = job[h].todo \ {i}
              /\ j.cfg.providers = p
            BY <2>2, <3>3, <3>4 DEF JobOK, Job, Config
        <3> HIDE DEF j
        <3>7. db' = db
            BY <2>10 DEF LoadModels
        <3>8. \A k \in InstanceIds \ j.todo : j.cfg.providers[k] = Load(db, machine)[k]
            BY <3>4, <3>5, <3>6
        <3>9. InStep(j, db', machine', current'.providers)
            BY <2>14, <3>4, <3>6, <3>7, <3>8 DEF InStep
        <3> QED BY <2>5, <3>2, <3>6, <3>9
    <2>11. CASE Publish(h)
        <3> DEFINE j == [job[h] EXCEPT !.pc = "notify"]
        <3>1. /\ job' = [job EXCEPT ![h] = j] /\ current' = job[h].cfg /\ db' = db
            BY <2>11 DEF Publish
        <3>2. j.pc = "notify"
            BY <2>2 DEF JobOK, Job
        <3>3. job[h].cfg.providers = Load(db, machine)
            <4>1. job[h].cfg.providers \in [InstanceIds -> ProviderConfig \cup {None}]
                BY <2>2 DEF JobOK, Job, Config, Providers
            <4>2. \A i \in InstanceIds : job[h].cfg.providers[i] = Load(db, machine)[i]
                BY <2>2, <2>11 DEF Publish, InStep
            <4>3. Load(db, machine) = [i \in InstanceIds |-> Load(db, machine)[i]]
                BY DEF Load
            <4> QED BY <4>1, <4>2, <4>3
        <3> HIDE DEF j
        <3>4. InStep(j, db', machine', current'.providers)
            BY <2>14, <3>1, <3>2, <3>3 DEF InStep
        <3> QED BY <2>5, <3>1, <3>2, <3>4
    <2>12. CASE Notify(h)
        <3>1. current'.providers = Load(db', machine') /\ job' = [job EXCEPT ![h] = Idle]
            BY <2>2, <2>12, <2>14 DEF Notify, InStep
        <3> QED BY <2>4, <2>5, <3>1
    <2>13. CASE ClientLeaves(h) \/ Leave(h)
        <3>1. ~\E g \in Handlers : job[g].pc = "abandoned" \/ job'[g].pc = "abandoned"
            BY DEF Disturbed
        <3>2. ~Leave(h)
            BY <3>1 DEF Leave
        <3>3. job' # [job EXCEPT ![h] = [Idle EXCEPT !.pc = "abandoned"]]
            BY <1>0, <3>1 DEF Idle
        <3>4. /\ job[h].pc \in {"update", "counted", "rewrite"}
              /\ job' = [job EXCEPT ![h] = Idle] /\ db' = db /\ current' = current
            BY <2>13, <3>2, <3>3 DEF ClientLeaves
        <3>5. current'.providers = Load(db', machine')
            BY <2>2, <2>14, <3>4 DEF InStep
        <3> QED BY <2>4, <2>5, <3>4, <3>5
    <2> QED BY <1>3, <2>6, <2>7, <2>8, <2>9, <2>10, <2>11, <2>12, <2>13 DEF Continue
<1>4. CASE Receive
    BY <1>4 DEF Receive, UpToDate, Busy
<1>5. CASE Restart
    <2>1. Busy' = {}
        BY <1>5 DEF Restart, Busy, Idle
    <2>2. current'.providers = Load(db', machine')
        BY <1>5 DEF Restart
    <2>3. \A h \in Handlers : InStep(job'[h], db', machine', current'.providers)
        BY <1>5 DEF Restart, InStep, Idle
    <2> QED BY <2>1, <2>2, <2>3, FS_EmptySet DEF UpToDate
<1> QED BY <1>1, <1>2, <1>3, <1>4, <1>5 DEF Next

(* In every run in which no two handlers overlap and no client goes away,  *)
(* the configuration the gateway answers with is what it can read of the   *)
(* tables whenever nobody is at work, whatever was created, edited, deleted or    *)
(* reloaded and however often the process died (providers.go:14-23).       *)
THEOREM CurrentKeepsUp == Spec => CurrentInStep
<1>1. Init => UpToDate
    <2> SUFFICES ASSUME Init PROVE UpToDate
        OBVIOUS
    <2>1. Busy = {}
        BY DEF Init, Busy, Idle
    <2>2. \A h \in Handlers : InStep(job[h], db, machine, current.providers)
        BY DEF Init, InStep, Idle
    <2> QED BY <2>1, <2>2, FS_EmptySet DEF Init, UpToDate
<1>2. IInv /\ UpToDate /\ ~Disturbed /\ ~Disturbed' /\ [Next]_vars => UpToDate'
    BY UpToDateStep
<1>3. UpToDate => (Busy = {} => current.providers = Load(db, machine))
    BY DEF UpToDate
<1> QED BY <1>1, <1>2, <1>3, Invariance, PTL DEF Spec, CurrentInStep
-----------------------------------------------------------------------------
(* The way to the pool.  When nothing is dropped either, the channel ends  *)
(* with the configuration that is current, unless its publisher is still   *)
(* to offer it; an empty one has been applied.                             *)
Notifying(h) == job[h].pc = "notify"

Delivered ==
    /\ IsFiniteSet(Busy)
    /\ \A h \in Handlers : Notifying(h) => job[h].cfg = current
    /\ (\A h \in Handlers : ~Notifying(h)) =>
          IF changeCh = <<>> THEN pool = PoolOf(current.providers)
          ELSE changeCh[Len(changeCh)] = current

(* A step that publishes nothing and takes nothing from the channel.       *)
LEMMA DeliveredKept ==
    ASSUME Delivered, UNCHANGED <<current, changeCh, pool>>,
           job \in [Handlers -> Job], NEW h \in Handlers, NEW j,
           job' = [job EXCEPT ![h] = j], ~Notifying(h), j.pc # "notify"
    PROVE  Delivered'
<1>1. IsFiniteSet(Busy')
    BY BusyStaysFinite DEF Delivered
<1>2. \A g \in Handlers : Notifying(g)' <=> Notifying(g)
    BY DEF Notifying
<1>3. \A g \in Handlers : Notifying(g)' => job'[g] = job[g]
    BY DEF Notifying
<1> QED BY <1>1, <1>2, <1>3 DEF Delivered

LEMMA DeliveredStep ==
    ASSUME IInv, Delivered, ~(Disturbed \/ Dropping), [Next]_vars
    PROVE  Delivered'
<1>0. /\ HandlersOK /\ IsFiniteSet(Busy) /\ job \in [Handlers -> Job]
      /\ changeCh \in Seq(Config) /\ Len(changeCh) <= ChannelCap
    BY DEF IInv, HandlersOK, Delivered
<1>1. CASE UNCHANGED vars
    BY <1>1 DEF vars, Delivered, Busy, Notifying
<1>2. ASSUME NEW h \in Handlers, Begin(h) PROVE Delivered'
    <2>1. job[h].pc = "idle" /\ UNCHANGED <<current, changeCh, pool>>
        BY <1>2 DEF Begin, AdminReload, CreateProviderAPI, UpdateProviderAPI,
           DeleteProviderAPI, CreateModelAPI, UpdateModelAPI, DeleteModelAPI, Call
    <2>2. ~Notifying(h)
        BY <2>1 DEF Notifying
    <2>3. ASSUME NEW j, job' = [job EXCEPT ![h] = j], j.pc # "notify"
          PROVE  Delivered'
        BY <1>0, <2>1, <2>2, <2>3, DeliveredKept
    <2>4. \A settings : Reloading(settings).pc # "notify"
        BY DEF Reloading, Idle
    <2>5. CASE job' = job
        BY <2>1, <2>5 DEF Delivered, Busy, Notifying
    <2>6. CASE \/ job' = [job EXCEPT ![h] = Reloading("default")]
               \/ job' = [job EXCEPT ![h] = Reloading(current.settings)]
        BY <2>3, <2>4, <2>6
    <2>7. CASE \E i \in SeenInstances, k \in Keys \cup {NoKey} : UpdateProviderAPI(h, i, k)
        <3>1. PICK i \in SeenInstances, k \in Keys \cup {NoKey} : UpdateProviderAPI(h, i, k)
            BY <2>7
        <3> DEFINE row == GetProviderInstances(db, machine)[i]
        <3>2. [Idle EXCEPT !.pc = "update", !.id = i, !.key = k, !.row = row].pc # "notify"
            BY DEF Idle
        <3> QED BY <2>3, <3>1, <3>2 DEF UpdateProviderAPI
    <2>8. CASE \E i \in SeenInstances : DeleteProviderAPI(h, i)
        <3>1. PICK i \in SeenInstances : DeleteProviderAPI(h, i)
            BY <2>8
        <3>2. [Idle EXCEPT !.pc = "counted", !.id = i, !.upto = db.nextModel].pc # "notify"
            BY DEF Idle
        <3> QED BY <2>3, <3>1, <3>2 DEF DeleteProviderAPI
    <2>9. CASE \E m \in SeenModels, n \in ModelNames, e \in BOOLEAN : UpdateModelAPI(h, m, n, e)
        <3>1. PICK m \in SeenModels, n \in ModelNames, e \in BOOLEAN : UpdateModelAPI(h, m, n, e)
            BY <2>9
        <3> DEFINE row == [db.models[m] EXCEPT !.model = n, !.enabled = e]
        <3>2. [Idle EXCEPT !.pc = "rewrite", !.id = m, !.row = row].pc # "notify"
            BY DEF Idle
        <3> QED BY <2>3, <3>1, <3>2 DEF UpdateModelAPI
    <2> QED BY <1>2, <2>5, <2>6, <2>7, <2>8, <2>9 DEF Begin, AdminReload, CreateProviderAPI,
           CreateModelAPI, DeleteModelAPI, ReloadAfter
<1>3. ASSUME NEW h \in Handlers, Publish(h) PROVE Delivered'
    <2> DEFINE j == [job[h] EXCEPT !.pc = "notify"]
    <2>1. job' = [job EXCEPT ![h] = j] /\ current' = job[h].cfg
        BY <1>3 DEF Publish
    <2>2. j.pc = "notify" /\ j.cfg = job[h].cfg
        BY <1>0 DEF Job
    <2> HIDE DEF j
    <2>3. \A g \in Handlers \ {h} : job[g].pc = "idle"
        <3>1. h \in Busy
            BY <1>3 DEF Publish, Busy
        <3>2. \A g \in Busy : g = h
            BY <1>0, <3>1, OnlyMember DEF Disturbed
        <3> QED BY <3>2 DEF Busy
    <2>4. IsFiniteSet(Busy')
        BY <1>0, <2>1, BusyStaysFinite
    <2>5. \A g \in Handlers : Notifying(g)' <=> g = h
        BY <1>0, <2>1, <2>2, <2>3 DEF Notifying
    <2>6. job'[h].cfg = current'
        BY <1>0, <2>1, <2>2
    <2> QED BY <2>4, <2>5, <2>6 DEF Delivered
<1>4. ASSUME NEW h \in Handlers, Notify(h) PROVE Delivered'
    <2>1. /\ job[h].pc = "notify" /\ job' = [job EXCEPT ![h] = Idle]
          /\ changeCh' = Offer(job[h].cfg) /\ UNCHANGED <<current, pool>>
        BY <1>4 DEF Notify
    <2>2. \A g \in Handlers : ~Notifying(g)'
        <3>1. h \in Busy
            BY <2>1 DEF Busy
        <3>2. \A g \in Busy : g = h
            BY <1>0, <3>1, OnlyMember DEF Disturbed
        <3> QED BY <1>0, <2>1, <3>2 DEF Busy, Notifying, Idle
    <2>3. job[h].cfg = current /\ job[h].cfg \in Config
        BY <1>0, <2>1 DEF Delivered, Notifying, Job
    <2>4. Len(changeCh) < ChannelCap
        BY <1>0, <2>1, AdminAssumption DEF Dropping
    <2>5. changeCh' = Append(changeCh, current)
        BY <2>1, <2>3, <2>4 DEF Offer
    <2>6. changeCh' # <<>> /\ changeCh'[Len(changeCh')] = current'
        BY <1>0, <2>1, <2>3, <2>5
    <2>7. IsFiniteSet(Busy')
        BY <1>0, <2>1, BusyStaysFinite
    <2> QED BY <2>2, <2>6, <2>7 DEF Delivered
<1>5. ASSUME NEW h \in Handlers, Continue(h), ~Publish(h), ~Notify(h) PROVE Delivered'
    <2>1. job[h].pc # "notify" /\ UNCHANGED <<current, changeCh, pool>>
        BY <1>5 DEF Continue, WriteProvider, SweepModels, DeleteRow, WriteModel, ListInstances,
           LoadModels
    <2>2. job'[h].pc # "notify"
        <3>1. CASE LoadModels(h)
            BY <1>0, <3>1 DEF LoadModels, Job
        <3>2. CASE SweepModels(h) \/ ListInstances(h)
            BY <1>0, <3>2 DEF SweepModels, ListInstances, Job
        <3>3. Reloading(current.settings).pc # "notify" /\ Idle.pc # "notify"
            BY DEF Reloading, Idle
        <3>4. CASE WriteProvider(h) \/ DeleteRow(h) \/ WriteModel(h)
            <4>1. \/ job' = [job EXCEPT ![h] = Reloading(current.settings)]
                  \/ job' = [job EXCEPT ![h] = Idle]
                BY <3>4 DEF WriteProvider, DeleteRow, WriteModel, ReloadAfter
            <4> QED BY <1>0, <3>3, <4>1
        <3> QED BY <1>5, <3>1, <3>2, <3>4 DEF Continue
    <2>3. job' = [job EXCEPT ![h] = job'[h]]
        <3>1. CASE LoadModels(h)
            BY <1>0, <3>1 DEF LoadModels
        <3> QED BY <1>0, <1>5, <3>1 DEF Continue, WriteProvider, SweepModels, DeleteRow,
               WriteModel, ListInstances
    <2> QED BY <1>0, <2>1, <2>2, <2>3, DeliveredKept DEF Notifying
<1>6. ASSUME NEW h \in Handlers, ClientLeaves(h) \/ Leave(h) PROVE Delivered'
    <2>1. job[h].pc # "notify" /\ UNCHANGED <<current, changeCh, pool>>
        BY <1>6 DEF ClientLeaves, Leave
    <2>2. \/ job' = [job EXCEPT ![h] = Idle]
          \/ job' = [job EXCEPT ![h] = [Idle EXCEPT !.pc = "abandoned"]]
        BY <1>6 DEF ClientLeaves, Leave
    <2>3. Idle.pc # "notify" /\ [Idle EXCEPT !.pc = "abandoned"].pc # "notify"
        BY DEF Idle
    <2> QED BY <1>0, <2>1, <2>2, <2>3, DeliveredKept DEF Notifying
<1>7. CASE Receive
    <2>1. /\ changeCh # <<>> /\ pool' = PoolOf(Head(changeCh).providers)
          /\ changeCh' = Tail(changeCh) /\ UNCHANGED <<current, job>>
        BY <1>7 DEF Receive, ApplyChange
    <2>2. ASSUME changeCh[Len(changeCh)] = current
          PROVE  IF changeCh' = <<>> THEN pool' = PoolOf(current'.providers)
                 ELSE changeCh'[Len(changeCh')] = current'
        <3>0. Len(changeCh) \in Nat \ {0} /\ Len(changeCh') = Len(changeCh) - 1
            BY <1>0, <2>1
        <3>1. CASE Len(changeCh) = 1
            <4>1. changeCh' = <<>> /\ Head(changeCh) = current
                BY <1>0, <2>1, <2>2, <3>0, <3>1
            <4> QED BY <2>1, <4>1
        <3>2. CASE Len(changeCh) # 1
            <4>1. changeCh'[Len(changeCh')] = changeCh[Len(changeCh)]
                BY <1>0, <2>1, <3>0, <3>2
            <4>2. changeCh' # <<>>
                BY <3>0, <3>2
            <4> QED BY <2>1, <2>2, <4>1, <4>2
        <3> QED BY <3>1, <3>2
    <2> QED BY <2>1, <2>2 DEF Delivered, Notifying, Busy
<1>8. CASE Restart
    <2>1. Busy' = {} /\ \A h \in Handlers : ~Notifying(h)'
        BY <1>8 DEF Restart, Busy, Idle, Notifying
    <2>2. changeCh' = <<>> /\ pool' = PoolOf(current'.providers)
        BY <1>8 DEF Restart
    <2> QED BY <2>1, <2>2, FS_EmptySet DEF Delivered
<1> QED BY <1>1, <1>2, <1>3, <1>4, <1>5, <1>6, <1>7, <1>8 DEF Next

(* In every run in which moreover no change finds the channel full, a      *)
(* drained channel means that the pool routes to exactly the backends of   *)
(* the current configuration (reload.go:37-40).                            *)
THEOREM PoolKeepsUp == Spec => PoolInStep
<1>1. Init => Delivered
    <2> SUFFICES ASSUME Init PROVE Delivered
        OBVIOUS
    <2>1. Busy = {} /\ \A h \in Handlers : ~Notifying(h)
        BY DEF Init, Busy, Idle, Notifying
    <2> QED BY <2>1, FS_EmptySet DEF Init, Delivered
<1>2. IInv /\ Delivered /\ ~(Disturbed \/ Dropping) /\ [Next]_vars => Delivered'
    BY DeliveredStep
<1>3. Delivered => (Busy = {} /\ changeCh = <<>> => pool = PoolOf(current.providers))
    BY DEF Delivered, Busy, Notifying
<1> QED BY <1>1, <1>2, <1>3, Invariance, PTL DEF Spec, PoolInStep
=============================================================================
