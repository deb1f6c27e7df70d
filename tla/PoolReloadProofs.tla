--------------------------- MODULE PoolReloadProofs ---------------------------
(***************************************************************************)
(* The pool's bookkeeping across reloads, for any configuration, any       *)
(* number of requests, callbacks and reloads: every object has its key;    *)
(* the pool, the timers, the callbacks and the requests point to objects   *)
(* that were created; and what Replace carries over is what the old object *)
(* held.                                                                   *)
(***************************************************************************)
EXTENDS PoolReload, FiniteSetTheorems, TLAPS

-----------------------------------------------------------------------------
(* The order of the keys is one: every place is taken by one key.          *)
LEMMA KeysInOrder ==
    /\ Cardinality(BackendKeys) \in Nat
    /\ KeyIndex \in [BackendKeys -> 1..Cardinality(BackendKeys)]
    /\ \A j, k \in BackendKeys : KeyIndex[j] = KeyIndex[k] => j = k
    /\ \A o \in 1..Cardinality(BackendKeys) : \E k \in BackendKeys : KeyIndex[k] = o
<1> DEFINE n == Cardinality(BackendKeys)
<1>1. IsFiniteSet(BackendKeys) /\ n \in Nat
    BY ConstantsAssumption, FS_CardinalityType
<1>2. IsFiniteSet(1..n) /\ Cardinality(1..n) = n
    BY <1>1, FS_Interval
<1>3. PICK g : g \in Bijection(BackendKeys, 1..n)
    BY <1>1, <1>2, FS_SameCardinalityBij DEF ExistsBijection
<1>4. g \in [BackendKeys -> 1..n] /\ \A j, k \in BackendKeys : g[j] = g[k] => j = k
    BY <1>3 DEF Bijection, Injection, IsInjective
<1>5. /\ KeyIndex \in [BackendKeys -> 1..n]
      /\ \A j, k \in BackendKeys : KeyIndex[j] = KeyIndex[k] => j = k
    BY <1>4 DEF KeyIndex
<1>6. KeyIndex \in Injection(BackendKeys, 1..n)
    BY <1>5 DEF Injection, IsInjective
<1>7. KeyIndex \in Surjection(BackendKeys, 1..n)
    BY <1>1, <1>2, <1>6, FS_Injection
<1>8. \A o \in 1..n : \E k \in BackendKeys : KeyIndex[k] = o
    BY <1>7 DEF Surjection
<1> QED BY <1>1, <1>5, <1>8

(* The objects of a reload are new, one for each key, and the next ones in *)
(* the order of creation.                                                  *)
LEMMA NewObjects ==
    ASSUME NEW keys \in SUBSET BackendKeys, created \in Nat
    PROVE  /\ Cardinality(keys) \in Nat
           /\ \A k \in keys : NewObject(keys, k) \in (created + 1)..(created + Cardinality(keys))
           /\ \A j, k \in keys : NewObject(keys, j) = NewObject(keys, k) => j = k
           /\ \A o \in (created + 1)..(created + Cardinality(keys)) :
                 \E k \in keys : NewObject(keys, k) = o
<1> DEFINE Before(k) == {j \in keys : KeyIndex[j] <= KeyIndex[k]}
           n == Cardinality(keys)
           place == [k \in keys |-> Cardinality(Before(k))]
<1>1. IsFiniteSet(keys) /\ n \in Nat
    BY ConstantsAssumption, FS_Subset, FS_CardinalityType
<1>2. \A k \in keys : KeyIndex[k] \in Nat
    BY KeysInOrder
<1>3. ASSUME NEW k \in keys
      PROVE  IsFiniteSet(Before(k)) /\ Cardinality(Before(k)) \in 1..n
    <2>1. Before(k) \in SUBSET keys /\ k \in Before(k)
        BY <1>2
    <2>2. IsFiniteSet(Before(k)) /\ Cardinality(Before(k)) <= n
        BY <1>1, <2>1, FS_Subset
    <2>3. Cardinality(Before(k)) \in Nat
        BY <2>2, FS_CardinalityType
    <2>4. Cardinality(Before(k)) # 0
        BY <2>1, <2>2, FS_EmptySet
    <2> QED BY <1>1, <2>2, <2>3, <2>4
<1>4. ASSUME NEW j \in keys, NEW k \in keys, KeyIndex[j] < KeyIndex[k]
      PROVE  Cardinality(Before(j)) < Cardinality(Before(k))
    <2>1. Before(j) \in SUBSET Before(k) /\ k \in Before(k) /\ k \notin Before(j)
        BY <1>2, <1>4
    <2>2. /\ Cardinality(Before(j)) <= Cardinality(Before(k))
          /\ Cardinality(Before(k)) = Cardinality(Before(j)) => Before(k) = Before(j)
        BY <1>3, <2>1, FS_Subset
    <2>3. Cardinality(Before(j)) \in Nat /\ Cardinality(Before(k)) \in Nat
        BY <1>3
    <2> QED BY <2>1, <2>2, <2>3
<1>5. ASSUME NEW j \in keys, NEW k \in keys, j # k PROVE place[j] # place[k]
    <2>1. KeyIndex[j] < KeyIndex[k] \/ KeyIndex[k] < KeyIndex[j]
        BY <1>2, <1>5, KeysInOrder
    <2>2. Cardinality(Before(j)) \in Nat /\ Cardinality(Before(k)) \in Nat
        BY <1>3
    <2>3. Cardinality(Before(j)) # Cardinality(Before(k))
        BY <1>4, <2>1, <2>2
    <2> QED BY <2>3
<1>6. place \in Injection(keys, 1..n)
    <2>1. place \in [keys -> 1..n]
        BY <1>3
    <2> HIDE DEF place
    <2> QED BY <1>5, <2>1 DEF Injection, IsInjective
<1>7. place \in Surjection(keys, 1..n)
    <2>1. IsFiniteSet(1..n) /\ Cardinality(1..n) = n
        BY <1>1, FS_Interval
    <2> HIDE DEF place, n
    <2> QED BY <1>6, <2>1, FS_Injection DEF n
<1>8. \A k \in keys : NewObject(keys, k) = created + place[k] /\ place[k] \in 1..n
    BY <1>3 DEF NewObject
<1>9. \A i \in 1..n : \E k \in keys : place[k] = i
    BY <1>7 DEF Surjection
<1> HIDE DEF place, n
<1>10. \A k \in keys : NewObject(keys, k) \in (created + 1)..(created + n)
    BY <1>1, <1>8
<1>11. \A j, k \in keys : NewObject(keys, j) = NewObject(keys, k) => j = k
    BY <1>1, <1>5, <1>8
<1>12. ASSUME NEW o \in (created + 1)..(created + n) PROVE \E k \in keys : NewObject(keys, k) = o
    <2>1. o - created \in 1..n
        BY <1>1
    <2>2. PICK k \in keys : place[k] = o - created
        BY <1>9, <2>1
    <2> QED BY <1>1, <1>8, <2>2
<1> QED BY <1>1, <1>10, <1>11, <1>12 DEF n

-----------------------------------------------------------------------------
(* What the methods of a backend make of it. *)
LEMMA Methods ==
    ASSUME NEW b \in BackendModel
    PROVE  /\ MarkSuccess(b) \in BackendModel /\ MarkSuccess(b).status = b.status
           /\ MarkSuccess(b).consec = 0
           /\ MarkFailure(b) \in BackendModel /\ MarkFailure(b).status = b.status
           /\ MarkFailure(b).consec = b.consec + 1
           /\ MarkKeyInvalid(b) \in BackendModel /\ MarkKeyInvalid(b).status = "invalid"
           /\ MarkKeyInvalid(b).consec = b.consec
           /\ Cooled(b) \in BackendModel /\ Cooled(b).status = "cooldown"
           /\ Cooled(b).consec = b.consec
           /\ Recover(b) \in BackendModel
           /\ b.status = "invalid" => Recover(b) = b
           /\ b.status # "invalid" => Recover(b).consec = 0
<1> USE DEF BackendModel, Status
<1>1. MarkSuccess(b) \in BackendModel /\ MarkSuccess(b).status = b.status
      /\ MarkSuccess(b).consec = 0
    BY DEF MarkSuccess
<1>2. MarkFailure(b) \in BackendModel /\ MarkFailure(b).status = b.status
      /\ MarkFailure(b).consec = b.consec + 1
    BY DEF MarkFailure
<1>3. MarkKeyInvalid(b) \in BackendModel /\ MarkKeyInvalid(b).status = "invalid"
      /\ MarkKeyInvalid(b).consec = b.consec
    BY DEF MarkKeyInvalid
<1>4. Cooled(b) \in BackendModel /\ Cooled(b).status = "cooldown"
      /\ Cooled(b).consec = b.consec
    <2>1. Remaining(0) \in Nat
        BY DEF Remaining
    <2> QED BY <2>1 DEF Cooled, EnterCooldown
<1>5. Recover(b) \in BackendModel /\ (b.status = "invalid" => Recover(b) = b)
      /\ (b.status # "invalid" => Recover(b).consec = 0)
    BY DEF Recover
<1> QED BY <1>1, <1>2, <1>3, <1>4, <1>5

(* The part of the state that only a reload changes the shape of. *)
ObjectRecord == [key : BackendKeys \cup {None}, model : BackendModel]

RequestRecord == [pc : RequestPc, obj : Objects \cup {None}]
CallbackRecord == [pc : CallbackPc, obj : Objects \cup {None}]

(* A step of a request or of a callback writes one object's model. *)
Writes(o, m) == object' = [object EXCEPT ![o].model = m] /\ UNCHANGED <<pool, created>>

(* Whoever holds an object holds one that was created. *)
HeldAfter ==
    /\ req' \in [Requests -> RequestRecord]
    /\ \A r \in Requests : req'[r].pc # "idle" => req'[r].obj \in 1..created
    /\ callback' \in [Callbacks -> CallbackRecord]
    /\ \A c \in Callbacks : callback'[c].pc # "free" => callback'[c].obj \in 1..created
    /\ timers' \in [BackendKeys -> Objects \cup {None}]
    /\ \A k \in BackendKeys : timers'[k] # None => /\ timers'[k] <= created
                                                   /\ object[timers'[k]].key = k

LEMMA WriteKeepsType ==
    ASSUME TypeOK, NEW o \in Objects, NEW m \in BackendModel, Writes(o, m), HeldAfter,
           streak' \in [BackendKeys -> 0..MaxConsec \cup {None}]
    PROVE  TypeOK'
<1>1. object \in [Objects -> ObjectRecord]
    BY DEF TypeOK, ObjectRecord
<1>2. /\ object' \in [Objects -> ObjectRecord]
      /\ \A p \in Objects : object'[p].key = object[p].key
    BY <1>1 DEF Writes, ObjectRecord
<1>3. \A p \in Objects : p <= created' <=> object'[p].key # None
    BY <1>2 DEF TypeOK, Writes
<1>4. \A k \in BackendKeys : pool'[k] # None => pool'[k] <= created' /\ object'[pool'[k]].key = k
    BY <1>2 DEF TypeOK, Writes, Pooled
<1>5. \A k \in BackendKeys : timers'[k] # None => timers'[k] <= created' /\ object'[timers'[k]].key = k
    BY <1>2 DEF Writes, HeldAfter
<1>6. /\ req' \in [Requests -> RequestRecord] /\ callback' \in [Callbacks -> CallbackRecord]
      /\ timers' \in [BackendKeys -> Objects \cup {None}]
      /\ \A r \in Requests : req'[r].pc # "idle" => req'[r].obj \in 1..created'
      /\ \A c \in Callbacks : callback'[c].pc # "free" => callback'[c].obj \in 1..created'
    BY DEF HeldAfter, Writes
<1>7. created' \in 0..MaxObjects /\ pool' \in [BackendKeys -> Objects \cup {None}]
    BY DEF TypeOK, Writes
<1> QED BY <1>2, <1>3, <1>4, <1>5, <1>6, <1>7
        DEF TypeOK, ObjectRecord, RequestRecord, CallbackRecord, Pooled

(* A step that writes no object. *)
LEMMA HeldKeepsType ==
    ASSUME TypeOK, HeldAfter, UNCHANGED <<object, pool, created, streak>>
    PROVE  TypeOK'
<1> QED BY DEF TypeOK, HeldAfter, Pooled, RequestRecord, CallbackRecord

(* What is held, and what a step leaves alone stays held. *)
LEMMA Held ==
    ASSUME TypeOK
    PROVE  /\ created \in Nat /\ 1..created \subseteq Objects
           /\ req \in [Requests -> RequestRecord] /\ callback \in [Callbacks -> CallbackRecord]
           /\ \A r \in Requests : req[r].pc # "idle" => req[r].obj \in 1..created
           /\ \A c \in Callbacks : callback[c].pc # "free" => callback[c].obj \in 1..created
           /\ \A o \in 1..created : /\ object[o] \in ObjectRecord
                                    /\ object[o].key \in BackendKeys
                                    /\ object[o].model \in BackendModel
           /\ UNCHANGED <<req, callback, timers>> => HeldAfter
<1>1. created \in Nat /\ 1..created \subseteq Objects
    BY ConstantsAssumption DEF TypeOK, Objects
<1>2. \A o \in 1..created : object[o] \in ObjectRecord /\ object[o].key \in BackendKeys
                            /\ object[o].model \in BackendModel
    BY <1>1 DEF TypeOK, ObjectRecord
<1> QED BY <1>1, <1>2 DEF TypeOK, HeldAfter, RequestRecord, CallbackRecord

-----------------------------------------------------------------------------
LEMMA InitType == Init => TypeOK
<1> SUFFICES ASSUME Init PROVE TypeOK
    OBVIOUS
<1> DEFINE n == Cardinality(BackendKeys)
<1>1. /\ n \in Nat /\ n <= MaxObjects /\ MaxObjects \in Nat /\ MaxConsec \in Nat
      /\ None \notin Objects /\ None \notin BackendKeys
      /\ created = n /\ pool = KeyIndex
    BY KeysInOrder, ConstantsAssumption DEF Init
<1>2. /\ pool \in [BackendKeys -> 1..n]
      /\ \A j, k \in BackendKeys : pool[j] = pool[k] => j = k
      /\ \A o \in 1..n : \E k \in BackendKeys : pool[k] = o
    BY <1>1, KeysInOrder
<1> HIDE DEF n
<1>3. pool \in [BackendKeys -> Objects]
    BY <1>1, <1>2 DEF Objects
<1>4. \A o \in Objects : IF o <= created THEN /\ object[o].key \in BackendKeys
                                               /\ pool[object[o].key] = o
                         ELSE object[o].key = None
    BY <1>1, <1>2 DEF Init, Objects
<1>5. NewBackendModel \in BackendModel
    BY DEF NewBackendModel, BackendModel, Status
<1>6. object \in [Objects -> ObjectRecord]
    <2>1. \A o \in Objects :
             (IF o <= created THEN CHOOSE k \in BackendKeys : pool[k] = o ELSE None)
                \in BackendKeys \cup {None}
        <3>1. ASSUME NEW o \in Objects, o <= created
              PROVE  (CHOOSE k \in BackendKeys : pool[k] = o) \in BackendKeys
            <4>1. \E k \in BackendKeys : pool[k] = o
                BY <1>1, <1>2, <3>1 DEF Objects
            <4> QED BY <4>1
        <3> QED BY <3>1
    <2> QED BY <1>5, <2>1 DEF Init, ObjectRecord
<1>7. \A k \in BackendKeys : pool[k] <= created /\ object[pool[k]].key = k
    BY <1>1, <1>2, <1>3, <1>4
<1>8. \A o \in Objects : o <= created <=> object[o].key # None
    BY <1>1, <1>4
<1>9. /\ pool \in [BackendKeys -> Objects \cup {None}]
      /\ timers \in [BackendKeys -> Objects \cup {None}]
      /\ req \in [Requests -> RequestRecord]
      /\ callback \in [Callbacks -> CallbackRecord]
    BY <1>3 DEF Init, RequestRecord, CallbackRecord, NoRequest, NoCallback, RequestPc, CallbackPc
<1>10. created \in 0..MaxObjects /\ streak \in [BackendKeys -> 0..MaxConsec \cup {None}]
    BY <1>1 DEF Init
<1>11. /\ \A k \in BackendKeys : timers[k] # None => timers[k] <= created /\ object[timers[k]].key = k
       /\ \A r \in Requests : req[r].pc # "idle" => req[r].obj \in 1..created
       /\ \A c \in Callbacks : callback[c].pc # "free" => callback[c].obj \in 1..created
    BY DEF Init, NoRequest, NoCallback
<1> QED BY <1>6, <1>7, <1>8, <1>9, <1>10, <1>11 DEF TypeOK, ObjectRecord, Pooled,
                                                         RequestRecord, CallbackRecord
-----------------------------------------------------------------------------
(* What an answer does, as the proofs see it: it writes one object, which  *)
(* was the request's, cools it only in leaving a timer to arm, and moves   *)
(* its counter as it moves the history.                                    *)
AnyAnswer(r) == Succeeds(r) \/ StreamEnds(r) \/ KeyRejected(r) \/ RateLimited(r) \/ Fails(r)

StatusAfter(r, m) ==
    \/ m.status \in {"invalid", Asked(r).status}
    \/ m.status = "cooldown" /\ req'[r].pc = "marked"

CountAfter(r, m) ==
    LET row == streak[Key(req[r].obj)]
    IN  \/ streak' = streak /\ (row = None \/ m.consec = Asked(r).consec)
        \/ RowIs(r, 0) /\ m.consec = 0
        \/ row # None /\ row < MaxConsec /\ RowIs(r, row + 1) /\ m.consec = Asked(r).consec + 1

LEMMA AnswerWrites ==
    ASSUME TypeOK, NEW r \in Requests, AnyAnswer(r)
    PROVE  /\ req[r].pc = "inflight" /\ req[r].obj \in 1..created
           /\ req' = [req EXCEPT ![r] = req'[r]] /\ req'[r] \in {NoRequest, Marked(r)}
           /\ UNCHANGED <<timers, callback>>
           /\ \E m \in BackendModel :
                 Writes(req[r].obj, m) /\ StatusAfter(r, m) /\ CountAfter(r, m)
<1> DEFINE o == req[r].obj
           b == Asked(r)
<1>1. /\ req[r].pc = "inflight" /\ req' = [req EXCEPT ![r] = req'[r]]
      /\ req'[r] \in {NoRequest, Marked(r)} /\ UNCHANGED <<timers, callback, pool, created>>
    <2>1. ASSUME NEW m, NEW n, Answered(r, m, n)
          PROVE  /\ req[r].pc = "inflight" /\ req' = [req EXCEPT ![r] = req'[r]]
                 /\ req'[r] = n /\ UNCHANGED <<timers, callback, pool, created>>
        BY <2>1 DEF Answered, TypeOK
    <2> QED BY <2>1 DEF AnyAnswer, Succeeds, StreamEnds, KeyRejected, RateLimited, Fails
<1>2. o \in 1..created
    BY <1>1, Held
<1>3. b \in BackendModel
    BY <1>2, Held DEF Asked, Model
<1>4. ASSUME NEW m \in BackendModel, NEW n, Answered(r, m, n)
      PROVE  Writes(o, m) /\ req'[r] = n
    BY <1>4 DEF Answered, Writes, TypeOK
<1>5. Marked(r).pc = "marked"
    BY DEF Marked, TypeOK
<1>6. \E m \in BackendModel : Writes(o, m) /\ StatusAfter(r, m) /\ CountAfter(r, m)
    <2>1. CASE Succeeds(r)
        <3>1. MarkSuccess(b) \in BackendModel /\ MarkSuccess(b).status = b.status
              /\ MarkSuccess(b).consec = 0
            BY <1>3, Methods
        <3>2. Writes(o, MarkSuccess(b)) /\ RowIs(r, 0)
            BY <2>1, <3>1, <1>4 DEF Succeeds
        <3> QED BY <3>1, <3>2 DEF StatusAfter, CountAfter
    <2>2. CASE StreamEnds(r)
        <3>1. Writes(o, b) /\ streak' = streak
            BY <2>2, <1>3, <1>4 DEF StreamEnds
        <3> QED BY <1>3, <3>1 DEF StatusAfter, CountAfter
    <2>3. CASE KeyRejected(r)
        <3>1. MarkKeyInvalid(b) \in BackendModel /\ MarkKeyInvalid(b).status = "invalid"
              /\ MarkKeyInvalid(b).consec = b.consec
            BY <1>3, Methods
        <3>2. Writes(o, MarkKeyInvalid(b)) /\ streak' = streak
            BY <2>3, <3>1, <1>4 DEF KeyRejected
        <3> QED BY <3>1, <3>2 DEF StatusAfter, CountAfter
    <2>4. CASE RateLimited(r)
        <3>1. Cooled(b) \in BackendModel /\ Cooled(b).status = "cooldown"
              /\ Cooled(b).consec = b.consec
            BY <1>3, Methods
        <3>2. Writes(o, Cooled(b)) /\ req'[r] = Marked(r) /\ streak' = streak
            BY <2>4, <3>1, <1>4 DEF RateLimited
        <3> QED BY <1>5, <3>1, <3>2 DEF StatusAfter, CountAfter
    <2>5. CASE Fails(r)
        <3> DEFINE failed == MarkFailure(b)
        <3>1. failed \in BackendModel /\ failed.status = b.status /\ failed.consec = b.consec + 1
            BY <1>3, Methods
        <3>2. Cooled(failed) \in BackendModel /\ Cooled(failed).status = "cooldown"
              /\ Cooled(failed).consec = failed.consec
            BY <3>1, Methods
        <3>3. ASSUME NEW m, m.consec = b.consec + 1 PROVE CountAfter(r, m)
            <4> DEFINE row == streak[Key(o)]
            <4>1. IF row = None THEN streak' = streak ELSE row < MaxConsec /\ RowIs(r, row + 1)
                BY <2>5 DEF Fails
            <4> QED BY <3>3, <4>1 DEF CountAfter
        <3>4. Answered(r, failed, NoRequest) \/ Answered(r, Cooled(failed), Marked(r))
            BY <2>5 DEF Fails
        <3>5. CASE Answered(r, failed, NoRequest)
            <4>1. Writes(o, failed)
                BY <1>4, <3>1, <3>5
            <4> QED BY <3>1, <3>3, <4>1 DEF StatusAfter
        <3>6. CASE Answered(r, Cooled(failed), Marked(r))
            <4>1. Writes(o, Cooled(failed)) /\ req'[r] = Marked(r)
                BY <1>4, <3>2, <3>6
            <4>2. CountAfter(r, Cooled(failed))
                BY <3>1, <3>2, <3>3
            <4> QED BY <1>5, <3>2, <4>1, <4>2 DEF StatusAfter
        <3> QED BY <3>4, <3>5, <3>6
    <2> QED BY <2>1, <2>2, <2>3, <2>4, <2>5 DEF AnyAnswer
<1> QED BY <1>1, <1>2, <1>6

(* What a recovery writes. *)
AnyRecovery ==
    (\E c \in Callbacks : RecoverBackend(c)) \/ (\E k \in BackendKeys : AdminRecover(k))

LEMMA RecoveryWrites ==
    ASSUME TypeOK, AnyRecovery
    PROVE  /\ HeldAfter /\ UNCHANGED <<pool, created>>
           /\ \E o \in 1..created : Recovers(o)
<1>1. CASE \E c \in Callbacks : RecoverBackend(c)
    <2>1. PICK c \in Callbacks : RecoverBackend(c)
        BY <1>1
    <2>2. callback[c].obj \in 1..created
        BY <2>1, Held DEF RecoverBackend
    <2>3. callback' \in [Callbacks -> CallbackRecord]
          /\ \A d \in Callbacks : callback'[d].pc # "free" => callback'[d].obj \in 1..created
        BY <2>1, <2>2, Held DEF RecoverBackend, CallbackRecord, CallbackPc
    <2>4. UNCHANGED <<pool, timers, req, created>> /\ Recovers(callback[c].obj)
        BY <2>1 DEF RecoverBackend
    <2>5. HeldAfter
        BY <2>3, <2>4 DEF HeldAfter, TypeOK, RequestRecord
    <2> QED BY <2>2, <2>4, <2>5
<1>2. CASE \E k \in BackendKeys : AdminRecover(k)
    <2>1. PICK k \in BackendKeys : AdminRecover(k)
        BY <1>2
    <2>2. pool[k] \in 1..created
        BY <2>1 DEF AdminRecover, TypeOK, Pooled, Objects
    <2>3. HeldAfter
        BY <2>1, Held DEF AdminRecover
    <2> QED BY <2>1, <2>2, <2>3 DEF AdminRecover
<1> QED BY <1>1, <1>2 DEF AnyRecovery

(* The steps that arm, fire and end timers write no object.                *)
AnyTimer ==
    \/ \E r \in Requests : ArmTimer(r)
    \/ \E c \in Callbacks : DropTimer(c) \/ \E k \in BackendKeys : TimerFires(k, c)
    \/ \E r \in Requests, k \in BackendKeys : Send(r, k)

LEMMA TimerWrites ==
    ASSUME TypeOK, AnyTimer
    PROVE  HeldAfter /\ UNCHANGED <<object, pool, created, streak>>
<1> USE DEF RequestRecord, CallbackRecord, RequestPc, CallbackPc
<1>1. ASSUME NEW r \in Requests, ArmTimer(r)
      PROVE  HeldAfter /\ UNCHANGED <<object, pool, created, streak>>
    <2> DEFINE o == req[r].obj
    <2>1. o \in 1..created /\ object[o].key \in BackendKeys
        BY <1>1, Held DEF ArmTimer
    <2>2. /\ timers' \in [BackendKeys -> Objects \cup {None}]
          /\ \A k \in BackendKeys :
                timers'[k] # None => timers'[k] <= created /\ object[timers'[k]].key = k
        BY <1>1, <2>1, Held DEF ArmTimer, Register, Key, TypeOK
    <2>3. /\ req' \in [Requests -> RequestRecord]
          /\ \A q \in Requests : req'[q].pc # "idle" => req'[q].obj \in 1..created
        BY <1>1, Held DEF ArmTimer, NoRequest
    <2> QED BY <1>1, <2>2, <2>3, Held DEF ArmTimer, HeldAfter
<1>2. ASSUME NEW c \in Callbacks, DropTimer(c)
      PROVE  HeldAfter /\ UNCHANGED <<object, pool, created, streak>>
    <2>1. /\ timers' \in [BackendKeys -> Objects \cup {None}]
          /\ \A k \in BackendKeys :
                timers'[k] # None => timers'[k] <= created /\ object[timers'[k]].key = k
        BY <1>2 DEF DropTimer, TypeOK
    <2>2. /\ callback' \in [Callbacks -> CallbackRecord]
          /\ \A d \in Callbacks : callback'[d].pc # "free" => callback'[d].obj \in 1..created
        BY <1>2, Held DEF DropTimer, NoCallback
    <2> QED BY <1>2, <2>1, <2>2, Held DEF DropTimer, HeldAfter
<1>3. ASSUME NEW c \in Callbacks, NEW k \in BackendKeys, TimerFires(k, c)
      PROVE  HeldAfter /\ UNCHANGED <<object, pool, created, streak>>
    <2>1. timers[k] \in 1..created /\ timers[k] \in Objects
        BY <1>3, Held DEF TimerFires, TypeOK, Objects
    <2>2. /\ timers' \in [BackendKeys -> Objects \cup {None}]
          /\ \A j \in BackendKeys :
                timers'[j] # None => timers'[j] <= created /\ object[timers'[j]].key = j
        BY <1>3 DEF TimerFires, TypeOK
    <2>3. /\ callback' \in [Callbacks -> CallbackRecord]
          /\ \A d \in Callbacks : callback'[d].pc # "free" => callback'[d].obj \in 1..created
        BY <1>3, <2>1, Held DEF TimerFires
    <2> QED BY <1>3, <2>2, <2>3, Held DEF TimerFires, HeldAfter
<1>4. ASSUME NEW r \in Requests, NEW k \in BackendKeys, Send(r, k)
      PROVE  HeldAfter /\ UNCHANGED <<object, pool, created, streak>>
    <2>1. pool[k] \in 1..created /\ pool[k] \in Objects
        BY <1>4 DEF Send, TypeOK, Pooled, Objects
    <2>2. /\ req' \in [Requests -> RequestRecord]
          /\ \A q \in Requests : req'[q].pc # "idle" => req'[q].obj \in 1..created
        BY <1>4, <2>1, Held DEF Send
    <2> QED BY <1>4, <2>2, Held DEF Send, HeldAfter, TypeOK
<1> QED BY <1>1, <1>2, <1>3, <1>4 DEF AnyTimer

(* Every step is one of these, or a reload.                                *)
LEMMA Steps ==
    ASSUME Next
    PROVE  \/ \E r \in Requests : AnyAnswer(r)
           \/ AnyRecovery
           \/ AnyTimer
           \/ \E keys \in SUBSET BackendKeys : Replace(keys)
<1> QED BY DEF Next, AnyAnswer, AnyRecovery, AnyTimer

-----------------------------------------------------------------------------
LEMMA RequestType == ASSUME TypeOK, NEW r \in Requests, AnyAnswer(r) PROVE TypeOK'
<1>1. /\ req[r].pc = "inflight" /\ req[r].obj \in 1..created
      /\ req' = [req EXCEPT ![r] = req'[r]] /\ req'[r] \in {NoRequest, Marked(r)}
      /\ UNCHANGED <<timers, callback>>
    BY AnswerWrites
<1>2. PICK m \in BackendModel :
         Writes(req[r].obj, m) /\ StatusAfter(r, m) /\ CountAfter(r, m)
    BY AnswerWrites
<1>3. req[r] \in RequestRecord /\ object[req[r].obj].key \in BackendKeys /\ req[r].obj \in Objects
    BY <1>1, Held
<1>4. NoRequest \in RequestRecord /\ Marked(r) \in RequestRecord
      /\ NoRequest.pc = "idle" /\ Marked(r).obj = req[r].obj
    BY <1>3 DEF NoRequest, Marked, RequestRecord, RequestPc
<1>5. /\ req' \in [Requests -> RequestRecord]
      /\ \A q \in Requests : req'[q].pc # "idle" => req'[q].obj \in 1..created
    BY <1>1, <1>4, Held
<1>6. HeldAfter
    BY <1>1, <1>5, Held DEF HeldAfter, TypeOK
<1>7. streak' \in [BackendKeys -> 0..MaxConsec \cup {None}]
    <2>1. MaxConsec \in Nat /\ None \notin Nat
        BY ConstantsAssumption
    <2>2. ASSUME NEW n \in 0..MaxConsec, RowIs(r, n)
          PROVE  streak' \in [BackendKeys -> 0..MaxConsec \cup {None}]
        BY <1>3, <2>2 DEF RowIs, Key, TypeOK
    <2>3. streak[Key(req[r].obj)] \in 0..MaxConsec \cup {None}
        BY <1>3 DEF TypeOK, Key
    <2> DEFINE row == streak[Key(req[r].obj)]
    <2>4. row # None /\ row < MaxConsec => row + 1 \in 0..MaxConsec
        BY <2>1, <2>3
    <2>5. 0 \in 0..MaxConsec
        BY <2>1
    <2>6. streak' = streak \/ RowIs(r, 0) \/ (row # None /\ row < MaxConsec /\ RowIs(r, row + 1))
        BY <1>2 DEF CountAfter
    <2> HIDE DEF row
    <2> QED BY <2>2, <2>4, <2>5, <2>6 DEF TypeOK
<1> QED BY <1>2, <1>3, <1>6, <1>7, WriteKeepsType

LEMMA RecoveryType == ASSUME TypeOK, AnyRecovery PROVE TypeOK'
<1>1. HeldAfter /\ UNCHANGED <<pool, created>>
    BY RecoveryWrites
<1>2. PICK o \in 1..created : Recovers(o)
    BY RecoveryWrites
<1>3. o \in Objects /\ object[o] \in ObjectRecord /\ object[o].model \in BackendModel
      /\ object[o].key \in BackendKeys
    BY Held
<1>4. Recover(object[o].model) \in BackendModel
    BY <1>3, Methods
<1>5. Writes(o, Recover(object[o].model))
    BY <1>1, <1>2 DEF Writes, Recovers
<1>6. streak' \in [BackendKeys -> 0..MaxConsec \cup {None}]
    <2>1. 0 \in 0..MaxConsec
        BY ConstantsAssumption
    <2> QED BY <1>2, <1>3, <2>1 DEF TypeOK, Recovers, Key
<1> QED BY <1>1, <1>3, <1>4, <1>5, <1>6, WriteKeepsType

(* The new pool and the objects it consists of. *)
CreatedAfter == created \in Nat /\ created' \in 0..MaxObjects /\ created <= created'
PooledAfter(keys) ==
    /\ \A k \in keys : pool'[k] \in Objects /\ pool'[k] > created /\ pool'[k] <= created'
    /\ \A k \in BackendKeys \ keys : pool'[k] = None
MadeAfter(keys) ==
    \A k \in keys : object'[pool'[k]].key = k /\ object'[pool'[k]].model = Carried(k)
NewAfter(keys) == \A o \in Objects : o > created /\ o <= created' => \E k \in keys : pool'[k] = o
OldAfter == \A o \in Objects : ~(o > created /\ o <= created') => object'[o] = object[o]
ShapeAfter == pool' \in [BackendKeys -> Objects \cup {None}] /\ object' \in [Objects -> ObjectRecord]

LEMMA ReplaceObjects ==
    ASSUME TypeOK, NEW keys \in SUBSET BackendKeys, Replace(keys)
    PROVE  /\ CreatedAfter /\ PooledAfter(keys) /\ MadeAfter(keys)
           /\ NewAfter(keys) /\ OldAfter /\ ShapeAfter
<1> DEFINE n == Cardinality(keys)
<1>0. created \in Nat /\ MaxObjects \in Nat /\ n \in Nat /\ created + n <= MaxObjects
      /\ created' = created + n
    BY NewObjects, ConstantsAssumption DEF TypeOK, Replace
<1>1. /\ \A k \in keys : NewObject(keys, k) \in (created + 1)..(created + n)
      /\ \A j, k \in keys : NewObject(keys, j) = NewObject(keys, k) => j = k
      /\ \A o \in (created + 1)..(created + n) : \E k \in keys : NewObject(keys, k) = o
    BY <1>0, NewObjects
<1> HIDE DEF n
<1>2. \A k \in BackendKeys : pool'[k] = IF k \in keys THEN NewObject(keys, k) ELSE None
    BY DEF Replace
<1>3. \A k \in keys : pool'[k] \in Objects /\ pool'[k] > created /\ pool'[k] <= created'
    BY <1>0, <1>1, <1>2 DEF Objects
<1>4. \A j, k \in keys : pool'[j] = pool'[k] => j = k
    BY <1>1, <1>2
<1>5. \A o \in Objects : o > created /\ o <= created' => \E k \in keys : pool'[k] = o
    BY <1>0, <1>1, <1>2 DEF Objects
<1>6. \A o \in Objects :
         object'[o] = IF \E k \in keys : pool'[k] = o
                      THEN LET k == CHOOSE j \in keys : pool'[j] = o
                           IN  [key |-> k, model |-> Carried(k)]
                      ELSE object[o]
    BY DEF Replace
<1>7. ASSUME NEW k \in keys PROVE object'[pool'[k]] = [key |-> k, model |-> Carried(k)]
    <2>1. (CHOOSE j \in keys : pool'[j] = pool'[k]) = k
        BY <1>4
    <2>2. pool'[k] \in Objects
        BY <1>3
    <2> QED BY <1>6, <2>1, <2>2
<1>8. ASSUME NEW o \in Objects, ~(o > created /\ o <= created') PROVE object'[o] = object[o]
    <2>1. ~\E k \in keys : pool'[k] = o
        BY <1>3, <1>8
    <2> QED BY <1>6, <2>1
<1>9. \A k \in keys : Carried(k) \in BackendModel
    <2>1. NewBackendModel \in BackendModel
        BY DEF NewBackendModel, BackendModel, Status
    <2> QED BY <2>1 DEF Carried, TypeOK, Pooled, Model
<1>10. pool' \in [BackendKeys -> Objects \cup {None}]
    <2>1. pool' = [k \in BackendKeys |-> IF k \in keys THEN NewObject(keys, k) ELSE None]
        BY DEF Replace
    <2> QED BY <1>2, <1>3, <2>1
<1>11. object' \in [Objects -> ObjectRecord]
    <2>1. object' = [o \in Objects |-> object'[o]]
        BY DEF Replace
    <2>2. ASSUME NEW o \in Objects PROVE object'[o] \in ObjectRecord
        <3>1. CASE o > created /\ o <= created'
            <4>1. PICK k \in keys : pool'[k] = o
                BY <1>5, <3>1
            <4>2. object'[o] = [key |-> k, model |-> Carried(k)]
                BY <1>7, <4>1
            <4> QED BY <1>9, <4>2 DEF ObjectRecord
        <3>2. CASE ~(o > created /\ o <= created')
            BY <1>8, <3>2 DEF TypeOK, ObjectRecord
        <3> QED BY <3>1, <3>2
    <2> QED BY <2>1, <2>2
<1>12. CreatedAfter
    BY <1>0 DEF CreatedAfter
<1>13. PooledAfter(keys)
    BY <1>2, <1>3 DEF PooledAfter
<1>14. MadeAfter(keys)
    <2> SUFFICES ASSUME NEW k \in keys
                 PROVE  object'[pool'[k]].key = k /\ object'[pool'[k]].model = Carried(k)
        BY DEF MadeAfter
    <2>1. object'[pool'[k]] = [key |-> k, model |-> Carried(k)]
        BY <1>7
    <2> QED BY <2>1
<1>15. NewAfter(keys)
    BY <1>5 DEF NewAfter
<1>16. OldAfter
    BY <1>8 DEF OldAfter
<1> QED BY <1>10, <1>11, <1>12, <1>13, <1>14, <1>15, <1>16 DEF ShapeAfter

LEMMA ReplaceType == ASSUME TypeOK, NEW keys \in SUBSET BackendKeys, Replace(keys) PROVE TypeOK'
<1>0. /\ CreatedAfter /\ PooledAfter(keys) /\ MadeAfter(keys)
      /\ NewAfter(keys) /\ OldAfter /\ ShapeAfter
    BY ReplaceObjects
<1>1. /\ None \notin Objects /\ None \notin BackendKeys /\ Objects \subseteq Nat
      /\ created \in Nat /\ created' \in Nat /\ created <= created'
    BY <1>0, ConstantsAssumption DEF CreatedAfter, Objects
<1>2. UNCHANGED <<timers, callback, req>>
    BY DEF Replace
<1>3. \A o \in Objects : o <= created => object'[o] = object[o] /\ o <= created'
    BY <1>0, <1>1 DEF OldAfter
<1>4. ASSUME NEW o \in Objects PROVE o <= created' <=> object'[o].key # None
    <2>0. o \in Nat /\ (o <= created <=> object[o].key # None)
        BY <1>1 DEF TypeOK
    <2>1. CASE o <= created
        BY <1>1, <1>3, <2>0, <2>1
    <2>2. CASE o > created /\ o <= created'
        <3>1. PICK k \in keys : pool'[k] = o
            BY <1>0, <2>2 DEF NewAfter
        <3>2. object'[o].key = k
            BY <1>0, <3>1 DEF MadeAfter
        <3> QED BY <1>1, <2>2, <3>2
    <2>3. CASE o > created'
        <3>1. object'[o] = object[o] /\ ~(o <= created) /\ ~(o <= created')
            BY <1>0, <1>1, <2>0, <2>3 DEF OldAfter
        <3> QED BY <2>0, <3>1
    <2> QED BY <1>1, <2>0, <2>1, <2>2, <2>3
<1>5. \A k \in BackendKeys : pool'[k] # None => pool'[k] <= created' /\ object'[pool'[k]].key = k
    <2> SUFFICES ASSUME NEW k \in BackendKeys, pool'[k] # None
                 PROVE  pool'[k] <= created' /\ object'[pool'[k]].key = k
        OBVIOUS
    <2>1. k \in keys
        BY <1>0 DEF PooledAfter
    <2> QED BY <1>0, <2>1 DEF PooledAfter, MadeAfter
<1>6. \A k \in BackendKeys :
         timers'[k] # None => timers'[k] <= created' /\ object'[timers'[k]].key = k
    <2> SUFFICES ASSUME NEW k \in BackendKeys, timers[k] # None
                 PROVE  timers[k] <= created' /\ object'[timers[k]].key = k
        BY <1>2
    <2>1. timers[k] \in Objects /\ timers[k] <= created /\ object[timers[k]].key = k
        BY DEF TypeOK
    <2>2. object'[timers[k]] = object[timers[k]] /\ timers[k] <= created'
        BY <1>3, <2>1
    <2> QED BY <2>1, <2>2
<1>7. /\ \A r \in Requests : req'[r].pc # "idle" => req'[r].obj \in 1..created'
      /\ \A c \in Callbacks : callback'[c].pc # "free" => callback'[c].obj \in 1..created'
    BY <1>1, <1>2, Held
<1>8. streak' \in [BackendKeys -> 0..MaxConsec \cup {None}]
    BY ConstantsAssumption DEF TypeOK, Replace
<1>9. created' \in 0..MaxObjects /\ pool' \in [BackendKeys -> Objects \cup {None}]
      /\ object' \in [Objects -> ObjectRecord]
    BY <1>0 DEF CreatedAfter, ShapeAfter
<1>10. /\ timers' \in [BackendKeys -> Objects \cup {None}] /\ req' \in [Requests -> RequestRecord]
       /\ callback' \in [Callbacks -> CallbackRecord]
    BY <1>2, Held DEF TypeOK
<1> QED BY <1>4, <1>5, <1>6, <1>7, <1>8, <1>9, <1>10 DEF TypeOK, ObjectRecord, Pooled,
        RequestRecord, CallbackRecord

(* Every object has its key, and whatever the pool, a timer, a callback or  *)
(* a request points to was created for it, after any number of reloads.     *)
THEOREM TypeCorrect == Spec => []TypeOK
<1>1. TypeOK /\ [Next]_vars => TypeOK'
    <2> SUFFICES ASSUME TypeOK, [Next]_vars PROVE TypeOK'
        OBVIOUS
    <2>1. CASE UNCHANGED vars
        BY <2>1 DEF TypeOK, vars, Pooled
    <2>2. CASE AnyTimer
        BY <2>2, TimerWrites, HeldKeepsType
    <2> QED BY <2>1, <2>2, Steps, RequestType, RecoveryType, ReplaceType
<1> QED BY <1>1, InitType, PTL DEF Spec

-----------------------------------------------------------------------------
(* One write, seen from an object. *)
LEMMA WriteSeen ==
    ASSUME TypeOK, NEW o \in Objects, NEW m \in BackendModel, Writes(o, m)
    PROVE  /\ pool' = pool
           /\ \A p \in Objects : p # o => object'[p] = object[p]
           /\ object'[o].model = m
<1>1. object \in [Objects -> ObjectRecord]
    BY DEF TypeOK, ObjectRecord
<1> QED BY <1>1 DEF Writes, ObjectRecord

LEMMA RejectionStep ==
    ASSUME TypeOK, [Next]_vars, NEW k \in BackendKeys PROVE RejectionStays(k)
<1> SUFFICES ASSUME k \in Pooled, object[pool[k]].model.status = "invalid", pool'[k] # None
             PROVE  \/ object'[pool'[k]].model.status = "invalid"
                    \/ /\ object'[pool'[k]].model.status = "cooldown"
                       /\ \E r \in Requests : /\ req[r] = [pc |-> "inflight", obj |-> pool[k]]
                                               /\ req'[r].pc = "marked"
    BY DEF RejectionStays, Model
<1>0. pool[k] \in Objects
    BY DEF TypeOK, Pooled
<1>1. CASE UNCHANGED vars \/ AnyTimer
    BY <1>1, TimerWrites DEF vars
<1>2. ASSUME NEW r \in Requests, AnyAnswer(r)
      PROVE  \/ object'[pool'[k]].model.status = "invalid"
             \/ /\ object'[pool'[k]].model.status = "cooldown"
                /\ req[r] = [pc |-> "inflight", obj |-> pool[k]] /\ req'[r].pc = "marked"
    <2>1. req[r].pc = "inflight" /\ req[r].obj \in Objects /\ req[r] \in RequestRecord
        BY <1>2, AnswerWrites, Held
    <2>2. PICK m \in BackendModel :
             Writes(req[r].obj, m) /\ StatusAfter(r, m) /\ CountAfter(r, m)
        BY <1>2, AnswerWrites
    <2>3. /\ pool' = pool /\ object'[req[r].obj].model = m
          /\ \A p \in Objects : p # req[r].obj => object'[p] = object[p]
        BY <2>1, <2>2, WriteSeen
    <2>4. CASE req[r].obj = pool[k]
        <3>1. req[r] = [pc |-> "inflight", obj |-> pool[k]]
            BY <2>1, <2>4 DEF RequestRecord
        <3>2. m.status = "invalid" \/ (m.status = "cooldown" /\ req'[r].pc = "marked")
            BY <2>2, <2>4 DEF StatusAfter, Asked, Model
        <3> QED BY <2>3, <2>4, <3>1, <3>2
    <2>5. CASE req[r].obj # pool[k]
        BY <1>0, <2>3, <2>5
    <2> QED BY <2>4, <2>5
<1>3. CASE AnyRecovery
    <2>1. PICK o \in 1..created : Recovers(o)
        BY <1>3, RecoveryWrites
    <2>2. o \in Objects /\ object[o].model \in BackendModel /\ UNCHANGED <<pool, created>>
        BY <1>3, RecoveryWrites, Held
    <2>3. /\ Recover(object[o].model) \in BackendModel
          /\ object[o].model.status = "invalid" => Recover(object[o].model) = object[o].model
        BY <2>2, Methods
    <2>4. Writes(o, Recover(object[o].model))
        BY <2>1, <2>2 DEF Writes, Recovers
    <2>5. /\ object'[o].model = Recover(object[o].model)
          /\ \A p \in Objects : p # o => object'[p] = object[p]
        BY <2>2, <2>3, <2>4, WriteSeen
    <2> QED BY <1>0, <2>2, <2>3, <2>5
<1>4. ASSUME NEW keys \in SUBSET BackendKeys, Replace(keys)
      PROVE  object'[pool'[k]].model.status = "invalid"
    <2>1. MadeAfter(keys) /\ PooledAfter(keys)
        BY <1>4, ReplaceObjects
    <2>2. k \in keys
        BY <2>1 DEF PooledAfter
    <2>3. Carried(k) = object[pool[k]].model
        BY DEF Carried, Model
    <2> QED BY <2>1, <2>2, <2>3 DEF MadeAfter
<1> QED BY <1>1, <1>2, <1>3, <1>4, Steps

(* A rejected key outlives every timer, recovery and reload. *)
THEOREM RejectionOutlivesReloads == Spec => RejectionSurvivesReload
<1>1. TypeOK /\ [Next]_vars => [\A k \in BackendKeys : RejectionStays(k)]_vars
    BY RejectionStep
<1> QED BY <1>1, TypeCorrect, PTL DEF Spec, RejectionSurvivesReload

-----------------------------------------------------------------------------
(* The counter and its history move together; an answer to an object out   *)
(* of the pool ends the history.                                           *)
CountHolds(k) == k \in Pooled /\ streak[k] # None => Model(pool[k]).consec = streak[k]

LEMMA CountStep ==
    ASSUME TypeOK, [Next]_vars, NEW k \in BackendKeys, CountHolds(k)
    PROVE  CountHolds(k)'
<1> SUFFICES ASSUME pool'[k] # None, streak'[k] # None
             PROVE  object'[pool'[k]].model.consec = streak'[k]
    BY DEF CountHolds, Pooled, Model
<1>0. pool[k] # None =>
         /\ pool[k] \in Objects /\ object[pool[k]].key = k
         /\ streak[k] # None => object[pool[k]].model.consec = streak[k]
    BY DEF TypeOK, Pooled, CountHolds, Model
<1>1. CASE UNCHANGED vars \/ AnyTimer
    BY <1>0, <1>1, TimerWrites DEF vars
<1>2. ASSUME NEW r \in Requests, AnyAnswer(r)
      PROVE  object'[pool'[k]].model.consec = streak'[k]
    <2> DEFINE o == req[r].obj
               j == Key(o)
    <2>1. o \in Objects /\ j \in BackendKeys
        BY <1>2, AnswerWrites, Held DEF Key
    <2>2. PICK m \in BackendModel : Writes(o, m) /\ StatusAfter(r, m) /\ CountAfter(r, m)
        BY <1>2, AnswerWrites
    <2>3. /\ pool' = pool /\ object'[o].model = m
          /\ \A p \in Objects : p # o => object'[p] = object[p]
        BY <2>1, <2>2, WriteSeen
    <2>4. CASE o = pool[k]
        <3>1. j = k /\ Asked(r).consec = object[pool[k]].model.consec
            BY <1>0, <2>3, <2>4 DEF Key, Asked, Model
        <3>2. \A n : RowIs(r, n) => streak'[k] = n
            BY <2>1, <2>4, <3>1 DEF RowIs, TypeOK
        <3>3. \/ streak' = streak /\ (streak[k] = None \/ m.consec = Asked(r).consec)
              \/ RowIs(r, 0) /\ m.consec = 0
              \/ /\ streak[k] # None /\ RowIs(r, streak[k] + 1)
                 /\ m.consec = Asked(r).consec + 1
            BY <2>2, <3>1 DEF CountAfter
        <3> QED BY <1>0, <2>3, <2>4, <3>1, <3>2, <3>3
    <2>5. CASE o # pool[k]
        <3>1. object'[pool'[k]] = object[pool[k]] /\ pool[k] # None
            BY <1>0, <2>3, <2>5
        <3>2. \A n : RowIs(r, n) => streak'[k] = streak[k] \/ streak'[k] = None
            BY <2>1, <2>5 DEF RowIs, TypeOK
        <3>3. streak'[k] = streak[k]
            BY <2>2, <3>2 DEF CountAfter
        <3> QED BY <1>0, <3>1, <3>3
    <2> QED BY <2>4, <2>5
<1>3. CASE AnyRecovery
    <2>1. PICK o \in 1..created : Recovers(o)
        BY <1>3, RecoveryWrites
    <2>2. /\ o \in Objects /\ object[o].model \in BackendModel /\ object[o].key \in BackendKeys
          /\ UNCHANGED <<pool, created>>
        BY <1>3, RecoveryWrites, Held
    <2> DEFINE b == object[o].model
    <2>3. /\ Recover(b) \in BackendModel
          /\ b.status = "invalid" => Recover(b) = b
          /\ b.status # "invalid" => Recover(b).consec = 0
        BY <2>2, Methods
    <2>4. Writes(o, Recover(b))
        BY <2>1, <2>2 DEF Writes, Recovers
    <2>5. /\ object'[o].model = Recover(b)
          /\ \A p \in Objects : p # o => object'[p] = object[p]
        BY <2>2, <2>3, <2>4, WriteSeen
    <2>6. streak' = IF o = pool[object[o].key] /\ b.status # "invalid"
                    THEN [streak EXCEPT ![object[o].key] = 0] ELSE streak
        BY <2>1 DEF Recovers, Key, Model
    <2>7. streak \in [BackendKeys -> 0..MaxConsec \cup {None}]
        BY DEF TypeOK
    <2>8. CASE o = pool[k]
        BY <1>0, <2>2, <2>3, <2>5, <2>6, <2>7, <2>8
    <2>9. CASE o # pool[k]
        <3>1. object'[pool'[k]] = object[pool[k]] /\ pool[k] # None
            BY <1>0, <2>2, <2>5, <2>9
        <3>2. streak'[k] = streak[k]
            BY <2>2, <2>6, <2>7, <2>9
        <3> QED BY <1>0, <3>1, <3>2
    <2> QED BY <2>8, <2>9
<1>4. ASSUME NEW keys \in SUBSET BackendKeys, Replace(keys)
      PROVE  object'[pool'[k]].model.consec = streak'[k]
    <2>1. MadeAfter(keys) /\ PooledAfter(keys)
        BY <1>4, ReplaceObjects
    <2>2. k \in keys
        BY <2>1 DEF PooledAfter
    <2>3. object'[pool'[k]].model = Carried(k)
        BY <2>1, <2>2 DEF MadeAfter
    <2>4. streak'[k] = IF k \in Pooled THEN streak[k] ELSE 0
        BY <1>4 DEF Replace
    <2>5. NewBackendModel.consec = 0
        BY DEF NewBackendModel
    <2>6. CASE k \in Pooled
        BY <1>0, <2>3, <2>4, <2>6 DEF Carried, Model, Pooled
    <2>7. CASE k \notin Pooled
        BY <2>3, <2>4, <2>5, <2>7 DEF Carried
    <2> QED BY <2>6, <2>7
<1> QED BY <1>1, <1>2, <1>3, <1>4, Steps

(* The error count of every pooled backend is that of its failures, over   *)
(* any number of reloads, streams, recoveries and requests.                *)
THEOREM CountOutlivesReloads == Spec => []CountSurvivesReload
<1> DEFINE Inv == \A k \in BackendKeys : CountHolds(k)
<1>1. Init => Inv
    <2> SUFFICES ASSUME Init, NEW k \in BackendKeys, k \in Pooled
                 PROVE  object[pool[k]].model.consec = streak[k]
        BY DEF CountHolds, Model
    <2>1. pool[k] \in Objects
        BY InitType DEF TypeOK, Pooled
    <2> QED BY <2>1 DEF Init, NewBackendModel
<1>2. TypeOK /\ Inv /\ [Next]_vars => Inv'
    BY CountStep
<1>3. Inv => CountSurvivesReload
    BY DEF CountHolds, CountSurvivesReload, Pooled
<1> QED BY <1>1, <1>2, <1>3, TypeCorrect, PTL DEF Spec
=============================================================================
