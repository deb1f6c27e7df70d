---------------------------- MODULE RouterProofs ----------------------------
(***************************************************************************)
(* A request never tries the same backend twice and always knows how many  *)
(* attempts it has made, for any pool, any number of concurrent requests,  *)
(* any upstream answers and any number of retries.                         *)
(***************************************************************************)
EXTENDS RouterHistory, TLAPS

(* What the snapshot promises to the choice that follows it: nothing among *)
(* the candidates has been tried.  NoRepeat alone is not inductive without *)
(* it, because the choice looks at the snapshot and not at tried.          *)
CandidatesFresh ==
    \A r \in Requests : \A i \in DOMAIN req[r].tried : req[r].tried[i] \notin req[r].cand

IInv == TypeOK /\ AttemptsCounted /\ CandidatesFresh /\ NoRepeat

(* The same invariant, taken apart into what it says of the shared state   *)
(* and of each single request: an action changes one request at most.      *)
SharedOK ==
    /\ backend \in [Backends -> BackendModel]
    /\ armed \subseteq Backends
    /\ recent429 \in [Providers -> 0..2]
    /\ forced \in Backends \cup {None}
    /\ lastUsed \in Backends \cup {None}
    /\ sticky \in [Sessions -> Backends \cup {None}]

RequestOK(q) ==
    /\ q \in RequestRecord
    /\ q.pc \in Chosen => q.sel \in Backends /\ Len(q.tried) = q.attempt + 1
    /\ q.pc \notin Chosen => Len(q.tried) = q.attempt
    /\ \A i \in DOMAIN q.tried : q.tried[i] \notin q.cand
    /\ \A i, j \in DOMAIN q.tried : q.tried[i] = q.tried[j] => i = j

RequestsOK == req \in [Requests -> {q \in RequestRecord : RequestOK(q)}]

-----------------------------------------------------------------------------
(* The methods of a backend keep its type. *)
LEMMA BackendMethods ==
    ASSUME NEW b \in BackendModel
    PROVE  /\ MarkSuccess(b) \in BackendModel
           /\ MarkFailure(b) \in BackendModel
           /\ MarkKeyInvalid(b) \in BackendModel
           /\ EnterCooldown(b, 1) \in BackendModel
           /\ Recover(b) \in BackendModel
<1> USE DEF BackendModel, Status
<1>1. MarkSuccess(b) \in BackendModel
    BY DEF MarkSuccess
<1>2. MarkFailure(b) \in BackendModel
    BY DEF MarkFailure
<1>3. MarkKeyInvalid(b) \in BackendModel
    BY DEF MarkKeyInvalid
<1>4. EnterCooldown(b, 1) \in BackendModel
    <2>1. Remaining(1) \in Nat
        BY DEF Remaining
    <2> QED BY <2>1 DEF EnterCooldown
<1>5. Recover(b) \in BackendModel
    BY DEF Recover
<1> QED BY <1>1, <1>2, <1>3, <1>4, <1>5

(* Every upstream error is classified. *)
LEMMA Classified ==
    ASSUME NEW code \in Nat, NEW msg
    PROVE  ParseProviderError(code, msg) \in ProviderErrors
<1>1. (IF code = 429 THEN getCooldownForRateLimit(classifyRateLimit(msg)) ELSE 0) \in Nat
    BY DEF getCooldownForRateLimit
<1>2. Retryable(code, msg) \in BOOLEAN
    BY DEF Retryable
<1>3. SkipProvider(code, msg) \in BOOLEAN
    BY DEF SkipProvider
<1>4. (code \in {401, 403}) \in BOOLEAN
    OBVIOUS
<1> QED BY <1>1, <1>2, <1>3, <1>4 DEF ParseProviderError, ProviderErrors

LEMMA ErrorsClassified == (\A r : Errors(r) \subseteq ProviderErrors) /\ NoError \in ProviderErrors
BY Classified, ConstantsAssumption DEF Errors, NoError

(* A rejected key is not worth a retry. *)
LEMMA InvalidIsFinal ==
    ASSUME NEW r, NEW e \in Errors(r), e.markKeyInvalid
    PROVE  ~e.retryable
<1>1. PICK a \in Answers : e = ParseProviderError(a.code, ErrorText(req[r].stream, a.code, a.msg))
    BY DEF Errors
<1>2. a.code \in {401, 403}
    BY <1>1 DEF ParseProviderError
<1>3. e.retryable = Retryable(a.code, ErrorText(req[r].stream, a.code, a.msg)) /\ a.code \in Nat
    BY <1>1, ConstantsAssumption DEF ParseProviderError
<1> HIDE DEF ErrorText
<1> QED BY <1>2, <1>3 DEF Retryable

LEMMA NewRequestType == NewRequest \in RequestRecord
BY ErrorsClassified, ConstantsAssumption DEF NewRequest, RequestRecord, Pc

-----------------------------------------------------------------------------
(* The two forms of the invariant say the same. *)
LEMMA InvariantParts == IInv <=> SharedOK /\ RequestsOK
<1>1. ASSUME IInv PROVE SharedOK /\ RequestsOK
    <2>1. SharedOK /\ req \in [Requests -> RequestRecord]
        BY <1>1 DEF IInv, TypeOK, SharedOK
    <2>2. ASSUME NEW r \in Requests PROVE RequestOK(req[r])
        <3>1. req[r] \in RequestRecord /\ req[r].pc \in Pc
            BY <2>1 DEF RequestRecord
        <3>2. req[r].pc \in Chosen => req[r].sel \in Backends /\ Len(req[r].tried) = req[r].attempt + 1
            BY <1>1 DEF IInv, TypeOK, AttemptsCounted
        <3>3. req[r].pc \notin Chosen => Len(req[r].tried) = req[r].attempt
            BY <1>1, <3>1 DEF IInv, AttemptsCounted, Chosen, Pc
        <3> QED BY <1>1, <3>1, <3>2, <3>3 DEF IInv, CandidatesFresh, NoRepeat, RequestOK
    <2> QED BY <2>1, <2>2 DEF RequestsOK
<1>2. ASSUME SharedOK, RequestsOK PROVE IInv
    <2>1. TypeOK
        BY <1>2 DEF TypeOK, SharedOK, RequestsOK, RequestOK
    <2>2. AttemptsCounted
        BY <1>2 DEF AttemptsCounted, RequestsOK, RequestOK, Chosen
    <2>3. CandidatesFresh /\ NoRepeat
        BY <1>2 DEF CandidatesFresh, NoRepeat, RequestsOK, RequestOK
    <2> QED BY <2>1, <2>2, <2>3 DEF IInv
<1> QED BY <1>1, <1>2

LEMMA NewRequestOK ==
    /\ RequestOK(NewRequest)
    /\ \A n \in Int : RequestOK([NewRequest EXCEPT !.retries = n])
<1>1. \A n \in Int : [NewRequest EXCEPT !.retries = n] \in RequestRecord
    BY NewRequestType DEF RequestRecord
<1>2. RequestOK(NewRequest)
    BY NewRequestType DEF RequestOK, NewRequest, Chosen
<1>3. ASSUME NEW n \in Int PROVE RequestOK([NewRequest EXCEPT !.retries = n])
    <2>0. PICK q : q = [NewRequest EXCEPT !.retries = n]
        OBVIOUS
    <2>1. /\ q.pc = "idle" /\ q.tried = <<>> /\ q.attempt = 0
          /\ q.cand = {} /\ q.sel = None
        BY <2>0 DEF NewRequest
    <2>2. q \in RequestRecord
        BY <1>1, <2>0
    <2>3. RequestOK(q)
        BY <2>1, <2>2 DEF RequestOK, Chosen
    <2> QED BY <2>0, <2>3
<1> QED BY <1>2, <1>3

(* Initially every slot is idle. *)
LEMMA InitIInv == Init => IInv
<1> SUFFICES ASSUME Init PROVE IInv
    OBVIOUS
<1>1. SharedOK
    BY DEF Init, SharedOK, NewBackendModel, BackendModel, Status
<1>2. RequestsOK
    BY NewRequestOK, NewRequestType DEF Init, RequestsOK
<1> QED BY <1>1, <1>2, InvariantParts

-----------------------------------------------------------------------------
(* One request's own steps. *)

(* Moving on within an attempt keeps what is known of the request. *)
LEMMA MoveOn ==
    ASSUME NEW q, RequestOK(q), q.pc \in Chosen, NEW pc \in Chosen, NEW e \in ProviderErrors
    PROVE  /\ RequestOK([q EXCEPT !.pc = pc])
           /\ RequestOK([q EXCEPT !.pc = pc, !.err = e])
<1>1. pc \in Pc
    BY DEF Chosen, Pc
<1>2. [q EXCEPT !.pc = pc] \in RequestRecord
    BY <1>1 DEF RequestOK, RequestRecord
<1>3. [q EXCEPT !.pc = pc, !.err = e] \in RequestRecord
    BY <1>1 DEF RequestOK, RequestRecord
<1>4. RequestOK([q EXCEPT !.pc = pc])
    BY <1>2 DEF RequestOK, RequestRecord
<1>5. RequestOK([q EXCEPT !.pc = pc, !.err = e])
    BY <1>3 DEF RequestOK, RequestRecord
<1> QED BY <1>4, <1>5

(* Sending to a candidate appends a backend that was not among those tried. *)
LEMMA SendOK ==
    ASSUME NEW q, RequestOK(q), q.pc = "choose", NEW b \in q.cand, NEW m \in BOOLEAN
    PROVE  RequestOK([q EXCEPT !.pc = "inflight", !.sel = b, !.manual = m,
                               !.tried = Append(@, b), !.cand = {}])
<1> DEFINE n == [q EXCEPT !.pc = "inflight", !.sel = b, !.manual = m,
                          !.tried = Append(@, b), !.cand = {}]
<1>1. b \in Backends /\ q.tried \in Seq(Backends) /\ Len(q.tried) = q.attempt
    BY DEF RequestOK, RequestRecord, Chosen
<1>2. /\ n.pc = "inflight" /\ n.sel = b /\ n.cand = {} /\ n.attempt = q.attempt
      /\ n.tried = Append(q.tried, b)
    BY DEF RequestOK, RequestRecord
<1>3. n \in RequestRecord
    <2>1. Append(q.tried, b) \in Seq(Backends)
        BY <1>1
    <2>2. n = [q EXCEPT !.pc = "inflight", !.sel = b, !.manual = m,
                        !.tried = Append(q.tried, b), !.cand = {}]
        OBVIOUS
    <2>3. q \in RequestRecord
        BY DEF RequestOK
    <2> HIDE DEF n
    <2>4. \A s \in Seq(Backends) :
             [q EXCEPT !.pc = "inflight", !.sel = b, !.manual = m, !.tried = s, !.cand = {}]
                \in RequestRecord
        BY <1>1, <2>3 DEF RequestRecord, Pc
    <2> QED BY <2>1, <2>2, <2>4
<1>4. Len(n.tried) = n.attempt + 1
    BY <1>1, <1>2
<1>5. \A i, j \in DOMAIN n.tried : n.tried[i] = n.tried[j] => i = j
    <2>1. \A i \in 1..Len(q.tried) : n.tried[i] = q.tried[i] /\ q.tried[i] # b
        BY <1>1, <1>2 DEF RequestOK
    <2>2. n.tried[Len(q.tried) + 1] = b /\ DOMAIN n.tried = 1..(Len(q.tried) + 1)
        BY <1>1, <1>2
    <2>3. \A i, j \in 1..Len(q.tried) : q.tried[i] = q.tried[j] => i = j
        BY <1>1 DEF RequestOK
    <2> QED BY <1>1, <2>1, <2>2, <2>3
<1> HIDE DEF n
<1>6. RequestOK(n)
    BY <1>1, <1>2, <1>3, <1>4, <1>5 DEF RequestOK, Chosen
<1> QED BY <1>6 DEF n

(* A step that leaves one request in order leaves all of them in order. *)
LEMMA OneRequest ==
    ASSUME RequestsOK, NEW r \in Requests, NEW q, RequestOK(q), req' = [req EXCEPT ![r] = q]
    PROVE  RequestsOK'
BY DEF RequestsOK, RequestOK

-----------------------------------------------------------------------------
(* What each action does to the requests. *)
LEMMA RequestsStep == ASSUME SharedOK, RequestsOK, [Next]_vars PROVE RequestsOK'
<1>0. \A r \in Requests : RequestOK(req[r]) /\ req[r] \in RequestRecord
    BY DEF RequestsOK
<1>1. ASSUME NEW r \in Requests, NEW n \in Int, Return(r, n) PROVE RequestsOK'
    BY <1>1, NewRequestOK, OneRequest DEF Return
<1>16. \A r \in Requests : Exhausted(r) \in Int /\ req[r].attempt \in Int
    BY <1>0, ConstantsAssumption DEF Exhausted, RequestRecord
<1>2. ASSUME NEW r \in Requests, NEW stream \in Streaming, NEW model \in Models,
             NEW session \in Sessions \cup {None}, Arrive(r, stream, model, session)
      PROVE  RequestsOK'
    <2> DEFINE q == [req[r] EXCEPT !.pc = "snapshot", !.stream = stream,
                                   !.model = model, !.session = session, !.retries = 0]
    <2>1. req' = [req EXCEPT ![r] = q] /\ req[r].pc = "idle"
        BY <1>2 DEF Arrive
    <2>2. q \in RequestRecord
        <3>1. stream \in BOOLEAN
            BY ConstantsAssumption
        <3>2. [req[r] EXCEPT !.pc = "snapshot", !.stream = stream, !.model = model]
                 \in RequestRecord
            BY <1>0, <3>1 DEF RequestRecord, Pc
        <3>3. \A p \in RequestRecord : [p EXCEPT !.session = session] \in RequestRecord
            BY DEF RequestRecord
        <3>4. \A p \in RequestRecord : [p EXCEPT !.retries = 0] \in RequestRecord
            BY DEF RequestRecord
        <3> QED BY <3>2, <3>3, <3>4
    <2>3. RequestOK(q)
        BY <1>0, <2>1, <2>2 DEF RequestOK, RequestRecord, Chosen
    <2> HIDE DEF q
    <2> QED BY <2>1, <2>3, OneRequest
<1>3. ASSUME NEW r \in Requests, Snapshot(r) PROVE RequestsOK'
    <2> DEFINE cand == filterAvailable(r)
               q == [req[r] EXCEPT !.cand = cand, !.pc = "choose"]
    <2>1. CASE cand = {}
        BY <1>1, <1>16, <1>3, <2>1 DEF Snapshot, NoCandidateLeft
    <2>2. CASE cand # {}
        <3>1. req' = [req EXCEPT ![r] = q] /\ req[r].pc = "snapshot"
            BY <1>3, <2>2 DEF Snapshot
        <3>2. cand \subseteq Backends
              /\ \A i \in DOMAIN req[r].tried : req[r].tried[i] \notin cand
            BY DEF filterAvailable, TriedBy
        <3> HIDE DEF cand
        <3>3. q \in RequestRecord
            BY <1>0, <3>2 DEF RequestRecord, Pc
        <3>4. RequestOK(q)
            BY <1>0, <3>1, <3>2, <3>3 DEF RequestOK, RequestRecord, Chosen
        <3> HIDE DEF q
        <3> QED BY <3>1, <3>4, OneRequest
    <2> QED BY <2>1, <2>2
<1>4. ASSUME NEW r \in Requests, req[r].pc = "choose", NEW b \in req[r].cand,
             NEW m \in BOOLEAN, Send(r, b, m)
      PROVE  RequestsOK'
    <2> DEFINE q == [req[r] EXCEPT !.pc = "inflight", !.sel = b, !.manual = m,
                                   !.tried = Append(@, b), !.cand = {}]
    <2>1. RequestOK(q)
        BY <1>0, <1>4, SendOK
    <2>2. req' = [req EXCEPT ![r] = q]
        BY <1>4 DEF Send
    <2> HIDE DEF q
    <2> QED BY <2>1, <2>2, OneRequest
<1>5. ASSUME NEW r \in Requests, ChooseForced(r) PROVE RequestsOK'
    <2>1. CASE forced \in req[r].cand
        BY <1>4, <1>5, <2>1 DEF ChooseForced
    <2>2. CASE forced \notin req[r].cand
        <3>1. Return(r, 0)
            BY <1>5, <2>2 DEF ChooseForced
        <3>2. 0 \in Int
            OBVIOUS
        <3> QED BY <1>1, <3>1, <3>2
    <2> QED BY <2>1, <2>2
<1>6. ASSUME NEW r \in Requests, ChooseByStrategy(r) PROVE RequestsOK'
    <2>1. PICK b \in Selectable(req[r].cand, req[r].model) : Send(r, StickyOr(r, b), FALSE)
        BY <1>6 DEF ChooseByStrategy
    <2>2. b \in req[r].cand
        BY DEF Selectable, Matched
    <2>3. StickyOr(r, b) \in req[r].cand
        BY <2>2 DEF StickyOr, Searchable, Matched
    <2> QED BY <1>4, <1>6, <2>1, <2>3 DEF ChooseByStrategy
(* The steps that stay within the attempt. *)
<1>7. ASSUME NEW r \in Requests, req[r].pc \in Chosen, NEW pc \in Chosen,
             req' = [req EXCEPT ![r].pc = pc]
      PROVE  RequestsOK'
    <2> DEFINE q == [req[r] EXCEPT !.pc = pc]
    <2>1. RequestOK(q)
        BY <1>0, <1>7, MoveOn, ErrorsClassified
    <2>2. req' = [req EXCEPT ![r] = q]
        BY <1>7
    <2> HIDE DEF q
    <2> QED BY <2>1, <2>2, OneRequest
<1>8. ASSUME NEW r \in Requests, NEW e \in Errors(r), req[r].pc \in Chosen, NEW pc \in Chosen,
             GoOn(r, pc, e)
      PROVE  RequestsOK'
    <2> DEFINE q == [req[r] EXCEPT !.pc = pc, !.err = e]
    <2>1. RequestOK(q)
        BY <1>0, <1>8, MoveOn, ErrorsClassified
    <2>2. req' = [req EXCEPT ![r] = q]
        BY <1>8 DEF GoOn
    <2> HIDE DEF q
    <2> QED BY <2>1, <2>2, OneRequest
<1>9. ASSUME NEW r \in Requests,
             ForwardSucceeds(r) \/ RecordWinner(r) \/ ClearOtherForced(r) \/ Escalate(r)
             \/ FindForcedRejected(r) \/ ClearForcedRejected(r)
      PROVE  RequestsOK'
    BY <1>7, <1>9 DEF ForwardSucceeds, RecordWinner, ClearOtherForced, Escalate,
       FindForcedRejected, ClearForcedRejected, Chosen
<1>10. ASSUME NEW r \in Requests,
              ReturnSuccess(r) \/ ForgetRejected(r) \/ CancelledInBackoff(r)
       PROVE  RequestsOK'
    BY <1>1, <1>16, <1>10 DEF ReturnSuccess, ForgetRejected, CancelledInBackoff
<1>11. ASSUME NEW r \in Requests, NEW e \in Errors(r),
              ManualFails(r, e) \/ RefusedForGood(r, e)
       PROVE  RequestsOK'
    BY <1>1, <1>16, <1>11 DEF ManualFails, RefusedForGood
<1>12. ASSUME NEW r \in Requests, NEW e \in Errors(r),
              KeyRejected(r, e) \/ RateLimited(r, e) \/ UpstreamFailed(r, e)
       PROVE  RequestsOK'
    BY <1>8, <1>12 DEF KeyRejected, RateLimited, UpstreamFailed, Fails, Chosen
<1>13. ASSUME NEW r \in Requests, Retry(r) PROVE RequestsOK'
    <2> DEFINE q == [req[r] EXCEPT !.pc = "snapshot", !.attempt = NextAttempt(r),
                                   !.sel = None, !.err = NoError]
    <2>1. CASE req[r].attempt < MaxRetries
        <3>1. req' = [req EXCEPT ![r] = q] /\ req[r].pc = "backoff"
            BY <1>13, <2>1 DEF Retry, MoreAttempts
        <3>2. NextAttempt(r) \in 0..MaxRetries /\ NextAttempt(r) = req[r].attempt + 1
            BY <1>0, <2>1, ConstantsAssumption DEF NextAttempt, RequestRecord
        <3>3. q \in RequestRecord
            BY <1>0, <3>2, ErrorsClassified DEF RequestRecord, Pc
        <3>4. RequestOK(q)
            BY <1>0, <3>1, <3>2, <3>3 DEF RequestOK, RequestRecord, Chosen
        <3> HIDE DEF q
        <3> QED BY <3>1, <3>4, OneRequest
    <2>2. CASE ~(req[r].attempt < MaxRetries)
        BY <1>13, <2>2, <1>1, <1>16 DEF Retry, MoreAttempts
    <2> QED BY <2>1, <2>2
<1>14. CASE UNCHANGED req
    BY <1>14 DEF RequestsOK
<1>15. Environment => UNCHANGED req
    BY DEF Environment, TimerExpires, AdminRecover, SwitchModel, SwitchAuto, WindowCloses,
       StickyExpires
<1> QED
    BY <1>2, <1>3, <1>5, <1>6, <1>9, <1>10, <1>11, <1>12, <1>13, <1>14, <1>15
    DEF Next, Proceed, vars

-----------------------------------------------------------------------------
(* What each action does to the shared state. *)
LEMMA SharedStep == ASSUME SharedOK, RequestsOK, [Next]_vars PROVE SharedOK'
<1>0. \A r \in Requests : req[r].pc \in Chosen => req[r].sel \in Backends
    BY DEF RequestsOK, RequestOK
<1> DEFINE BackendOK == backend' \in [Backends -> BackendModel]
<1>1. ASSUME NEW b \in Backends
      PROVE  /\ [backend EXCEPT ![b] = MarkSuccess(@)] \in [Backends -> BackendModel]
             /\ [backend EXCEPT ![b] = MarkFailure(@)] \in [Backends -> BackendModel]
             /\ [backend EXCEPT ![b] = MarkKeyInvalid(@)] \in [Backends -> BackendModel]
             /\ [backend EXCEPT ![b] = Recover(@)] \in [Backends -> BackendModel]
             /\ Cooled(b) \in [Backends -> BackendModel]
    BY BackendMethods DEF SharedOK, Cooled
<1>2. \A b \in Backends : Record429(ProviderOf[b]) \in [Providers -> 0..2]
    BY DEF SharedOK, Record429, Providers
<1>3. ASSUME NEW r \in Requests, req[r].pc \in Chosen
      PROVE  /\ Credited(r) \in [Backends -> BackendModel]
             /\ MarkFailed(r) => BackendOK
             /\ MarkInvalid(r) => BackendOK
    <2>1. req[r].sel \in Backends
        BY <1>0, <1>3
    <2>2. Credited(r) \in [Backends -> BackendModel]
        BY <1>1, <2>1 DEF Credited, SharedOK
    <2>3. MarkFailed(r) => BackendOK
        BY <1>1, <2>1 DEF MarkFailed
    <2>4. MarkInvalid(r) => BackendOK
        BY <1>1, <2>1 DEF MarkInvalid
    <2> QED BY <2>2, <2>3, <2>4
<1>4. ASSUME NEW r \in Requests, ForwardSucceeds(r) PROVE SharedOK'
    BY <1>3, <1>4 DEF ForwardSucceeds, Chosen, SharedOK
<1>5. ASSUME NEW r \in Requests, RecordWinner(r) PROVE SharedOK'
    BY <1>0, <1>5 DEF RecordWinner, Chosen, SharedOK
<1>6. ASSUME NEW r \in Requests, ClearOtherForced(r) \/ ClearForcedRejected(r) PROVE SharedOK'
    BY <1>6 DEF ClearOtherForced, ClearForcedRejected, SharedOK
<1>7. ASSUME NEW r \in Requests, ReturnSuccess(r) PROVE SharedOK'
    BY <1>0, <1>7 DEF ReturnSuccess, Chosen, SharedOK
<1>8. ASSUME NEW r \in Requests, NEW e \in Errors(r),
             ManualFails(r, e) \/ KeyRejected(r, e) \/ RefusedForGood(r, e) \/ UpstreamFailed(r, e)
      PROVE  SharedOK'
    <2>1. req[r].pc \in Chosen /\ (MarkFailed(r) \/ MarkInvalid(r))
          /\ UNCHANGED <<armed, recent429, forced, lastUsed, sticky>>
        BY <1>8 DEF ManualFails, KeyRejected, RefusedForGood, UpstreamFailed, Fails, Chosen
    <2> QED BY <1>3, <2>1 DEF SharedOK
<1>9. ASSUME NEW r \in Requests, NEW e \in Errors(r), RateLimited(r, e) PROVE SharedOK'
    <2>1. req[r].sel \in Backends
        BY <1>0, <1>9 DEF RateLimited, Fails, Chosen
    <2> QED BY <1>1, <1>2, <1>9, <2>1 DEF RateLimited, SharedOK
<1>10. ASSUME NEW r \in Requests, Escalate(r) PROVE SharedOK'
    <2>1. req[r].sel \in Backends
        BY <1>0, <1>10 DEF Escalate, Chosen
    <2>2. Cooled(req[r].sel) \in [Backends -> BackendModel]
          /\ Record429(ProviderOf[req[r].sel]) \in [Providers -> 0..2]
        BY <1>1, <1>2, <2>1
    <2> QED BY <1>10, <2>1, <2>2 DEF Escalate, SharedOK
<1>11. ASSUME NEW r \in Requests, ForgetRejected(r) PROVE SharedOK'
    BY <1>11 DEF ForgetRejected, SharedOK
<1>12. ASSUME NEW b \in Backends, TimerExpires(b) PROVE SharedOK'
    BY <1>1, <1>12 DEF TimerExpires, SharedOK
<1>13. ASSUME NEW b \in Recoverable, AdminRecover(b) PROVE SharedOK'
    BY <1>1, <1>13, ConstantsAssumption DEF AdminRecover, SharedOK
<1>14. ASSUME NEW b \in Forceable, SwitchModel(b) PROVE SharedOK'
    BY <1>14, ConstantsAssumption DEF SwitchModel, SharedOK
<1>15. CASE SwitchAuto
    BY <1>15 DEF SwitchAuto, SharedOK
<1>16. ASSUME NEW p \in Providers, WindowCloses(p) PROVE SharedOK'
    BY <1>16 DEF WindowCloses, SharedOK
<1>17. ASSUME NEW s \in Sessions, StickyExpires(s) PROVE SharedOK'
    BY <1>17 DEF StickyExpires, SharedOK
<1>18. CASE UNCHANGED <<backend, armed, recent429, forced, lastUsed, sticky>>
    BY <1>18 DEF SharedOK
<1>19. ASSUME NEW r \in Requests,
              \/ \E stream \in Streaming, model \in Models, session \in Sessions \cup {None} :
                    Arrive(r, stream, model, session)
              \/ Snapshot(r) \/ ChooseForced(r) \/ ChooseByStrategy(r)
              \/ FindForcedRejected(r) \/ Retry(r) \/ CancelledInBackoff(r)
       PROVE  SharedOK'
    BY <1>18, <1>19 DEF Arrive, Snapshot, ChooseForced, ChooseByStrategy,
       FindForcedRejected, Retry, CancelledInBackoff
<1>20. UNCHANGED vars => SharedOK'
    BY <1>18 DEF vars
<1> HIDE DEF BackendOK
<1> QED
    BY <1>4, <1>5, <1>6, <1>7, <1>8, <1>9, <1>10, <1>11, <1>12, <1>13, <1>14, <1>15,
       <1>16, <1>17, <1>19, <1>20
    DEF Next, Proceed, Environment

-----------------------------------------------------------------------------
(* The inductive invariant holds in every reachable state. *)
THEOREM Invariance == Spec => []IInv
<1>1. IInv => SharedOK /\ RequestsOK
    BY InvariantParts
<1>2. SharedOK /\ RequestsOK /\ [Next]_vars => SharedOK' /\ RequestsOK'
    BY SharedStep, RequestsStep
<1>3. SharedOK /\ RequestsOK => IInv
    BY InvariantParts
<1> QED BY InitIInv, <1>1, <1>2, <1>3, PTL DEF Spec

(* Type correctness: in particular a request past its choice always has a  *)
(* backend of the pool selected.                                           *)
THEOREM TypeCorrect == Spec => []TypeOK
<1>1. IInv => TypeOK
    BY DEF IInv
<1> QED BY Invariance, <1>1, PTL

(* No request is ever sent to the same backend twice (fallback.go:37-38),  *)
(* whatever recovers, cools down or is forced while it runs.               *)
THEOREM NeverTwice == Spec => []NoRepeat
<1>1. IInv => NoRepeat
    BY DEF IInv
<1> QED BY Invariance, <1>1, PTL

-----------------------------------------------------------------------------
(* What the methods make of a backend's status. *)
LEMMA StatusOf ==
    ASSUME NEW b \in BackendModel
    PROVE  /\ MarkSuccess(b).status = b.status
           /\ MarkFailure(b).status = b.status
           /\ MarkKeyInvalid(b).status = "invalid"
           /\ EnterCooldown(b, 1).status = "cooldown"
           /\ b.status = "invalid" => Recover(b) = b
BY DEF BackendModel, MarkSuccess, MarkFailure, MarkKeyInvalid, EnterCooldown, Recover

(* The four ways a step can leave a backend's status: as it was, with a    *)
(* rejected key, in the cooldown of a request that was sent to it, or      *)
(* recovered from anything but a rejected key.                             *)
StatusStep(b) ==
    \/ backend'[b].status = backend[b].status
    \/ backend'[b].status = "invalid"
    \/ /\ backend'[b].status = "cooldown"
       /\ \E r \in Requests : /\ req[r].sel = b
                               /\ req[r].pc \in {"inflight", "failed"}
                               /\ req'[r].pc = "backoff"
    \/ backend[b].status # "invalid" /\ (TimerExpires(b) \/ AdminRecover(b))

LEMMA EveryStatusStep ==
    ASSUME TypeOK, [Next]_vars, NEW b \in Backends
    PROVE  StatusStep(b)
<1> USE DEF StatusStep
<1>0. /\ backend[b] \in BackendModel
      /\ backend \in [Backends -> BackendModel]
      /\ req \in [Requests -> RequestRecord]
    BY DEF TypeOK
<1>1. CASE UNCHANGED backend
    BY <1>1
<1>2. ASSUME NEW r \in Requests, ForwardSucceeds(r) PROVE StatusStep(b)
    <2>1. backend' = backend \/ backend' = [backend EXCEPT ![req[r].sel] = MarkSuccess(@)]
        BY <1>2 DEF ForwardSucceeds, Credited
    <2> QED BY <1>0, <2>1, StatusOf
<1>3. ASSUME NEW r \in Requests, MarkFailed(r) \/ MarkInvalid(r) PROVE StatusStep(b)
    BY <1>0, <1>3, StatusOf DEF MarkFailed, MarkInvalid
<1>4. ASSUME NEW r \in Requests, NEW e \in Errors(r), RateLimited(r, e) PROVE StatusStep(b)
    <2>1. /\ backend' = [backend EXCEPT ![req[r].sel] = EnterCooldown(@, 1)]
          /\ req[r].pc = "inflight" /\ req'[r].pc = "backoff"
        BY <1>0, <1>4 DEF RateLimited, Cooled, Fails, GoOn, RequestRecord
    <2> QED BY <1>0, <2>1, StatusOf
<1>5. ASSUME NEW r \in Requests, Escalate(r) PROVE StatusStep(b)
    <2>1. /\ \/ backend' = backend
             \/ backend' = [backend EXCEPT ![req[r].sel] = EnterCooldown(@, 1)]
          /\ req[r].pc = "failed" /\ req'[r].pc = "backoff"
        BY <1>0, <1>5 DEF Escalate, Cooled, RequestRecord
    <2> QED BY <1>0, <2>1, StatusOf
<1>6. ASSUME NEW c \in Backends, TimerExpires(c) \/ AdminRecover(c) PROVE StatusStep(b)
    <2>1. backend' = [backend EXCEPT ![c] = Recover(@)]
        BY <1>6 DEF TimerExpires, AdminRecover
    <2>2. CASE c = b
        BY <1>0, <1>6, <2>1, <2>2, StatusOf
    <2>3. CASE c # b
        BY <1>0, <2>1, <2>3
    <2> QED BY <2>2, <2>3
<1>7. CASE UNCHANGED vars
    BY <1>1, <1>7 DEF vars
<1>8. CASE \E r \in Requests : Proceed(r)
    <2> PICK r \in Requests : Proceed(r)
        BY <1>8
    <2>1. CASE \E e \in Errors(r) : ManualFails(r, e) \/ KeyRejected(r, e)
                                    \/ RefusedForGood(r, e) \/ UpstreamFailed(r, e)
        BY <1>3, <2>1 DEF ManualFails, KeyRejected, RefusedForGood, UpstreamFailed
    <2>2. CASE \E e \in Errors(r) : RateLimited(r, e)
        BY <1>4, <2>2
    <2>3. CASE Snapshot(r) \/ ChooseForced(r) \/ ChooseByStrategy(r) \/ RecordWinner(r)
               \/ ClearOtherForced(r) \/ ReturnSuccess(r) \/ FindForcedRejected(r)
               \/ ClearForcedRejected(r) \/ ForgetRejected(r) \/ Retry(r)
               \/ CancelledInBackoff(r)
        BY <1>1, <2>3 DEF Snapshot, ChooseForced, ChooseByStrategy, RecordWinner,
           ClearOtherForced, ReturnSuccess, FindForcedRejected, ClearForcedRejected,
           ForgetRejected, Retry, CancelledInBackoff
    <2> QED BY <1>2, <1>5, <2>1, <2>2, <2>3 DEF Proceed
<1>9. CASE Environment
    BY <1>1, <1>6, <1>9, ConstantsAssumption DEF Environment, SwitchModel, SwitchAuto,
       WindowCloses, StickyExpires
<1>10. CASE \E r \in Requests, stream \in Streaming, model \in Models,
               session \in Sessions \cup {None} : Arrive(r, stream, model, session)
    BY <1>1, <1>10 DEF Arrive
<1> QED BY <1>7, <1>8, <1>9, <1>10 DEF Next

(* For any pool and any number of requests, a cooldown is ended by a timer *)
(* or the admin alone, never by the success of a request that was in       *)
(* flight when it began (Forwarder.Forward, BackendModel.MarkSuccess).     *)
THEOREM CooldownNotCutShort == Spec => CooldownHeld
<1>1. TypeOK /\ [Next]_vars
      => [\A b \in Backends :
            backend[b].status = "cooldown" /\ backend'[b].status = "healthy"
               => TimerExpires(b) \/ AdminRecover(b)]_vars
    BY EveryStatusStep DEF StatusStep
<1> QED BY <1>1, TypeCorrect, PTL DEF Spec, CooldownHeld

(* For any pool and any number of requests, a rejected key is brought back *)
(* by a cooldown of a request already sent to it, and by nothing else      *)
(* (BackendModel.Recover leaves StatusInvalid alone).                      *)
THEOREM RejectionHolds == Spec => RejectedKeyHeld
<1>1. TypeOK /\ [Next]_vars
      => [\A b \in Backends :
            backend[b].status = "invalid" /\ backend'[b].status # "invalid"
               => /\ backend'[b].status = "cooldown"
                  /\ \E r \in Requests : /\ req[r].sel = b
                                          /\ req[r].pc \in {"inflight", "failed"}
                                          /\ req'[r].pc = "backoff"]_vars
    BY EveryStatusStep DEF StatusStep
<1> QED BY <1>1, TypeCorrect, PTL DEF Spec, RejectedKeyHeld

-----------------------------------------------------------------------------
(* The contract of the fallback: what each step is to the client. *)
Stages == [r \in Requests |-> StageOf(req[r].pc)]
Calls == [r \in Requests |-> req[r].tried]

ContractStep == [Contract!Next]_(Contract!vars)

(* A step of one request is a step of its stage and its calls. *)
LEMMA Mapped ==
    ASSUME RequestsOK, NEW r \in Requests, NEW q, req' = [req EXCEPT ![r] = q]
    PROVE  /\ Stages' = [Stages EXCEPT ![r] = StageOf(q.pc)]
           /\ Calls' = [Calls EXCEPT ![r] = q.tried]
<1>1. req \in [Requests -> RequestRecord]
    BY DEF RequestsOK
<1>2. \A s \in Requests : req'[s] = IF s = r THEN q ELSE req[s]
    BY <1>1
<1>3. /\ Stages' = [s \in Requests |-> StageOf(req'[s].pc)]
      /\ Calls' = [s \in Requests |-> req'[s].tried]
    BY DEF Stages, Calls, StageOf
<1> HIDE DEF StageOf
<1>4. Stages' = [Stages EXCEPT ![r] = StageOf(q.pc)]
    <2>1. [Stages EXCEPT ![r] = StageOf(q.pc)]
          = [s \in Requests |-> IF s = r THEN StageOf(q.pc) ELSE StageOf(req[s].pc)]
        BY DEF Stages
    <2> QED BY <1>2, <1>3, <2>1
<1>5. Calls' = [Calls EXCEPT ![r] = q.tried]
    <2>1. [Calls EXCEPT ![r] = q.tried]
          = [s \in Requests |-> IF s = r THEN q.tried ELSE req[s].tried]
        BY DEF Calls
    <2> QED BY <1>2, <1>3, <2>1
<1> QED BY <1>4, <1>5

(* A step that changes neither stage nor calls is a stutter. *)
LEMMA Stutters ==
    ASSUME RequestsOK, NEW r \in Requests, NEW q, req' = [req EXCEPT ![r] = q],
           StageOf(q.pc) = StageOf(req[r].pc), q.tried = req[r].tried
    PROVE  ContractStep
<1>1. Stages' = Stages /\ Calls' = Calls
    BY Mapped DEF Stages, Calls
<1> QED BY <1>1 DEF ContractStep, Stages, Calls, Contract!vars

(* The end of a request closes it, at whatever stage it is. *)
LEMMA Closes ==
    ASSUME RequestsOK, NEW r \in Requests, NEW n, Return(r, n), req[r].pc # "idle"
    PROVE  ContractStep
<1>1. Stages' = [Stages EXCEPT ![r] = "closed"] /\ Calls' = [Calls EXCEPT ![r] = <<>>]
    <2> DEFINE q == [NewRequest EXCEPT !.retries = n]
    <2>1. q.pc = "idle" /\ q.tried = <<>>
        BY DEF NewRequest
    <2>3. req' = [req EXCEPT ![r] = q]
        BY DEF Return
    <2> HIDE DEF q
    <2>2. StageOf(q.pc) = "closed"
        BY <2>1 DEF StageOf
    <2>4. /\ Stages' = [Stages EXCEPT ![r] = StageOf(q.pc)]
          /\ Calls' = [Calls EXCEPT ![r] = q.tried]
        BY <2>3, Mapped, Zenon
    <2> QED BY <2>1, <2>2, <2>4
<1>2. Stages[r] # "closed"
    BY DEF Stages, StageOf
<1>3. Contract!Close(r)
    BY <1>1, <1>2 DEF Contract!Close, Contract!To, Stages, Calls
<1> QED BY <1>3 DEF ContractStep, Contract!Next

(* A step along the stages that makes no call. *)
LEMMA Moves ==
    ASSUME RequestsOK, NEW r \in Requests, NEW q, req' = [req EXCEPT ![r] = q],
           q.tried = req[r].tried,
           \/ req[r].pc = "idle" /\ q.pc = "snapshot"
           \/ /\ req[r].pc = "inflight"
              /\ q.pc \in {"won", "failed", "rejected", "backoff"}
           \/ /\ req[r].pc = "backoff" /\ q.pc = "snapshot"
              /\ Len(req[r].tried) <= MaxRetries
    PROVE  ContractStep
<1>1. Stages' = [Stages EXCEPT ![r] = StageOf(q.pc)] /\ Calls' = Calls
    <2>1. /\ Stages' = [Stages EXCEPT ![r] = StageOf(q.pc)]
          /\ Calls' = [Calls EXCEPT ![r] = q.tried]
        BY Mapped, Zenon
    <2> QED BY <2>1 DEF Calls
<1>2. Stages[r] = StageOf(req[r].pc) /\ Calls[r] = req[r].tried
    BY DEF Stages, Calls
<1>3. Contract!Open(r) \/ Contract!Answer(r) \/ Contract!CallAgain(r)
    BY <1>1, <1>2 DEF Contract!Open, Contract!Answer, Contract!CallAgain, Contract!To,
       Stages, Calls, StageOf
<1> QED BY <1>3 DEF ContractStep, Contract!Next

(* Sending the request to a candidate is a call, and one more is due. *)
LEMMA Calling ==
    ASSUME RequestsOK, NEW r \in Requests, req[r].pc = "choose", NEW b \in req[r].cand,
           NEW m \in BOOLEAN, Send(r, b, m)
    PROVE  ContractStep
<1>1. /\ req[r] \in RequestRecord /\ RequestOK(req[r])
      /\ b \in Backends /\ Len(req[r].tried) <= MaxRetries
    <2>1. req[r] \in RequestRecord /\ RequestOK(req[r])
        BY DEF RequestsOK
    <2>2. b \in Backends /\ req[r].attempt \in 0..MaxRetries
        BY <2>1 DEF RequestRecord
    <2>3. Len(req[r].tried) = req[r].attempt
        BY <2>1 DEF RequestOK, Chosen
    <2> QED BY <2>1, <2>2, <2>3, ConstantsAssumption
<1> DEFINE q == [req[r] EXCEPT !.pc = "inflight", !.sel = b, !.manual = m,
                               !.tried = Append(@, b), !.cand = {}]
<1>2. q.pc = "inflight" /\ q.tried = Append(req[r].tried, b)
    BY <1>1 DEF RequestRecord
<1>3. req' = [req EXCEPT ![r] = q]
    BY DEF Send
<1> HIDE DEF q
<1>4. /\ Stages' = [Stages EXCEPT ![r] = "calling"]
      /\ Calls' = [Calls EXCEPT ![r] = Append(req[r].tried, b)]
    <2>1. StageOf(q.pc) = "calling"
        BY <1>2 DEF StageOf
    <2>2. /\ Stages' = [Stages EXCEPT ![r] = StageOf(q.pc)]
          /\ Calls' = [Calls EXCEPT ![r] = q.tried]
        BY <1>3, Mapped, Zenon
    <2> QED BY <1>2, <2>1, <2>2
<1>5. Stages[r] = "deciding" /\ Calls[r] = req[r].tried
    BY DEF Stages, Calls, StageOf
<1>6. b \notin {Calls[r][i] : i \in DOMAIN Calls[r]}
    BY <1>1, <1>5 DEF RequestOK
<1>7. Contract!Call(r, b)
    BY <1>1, <1>4, <1>5, <1>6 DEF Contract!Call, Contract!Called, Contract!To, Stages, Calls
<1> QED BY <1>1, <1>7 DEF ContractStep, Contract!Next

(* What each action of the router is to the contract. *)
LEMMA StepKeepsContract == ASSUME RequestsOK, [Next]_vars PROVE ContractStep
<1>0. \A r \in Requests : RequestOK(req[r]) /\ req[r] \in RequestRecord
    BY DEF RequestsOK
<1>1. ASSUME NEW r \in Requests, NEW stream \in Streaming, NEW model \in Models,
             NEW session \in Sessions \cup {None}, Arrive(r, stream, model, session)
      PROVE  ContractStep
    <2> DEFINE q == [req[r] EXCEPT !.pc = "snapshot", !.stream = stream,
                                   !.model = model, !.session = session, !.retries = 0]
    <2>1. req' = [req EXCEPT ![r] = q] /\ req[r].pc = "idle"
        BY <1>1 DEF Arrive
    <2>2. q.pc = "snapshot" /\ q.tried = req[r].tried
        BY <1>0 DEF RequestRecord
    <2> HIDE DEF q
    <2> QED BY <2>1, <2>2, Moves
<1>2. ASSUME NEW r \in Requests, Snapshot(r) PROVE ContractStep
    <2> DEFINE q == [req[r] EXCEPT !.cand = filterAvailable(r), !.pc = "choose"]
    <2>1. CASE filterAvailable(r) = {}
        BY <1>2, <2>1, Closes DEF Snapshot, NoCandidateLeft
    <2>2. CASE filterAvailable(r) # {}
        <3>1. req' = [req EXCEPT ![r] = q] /\ req[r].pc = "snapshot"
            BY <1>2, <2>2 DEF Snapshot
        <3>2. q.pc = "choose" /\ q.tried = req[r].tried
            BY <1>0 DEF RequestRecord
        <3>3. StageOf(q.pc) = StageOf(req[r].pc)
            BY <3>1, <3>2 DEF StageOf
        <3> HIDE DEF q
        <3> QED BY <3>1, <3>2, <3>3, Stutters
    <2> QED BY <2>1, <2>2
<1>3. ASSUME NEW r \in Requests, ChooseForced(r) PROVE ContractStep
    BY <1>3, Calling, Closes DEF ChooseForced
<1>4. ASSUME NEW r \in Requests, ChooseByStrategy(r) PROVE ContractStep
    <2>1. PICK b \in Selectable(req[r].cand, req[r].model) : Send(r, StickyOr(r, b), FALSE)
        BY <1>4 DEF ChooseByStrategy
    <2>2. StickyOr(r, b) \in req[r].cand
        BY DEF StickyOr, Searchable, Selectable, Matched
    <2> QED BY <1>4, <2>1, <2>2, Calling DEF ChooseByStrategy
(* Steps that change the program point and leave the calls alone. *)
<1>5. ASSUME NEW r \in Requests, NEW pc, req' = [req EXCEPT ![r].pc = pc]
      PROVE  /\ StageOf(pc) = StageOf(req[r].pc) => ContractStep
             /\ req[r].pc = "inflight" /\ pc = "won" => ContractStep
    <2> DEFINE q == [req[r] EXCEPT !.pc = pc]
    <2>1. req' = [req EXCEPT ![r] = q]
        BY <1>5
    <2>2. q.pc = pc /\ q.tried = req[r].tried
        BY <1>0 DEF RequestRecord
    <2> HIDE DEF q
    <2> QED BY <2>1, <2>2, Stutters, Moves
<1>6. ASSUME NEW r \in Requests, ForwardSucceeds(r) PROVE ContractStep
    BY <1>5, <1>6 DEF ForwardSucceeds
<1>7. ASSUME NEW r \in Requests,
             RecordWinner(r) \/ ClearOtherForced(r) \/ Escalate(r)
             \/ FindForcedRejected(r) \/ ClearForcedRejected(r)
      PROVE  ContractStep
    <2>1. PICK pc : /\ req' = [req EXCEPT ![r].pc = pc]
                    /\ \/ {pc, req[r].pc} \subseteq {"won", "unforce", "remember"}
                       \/ {pc, req[r].pc} \subseteq {"failed", "rejected", "disown",
                                                     "forget", "backoff"}
        BY <1>7 DEF RecordWinner, ClearOtherForced, Escalate, FindForcedRejected,
           ClearForcedRejected
    <2>2. StageOf(pc) = StageOf(req[r].pc)
        BY <2>1 DEF StageOf
    <2> QED BY <1>5, <2>1, <2>2
<1>8. ASSUME NEW r \in Requests, NEW e,
             KeyRejected(r, e) \/ RateLimited(r, e) \/ UpstreamFailed(r, e)
      PROVE  ContractStep
    <2>1. PICK pc \in {"rejected", "backoff", "failed"} :
              req' = [req EXCEPT ![r].pc = pc, ![r].err = e]
        BY <1>8 DEF KeyRejected, RateLimited, UpstreamFailed, GoOn
    <2> DEFINE q == [req[r] EXCEPT !.pc = pc, !.err = e]
    <2>2. req' = [req EXCEPT ![r] = q] /\ req[r].pc = "inflight"
        BY <1>8, <2>1 DEF KeyRejected, RateLimited, UpstreamFailed, Fails
    <2>3. q.pc = pc /\ q.tried = req[r].tried
        BY <1>0 DEF RequestRecord
    <2> HIDE DEF q
    <2> QED BY <2>1, <2>2, <2>3, Moves
<1>9. ASSUME NEW r \in Requests, NEW e,
             \/ ReturnSuccess(r) \/ ForgetRejected(r) \/ CancelledInBackoff(r)
             \/ ManualFails(r, e) \/ RefusedForGood(r, e)
      PROVE  ContractStep
    BY <1>9, Closes DEF ReturnSuccess, ForgetRejected, CancelledInBackoff, ManualFails,
       RefusedForGood, Fails
<1>10. ASSUME NEW r \in Requests, Retry(r) PROVE ContractStep
    <2> DEFINE q == [req[r] EXCEPT !.pc = "snapshot", !.attempt = NextAttempt(r),
                                   !.sel = None, !.err = NoError]
    <2>1. CASE req[r].attempt < MaxRetries
        <3>1. req' = [req EXCEPT ![r] = q] /\ req[r].pc = "backoff"
            BY <1>10, <2>1 DEF Retry, MoreAttempts
        <3>2. q.pc = "snapshot" /\ q.tried = req[r].tried
            BY <1>0 DEF RequestRecord
        <3>3. Len(req[r].tried) <= MaxRetries
            <4>1. /\ Len(req[r].tried) = req[r].attempt + 1
                  /\ req[r].attempt \in 0..MaxRetries
                BY <1>0, <3>1 DEF RequestOK, RequestRecord, Chosen
            <4> QED BY <2>1, <4>1, ConstantsAssumption
        <3> HIDE DEF q
        <3> QED BY <3>1, <3>2, <3>3, Moves
    <2>2. CASE ~(req[r].attempt < MaxRetries)
        BY <1>10, <2>2, Closes DEF Retry, MoreAttempts
    <2> QED BY <2>1, <2>2
<1>11. CASE UNCHANGED req
    BY <1>11 DEF ContractStep, Contract!vars, StageOf
<1>12. Environment => UNCHANGED req
    BY DEF Environment, TimerExpires, AdminRecover, SwitchModel, SwitchAuto, WindowCloses,
       StickyExpires
<1> QED
    BY <1>1, <1>2, <1>3, <1>4, <1>6, <1>7, <1>8, <1>9, <1>10, <1>11, <1>12
    DEF Next, Proceed, vars

(* The router implements the contract of a fallback, for any pool, any     *)
(* number of requests and retries and any upstream answers.                *)
THEOREM FallbackImplemented == Spec => ImplementsFallback
<1>1. Init => Contract!Init
    BY DEF Init, NewRequest, StageOf, Contract!Init
<1>2. IInv /\ [Next]_vars => [Contract!Next]_(Contract!vars)
    BY StepKeepsContract, InvariantParts DEF ContractStep
<1> QED BY <1>1, <1>2, Invariance, PTL DEF Spec, ImplementsFallback, Contract!Spec
-----------------------------------------------------------------------------
(* A request changes by its own steps only. *)
LEMMA OwnStep ==
    ASSUME TypeOK, [Next]_vars, NEW r \in Requests, req'[r] # req[r]
    PROVE  \/ Proceed(r)
           \/ \E stream \in Streaming, model \in Models, session \in Sessions \cup {None} :
                 Arrive(r, stream, model, session)
<1>0. req \in [Requests -> RequestRecord]
    BY DEF TypeOK
<1>1. ASSUME NEW s \in Requests, s # r, NEW q, req' = [req EXCEPT ![s] = q] PROVE FALSE
    BY <1>0, <1>1
<1>2. ASSUME NEW s \in Requests, s # r, Proceed(s) PROVE FALSE
    <2>1. CASE Snapshot(s) \/ ReturnSuccess(s) \/ ForgetRejected(s) \/ Retry(s)
               \/ CancelledInBackoff(s)
        BY <1>0, <1>2, <2>1 DEF Snapshot, NoCandidateLeft, Return, ReturnSuccess, ForgetRejected,
           Retry, CancelledInBackoff
    <2>2. CASE ChooseForced(s) \/ ChooseByStrategy(s)
        BY <1>0, <1>2, <2>2 DEF ChooseForced, ChooseByStrategy, Send, Return
    <2>3. CASE ForwardSucceeds(s) \/ RecordWinner(s) \/ ClearOtherForced(s) \/ Escalate(s)
               \/ FindForcedRejected(s) \/ ClearForcedRejected(s)
        BY <1>0, <1>2, <2>3 DEF ForwardSucceeds, RecordWinner, ClearOtherForced, Escalate,
           FindForcedRejected, ClearForcedRejected
    <2>4. CASE \E e \in Errors(s) : \/ ManualFails(s, e) \/ KeyRejected(s, e)
                                    \/ RefusedForGood(s, e) \/ RateLimited(s, e)
                                    \/ UpstreamFailed(s, e)
        BY <1>0, <1>2, <2>4 DEF ManualFails, KeyRejected, RefusedForGood, RateLimited,
           UpstreamFailed, Return, GoOn
    <2> QED BY <1>2, <2>1, <2>2, <2>3, <2>4 DEF Proceed
<1>3. ASSUME NEW s \in Requests, s # r, NEW stream \in Streaming, NEW model \in Models,
             NEW session \in Sessions \cup {None}, Arrive(s, stream, model, session)
      PROVE  FALSE
    BY <1>0, <1>3 DEF Arrive
<1>4. ~Environment /\ ~UNCHANGED vars
    BY DEF Environment, TimerExpires, AdminRecover, SwitchModel, SwitchAuto, WindowCloses,
       StickyExpires, vars
<1> QED BY <1>2, <1>3, <1>4 DEF Next

(* An answer gives its request the Retries it carries.                     *)
LEMMA Answered ==
    ASSUME TypeOK, NEW r \in Requests, NEW n, Return(r, n)
    PROVE  req'[r].retries = n
BY DEF TypeOK, Return, NewRequest

(* For any pool, any number of concurrent requests and of retries, the     *)
(* Retries a request is answered with are its calls beyond the first: the  *)
(* attempt counter and the backends tried, which are the two sources of    *)
(* it, agree; and a request that no backend was called for is answered -1  *)
(* (fallback.go:173, 211, 232).                                            *)
THEOREM RetriesTrue == Spec => RetriesTold
<1> DEFINE Told(r) == req[r].pc # "idle" /\ req'[r].pc = "idle"
                         => \/ req'[r].retries = Len(req[r].tried) - 1
                            \/ req'[r].retries = 0 /\ Uncounted(r)
<1>1. ASSUME TypeOK, AttemptsCounted, [Next]_vars, NEW r \in Requests PROVE Told(r)
    <2> SUFFICES ASSUME req[r].pc # "idle", req'[r].pc = "idle"
                 PROVE  \/ req'[r].retries = Len(req[r].tried) - 1
                        \/ req'[r].retries = 0 /\ Uncounted(r)
        OBVIOUS
    <2>0. req[r] \in RequestRecord /\ req \in [Requests -> RequestRecord]
        BY <1>1 DEF TypeOK
    <2>1. Proceed(r)
        BY <1>1, OwnStep DEF Arrive
    <2>2. req[r].pc \in Chosen => Len(req[r].tried) - 1 = req[r].attempt
        <3>1. req[r].pc \in Chosen => Len(req[r].tried) = req[r].attempt + 1
            BY <1>1 DEF AttemptsCounted
        <3>2. req[r].attempt \in Int
            BY <2>0, ConstantsAssumption DEF RequestRecord
        <3> QED BY <3>1, <3>2
    <2>3. CASE Snapshot(r)
        <3>1. filterAvailable(r) = {}
            BY <2>0, <2>3 DEF Snapshot, RequestRecord
        <3>2. Return(r, IF req[r].stream THEN 0 ELSE Exhausted(r))
            BY <2>3, <3>1 DEF Snapshot, NoCandidateLeft
        <3> QED BY <1>1, <2>0, <2>3, <3>2, Answered
                DEF Snapshot, Exhausted, Uncounted, RequestRecord
    <2>4. CASE ChooseForced(r)
        <3>1. Return(r, 0)
            BY <2>0, <2>4 DEF ChooseForced, Send, RequestRecord
        <3> QED BY <1>1, <2>4, <3>1, Answered DEF ChooseForced, Uncounted
    <2>5. CASE ReturnSuccess(r) \/ ForgetRejected(r)
              \/ \E e \in Errors(r) : RefusedForGood(r, e)
        <3>1. Return(r, req[r].attempt) /\ req[r].pc \in Chosen
            BY <2>5 DEF ReturnSuccess, ForgetRejected, RefusedForGood, Fails, Chosen
        <3> QED BY <1>1, <2>2, <3>1, Answered
    <2>6. CASE \E e \in Errors(r) : ManualFails(r, e)
        <3>1. Return(r, 0) /\ req[r].manual
            BY <2>6 DEF ManualFails
        <3> QED BY <1>1, <3>1, Answered DEF Uncounted
    <2>7. CASE Retry(r)
        <3>1. CASE MoreAttempts(r)
            BY <2>0, <2>7, <3>1 DEF Retry, RequestRecord
        <3>2. CASE ~MoreAttempts(r)
            <4>1. Return(r, Exhausted(r))
                BY <2>7, <3>2 DEF Retry
            <4> QED BY <1>1, <4>1, Answered DEF Exhausted
        <3> QED BY <3>1, <3>2
    <2>8. CASE CancelledInBackoff(r)
        <3>1. Return(r, 0)
            BY <2>8 DEF CancelledInBackoff
        <3> QED BY <1>1, <2>8, <3>1, Answered DEF CancelledInBackoff, Uncounted
    <2>9. ~ChooseByStrategy(r)
        <3> SUFFICES ASSUME ChooseByStrategy(r) PROVE FALSE
            OBVIOUS
        <3>1. PICK b : Send(r, b, FALSE)
            BY DEF ChooseByStrategy
        <3> QED BY <2>0, <3>1 DEF Send, RequestRecord
    <2>10. /\ ~ForwardSucceeds(r) /\ ~RecordWinner(r) /\ ~ClearOtherForced(r) /\ ~Escalate(r)
           /\ ~FindForcedRejected(r) /\ ~ClearForcedRejected(r)
        BY <2>0 DEF ForwardSucceeds, RecordWinner, ClearOtherForced, Escalate,
           FindForcedRejected, ClearForcedRejected, RequestRecord
    <2>11. \A e : ~KeyRejected(r, e) /\ ~RateLimited(r, e) /\ ~UpstreamFailed(r, e)
        BY <2>0 DEF KeyRejected, RateLimited, UpstreamFailed, GoOn, RequestRecord
    <2> QED BY <2>1, <2>3, <2>4, <2>5, <2>6, <2>7, <2>8, <2>9, <2>10, <2>11 DEF Proceed
<1>2. TypeOK /\ AttemptsCounted /\ [Next]_vars => [\A r \in Requests : Told(r)]_vars
    BY <1>1
<1>3. IInv => TypeOK /\ AttemptsCounted
    BY DEF IInv
<1> QED BY <1>2, <1>3, Invariance, PTL DEF Spec, RetriesTold

-----------------------------------------------------------------------------
(* What Settled asks of one request. *)
Calm(q) ==
    /\ q.pc = "inflight" => q.manual
    /\ q.pc \in {"inflight", "won"} => q.sel = forced
    /\ q.pc \notin {"unforce", "rejected", "disown"}

(* A step that leaves the forced model alone and its own request calm      *)
(* leaves the requests settled.                                            *)
LEMMA StaysSettled ==
    ASSUME TypeOK, Settled, forced' = forced,
           NEW r \in Requests, NEW q, Calm(q), req' = [req EXCEPT ![r] = q]
    PROVE  Settled'
<1>1. \A s \in Requests : req'[s] = q \/ req'[s] = req[s]
    BY DEF TypeOK
<1>2. \A s \in Requests : Calm(req[s])
    BY DEF Settled, Calm
<1>3. \A s \in Requests : Calm(req'[s])
    BY <1>1, <1>2
<1> QED BY <1>3 DEF Settled, Calm

(* A request that goes on to a program point where nothing is asked of it, *)
(* or that ends, leaves the others settled.                                *)
LEMMA MovesOnSettled ==
    ASSUME TypeOK, Settled, forced' = forced, NEW r \in Requests,
           \/ \E n : Return(r, n)
           \/ \E pc \in Pc \ {"inflight", "won", "unforce", "rejected", "disown"} :
                 /\ req'[r].pc = pc
                 /\ \E q : req' = [req EXCEPT ![r] = q]
    PROVE  Settled'
<1>1. ASSUME NEW n, Return(r, n) PROVE Settled'
    <2>1. Calm([NewRequest EXCEPT !.retries = n])
        BY DEF Calm, NewRequest
    <2> QED BY <1>1, <2>1, StaysSettled DEF Return
<1>2. ASSUME NEW pc \in Pc \ {"inflight", "won", "unforce", "rejected", "disown"},
             req'[r].pc = pc, NEW q, req' = [req EXCEPT ![r] = q]
      PROVE  Settled'
    <2>1. q.pc = pc
        BY <1>2 DEF TypeOK
    <2>2. Calm(q)
        BY <1>2, <2>1 DEF Calm
    <2> QED BY <1>2, <2>2, StaysSettled
<1> QED BY <1>1, <1>2

(* While the requests are settled only the admin unsettles them: a request *)
(* goes to the forced backend or nowhere, and so never finds another one   *)
(* forced than the one that served it.                                     *)
LEMMA SettledStep ==
    ASSUME TypeOK, [Next]_vars, Settled
    PROVE  Settled' \/ AdminSwitches
<1>0. /\ req \in [Requests -> RequestRecord]
      /\ \A s \in Requests : Calm(req[s])
      /\ forced \in Backends
    BY DEF TypeOK, Settled, Calm
<1>1. ASSUME NEW r \in Requests, NEW stream, NEW model, NEW session,
             Arrive(r, stream, model, session)
      PROVE  Settled'
    <2> DEFINE q == [req[r] EXCEPT !.pc = "snapshot", !.stream = stream, !.model = model,
                                   !.session = session, !.retries = 0]
    <2>1. req' = [req EXCEPT ![r] = q]
        BY <1>0, <1>1 DEF Arrive
    <2>2. req'[r].pc = "snapshot"
        BY <1>0, <1>1 DEF Arrive, RequestRecord
    <2> QED BY <1>1, <2>1, <2>2, MovesOnSettled DEF Arrive, Pc
<1>2. ASSUME NEW r \in Requests, Proceed(r) PROVE Settled'
    <2>0. req[r] \in RequestRecord /\ Calm(req[r])
        BY <1>0
    <2>1. CASE ReturnSuccess(r) \/ ForgetRejected(r) \/ CancelledInBackoff(r)
        BY <2>1, MovesOnSettled DEF ReturnSuccess, ForgetRejected, CancelledInBackoff
    <2>2. CASE ClearOtherForced(r) \/ FindForcedRejected(r) \/ ClearForcedRejected(r)
        BY <2>0, <2>2 DEF Calm, ClearOtherForced, FindForcedRejected, ClearForcedRejected
    <2>3. CASE Snapshot(r)
        <3>1. CASE filterAvailable(r) = {}
            BY <2>3, <3>1, MovesOnSettled DEF Snapshot, NoCandidateLeft
        <3>2. CASE filterAvailable(r) # {}
            <4> DEFINE q == [req[r] EXCEPT !.cand = filterAvailable(r), !.pc = "choose"]
            <4>1. req' = [req EXCEPT ![r] = q]
                BY <1>0, <2>3, <3>2 DEF Snapshot
            <4>2. req'[r].pc = "choose"
                BY <1>0, <2>3, <3>2 DEF Snapshot, RequestRecord
            <4> QED BY <2>3, <4>1, <4>2, MovesOnSettled DEF Snapshot, Pc
        <3> QED BY <3>1, <3>2
    <2>4. CASE ChooseForced(r)
        <3>1. CASE Return(r, 0)
            BY <2>4, <3>1, MovesOnSettled DEF ChooseForced
        <3>2. CASE Send(r, forced, TRUE)
            <4> DEFINE q == [req[r] EXCEPT !.pc = "inflight", !.sel = forced, !.manual = TRUE,
                                           !.tried = Append(@, forced), !.cand = {}]
            <4>1. req' = [req EXCEPT ![r] = q]
                BY <1>0, <3>2 DEF Send
            <4>2. Calm(q)
                BY <2>0 DEF Calm, RequestRecord
            <4> HIDE DEF q
            <4> QED BY <2>4, <4>1, <4>2, StaysSettled DEF ChooseForced
        <3> QED BY <2>4, <3>1, <3>2 DEF ChooseForced
    <2>5. CASE ChooseByStrategy(r)
        BY <2>5 DEF Settled, ChooseByStrategy
    <2>6. CASE ForwardSucceeds(r)
        <3> DEFINE q == [req[r] EXCEPT !.pc = "won"]
        <3>1. req' = [req EXCEPT ![r] = q]
            BY <1>0, <2>6 DEF ForwardSucceeds
        <3>2. Calm(q)
            BY <2>0, <2>6 DEF ForwardSucceeds, Calm, RequestRecord
        <3> HIDE DEF q
        <3> QED BY <2>6, <3>1, <3>2, StaysSettled DEF ForwardSucceeds
    <2>7. CASE RecordWinner(r)
        <3> DEFINE q == [req[r] EXCEPT !.pc = "remember"]
        <3>1. req' = [req EXCEPT ![r] = q]
            BY <1>0, <2>0, <2>7 DEF RecordWinner, Calm
        <3>2. req'[r].pc = "remember"
            BY <1>0, <2>0, <3>1 DEF RequestRecord
        <3> QED BY <2>7, <3>1, <3>2, MovesOnSettled DEF RecordWinner, Pc
    <2>8. CASE Escalate(r)
        <3> DEFINE q == [req[r] EXCEPT !.pc = "backoff"]
        <3>1. req' = [req EXCEPT ![r] = q]
            BY <1>0, <2>8 DEF Escalate
        <3>2. req'[r].pc = "backoff"
            BY <1>0, <2>0, <3>1 DEF RequestRecord
        <3> QED BY <2>8, <3>1, <3>2, MovesOnSettled DEF Escalate, Pc
    <2>9. CASE Retry(r)
        <3>1. CASE MoreAttempts(r)
            <4> DEFINE q == [req[r] EXCEPT !.pc = "snapshot", !.attempt = NextAttempt(r),
                                           !.sel = None, !.err = NoError]
            <4>1. req' = [req EXCEPT ![r] = q]
                BY <1>0, <2>9, <3>1 DEF Retry
            <4>2. req'[r].pc = "snapshot"
                BY <1>0, <2>9, <3>1 DEF Retry, RequestRecord
            <4> QED BY <2>9, <4>1, <4>2, MovesOnSettled DEF Retry, Pc
        <3>2. CASE ~MoreAttempts(r)
            BY <2>9, <3>2, MovesOnSettled DEF Retry
        <3> QED BY <3>1, <3>2
    <2>10. ASSUME NEW e, ManualFails(r, e) PROVE Settled'
        BY <2>10, MovesOnSettled DEF ManualFails
    <2>11. ASSUME NEW e, \/ KeyRejected(r, e) \/ RefusedForGood(r, e) \/ RateLimited(r, e)
                         \/ UpstreamFailed(r, e)
           PROVE  FALSE
        BY <2>0, <2>11 DEF Calm, Fails, KeyRejected, RefusedForGood, RateLimited, UpstreamFailed
    <2> QED BY <1>2, <2>1, <2>2, <2>3, <2>4, <2>5, <2>6, <2>7, <2>8, <2>9, <2>10, <2>11
            DEF Proceed
<1>3. ASSUME UNCHANGED <<forced, req>> PROVE Settled'
    BY <1>3 DEF Settled
<1>4. CASE Environment
    BY <1>3, <1>4 DEF Environment, AdminSwitches, TimerExpires, AdminRecover, WindowCloses,
       StickyExpires
<1>5. CASE UNCHANGED vars
    BY <1>3, <1>5 DEF vars
<1> QED BY <1>1, <1>2, <1>4, <1>5 DEF Next

(* Whatever the pool, the upstreams and the concurrent requests do, a      *)
(* forced model that the router's own choices have settled to is left by   *)
(* the admin alone: every call goes to it, and no request, however it      *)
(* ends, clears it (router.go:92, fallback.go:86-101, 149-153, 335).       *)
THEOREM ForcedHeld == Spec => ForcedModelHeld
<1>1. TypeOK /\ [Next]_vars => [Settled => Settled' \/ AdminSwitches]_vars
    BY SettledStep
<1> QED BY <1>1, TypeCorrect, PTL DEF Spec, ForcedModelHeld

-----------------------------------------------------------------------------
(* What the methods make of a backend's error count. *)
LEMMA ConsecOf ==
    ASSUME NEW b \in BackendModel
    PROVE  /\ MarkSuccess(b).consec = 0
           /\ MarkFailure(b).consec = b.consec + 1
           /\ MarkKeyInvalid(b).consec = b.consec
           /\ EnterCooldown(b, 1).consec = b.consec
           /\ b.status = "invalid" => Recover(b) = b
           /\ b.status # "invalid" => Recover(b).consec = 0
BY DEF BackendModel, MarkSuccess, MarkFailure, MarkKeyInvalid, EnterCooldown, Recover

(* The steps that an observer counts do to the error count what he does.   *)
LEMMA Counted ==
    ASSUME TypeOK, NEW b \in Backends
    PROVE  /\ StartsAnew(b) => backend'[b].consec = 0
           /\ \A r \in Requests : req[r].sel = b /\ AnswersInWhole(r) => backend'[b].consec = 0
           /\ \A r \in Requests :
                 req[r].sel = b /\ Fault(r) => backend'[b].consec = backend[b].consec + 1
<1>0. backend[b] \in BackendModel /\ backend \in [Backends -> BackendModel]
    BY DEF TypeOK
<1>1. StartsAnew(b) => backend'[b].consec = 0
    <2> SUFFICES ASSUME StartsAnew(b) PROVE backend'[b].consec = 0
        OBVIOUS
    <2>1. backend' = [backend EXCEPT ![b] = Recover(@)] /\ backend[b].status # "invalid"
        BY DEF StartsAnew, TimerExpires, AdminRecover
    <2> QED BY <1>0, <2>1, ConsecOf
<1>2. ASSUME NEW r \in Requests, req[r].sel = b, AnswersInWhole(r) PROVE backend'[b].consec = 0
    <2>1. backend' = [backend EXCEPT ![b] = MarkSuccess(@)]
        BY <1>2 DEF AnswersInWhole, ForwardSucceeds, Credited
    <2> QED BY <1>0, <2>1, ConsecOf
<1>3. ASSUME NEW r \in Requests, req[r].sel = b, Fault(r)
      PROVE  backend'[b].consec = backend[b].consec + 1
    <2>1. MarkFailed(r)
        BY <1>3 DEF Fault, UpstreamFailed, RefusedForGood, ManualFails
    <2>2. backend' = [backend EXCEPT ![b] = MarkFailure(@)]
        BY <1>3, <2>1 DEF MarkFailed
    <2> QED BY <1>0, <2>2, ConsecOf
<1> QED BY <1>1, <1>2, <1>3

(* No other step touches it.                                               *)
LEMMA Uncounting ==
    ASSUME TypeOK, [Next]_vars, NEW b \in Backends, ~StartsAnew(b),
           \A r \in Requests : req[r].sel = b => ~AnswersInWhole(r) /\ ~Fault(r)
    PROVE  backend'[b].consec = backend[b].consec
<1>0. /\ \A c \in Backends : backend[c] \in BackendModel
      /\ backend \in [Backends -> BackendModel]
    BY DEF TypeOK
<1> DEFINE Same == backend'[b].consec = backend[b].consec
<1>1. CASE UNCHANGED backend
    BY <1>1
<1>2. ASSUME NEW c, \/ backend' = [backend EXCEPT ![c] = MarkKeyInvalid(@)]
                    \/ backend' = [backend EXCEPT ![c] = EnterCooldown(@, 1)]
      PROVE  Same
    <2>1. CASE c # b
        BY <1>0, <1>2, <2>1
    <2>2. CASE c = b
        BY <1>0, <1>2, <2>2, ConsecOf
    <2> QED BY <2>1, <2>2
<1>3. ASSUME NEW c \in Backends, TimerExpires(c) \/ AdminRecover(c) PROVE Same
    <2>1. backend' = [backend EXCEPT ![c] = Recover(@)]
        BY <1>3 DEF TimerExpires, AdminRecover
    <2>2. CASE c # b
        BY <1>0, <2>1, <2>2
    <2>3. CASE c = b
        <3>1. backend[b].status = "invalid"
            BY <1>3, <2>3 DEF StartsAnew
        <3> QED BY <1>0, <2>1, <2>3, <3>1, ConsecOf
    <2> QED BY <2>2, <2>3
<1>4. ASSUME NEW r \in Requests, MarkFailed(r), req[r].sel # b PROVE Same
    BY <1>0, <1>4 DEF MarkFailed
<1>5. ASSUME NEW r \in Requests, Proceed(r) PROVE Same
    <2>1. CASE ForwardSucceeds(r)
        <3>1. CASE req[r].stream
            BY <1>1, <2>1, <3>1 DEF ForwardSucceeds, Credited
        <3>2. CASE ~req[r].stream
            <4>1. req[r].sel # b
                BY <2>1, <3>2 DEF AnswersInWhole
            <4>2. backend' = [backend EXCEPT ![req[r].sel] = MarkSuccess(@)]
                BY <2>1, <3>2 DEF ForwardSucceeds, Credited
            <4> QED BY <1>0, <4>1, <4>2
        <3> QED BY <3>1, <3>2
    <2>2. ASSUME NEW e \in Errors(r),
                 ManualFails(r, e) \/ KeyRejected(r, e) \/ RefusedForGood(r, e)
                 \/ UpstreamFailed(r, e)
          PROVE  Same
        <3>1. CASE MarkInvalid(r)
            BY <1>2, <3>1 DEF MarkInvalid
        <3>2. CASE ~MarkInvalid(r)
            <4>1. MarkFailed(r)
                BY <2>2, <3>2 DEF ManualFails, KeyRejected, RefusedForGood, UpstreamFailed
            <4>2. CASE e.markKeyInvalid
                <5>1. UpstreamFailed(r, e)
                    BY <2>2, <3>2, <4>2 DEF ManualFails, KeyRejected, RefusedForGood
                <5>2. e.retryable
                    BY <5>1 DEF UpstreamFailed
                <5>3. FALSE
                    BY <4>2, <5>2, InvalidIsFinal
                <5> QED BY <5>3
            <4>3. CASE ~e.markKeyInvalid
                <5>1. Fault(r)
                    BY <2>2, <4>3 DEF Fault, KeyRejected
                <5>2. req[r].sel # b
                    BY <5>1
                <5> QED BY <1>4, <4>1, <5>2
            <4> QED BY <4>2, <4>3
        <3> QED BY <3>1, <3>2
    <2>3. CASE Escalate(r) \/ \E e \in Errors(r) : RateLimited(r, e)
        BY <1>1, <1>2, <2>3 DEF Escalate, RateLimited, Cooled
    <2>4. CASE Snapshot(r) \/ ChooseForced(r) \/ ChooseByStrategy(r) \/ RecordWinner(r)
               \/ ClearOtherForced(r) \/ ReturnSuccess(r) \/ FindForcedRejected(r)
               \/ ClearForcedRejected(r) \/ ForgetRejected(r) \/ Retry(r)
               \/ CancelledInBackoff(r)
        BY <1>1, <2>4 DEF Snapshot, ChooseForced, ChooseByStrategy, RecordWinner,
           ClearOtherForced, ReturnSuccess, FindForcedRejected, ClearForcedRejected,
           ForgetRejected, Retry, CancelledInBackoff
    <2> HIDE DEF Same
    <2> QED BY <1>5, <2>1, <2>2, <2>3, <2>4 DEF Proceed
<1>6. CASE Environment
    <2>1. \/ UNCHANGED backend
          \/ \E c \in Backends : TimerExpires(c)
          \/ \E c \in Recoverable : AdminRecover(c)
        BY <1>6 DEF Environment, SwitchModel, SwitchAuto, WindowCloses, StickyExpires
    <2>2. Recoverable \subseteq Backends
        BY ConstantsAssumption
    <2> QED BY <1>1, <1>3, <2>1, <2>2, Zenon
<1>7. CASE \E r \in Requests, stream \in Streaming, model \in Models,
               session \in Sessions \cup {None} : Arrive(r, stream, model, session)
    BY <1>1, <1>7 DEF Arrive
<1>8. CASE UNCHANGED vars
    BY <1>1, <1>8 DEF vars
<1> HIDE DEF Same
<1> QED BY <1>5, <1>6, <1>7, <1>8 DEF Next, Same

LEMMA CountKept ==
    ASSUME TypeOK, ConsecIsConsecutive, [HistoryNext]_historyVars
    PROVE  ConsecIsConsecutive'
<1>1. CASE UNCHANGED historyVars
    BY <1>1 DEF historyVars, ConsecIsConsecutive
<1>2. CASE HistoryNext
    <2>0. [Next]_vars
        BY <1>2 DEF HistoryNext
    <2> SUFFICES ASSUME NEW b \in Backends PROVE backend'[b].consec = streak'[b]
        BY DEF ConsecIsConsecutive
    <2> DEFINE Anew == StartsAnew(b) \/ \E r \in Requests : req[r].sel = b /\ AnswersInWhole(r)
               Again == \E r \in Requests : req[r].sel = b /\ Fault(r)
    <2>1. streak'[b] = IF Anew THEN 0 ELSE IF Again THEN streak[b] + 1 ELSE streak[b]
        BY <1>2, Zenon DEF HistoryNext
    <2>2. backend[b].consec = streak[b]
        BY DEF ConsecIsConsecutive
    <2>3. Anew => backend'[b].consec = 0
        BY Counted
    <2>4. Again => backend'[b].consec = backend[b].consec + 1
        BY Counted
    <2>5. ~Anew /\ ~Again => backend'[b].consec = backend[b].consec
        BY <2>0, Uncounting
    <2> HIDE DEF Anew, Again
    <2> QED BY <2>1, <2>2, <2>3, <2>4, <2>5
<1> QED BY <1>1, <1>2

(* For any pool and any number of concurrent requests, streams among them, *)
(* timers and recoveries, a backend's error count is the number of its     *)
(* failures since it last answered in whole or was recovered               *)
(* (fallback.go:31-32).                                                    *)
THEOREM ErrorsInARow == HistorySpec => []ConsecIsConsecutive
<1>1. HistoryInit => Init /\ ConsecIsConsecutive
    BY DEF HistoryInit, Init, NewBackendModel, ConsecIsConsecutive
<1>2. [HistoryNext]_historyVars => [Next]_vars
    BY DEF HistoryNext, historyVars, vars
<1>3. TypeOK /\ ConsecIsConsecutive /\ [HistoryNext]_historyVars => ConsecIsConsecutive'
    BY CountKept
<1> QED BY <1>1, <1>2, <1>3, TypeCorrect, PTL DEF HistorySpec, Spec
=============================================================================
