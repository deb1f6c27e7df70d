-------------------------- MODULE HealthCheckerProofs --------------------------
(***************************************************************************)
(* What Stop leaves behind, who is marked as being checked, and what the   *)
(* probes' unlocked writes can make of a cooldown and of a rejected key,   *)
(* for any pool and any number of probes and requests.                     *)
(***************************************************************************)
EXTENDS HealthChecker, TLAPS

(* A probe writes one of two statuses.  TypeOK would let it write          *)
(* "cooldown", and begin one that nobody ends.                             *)
WritesNoCooldown ==
    \A p \in Probes : probe[p].pc = "writing" =>
        probe[p].target \in {"invalid", "exhausted"}

(* A loop that has returned has no round under way.                        *)
EndedInSelect == loop.ended => loop.todo = {}

IInv ==
    /\ TypeOK
    /\ WritesNoCooldown
    /\ EndedInSelect
    /\ StoppedIsQuiet
    /\ CheckingHasProbe

-----------------------------------------------------------------------------
(* What the methods of a backend make of it, whatever its status. *)
LEMMA Methods ==
    ASSUME NEW b \in AnyBackend
    PROVE  /\ MarkSuccess(b) \in AnyBackend /\ MarkSuccess(b).status = b.status
           /\ MarkSuccess(b).consec = 0
           /\ MarkFailure(b) \in AnyBackend /\ MarkFailure(b).status = b.status
           /\ MarkFailure(b).consec = b.consec + 1
           /\ MarkKeyInvalid(b) \in AnyBackend /\ MarkKeyInvalid(b).status = "invalid"
           /\ MarkKeyInvalid(b).consec = b.consec
           /\ Cooled(b) \in AnyBackend /\ Cooled(b).status = "cooldown"
           /\ Cooled(b).consec = b.consec
           /\ Recover(b) \in AnyBackend /\ Recover(b).status \in {"healthy", "invalid"}
           /\ Recover(b).consec \in {0, b.consec}
           /\ b.status = "invalid" => Recover(b) = b
<1> USE DEF AnyBackend, AnyStatus, Status
<1>1. MarkSuccess(b) \in AnyBackend /\ MarkSuccess(b).status = b.status
      /\ MarkSuccess(b).consec = 0
    BY DEF MarkSuccess
<1>2. MarkFailure(b) \in AnyBackend /\ MarkFailure(b).status = b.status
      /\ MarkFailure(b).consec = b.consec + 1
    BY DEF MarkFailure
<1>3. MarkKeyInvalid(b) \in AnyBackend /\ MarkKeyInvalid(b).status = "invalid"
      /\ MarkKeyInvalid(b).consec = b.consec
    BY DEF MarkKeyInvalid
<1>4. Cooled(b) \in AnyBackend /\ Cooled(b).status = "cooldown"
      /\ Cooled(b).consec = b.consec
    BY DEF Cooled, EnterCooldown, Remaining
<1>5. Recover(b) \in AnyBackend /\ Recover(b).status \in {"healthy", "invalid"}
      /\ Recover(b).consec \in {0, b.consec}
      /\ (b.status = "invalid" => Recover(b) = b)
    BY DEF Recover
<1> QED BY <1>1, <1>2, <1>3, <1>4, <1>5

(* The ways a step can change one backend, and what it needs for it.       *)
BackendStep(b) ==
    \/ backend'[b] = backend[b]
    \/ backend'[b] = MarkSuccess(backend[b])
    \/ backend'[b] = MarkFailure(backend[b]) /\ backend[b].consec < MaxConsec
    \/ backend'[b] = MarkKeyInvalid(backend[b])
    \/ /\ \/ backend'[b] = Cooled(backend[b])
          \/ /\ backend'[b] = Cooled(MarkFailure(backend[b]))
             /\ backend[b].consec < MaxConsec
       /\ \E r \in Requests : /\ req[r] = [pc |-> "inflight", key |-> b]
                              /\ req'[r] = [pc |-> "marked", key |-> b]
    \/ backend'[b] = Recover(backend[b])
    \/ \E p \in Probes :
          /\ probe[p].key = b /\ probe[p].pc = "writing" /\ probe'[p].pc = "done"
          /\ \E s \in {probe[p].target, backend[b].status, "garbled"} :
                backend'[b] = [backend[b] EXCEPT !.status = s]

LEMMA EveryBackendStep ==
    ASSUME TypeOK, [Next]_vars, NEW b \in Backends
    PROVE  BackendStep(b)
<1> USE DEF BackendStep
<1>0. /\ backend \in [Backends -> AnyBackend]
      /\ req \in [Requests -> [pc : RequestPc, key : Backends \cup {None}]]
      /\ \A r \in Requests : req[r].pc # "idle" => req[r].key \in Backends
      /\ \A c \in Callbacks : callback[c].pc # "free" => callback[c].key \in Backends
    BY DEF TypeOK
<1>1. CASE UNCHANGED backend
    BY <1>1
<1>2. ASSUME NEW p \in Probes, ProbeStep(p) PROVE BackendStep(b)
    <2>1. CASE ProbeSucceeds(p) \/ RecoverProbed(p) \/ ProbeFails(p)
        BY <1>0, <2>1 DEF ProbeSucceeds, RecoverProbed, ProbeFails, Probed
    <2>2. CASE EndWrite(p)
        <3>1. probe[p].pc = "writing" /\ probe'[p].pc = "done"
            BY <2>2 DEF EndWrite, At, Free, TypeOK
        <3>2. PICK s \in {probe[p].target, Probed(p).status, "garbled"} :
                 backend' = [backend EXCEPT ![probe[p].key].status = s]
            BY <2>2 DEF EndWrite
        <3>3. CASE probe[p].key = b
            BY <1>0, <3>1, <3>2, <3>3 DEF Probed
        <3>4. CASE probe[p].key # b
            BY <1>0, <3>1, <3>2, <3>4
        <3> QED BY <3>3, <3>4
    <2>3. CASE \/ SetChecking(p) \/ Guard(p) \/ FindIll(p) \/ ProbeRejected(p) \/ ReadCount(p)
               \/ ProbeIgnored(p) \/ ClearChecking(p)
        BY <1>1, <2>3 DEF SetChecking, Guard, FindIll, ProbeRejected, ReadCount, ProbeIgnored,
           ClearChecking
    <2> QED BY <1>2, <2>1, <2>2, <2>3 DEF ProbeStep
<1>3. ASSUME NEW r \in Requests, RequestStep(r) PROVE BackendStep(b)
    <2>1. CASE (\E c \in Backends : Send(r, c)) \/ ArmTimer(r)
        BY <1>1, <2>1 DEF Send, ArmTimer
    <2>2. CASE RequestSucceeds(r) \/ KeyRejected(r) \/ StreamEnds(r)
        BY <1>0, <2>2 DEF RequestSucceeds, KeyRejected, StreamEnds, Answered, Asked
    <2>3. ASSUME req[r].pc = "inflight", req' = [req EXCEPT ![r] = Onward(r, "marked")],
                 req[r].key = b
          PROVE  req[r] = [pc |-> "inflight", key |-> b] /\ req'[r] = [pc |-> "marked", key |-> b]
        BY <1>0, <2>3 DEF Onward
    <2>4. CASE RateLimited(r)
        BY <1>0, <2>3, <2>4 DEF RateLimited, Answered, Asked
    <2>5. CASE RequestFails(r)
        BY <1>0, <2>3, <2>5 DEF RequestFails, Answered, Asked
    <2> QED BY <1>3, <2>1, <2>2, <2>4, <2>5 DEF RequestStep
<1>4. ASSUME NEW c \in Callbacks, CallbackStep(c) PROVE BackendStep(b)
    BY <1>0, <1>4 DEF CallbackStep, TimerFires, RecoverBackend, DropTimer
<1>5. ASSUME NEW c \in Backends, AdminRecover(c) PROVE BackendStep(b)
    BY <1>0, <1>5 DEF AdminRecover
<1>6. CASE LoopStep \/ LoopEnds \/ CloseStopCh \/ StopReturns \/ UNCHANGED vars
    BY <1>1, <1>6 DEF LoopStep, SkipChecking, SpawnProbe, Tick, LoopEnds, CloseStopCh,
       StopReturns, vars
<1> QED BY <1>2, <1>3, <1>4, <1>5, <1>6 DEF Next

(* Who would have ended a cooldown is gone: he has done so, or the second  *)
(* section of a Recover has dropped him.                                   *)
LEMMA CoverStep ==
    ASSUME TypeOK, [Next]_vars, NEW b \in Backends, Covered(b)
    PROVE  Covered(b)' \/ Drops(b) \/ backend'[b] = Recover(backend[b])
<1>0. /\ backend \in [Backends -> AnyBackend]
      /\ req \in [Requests -> [pc : RequestPc, key : Backends \cup {None}]]
      /\ callback \in [Callbacks -> [pc : CallbackPc, key : Backends \cup {None}]]
    BY DEF TypeOK
<1>1. CASE UNCHANGED Environment
    BY <1>1 DEF Covered, Environment
<1>2. ASSUME NEW r \in Requests, RequestStep(r) PROVE Covered(b)'
    <2>1. UNCHANGED callback /\ armed \subseteq armed'
        BY <1>2 DEF RequestStep, Send, RequestSucceeds, StreamEnds, KeyRejected, RateLimited,
           RequestFails, ArmTimer, Answered
    <2>2. ASSUME NEW q \in Requests, req[q] = [pc |-> "marked", key |-> b],
                 req'[q] # [pc |-> "marked", key |-> b]
          PROVE  b \in armed'
        <3>1. q = r \/ req'[q] = req[q]
            BY <1>0, <1>2 DEF RequestStep, Send, RequestSucceeds, StreamEnds, KeyRejected,
               RateLimited, RequestFails, ArmTimer, Answered
        <3>2. req[r].pc = "marked" => ArmTimer(r)
            BY <1>2 DEF RequestStep, Send, RequestSucceeds, StreamEnds, KeyRejected,
               RateLimited, RequestFails, Answered
        <3> QED BY <2>2, <3>1, <3>2 DEF ArmTimer
    <2> QED BY <2>1, <2>2 DEF Covered
<1>3. ASSUME NEW c \in Callbacks, CallbackStep(c)
      PROVE  Covered(b)' \/ Drops(b) \/ backend'[b] = Recover(backend[b])
    <2>1. ASSUME NEW d \in Backends, TimerFires(d, c) PROVE Covered(b)'
        BY <1>0, <2>1 DEF TimerFires, Covered
    <2>2. CASE RecoverBackend(c)
        BY <1>0, <2>2 DEF RecoverBackend, Covered
    <2>3. CASE DropTimer(c)
        BY <1>0, <2>3 DEF DropTimer, Covered, Drops
    <2> QED BY <1>3, <2>1, <2>2, <2>3 DEF CallbackStep
<1>4. ASSUME NEW p \in Probes, ProbeStep(p) PROVE UNCHANGED Environment
    BY <1>4 DEF ProbeStep, SetChecking, Guard, ProbeSucceeds, FindIll, RecoverProbed,
       ProbeRejected, ProbeFails, ReadCount, ProbeIgnored, EndWrite, ClearChecking
<1>5. CASE \/ LoopStep \/ LoopEnds \/ CloseStopCh \/ StopReturns \/ UNCHANGED vars
           \/ \E c \in Backends : AdminRecover(c)
    BY <1>1, <1>5 DEF LoopStep, SkipChecking, SpawnProbe, Tick, LoopEnds, CloseStopCh,
       StopReturns, AdminRecover, vars, Environment
<1> QED BY <1>1, <1>2, <1>3, <1>4, <1>5 DEF Next

-----------------------------------------------------------------------------
(* The shared part of the state keeps its type. *)
RequestRecord == [pc : RequestPc, key : Backends \cup {None}]
CallbackRecord == [pc : CallbackPc, key : Backends \cup {None}]

FrameOK ==
    /\ armed \subseteq Backends
    /\ req \in [Requests -> {q \in RequestRecord : q.pc # "idle" => q.key \in Backends}]
    /\ callback \in [Callbacks -> {q \in CallbackRecord : q.pc # "free" => q.key \in Backends}]

SharedOK ==
    /\ backend \in [Backends -> AnyBackend]
    /\ \A b \in Backends : backend[b].consec <= MaxConsec
    /\ FrameOK

LEMMA FrameStep == ASSUME SharedOK, [Next]_vars PROVE FrameOK'
<1> USE DEF FrameOK
<1>0. FrameOK
    BY DEF SharedOK
<1>1. CASE UNCHANGED Environment
    BY <1>0, <1>1 DEF Environment
<1>2. ASSUME NEW r \in Requests, RequestStep(r) PROVE FrameOK'
    <2>1. PICK q \in RequestRecord :
              /\ q.pc # "idle" => q.key \in Backends
              /\ req' = [req EXCEPT ![r] = q]
              /\ armed' \subseteq Backends /\ UNCHANGED callback
        <3> USE DEF RequestRecord, RequestPc
        <3>1. ASSUME NEW b \in Backends, Send(r, b) PROVE [pc |-> "inflight", key |-> b] \in RequestRecord
            OBVIOUS
        <3>2. NoRequest \in RequestRecord /\ NoRequest.pc = "idle"
            BY DEF NoRequest
        <3>3. ASSUME req[r].pc = "inflight"
              PROVE  /\ Onward(r, "marked") \in RequestRecord
                     /\ Onward(r, "marked").key \in Backends
            BY <1>0, <3>3 DEF Onward
        <3>4. CASE \E b \in Backends : Send(r, b)
            BY <1>0, <3>1, <3>4 DEF Send
        <3>5. CASE RequestSucceeds(r) \/ StreamEnds(r) \/ KeyRejected(r)
            BY <1>0, <3>2, <3>5 DEF RequestSucceeds, StreamEnds, KeyRejected, Answered
        <3>6. CASE RateLimited(r) \/ RequestFails(r)
            BY <1>0, <3>2, <3>3, <3>6 DEF RateLimited, RequestFails, Answered
        <3>7. CASE ArmTimer(r)
            BY <1>0, <3>2, <3>7 DEF ArmTimer
        <3> QED BY <1>2, <3>4, <3>5, <3>6, <3>7 DEF RequestStep
    <2> QED BY <1>0, <2>1
<1>3. ASSUME NEW c \in Callbacks, CallbackStep(c) PROVE FrameOK'
    BY <1>0, <1>3 DEF CallbackStep, TimerFires, RecoverBackend, DropTimer, CallbackRecord,
       CallbackPc, NoCallback
<1>4. ASSUME NEW p \in Probes, ProbeStep(p) PROVE UNCHANGED Environment
    BY <1>4 DEF ProbeStep, SetChecking, Guard, ProbeSucceeds, FindIll, RecoverProbed,
       ProbeRejected, ProbeFails, ReadCount, ProbeIgnored, EndWrite, ClearChecking
<1>5. CASE \/ LoopStep \/ LoopEnds \/ CloseStopCh \/ StopReturns \/ UNCHANGED vars
           \/ \E c \in Backends : AdminRecover(c)
    BY <1>1, <1>5 DEF LoopStep, SkipChecking, SpawnProbe, Tick, LoopEnds, CloseStopCh,
       StopReturns, AdminRecover, vars, Environment
<1> QED BY <1>1, <1>2, <1>3, <1>4, <1>5 DEF Next

LEMMA SharedStep == ASSUME TypeOK, SharedOK, [Next]_vars PROVE SharedOK'
<1>0. SharedOK
    OBVIOUS
<1>1. FrameOK'
    BY FrameStep
<1>2. ASSUME NEW b \in Backends PROVE backend'[b] \in AnyBackend /\ backend'[b].consec <= MaxConsec
    <2>1. backend[b] \in AnyBackend /\ backend[b].consec <= MaxConsec
        BY <1>0 DEF SharedOK
    <2>2. backend[b].consec \in Nat
        BY <2>1 DEF AnyBackend
    <2> DEFINE Written == \E p \in Probes : \E s \in {probe[p].target, backend[b].status, "garbled"} :
                  backend'[b] = [backend[b] EXCEPT !.status = s]
    <2>3. CASE Written
        <3>1. \A p \in Probes : probe[p].target \in Status
            BY DEF TypeOK
        <3> QED BY <2>1, <2>3, <3>1 DEF AnyBackend, AnyStatus
    <2>4. CASE ~Written
        <3>1. \/ backend'[b] = backend[b]
              \/ backend'[b] = MarkSuccess(backend[b])
              \/ backend'[b] = MarkFailure(backend[b]) /\ backend[b].consec < MaxConsec
              \/ backend'[b] = MarkKeyInvalid(backend[b])
              \/ backend'[b] = Cooled(backend[b])
              \/ /\ backend'[b] = Cooled(MarkFailure(backend[b]))
                 /\ backend[b].consec < MaxConsec
              \/ backend'[b] = Recover(backend[b])
            <4>1. BackendStep(b)
                BY EveryBackendStep
            <4> QED BY <2>4, <4>1 DEF BackendStep
        <3>2. MaxConsec \in Nat
            BY ConstantsAssumption
        <3>3. /\ MarkFailure(backend[b]) \in AnyBackend
              /\ MarkFailure(backend[b]).consec = backend[b].consec + 1
            BY <2>1, Methods
        <3>4. /\ Cooled(MarkFailure(backend[b])) \in AnyBackend
              /\ Cooled(MarkFailure(backend[b])).consec = backend[b].consec + 1
            BY <3>3, Methods
        <3> QED BY <2>1, <2>2, <3>1, <3>2, <3>3, <3>4, Methods
    <2> QED BY <2>3, <2>4
<1>3. backend' = [b \in Backends |-> backend'[b]]
    <2>1. CASE UNCHANGED backend
        BY <1>0, <2>1 DEF SharedOK
    <2>2. ASSUME NEW p \in Probes, ProbeStep(p) PROVE backend' = [b \in Backends |-> backend'[b]]
        BY <1>0, <2>1, <2>2 DEF SharedOK, ProbeStep, SetChecking, Guard, ProbeSucceeds, FindIll,
           RecoverProbed, ProbeRejected, ProbeFails, ReadCount, ProbeIgnored, EndWrite,
           ClearChecking
    <2>3. ASSUME NEW r \in Requests, RequestStep(r) PROVE backend' = [b \in Backends |-> backend'[b]]
        BY <1>0, <2>1, <2>3 DEF SharedOK, RequestStep, Send, RequestSucceeds, StreamEnds,
           KeyRejected, RateLimited, RequestFails, ArmTimer, Answered
    <2>4. CASE (\E c \in Callbacks : CallbackStep(c)) \/ (\E b \in Backends : AdminRecover(b))
        BY <1>0, <2>1, <2>4 DEF SharedOK, CallbackStep, TimerFires, RecoverBackend, DropTimer,
           AdminRecover
    <2>5. CASE LoopStep \/ LoopEnds \/ CloseStopCh \/ StopReturns \/ UNCHANGED vars
        BY <2>1, <2>5 DEF LoopStep, SkipChecking, SpawnProbe, Tick, LoopEnds, CloseStopCh,
           StopReturns, vars
    <2> QED BY <2>2, <2>3, <2>4, <2>5 DEF Next
<1> QED BY <1>1, <1>2, <1>3 DEF SharedOK

-----------------------------------------------------------------------------
(* The checker's own state, probe by probe. *)
ProbeRecord == [pc : ProbePc, key : Backends \cup {None}, target : Status, before : AnyStatus]

ProbeOK(q) ==
    /\ q \in ProbeRecord
    /\ IF q.pc = "free" THEN q = Free ELSE q.key \in Backends
    /\ q.pc = "writing" => q.target \in {"invalid", "exhausted"}

ProbesOK == probe \in [Probes -> {q \in ProbeRecord : ProbeOK(q)}]

CheckerOK ==
    /\ ProbesOK
    /\ checking \subseteq Backends
    /\ loop \in [ended : BOOLEAN, todo : SUBSET Backends]
    /\ EndedInSelect
    /\ stop \in StopPc
    /\ StoppedIsQuiet
    /\ CheckingHasProbe

(* A probe of a backend goes on with it, and none is brought to life. *)
LEMMA ProbeGoesOn ==
    ASSUME CheckerOK, NEW p \in Probes, Alive(p), NEW q, ProbeOK(q), q.pc # "free",
           q.key = probe[p].key, probe' = [probe EXCEPT ![p] = q],
           checking' \subseteq checking \cup {q.key}, UNCHANGED <<loop, stop>>
    PROVE  CheckerOK'
<1>0. probe \in [Probes -> ProbeRecord]
    BY DEF CheckerOK, ProbesOK
<1>1. ProbesOK' /\ EndedInSelect'
    BY DEF CheckerOK, ProbesOK, ProbeOK, EndedInSelect
<1>2. checking' \subseteq Backends
    BY DEF CheckerOK, ProbeOK
<1>3. StoppedIsQuiet'
    BY <1>0 DEF CheckerOK, StoppedIsQuiet, Alive
<1>4. CheckingHasProbe'
    <2> SUFFICES ASSUME NEW b \in checking' PROVE \E r \in Probes : probe'[r].pc # "free" /\ probe'[r].key = b
        BY DEF CheckingHasProbe, Alive
    <2>1. CASE b = q.key
        BY <1>0, <2>1
    <2>2. CASE b # q.key
        <3>1. PICK r \in Probes : probe[r].pc # "free" /\ probe[r].key = b
            BY <2>2 DEF CheckerOK, CheckingHasProbe, Alive
        <3> QED BY <1>0, <2>2, <3>1
    <2> QED BY <2>1, <2>2
<1> QED BY <1>1, <1>2, <1>3, <1>4 DEF CheckerOK

LEMMA CheckerStep == ASSUME SharedOK, CheckerOK, [Next]_vars PROVE CheckerOK'
<1>0. /\ \A p \in Probes : probe[p] \in ProbeRecord /\ ProbeOK(probe[p])
      /\ probe \in [Probes -> ProbeRecord]
    BY DEF CheckerOK, ProbesOK
<1>1. ASSUME UNCHANGED <<checking, probe, loop, stop>> PROVE CheckerOK'
    BY <1>1 DEF CheckerOK, ProbesOK, ProbeOK, StoppedIsQuiet, CheckingHasProbe, EndedInSelect,
       Alive
(* The probes: they go on within the round ... *)
<1>2. ASSUME NEW p \in Probes, Alive(p), NEW pc \in ProbePc \ {"free", "writing"},
             Goto(p, pc), checking' \subseteq checking \cup {probe[p].key},
             UNCHANGED <<loop, stop>>
      PROVE  CheckerOK'
    <2> DEFINE q == [probe[p] EXCEPT !.pc = pc]
    <2>1. ProbeOK(q) /\ q.pc # "free" /\ q.key = probe[p].key
        BY <1>0, <1>2 DEF Alive, ProbeOK, ProbeRecord
    <2>2. probe' = [probe EXCEPT ![p] = q]
        BY <1>2 DEF Goto
    <2> HIDE DEF q
    <2> QED BY <1>2, <2>1, <2>2, ProbeGoesOn
<1>3. ASSUME NEW p \in Probes,
             \/ SetChecking(p) \/ Guard(p) \/ ProbeSucceeds(p) \/ FindIll(p) \/ RecoverProbed(p)
             \/ ProbeFails(p) \/ ProbeIgnored(p)
      PROVE  CheckerOK'
    <2>1. PICK pc \in {"guard", "probing", "done", "credited", "recover", "counted"} :
              /\ Goto(p, pc) /\ UNCHANGED <<loop, stop>>
              /\ checking' \subseteq checking \cup {probe[p].key}
              /\ Alive(p)
        BY <1>3 DEF SetChecking, Guard, ProbeSucceeds, FindIll, RecoverProbed, ProbeFails,
           ProbeIgnored, At, Alive
    <2>2. pc \in ProbePc \ {"free", "writing"}
        BY DEF ProbePc
    <2> QED BY <1>2, <2>1, <2>2
(* ... or write a status ... *)
<1>4. ASSUME NEW p \in Probes, Alive(p), NEW t \in {"invalid", "exhausted"}, BeginWrite(p, t),
             UNCHANGED <<checking, loop, stop>>
      PROVE  CheckerOK'
    <2> DEFINE u == Probed(p).status
               q == [probe[p] EXCEPT !.pc = "writing", !.target = t, !.before = u]
    <2>1. t \in Status /\ u \in AnyStatus
        BY <1>0, <1>4 DEF Status, SharedOK, ProbeOK, Alive, Probed, AnyBackend
    <2>2. probe' = [probe EXCEPT ![p] = q]
        BY <1>4 DEF BeginWrite
    <2> HIDE DEF u
    <2>3. ProbeOK(q) /\ q.pc # "free" /\ q.key = probe[p].key
        BY <1>0, <1>4, <2>1 DEF Alive, ProbeOK, ProbeRecord, ProbePc
    <2> HIDE DEF q
    <2> QED BY <1>4, <2>2, <2>3, ProbeGoesOn
<1>5. ASSUME NEW p \in Probes, ReadCount(p) \/ ProbeRejected(p) PROVE CheckerOK'
    <2>1. Alive(p) /\ UNCHANGED <<checking, loop, stop>>
        BY <1>5 DEF ReadCount, ProbeRejected, At, Alive
    <2>2. CASE Goto(p, "done")
        BY <1>2, <2>1, <2>2 DEF ProbePc
    <2>3. CASE BeginWrite(p, "exhausted") \/ BeginWrite(p, "invalid")
        BY <1>4, <2>1, <2>3
    <2> QED BY <1>5, <2>2, <2>3 DEF ReadCount, ProbeRejected, Disabled
<1>6. ASSUME NEW p \in Probes, EndWrite(p) PROVE CheckerOK'
    <2> DEFINE q == [Free EXCEPT !.pc = "done", !.key = probe[p].key]
    <2>1. Alive(p) /\ UNCHANGED <<checking, loop, stop>> /\ probe' = [probe EXCEPT ![p] = q]
        BY <1>6 DEF EndWrite, At, Alive
    <2>2. ProbeOK(q) /\ q.pc # "free" /\ q.key = probe[p].key
        BY <1>0, <2>1 DEF Alive, ProbeOK, ProbeRecord, ProbePc, Free, Status, AnyStatus
    <2> HIDE DEF q
    <2> QED BY <2>1, <2>2, ProbeGoesOn
(* ... and take the mark of their backend with them. *)
<1>7. ASSUME NEW p \in Probes, ClearChecking(p) PROVE CheckerOK'
    <2>1. /\ probe' = [probe EXCEPT ![p] = Free] /\ checking' = checking \ {probe[p].key}
          /\ UNCHANGED <<loop, stop>> /\ probe[p].pc # "free"
        BY <1>7 DEF ClearChecking, Unchecked, At
    <2>2. ProbeOK(Free) /\ Free \in ProbeRecord
        BY DEF ProbeOK, ProbeRecord, Free, ProbePc, Status, AnyStatus
    <2>3. ProbesOK'
        BY <1>0, <2>1, <2>2 DEF ProbesOK, ProbeOK
    <2>4. StoppedIsQuiet' /\ CheckingHasProbe'
        BY <1>0, <2>1 DEF CheckerOK, StoppedIsQuiet, CheckingHasProbe, EndedInSelect, Alive
    <2> QED BY <2>1, <2>3, <2>4 DEF CheckerOK, EndedInSelect
(* The loop and Stop. *)
<1>8. ASSUME NEW b \in Backends, SpawnProbe(b) PROVE CheckerOK'
    <2>1. PICK p \in Probes : /\ probe[p].pc = "free"
                              /\ probe' = [probe EXCEPT ![p] = [Free EXCEPT !.pc = "spawned",
                                                                            !.key = b]]
        BY <1>8 DEF SpawnProbe, Alive
    <2> DEFINE q == [Free EXCEPT !.pc = "spawned", !.key = b]
    <2>2. ProbeOK(q) /\ q \in ProbeRecord /\ q.pc # "free"
        BY DEF ProbeOK, ProbeRecord, Free, ProbePc, Status, AnyStatus
    <2> HIDE DEF q
    <2>3. ProbesOK'
        BY <1>0, <2>1, <2>2 DEF q, ProbesOK, ProbeOK
    <2>4. loop' = [loop EXCEPT !.todo = @ \ {b}] /\ b \in loop.todo /\ UNCHANGED <<checking, stop>>
        BY <1>8 DEF SpawnProbe
    <2>5. StoppedIsQuiet' /\ EndedInSelect'
        BY <2>4 DEF CheckerOK, StoppedIsQuiet, EndedInSelect
    <2>6. CheckingHasProbe'
        <3> SUFFICES ASSUME NEW c \in checking
                     PROVE  \E r \in Probes : probe'[r].pc # "free" /\ probe'[r].key = c
            BY <2>4 DEF CheckingHasProbe, Alive
        <3>1. PICK r \in Probes : probe[r].pc # "free" /\ probe[r].key = c
            BY DEF CheckerOK, CheckingHasProbe, Alive
        <3> QED BY <1>0, <2>1, <3>1
    <2> QED BY <2>3, <2>4, <2>5, <2>6 DEF CheckerOK
<1>9. ASSUME \/ (\E b \in Backends : SkipChecking(b)) \/ Tick \/ LoopEnds
             \/ CloseStopCh \/ StopReturns
      PROVE  CheckerOK'
    <2> USE DEF SkipChecking, Tick, LoopEnds, InSelect, CloseStopCh, StopReturns
    <2>1. UNCHANGED <<probe, checking>>
        BY <1>9
    <2>2. ProbesOK' /\ CheckingHasProbe' /\ checking' \subseteq Backends
        BY <2>1 DEF CheckerOK, ProbesOK, ProbeOK, CheckingHasProbe, Alive
    <2>3. loop' \in [ended : BOOLEAN, todo : SUBSET Backends] /\ stop' \in StopPc
        BY <1>9 DEF CheckerOK, StopPc
    <2>4. StoppedIsQuiet' /\ EndedInSelect'
        BY <1>9, <2>1 DEF CheckerOK, StoppedIsQuiet, EndedInSelect, Alive, Counted
    <2> QED BY <2>2, <2>3, <2>4 DEF CheckerOK
<1>10. ASSUME \/ (\E r \in Requests : RequestStep(r)) \/ (\E c \in Callbacks : CallbackStep(c))
              \/ (\E b \in Backends : AdminRecover(b)) \/ UNCHANGED vars
       PROVE  CheckerOK'
    BY <1>1, <1>10 DEF RequestStep, Send, RequestSucceeds, StreamEnds, KeyRejected, RateLimited,
       RequestFails, ArmTimer, Answered, CallbackStep, TimerFires, RecoverBackend, DropTimer,
       AdminRecover, CheckerVars, vars
<1> QED
    BY <1>3, <1>5, <1>6, <1>7, <1>8, <1>9, <1>10 DEF Next, LoopStep, ProbeStep

-----------------------------------------------------------------------------
(* The two parts are the invariant. *)
LEMMA Parts == IInv <=> SharedOK /\ CheckerOK
<1>1. ASSUME SharedOK, CheckerOK PROVE TypeOK /\ WritesNoCooldown
    <2>1. FrameOK
        BY <1>1 DEF SharedOK
    <2>2. /\ req \in [Requests -> RequestRecord] /\ callback \in [Callbacks -> CallbackRecord]
          /\ \A r \in Requests : req[r].pc # "idle" => req[r].key \in Backends
          /\ \A c \in Callbacks : callback[c].pc # "free" => callback[c].key \in Backends
        BY <2>1 DEF FrameOK
    <2> QED BY <1>1, <2>1, <2>2 DEF SharedOK, FrameOK, CheckerOK, ProbesOK, ProbeOK, ProbeRecord,
               RequestRecord, CallbackRecord, TypeOK, WritesNoCooldown
<1>2. ASSUME TypeOK, WritesNoCooldown PROVE SharedOK /\ ProbesOK
    <2>1. FrameOK
        BY <1>2 DEF FrameOK, TypeOK, RequestRecord, CallbackRecord
    <2> QED BY <1>2, <2>1 DEF SharedOK, ProbesOK, ProbeOK, ProbeRecord, TypeOK, WritesNoCooldown
<1>3. SharedOK /\ CheckerOK => IInv
    BY <1>1 DEF IInv, CheckerOK
<1>4. IInv => SharedOK /\ CheckerOK
    BY <1>2 DEF IInv, CheckerOK, TypeOK
<1> QED BY <1>3, <1>4

LEMMA InitIInv == Init => IInv
<1> SUFFICES ASSUME Init PROVE IInv
    OBVIOUS
<1>1. SharedOK
    BY ConstantsAssumption DEF Init, SharedOK, FrameOK, NewBackendModel, AnyBackend, AnyStatus,
       Status, NoRequest, NoCallback, RequestRecord, RequestPc, CallbackRecord, CallbackPc
<1>2. CheckerOK
    <2>1. ProbeOK(Free) /\ Free \in ProbeRecord
        BY DEF ProbeOK, ProbeRecord, Free, ProbePc, Status, AnyStatus
    <2>2. ProbesOK
        BY <2>1 DEF Init, ProbesOK
    <2> QED BY <2>2 DEF Init, CheckerOK, StopPc, StoppedIsQuiet, CheckingHasProbe,
               EndedInSelect
<1> QED BY <1>1, <1>2, Parts

(* The inductive invariant holds in every reachable state. *)
THEOREM Invariance == Spec => []IInv
<1>1. IInv /\ [Next]_vars => IInv'
    <2> SUFFICES ASSUME IInv, [Next]_vars PROVE IInv'
        OBVIOUS
    <2>1. SharedOK' /\ CheckerOK'
        BY SharedStep, CheckerStep, Parts DEF IInv
    <2> QED BY <2>1, Parts, PTL
<1> QED BY InitIInv, <1>1, PTL DEF Spec

(* Type correctness, for any pool, number of probes and of requests. *)
THEOREM TypeCorrect == Spec => []TypeOK
<1>1. IInv => TypeOK
    BY DEF IInv
<1> QED BY Invariance, <1>1, PTL

(* Once Stop has returned nothing of the checker runs (checker.go:46-50).  *)
THEOREM StopIsFinal == Spec => []StoppedIsQuiet
<1>1. IInv => StoppedIsQuiet
    BY DEF IInv
<1> QED BY Invariance, <1>1, PTL

(* No backend stays marked as being checked after its probes have ended,   *)
(* which would keep it out of every later round (checker.go:75, 99).       *)
THEOREM NoMarkLeftBehind == Spec => []CheckingHasProbe
<1>1. IInv => CheckingHasProbe
    BY DEF IInv
<1> QED BY Invariance, <1>1, PTL

(* However the probes' unlocked writes fall, a cooldown begins with        *)
(* somebody to end it, and only the second section of a Recover can take   *)
(* him away before he has.                                                 *)
THEOREM ProbesLeaveTimers == Spec => CooldownKeepsTimer
<1>1. ASSUME IInv, [Next]_vars, NEW b \in Backends, Cooling(b)', Cooling(b) => Covered(b)
      PROVE  Covered(b)' \/ Drops(b)
    <2>1. TypeOK /\ backend[b] \in AnyBackend
        BY <1>1 DEF IInv, TypeOK
    <2>2. /\ MarkSuccess(backend[b]).status = backend[b].status
          /\ MarkFailure(backend[b]).status = backend[b].status
          /\ MarkKeyInvalid(backend[b]).status = "invalid"
          /\ Recover(backend[b]).status # "cooldown"
        BY <2>1, Methods
    <2>3. CASE Cooling(b)
        BY <1>1, <2>1, <2>2, <2>3, CoverStep DEF Cooling
    <2>4. CASE ~Cooling(b)
        <3>1. ASSUME NEW p \in Probes, probe[p].pc = "writing",
                     NEW t \in {probe[p].target, backend[b].status, "garbled"}
              PROVE  backend'[b] # [backend[b] EXCEPT !.status = t]
            <4>1. t # "cooldown"
                BY <1>1, <2>4, <3>1 DEF IInv, WritesNoCooldown, Cooling
            <4> QED BY <1>1, <2>1, <4>1 DEF Cooling, AnyBackend
        <3>2. BackendStep(b)
            BY <1>1, <2>1, EveryBackendStep
        <3>3. \E r \in Requests : req'[r] = [pc |-> "marked", key |-> b]
            BY <1>1, <2>2, <2>4, <3>1, <3>2 DEF BackendStep, Cooling
        <3> QED BY <3>3 DEF Covered
    <2> QED BY <2>3, <2>4
<1>2. IInv /\ [Next]_vars
      => [\A b \in Backends :
             Cooling(b)' /\ (Cooling(b) => Covered(b)) => Covered(b)' \/ Drops(b)]_vars
    BY <1>1
<1> QED BY <1>2, Invariance, PTL DEF Spec, CooldownKeepsTimer

(* A rejected key is brought back by the cooldown of a request in flight   *)
(* or by the unlocked write of a probe in flight, and by nothing else.     *)
THEOREM RejectionHolds == Spec => RejectionStands
<1>1. ASSUME IInv, [Next]_vars, NEW b \in Backends,
             backend[b].status = "invalid", backend'[b].status # "invalid"
      PROVE  \/ /\ backend'[b].status = "cooldown"
                /\ \E r \in Requests : /\ req[r] = [pc |-> "inflight", key |-> b]
                                        /\ req'[r].pc = "marked"
             \/ /\ backend'[b].status \in {"exhausted", "garbled"}
                /\ \E p \in Probes : /\ probe[p].key = b
                                      /\ probe[p].pc = "writing" /\ probe'[p].pc = "done"
    <2>1. BackendStep(b)
        BY <1>1, EveryBackendStep DEF IInv
    <2>2. backend[b] \in AnyBackend
        BY <1>1 DEF IInv, TypeOK
    <2>3. /\ MarkSuccess(backend[b]).status = "invalid"
          /\ MarkFailure(backend[b]).status = "invalid"
          /\ MarkKeyInvalid(backend[b]).status = "invalid"
          /\ Recover(backend[b]).status = "invalid"
          /\ Cooled(backend[b]).status = "cooldown"
        BY <1>1, <2>2, Methods
    <2>4. Cooled(MarkFailure(backend[b])).status = "cooldown"
        BY <2>2, Methods
    <2>5. ASSUME NEW p \in Probes, probe[p].pc = "writing",
                 NEW s \in {probe[p].target, backend[b].status, "garbled"},
                 backend'[b] = [backend[b] EXCEPT !.status = s]
          PROVE  backend'[b].status \in {"exhausted", "garbled"}
        <3>1. backend'[b].status = s
            BY <2>2, <2>5 DEF AnyBackend
        <3>2. probe[p].target \in {"invalid", "exhausted"}
            BY <1>1, <2>5 DEF IInv, WritesNoCooldown
        <3> QED BY <1>1, <3>1, <3>2
    <2>6. ASSUME NEW r \in Requests, req'[r] = [pc |-> "marked", key |-> b]
          PROVE  req'[r].pc = "marked"
        BY <2>6
    <2>7. CASE \E p \in Probes :
                  /\ probe[p].key = b /\ probe[p].pc = "writing" /\ probe'[p].pc = "done"
                  /\ \E s \in {probe[p].target, backend[b].status, "garbled"} :
                        backend'[b] = [backend[b] EXCEPT !.status = s]
        BY <2>5, <2>7
    <2>8. CASE \E r \in Requests : /\ req[r] = [pc |-> "inflight", key |-> b]
                                    /\ req'[r] = [pc |-> "marked", key |-> b]
                                    /\ \/ backend'[b] = Cooled(backend[b])
                                       \/ backend'[b] = Cooled(MarkFailure(backend[b]))
        BY <2>3, <2>4, <2>6, <2>8
    <2>9. \/ \E p \in Probes :
                 /\ probe[p].key = b /\ probe[p].pc = "writing" /\ probe'[p].pc = "done"
                 /\ \E s \in {probe[p].target, backend[b].status, "garbled"} :
                       backend'[b] = [backend[b] EXCEPT !.status = s]
          \/ \E r \in Requests : /\ req[r] = [pc |-> "inflight", key |-> b]
                                  /\ req'[r] = [pc |-> "marked", key |-> b]
                                  /\ \/ backend'[b] = Cooled(backend[b])
                                     \/ backend'[b] = Cooled(MarkFailure(backend[b]))
        BY <1>1, <2>1, <2>3, Zenon DEF BackendStep
    <2> QED BY <2>7, <2>8, <2>9
<1>2. IInv /\ [Next]_vars
      => [\A b \in Backends :
             backend[b].status = "invalid" /\ backend'[b].status # "invalid"
             => \/ /\ backend'[b].status = "cooldown"
                   /\ \E r \in Requests : /\ req[r] = [pc |-> "inflight", key |-> b]
                                           /\ req'[r].pc = "marked"
                \/ /\ backend'[b].status \in {"exhausted", "garbled"}
                   /\ \E p \in Probes : /\ probe[p].key = b
                                         /\ probe[p].pc = "writing" /\ probe'[p].pc = "done"
         ]_vars
    BY <1>1
<1> QED BY <1>2, Invariance, PTL DEF Spec, RejectionStands
=============================================================================
