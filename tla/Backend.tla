------------------------------ MODULE Backend ------------------------------
(***************************************************************************)
(* The health state of one upstream backend (a provider's model) and the   *)
(* methods of model.BackendModel that change it.  Every method holds the   *)
(* backend's own mutex for its whole body, so each is one atomic operator  *)
(* on the record.                                                          *)
(*                                                                         *)
(* Abstractions: CooldownUntil is kept as the time that remains until it   *)
(* (zero: not in the future), which is all IsAvailable reads of it.  The   *)
(* token, latency and total counters and LastError are left out: no        *)
(* decision of the modelled code depends on them.                          *)
(***************************************************************************)
EXTENDS Integers

Status == {"healthy", "cooldown", "exhausted", "invalid"}

BackendModel == [status : Status, until : Nat, consec : Nat]

NewBackendModel == [status |-> "healthy", until |-> 0, consec |-> 0]

IsAvailable(b) == b.status = "healthy" /\ b.until = 0

MarkSuccess_Revives(b) ==                                     \* faulty variant
    [b EXCEPT !.consec = 0, !.status = "healthy", !.until = 0]
MarkSuccess(b) == [b EXCEPT !.consec = 0]

MarkFailure(b) == [b EXCEPT !.consec = @ + 1]

MarkKeyInvalid(b) == [b EXCEPT !.status = "invalid"]

(* A duration that is not positive puts CooldownUntil in the past. *)
Remaining(d) == IF d > 0 THEN d ELSE 0

EnterCooldown(b, d) == [b EXCEPT !.status = "cooldown", !.until = Remaining(d)]

(* Recover never revives a backend whose key was found invalid. *)
Recover_Revives(b) ==                                         \* faulty variant
    [b EXCEPT !.status = "healthy", !.until = 0, !.consec = 0]
Recover(b) ==
    IF b.status = "invalid" THEN b
    ELSE [b EXCEPT !.status = "healthy", !.until = 0, !.consec = 0]

(* One unit of time passes for the backend. *)
Elapse(b) == [b EXCEPT !.until = Remaining(@ - 1)]
=============================================================================
