-------------------------- MODULE FallbackContract --------------------------
(***************************************************************************)
(* What the fallback loops, the router's and the one of the protocol       *)
(* handlers, promise the client of a request, without the pool, the        *)
(* strategy, the timers and the admin: the request makes one upstream call *)
(* at a time, each to a backend it has not called yet, at most             *)
(* MaxRetries + 1 of them; it calls again only after a call has failed,    *)
(* and never after one that was served.                                    *)
(***************************************************************************)
EXTENDS Naturals, Sequences

CONSTANTS Backends, Requests, MaxRetries

VARIABLES
    stage,      \* where a request stands
    calls       \* the backends a request has called, in order

vars == <<stage, calls>>

Stage == {"closed", "deciding", "calling", "failed", "served"}

Init ==
    /\ stage = [r \in Requests |-> "closed"]
    /\ calls = [r \in Requests |-> <<>>]

Called(r) == {calls[r][i] : i \in DOMAIN calls[r]}

To(r, s) == stage' = [stage EXCEPT ![r] = s]

Open(r) ==
    /\ stage[r] = "closed"
    /\ To(r, "deciding")
    /\ UNCHANGED calls

(* A loop may look again at what there is before it calls again            *)
(* (CallAgain), or take the next backend at once.                          *)
Call(r, b) ==
    /\ stage[r] \in {"deciding", "failed"}
    /\ b \notin Called(r)
    /\ Len(calls[r]) <= MaxRetries
    /\ To(r, "calling")
    /\ calls' = [calls EXCEPT ![r] = Append(@, b)]

Answer(r) ==
    /\ stage[r] = "calling"
    /\ To(r, "served") \/ To(r, "failed")
    /\ UNCHANGED calls

CallAgain(r) ==
    /\ stage[r] = "failed"
    /\ Len(calls[r]) <= MaxRetries
    /\ To(r, "deciding")
    /\ UNCHANGED calls

(* The client gets the answer, or the error of the last call.              *)
Close(r) ==
    /\ stage[r] # "closed"
    /\ To(r, "closed")
    /\ calls' = [calls EXCEPT ![r] = <<>>]

Next ==
    \E r \in Requests :
        \/ Open(r)
        \/ \E b \in Backends : Call(r, b)
        \/ Answer(r)
        \/ CallAgain(r)
        \/ Close(r)

Spec == Init /\ [][Next]_vars
=============================================================================
