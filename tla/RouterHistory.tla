--------------------------- MODULE RouterHistory ---------------------------
(***************************************************************************)
(* Router with a history variable: what an observer of the upstream        *)
(* answers would count, the failures each backend has had in a row.        *)
(***************************************************************************)
EXTENDS Router

VARIABLE
    streak      \* failures of a backend since its last whole answer or recovery

historyVars == <<backend, armed, recent429, forced, lastUsed, sticky, req, streak>>

(* The upstream of r answers in whole.                                     *)
AnswersInWhole(r) == ForwardSucceeds(r) /\ ~req[r].stream

(* The upstream of r fails, and no cooldown of its own (a throttled        *)
(* request that was not forced) or rejected key is made of it.             *)
Fault(r) ==
    \E e \in Errors(r) :
       /\ ~e.markKeyInvalid
       /\ UpstreamFailed(r, e) \/ RefusedForGood(r, e) \/ ManualFails(r, e)

(* The timer or the admin recovers b, whose key is not rejected.           *)
StartsAnew(b) ==
    /\ TimerExpires(b) \/ AdminRecover(b)
    /\ backend[b].status # "invalid"

HistoryInit == Init /\ streak = [b \in Backends |-> 0]

HistoryNext ==
    /\ Next
    /\ streak' = [b \in Backends |->
                     IF StartsAnew(b) \/ \E r \in Requests : req[r].sel = b /\ AnswersInWhole(r) THEN 0
                     ELSE IF \E r \in Requests : req[r].sel = b /\ Fault(r) THEN streak[b] + 1
                     ELSE streak[b]]

HistorySpec == HistoryInit /\ [][HistoryNext]_historyVars

(* The errors a backend is blamed for happened in a row, and are all that  *)
(* did: the count that cools a backend at three (fallback.go:31-32, "three *)
(* in a row") is the number of its failures since it last answered in      *)
(* whole or was recovered, however the requests cross.  A stream that was  *)
(* delivered lies between them unseen (forwarder.go:44-47).                *)
ConsecIsConsecutive == \A b \in Backends : backend[b].consec = streak[b]
=============================================================================
