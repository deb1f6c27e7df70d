-------------------------- MODULE MCRouterHistory --------------------------
(* RouterHistory on the small pool of MCRouter. *)
EXTENDS MCRouter, RouterHistory, TLC

(* An error that escalates and a rejected key, which cross on one backend. *)
Outages == {ServerError, KeyRefused}

(* The requests take the same steps.                                       *)
Slots == Permutations(Requests)
=============================================================================
