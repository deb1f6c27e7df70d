------------------------------ MODULE MCThrottle ------------------------------
(* A request window and a token window of different lengths. *)
EXTENDS Throttle

MCKinds == <<"rpm", "tpd">>
MCDuration == [rpm |-> 1, tpd |-> 2]
MCLimit == [rpm |-> 1, tpd |-> 5]
MCCost == [rpm |-> 1, tpd |-> 2]
=============================================================================
