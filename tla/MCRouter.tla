----------------------------- MODULE MCRouter -----------------------------
(* A small pool: provider P1 offers model m1, provider P2 model m2. *)
EXTENDS Router

TwoBackends == {"b1", "b3"}
TwoRank == [b1 |-> 1, b3 |-> 3]
TwoProviderOf == [b1 |-> "P1", b3 |-> "P2"]
TwoModelOf == [b1 |-> "m1", b3 |-> "m2"]

(* Upstream answers, one for each way handleError can go. *)
BadRequest   == [code |-> 400, msg |-> {}]
KeyRefused   == [code |-> 401, msg |-> {}]
DailyQuota   == [code |-> 429, msg |-> {"rpd"}]
RateExceeded == [code |-> 429, msg |-> {}]
ServerError  == [code |-> 500, msg |-> {}]
ProviderDown == [code |-> 0, msg |-> {"no such host"}]

RetryAnswers ==
    {BadRequest, KeyRefused, DailyQuota, RateExceeded, ServerError, ProviderDown}
=============================================================================
