--------------------------- MODULE ProviderError ---------------------------
(***************************************************************************)
(* errors.ParseProviderError: what an upstream error makes of a request,   *)
(* of its backend and of the backend's provider.                           *)
(*                                                                         *)
(* An upstream error is its HTTP status (0: no answer) and the text that   *)
(* says why: a network error's, or the server's reason phrase.  A text is  *)
(* abstracted to the set of search words it contains, the ones the Go code *)
(* looks for with strings.Contains; the order of the tests, which decides  *)
(* texts with several words, is kept.  Of the Cooldown field only the      *)
(* value of a 429 is kept, in seconds: no caller reads the others.         *)
(* SkipModel is left out: no caller reads it.                              *)
(***************************************************************************)
EXTENDS Integers

(* The words of the error an adapter returns.  A stream's error quotes the *)
(* server's reason phrase; a Route's names its status code in the words of *)
(* the Go library, among which none of the search words is, and leaves the *)
(* body aside.                                                             *)
ErrorText(stream, code, text) == IF code = 0 \/ stream THEN text ELSE {}

RateLimitType ==
    {"unknown", "per_minute", "per_day", "per_minute_tokens", "per_day_tokens",
     "provider_wide", "concurrent"}

Mentions(msg, words) == msg \cap words # {}

classifyRateLimit(msg) ==
    IF {"provider", "quota"} \subseteq msg THEN "provider_wide"
    ELSE IF Mentions(msg, {"per minute", "rpm"}) THEN "per_minute"
    ELSE IF Mentions(msg, {"per day", "rpd"}) THEN "per_day"
    ELSE IF Mentions(msg, {"tokens per minute", "tpm"}) THEN "per_minute_tokens"
    ELSE IF Mentions(msg, {"tokens per day", "tpd"}) THEN "per_day_tokens"
    ELSE IF Mentions(msg, {"concurrent", "too many connections"}) THEN "concurrent"
    ELSE "unknown"

getCooldownForRateLimit(kind) ==
    IF kind = "provider_wide" THEN 24 * 3600
    ELSE IF kind \in {"per_day", "per_day_tokens"} THEN 120
    ELSE IF kind = "concurrent" THEN 30
    ELSE 90

(* The 429s that count against the whole provider. *)
ProviderQuotaSpent(kind) == kind \in {"provider_wide", "per_day", "per_day_tokens"}

Refused == {"connection refused", "econnrefused"}
Unresolved == {"no such host", "dns", "notfound", "enotfound"}
Untrusted == {"tls", "ssl", "certificate"}
Abandoned == {"aborted", "canceled"}

(* A timeout is tested before a refused connection, a reset after it and   *)
(* before a failed lookup.                                                 *)
classifyNetworkError(msg) ==
    IF Mentions(msg, {"timeout", "timed out"}) THEN "retry"
    ELSE IF Mentions(msg, Refused) THEN "skip_provider"
    ELSE IF Mentions(msg, {"connection reset", "econnreset"}) THEN "retry"
    ELSE IF Mentions(msg, Unresolved) THEN "skip_provider"
    ELSE IF Mentions(msg, Untrusted \cup Abandoned) THEN "give_up"
    ELSE "retry"

isParamIncompatibility(msg) ==
    Mentions(msg, {"api error 400", "parameter", "unsupported", "not supported",
                   "invalid parameter", "model does not support"})

Retryable(code, msg) ==
    \/ code \in {429, 402, 404, 413, 500, 502, 503, 504, 408}
    \/ code = 400 /\ isParamIncompatibility(msg)
    \/ code = 0 /\ classifyNetworkError(msg) # "give_up"

SkipProvider(code, msg) ==
    \/ code = 429 /\ ProviderQuotaSpent(classifyRateLimit(msg))
    \/ code = 402
    \/ code = 0 /\ classifyNetworkError(msg) = "skip_provider"

ParseProviderError(code, msg) ==
    [code           |-> code,
     retryable      |-> Retryable(code, msg),
     skipProvider   |-> SkipProvider(code, msg),
     markKeyInvalid |-> code \in {401, 403},
     cooldown       |-> IF code = 429 THEN getCooldownForRateLimit(classifyRateLimit(msg))
                        ELSE 0]

ProviderErrors ==
    [code : Nat, retryable : BOOLEAN, skipProvider : BOOLEAN,
     markKeyInvalid : BOOLEAN, cooldown : Nat]
=============================================================================
