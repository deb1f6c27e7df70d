------------------------- MODULE MCCooldownManager -------------------------
(* Small instances of CooldownManager: durations are a few clock units,    *)
(* growing with the number of consecutive errors as the backoff does.      *)
EXTENDS CooldownManager

MCTimerIds == 1..3
MCBackoff == [c \in 0..MaxConsec |-> IF c <= 3 THEN 1 ELSE 2]
MCRateLimitCooldowns == {1, 3}
=============================================================================
