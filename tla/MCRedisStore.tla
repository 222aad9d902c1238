---------------------------- MODULE MCRedisStore ----------------------------
(* An instance of RedisStore for TLC.                                      *)
EXTENDS RedisStore, TLC

CONSTANTS c1, c2, c3

\* one: single use, two seconds to live; brief: two uses, an explicit TTL of 0 s,
\* which Redis is given as 1 s, on a token that lives longer.
MCReplay ==
    ("one" :> [max_uses |-> 1, nonce_ttl_seconds |-> None])
        @@ ("brief" :> [max_uses |-> 2, nonce_ttl_seconds |-> 0])
MCLife == ("one" :> 2) @@ ("brief" :> 3)
=============================================================================
