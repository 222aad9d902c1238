--------------------------- MODULE MCRateLimiter ---------------------------
(* An instance of RateLimiter for TLC.                                     *)
EXTENDS RateLimiter

CONSTANTS ip, cert

\* Clients at one address, with and without a certificate: two keys.
MCClient == [ip: {ip}, fingerprint: {NoCert, cert}]

\* An exact and a truncated interval, bursts of 0 to 2, a rate of 0, and more
\* requests than the period has ticks.
MCConfigs ==
    {[max_requests |-> m, period |-> 5, burst |-> b] : m \in {2, 5}, b \in 0 .. 2}
    \cup {[max_requests |-> m, period |-> 5, burst |-> 1] : m \in {0, 6}}
=============================================================================
