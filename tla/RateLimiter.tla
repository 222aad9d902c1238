---------------------------- MODULE RateLimiter ----------------------------
(***************************************************************************)
(* The process-wide GCRA rate limiter in front of both entrances: HTTP     *)
(* requests (RateLimitService) and CONNECT (handle_connect) of every       *)
(* connection ask it under the client's key.  `check` holds the limiter's  *)
(* lock from before it reads the clock until it returns and does not await *)
(* in between, so it is one step, whoever waits for the lock.              *)
(***************************************************************************)
EXTENDS Integers, Sequences

CONSTANTS
    Client,    \* connections by their peer: [ip |-> ..., fingerprint |-> ...]
    NoCert,    \* the fingerprint of a client without a certificate
    Configs,   \* RateLimitConfig: [max_requests, period, burst]; time in ticks
    MaxTime,   \* bound on the clock
    MaxGrants  \* bound on the requests granted to a key since it was cleared

ASSUME RateLimiterAssumption ==
    /\ Configs \subseteq [max_requests: Nat, period: Nat, burst: Nat]
    /\ MaxTime \in Nat /\ MaxGrants \in Nat

VARIABLES
    config,  \* the limiter's configuration, fixed for the process
    now,     \* Instant::now()
    tat,     \* the map from key to theoretical arrival time
    grants   \* history: key -> the times it was granted at, since it was cleared

vars == <<config, now, tat, grants>>

\* ConnectionInfo::rate_limit_key: the certificate before the address.
RateLimitKey(c) == IF c.fingerprint # NoCert THEN c.fingerprint ELSE c.ip

Key == {RateLimitKey(c) : c \in Client}

\* A key that is not in the map.  Instants are not negative.
NoEntry == -1

\* Duration::checked_div, zero where the divisor is.
EmissionInterval(cf) ==
    IF cf.max_requests = 0 THEN 0 ELSE cf.period \div cf.max_requests

BurstTolerance(cf) == EmissionInterval(cf) * cf.burst

\* An entry whose time is over starts from the clock.
NewTat(cf, t, time) == (IF t < time THEN time ELSE t) + EmissionInterval(cf)

\* The first request of a key is always allowed, a later one when the time it is
\* allowed at has come.  (checked_sub that underflows is an instant in the past.)
Allows(cf, t, time) ==
    t = NoEntry \/ NewTat(cf, t, time) - BurstTolerance(cf) <= time

\* Mutant: what is stored is the time the request was allowed at.
AllowedAt(cf, t, time) == NewTat(cf, t, time) - BurstTolerance(cf)

\* or_insert_with: an entry that was not there has the time `now` to begin with.
Allowed(cf, t, time) == NewTat(cf, IF t = NoEntry THEN time ELSE t, time)

-----------------------------------------------------------------------------
Init ==
    /\ config \in Configs
    /\ now = 0
    /\ tat = [k \in Key |-> NoEntry]
    /\ grants = [k \in Key |-> <<>>]

\* `check` returns true: the request or the CONNECT goes on.
Grant(k) ==
    /\ Len(grants[k]) < MaxGrants
    /\ Allows(config, tat[k], now)
    /\ tat' = [tat EXCEPT ![k] = Allowed(config, tat[k], now)]
    /\ grants' = [grants EXCEPT ![k] = Append(@, now)]
    /\ UNCHANGED <<config, now>>

\* Mutant: a refused request is charged too.
RefuseCharges(k) ==
    /\ ~Allows(config, tat[k], now)
    /\ tat[k] <= MaxTime + 10
    /\ tat' = [tat EXCEPT ![k] = NewTat(config, @, now)]
    /\ UNCHANGED <<config, now, grants>>

\* `check` returns false, RateLimitExceeded: the entry stays as it is.
Refuse(k) ==
    /\ ~Allows(config, tat[k], now)
    /\ UNCHANGED vars

\* Mutant: the caller reads the clock before it waits for the lock.
CheckStaleClock(c) ==
    LET k == RateLimitKey(c) IN
    \E read \in {now - 2, now} \cap Nat :
        /\ Len(grants[k]) < MaxGrants
        /\ Allows(config, tat[k], read)
        /\ tat' = [tat EXCEPT ![k] = Allowed(config, tat[k], read)]
        /\ grants' = [grants EXCEPT ![k] = Append(@, now)]
        /\ UNCHANGED <<config, now>>

Check(c) == Grant(RateLimitKey(c)) \/ Refuse(RateLimitKey(c))

\* `clear` of one key.
Clear(k) ==
    /\ tat' = [tat EXCEPT ![k] = NoEntry]
    /\ grants' = [grants EXCEPT ![k] = <<>>]
    /\ UNCHANGED <<config, now>>

\* `clear_all`.
ClearAll ==
    /\ tat' = [k \in Key |-> NoEntry]
    /\ grants' = [k \in Key |-> <<>>]
    /\ UNCHANGED <<config, now>>

Tick ==
    /\ now < MaxTime /\ now' = now + 1
    /\ UNCHANGED <<config, tat, grants>>

Next ==
    \/ \E c \in Client : Check(c)
    \/ \E k \in Key : Clear(k)
    \/ ClearAll \/ Tick

Spec == Init /\ [][Next]_vars

-----------------------------------------------------------------------------
TypeOK ==
    /\ config \in Configs
    /\ now \in Nat
    /\ tat \in [Key -> Nat \cup {NoEntry}]
    /\ grants \in [Key -> Seq(Nat)]

\* What a burst of 0 and of 1 have in common: the first request of a key.
Burst == IF config.burst = 0 THEN 1 ELSE config.burst

\* No window of time, wherever it starts, sees more requests of one key granted
\* than one per emission interval and the burst.  A burst of 0 still grants the
\* first request, and an interval of 0 (max_requests of 0, or more of them than
\* the period has ticks) limits nothing.
WindowBounded ==
    \A k \in Key : \A i, j \in 1 .. Len(grants[k]) :
        i <= j =>
            (j - i + 1) * EmissionInterval(config)
                <= (grants[k][j] - grants[k][i]) + Burst * EmissionInterval(config)

\* Limiting never starves a client that keeps to the rate: unless the burst is 0,
\* a request that comes an emission interval after the last one granted is not
\* refused, whatever was granted and refused before.
SteadyClientServed ==
    \A k \in Key :
        config.burst >= 1 /\ grants[k] # <<>>
        /\ now >= grants[k][Len(grants[k])] + EmissionInterval(config)
            => Allows(config, tat[k], now)
=============================================================================
