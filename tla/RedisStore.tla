----------------------------- MODULE RedisStore -----------------------------
(***************************************************************************)
(* RedisNonceStore (icebreaker-nonce, feature "redis"): replay protection  *)
(* for proxies that share one Redis.  A check_and_record is two commands   *)
(* and a comparison: INCR counts the attempt, EXPIRE gives the key its     *)
(* time to live, and the count INCR returned decides.  Calls of all the    *)
(* proxies interleave at every command, the connection may break and the   *)
(* request timeout may drop a call at either of them, with the command     *)
(* executed or not.                                                        *)
(*                                                                         *)
(* Redis itself is external: a key has a count and, once EXPIRE was called *)
(* on it, the seconds it has left.  Time is in seconds.                    *)
(***************************************************************************)
EXTENDS Integers

CONSTANTS
    Call,      \* the calls of check_and_record, of every proxy
    Token,     \* sealed tokens, each with a nonce of its own
    Replay,    \* Token -> its ReplayProtection
    Life,      \* Token -> where its lifetime ends: expires_at plus the tolerance
    None,
    MaxTime    \* bound: the proxies' clock stops here, with every token dead (keys age on)

\* Without max_uses a nonce is only counted, without nonce_ttl_seconds its lifetime
\* is derived from the token's.
ReplayProtection ==
    [max_uses : Nat \cup {None}, nonce_ttl_seconds : Nat \cup {None}]

ASSUME RedisAssumption ==
    /\ None \notin Nat
    /\ Replay \in [Token -> ReplayProtection]
    /\ Life \in [Token -> Nat]
    /\ MaxTime \in Nat /\ \A t \in Token : Life[t] <= MaxTime

VARIABLES
    now,        \* the proxies' wall clock
    count,      \* Redis: the value of each nonce's key, 0 without a key
    ttl,        \* Redis: the seconds a key has left, None for a key without a TTL
    pc,         \* where each call is
    nonce,      \* the token a call is about
    ttl_secs,   \* the time to live a call asks for
    new_count,  \* what INCR returned to a call
    used,       \* history: uses granted to each token before its lifetime ended
    orphaned    \* the keys without a TTL whose last call broke off

redis == <<count, ttl, orphaned>>
locals == <<nonce, ttl_secs, new_count>>
vars == <<now, redis, pc, locals, used>>

Init ==
    /\ now = 0
    /\ count = [t \in Token |-> 0]
    /\ ttl = [t \in Token |-> None]
    /\ pc = [c \in Call |-> "idle"]
    /\ nonce \in [Call -> Token]
    /\ ttl_secs = [c \in Call |-> 1]
    /\ new_count = [c \in Call |-> 0]
    /\ used = [t \in Token |-> 0]
    /\ orphaned = {}

Goto(c, where) == pc' = [pc EXCEPT ![c] = where]

\* ttl_from_expiry: an explicit TTL, or what is left of the lifetime.
TtlFromExpiry(t) ==
    IF Replay[t].nonce_ttl_seconds # None THEN Replay[t].nonce_ttl_seconds ELSE Life[t] - now

\* Mutant: Redis is given one second less.
OneSecondLess(secs) == IF secs < 2 THEN 1 ELSE secs - 1

\* Mutant: EXPIRE is asked for what is left, which may be no second at all.
NoMinimum(secs) == secs

\* ttl.as_secs().max(1)
AtLeastOne(secs) == IF secs < 1 THEN 1 ELSE secs

\* A proxy derives the TTL from its clock and calls the store.  A derived TTL
\* that is not positive is TokenExpired, and there is no call.
CheckAndRecord(c) ==
    LET t == nonce[c]
    IN /\ pc[c] = "idle"
       /\ Replay[t].nonce_ttl_seconds # None \/ TtlFromExpiry(t) > 0
       /\ ttl_secs' = [ttl_secs EXCEPT ![c] = AtLeastOne(TtlFromExpiry(t))]
       /\ Goto(c, "incr")
       /\ UNCHANGED <<now, redis, nonce, new_count, used>>

\* INCR creates a key that is not there, without a TTL, and returns the new value.
Incr(c) ==
    LET t == nonce[c]
    IN /\ pc[c] = "incr"
       /\ count' = [count EXCEPT ![t] = @ + 1]
       /\ new_count' = [new_count EXCEPT ![c] = count[t] + 1]
       /\ Goto(c, "expire")
       /\ UNCHANGED <<now, ttl, orphaned, nonce, ttl_secs, used>>

\* Mutant: only the first use sets the TTL, and it looks at the key to tell.
FirstUseExpires(t, secs) ==
    IF count[t] = 0 THEN None ELSE IF count[t] > 1 THEN ttl[t] ELSE secs

\* EXPIRE does nothing to a key that has gone in between.
Expired(t, secs) == IF count[t] = 0 THEN None ELSE secs

Expire(c) ==
    LET t == nonce[c]
    IN /\ pc[c] = "expire"
       /\ ttl' = [ttl EXCEPT ![t] = Expired(t, ttl_secs[c])]
       /\ orphaned' = orphaned \ {t}
       /\ Goto(c, "decide")
       /\ UNCHANGED <<now, count, locals, used>>

\* "if let Some(max) = max_uses { if new_count > max"
Exceeds(n, max) == max # None /\ n > max

\* The reply to EXPIRE arrives: CheckResult::Allowed.  The use counts towards the
\* promise when the token still lives.
Allow(c) ==
    LET t == nonce[c]
    IN /\ pc[c] = "decide"
       /\ ~Exceeds(new_count[c], Replay[t].max_uses)
       /\ used' = [used EXCEPT ![t] = IF now < Life[t] THEN @ + 1 ELSE @]
       /\ Goto(c, "allowed")
       /\ UNCHANGED <<now, redis, locals>>

\* CheckResult::Denied: the attempt stays counted and the TTL stays renewed.
Deny(c) ==
    /\ pc[c] = "decide"
    /\ Exceeds(new_count[c], Replay[nonce[c]].max_uses)
    /\ Goto(c, "denied")
    /\ UNCHANGED <<now, redis, locals, used>>

\* A command fails (NonceStoreError) or the call is dropped while it waits for the
\* reply; Redis executed the command or did not.  A key left without a TTL has
\* nobody to give it one, unless another call on it is still to come.
BreakOff(c) ==
    LET t == nonce[c]
        Orphan(n, left) == IF n > 0 /\ left = None THEN orphaned \cup {t} ELSE orphaned
    IN /\ \/ /\ pc[c] = "incr"
             /\ \E n \in {count[t], count[t] + 1} :
                   count' = [count EXCEPT ![t] = n] /\ orphaned' = Orphan(n, ttl[t])
             /\ UNCHANGED ttl
          \/ /\ pc[c] = "expire"
             /\ \/ ttl' = [ttl EXCEPT ![t] = Expired(t, ttl_secs[c])]
                   /\ orphaned' = orphaned \ {t}
                \/ orphaned' = Orphan(count[t], ttl[t]) /\ UNCHANGED ttl
             /\ UNCHANGED count
          \/ pc[c] = "decide" /\ UNCHANGED redis
       /\ Goto(c, "failed")
       /\ UNCHANGED <<now, locals, used>>

\* A second passes; a key whose last second it was is gone.
Tick ==
    LET gone(t) == ttl[t] = 1
    IN /\ now' = IF now < MaxTime THEN now + 1 ELSE now
       /\ count' = [t \in Token |-> IF gone(t) THEN 0 ELSE count[t]]
       /\ ttl' = [t \in Token |-> IF gone(t) \/ ttl[t] = None THEN None ELSE ttl[t] - 1]
       /\ UNCHANGED <<orphaned, pc, locals, used>>

Run(c) == Incr(c) \/ Expire(c) \/ Allow(c) \/ Deny(c)

Next == Tick \/ \E c \in Call : CheckAndRecord(c) \/ Run(c) \/ BreakOff(c)

Spec == Init /\ [][Next]_vars

\* Time passes, and a call that has begun goes on: Redis replies, or the request
\* timeout drops the call.
Fairness == WF_vars(Tick) /\ \A c \in Call : WF_vars(Run(c) \/ BreakOff(c))

FairSpec == Spec /\ Fairness

-----------------------------------------------------------------------------
(* Properties                                                              *)

TypeOK ==
    /\ now \in 0..MaxTime
    /\ count \in [Token -> Nat]
    /\ ttl \in [Token -> (Nat \ {0}) \cup {None}]
    /\ \A t \in Token : count[t] = 0 => ttl[t] = None
    /\ pc \in [Call -> {"idle", "incr", "expire", "decide", "allowed", "denied", "failed"}]
    /\ nonce \in [Call -> Token]
    /\ ttl_secs \in [Call -> Nat \ {0}]
    /\ new_count \in [Call -> Nat]
    /\ used \in [Token -> Nat]
    /\ orphaned \subseteq Token

\* The tokens whose nonce is to live as long as they do.
Guarded == {t \in Token : Replay[t].nonce_ttl_seconds = None}

Promise == INSTANCE BoundedUse WITH
    Token <- Guarded,
    Limit <- [t \in Guarded |-> Replay[t].max_uses],
    used <- [t \in Guarded |-> used[t]],
    expired <- {t \in Guarded : now >= Life[t]}

\* Proxies that share a Redis keep the same promise as one with a store of its own:
\* however their INCRs and EXPIREs interleave, fail or are dropped, a token is
\* granted no more than max_uses uses while it lives.
KeepsPromise == Promise!Spec

\* A key goes, however often it is renewed by calls that come to an end: only a
\* call that breaks off between INCR and EXPIRE leaves a key for ever.
KeysGo ==
    \A t \in Token :
        (count[t] > 0 /\ t \notin orphaned) ~> (count[t] = 0 \/ t \in orphaned)
=============================================================================
