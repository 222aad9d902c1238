----------------------------- MODULE Admission -----------------------------
(***************************************************************************)
(* Token admission: the steps a request takes from its arrival until it is *)
(* forwarded (TokenAdmission::admit) or its tunnel is opened               *)
(* (ConnectHandler::validate_connect and enforce_replay), many requests at *)
(* a time over one InMemoryNonceStore and its cleanup task.                *)
(*                                                                         *)
(* A request reads a clock three times on its way: the wall clock when the *)
(* token is unsealed, the wall clock again when the nonce's TTL is derived *)
(* and the monotonic clock before it waits for the store's lock.  Each     *)
(* read is a step of its own, so time passes, other requests are served    *)
(* and the cleanup task runs in between.                                   *)
(***************************************************************************)
EXTENDS NonceStore, Errors, Sequences, FiniteSets

CONSTANTS
    Request,           \* the requests a run can serve
    Token,             \* sealed tokens, each with a nonce of its own
    Payload,           \* Token -> what sealing fixed (see PayloadType)
    NoHeader,          \* the request carries no token header
    GarbledHeader,     \* the header is not ASCII
    MalformedHeader,   \* the header does not parse as a sealed token
    Inputs,            \* the requests that may arrive (see InputType)
    TicksPerSec,       \* ticks in a second: `as_secs` drops the rest
    Tolerance,         \* ClockSkewConfig::tolerance_seconds
    MaxFuture,         \* ClockSkewConfig::max_future_seconds, or None
    Configs,           \* the configurations to start with (see ConfigType)
    ClockSteps,        \* ticks by which the wall clock may be stepped
    MaxTicks,          \* bound: the monotonic clock stops here
    MaxSteps,          \* bound: wall clock steps
    MaxRestarts        \* bound: restarts of the proxy

PayloadType ==
    [expires_at : Nat \cup {None},  \* seconds since the epoch
     replay     : BOOLEAN,          \* replay_protection is present
     max_uses   : Nat \cup {None},
     nonce_ttl  : Nat \cup {None}]  \* nonce_ttl_seconds

\* What can be wrong with a request apart from its header and the time.
\* "key": the token does not decrypt; "auth": the client is not the one it is
\* bound to; "authority": no usable destination; "host", "method", "path": the
\* token does not allow it; "policy": the static host policy does not;
\* "config": the token's processor configuration is invalid; "processor": the
\* processor cannot inject the secret.
Check == {"key", "auth", "authority", "host", "method", "path", "policy",
          "config", "processor"}

InputType ==
    [kind   : {"http", "connect"},
     header : Token \cup {NoHeader, GarbledHeader, MalformedHeader},
     fails  : SUBSET Check]

\* The switches of the command line that admission depends on.
ConfigType ==
    [store              : BOOLEAN,  \* a nonce store is configured
     require_expiration : BOOLEAN,  \* DecryptConfig::require_expiration
     token_optional     : BOOLEAN]

ASSUME AdmissionAssumption ==
    /\ Payload \in [Token -> PayloadType]
    /\ Inputs \subseteq InputType
    /\ TicksPerSec \in Nat \ {0}
    /\ Tolerance \in Nat
    /\ MaxFuture \in Nat \cup {None}
    /\ Configs \subseteq ConfigType
    /\ ClockSteps \subseteq Int
    /\ MaxTicks \in Nat /\ MaxSteps \in Nat /\ MaxRestarts \in Nat
    /\ {NoHeader, GarbledHeader, MalformedHeader} \cap Token = {}
    /\ NoHeader # GarbledHeader /\ NoHeader # MalformedHeader /\ GarbledHeader # MalformedHeader
    /\ None \notin TokenizerError

VARIABLES
    mono,     \* monotonic clock, in ticks
    skew,     \* wall clock minus monotonic clock
    steps,    \* wall clock steps so far
    boots,    \* restarts so far
    config,   \* the configuration the proxy runs with
    entries,  \* the store's map: Token (its nonce) -> Entry
    sweep,    \* the cleanup task: whether it waits for the lock, the clock it read
    pc,       \* where each request is
    input,    \* what each request carries, None before it arrives
    ttl,      \* the nonce TTL a request derived, in ticks
    now,      \* the monotonic clock a request read
    error,    \* the TokenizerError a request ended with, or None
    honoured  \* history: uses granted to each token before its lifetime ended

clocks == <<mono, skew, steps>>
process == <<boots, config>>
store == <<entries, sweep, honoured>>
requests == <<pc, input, ttl, now, error>>
vars == <<clocks, process, store, requests>>

Open == {"received", "validated", "derived", "locking", "granted", "forwarded"}
Closed == {"rejected", "failed", "answered", "cancelled", "lost"}

-----------------------------------------------------------------------------
(* Time                                                                     *)

Wall == mono + skew

\* SystemTime::now().as_secs(), kept in ticks: the fraction of a second is lost.
WholeSeconds(t) == t - (t % TicksPerSec)

Ticks(secs) == secs * TicksPerSec

\* expires_at + tolerance_seconds: where the token's lifetime ends.
EffectiveExpiry(t) == Ticks(Payload[t].expires_at + Tolerance)

\* ttl_from_expiry; a result that is not positive is TokenExpired.
TtlFromExpiry(t) ==
    IF Payload[t].nonce_ttl # None
    THEN Ticks(Payload[t].nonce_ttl)
    ELSE EffectiveExpiry(t) - WholeSeconds(Wall)

\* Mutant: the defensive branch dropped, "expiry is validated at unseal".
TtlNeverExpired(t) == FALSE

TtlExpired(t) == Payload[t].nonce_ttl = None /\ TtlFromExpiry(t) <= 0

\* TokenPayload::check_expiration
ExpirationStatus(t) ==
    LET expires_at == Payload[t].expires_at
    IN IF expires_at = None THEN "NoExpiration"
       ELSE IF MaxFuture # None /\ Ticks(expires_at) > WholeSeconds(Wall) + Ticks(MaxFuture)
       THEN "FutureDated"
       ELSE IF WholeSeconds(Wall) > EffectiveExpiry(t) THEN "Expired" ELSE "Valid"

-----------------------------------------------------------------------------
(* Validation: the checks in the order the code makes them, each with the  *)
(* error it answers with.  The first one that fails decides.               *)

FirstError(checks) ==
    LET failing == {i \in DOMAIN checks : checks[i][1]}
    IN IF failing = {} THEN None
       ELSE checks[CHOOSE i \in failing : \A j \in failing : i <= j][2]

\* TokenCrypto::unseal: decryption, then the expiration
UnsealChecks(in) ==
    LET status == ExpirationStatus(in.header)
    IN << <<"key" \in in.fails, "DecryptionError">>,
          <<status = "NoExpiration" /\ config.require_expiration, "InvalidPayload">>,
          <<status = "Expired", "TokenExpired">>,
          <<status = "FutureDated", "InvalidPayload">> >>

\* admit_token_optional and connect_target_with_policy
TokenlessChecks(in) ==
    << <<~config.token_optional, IF in.kind = "http" THEN "InvalidPayload" ELSE "ProxyAuthRequired">>,
       <<"authority" \in in.fails, "InvalidPayload">>,
       <<"policy" \in in.fails, "HostNotAllowed">> >>

\* TokenAdmission::decrypt and validate_request
HttpChecks(in) ==
    UnsealChecks(in) \o
    << <<"auth" \in in.fails, "ProxyAuthRequired">>,
       <<"authority" \in in.fails, "InvalidPayload">>,
       <<"host" \in in.fails, "HostNotAllowed">>,
       <<"method" \in in.fails, "MethodNotAllowed">>,
       <<"path" \in in.fails, "PathNotAllowed">> >>

\* Mutant: a CONNECT that trusts the tunnel to be harmless.
ConnectChecksNoHost(in) ==
    UnsealChecks(in) \o
    << <<"auth" \in in.fails, "ProxyAuthRequired">>,
       <<"authority" \in in.fails, "InvalidPayload">> >>

\* ConnectHandler::validate_connect; it checks the expiration once more
ConnectChecks(in) ==
    UnsealChecks(in) \o
    << <<"auth" \in in.fails, "ProxyAuthRequired">>,
       <<ExpirationStatus(in.header) = "Expired", "TokenExpired">>,
       <<ExpirationStatus(in.header) = "FutureDated", "InvalidPayload">>,
       <<"authority" \in in.fails, "InvalidPayload">>,
       <<"host" \in in.fails, "HostNotAllowed">> >>

\* The error the synchronous part of admission ends with, or None.
ValidationError(in) ==
    CASE in.header = NoHeader -> FirstError(TokenlessChecks(in))
      [] in.header = GarbledHeader ->
            IF in.kind = "http" THEN "InvalidPayload" ELSE "ProxyAuthRequired"
      [] in.header = MalformedHeader -> "InvalidPayload"
      [] in.header \in Token /\ in.kind = "http" -> FirstError(HttpChecks(in))
      [] in.header \in Token /\ in.kind = "connect" -> FirstError(ConnectChecks(in))

-----------------------------------------------------------------------------
Init ==
    /\ mono = 0 /\ skew = 0 /\ steps = 0 /\ boots = 0
    /\ config \in Configs
    /\ entries = [t \in Token |-> Absent]
    /\ sweep = [locking |-> FALSE, now |-> 0]
    /\ pc = [r \in Request |-> "idle"]
    /\ input = [r \in Request |-> None]
    /\ ttl = [r \in Request |-> 0]
    /\ now = [r \in Request |-> 0]
    /\ error = [r \in Request |-> None]
    /\ honoured = [t \in Token |-> 0]

Goto(r, where) == pc' = [pc EXCEPT ![r] = where]

Reject(r, e) == Goto(r, "rejected") /\ error' = [error EXCEPT ![r] = e]

\* The locals of a call that has returned or was dropped.
DropLocals(r) == ttl' = [ttl EXCEPT ![r] = 0] /\ now' = [now EXCEPT ![r] = 0]

\* An error after replay protection has let the request through.
Fail(r, e) == Goto(r, "failed") /\ error' = [error EXCEPT ![r] = e]

\* A request reaches the service.
Receive(r) ==
    /\ pc[r] = "idle"
    /\ \E in \in Inputs : input' = [input EXCEPT ![r] = in]
    /\ Goto(r, "received")
    /\ UNCHANGED <<clocks, process, store, ttl, now, error>>

\* Everything before the nonce: a token-less request is through, one with a
\* token goes on to replay protection.
Validate(r) ==
    LET e == ValidationError(input[r])
    IN /\ pc[r] = "received"
       /\ \/ e # None /\ Reject(r, e)
          \/ e = None /\ input[r].header = NoHeader /\ Goto(r, "forwarded") /\ UNCHANGED error
          \/ e = None /\ input[r].header \in Token /\ Goto(r, "validated") /\ UNCHANGED error
       /\ UNCHANGED <<clocks, process, store, input, ttl, now>>

\* Mutant: replay protection applies only where a store happens to be configured.
ProtectedIfStore(t) == Payload[t].replay /\ config.store

\* The payload has a replay_protection section.
Protected(t) == Payload[t].replay

\* check_replay and enforce_replay up to the call of the store: they fail closed
\* without a store, without an expiry and when the lifetime is over.
DeriveTtl(r) ==
    LET t == input[r].header
        protected == Protected(t)
        expires == Payload[t].expires_at # None
    IN /\ pc[r] = "validated"
       /\ \/ ~protected /\ Goto(r, "granted") /\ UNCHANGED <<ttl, error>>
          \/ protected /\ ~config.store
             /\ Reject(r, "ReplayProtectionUnavailable") /\ UNCHANGED ttl
          \/ protected /\ config.store /\ ~expires
             /\ Reject(r, "ReplayProtectionRequiresExpiry") /\ UNCHANGED ttl
          \/ protected /\ config.store /\ expires /\ TtlExpired(t)
             /\ Reject(r, "TokenExpired") /\ UNCHANGED ttl
          \/ protected /\ config.store /\ expires /\ ~TtlExpired(t)
             /\ ttl' = [ttl EXCEPT ![r] = TtlFromExpiry(t)]
             /\ Goto(r, "derived") /\ UNCHANGED error
       /\ UNCHANGED <<clocks, process, store, input, now>>

\* check_and_record reads the clock, then queues for the write lock.
ReadClock(r) ==
    /\ pc[r] = "derived"
    /\ now' = [now EXCEPT ![r] = mono]
    /\ Goto(r, "locking")
    /\ UNCHANGED <<clocks, process, store, input, ttl, error>>

\* The critical section of check_and_record, with the clock read before it: the
\* use is recorded, or the request is a replay.  The call's locals end with it.
GrantUse(r) ==
    LET t == input[r].header
    IN /\ pc[r] = "locking"
       /\ Allows(entries[t], Payload[t].max_uses, now[r])
       /\ entries' = [entries EXCEPT ![t] = Recorded(@, now[r], now[r] + ttl[r])]
       /\ honoured' = [honoured EXCEPT ![t] = IF Wall < EffectiveExpiry(t) THEN @ + 1 ELSE @]
       /\ Goto(r, "granted") /\ DropLocals(r)
       /\ UNCHANGED <<clocks, process, sweep, input, error>>

DenyUse(r) ==
    LET t == input[r].header
    IN /\ pc[r] = "locking"
       /\ ~Allows(entries[t], Payload[t].max_uses, now[r])
       /\ entries' = [entries EXCEPT ![t] = Refused(@)]
       /\ Reject(r, "TokenReplayDetected") /\ DropLocals(r)
       /\ UNCHANGED <<clocks, process, sweep, honoured, input>>

\* Mutant: a replay is never answered.
CheckAndRecordHangs(r) == GrantUse(r)

CheckAndRecord(r) == GrantUse(r) \/ DenyUse(r)

\* What finalize may end with: validate_processor_config's error, or one of those
\* that Processor::process raises.
FinalizeErrors(in) ==
    IF in.kind = "connect" THEN {}
    ELSE IF "config" \in in.fails THEN {"InvalidPayload"}
    ELSE IF "processor" \in in.fails
    THEN {"ConfigError", "OAuthRefreshError", "InvalidPayload", "SigningError"}
    ELSE {}

\* finalize: the secret is injected, or the request fails with its use spent.
\* A CONNECT has nothing to inject; its tunnel is spawned.
Finalize(r) ==
    LET errors == FinalizeErrors(input[r])
    IN /\ pc[r] = "granted"
       /\ \/ \E e \in errors : Fail(r, e)
          \/ errors = {} /\ Goto(r, "forwarded") /\ UNCHANGED error
       /\ UNCHANGED <<clocks, process, store, input, ttl, now>>

\* The upstream answers or fails; a tunnel ends.
Answer(r) ==
    /\ pc[r] = "forwarded"
    /\ \/ Goto(r, "answered") /\ UNCHANGED error
       \/ input[r].kind = "http" /\ Fail(r, "HttpError")
    /\ UNCHANGED <<clocks, process, store, input, ttl, now>>

\* The request timeout fires or the client goes away: the future is dropped at
\* the await it is suspended in, the store's lock or the upstream's answer.  A
\* tunnel runs in a task of its own that neither reaches.
Cancel(r) ==
    /\ \/ pc[r] = "locking"
       \/ pc[r] = "forwarded" /\ input[r].kind = "http"
    /\ Goto(r, "cancelled")
    /\ DropLocals(r)
    /\ UNCHANGED <<clocks, process, store, input, error>>

-----------------------------------------------------------------------------
(* The cleanup task: sleep, read the clock, wait for the lock, retain.     *)

SweepWake ==
    /\ ~sweep.locking
    /\ sweep' = [locking |-> TRUE, now |-> mono]
    /\ UNCHANGED <<clocks, process, entries, honoured, requests>>

SweepRetain ==
    /\ sweep.locking
    /\ entries' = Retain(entries, sweep.now)
    /\ sweep' = [locking |-> FALSE, now |-> 0]
    /\ UNCHANGED <<clocks, process, honoured, requests>>

-----------------------------------------------------------------------------
(* The environment                                                         *)

Tick ==
    /\ mono < MaxTicks
    /\ mono' = mono + 1
    /\ UNCHANGED <<skew, steps, process, store, requests>>

\* The operating system steps the wall clock.
StepClock ==
    /\ steps < MaxSteps
    /\ \E d \in ClockSteps : Wall + d >= 0 /\ skew' = skew + d
    /\ steps' = steps + 1
    /\ UNCHANGED <<mono, process, store, requests>>

\* The process dies and starts again with an empty store.
Restart ==
    /\ boots < MaxRestarts
    /\ boots' = boots + 1
    /\ entries' = [t \in Token |-> Absent]
    /\ sweep' = [locking |-> FALSE, now |-> 0]
    /\ honoured' = [t \in Token |-> 0]
    /\ pc' = [r \in Request |-> IF pc[r] \in Open THEN "lost" ELSE pc[r]]
    /\ ttl' = [r \in Request |-> 0] /\ now' = [r \in Request |-> 0]
    /\ UNCHANGED <<clocks, config, input, error>>

Serve(r) ==
    \/ Receive(r) \/ Validate(r) \/ DeriveTtl(r) \/ ReadClock(r)
    \/ CheckAndRecord(r) \/ Finalize(r) \/ Answer(r) \/ Cancel(r)

Next ==
    \/ \E r \in Request : Serve(r)
    \/ SweepWake \/ SweepRetain
    \/ Tick \/ StepClock \/ Restart

Spec == Init /\ [][Next]_vars

-----------------------------------------------------------------------------
(* Fairness: tokio polls every task that can run, the cleanup task sleeps a *)
(* finite interval, and the write lock is granted in the order it was asked *)
(* for (a critical section never awaits, so it is free at the next step).   *)
Fairness ==
    /\ WF_vars(SweepWake) /\ WF_vars(SweepRetain)
    /\ \A r \in Request :
          WF_vars(Validate(r) \/ DeriveTtl(r) \/ ReadClock(r) \/ CheckAndRecord(r) \/ Finalize(r))

FairSpec == Spec /\ Fairness

-----------------------------------------------------------------------------
(* Properties                                                              *)

TypeOK ==
    /\ mono \in 0..MaxTicks /\ skew \in Int /\ Wall \in Nat
    /\ steps \in 0..MaxSteps /\ boots \in 0..MaxRestarts /\ config \in Configs
    /\ entries \in [Token -> Entry]
    /\ sweep \in [locking : BOOLEAN, now : 0..MaxTicks]
    /\ pc \in [Request -> {"idle"} \cup Open \cup Closed]
    /\ input \in [Request -> Inputs \cup {None}]
    /\ ttl \in [Request -> Nat]
    /\ now \in [Request -> 0..MaxTicks]
    /\ error \in [Request -> TokenizerError \cup {None}]
    /\ honoured \in [Token -> Nat]

\* The tokens whose nonce lives as long as they do: its TTL is derived from the
\* expiry, and the limit is below the count's ceiling.
Guarded ==
    {t \in Token : /\ Payload[t].replay /\ Payload[t].expires_at # None
                   /\ Payload[t].nonce_ttl = None
                   /\ Payload[t].max_uses # None => Payload[t].max_uses < U32Max}

\* However its requests, CONNECTs, the cleanup task and a clock stepped forward
\* interleave, a token is granted no more than max_uses uses while it lives.
UsesBounded ==
    \A t \in Guarded : Payload[t].max_uses # None => honoured[t] <= Payload[t].max_uses

\* While a used token lives its nonce is in the store, not stale, and the count
\* get_use_count reports is the number of uses granted: the nonce outlives the
\* token, for audit-only tokens too (up to the ceiling of the count).
NonceOutlivesToken ==
    \A t \in Guarded :
        Wall < EffectiveExpiry(t) /\ honoured[t] <= U32Max
            => UseCount(entries[t], mono) = honoured[t]

Carrying(t, where) == {r \in Request : pc[r] \in where /\ input[r].header = t}

\* The outcomes that are logged and counted tell what was spent: a request refused
\* before or by replay protection spent no use, one that was let through spent
\* exactly one, failed or not; only a cancelled one leaves it open.
AnswersTellSpending ==
    \A t \in Guarded :
        boots = 0 /\ Wall < EffectiveExpiry(t) /\ honoured[t] <= U32Max =>
            LET spent == Cardinality(Carrying(t, {"granted", "forwarded", "answered", "failed"}))
                unsure == Cardinality(Carrying(t, {"cancelled"}))
            IN UseCount(entries[t], mono) \in spent .. spent + unsure

\* The proxy keeps the abstract promise for the tokens it guards.
Promise == INSTANCE BoundedUse WITH
    Token <- Guarded,
    Limit <- [t \in Guarded |-> Payload[t].max_uses],
    used <- [t \in Guarded |-> honoured[t]],
    expired <- {t \in Guarded : Wall >= EffectiveExpiry(t)}
KeepsPromise == Promise!Spec

\* Nothing is forwarded or tunnelled on a token that failed a check of its
\* entrance, nor without a token but under the static host policy (a CONNECT has
\* no method, path or injection to check), and nothing on a token under replay
\* protection that could not be enforced: without a store or an expiry it fails
\* closed.
OnlyVettedForwarded ==
    \A r \in Request : pc[r] \in {"forwarded", "answered"} =>
        LET checked ==
                IF input[r].header = NoHeader THEN {"authority", "policy"}
                ELSE {"key", "auth", "authority", "host"} \cup
                     (IF input[r].kind = "connect" THEN {}
                      ELSE {"method", "path", "config", "processor"})
        IN /\ input[r].header \in Token \cup (IF config.token_optional THEN {NoHeader} ELSE {})
           /\ input[r].fails \cap checked = {}
           /\ input[r].header \in Token /\ Payload[input[r].header].replay
                 => config.store /\ Payload[input[r].header].expires_at # None

\* The cleanup task bounds the map: a stale entry is removed or used afresh.
StaleEntriesGo ==
    \A t \in Token :
        Present(entries[t]) /\ Stale(entries[t], mono)
            ~> ~Present(entries[t]) \/ ~Stale(entries[t], mono)

\* No request is stuck in admission, whatever the others do to the lock.
AdmissionDecides ==
    \A r \in Request : pc[r] = "received" ~> pc[r] \in {"forwarded"} \cup Closed

\* The uses of a token, whenever they happen: "Maximum number of times this
\* token can be used" (ReplayProtection::max_uses).
MaxUsesEver ==
    \A t \in Token :
        Payload[t].replay /\ Payload[t].max_uses # None
            => Cardinality(Carrying(t, {"granted", "forwarded", "answered"}))
                  <= Payload[t].max_uses
=============================================================================
