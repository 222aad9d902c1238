---------------------------- MODULE MCAdmission ----------------------------
(* Instances of Admission for TLC.                                         *)
EXTENDS Admission, TLC

CONSTANTS r1, r2, r3, single, short, audit, endless, plain

Sealed(expires_at, replay, max_uses, nonce_ttl) ==
    [expires_at |-> expires_at, replay |-> replay,
     max_uses |-> max_uses, nonce_ttl |-> nonce_ttl]

\* single: single use, lives on the tolerance; short: the same with an explicit
\* nonce TTL of 1 s; audit: no limit; endless: replay protection without an
\* expiry; plain: no replay protection.
MCPayload ==
    (single :> Sealed(0, TRUE, 1, None)) @@ (short :> Sealed(1, TRUE, 1, 1)) @@
    (audit :> Sealed(1, TRUE, None, None)) @@ (endless :> Sealed(None, TRUE, 1, None)) @@
    (plain :> Sealed(2, FALSE, None, None))

PayloadOfTokens == [t \in Token |-> MCPayload[t]]

In(kind, header, fails) == [kind |-> kind, header |-> header, fails |-> fails]

\* One token, over both entrances, and a request that fails after its use.
RaceInputs ==
    {In("http", t, {}) : t \in Token} \cup {In("connect", t, {}) : t \in Token}
        \cup {In("http", t, {"config"}) : t \in Token}

\* Every header on both entrances, every reason to refuse, and the refusals on
\* either side of replay protection.
PipelineInputs ==
    {In(k, h, {}) : k \in {"http", "connect"},
                    h \in Token \cup {NoHeader, GarbledHeader, MalformedHeader}}
        \cup {In(k, h, {c}) : k \in {"http", "connect"}, h \in {plain, NoHeader}, c \in Check}
        \cup {In("http", h, {c}) : h \in {single, audit}, c \in {"host", "config"}}

Config(has_store, require_expiration, token_optional) ==
    [store |-> has_store, require_expiration |-> require_expiration,
     token_optional |-> token_optional]

OneConfig == {Config(TRUE, FALSE, FALSE)}
\* Everything on but the demand for expirations, and the other way round.
TwoConfigs == {Config(TRUE, FALSE, TRUE), Config(FALSE, TRUE, FALSE)}

RequestSymmetry == Permutations(Request)
=============================================================================
