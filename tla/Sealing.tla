------------------------------ MODULE Sealing ------------------------------
(***************************************************************************)
(* Sealed tokens and the keys that open them: what the seal command and    *)
(* the builder put into a token, how the key store finds the key of a      *)
(* token's key id, and what unsealing answers.                             *)
(*                                                                         *)
(* Cryptography is ideal and external: a box opens with the key it was     *)
(* sealed for and no other, a box that was tampered with does not open.    *)
(***************************************************************************)
EXTENDS Integers, Sequences

CONSTANTS
    Key,       \* the keypairs of the operator: [id |-> key_id, version |-> n]
    Template,  \* what may be asked to be sealed
    None       \* an absent Option

VersionedKeypair == [id : STRING, version : Nat]

\* What the seal command is asked for, as far as unsealing looks at it.  Lifetimes, of
\* the token and of the OAuth access token it holds, count from the sealing.
SealArgs(template) ==
    /\ DOMAIN template = {"secret", "processor", "expires_in", "replay", "oauth"}
    /\ template.expires_in \in Nat \cup {None}
    /\ template.replay \in BOOLEAN
    /\ template.oauth \in Nat \cup {None}

ASSUME SealingAssumption ==
    /\ Key \subseteq VersionedKeypair /\ None \notin VersionedKeypair
    /\ \A template \in Template : SealArgs(template)

\* max_future_seconds may be absent.
ClockSkewConfig == [tolerance : Nat, max_future : Nat \cup {None}]

DecryptConfig == [clock_skew : ClockSkewConfig, require_expiration : BOOLEAN]

-----------------------------------------------------------------------------
(* KeyStore                                                                *)

WithPrimary(k) == [primary |-> k, historical |-> <<>>]

\* Mutant: the primary is replaced.
ReplacePrimary(ks, k) == [ks EXCEPT !.primary = k]

\* Mutant: the new key is pushed, the old one taken.
TakePrimary(ks, k) ==
    [primary |-> None, historical |-> Append(ks.historical, k)]

\* set_primary: the old primary moves to the end of the historical keys.
SetPrimary(ks, k) ==
    [primary |-> k,
     historical |-> IF ks.primary = None THEN ks.historical ELSE Append(ks.historical, ks.primary)]

AddHistorical(ks, k) == [ks EXCEPT !.historical = Append(@, k)]

\* iter: primary, then historical.
Chain(ks) == (IF ks.primary = None THEN <<>> ELSE <<ks.primary>>) \o ks.historical

\* find_by_id: the first key with the id, the primary before the historical ones.
FindById(ks, id) ==
    LET found == {i \in DOMAIN Chain(ks) : Chain(ks)[i].id = id}
    IN IF found = {} THEN None
       ELSE Chain(ks)[CHOOSE i \in found : \A j \in found : i <= j]

-----------------------------------------------------------------------------
(* Sealing                                                                 *)

\* build_seal_payload and TokenPayloadBuilder::build refuse replay protection
\* without an expiry.
Buildable(template) == template.replay => template.expires_in # None

At(offset, now) == IF offset = None THEN None ELSE now + offset

OAuthMetadata(template, now) == [access_token_expires_at |-> At(template.oauth, now)]

Payload(template, now) ==
    [secret |-> template.secret, processor |-> template.processor,
     expires_at |-> At(template.expires_in, now),
     replay |-> template.replay,
     oauth |-> OAuthMetadata(template, now)]

SealedBox(payload, k) == [sealed_for |-> k, payload |-> payload]

\* create_sealed_token and the seal command: the token names the key it is for.
SealedToken(payload, k) ==
    LET box == SealedBox(payload, k)
    IN [key_id |-> k.id, sealed_for |-> box.sealed_for, payload |-> box.payload]

-----------------------------------------------------------------------------
(* Unsealing                                                               *)

\* check_expiration and check_access_token_expiration
\* with a ClockSkewConfig.
ExpirationStatus(expires_at, now, skew) ==
    IF expires_at = None THEN "NoExpiration"
    ELSE IF skew.max_future # None /\ expires_at > now + skew.max_future THEN "FutureDated"
    ELSE IF now > expires_at + skew.tolerance THEN "Expired" ELSE "Valid"

\* The key the token's id leads to is the one its box was sealed for.
Opens(ks, token) == FindById(ks, token.key_id) = token.sealed_for

\* decrypt_sealed_token_with_config: the error it ends with, or None.
UnsealError(ks, token, now, decrypt_config) ==
    LET status == ExpirationStatus(token.payload.expires_at, now, decrypt_config.clock_skew)
    IN CASE ~Opens(ks, token) -> "DecryptionError"
         [] Opens(ks, token) /\ status = "Expired" -> "TokenExpired"
         [] Opens(ks, token) /\ status = "FutureDated" -> "InvalidPayload"
         [] Opens(ks, token) /\ status = "NoExpiration" /\ decrypt_config.require_expiration -> "InvalidPayload"
         [] OTHER -> None
=============================================================================
