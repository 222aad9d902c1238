--------------------------- MODULE AdmissionProofs ---------------------------
(***************************************************************************)
(* Replay protection holds for any number of requests, tokens, clock       *)
(* resolutions and tolerances, as long as the wall clock is never stepped  *)
(* back.                                                                   *)
(***************************************************************************)
EXTENDS Admission, FiniteSetTheorems, WellFoundedInduction, TLAPS

\* A request that asks the store about a token carries one, with an expiry.
HeaderInv ==
    \A r \in Request :
        /\ pc[r] \in {"received", "validated", "derived", "locking", "granted", "forwarded"}
              => input[r] \in Inputs
        /\ pc[r] \in {"validated", "derived", "locking"} => input[r].header \in Token
        /\ pc[r] \in {"derived", "locking"} =>
              /\ Payload[input[r].header].replay
              /\ Payload[input[r].header].expires_at # None

\* No clock value read earlier is ahead of the clock.
ClockInv ==
    /\ sweep.now <= mono
    /\ \A r \in Request : now[r] <= mono

\* The TTL a request holds reaches to the end of the token's lifetime.
TtlInv ==
    \A r \in Request : pc[r] \in {"derived", "locking"} /\ input[r].header \in Guarded =>
        LET t == input[r].header
        IN /\ pc[r] = "derived" => mono + skew + ttl[r] >= EffectiveExpiry(t)
           /\ pc[r] = "locking" => now[r] + skew + ttl[r] >= EffectiveExpiry(t)

\* So does every entry, it respects the limit, and while the token lives it
\* counts every use granted.
EntryInv ==
    \A t \in Guarded :
        /\ Present(entries[t]) => entries[t].expires_at + skew >= EffectiveExpiry(t)
        /\ Payload[t].max_uses # None => entries[t].uses <= Payload[t].max_uses
        /\ Wall < EffectiveExpiry(t) =>
              \/ entries[t].uses = honoured[t]
              \/ entries[t].uses = U32Max /\ honoured[t] >= U32Max


-----------------------------------------------------------------------------
(* Constants and the operators of the store.                               *)

\* Where the lifetime of a token with an expiry ends.
LEMMA ExpiryType ==
    ASSUME NEW t \in Token, Payload[t].expires_at # None
    PROVE  EffectiveExpiry(t) \in Nat
  BY AdmissionAssumption DEF EffectiveExpiry, Ticks, PayloadType

\* as_secs rounds down: the clock it gives is never ahead.
LEMMA WholeSecondsBound ==
    ASSUME NEW w \in Nat
    PROVE  WholeSeconds(w) \in Int /\ WholeSeconds(w) <= w
  BY AdmissionAssumption DEF WholeSeconds

\* ttl_from_expiry: accepted, it is a duration; derived, it reaches the end of
\* the token's lifetime.
LEMMA TtlCovers ==
    ASSUME TypeOK, NEW t \in Token, Payload[t].expires_at # None, ~TtlExpired(t)
    PROVE  /\ TtlFromExpiry(t) \in Nat
           /\ t \in Guarded => mono + skew + TtlFromExpiry(t) >= EffectiveExpiry(t)
  <1>1. EffectiveExpiry(t) \in Nat BY ExpiryType
  <1>2. WholeSeconds(Wall) \in Int /\ WholeSeconds(Wall) <= Wall
    BY WholeSecondsBound DEF TypeOK
  <1>3. CASE Payload[t].nonce_ttl = None
    BY <1>1, <1>2, <1>3 DEF TtlFromExpiry, TtlExpired, Guarded, Wall, TypeOK
  <1>4. CASE Payload[t].nonce_ttl # None
    <2>1. Ticks(Payload[t].nonce_ttl) \in Nat
      BY <1>4, AdmissionAssumption DEF Ticks, PayloadType
    <2>2. QED BY <2>1, <1>4 DEF TtlFromExpiry, Guarded
  <1>5. QED BY <1>3, <1>4

\* What an Allowed use leaves in the store is an entry.
LEMMA RecordedType ==
    ASSUME NEW entry \in Entry, NEW n \in Nat, NEW e \in Nat
    PROVE  /\ Recorded(entry, n, e) \in Entry
           /\ Recorded(entry, n, e).uses > 0
           /\ Recorded(entry, n, e).expires_at = e
  BY U32MaxAssumption
  DEF Recorded, Entry, SaturatingIncrement, CountsAfresh

\* Two clocks that do not go back.
LEMMA SumGrows ==
    ASSUME NEW a \in Int, NEW b \in Int, NEW c \in Int, NEW d \in Int, c >= a, d >= b
    PROVE  c + d >= a + b
  OBVIOUS

LEMMA ZeroTick == 0 \in 0..MaxTicks
  BY AdmissionAssumption

LEMMA AbsentType == Absent \in Entry /\ ~Present(Absent)
  BY U32MaxAssumption DEF Absent, Entry, Present

-----------------------------------------------------------------------------
(* Validation: what a chain of checks answers.                              *)

IsChecks(checks) == checks \in Seq(BOOLEAN \X TokenizerError)
Passes(checks) == \A i \in 1..Len(checks) : ~checks[i][1]

\* A set of numbers that is not empty has a least one.
LEMMA LeastIndex ==
    ASSUME NEW T \in SUBSET Nat, T # {}
    PROVE  \E m \in T : \A k \in T : m <= k
  <1> DEFINE R == OpToRel(<, Nat)
  <1>1. IsWellFoundedOn(R, Nat) BY NatLessThanWellFounded
  <1>2. \A x, y \in Nat : y < x => <<y, x>> \in R BY DEF OpToRel
  <1> HIDE DEF R
  <1>3. PICK x \in T : \A y \in T : ~(<<y, x>> \in R) BY <1>1, WFMin
  <1>4. \A k \in T : ~(k < x) BY <1>2, <1>3
  <1>5. QED BY <1>4

\* The first check that fails decides, and none failing is None: the chain of
\* early returns ends with an error exactly when some check fails.
LEMMA FirstErrorDecides ==
    ASSUME NEW checks, IsChecks(checks)
    PROVE  /\ FirstError(checks) \in TokenizerError \cup {None}
           /\ FirstError(checks) = None <=> Passes(checks)
  <1> DEFINE failing == {i \in DOMAIN checks : checks[i][1]}
  <1>1. DOMAIN checks = 1..Len(checks) /\ Len(checks) \in Nat BY DEF IsChecks
  <1>2. CASE failing = {}
    BY <1>1, <1>2 DEF FirstError, Passes
  <1>3. CASE failing # {}
    <2> DEFINE first == CHOOSE i \in failing : \A j \in failing : i <= j
    <2>1. failing \in SUBSET Nat BY <1>1
    <2>2. first \in failing BY <2>1, <1>3, LeastIndex
    <2>3. checks[first] \in BOOLEAN \X TokenizerError BY <2>2, <1>1 DEF IsChecks
    <2>4. FirstError(checks) = checks[first][2] BY <1>3 DEF FirstError
    <2>5. ~Passes(checks) BY <1>1, <2>2 DEF Passes
    <2>6. checks[first][2] \in TokenizerError BY <2>3
    <2>7. QED BY <2>4, <2>5, <2>6, AdmissionAssumption
  <1>4. QED BY <1>2, <1>3

\* Two stages of checks, one after the other.
LEMMA ChecksCompose ==
    ASSUME NEW a, NEW b, IsChecks(a), IsChecks(b)
    PROVE  /\ IsChecks(a \o b)
           /\ Passes(a \o b) => Passes(a) /\ Passes(b)
  <1>1. IsChecks(a \o b) BY DEF IsChecks
  <1>2. /\ Len(a) \in Nat /\ Len(b) \in Nat /\ Len(a \o b) = Len(a) + Len(b)
        /\ \A i \in 1..Len(a) : (a \o b)[i] = a[i]
        /\ \A i \in 1..Len(b) : (a \o b)[i + Len(a)] = b[i]
    BY DEF IsChecks
  <1>3. ASSUME Passes(a \o b) PROVE Passes(a) BY <1>2, <1>3 DEF Passes
  <1>4. ASSUME Passes(a \o b), NEW i \in 1..Len(b) PROVE ~b[i][1]
    <2>1. i + Len(a) \in 1..Len(a \o b) BY <1>2
    <2>2. QED BY <1>2, <1>4, <2>1 DEF Passes
  <1>5. QED BY <1>1, <1>3, <1>4 DEF Passes

\* One check, and the shorter chains that the entrances make.
LEMMA OneCheck ==
    ASSUME NEW fails \in BOOLEAN, NEW e \in TokenizerError
    PROVE  <<fails, e>> \in BOOLEAN \X TokenizerError /\ <<fails, e>>[1] = fails
  OBVIOUS

LEMMA ThreeChecks ==
    ASSUME NEW a \in BOOLEAN, NEW b \in BOOLEAN, NEW c \in BOOLEAN,
           NEW ea \in TokenizerError, NEW eb \in TokenizerError, NEW ec \in TokenizerError
    PROVE  /\ IsChecks(<< <<a, ea>>, <<b, eb>>, <<c, ec>> >>)
           /\ Passes(<< <<a, ea>>, <<b, eb>>, <<c, ec>> >>)
                 => ~a /\ ~b /\ ~c
  <1> DEFINE ca == <<a, ea>>
             cb == <<b, eb>>
             cc == <<c, ec>>
  <1>1. /\ ca \in BOOLEAN \X TokenizerError /\ ca[1] = a
        /\ cb \in BOOLEAN \X TokenizerError /\ cb[1] = b
        /\ cc \in BOOLEAN \X TokenizerError /\ cc[1] = c
    BY OneCheck
  <1> HIDE DEF ca, cb, cc
  <1>2. IsChecks(<<ca, cb, cc>>) BY <1>1 DEF IsChecks
  <1>3. Passes(<<ca, cb, cc>>) => ~ca[1] /\ ~cb[1] /\ ~cc[1] BY DEF Passes
  <1>4. QED BY <1>1, <1>2, <1>3 DEF ca, cb, cc

LEMMA FourChecks ==
    ASSUME NEW a \in BOOLEAN, NEW b \in BOOLEAN, NEW c \in BOOLEAN, NEW d \in BOOLEAN,
           NEW ea \in TokenizerError, NEW eb \in TokenizerError, NEW ec \in TokenizerError,
           NEW ed \in TokenizerError
    PROVE  /\ IsChecks(<< <<a, ea>>, <<b, eb>>, <<c, ec>>, <<d, ed>> >>)
           /\ Passes(<< <<a, ea>>, <<b, eb>>, <<c, ec>>, <<d, ed>> >>)
                 => ~a /\ ~b /\ ~c /\ ~d
  <1> DEFINE ca == <<a, ea>>
             cb == <<b, eb>>
             cc == <<c, ec>>
             cd == <<d, ed>>
  <1>1. /\ ca \in BOOLEAN \X TokenizerError /\ ca[1] = a
        /\ cb \in BOOLEAN \X TokenizerError /\ cb[1] = b
        /\ cc \in BOOLEAN \X TokenizerError /\ cc[1] = c
        /\ cd \in BOOLEAN \X TokenizerError /\ cd[1] = d
    BY OneCheck
  <1> HIDE DEF ca, cb, cc, cd
  <1>2. IsChecks(<<ca, cb, cc, cd>>) BY <1>1 DEF IsChecks
  <1>3. Passes(<<ca, cb, cc, cd>>) => ~ca[1] /\ ~cb[1] /\ ~cc[1] /\ ~cd[1] BY DEF Passes
  <1>4. QED BY <1>1, <1>2, <1>3 DEF ca, cb, cc, cd

\* The errors that admission answers with are among the proxy's.
LEMMA ErrorNames ==
    /\ "DecryptionError" \in TokenizerError /\ "InvalidPayload" \in TokenizerError
    /\ "TokenExpired" \in TokenizerError /\ "ProxyAuthRequired" \in TokenizerError
    /\ "HostNotAllowed" \in TokenizerError /\ "MethodNotAllowed" \in TokenizerError
    /\ "PathNotAllowed" \in TokenizerError /\ "TokenReplayDetected" \in TokenizerError
    /\ "ReplayProtectionUnavailable" \in TokenizerError
    /\ "ReplayProtectionRequiresExpiry" \in TokenizerError /\ "HttpError" \in TokenizerError
  BY DEF TokenizerError, Status403, Status401

\* The checks a request has to pass before replay protection.
Entrance(in) ==
    IF in.header = NoHeader THEN {"authority", "policy"}
    ELSE {"key", "auth", "authority", "host"} \cup
         (IF in.kind = "connect" THEN {} ELSE {"method", "path"})

\* Whatever stage refuses a request, it is with an error of the proxy, and one
\* that no stage refuses carries a token or is allowed to come without, and has
\* failed none of the checks of its entrance.
LEMMA ValidationDecides ==
    ASSUME NEW in \in InputType
    PROVE  /\ ValidationError(in) \in TokenizerError \cup {None}
           /\ ValidationError(in) = None =>
                 /\ in.header \in Token \/ (in.header = NoHeader /\ config.token_optional)
                 /\ in.fails \cap Entrance(in) = {}
  <1> DEFINE unseal == UnsealChecks(in)
  <1>1. IsChecks(unseal) /\ (Passes(unseal) => "key" \notin in.fails)
    <2> DEFINE status == ExpirationStatus(in.header)
               a == "key" \in in.fails
               b == status = "NoExpiration" /\ config.require_expiration
               c == status = "Expired"
               d == status = "FutureDated"
    <2>1. a \in BOOLEAN /\ b \in BOOLEAN /\ c \in BOOLEAN /\ d \in BOOLEAN OBVIOUS
    <2>2. unseal = << <<a, "DecryptionError">>, <<b, "InvalidPayload">>,
                      <<c, "TokenExpired">>, <<d, "InvalidPayload">> >>
      BY DEF UnsealChecks
    <2> HIDE DEF a, b, c, d, unseal
    <2>3. IsChecks(unseal) /\ (Passes(unseal) => ~a) BY ErrorNames, <2>1, <2>2, FourChecks
    <2>4. QED BY <2>3 DEF a
  <1>3. /\ in.kind \in {"http", "connect"}
        /\ in.header \in Token \cup {NoHeader, GarbledHeader, MalformedHeader}
    BY DEF InputType
  <1>4. CASE in.header = NoHeader
    <2> DEFINE checks == TokenlessChecks(in)
               a == ~config.token_optional
               b == "authority" \in in.fails
               c == "policy" \in in.fails
               e == IF in.kind = "http" THEN "InvalidPayload" ELSE "ProxyAuthRequired"
    <2>0. a \in BOOLEAN /\ b \in BOOLEAN /\ c \in BOOLEAN /\ e \in TokenizerError
      BY ErrorNames
    <2>1. checks = << <<a, e>>, <<b, "InvalidPayload">>, <<c, "HostNotAllowed">> >>
      BY DEF TokenlessChecks
    <2>2. IsChecks(checks) /\ (Passes(checks) => ~a /\ ~b /\ ~c)
      <3> HIDE DEF a, b, c, e, checks
      <3>1. QED BY ErrorNames, <2>0, <2>1, ThreeChecks
    <2>3. ValidationError(in) = FirstError(checks)
      BY <1>4, AdmissionAssumption DEF ValidationError
    <2> HIDE DEF checks
    <2>4. QED BY <2>2, <2>3, <1>4, FirstErrorDecides DEF Entrance
  <1>5. CASE in.header = GarbledHeader \/ in.header = MalformedHeader
    BY ErrorNames, <1>5, AdmissionAssumption DEF ValidationError
  <1>6. CASE in.header \in Token /\ in.kind = "http"
    <2> DEFINE a == "auth" \in in.fails
               b == "authority" \in in.fails
               c == "host" \in in.fails
               d == "method" \in in.fails
               e == "path" \in in.fails
               rest == << <<a, "ProxyAuthRequired">>, <<b, "InvalidPayload">>,
                          <<c, "HostNotAllowed">>, <<d, "MethodNotAllowed">>,
                          <<e, "PathNotAllowed">> >>
    <2>1. a \in BOOLEAN /\ b \in BOOLEAN /\ c \in BOOLEAN /\ d \in BOOLEAN /\ e \in BOOLEAN
      OBVIOUS
    <2>2. IsChecks(rest) /\ (Passes(rest) => ~a /\ ~b /\ ~c /\ ~d /\ ~e)
      <3> DEFINE ca == <<a, "ProxyAuthRequired">>
                 cb == <<b, "InvalidPayload">>
                 cc == <<c, "HostNotAllowed">>
                 cd == <<d, "MethodNotAllowed">>
                 ce == <<e, "PathNotAllowed">>
      <3>1. rest = <<ca, cb, cc, cd, ce>> OBVIOUS
      <3>2. /\ ca \in BOOLEAN \X TokenizerError /\ ca[1] = a
            /\ cb \in BOOLEAN \X TokenizerError /\ cb[1] = b
            /\ cc \in BOOLEAN \X TokenizerError /\ cc[1] = c
            /\ cd \in BOOLEAN \X TokenizerError /\ cd[1] = d
            /\ ce \in BOOLEAN \X TokenizerError /\ ce[1] = e
        <4> HIDE DEF a, b, c, d, e
        <4>1. QED BY ErrorNames, <2>1, OneCheck
      <3> HIDE DEF a, b, c, d, e, ca, cb, cc, cd, ce, rest
      <3>3. IsChecks(rest) BY <3>1, <3>2 DEF IsChecks
      <3>4. Passes(rest) => ~ca[1] /\ ~cb[1] /\ ~cc[1] /\ ~cd[1] /\ ~ce[1]
        BY <3>1 DEF Passes
      <3>5. QED BY <3>2, <3>3, <3>4
    <2>3. HttpChecks(in) = unseal \o rest BY DEF HttpChecks
    <2>4. ValidationError(in) = FirstError(HttpChecks(in))
      BY <1>6, AdmissionAssumption DEF ValidationError
    <2>5. Entrance(in) = {"key", "auth", "authority", "host", "method", "path"}
      BY <1>6, AdmissionAssumption DEF Entrance
    <2> HIDE DEF unseal, rest
    <2>6. IsChecks(HttpChecks(in)) /\ (Passes(HttpChecks(in)) => Passes(unseal) /\ Passes(rest))
      BY <1>1, <2>2, <2>3, ChecksCompose
    <2>7. /\ ValidationError(in) \in TokenizerError \cup {None}
          /\ ValidationError(in) = None => Passes(unseal) /\ Passes(rest)
      BY <2>4, <2>6, FirstErrorDecides
    <2>8. ASSUME ValidationError(in) = None PROVE in.fails \cap Entrance(in) = {}
      <3>1. "key" \notin in.fails BY <1>1, <2>7, <2>8
      <3>2. ~a /\ ~b /\ ~c /\ ~d /\ ~e
        <4> HIDE DEF a, b, c, d, e
        <4>1. QED BY <2>2, <2>7, <2>8
      <3>3. QED BY <2>5, <3>1, <3>2
    <2>9. QED BY <1>6, <2>7, <2>8
  <1>7. CASE in.header \in Token /\ in.kind = "connect"
    <2> DEFINE a == "auth" \in in.fails
               b == ExpirationStatus(in.header) = "Expired"
               c == ExpirationStatus(in.header) = "FutureDated"
               d == "authority" \in in.fails
               e == "host" \in in.fails
               rest == << <<a, "ProxyAuthRequired">>, <<b, "TokenExpired">>,
                          <<c, "InvalidPayload">>, <<d, "InvalidPayload">>,
                          <<e, "HostNotAllowed">> >>
    <2>1. a \in BOOLEAN /\ b \in BOOLEAN /\ c \in BOOLEAN /\ d \in BOOLEAN /\ e \in BOOLEAN
      OBVIOUS
    <2>2. IsChecks(rest) /\ (Passes(rest) => ~a /\ ~b /\ ~c /\ ~d /\ ~e)
      <3> DEFINE ca == <<a, "ProxyAuthRequired">>
                 cb == <<b, "TokenExpired">>
                 cc == <<c, "InvalidPayload">>
                 cd == <<d, "InvalidPayload">>
                 ce == <<e, "HostNotAllowed">>
      <3>1. rest = <<ca, cb, cc, cd, ce>> OBVIOUS
      <3>2. /\ ca \in BOOLEAN \X TokenizerError /\ ca[1] = a
            /\ cb \in BOOLEAN \X TokenizerError /\ cb[1] = b
            /\ cc \in BOOLEAN \X TokenizerError /\ cc[1] = c
            /\ cd \in BOOLEAN \X TokenizerError /\ cd[1] = d
            /\ ce \in BOOLEAN \X TokenizerError /\ ce[1] = e
        <4> HIDE DEF a, b, c, d, e
        <4>1. QED BY ErrorNames, <2>1, OneCheck
      <3> HIDE DEF a, b, c, d, e, ca, cb, cc, cd, ce, rest
      <3>3. IsChecks(rest) BY <3>1, <3>2 DEF IsChecks
      <3>4. Passes(rest) => ~ca[1] /\ ~cb[1] /\ ~cc[1] /\ ~cd[1] /\ ~ce[1]
        BY <3>1 DEF Passes
      <3>5. QED BY <3>2, <3>3, <3>4
    <2>3. ConnectChecks(in) = unseal \o rest BY DEF ConnectChecks
    <2>4. ValidationError(in) = FirstError(ConnectChecks(in))
      BY <1>7, AdmissionAssumption DEF ValidationError
    <2>5. Entrance(in) = {"key", "auth", "authority", "host"}
      BY <1>7, AdmissionAssumption DEF Entrance
    <2> HIDE DEF unseal, rest
    <2>6. /\ IsChecks(ConnectChecks(in))
          /\ Passes(ConnectChecks(in)) => Passes(unseal) /\ Passes(rest)
      BY <1>1, <2>2, <2>3, ChecksCompose
    <2>7. /\ ValidationError(in) \in TokenizerError \cup {None}
          /\ ValidationError(in) = None => Passes(unseal) /\ Passes(rest)
      BY <2>4, <2>6, FirstErrorDecides
    <2>8. ASSUME ValidationError(in) = None PROVE in.fails \cap Entrance(in) = {}
      <3>1. "key" \notin in.fails BY <1>1, <2>7, <2>8
      <3>2. ~a /\ ~b /\ ~c /\ ~d /\ ~e
        <4> HIDE DEF a, b, c, d, e
        <4>1. QED BY <2>2, <2>7, <2>8
      <3>3. QED BY <2>5, <3>1, <3>2
    <2>9. QED BY <1>7, <2>7, <2>8
  <1>8. QED BY <1>3, <1>4, <1>5, <1>6, <1>7

\* The errors a step of a request ends with are the proxy's.
LEMMA FinalizeErrorType ==
    ASSUME NEW in
    PROVE  /\ FinalizeErrors(in) \subseteq TokenizerError
           /\ FinalizeErrors(in) = {} =>
                 in.kind = "connect" \/ ("config" \notin in.fails /\ "processor" \notin in.fails)
  BY DEF FinalizeErrors, TokenizerError, Status500

-----------------------------------------------------------------------------
(* Type correctness                                                        *)

\* Every reachable state is well typed: the counts stay within u32, a derived
\* TTL is never negative, no clock value is from the future.
THEOREM TypeCorrect == Spec => [](TypeOK /\ HeaderInv)
  <1> USE DEF Open, Closed
  <1>1. Init => TypeOK /\ HeaderInv
    BY AdmissionAssumption, AbsentType DEF Init, TypeOK, HeaderInv, Wall
  <1>2. TypeOK /\ HeaderInv /\ [Next]_vars => TypeOK' /\ HeaderInv'
    <2> SUFFICES ASSUME TypeOK, HeaderInv, [Next]_vars
                 PROVE  TypeOK' /\ HeaderInv'
      OBVIOUS
    <2> USE DEF TypeOK, HeaderInv, Goto, Reject, Fail, DropLocals, clocks, process, store, requests, Wall
    <2>1. ASSUME NEW r \in Request, Receive(r)
          PROVE  TypeOK' /\ HeaderInv'
      BY <2>1 DEF Receive
    <2>2. ASSUME NEW r \in Request, Validate(r)
          PROVE  TypeOK' /\ HeaderInv'
      <3>1. input[r] \in InputType BY <2>2, AdmissionAssumption DEF Validate
      <3>2. ValidationError(input[r]) \in TokenizerError \cup {None}
        BY <3>1, ValidationDecides
      <3>3. QED BY <2>2, <3>2 DEF Validate
    <2>3. ASSUME NEW r \in Request, DeriveTtl(r)
          PROVE  TypeOK' /\ HeaderInv'
      <3>1. input[r].header \in Token BY <2>3 DEF DeriveTtl
      <3>2. /\ Payload[input[r].header].expires_at # None
            /\ ~TtlExpired(input[r].header)
            => TtlFromExpiry(input[r].header) \in Nat
        BY <3>1, TtlCovers
      <3>3. QED BY <2>3, <3>1, <3>2, ErrorNames DEF DeriveTtl, Protected
    <2>4. ASSUME NEW r \in Request, ReadClock(r)
          PROVE  TypeOK' /\ HeaderInv'
      BY <2>4 DEF ReadClock
    <2>5. ASSUME NEW r \in Request, GrantUse(r)
          PROVE  TypeOK' /\ HeaderInv'
      <3>1. input[r].header \in Token BY <2>5 DEF GrantUse
      <3>2. Recorded(entries[input[r].header], now[r], now[r] + ttl[r]) \in Entry
        BY <3>1, RecordedType
      <3>3. entries' \in [Token -> Entry] BY <2>5, <3>1, <3>2 DEF GrantUse
      <3>4. honoured' \in [Token -> Nat] BY <2>5, <3>1 DEF GrantUse
      <3>5. QED BY <2>5, <3>3, <3>4, ZeroTick DEF GrantUse
    <2>6. ASSUME NEW r \in Request, DenyUse(r)
          PROVE  TypeOK' /\ HeaderInv'
      BY <2>6, ZeroTick, ErrorNames DEF DenyUse, Refused
    <2>7. ASSUME NEW r \in Request, Finalize(r)
          PROVE  TypeOK' /\ HeaderInv'
      BY <2>7, FinalizeErrorType DEF Finalize
    <2>8. ASSUME NEW r \in Request, Answer(r)
          PROVE  TypeOK' /\ HeaderInv'
      BY <2>8, ErrorNames DEF Answer
    <2>9. ASSUME NEW r \in Request, Cancel(r)
          PROVE  TypeOK' /\ HeaderInv'
      BY <2>9, ZeroTick DEF Cancel
    <2>10. CASE SweepWake
      BY <2>10 DEF SweepWake
    <2>11. CASE SweepRetain
      <3>1. entries' \in [Token -> Entry]
        BY <2>11, AbsentType DEF SweepRetain, Retain
      <3>2. QED BY <2>11, <3>1, ZeroTick DEF SweepRetain
    <2>12. CASE Tick
      BY <2>12, AdmissionAssumption DEF Tick
    <2>13. CASE StepClock
      BY <2>13, AdmissionAssumption DEF StepClock
    <2>14. CASE Restart
      BY <2>14, AdmissionAssumption, AbsentType DEF Restart
    <2>15. CASE UNCHANGED vars
      BY <2>15 DEF vars
    <2>16. QED
      BY <2>1, <2>2, <2>3, <2>4, <2>5, <2>6, <2>7, <2>8, <2>9, <2>10, <2>11, <2>12,
         <2>13, <2>14, <2>15
      DEF Next, Serve, CheckAndRecord
  <1>3. QED BY <1>1, <1>2, PTL DEF Spec

-----------------------------------------------------------------------------
(* Only vetted requests are forwarded                                      *)

\* What a request with input `in` may be held to when it has got to `where`: past
\* validation it has failed no check of its entrance; past check_replay its replay
\* protection, if it has any, could be enforced; forwarded, it is what
\* OnlyVettedForwarded says.
VettedAt(where, in) ==
    /\ where \in {"validated", "derived", "locking", "granted"} =>
          in.header \in Token /\ in.fails \cap Entrance(in) = {}
    /\ where \in {"derived", "locking"} => config.store
    /\ where = "granted" /\ Payload[in.header].replay =>
          config.store /\ Payload[in.header].expires_at # None
    /\ where \in {"forwarded", "answered"} =>
          /\ in.header \in Token \cup (IF config.token_optional THEN {NoHeader} ELSE {})
          /\ in.fails \cap Entrance(in) = {}
          /\ in.header # NoHeader /\ in.kind # "connect" => in.fails \cap {"config", "processor"} = {}
          /\ in.header \in Token /\ Payload[in.header].replay =>
                config.store /\ Payload[in.header].expires_at # None

VettedInv == \A r \in Request : VettedAt(pc[r], input[r])

\* A step of request r that leaves the others alone has only r to answer for.
LEMMA VettedFrame ==
    ASSUME TypeOK, VettedInv, NEW r \in Request, NEW where,
           Goto(r, where), config' = config, input' = input, VettedAt(where, input[r])
    PROVE  VettedInv'
  <1>1. ASSUME NEW q \in Request
        PROVE  \/ pc'[q] = pc[q] /\ input'[q] = input[q]
               \/ pc'[q] = where /\ input'[q] = input[r]
    BY DEF Goto, TypeOK
  <1>2. ASSUME NEW q \in Request PROVE VettedAt(pc'[q], input'[q])
    BY <1>1 DEF VettedInv
  <1>3. QED BY <1>2 DEF VettedInv, VettedAt

LEMMA VettedInductive ==
    ASSUME TypeOK, HeaderInv, VettedInv, [Next]_vars
    PROVE  VettedInv'
  <1> USE DEF clocks, process, store, requests
  <1>1. ASSUME NEW r \in Request, Receive(r) PROVE VettedInv'
    <2>1. \A q \in Request :
             \/ pc'[q] = pc[q] /\ input'[q] = input[q]
             \/ pc'[q] = "received"
      BY <1>1 DEF Receive, Goto, TypeOK
    <2>2. config' = config BY <1>1 DEF Receive
    <2>3. QED BY <2>1, <2>2 DEF VettedInv, VettedAt
  <1>2. ASSUME NEW r \in Request, Validate(r) PROVE VettedInv'
    <2>1. input[r] \in InputType
      BY <1>2, AdmissionAssumption DEF Validate, HeaderInv
    <2>2. config' = config /\ input' = input BY <1>2 DEF Validate
    <2>3. CASE ValidationError(input[r]) # None
      <3>1. Goto(r, "rejected") BY <1>2, <2>3 DEF Validate, Reject
      <3>2. QED BY <2>2, <3>1, VettedFrame DEF VettedAt
    <2>4. CASE ValidationError(input[r]) = None
      <3>1. /\ input[r].header \in Token
               \/ (input[r].header = NoHeader /\ config.token_optional)
            /\ input[r].fails \cap Entrance(input[r]) = {}
        BY <2>1, <2>4, ValidationDecides
      <3>2. CASE input[r].header = NoHeader
        <4>1. input[r].header \notin Token BY <3>2, AdmissionAssumption
        <4>2. Goto(r, "forwarded") BY <1>2, <2>4, <3>2, <4>1 DEF Validate
        <4>3. VettedAt("forwarded", input[r]) BY <3>1, <3>2, <4>1 DEF VettedAt
        <4>4. QED BY <2>2, <4>2, <4>3, VettedFrame
      <3>3. CASE input[r].header # NoHeader
        <4>1. Goto(r, "validated") BY <1>2, <2>4, <3>3 DEF Validate
        <4>2. VettedAt("validated", input[r]) BY <3>1, <3>3 DEF VettedAt
        <4>3. QED BY <2>2, <4>1, <4>2, VettedFrame
      <3>4. QED BY <3>2, <3>3
    <2>5. QED BY <2>3, <2>4
  <1>3. ASSUME NEW r \in Request, DeriveTtl(r) PROVE VettedInv'
    <2>1. config' = config /\ input' = input /\ pc[r] = "validated" BY <1>3 DEF DeriveTtl
    <2>2. VettedAt("validated", input[r]) BY <2>1 DEF VettedInv
    <2>3. \/ Goto(r, "granted") /\ ~Payload[input[r].header].replay
          \/ Goto(r, "rejected")
          \/ Goto(r, "derived") /\ config.store
      BY <1>3 DEF DeriveTtl, Reject, Protected
    <2>4. CASE Goto(r, "granted") /\ ~Payload[input[r].header].replay
      <3>1. VettedAt("granted", input[r]) BY <2>2, <2>4 DEF VettedAt
      <3>2. QED BY <2>1, <2>4, <3>1, VettedFrame
    <2>5. CASE Goto(r, "rejected")
      <3>1. VettedAt("rejected", input[r]) BY DEF VettedAt
      <3>2. QED BY <2>1, <2>5, <3>1, VettedFrame
    <2>6. CASE Goto(r, "derived") /\ config.store
      <3>1. VettedAt("derived", input[r]) BY <2>2, <2>6 DEF VettedAt
      <3>2. QED BY <2>1, <2>6, <3>1, VettedFrame
    <2>7. QED BY <2>3, <2>4, <2>5, <2>6
  <1>4. ASSUME NEW r \in Request, ReadClock(r) PROVE VettedInv'
    <2>1. config' = config /\ input' = input /\ pc[r] = "derived" /\ Goto(r, "locking")
      BY <1>4 DEF ReadClock
    <2>2. VettedAt("locking", input[r]) BY <2>1 DEF VettedInv, VettedAt
    <2>3. QED BY <2>1, <2>2, VettedFrame
  <1>5. ASSUME NEW r \in Request, GrantUse(r) PROVE VettedInv'
    <2>1. config' = config /\ input' = input /\ pc[r] = "locking" /\ Goto(r, "granted")
      BY <1>5 DEF GrantUse
    <2>2. Payload[input[r].header].expires_at # None BY <2>1 DEF HeaderInv
    <2>3. VettedAt("granted", input[r]) BY <2>1, <2>2 DEF VettedInv, VettedAt
    <2>4. QED BY <2>1, <2>3, VettedFrame
  <1>6. ASSUME NEW r \in Request, DenyUse(r) PROVE VettedInv'
    <2>1. config' = config /\ input' = input /\ Goto(r, "rejected")
      BY <1>6 DEF DenyUse, Reject
    <2>2. VettedAt("rejected", input[r]) BY DEF VettedAt
    <2>3. QED BY <2>1, <2>2, VettedFrame
  <1>7. ASSUME NEW r \in Request, Finalize(r) PROVE VettedInv'
    <2>1. config' = config /\ input' = input /\ pc[r] = "granted" BY <1>7 DEF Finalize
    <2>2. VettedAt("granted", input[r]) BY <2>1 DEF VettedInv
    <2>3. CASE Goto(r, "failed")
      <3>1. VettedAt("failed", input[r]) BY DEF VettedAt
      <3>2. QED BY <2>1, <2>3, <3>1, VettedFrame
    <2>4. CASE FinalizeErrors(input[r]) = {} /\ Goto(r, "forwarded")
      <3>1. \/ input[r].kind = "connect"
            \/ "config" \notin input[r].fails /\ "processor" \notin input[r].fails
        BY <2>4, FinalizeErrorType
      <3>2. VettedAt("forwarded", input[r])
        BY <2>2, <3>1, AdmissionAssumption DEF VettedAt
      <3>3. QED BY <2>1, <2>4, <3>2, VettedFrame
    <2>5. QED BY <1>7, <2>3, <2>4 DEF Finalize, Fail
  <1>8. ASSUME NEW r \in Request, Answer(r) PROVE VettedInv'
    <2>1. config' = config /\ input' = input /\ pc[r] = "forwarded" BY <1>8 DEF Answer
    <2>2. VettedAt("answered", input[r]) BY <2>1 DEF VettedInv, VettedAt
    <2>3. VettedAt("failed", input[r]) BY DEF VettedAt
    <2>4. Goto(r, "answered") \/ Goto(r, "failed") BY <1>8 DEF Answer, Fail
    <2>5. QED BY <2>1, <2>2, <2>3, <2>4, VettedFrame
  <1>9. ASSUME NEW r \in Request, Cancel(r) PROVE VettedInv'
    <2>1. config' = config /\ input' = input /\ Goto(r, "cancelled") BY <1>9 DEF Cancel
    <2>2. VettedAt("cancelled", input[r]) BY DEF VettedAt
    <2>3. QED BY <2>1, <2>2, VettedFrame
  <1>10. CASE Restart
    <2>1. config' = config /\ input' = input BY <1>10 DEF Restart
    <2>2. \A q \in Request : pc'[q] = pc[q] \/ pc'[q] = "lost" BY <1>10 DEF Restart
    <2>3. QED BY <2>1, <2>2 DEF VettedInv, VettedAt
  <1>11. CASE SweepWake \/ SweepRetain \/ Tick \/ StepClock \/ UNCHANGED vars
    <2>1. config' = config /\ input' = input /\ pc' = pc
      BY <1>11 DEF SweepWake, SweepRetain, Tick, StepClock, vars
    <2>2. QED BY <2>1 DEF VettedInv, VettedAt
  <1>12. QED
    BY <1>1, <1>2, <1>3, <1>4, <1>5, <1>6, <1>7, <1>8, <1>9, <1>10, <1>11
    DEF Next, Serve, CheckAndRecord

\* Nothing is forwarded or tunnelled that failed a check of its entrance, none
\* without a token but where token_optional allows it, and none on a token whose
\* replay protection could not be enforced, whatever else goes on.
THEOREM OnlyVetted == Spec => []OnlyVettedForwarded
  <1>1. Init => VettedInv
    BY DEF Init, VettedInv, VettedAt
  <1>2. TypeOK /\ HeaderInv /\ VettedInv /\ [Next]_vars => VettedInv'
    BY VettedInductive
  <1>3. VettedInv => OnlyVettedForwarded
    BY DEF VettedInv, VettedAt, Entrance, OnlyVettedForwarded
  <1>4. QED BY <1>1, <1>2, <1>3, TypeCorrect, PTL DEF Spec

-----------------------------------------------------------------------------
(* Bounded use                                                             *)

Ledger == ClockInv /\ TtlInv /\ EntryInv /\ UsesBounded

\* A guarded token has an expiry.
LEMMA GuardedExpiry ==
    ASSUME NEW t \in Guarded
    PROVE  /\ t \in Token /\ EffectiveExpiry(t) \in Nat
           /\ Payload[t].max_uses # None => Payload[t].max_uses \in Nat
  BY ExpiryType, AdmissionAssumption DEF Guarded, PayloadType

\* While the token lives, its entry is not stale for any clock value read so far.
LEMMA LiveEntryFresh ==
    ASSUME TypeOK, EntryInv, NEW t \in Guarded, Wall < EffectiveExpiry(t),
           Present(entries[t]), NEW n \in Int, n <= mono
    PROVE  entries[t].expires_at > n
  <1>1. entries[t].expires_at + skew >= EffectiveExpiry(t) BY DEF EntryInv
  <1>2. entries[t].expires_at \in Nat BY GuardedExpiry DEF TypeOK, Entry
  <1>3. QED BY <1>1, <1>2, GuardedExpiry DEF TypeOK, Wall

\* Granting a use to a live token leaves the ledger of that token right.
LEMMA GrantKeepsEntry ==
    ASSUME TypeOK, HeaderInv, Ledger, NEW r \in Request, GrantUse(r), NEW t \in Guarded,
           t = input[r].header
    PROVE  /\ entries'[t].expires_at + skew' >= EffectiveExpiry(t)
           /\ Payload[t].max_uses # None => entries'[t].uses <= Payload[t].max_uses
           /\ Wall' < EffectiveExpiry(t) =>
                 \/ entries'[t].uses = honoured'[t]
                 \/ entries'[t].uses = U32Max /\ honoured'[t] >= U32Max
           /\ Payload[t].max_uses # None => honoured'[t] <= Payload[t].max_uses
  <1> DEFINE e == entries[t]
             max == Payload[t].max_uses
  <1>1. /\ t \in Token /\ EffectiveExpiry(t) \in Nat
        /\ max # None => max \in Nat /\ max < U32Max
    BY GuardedExpiry DEF Guarded
  <1>2. /\ e \in Entry /\ e.uses \in 0..U32Max /\ e.expires_at \in Nat
        /\ now[r] \in Nat /\ now[r] <= mono /\ ttl[r] \in Nat /\ mono \in Nat
        /\ skew \in Int /\ honoured[t] \in Nat
    BY <1>1 DEF TypeOK, Entry, Ledger, ClockInv
  <1>3. /\ entries'[t] = Recorded(e, now[r], now[r] + ttl[r])
        /\ honoured'[t] = IF Wall < EffectiveExpiry(t) THEN honoured[t] + 1 ELSE honoured[t]
        /\ Allows(e, max, now[r])
        /\ skew' = skew /\ mono' = mono
        /\ pc[r] = "locking"
    BY <1>1 DEF GrantUse, TypeOK, clocks, process
  <1>4. entries'[t].expires_at + skew' >= EffectiveExpiry(t)
    <2>1. Recorded(e, now[r], now[r] + ttl[r]).expires_at = now[r] + ttl[r]
      BY DEF Recorded
    <2>2. now[r] + skew + ttl[r] >= EffectiveExpiry(t)
      BY <1>3 DEF Ledger, TtlInv
    <2>3. QED BY <2>1, <2>2, <1>2, <1>3
  <1>5. /\ max # None => e.uses <= max
        /\ max # None => honoured[t] <= max
    BY DEF Ledger, EntryInv, UsesBounded
  <1>6. max # None => entries'[t].uses <= max
    <2>1. CASE CountsAfresh(e, now[r])
      <3>1. entries'[t].uses = 1 BY <2>1, <1>3 DEF Recorded
      <3>2. max # None => max >= 1
        BY <1>1, <1>2, <1>3, <1>5, U32MaxAssumption
        DEF Allows, Present, Stale, Exceeds, SaturatingIncrement
      <3>3. QED BY <3>1, <3>2
    <2>2. CASE ~CountsAfresh(e, now[r])
      <3>1. entries'[t].uses = SaturatingIncrement(e.uses) BY <2>2, <1>3 DEF Recorded
      <3>2. max # None => ~(SaturatingIncrement(e.uses) > max)
        BY <2>2, <1>3 DEF Allows, CountsAfresh, Exceeds
      <3>3. QED BY <3>1, <3>2, <1>1, <1>2, U32MaxAssumption DEF SaturatingIncrement
    <2>3. QED BY <2>1, <2>2
  <1>7. ASSUME Wall < EffectiveExpiry(t)
        PROVE  \/ entries'[t].uses = honoured'[t]
               \/ entries'[t].uses = U32Max /\ honoured'[t] >= U32Max
    <2>1. \/ e.uses = honoured[t]
          \/ e.uses = U32Max /\ honoured[t] >= U32Max
      BY <1>7 DEF Ledger, EntryInv
    <2>2. Present(e) => e.expires_at > now[r]
      BY <1>2, <1>7, LiveEntryFresh DEF Ledger
    <2>3. CountsAfresh(e, now[r]) => e.uses = 0
      BY <2>2, <1>2 DEF CountsAfresh, Present, Stale
    <2>4. entries'[t].uses = SaturatingIncrement(e.uses)
      BY <2>3, <1>2, <1>3, U32MaxAssumption DEF Recorded, SaturatingIncrement
    <2>5. QED BY <2>1, <2>4, <1>2, <1>3, <1>7, U32MaxAssumption DEF SaturatingIncrement
  <1>8. max # None => honoured'[t] <= max
    <2>1. CASE Wall < EffectiveExpiry(t)
      BY <2>1, <1>6, <1>7, <1>1, <1>2, <1>3, U32MaxAssumption
    <2>2. CASE ~(Wall < EffectiveExpiry(t))
      BY <2>2, <1>3, <1>5
    <2>3. QED BY <2>1, <2>2
  <1>9. QED BY <1>3, <1>4, <1>6, <1>7, <1>8 DEF Wall

\* No step of a request but the store's, and no step of the clock, disturbs the
\* ledger of the entries.
LEMMA LedgerStable ==
    ASSUME TypeOK, HeaderInv, Ledger, entries' = entries, honoured' = honoured,
           TypeOK', skew' >= skew, mono' >= mono
    PROVE  EntryInv' /\ UsesBounded'
  <1>1. \A t \in Guarded : entries[t].expires_at \in Nat
    BY GuardedExpiry DEF TypeOK, Entry
  <1>2. Wall' >= Wall
    <2>1. mono \in Int /\ mono' \in Int /\ skew \in Int /\ skew' \in Int BY DEF TypeOK
    <2>2. QED BY <2>1, SumGrows DEF Wall
  <1>3. ASSUME NEW t \in Guarded
        PROVE  /\ Present(entries[t]) => entries[t].expires_at + skew' >= EffectiveExpiry(t)
               /\ Wall' < EffectiveExpiry(t) => Wall < EffectiveExpiry(t)
    BY <1>1, <1>2, GuardedExpiry DEF Ledger, EntryInv, TypeOK
  <1>4. EntryInv' BY <1>3 DEF Ledger, EntryInv
  <1>5. QED BY <1>4 DEF Ledger, UsesBounded

LEMMA LedgerInductive ==
    ASSUME ClockSteps \subseteq Nat, TypeOK, HeaderInv, Ledger, [Next]_vars, TypeOK', HeaderInv'
    PROVE  Ledger'
  <1> USE DEF Goto, Reject, Fail, DropLocals, clocks, process, store, requests
  <1>1. ASSUME NEW r \in Request, Receive(r) PROVE Ledger'
    <2>1. EntryInv' /\ UsesBounded' BY <1>1, LedgerStable DEF Receive, TypeOK
    <2>2. ClockInv' BY <1>1 DEF Receive, Ledger, ClockInv
    <2>3. TtlInv' BY <1>1 DEF Receive, Ledger, TtlInv, TypeOK
    <2>4. QED BY <2>1, <2>2, <2>3 DEF Ledger
  <1>2. ASSUME NEW r \in Request, Validate(r) PROVE Ledger'
    <2>1. EntryInv' /\ UsesBounded' BY <1>2, LedgerStable DEF Validate, TypeOK
    <2>2. ClockInv' BY <1>2 DEF Validate, Ledger, ClockInv
    <2>3. TtlInv' BY <1>2 DEF Validate, Ledger, TtlInv, TypeOK
    <2>4. QED BY <2>1, <2>2, <2>3 DEF Ledger
  <1>3. ASSUME NEW r \in Request, DeriveTtl(r) PROVE Ledger'
    <2>1. EntryInv' /\ UsesBounded' BY <1>3, LedgerStable DEF DeriveTtl, TypeOK
    <2>2. ClockInv' BY <1>3 DEF DeriveTtl, Ledger, ClockInv
    <2>3. TtlInv'
      <3>1. input[r].header \in Token BY <1>3 DEF DeriveTtl, HeaderInv
      <3>2. /\ Payload[input[r].header].expires_at # None
            /\ ~TtlExpired(input[r].header)
            /\ input[r].header \in Guarded
            => mono + skew + TtlFromExpiry(input[r].header) >= EffectiveExpiry(input[r].header)
        BY <3>1, TtlCovers
      <3>3. QED BY <1>3, <3>2 DEF DeriveTtl, Ledger, TtlInv, TypeOK
    <2>4. QED BY <2>1, <2>2, <2>3 DEF Ledger
  <1>4. ASSUME NEW r \in Request, ReadClock(r) PROVE Ledger'
    <2>1. EntryInv' /\ UsesBounded' BY <1>4, LedgerStable DEF ReadClock, TypeOK
    <2>2. ClockInv' BY <1>4 DEF ReadClock, Ledger, ClockInv, TypeOK
    <2>3. TtlInv' BY <1>4 DEF ReadClock, Ledger, TtlInv, TypeOK
    <2>4. QED BY <2>1, <2>2, <2>3 DEF Ledger
  <1>5. ASSUME NEW r \in Request, GrantUse(r) PROVE Ledger'
    <2> DEFINE h == input[r].header
    <2>1. ClockInv' BY <1>5 DEF GrantUse, Ledger, ClockInv, TypeOK
    <2>2. TtlInv' BY <1>5 DEF GrantUse, Ledger, TtlInv, TypeOK
    <2>3. ASSUME NEW t \in Guarded, t # h
          PROVE  entries'[t] = entries[t] /\ honoured'[t] = honoured[t] /\ Wall' = Wall
                 /\ skew' = skew
      BY <1>5, <2>3, GuardedExpiry DEF GrantUse, TypeOK, Wall
    <2>4. EntryInv'
      BY <1>5, <2>3, GrantKeepsEntry DEF Ledger, EntryInv
    <2>5. UsesBounded'
      BY <1>5, <2>3, GrantKeepsEntry DEF Ledger, UsesBounded
    <2>6. QED BY <2>1, <2>2, <2>4, <2>5 DEF Ledger
  <1>6. ASSUME NEW r \in Request, DenyUse(r) PROVE Ledger'
    <2>1. entries' = entries BY <1>6 DEF DenyUse, Refused, TypeOK
    <2>2. EntryInv' /\ UsesBounded' BY <1>6, <2>1, LedgerStable DEF DenyUse, TypeOK
    <2>3. ClockInv' BY <1>6 DEF DenyUse, Ledger, ClockInv, TypeOK
    <2>4. TtlInv' BY <1>6 DEF DenyUse, Ledger, TtlInv, TypeOK
    <2>5. QED BY <2>2, <2>3, <2>4 DEF Ledger
  <1>7. ASSUME NEW r \in Request, Finalize(r) PROVE Ledger'
    <2>1. EntryInv' /\ UsesBounded' BY <1>7, LedgerStable DEF Finalize, TypeOK
    <2>2. ClockInv' BY <1>7 DEF Finalize, Ledger, ClockInv
    <2>3. TtlInv' BY <1>7 DEF Finalize, Ledger, TtlInv, TypeOK
    <2>4. QED BY <2>1, <2>2, <2>3 DEF Ledger
  <1>8. ASSUME NEW r \in Request, Answer(r) PROVE Ledger'
    <2>1. EntryInv' /\ UsesBounded' BY <1>8, LedgerStable DEF Answer, TypeOK
    <2>2. ClockInv' BY <1>8 DEF Answer, Ledger, ClockInv
    <2>3. TtlInv' BY <1>8 DEF Answer, Ledger, TtlInv, TypeOK
    <2>4. QED BY <2>1, <2>2, <2>3 DEF Ledger
  <1>9. ASSUME NEW r \in Request, Cancel(r) PROVE Ledger'
    <2>1. EntryInv' /\ UsesBounded' BY <1>9, LedgerStable DEF Cancel, TypeOK
    <2>2. ClockInv' BY <1>9 DEF Cancel, Ledger, ClockInv, TypeOK
    <2>3. TtlInv' BY <1>9 DEF Cancel, Ledger, TtlInv, TypeOK
    <2>4. QED BY <2>1, <2>2, <2>3 DEF Ledger
  <1>10. CASE SweepWake
    <2>1. EntryInv' /\ UsesBounded' BY <1>10, LedgerStable DEF SweepWake, TypeOK
    <2>2. ClockInv' BY <1>10 DEF SweepWake, Ledger, ClockInv, TypeOK
    <2>3. TtlInv' BY <1>10 DEF SweepWake, Ledger, TtlInv, TypeOK
    <2>4. QED BY <2>1, <2>2, <2>3 DEF Ledger
  <1>11. CASE SweepRetain
    <2>1. ClockInv' BY <1>11 DEF SweepRetain, Ledger, ClockInv, TypeOK
    <2>2. TtlInv' BY <1>11 DEF SweepRetain, Ledger, TtlInv, TypeOK
    <2>3. UsesBounded' BY <1>11 DEF SweepRetain, Ledger, UsesBounded
    <2>4. ASSUME NEW t \in Guarded
          PROVE  /\ entries'[t] = entries[t] \/ entries'[t] = Absent
                 /\ Wall < EffectiveExpiry(t) /\ Present(entries[t]) => entries'[t] = entries[t]
                 /\ Wall < EffectiveExpiry(t) /\ ~Present(entries[t]) => entries'[t].uses = 0
      <3>1. t \in Token BY GuardedExpiry
      <3>2. entries'[t] = IF entries[t].expires_at > sweep.now THEN entries[t] ELSE Absent
        BY <1>11, <3>1 DEF SweepRetain, Retain, TypeOK
      <3>3. sweep.now \in Int /\ sweep.now <= mono BY DEF Ledger, ClockInv, TypeOK
      <3>4. Wall < EffectiveExpiry(t) /\ Present(entries[t])
            => entries[t].expires_at > sweep.now
        BY <3>3, LiveEntryFresh DEF Ledger
      <3>5. ~Present(entries[t]) => entries[t].uses = 0
        BY <3>1 DEF Present, TypeOK, Entry
      <3>6. QED BY <3>2, <3>4, <3>5 DEF Absent
    <2>5. EntryInv'
      <3>1. Wall' = Wall /\ skew' = skew /\ honoured' = honoured
        BY <1>11 DEF SweepRetain, Wall
      <3>2. ASSUME NEW t \in Guarded
            PROVE  /\ Present(entries'[t]) => entries'[t].expires_at + skew' >= EffectiveExpiry(t)
                   /\ Payload[t].max_uses # None => entries'[t].uses <= Payload[t].max_uses
                   /\ Wall' < EffectiveExpiry(t) =>
                         \/ entries'[t].uses = honoured'[t]
                         \/ entries'[t].uses = U32Max /\ honoured'[t] >= U32Max
        <4>1. entries[t].uses \in Nat BY GuardedExpiry DEF TypeOK, Entry
        <4>2. /\ Present(entries'[t]) => entries'[t].expires_at + skew' >= EffectiveExpiry(t)
              /\ Payload[t].max_uses # None => entries'[t].uses <= Payload[t].max_uses
          BY <2>4, <3>1, <4>1, GuardedExpiry DEF Ledger, EntryInv, Present, Absent
        <4>3. ~Present(entries[t]) => entries[t].uses = 0
          BY <4>1 DEF Present
        <4>4. Wall < EffectiveExpiry(t) => entries'[t].uses = entries[t].uses
          BY <2>4, <4>3
        <4>5. QED BY <4>2, <4>4, <3>1 DEF Ledger, EntryInv
      <3>3. QED BY <3>2 DEF EntryInv
    <2>6. QED BY <2>1, <2>2, <2>3, <2>5 DEF Ledger
  <1>12. CASE Tick
    <2>1. EntryInv' /\ UsesBounded' BY <1>12, LedgerStable DEF Tick, TypeOK
    <2>2. ClockInv' BY <1>12 DEF Tick, Ledger, ClockInv, TypeOK
    <2>3. TtlInv' BY <1>12, GuardedExpiry DEF Tick, Ledger, TtlInv, TypeOK
    <2>4. QED BY <2>1, <2>2, <2>3 DEF Ledger
  <1>13. CASE StepClock
    <2>1. skew' >= skew BY <1>13 DEF StepClock, TypeOK
    <2>2. EntryInv' /\ UsesBounded' BY <1>13, <2>1, LedgerStable DEF StepClock, TypeOK
    <2>3. ClockInv' BY <1>13 DEF StepClock, Ledger, ClockInv
    <2>4. TtlInv' BY <1>13, <2>1, GuardedExpiry DEF StepClock, Ledger, TtlInv, TypeOK
    <2>5. QED BY <2>2, <2>3, <2>4 DEF Ledger
  <1>14. CASE Restart
    <2>1. ClockInv' BY <1>14 DEF Restart, Ledger, ClockInv, TypeOK
    <2>2. TtlInv' BY <1>14 DEF Restart, TtlInv, TypeOK, Open
    <2>3. EntryInv' BY <1>14, GuardedExpiry DEF Restart, EntryInv, Absent, Present
    <2>4. UsesBounded' BY <1>14, GuardedExpiry DEF Restart, UsesBounded
    <2>5. QED BY <2>1, <2>2, <2>3, <2>4 DEF Ledger
  <1>15. CASE UNCHANGED vars
    <2>1. EntryInv' /\ UsesBounded' BY <1>15, LedgerStable DEF vars, TypeOK
    <2>2. ClockInv' BY <1>15 DEF vars, Ledger, ClockInv
    <2>3. TtlInv' BY <1>15 DEF vars, Ledger, TtlInv
    <2>4. QED BY <2>1, <2>2, <2>3 DEF Ledger
  <1>16. QED
    BY <1>1, <1>2, <1>3, <1>4, <1>5, <1>6, <1>7, <1>8, <1>9, <1>10, <1>11, <1>12,
       <1>13, <1>14, <1>15
    DEF Next, Serve, CheckAndRecord

\* The ledger, and with it everything below, holds of every reachable state.
LEMMA LedgerHolds ==
    ASSUME ClockSteps \subseteq Nat
    PROVE  Spec => [](TypeOK /\ HeaderInv /\ Ledger)
  <1>1. Init => Ledger
    BY GuardedExpiry
    DEF Init, Ledger, ClockInv, TtlInv, EntryInv, UsesBounded, Absent, Present
  <1>2. TypeOK /\ HeaderInv /\ Ledger /\ [Next]_vars /\ TypeOK' /\ HeaderInv' => Ledger'
    BY LedgerInductive
  <1>3. QED BY <1>1, <1>2, TypeCorrect, PTL DEF Spec

\* A token is granted no more than max_uses uses while it lives, for any number
\* of requests, under any interleaving, unless the wall clock goes back.
THEOREM BoundedUseHolds ==
    ASSUME ClockSteps \subseteq Nat
    PROVE  Spec => []UsesBounded
  <1>1. Ledger => UsesBounded BY DEF Ledger
  <1>2. QED BY <1>1, LedgerHolds, PTL

\* While a used token lives its nonce is in the store, fresh, with every use
\* counted: nonce lifetimes derived by ttl_from_expiry outlive the tokens.
THEOREM NonceOutlives ==
    ASSUME ClockSteps \subseteq Nat
    PROVE  Spec => []NonceOutlivesToken
  <1>1. TypeOK /\ Ledger => NonceOutlivesToken
    <2> SUFFICES ASSUME TypeOK, Ledger, NEW t \in Guarded,
                        Wall < EffectiveExpiry(t), honoured[t] <= U32Max
                 PROVE  UseCount(entries[t], mono) = honoured[t]
      BY DEF NonceOutlivesToken
    <2>1. /\ entries[t].uses \in Nat /\ entries[t].expires_at \in Nat
          /\ mono \in Int /\ honoured[t] \in Nat
      BY GuardedExpiry DEF TypeOK, Entry
    <2>2. entries[t].uses = honoured[t]
      BY <2>1, U32MaxAssumption DEF Ledger, EntryInv
    <2>3. Present(entries[t]) => entries[t].expires_at > mono
      BY <2>1, LiveEntryFresh DEF Ledger
    <2>4. ~Present(entries[t]) => entries[t].uses = 0
      BY <2>1 DEF Present
    <2>5. QED BY <2>1, <2>2, <2>3, <2>4 DEF UseCount
  <1>2. QED BY <1>1, LedgerHolds, PTL

-----------------------------------------------------------------------------
(* The outcomes tell what was spent                                        *)

Spent(t) == Carrying(t, {"granted", "forwarded", "answered", "failed"})
Unsure(t) == Carrying(t, {"cancelled"})

\* Until the proxy restarts, the uses granted to a live token are those of the
\* requests that were let through, and of some of those that were cancelled.
SpendingInv ==
    \A t \in Guarded : boots = 0 /\ Wall < EffectiveExpiry(t) =>
        /\ Cardinality(Spent(t)) <= honoured[t]
        /\ honoured[t] <= Cardinality(Spent(t)) + Cardinality(Unsure(t))

\* Moving request r moves it alone, in and out of the requests carrying its token.
LEMMA CarryingMoves ==
    ASSUME TypeOK, NEW r \in Request, NEW where, Goto(r, where), input' = input,
           NEW t, NEW W
    PROVE  /\ input[r].header # t => Carrying(t, W)' = Carrying(t, W)
           /\ input[r].header = t /\ where \in W => Carrying(t, W)' = Carrying(t, W) \cup {r}
           /\ input[r].header = t /\ where \notin W => Carrying(t, W)' = Carrying(t, W) \ {r}
  <1>1. \A q \in Request : pc'[q] = IF q = r THEN where ELSE pc[q]
    BY DEF Goto, TypeOK
  <1>2. QED BY <1>1 DEF Carrying

\* A set of requests that gains or loses one, counted.
LEMMA CountOneMore ==
    ASSUME NEW S \in SUBSET Request, IsFiniteSet(Request), NEW r \in Request
    PROVE  /\ Cardinality(S) \in Nat
           /\ r \notin S => Cardinality(S \cup {r}) = Cardinality(S) + 1
           /\ r \in S => Cardinality(S \ {r}) = Cardinality(S) - 1
  <1>1. IsFiniteSet(S) BY FS_Subset
  <1>2. Cardinality(S) \in Nat BY <1>1, FS_CardinalityType
  <1>3. QED BY <1>1, <1>2, FS_AddElement, FS_RemoveElement

\* A step that grants nothing and turns no request away keeps the balance.
LEMMA SpendingStable ==
    ASSUME TypeOK, TypeOK', SpendingInv, honoured' = honoured, boots' = boots,
           skew' >= skew, mono' >= mono,
           \A t \in Guarded : Spent(t)' = Spent(t) /\ Unsure(t)' = Unsure(t)
    PROVE  SpendingInv'
  <1>1. Wall' >= Wall
    <2>1. mono \in Int /\ mono' \in Int /\ skew \in Int /\ skew' \in Int BY DEF TypeOK
    <2>2. QED BY <2>1, SumGrows DEF Wall
  <1>2. \A t \in Guarded : Wall' < EffectiveExpiry(t) => Wall < EffectiveExpiry(t)
    BY <1>1, GuardedExpiry DEF TypeOK
  <1>3. QED BY <1>2 DEF SpendingInv

LEMMA SpendingInductive ==
    ASSUME ClockSteps \subseteq Nat, IsFiniteSet(Request),
           TypeOK, HeaderInv, SpendingInv, [Next]_vars, TypeOK'
    PROVE  SpendingInv'
  <1> USE DEF clocks, process, store, requests
  <1> DEFINE Same == \A t \in Guarded : Spent(t)' = Spent(t) /\ Unsure(t)' = Unsure(t)
  <1>0. skew \in Int /\ mono \in Int /\ boots \in Nat BY DEF TypeOK
  <1>1. ASSUME NEW r \in Request, Receive(r) PROVE SpendingInv'
    <2>1. \A q \in Request : \/ pc'[q] = pc[q] /\ input'[q] = input[q]
                             \/ pc[q] = "idle" /\ pc'[q] = "received"
      BY <1>1 DEF Receive, Goto, TypeOK
    <2>2. Same BY <2>1 DEF Spent, Unsure, Carrying
    <2>3. QED BY <1>0, <1>1, <2>2, SpendingStable DEF Receive
  <1>2. ASSUME NEW r \in Request, NEW where, Goto(r, where), input' = input,
               honoured' = honoured, boots' = boots, skew' = skew, mono' = mono,
               \/ /\ pc[r] \in {"received", "validated", "derived", "locking"}
                  /\ where \in {"rejected", "validated", "derived", "locking"}
               \/ /\ pc[r] \in {"granted", "forwarded"}
                  /\ where \in {"forwarded", "answered", "failed"}
               \/ /\ pc[r] \in {"received", "validated"}
                  /\ input[r].header \notin Guarded
        PROVE  SpendingInv'
    <2>1. ASSUME NEW t \in Guarded PROVE Spent(t)' = Spent(t) /\ Unsure(t)' = Unsure(t)
      <3>1. CASE input[r].header # t
        BY <1>2, <3>1, CarryingMoves DEF Spent, Unsure
      <3>2. CASE input[r].header = t
        <4>1. \/ where \in {"rejected", "validated", "derived", "locking"}
                 /\ r \notin Spent(t) /\ r \notin Unsure(t)
              \/ where \in {"forwarded", "answered", "failed"}
                 /\ r \in Spent(t) /\ r \notin Unsure(t)
          BY <1>2, <3>2 DEF Spent, Unsure, Carrying
        <4>2. /\ where \in {"rejected", "validated", "derived", "locking"} =>
                    Spent(t)' = Spent(t) \ {r} /\ Unsure(t)' = Unsure(t) \ {r}
              /\ where \in {"forwarded", "answered", "failed"} =>
                    Spent(t)' = Spent(t) \cup {r} /\ Unsure(t)' = Unsure(t) \ {r}
          <5>1. where \in {"rejected", "validated", "derived", "locking"} =>
                   Spent(t)' = Spent(t) \ {r}
            BY <1>2, <3>2, CarryingMoves DEF Spent
          <5>2. where \in {"forwarded", "answered", "failed"} => Spent(t)' = Spent(t) \cup {r}
            BY <1>2, <3>2, CarryingMoves DEF Spent
          <5>3. where # "cancelled" => Unsure(t)' = Unsure(t) \ {r}
            BY <1>2, <3>2, CarryingMoves DEF Unsure
          <5>4. QED BY <5>1, <5>2, <5>3
        <4>3. QED BY <4>1, <4>2
      <3>3. QED BY <3>1, <3>2
    <2>2. QED BY <1>0, <1>2, <2>1, SpendingStable
  <1>3. ASSUME NEW r \in Request, Validate(r) PROVE SpendingInv'
    <2>1. input[r].header = NoHeader => input[r].header \notin Guarded
      BY AdmissionAssumption DEF Guarded
    <2>2. \/ Goto(r, "rejected")
          \/ Goto(r, "validated")
          \/ Goto(r, "forwarded") /\ input[r].header \notin Guarded
      BY <1>3, <2>1 DEF Validate, Reject
    <2>3. QED BY <1>2, <1>3, <2>2 DEF Validate
  <1>4. ASSUME NEW r \in Request, DeriveTtl(r) PROVE SpendingInv'
    <2>1. \/ Goto(r, "rejected")
          \/ Goto(r, "derived")
          \/ Goto(r, "granted") /\ input[r].header \notin Guarded
      BY <1>4 DEF DeriveTtl, Reject, Protected, Guarded
    <2>2. QED BY <1>2, <1>4, <2>1 DEF DeriveTtl
  <1>5. ASSUME NEW r \in Request, ReadClock(r) PROVE SpendingInv'
    BY <1>2, <1>5 DEF ReadClock
  <1>6. ASSUME NEW r \in Request, GrantUse(r) PROVE SpendingInv'
    <2>1. /\ Goto(r, "granted") /\ input' = input /\ pc[r] = "locking"
          /\ boots' = boots /\ Wall' = Wall
      BY <1>6 DEF GrantUse, Wall
    <2>2. PICK h \in Token : h = input[r].header BY <2>1 DEF HeaderInv
    <2>3. honoured' = [honoured EXCEPT ![h] = IF Wall < EffectiveExpiry(h) THEN @ + 1 ELSE @]
      BY <1>6, <2>2 DEF GrantUse
    <2>4. ASSUME NEW t \in Guarded, boots' = 0, Wall' < EffectiveExpiry(t)
          PROVE  /\ Cardinality(Spent(t)') <= honoured'[t]
                 /\ honoured'[t] <= Cardinality(Spent(t)') + Cardinality(Unsure(t)')
      <3>1. /\ Cardinality(Spent(t)) <= honoured[t]
            /\ honoured[t] <= Cardinality(Spent(t)) + Cardinality(Unsure(t))
            /\ honoured[t] \in Nat /\ t \in Token
        BY <2>1, <2>4, GuardedExpiry DEF SpendingInv, TypeOK
      <3>2. CASE h # t
        <4>1. Spent(t)' = Spent(t) /\ Unsure(t)' = Unsure(t)
          BY <2>1, <2>2, <3>2, CarryingMoves DEF Spent, Unsure
        <4>2. honoured'[t] = honoured[t] BY <2>3, <3>1, <3>2 DEF TypeOK
        <4>3. QED BY <3>1, <4>1, <4>2
      <3>3. CASE h = t
        <4>1. r \notin Spent(t) /\ r \notin Unsure(t)
          BY <2>1 DEF Spent, Unsure, Carrying
        <4>2. Spent(t)' = Spent(t) \cup {r} /\ Unsure(t)' = Unsure(t) \ {r}
          <5>1. Goto(r, "granted") /\ input' = input /\ input[r].header = t
            BY <2>1, <2>2, <3>3
          <5>2. Spent(t)' = Spent(t) \cup {r} BY <5>1, CarryingMoves DEF Spent
          <5>3. Unsure(t)' = Unsure(t) \ {r} BY <5>1, CarryingMoves DEF Unsure
          <5>4. QED BY <5>2, <5>3
        <4>3. Spent(t) \in SUBSET Request /\ Unsure(t) \in SUBSET Request
          BY DEF Spent, Unsure, Carrying
        <4>4. /\ Cardinality(Spent(t)') = Cardinality(Spent(t)) + 1
              /\ Unsure(t)' = Unsure(t)
              /\ Cardinality(Spent(t)) \in Nat /\ Cardinality(Unsure(t)) \in Nat
          BY <4>1, <4>2, <4>3, CountOneMore
        <4>5. honoured'[t] = honoured[t] + 1 BY <2>1, <2>3, <2>4, <3>1, <3>3 DEF TypeOK
        <4>6. QED BY <3>1, <4>4, <4>5
      <3>4. QED BY <3>2, <3>3
    <2>5. QED BY <2>4 DEF SpendingInv
  <1>7. ASSUME NEW r \in Request, DenyUse(r) PROVE SpendingInv'
    BY <1>2, <1>7 DEF DenyUse, Reject
  <1>8. ASSUME NEW r \in Request, Finalize(r) PROVE SpendingInv'
    <2>1. Goto(r, "failed") \/ Goto(r, "forwarded") BY <1>8 DEF Finalize, Fail
    <2>2. QED BY <1>2, <1>8, <2>1 DEF Finalize
  <1>9. ASSUME NEW r \in Request, Answer(r) PROVE SpendingInv'
    <2>1. Goto(r, "failed") \/ Goto(r, "answered") BY <1>9 DEF Answer, Fail
    <2>2. QED BY <1>2, <1>9, <2>1 DEF Answer
  <1>10. ASSUME NEW r \in Request, Cancel(r) PROVE SpendingInv'
    <2>1. /\ Goto(r, "cancelled") /\ input' = input /\ pc[r] \in {"locking", "forwarded"}
          /\ boots' = boots /\ Wall' = Wall /\ honoured' = honoured
      BY <1>10 DEF Cancel, Wall
    <2>2. ASSUME NEW t \in Guarded, boots' = 0, Wall' < EffectiveExpiry(t)
          PROVE  /\ Cardinality(Spent(t)') <= honoured'[t]
                 /\ honoured'[t] <= Cardinality(Spent(t)') + Cardinality(Unsure(t)')
      <3>1. /\ Cardinality(Spent(t)) <= honoured[t]
            /\ honoured[t] <= Cardinality(Spent(t)) + Cardinality(Unsure(t))
            /\ honoured[t] \in Nat
        BY <2>1, <2>2, GuardedExpiry DEF SpendingInv, TypeOK
      <3>2. CASE input[r].header # t
        BY <2>1, <3>1, <3>2, CarryingMoves DEF Spent, Unsure
      <3>3. CASE input[r].header = t
        <4>1. r \notin Unsure(t) BY <2>1 DEF Unsure, Carrying
        <4>2. Spent(t)' = Spent(t) \ {r} /\ Unsure(t)' = Unsure(t) \cup {r}
          BY <2>1, <3>3, CarryingMoves DEF Spent, Unsure
        <4>3. Spent(t) \in SUBSET Request /\ Unsure(t) \in SUBSET Request
          BY DEF Spent, Unsure, Carrying
        <4>4. /\ Cardinality(Unsure(t)') = Cardinality(Unsure(t)) + 1
              /\ Cardinality(Unsure(t)) \in Nat /\ Cardinality(Spent(t)) \in Nat
          BY <4>1, <4>2, <4>3, CountOneMore
        <4>5. \/ Cardinality(Spent(t)') = Cardinality(Spent(t))
              \/ Cardinality(Spent(t)') = Cardinality(Spent(t)) - 1
          <5>1. r \notin Spent(t) => Spent(t) \ {r} = Spent(t) OBVIOUS
          <5>2. QED BY <4>2, <4>3, <5>1, CountOneMore
        <4>6. QED BY <2>1, <3>1, <4>4, <4>5
      <3>4. QED BY <3>2, <3>3
    <2>3. QED BY <2>2 DEF SpendingInv
  <1>11. CASE SweepWake \/ SweepRetain \/ Tick \/ StepClock \/ UNCHANGED vars
    <2>1. /\ pc' = pc /\ input' = input /\ honoured' = honoured /\ boots' = boots
          /\ skew' >= skew /\ mono' >= mono
      BY <1>0, <1>11 DEF SweepWake, SweepRetain, Tick, StepClock, vars
    <2>2. Same BY <2>1 DEF Spent, Unsure, Carrying
    <2>3. QED BY <2>1, <2>2, SpendingStable
  <1>12. CASE Restart
    <2>1. boots' # 0 BY <1>0, <1>12 DEF Restart
    <2>2. QED BY <2>1 DEF SpendingInv
  <1>13. QED
    BY <1>1, <1>3, <1>4, <1>5, <1>6, <1>7, <1>8, <1>9, <1>10, <1>11, <1>12
    DEF Next, Serve, CheckAndRecord

\* What is logged and counted tells what was spent, for any finite number of
\* requests: a refused request spent no use, one that was let through exactly one,
\* and only a cancelled one leaves it open.
THEOREM OutcomesTellSpending ==
    ASSUME ClockSteps \subseteq Nat, IsFiniteSet(Request)
    PROVE  Spec => []AnswersTellSpending
  <1>1. Init => SpendingInv
    <2>1. ASSUME Init, NEW t \in Guarded
          PROVE  Spent(t) = {} /\ Unsure(t) = {} /\ honoured[t] = 0
      BY <2>1, GuardedExpiry DEF Init, Spent, Unsure, Carrying
    <2>2. Cardinality({}) = 0 BY FS_EmptySet
    <2>3. QED BY <2>1, <2>2 DEF SpendingInv
  <1>2. TypeOK /\ HeaderInv /\ SpendingInv /\ [Next]_vars /\ TypeOK' => SpendingInv'
    BY SpendingInductive
  <1>3. TypeOK /\ SpendingInv /\ NonceOutlivesToken => AnswersTellSpending
    <2> SUFFICES ASSUME TypeOK, SpendingInv, NonceOutlivesToken, NEW t \in Guarded,
                        boots = 0, Wall < EffectiveExpiry(t), honoured[t] <= U32Max
                 PROVE  UseCount(entries[t], mono) \in
                           Cardinality(Spent(t)) .. Cardinality(Spent(t)) + Cardinality(Unsure(t))
      BY DEF AnswersTellSpending, Spent, Unsure
    <2>1. UseCount(entries[t], mono) = honoured[t] BY DEF NonceOutlivesToken
    <2>2. Spent(t) \in SUBSET Request /\ Unsure(t) \in SUBSET Request
      BY DEF Spent, Unsure, Carrying
    <2>3. Cardinality(Spent(t)) \in Nat /\ Cardinality(Unsure(t)) \in Nat
      BY <2>2, FS_Subset, FS_CardinalityType
    <2>4. honoured[t] \in Nat BY GuardedExpiry DEF TypeOK
    <2>5. QED BY <2>1, <2>3, <2>4 DEF SpendingInv
  <1>4. QED BY <1>1, <1>2, <1>3, TypeCorrect, NonceOutlives, PTL DEF Spec

-----------------------------------------------------------------------------
(* Refinement of BoundedUse                                                *)

\* A step that grants nothing, with the clock standing still or moving on, only
\* lets tokens expire.
LEMMA NoGrantExpires ==
    ASSUME TypeOK, TypeOK', honoured' = honoured, skew' >= skew, mono' >= mono
    PROVE  Promise!Expire
  <1> DEFINE gone == {t \in Guarded : Wall >= EffectiveExpiry(t)}
  <1>1. Wall' >= Wall
    <2>1. mono \in Int /\ mono' \in Int /\ skew \in Int /\ skew' \in Int BY DEF TypeOK
    <2>2. QED BY <2>1, SumGrows DEF Wall
  <1>2. gone' = gone \cup gone'
    BY <1>1, GuardedExpiry DEF TypeOK
  <1>3. gone' \in SUBSET Guarded OBVIOUS
  <1>4. QED BY <1>2, <1>3 DEF Promise!Expire

\* A use granted to a live guarded token is one the promise allows; any other
\* grant leaves the promise where it was.
LEMMA GrantIsPromised ==
    ASSUME TypeOK, HeaderInv, Ledger, NEW r \in Request, GrantUse(r)
    PROVE  [Promise!Next]_(Promise!vars)
  <1>h. PICK h \in Token : h = input[r].header
    BY DEF GrantUse, HeaderInv
  <1>1. /\ mono' = mono /\ skew' = skew
        /\ honoured' = [honoured EXCEPT ![h] =
                            IF Wall < EffectiveExpiry(h) THEN @ + 1 ELSE @]
    BY <1>h DEF GrantUse, clocks, process
  <1>2. {t \in Guarded : Wall >= EffectiveExpiry(t)}'
           = {t \in Guarded : Wall >= EffectiveExpiry(t)}
    BY <1>1 DEF Wall
  <1>3. CASE h \in Guarded /\ Wall < EffectiveExpiry(h)
    <2>1. Payload[h].max_uses = None \/ honoured[h] < Payload[h].max_uses
      <3>1. Payload[h].max_uses # None => honoured'[h] <= Payload[h].max_uses
        BY <1>h, <1>3, GrantKeepsEntry
      <3>2. honoured'[h] = honoured[h] + 1 /\ honoured[h] \in Nat
        BY <1>1, <1>3 DEF TypeOK
      <3>3. QED BY <3>1, <3>2, <1>3, GuardedExpiry
    <2>2. h \notin {t \in Guarded : Wall >= EffectiveExpiry(t)}
      BY <1>3, GuardedExpiry DEF TypeOK
    <2>3. [t \in Guarded |-> honoured'[t]]
             = [[t \in Guarded |-> honoured[t]] EXCEPT ![h] = @ + 1]
      BY <1>1, <1>3, GuardedExpiry DEF TypeOK
    <2>4. Promise!Grant(h)
      BY <1>2, <1>3, <2>1, <2>2, <2>3 DEF Promise!Grant
    <2>5. QED BY <2>4, <1>3 DEF Promise!Next
  <1>4. CASE ~(h \in Guarded /\ Wall < EffectiveExpiry(h))
    <2>1. \A t \in Guarded : honoured'[t] = honoured[t]
      BY <1>1, <1>4, GuardedExpiry DEF TypeOK
    <2>2. [t \in Guarded |-> honoured[t]]' = [t \in Guarded |-> honoured[t]]
      BY <2>1
    <2>3. (Promise!vars)' = Promise!vars
      BY <1>2, <2>2 DEF Promise!vars
    <2>4. QED BY <2>3
  <1>5. QED BY <1>3, <1>4

\* The proxy implements the abstract promise: its grants to guarded tokens are
\* the promise's grants, the clock its expiry and a restart its forgetting.
THEOREM PromiseKept ==
    ASSUME ClockSteps \subseteq Nat
    PROVE  Spec => KeepsPromise
  <1>1. Init => Promise!Init
    BY GuardedExpiry DEF Init, Promise!Init
  <1>2. ASSUME TypeOK, HeaderInv, Ledger, [Next]_vars, TypeOK'
        PROVE  [Promise!Next]_(Promise!vars)
    <2> USE DEF clocks, process, store, requests
    <2>1. ASSUME NEW r \in Request, GrantUse(r)
          PROVE  [Promise!Next]_(Promise!vars)
      BY <2>1, <1>2, GrantIsPromised
    <2>2. ASSUME NEW r \in Request,
                 Receive(r) \/ Validate(r) \/ DeriveTtl(r) \/ ReadClock(r)
                 \/ DenyUse(r) \/ Finalize(r) \/ Answer(r) \/ Cancel(r)
          PROVE  honoured' = honoured /\ skew' = skew /\ mono' = mono
      BY <2>2
      DEF Receive, Validate, DeriveTtl, ReadClock, DenyUse, Finalize, Answer, Cancel
    <2>3. SweepWake \/ SweepRetain \/ UNCHANGED vars
            => honoured' = honoured /\ skew' = skew /\ mono' = mono
      BY DEF SweepWake, SweepRetain, vars
    <2>4. Tick \/ StepClock => honoured' = honoured /\ skew' >= skew /\ mono' >= mono
      BY <1>2 DEF Tick, StepClock, TypeOK
    <2>5. Restart => Promise!Forget
      BY GuardedExpiry DEF Restart, Promise!Forget, Wall
    <2>6. skew \in Int /\ mono \in Int BY <1>2 DEF TypeOK
    <2>7. honoured' = honoured /\ skew' >= skew /\ mono' >= mono => Promise!Expire
      BY <1>2, NoGrantExpires
    <2>8. QED
      BY <1>2, <2>1, <2>2, <2>3, <2>4, <2>5, <2>6, <2>7
      DEF Next, Serve, CheckAndRecord, Promise!Next
  <1>3. QED BY <1>1, <1>2, LedgerHolds, PTL DEF Spec, KeepsPromise, Promise!Spec
=============================================================================
