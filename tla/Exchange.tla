------------------------------ MODULE Exchange ------------------------------
(***************************************************************************)
(* One exchange through the HTTP stack, from the request a client sends to *)
(* the request the upstream gets and the metrics the proxy records: the    *)
(* sealed token and the keys the proxy was started with, admission, the    *)
(* processors, the layers every error passes on its way out, and the       *)
(* request timeout.  Tokens are sealed while the proxy runs, the proxy is  *)
(* restarted with other keys, and time passes between any two steps.       *)
(*                                                                         *)
(* What Admission, RateLimiter, HostPolicy, ClientAuth and ResponseScan    *)
(* decide is a choice here: every outcome those modules allow is taken.    *)
(***************************************************************************)
EXTENDS Processors, Errors, FiniteSets

CONSTANTS
    Incoming,   \* the requests a client may send
    Configs,    \* the configurations to start with (see ConfigType)
    Skew,       \* the configured ClockSkewConfig
    Short,      \* the secrets of less than 8 bytes
    MaxTime,    \* bound: the clock stops here
    MaxKeys,    \* bound: keys a process is given
    MaxBoots    \* bound: restarts

\* limiter: a rate limiter is configured; collects: the caller of the library
\* collects bodies (the server does not); the others are command line switches.
ConfigType ==
    [limiter : BOOLEAN, collects : BOOLEAN, require_expiration : BOOLEAN,
     token_optional : BOOLEAN, response_scan : BOOLEAN]

\* Stands for the body among the names of headers; it does not parse as one.
TheBody == "(body)"

ASSUME ExchangeAssumption ==
    /\ \A in \in Incoming : IsRequest(in)
    /\ Configs \subseteq ConfigType
    /\ None \notin TokenizerError /\ TheBody \notin HeaderName
    /\ Skew \in ClockSkewConfig
    /\ Short \subseteq Secret
    /\ MaxTime \in Nat /\ MaxKeys \in Nat /\ MaxBoots \in Nat

VARIABLES
    now,      \* wall clock, seconds
    config,   \* the configuration the process runs with
    boots,    \* restarts so far
    keys,     \* the KeyStore
    held,     \* history: the keys this process was given
    serving,  \* the stack has been built; the keys are shared and fixed from here
    token,    \* the sealed token in the client's hands, or None
    stage,    \* where the request is
    req,      \* the request as the stack has it, None before it arrives
    patterns, \* what the response is to be searched for
    client,   \* history: the request as the client sent it
    returned, \* history: the encoding of the secret in what came back, or None
    cause,    \* history: the error the exchange failed with where it arose, or None
    records   \* the metrics recorded for the exchange

process == <<config, boots, keys, held, serving>>
exchange == <<stage, req, patterns, client, returned, cause, records>>
carried == <<req, patterns, client, returned>>
vars == <<now, process, token, exchange>>

Settled == {"idle", "answered", "failed", "cancelled"}
InFlight == {"limiting", "admitting", "replay", "handed", "collecting", "forwarded"}

\* The counters of metrics/mod.rs an exchange moves: the result of the token's
\* validation, the processor, the request's status and its error class, how often its
\* duration was taken, and the counters of single events.
NothingRecorded ==
    [validations |-> <<>>, processors |-> <<>>, requests |-> <<>>, errors |-> <<>>,
     durations |-> 0, events |-> <<>>]

\* The security events with a counter of their own.
Event ==
    {"host_rejection", "token_optional_host_rejection", "method_rejection",
     "path_rejection", "secret_leak_detected", "unsupported_encoding_blocked",
     "replay_attempt"}

\* TokenValidationResult, as far as an exchange records it.
ValidationResult ==
    {"Success", "Skipped", "Missing", "Invalid", "Expired", "DecryptionFailed",
     "HostValidationFailed", "MethodValidationFailed", "PathValidationFailed",
     "ReplayProtectionUnavailable"}

Records ==
    [validations : Seq(ValidationResult), processors : Seq(ProcessorType \cup {"multi"}),
     requests : Seq(StatusLabel), errors : Seq(TokenizerError \cup {"upstream"}),
     durations : Nat, events : Seq(Event)]

With(rec, event) == [rec EXCEPT !.events = Append(@, event)]

Init ==
    /\ now = 0
    /\ config \in Configs
    /\ boots = 0
    /\ \E k \in Key : keys = WithPrimary(k) /\ held = {k}
    /\ serving = FALSE
    /\ token = None
    /\ stage = "idle" /\ req = None /\ patterns = {}
    /\ client = None /\ returned = None /\ cause = None
    /\ records = NothingRecorded

-----------------------------------------------------------------------------
(* Keys and tokens                                                         *)

\* Whoever embeds the library rotates the primary key before it serves.
Rotate ==
    /\ ~serving /\ Len(Chain(keys)) < MaxKeys
    /\ \E k \in Key \ held : keys' = SetPrimary(keys, k) /\ held' = held \cup {k}
    /\ UNCHANGED <<now, config, boots, serving, token, exchange>>

AddOldKey ==
    /\ ~serving /\ Len(Chain(keys)) < MaxKeys
    /\ \E k \in Key \ held : keys' = AddHistorical(keys, k) /\ held' = held \cup {k}
    /\ UNCHANGED <<now, config, boots, serving, token, exchange>>

\* The stack is built; from here the store is shared and nobody can change it.
StartServing ==
    /\ ~serving
    /\ serving' = TRUE
    /\ UNCHANGED <<now, config, boots, keys, held, token, exchange>>

\* The process dies, whatever it is doing, and starts again with the key it is
\* configured with, and no other.
Restart ==
    /\ boots < MaxBoots
    /\ boots' = boots + 1
    /\ \E k \in Key : keys' = WithPrimary(k) /\ held' = {k}
    /\ serving' = FALSE
    /\ stage' = "idle" /\ req' = None /\ patterns' = {}
    /\ client' = None /\ returned' = None /\ cause' = None
    /\ records' = NothingRecorded
    /\ UNCHANGED <<now, config, token>>

\* The seal command, or TokenCrypto::seal, for any key of the operator's.
Seal ==
    /\ token = None
    /\ \E template \in Template, k \in Key :
          /\ Buildable(template)
          /\ token' = SealedToken(Payload(template, now), k)
    /\ UNCHANGED <<now, process, exchange>>

Tick ==
    /\ now < MaxTime
    /\ now' = now + 1
    /\ UNCHANGED <<process, token, exchange>>

-----------------------------------------------------------------------------
(* How an exchange ends                                                    *)

\* Mutant: the duration is taken where a response is there.
RecordFailureOnly(rec, e) ==
    [rec EXCEPT !.requests = Append(@, StatusClass(StatusCode(e))),
                !.errors = Append(@, ErrorClass(e))]

RecordFailure(rec, e) ==
    [rec EXCEPT !.requests = Append(@, StatusClass(StatusCode(e))),
                !.errors = Append(@, ErrorClass(e)),
                !.durations = @ + 1]

RecordResponse(rec, status) ==
    [rec EXCEPT !.requests = Append(@, StatusClass(status)), !.durations = @ + 1]

\* RateLimitService turns every error from inside it into an HttpError.
ThroughRateLimit(e) == IF config.limiter THEN "HttpError" ELSE e

\* The exchange fails with e, which left the stack as `out`, with `rec` recorded
\* on the way.  hyper answers nothing and closes the connection.
Fail(e, out, rec) ==
    /\ stage' = "failed"
    /\ cause' = e
    /\ records' = RecordFailure(rec, out)
    /\ UNCHANGED carried

Validated(result) == [records EXCEPT !.validations = Append(@, result)]

\* An admission refuses: the error passes the rate limiter only.
Refuse(e, rec) == Fail(e, ThroughRateLimit(e), rec)

\* An error of the services below admission: TokenInjectionService turns it into an
\* HttpError, whatever it was.
FailInside(e, rec) == Fail(e, ThroughRateLimit("HttpError"), rec)

\* The request timeout: the future is dropped at the await it is suspended in.
Awaiting ==
    \/ stage \in {"limiting", "collecting", "forwarded"}
    \/ stage = "replay" /\ token.payload.replay

Timeout ==
    /\ Awaiting
    /\ Fail("Timeout", "Timeout", records)
    /\ UNCHANGED <<now, process, token>>

\* The client goes away: hyper drops the future and nothing more is recorded.
Cancel ==
    /\ Awaiting
    /\ stage' = "cancelled"
    /\ UNCHANGED <<now, process, token, carried, cause, records>>

-----------------------------------------------------------------------------
(* The stack                                                               *)

\* A request reaches serve_connection_with.  Exchanges share nothing but the keys and
\* the token, which serving does not change, so one per process shows them all.
\* prepare_request fails where the target of an intercepted stream makes no URI.
Receive ==
    /\ serving /\ stage = "idle"
    /\ \E in \in Incoming :
          /\ Has(in, "x-tokenizer-token") => token # None
          /\ client' = in
          /\ req' = in
    /\ \/ /\ stage' = IF config.limiter THEN "limiting" ELSE "admitting"
          /\ cause' = None /\ records' = NothingRecorded
       \/ /\ stage' = "failed" /\ cause' = "InvalidPayload"
          /\ records' = RecordFailure(NothingRecorded, "InvalidPayload")
    /\ UNCHANGED <<now, process, token, patterns, returned>>

\* RateLimitService
Limit ==
    /\ stage = "limiting"
    /\ \/ Fail("RateLimitExceeded", "RateLimitExceeded", records)
       \/ stage' = "admitting" /\ UNCHANGED <<carried, cause, records>>
    /\ UNCHANGED <<now, process, token>>

TokenHeader == req.headers["x-tokenizer-token"]

\* A request without a token: refused, or forwarded as it is when the static host
\* policy agrees.  Skipped is recorded before the policy is asked.
AdmitTokenOptional ==
    /\ stage = "admitting" /\ ~Has(req, "x-tokenizer-token")
    /\ \/ ~config.token_optional /\ Refuse("InvalidPayload", Validated("Missing"))
       \/ config.token_optional /\ Refuse("InvalidPayload", Validated("Skipped"))
       \/ /\ config.token_optional
          /\ Refuse("HostNotAllowed", With(Validated("Skipped"), "token_optional_host_rejection"))
       \/ /\ config.token_optional
          /\ stage' = "forwarded" /\ records' = Validated("Skipped")
          /\ UNCHANGED <<carried, cause>>
    /\ UNCHANGED <<now, process, token>>

\* What unsealing the token ends with, under the DecryptConfig of the command line.
Unsealing ==
    UnsealError(keys, token, now,
                [clock_skew |-> Skew, require_expiration |-> config.require_expiration])

\* decrypt: the header does not parse, or the box does not open.
Decrypts == TokenHeader = <<"sealed">> /\ Unsealing = None

RejectToken ==
    /\ stage = "admitting" /\ Has(req, "x-tokenizer-token") /\ ~Decrypts
    /\ \/ TokenHeader \in {<<"bytes">>, <<"malformed">>}
          /\ Refuse("InvalidPayload", Validated("Invalid"))
       \/ TokenHeader = <<"tampered">>
          /\ Refuse("DecryptionError", Validated("DecryptionFailed"))
       \/ TokenHeader = <<"sealed">>
          /\ Refuse(Unsealing,
                    Validated(IF Unsealing = "TokenExpired" THEN "Expired" ELSE "DecryptionFailed"))
    /\ UNCHANGED <<now, process, token>>

\* validate_request: what the token demands of client, host, method and path, with
\* what a refusal records.  A pattern of the token's that does not compile is a
\* ConfigError, recorded as a rejection all the same.
Constraint ==
    {<<"ProxyAuthRequired", Validated("Invalid")>>, <<"InvalidPayload", Validated("Invalid")>>,
     <<"MethodNotAllowed", With(Validated("MethodValidationFailed"), "method_rejection")>>}
    \cup ({"HostNotAllowed", "ConfigError"}
              \X {With(Validated("HostValidationFailed"), "host_rejection")})
    \cup ({"PathNotAllowed", "ConfigError"}
              \X {With(Validated("PathValidationFailed"), "path_rejection")})

ValidateRequest ==
    /\ stage = "admitting" /\ Has(req, "x-tokenizer-token") /\ Decrypts
    /\ \/ \E c \in Constraint : Refuse(c[1], c[2])
       \/ stage' = "replay" /\ UNCHANGED <<carried, cause, records>>
    /\ UNCHANGED <<now, process, token>>

\* check_replay refuses.  A replay, a failing store and a lifetime that is over by
\* now leave no validation result.
RefuseReplay ==
    /\ stage = "replay" /\ token.payload.replay
    /\ \/ Refuse("ReplayProtectionUnavailable", Validated("ReplayProtectionUnavailable"))
       \/ Refuse("TokenReplayDetected", With(records, "replay_attempt"))
       \/ \E e \in {"NonceStoreError", "TokenExpired"} : Refuse(e, records)
    /\ UNCHANGED <<now, process, token>>

\* finalize removes the token header before anything is injected.
Stripped(r) == Without(r, "x-tokenizer-token")

\* Mutant: the secret is searched for as it is.
RawPattern(secret) == {<<"raw", secret>>}

\* The encodings of generate_scan_patterns.
Encoding == {"raw", "base64", "base64url", "url", "hex", "HEX", "html"}

\* A short secret is searched for only as it is.  The variants the code leaves out are
\* equal to one it has.
GenerateScanPatterns(secret) ==
    {<<form, secret>> : form \in IF secret \in Short THEN {"raw"} ELSE Encoding}

\* finalize.  The server forwards what Processor::process makes of the request; a
\* caller that collects bodies then runs process_body where the processor asks for it.
Finalize ==
    LET p == token.payload.processor
        rec == [Validated("Success") EXCEPT !.processors = Append(@, p.type)]
        res == Process(p, Stripped(req), token.payload, now)
    IN /\ stage = "replay"
       /\ \/ ~Valid(p) /\ Refuse("InvalidPayload", rec)
          \/ Valid(p) /\ res.error # None /\ Refuse(res.error, rec)
          \/ /\ Valid(p) /\ res.error = None
             /\ req' = res.req /\ records' = rec
             /\ patterns' = IF config.response_scan
                            THEN GenerateScanPatterns(token.payload.secret) ELSE {}
             /\ stage' = IF config.collects /\ IsBodyProcessor(p) THEN "handed" ELSE "forwarded"
             /\ UNCHANGED <<client, returned, cause>>
       /\ UNCHANGED <<now, process, token>>

\* The caller runs process_body on what finalize made of the request.  The header
\* processors of a chain run a second time, and see what they wrote the first time;
\* a body processor that is no chain leaves the headers alone up to here.
HeadersAgain ==
    LET res == Process(token.payload.processor, req, token.payload, now)
    IN /\ stage = "handed"
       /\ \/ res.error # None /\ Refuse(res.error, records)
          \/ /\ res.error = None
             /\ req' = res.req /\ stage' = "collecting"
             /\ UNCHANGED <<patterns, client, returned, cause, records>>
       /\ UNCHANGED <<now, process, token>>

\* The body has been collected, and is processed; or it could not be read.
CollectBody ==
    LET res == ProcessBody(token.payload.processor, req, token.payload, now)
    IN /\ stage = "collecting"
       /\ \/ Refuse("HttpError", records)
          \/ res.error # None /\ Refuse(res.error, records)
          \/ /\ res.error = None
             /\ req' = res.req /\ stage' = "forwarded"
             /\ UNCHANGED <<patterns, client, returned, cause, records>>
       /\ UNCHANGED <<now, process, token>>

\* The response comes through DynamicResponseScanService, with whatever status the
\* upstream gave it.  ProxyService changes the scheme and the authority of the URI,
\* and no header.
Respond ==
    /\ stage = "forwarded"
    /\ \E status \in {200, 404, 503} : records' = RecordResponse(records, status)
    /\ stage' = "answered"
    /\ UNCHANGED <<now, process, token, carried, cause>>

\* The upstream sends the secret back, in some encoding.  What is searched for is found
\* in a header before the response is passed on; in the body it is found later, and
\* the body breaks off before it.  Anything else is passed on.
Echo ==
    /\ stage = "forwarded" /\ Has(client, "x-tokenizer-token")
    /\ \E form \in Encoding :
          LET found == <<form, token.payload.secret>> \in patterns
              leak == With(records, "secret_leak_detected")
          IN \/ found /\ FailInside("SecretLeakDetected", leak)
             \/ /\ stage' = "answered"
                /\ records' = RecordResponse(IF found THEN leak ELSE records, 200)
                /\ returned' = IF found THEN None ELSE form
                /\ UNCHANGED <<req, patterns, client, cause>>
    /\ UNCHANGED <<now, process, token>>

\* The upstream is blocked or does not answer, or its response has an encoding that
\* is not passed on, searched or not.
UpstreamFails ==
    /\ stage = "forwarded"
    /\ \/ \E e \in {"HttpError", "BlockedAddress"} : FailInside(e, records)
       \/ FailInside("UnsupportedContentEncoding", With(records, "unsupported_encoding_blocked"))
    /\ UNCHANGED <<now, process, token>>

Serve ==
    \/ Receive \/ Limit \/ AdmitTokenOptional \/ RejectToken \/ ValidateRequest
    \/ RefuseReplay \/ Finalize \/ HeadersAgain \/ CollectBody \/ Respond \/ Echo
    \/ UpstreamFails \/ Timeout \/ Cancel

Next == Rotate \/ AddOldKey \/ StartServing \/ Restart \/ Seal \/ Tick \/ Serve

Spec == Init /\ [][Next]_vars

-----------------------------------------------------------------------------
(* Properties                                                              *)

TypeOK ==
    /\ now \in 0..MaxTime /\ config \in Configs /\ boots \in 0..MaxBoots
    /\ keys \in [primary : Key, historical : Seq(Key)] /\ held \subseteq Key
    /\ serving \in BOOLEAN
    /\ stage \in Settled \cup InFlight
    /\ stage \in InFlight => IsRequest(req) /\ IsRequest(client)
    /\ cause \in TokenizerError \cup {None}
    /\ stage = "failed" <=> cause # None
    /\ records \in Records

\* The request is with the upstream, and a token came with it.
Injected == stage \in {"forwarded", "answered"} /\ Has(client, "x-tokenizer-token")

\* The processors of a configuration that have run, by their place in it.
Ran(p, collects) == {i \in DOMAIN Parts(p) : collects \/ ~NeedsBody(Parts(p)[i])}

\* The one at j runs after the one at i: those that need the body come last.
RunsAfter(p, j, i) ==
    IF NeedsBody(Parts(p)[j]) <=> NeedsBody(Parts(p)[i]) THEN j > i ELSE NeedsBody(Parts(p)[j])

\* What a processor changes of a request.
Writes(p) ==
    CASE p.type \in {"inject", "oauth"} -> {p.header}
      [] p.type = "inject_hmac" -> {p.signature, p.timestamp}
      [] p.type = "inject_body" -> {TheBody, "content-length"}
      [] p.type = "sigv4" -> {"authorization", "x-tokenizer-token"}

\* What a signature depends on, itself included; sigv4 takes over the list of the
\* client's request, `in`.
Covers(p, in) ==
    CASE p.type = "inject_hmac" -> p.signed \cup {p.signature} \cup (IF p.sign_body THEN {TheBody} ELSE {})
      [] p.type = "sigv4" -> {"authorization", "x-amz-date", "x-amz-content-sha256", TheBody}
            \cup (IF Text(in, "authorization", "aws4") THEN in.headers["authorization"][4] ELSE {})
      [] OTHER -> {}

\* A signature among the headers it signs can never be verified.
SignsItself(p) == p.type = "inject_hmac" /\ p.signature \in p.signed

\* What the upstream takes for the hash of an AWS request's payload: what
\* x-amz-content-sha256 says, or a hash of the body it got.
PayloadHash(r) ==
    IF Has(r, "x-amz-content-sha256") THEN r.headers["x-amz-content-sha256"]
    ELSE <<"sha256", r.body>>

\* The request says what its payload's hash is, and is not one of signed chunks.
PayloadTold(r) ==
    /\ Has(r, "x-amz-content-sha256") /\ IsText(r.headers["x-amz-content-sha256"])
    /\ r.headers["x-amz-content-sha256"] # StreamingPayload

\* The upstream computes the signature from the request r it got and finds the same.
SignatureHolds(p, r, secret) ==
    CASE p.type = "inject_hmac" ->
            /\ Has(r, p.signature)
            /\ r.headers[p.signature] = SignHex(p, secret, Canonical(p.signed, r, BodyHash(p, r)))
      [] p.type = "sigv4" ->
            LET sent == r.headers["authorization"]
            IN /\ sent[2] = p.access_key
               /\ sent[5] = AwsSign(secret, sent[3], r, sent[4], PayloadHash(r))
               /\ Text(r, "x-amz-content-sha256", "sha256")
                    => r.headers["x-amz-content-sha256"][2] = r.body
      [] OTHER -> TRUE

LengthHolds(r) ==
    Has(r, "content-length") => r.headers["content-length"] = <<"length", Length(r.body)>>

\* The client told the truth about its body, where it said something of it.
Truthful(in) ==
    /\ LengthHolds(in)
    /\ Text(in, "x-amz-content-sha256", "sha256") => in.headers["x-amz-content-sha256"][2] = in.body

\* What the proxy says of the request it forwards is true of it: every signature it
\* made verifies, unless a processor that ran later wrote what it covers, and the
\* Content-Length is the length of the body, unless a token puts something else there.
\* An AWS request that does not say its payload's hash, or whose chunks are signed, is
\* not promised a signature that verifies: sigv4 signs another hash than it sends.
HeadersTellTruth ==
    Injected /\ Truthful(client) =>
        LET p == token.payload.processor
            ran == Ran(p, config.collects)
        IN /\ \A i \in ran :
                 /\ ~SignsItself(Parts(p)[i])
                 /\ Parts(p)[i].type = "sigv4" => PayloadTold(req)
                 /\ \A j \in ran :
                       RunsAfter(p, j, i) => Writes(Parts(p)[j]) \cap Covers(Parts(p)[i], client) = {}
                 => SignatureHolds(Parts(p)[i], req, token.payload.secret)
           /\ (\A i \in ran : "content-length" \in Writes(Parts(p)[i]) => Parts(p)[i].type = "inject_body")
                => LengthHolds(req)

\* A value the proxy made.
ProxyMade(value) ==
    \/ value[1] \in {"secret", "hmac", "time", "length"}
    \/ value[1] = "aws4" /\ value[5] # <<>>

\* The upstream sees neither the sealed token nor a credential of the client's own in
\* a header that a processor fills.  Where bodies are collected that is every
\* processor of the token; the server leaves out the ones that need the body.  A
\* processor may be told to fill x-tokenizer-token; sigv4 removes what it put there.
NoClientCredential ==
    Injected =>
        LET p == token.payload.processor
            ran == {q \in ToSet(Parts(p)) : config.collects \/ ~NeedsBody(q)}
        IN /\ Has(req, "x-tokenizer-token") => ProxyMade(req.headers["x-tokenizer-token"])
           /\ \A q \in ran : \A h \in (Writes(q) \cap HeaderName) \ {"x-tokenizer-token"} :
                 Has(req, h) /\ ProxyMade(req.headers[h])

\* With scanning on, the secret that was injected does not come back: not as it is and,
\* unless it is short, in none of the encodings, wherever the upstream puts it.
SecretStaysInside ==
    returned # None /\ config.response_scan => returned # "raw" /\ token.payload.secret \in Short

\* Rotation loses no token: one sealed for a key this process was given opens, whenever
\* and as what the key was added, as long as no other key it was given has the id.
RotationKeepsTokens ==
    token # None /\ token.sealed_for \in held
        /\ (\A k \in held : k.id = token.key_id => k = token.sealed_for)
        => Opens(keys, token)

\* The events a failure is to be counted as, by the result of the validation and
\* whether the client sent a token.  Nothing counts blocked addresses.
EventsOf(e, validations, with_token) ==
    LET failed(check) == validations = <<check>>
    IN CASE e = "HostNotAllowed" /\ ~with_token ->
               <<"token_optional_host_rejection">>
         [] e \in {"HostNotAllowed", "ConfigError"} /\ failed("HostValidationFailed") ->
               <<"host_rejection">>
         [] e \in {"PathNotAllowed", "ConfigError"} /\ failed("PathValidationFailed") ->
               <<"path_rejection">>
         [] e = "MethodNotAllowed" -> <<"method_rejection">>
         [] e = "TokenReplayDetected" -> <<"replay_attempt">>
         [] e = "SecretLeakDetected" -> <<"secret_leak_detected">>
         [] e = "UnsupportedContentEncoding" -> <<"unsupported_encoding_blocked">>
         [] OTHER -> <<>>

\* Every exchange that ends with a response or an error is recorded once, with one
\* duration, and with a class exactly when it failed; one that was cancelled or goes
\* on is not.  What reaches the upstream was validated once, with the result that
\* tells whether a secret went with it.  The security events are counted by what
\* happened, whatever the layers make of the error, and a leak that is counted was
\* stopped.
RecordsAgree ==
    /\ stage \in {"answered", "failed"} =>
          /\ Len(records.requests) = 1 /\ records.durations = 1
          /\ Len(records.errors) = IF stage = "failed" THEN 1 ELSE 0
    /\ stage \in InFlight \cup {"cancelled"} =>
          records.requests = <<>> /\ records.errors = <<>> /\ records.durations = 0
    /\ Len(records.validations) <= 1
    /\ stage \in {"handed", "collecting", "forwarded", "answered"} =>
          /\ records.validations = <<IF Has(client, "x-tokenizer-token") THEN "Success" ELSE "Skipped">>
          /\ Len(records.processors) = IF Has(client, "x-tokenizer-token") THEN 1 ELSE 0
    /\ stage = "failed" =>
          records.events = EventsOf(cause, records.validations, Has(client, "x-tokenizer-token"))
    /\ records.events # <<>> => returned = None

\* A failure is recorded "with the failure's true status" (error.rs) and a class by
\* which failures "are distinguishable" (metrics/mod.rs).
RecordedTruly ==
    stage = "failed" =>
        /\ records.requests = <<StatusClass(StatusCode(cause))>>
        /\ records.errors = <<ErrorClass(cause)>>
=============================================================================
