----------------------------- MODULE Processors -----------------------------
(***************************************************************************)
(* The processors that put a token's secret into a request: header         *)
(* injection, HMAC signing, OAuth, body placeholders, SigV4 re-signing and *)
(* chains of them.                                                         *)
(*                                                                         *)
(* A request is [line, headers, body]: the request line, a function from   *)
(* the names of the headers it has to their values, and a sequence of      *)
(* pieces.  A header's value is a tuple whose first component says what    *)
(* kind of value it is; signatures carry what they were computed from, so  *)
(* that two are equal exactly when key, algorithm and message are.         *)
(***************************************************************************)
EXTENDS Sealing, SequencesExt

CONSTANTS
    HeaderName,   \* the names that parse as a header name
    Secret,       \* the secrets that may be sealed
    Unprintable,  \* the secrets that do not parse as part of a header value
    Width,        \* the length in bytes of the pieces of a body, and of the secrets
    DefaultSkew   \* ClockSkewConfig::default()

\* The variants of ProcessorConfig that are not a chain.
ProcessorType == {"inject", "inject_hmac", "oauth", "inject_body", "sigv4"}

\* A ProcessorConfig: one processor, or a Vec of configurations.
IsProcessorConfig(p) ==
    \/ p.type \in ProcessorType
    \/ /\ p.type = "multi"
       /\ Len(p.processors) \in Nat /\ DOMAIN p.processors = 1..Len(p.processors)
       /\ \A i \in DOMAIN p.processors : p.processors[i].type \in ProcessorType \cup {"multi"}

ASSUME ProcessorAssumption ==
    /\ Unprintable \subseteq Secret
    /\ \A s \in Secret : Width[s] \in Nat
    /\ DefaultSkew \in ClockSkewConfig
    /\ None \notin HeaderName
    /\ \A template \in Template : IsProcessorConfig(template.processor)

-----------------------------------------------------------------------------
(* ProcessorConfig                                                         *)

Inject(header, prefix) == [type |-> "inject", header |-> header, prefix |-> prefix]

Hmac(signature, signed, timestamp, sign_body) ==
    [type |-> "inject_hmac", signature |-> signature, algorithm |-> "sha256",
     signed |-> signed, timestamp |-> timestamp, sign_body |-> sign_body]

OAuth(header) == [type |-> "oauth", header |-> header]
InjectBody(placeholder) == [type |-> "inject_body", placeholder |-> placeholder]
Sigv4(access_key) == [type |-> "sigv4", access_key |-> access_key]
Multi(processors) == [type |-> "multi", processors |-> processors]

\* The processors a configuration consists of, in Vec order.
Parts(p) == IF p.type = "multi" THEN p.processors ELSE <<p>>

\* A body processor that is not a chain.
NeedsBody(p) == p.type = "inject_body" \/ (p.type = "inject_hmac" /\ p.sign_body)

IsBodyProcessor(p) == \E i \in DOMAIN Parts(p) : NeedsBody(Parts(p)[i])

\* Mutant: the body processors of a chain are not counted.
ValidUncounted(p) ==
    p.type = "multi" =>
        /\ p.processors # <<>>
        /\ \A i \in DOMAIN p.processors : p.processors[i].type # "multi"

\* MultiProcessorConfig::validate; the other configurations always pass.
Valid(p) ==
    p.type = "multi" =>
        /\ p.processors # <<>>
        /\ \A i \in DOMAIN p.processors : p.processors[i].type # "multi"
        /\ \A i, j \in DOMAIN p.processors :
              NeedsBody(p.processors[i]) /\ NeedsBody(p.processors[j]) => i = j

-----------------------------------------------------------------------------
(* Requests and results                                                    *)

IsRequest(req) == DOMAIN req = {"line", "headers", "body"}

Has(req, name) == name \in DOMAIN req.headers

\* HeaderMap::insert replaces every value the name had.
Insert(req, name, value) ==
    [req EXCEPT !.headers = [h \in DOMAIN @ \cup {name} |-> IF h = name THEN value ELSE @[h]]]

Without(req, name) ==
    [req EXCEPT !.headers = [h \in DOMAIN req.headers \ {name} |-> req.headers[h]]]

\* HeaderValue::to_str
IsText(value) == value[1] # "bytes"

Ok(req) == [req |-> req, error |-> None]
Err(req, e) == [req |-> req, error |-> e]

\* The sum of the pieces' lengths.
Length(body) == FoldLeft(LAMBDA sum, piece : sum + Width[piece], 0, body)

-----------------------------------------------------------------------------
(* InjectProcessor and OAuthProcessor                                      *)

\* A name or a value that does not parse is a ConfigError.
InsertSecret(req, name, prefix, secret) ==
    IF name \in HeaderName /\ secret \notin Unprintable
    THEN Ok(Insert(req, name, <<"secret", prefix, secret>>))
    ELSE Err(req, "ConfigError")

\* The access token is checked with the default clock skew, whatever skew the
\* proxy was configured with.
ProcessOAuth(p, req, payload, now) ==
    LET status == ExpirationStatus(payload.oauth.access_token_expires_at, now, DefaultSkew)
    IN CASE status = "Expired" -> Err(req, "OAuthRefreshError")
         [] status = "FutureDated" -> Err(req, "InvalidPayload")
         [] OTHER -> InsertSecret(req, p.header, "Bearer ", payload.secret)

-----------------------------------------------------------------------------
(* HmacProcessor                                                           *)

\* CanonicalRequestBuilder: the request line, the signed headers that the request
\* has and that are text, sorted by name, and the hash of the body or nothing.
Canonical(signed, req, body_hash) ==
    [line |-> req.line,
     headers |-> [h \in {n \in signed : Has(req, n) /\ IsText(req.headers[n])} |-> req.headers[h]],
     body_hash |-> body_hash]

\* RequestSigner::sign_hex
SignHex(p, secret, canonical) == <<"hmac", p.algorithm, secret, canonical>>

BodyHash(p, req) == IF p.sign_body THEN req.body ELSE <<>>

WithTimestamp(p, req, now) ==
    IF p.timestamp = None THEN req ELSE Insert(req, p.timestamp, <<"time", now>>)

Signed(p, req, payload) ==
    Insert(req, p.signature,
           SignHex(p, payload.secret, Canonical(p.signed, req, BodyHash(p, req))))

\* Mutant: the timestamp is added to the signed request.
SignThenTimestamp(p, req, payload, now) ==
    Ok(WithTimestamp(p, Signed(p, req, payload), now))

\* process and process_body_signing: the timestamp goes in before the request is
\* made canonical, the signature after.  The signature is hex and always a valid
\* value; the names may not parse.
ProcessHmac(p, req, payload, now) ==
    IF p.signature \in HeaderName /\ p.timestamp \in HeaderName \cup {None}
    THEN Ok(Signed(p, WithTimestamp(p, req, now), payload))
    ELSE Err(req, "ConfigError")

-----------------------------------------------------------------------------
(* Sigv4Processor                                                          *)

\* An AWS4-HMAC-SHA256 Authorization header.  scope is region and service (its date
\* is the signing date's), None when the credential is not five parts; signed is None
\* without SignedHeaders; a client's own has no signature that matters here.
Aws4(access_key, scope, signed, signature) == <<"aws4", access_key, scope, signed, signature>>

\* An X-Amz-Date that parses.
AmzDate(date) == <<"date", date>>

Text(req, name, tag) ==
    Has(req, name) /\ req.headers[name][1] = tag

\* extract_credential_scope, extract_signed_headers and parse_amz_date all succeed.
Sigv4Parses(req) ==
    /\ Text(req, "authorization", "aws4")
    /\ req.headers["authorization"][3] # None /\ req.headers["authorization"][4] # None
    /\ Text(req, "x-amz-date", "date")

\* The client's signed headers that the request has and that are text, but for
\* authorization, which is replaced.
HeadersToSign(signed, req) ==
    {n \in signed \ {"authorization"} : Has(req, n) /\ IsText(req.headers[n])}

\* The value of x-amz-content-sha256 in the requests whose chunks are signed.
StreamingPayload == <<"STREAMING-AWS4-HMAC-SHA256-PAYLOAD">>

\* signable_body: what x-amz-content-sha256 says, but for chunks that are signed,
\* whose marker is replaced by that of chunks that are not.  Without the header, or
\* with one that is not text, the payload is unsigned.
SignableBody(req) ==
    LET name == "x-amz-content-sha256"
    IN IF ~(Has(req, name) /\ IsText(req.headers[name])) THEN <<"UNSIGNED-PAYLOAD">>
       ELSE IF req.headers[name] = StreamingPayload THEN <<"STREAMING-UNSIGNED-PAYLOAD-TRAILER">>
       ELSE req.headers[name]

\* aws_sigv4's sign, external: it covers the request line, the headers it is given,
\* the date, and the hash it is given for the payload.  It is taken to sign whatever
\* got this far, so that there is no SigningError.
AwsSign(secret, scope, req, names, hash) ==
    <<secret, scope, req.line, [h \in names \cup {"x-amz-date"} |-> req.headers[h]], hash>>

\* The client's scope, list of signed headers and date are kept, its access key and
\* signature replaced.  x-amz-content-sha256 goes on as it came, whatever was signed.
ProcessSigv4(p, req, payload) ==
    IF ~Sigv4Parses(req) THEN Err(req, "InvalidPayload")
    ELSE LET client == req.headers["authorization"]
             stripped == Without(req, "x-tokenizer-token")
             names == HeadersToSign(client[4], stripped)
             signature == AwsSign(payload.secret, client[3], stripped, names, SignableBody(stripped))
         IN Ok(Insert(stripped, "authorization",
                      Aws4(p.access_key, client[3], names, signature)))

-----------------------------------------------------------------------------
(* InjectBodyProcessor                                                     *)

Replaced(p, body, secret) ==
    [i \in DOMAIN body |-> IF body[i] = p.placeholder THEN secret ELSE body[i]]

\* replace_placeholder at the byte level, then the Content-Length of the new body.
ProcessInjectBody(p, req, payload) ==
    LET body == Replaced(p, req.body, payload.secret)
    IN Ok([Insert(req, "content-length", <<"length", Length(body)>>) EXCEPT !.body = body])

-----------------------------------------------------------------------------
(* Processor::process and Processor::process_body                          *)

\* One processor that does not need the body.
ProcessOne(p, req, payload, now) ==
    CASE p.type = "inject" -> InsertSecret(req, p.header, p.prefix, payload.secret)
      [] p.type = "inject_hmac" -> ProcessHmac(p, req, payload, now)
      [] p.type = "oauth" -> ProcessOAuth(p, req, payload, now)
      [] p.type = "sigv4" -> ProcessSigv4(p, req, payload)

\* One round of the loop over the processors: nothing after an error, and the
\* processors that need the body leave the request alone.
ProcessNext(res, p, payload, now) ==
    IF res.error # None \/ NeedsBody(p) THEN res ELSE ProcessOne(p, res.req, payload, now)

\* What the loop has after n processors of the configuration, in Vec order.
Loop(p, req, payload, now) ==
    LET after[n \in 0..Len(Parts(p))] ==
            IF n = 0 THEN Ok(req) ELSE ProcessNext(after[n - 1], Parts(p)[n], payload, now)
    IN after

Process(p, req, payload, now) == Loop(p, req, payload, now)[Len(Parts(p))]

\* The body processor of a configuration that has one.  A configuration that passes
\* Valid has no second one.
BodyPart(p) == Parts(p)[CHOOSE i \in DOMAIN Parts(p) : NeedsBody(Parts(p)[i])]

\* What process_body does once the body is there.  What it does before, for a chain, is
\* what Process does: the loop over the processors that do not need the body.
ProcessBody(p, req, payload, now) ==
    IF BodyPart(p).type = "inject_body" THEN ProcessInjectBody(BodyPart(p), req, payload)
    ELSE ProcessHmac(BodyPart(p), req, payload, now)
=============================================================================
