----------------------------- MODULE MCExchange -----------------------------
(* Instances of Exchange for TLC.                                          *)
EXTENDS Exchange

MCHeaderName ==
    {"authorization", "host", "date", "x-signature", "x-timestamp", "x-api-key",
     "x-amz-date", "x-amz-content-sha256", "content-length", "x-tokenizer-token"}

\* The key ids of two of the three keys are the same.
MCKey == {[id |-> "primary", version |-> 1], [id |-> "primary", version |-> 2],
          [id |-> "next", version |-> 1]}

\* "key" is longer than the placeholder it replaces, "raw" is no header value.
MCWidth == ("key" :> 3) @@ ("raw" :> 3) @@ ("pin" :> 1) @@ ("data" :> 1) @@ ("{{TOKEN}}" :> 2)

SkewOf(tolerance, max_future) == [tolerance |-> tolerance, max_future |-> max_future]
MCSkew == SkewOf(1, 2)
MCDefaultSkew == SkewOf(0, 2)

Sealing(secret, processor, expires_in, replay, oauth) ==
    [secret |-> secret, processor |-> processor, expires_in |-> expires_in,
     replay |-> replay, oauth |-> oauth]

Plain(processor) == Sealing("key", processor, None, FALSE, None)

Bearer == Inject("authorization", "Bearer ")
\* Signs the header a Bearer before it fills and its own timestamp.
Signing(sign_body) ==
    Hmac("x-signature", {"host", "date", "authorization", "x-timestamp"}, "x-timestamp", sign_body)
DefaultHmac == Hmac("x-signature", {"host", "date"}, "x-timestamp", TRUE)
\* sigv4 takes away the header that was filled and signed before it.
TokenThenAws ==
    Multi(<<Inject("x-tokenizer-token", ""), Hmac("x-signature", {"x-tokenizer-token"}, None, FALSE),
            Sigv4("AKIA")>>)
Fill == InjectBody("{{TOKEN}}")

MCTemplate ==
    { Sealing("key", Bearer, 0, TRUE, None),
      Sealing("key", Bearer, 3, FALSE, None),
      Sealing("raw", Bearer, 1, FALSE, None),
      Sealing("pin", Bearer, None, FALSE, None),
      Sealing("key", Bearer, None, TRUE, None),
      Sealing("key", OAuth("authorization"), None, TRUE, 0),
      Sealing("key", OAuth("authorization"), 1, TRUE, 1),
      Sealing("key", OAuth("x-api-key"), None, FALSE, 3),
      Sealing("key", Multi(<<OAuth("x-api-key"), Fill>>), None, FALSE, 1) }
    \cup { Plain(p) : p \in {
        DefaultHmac, Signing(FALSE), Fill, Sigv4("AKIA"),
        Inject("no name", ""), Hmac("no name", {}, None, TRUE), Multi(<<>>), Multi(<<Multi(<<Bearer>>)>>),
        Multi(<<Bearer, Signing(FALSE)>>), Multi(<<Signing(TRUE), Bearer>>),
        Multi(<<Signing(FALSE), Bearer>>), Multi(<<Fill, Bearer, Signing(FALSE)>>),
        Multi(<<Fill, DefaultHmac>>), Multi(<<Sigv4("AKIA"), Inject("x-api-key", "")>>),
        Multi(<<Sigv4("AKIA"), Fill>>), Multi(<<Bearer, Sigv4("AKIA")>>), TokenThenAws,
        Multi(<<Sigv4("AKIA"), Bearer, Fill>>),
        Multi(<<Hmac("x-signature", {"x-signature"}, None, FALSE), Inject("content-length", "")>>)} }

Message(headers) ==
    [line |-> "POST /", headers |-> headers @@ ("host" :> <<"text", "upstream">>),
     body |-> <<"data", "{{TOKEN}}">>]

WithToken(value) == "x-tokenizer-token" :> value
Own == ("authorization" :> <<"text", "own">>) @@ ("x-signature" :> <<"text", "own">>)
           @@ ("x-timestamp" :> <<"text", "own">>)
Aws(scope, signed) ==
    ("authorization" :> Aws4("own", scope, signed, <<>>)) @@ ("x-amz-date" :> AmzDate("today"))

\* Clients with credentials of their own, with a date that is not text, with AWS
\* requests that do and do not parse and say of their payload a hash, that it is
\* unsigned, that its chunks are signed, or nothing, and with headers that are no sealed token.
MCIncoming ==
    { Message(WithToken(<<v>>)) : v \in {"sealed", "bytes", "malformed", "tampered"} }
    \cup { Message(WithToken(<<"sealed">>) @@ h) : h \in {
        Own @@ ("content-length" :> <<"length", 3>>) @@ ("date" :> <<"bytes">>),
        Aws("scope", {"host", "authorization"})
            @@ ("x-amz-content-sha256" :> <<"sha256", <<"data", "{{TOKEN}}">>>>),
        Aws("scope", {"host", "x-api-key"}) @@ ("x-amz-content-sha256" :> <<"UNSIGNED-PAYLOAD">>),
        Aws("scope", {"host"}) @@ ("x-amz-content-sha256" :> StreamingPayload), Aws("scope", {"host"}),
        Aws(None, {"host"}), Aws("scope", None),
        "authorization" :> Aws4("own", "scope", {"host"}, <<>>) } }
    \cup { Message("authorization" :> <<"text", "own">>) }

ConfigOf(limiter, collects, require_expiration, token_optional, response_scan) ==
    [limiter |-> limiter, collects |-> collects, require_expiration |-> require_expiration,
     token_optional |-> token_optional, response_scan |-> response_scan]

\* The server with everything on, the server with nothing on but the demand for an
\* expiration, and a caller of the library that collects bodies.
MCConfigs ==
    {ConfigOf(TRUE, FALSE, FALSE, TRUE, TRUE), ConfigOf(FALSE, FALSE, TRUE, FALSE, FALSE),
     ConfigOf(FALSE, TRUE, FALSE, FALSE, TRUE)}
=============================================================================
