---------------------------- MODULE MCConnection ----------------------------
(* An instance of Connection for TLC.                                      *)
EXTENDS Connection

CONSTANTS c1, c2, h1, h2, h3

A(f, c) == [form |-> f, class |-> c]
At(h, p) == [host |-> h, port |-> p]
Bare(h) == At(h, NoPort)

\* Every class, and every way of writing an address.
MCAddr ==
    {A("v4", "public"), A("mapped", "public"), A("v4", "private"),
     A("mapped", "loopback"), A("nat64", "reserved"), A("v6", "link_local")}

\* One that blocks what it can, one that blocks IPv4 and allows private addresses.
Strict ==
    [block_private |-> TRUE, block_loopback |-> TRUE, block_link_local |-> TRUE,
     blocked_cidrs |-> {}, allowed_cidrs |-> {}]
Lenient ==
    [block_private |-> TRUE, block_loopback |-> FALSE, block_link_local |-> TRUE,
     blocked_cidrs |-> {A("v4", "public")}, allowed_cidrs |-> {A("v4", "private")}]

\* The first client has a certificate, the second none.
MCCert == (c1 :> [fingerprint |-> "f1", subject |-> "cn1", signed |-> TRUE]) @@ (c2 :> None)

\* A token bound to a certificate, one to a user and password that pins a port and
\* asks for plain HTTP, one to nobody, one to a key with a prefix, and one to a key in
\* a header of its own.
P(auth, hosts, scheme) ==
    [auth |-> auth, upstream_scheme |-> scheme, allowed_hosts |-> hosts, host_pattern |-> {},
     allowed_methods |-> {}, allowed_paths |-> {}, path_pattern |-> {}]
MCPayload ==
    [tls |-> P(MutualTlsConfig("f1", {{"cn1"}}), {Bare(h1)}, "https"),
     basic |-> [P(CreateBasicAuthConfig("user", "pass"), {At(h2, 80)}, "http")
                   EXCEPT !.allowed_methods = {"GET"}],
     open |-> [P(NoAuth, {}, "https") EXCEPT !.host_pattern = {{h1, h3}}, !.path_pattern = {{"/a"}}],
     bearer |-> P(CreateBearerApiKeyConfig("k2"), {Bare(h1)}, "https"),
     key |-> P(CreateApiKeyConfig("x-api-key", "k1"), {Bare(h1)}, "http")]

\* A request, its credentials in Proxy-Authorization and in the other header.
R(method, uri, host, token, auth, key) ==
    [method |-> method, uri |-> uri, host |-> host, path |-> "/a", token |-> token,
     headers |-> (ProxyAuthorization :> auth) @@ ("x-api-key" :> key)]

MCOffers ==
    (c1 :> {R("CONNECT", At(h1, 443), At(h1, 443), "tls", <<>>, <<>>),
            R("CONNECT", At(h2, 80), None, "basic", <<"Basic", "user", "pass">>, <<>>),
            R("CONNECT", Bare(h3), None, None, <<>>, <<>>),
            R("GET", None, Bare(h1), "tls", <<>>, <<>>),
            R("GET", Bare(h3), Bare(h1), "tls", <<>>, <<>>),
            R("GET", Bare(h1), Bare(h3), "tls", <<>>, <<>>),
            R("GET", None, At(h2, 80), "basic", <<"Basic", "user", "pass">>, <<>>),
            R("GET", None, At(h1, 443), "key", <<>>, <<"Bearer", "k1">>),
            R("GET", None, Bare(h1), "key", <<"k1">>, <<>>),
            R("GET", None, Bare(h1), "bearer", <<"Bearer", "k2">>, <<>>),
            R("GET", None, Bare(h1), "bearer", <<"Bearer", "Bearer", "k2">>, <<>>),
            R("GET", None, Bare(h1), None, <<>>, <<>>)})
    @@
    (c2 :> {R("CONNECT", At(h1, 443), None, None, <<"Tokenizer", "open">>, <<>>),
            R("CONNECT", At(h1, 443), None, "tls", <<>>, <<>>),
            R("CONNECT", At(h3, 8443), None, "open", <<>>, <<>>),
            R("GET", None, Bare(h1), "tls", <<>>, <<>>),
            R("GET", Bare(h1), Bare(h3), "open", <<>>, <<>>)})

\* With interception and without, with and without token-optional mode.
MCConfigs ==
    {[filter |-> Strict, bump |-> TRUE, no_bump |-> {}, client_auth |-> "optional",
      token_optional |-> TRUE, host_policy |-> NewPolicy({At(h3, 443), Bare(h1)}, {})],
     [filter |-> Lenient, bump |-> TRUE, no_bump |-> {Bare(h1)}, client_auth |-> "required",
      token_optional |-> FALSE, host_policy |-> NewPolicy({}, {})],
     [filter |-> Lenient, bump |-> FALSE, no_bump |-> {}, client_auth |-> "plain",
      token_optional |-> TRUE, host_policy |-> NewPolicy({}, {Bare(h3)})]}
=============================================================================
