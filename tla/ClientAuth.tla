---------------------------- MODULE ClientAuth ----------------------------
(***************************************************************************)
(* Who a client is, and which tokens are bound to it, as operators.  The   *)
(* value of a header is a sequence of words; a key is compared by its HMAC *)
(* in the code and by itself here.                                         *)
(***************************************************************************)
EXTENDS Integers, Sequences, SequencesExt

CONSTANT None

ProxyAuthorization == "proxy-authorization"
HeaderName == {ProxyAuthorization, "x-api-key"}

Certificate == [fingerprint: STRING, subject: STRING, signed: BOOLEAN]

-----------------------------------------------------------------------------
(* The client's certificate                                                *)

ClientAuthMode == {"plain", "none", "optional", "required"}

\* create_tls_acceptor: a certificate that is shown has to be signed by the client
\* CA; "plain" is a listener without TLS.
HandshakeAccepts(mode, cert) ==
    \/ mode \in {"plain", "none"}
    \/ cert = None /\ mode = "optional"
    \/ cert # None /\ cert.signed

ClientCertInfo == [cert_fingerprint: STRING, subject_dn: STRING]

\* extract_client_cert_info: nobody asks for a certificate under "plain" and "none".
ExtractClientCertInfo(mode, cert) ==
    IF mode \in {"plain", "none"} \/ cert = None THEN None
    ELSE [cert_fingerprint |-> cert.fingerprint, subject_dn |-> cert.subject]

-----------------------------------------------------------------------------
(* AuthConfig: what a token is bound to                                    *)

AuthConfig ==
    [type: {"none"}]
    \cup [type: {"api_key"}, header_name: HeaderName, prefix: Seq(STRING),
          key: Seq(STRING) \ {<<>>}, username: STRING \cup {None}]
    \cup [type: {"mutual_tls"}, cert_fingerprint: STRING, subject_pattern: SUBSET SUBSET STRING]

NoAuth == [type |-> "none"]

CreateApiKeyConfig(header, key) ==
    [type |-> "api_key", header_name |-> header, prefix |-> <<>>, key |-> <<key>>,
     username |-> None]

CreateBearerApiKeyConfig(key) ==
    [CreateApiKeyConfig(ProxyAuthorization, key) EXCEPT !.prefix = <<"Bearer">>]

CreateBasicAuthConfig(username, password) ==
    [CreateApiKeyConfig(ProxyAuthorization, password) EXCEPT !.username = username]

\* subject_pattern holds one pattern, the set of names it matches, or none.
MutualTlsConfig(fingerprint, subject_pattern) ==
    [type |-> "mutual_tls", cert_fingerprint |-> fingerprint,
     subject_pattern |-> subject_pattern]

-----------------------------------------------------------------------------
(* Validation                                                              *)

\* parse_auth_header.  Basic credentials are two words, once they are decoded;
\* anything malformed or of another scheme is a raw token.
ParseAuthHeader(value) ==
    IF Len(value) > 1 /\ Head(value) = "Bearer"
    THEN [username |-> None, text |-> Tail(value)]
    ELSE IF Len(value) = 3 /\ Head(value) = "Basic"
    THEN [username |-> value[2], text |-> <<value[3]>>]
    ELSE [username |-> None, text |-> value]

\* extract_key_from_credential returns a key.
HasPrefix(cred, prefix) == IsPrefix(prefix, cred.text)
ExtractedKey(cred, prefix) == SubSeq(cred.text, Len(prefix) + 1, Len(cred.text))

\* A user name is compared if the token asks for one; a Bearer credential has none.
CheckCredential(cred, config) ==
    /\ HasPrefix(cred, config.prefix)
    /\ ExtractedKey(cred, config.prefix) = config.key
    /\ config.username \in {None, cred.username}

ValidateApiKey(config, headers) ==
    /\ headers[config.header_name] # <<>>
    /\ CheckCredential(ParseAuthHeader(headers[config.header_name]), config)

\* Mutant: a client without a certificate is taken for the one the token is bound to.
ValidateMtlsIfShown(config, tls_info) ==
    tls_info # None => tls_info.cert_fingerprint = config.cert_fingerprint

ValidateMtls(config, tls_info) ==
    /\ tls_info # None
    /\ tls_info.cert_fingerprint = config.cert_fingerprint
    /\ \A pattern \in config.subject_pattern : tls_info.subject_dn \in pattern

ValidateAuth(config, headers, tls_info) ==
    \/ config.type = "none"
    \/ config.type = "api_key" /\ ValidateApiKey(config, headers)
    \/ config.type = "mutual_tls" /\ ValidateMtls(config, tls_info)
=============================================================================
