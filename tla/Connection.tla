----------------------------- MODULE Connection -----------------------------
(***************************************************************************)
(* What becomes of a connection: its handshake, its requests, where they   *)
(* may go and where they are sent, and its CONNECT, whose stream is either *)
(* intercepted, with a leaf certificate from the shared cache and the      *)
(* requests inside it served in the same way, or tunnelled to an address   *)
(* that was resolved and vetted.  Connections run concurrently, names      *)
(* change their addresses at any time, and the clock moves between any two *)
(* steps.  Expiry and replay of tokens are in Admission.                   *)
(***************************************************************************)
EXTENDS Integers, Sequences, SequencesExt, IpFilter, HostPolicy, ClientAuth

CONSTANTS
    Conn,        \* connections (bound)
    Cert,        \* Conn -> the certificate the client has, or None
    Offers,      \* Conn -> the requests the client may send (see RequestType)
    Host, Port, Path, Method,
    Token,
    Payload,     \* Token -> what sealing fixed (see PayloadType)
    BlockedHost, \* blocked_hostnames
    Addr,        \* addresses the resolver may answer with
    Configs,     \* the configurations to start with (see ConfigType)
    Capacity,    \* MAX_CACHED_LEAVES
    Validity,    \* LEAF_VALIDITY_DAYS
    Margin,      \* LEAF_RENEW_MARGIN_DAYS
    MaxTime      \* bound on the clock

Scheme == {"http", "https"}

PayloadType ==
    [auth: AuthConfig, upstream_scheme: Scheme,
     allowed_hosts: SUBSET Authority(Host, Port), host_pattern: SUBSET SUBSET Host,
     allowed_methods: SUBSET Method,
     allowed_paths: SUBSET Path, path_pattern: SUBSET SUBSET Path]

\* uri and host are the authorities of the request line and of the Host header.
RequestType ==
    [method: Method, path: Path, token: Token \cup {None}, headers: [HeaderName -> Seq(STRING)],
     uri: Authority(Host, Port) \cup {None}, host: Authority(Host, Port) \cup {None}]

\* The part of the command line that connections depend on.
ConfigType ==
    [filter: Filter, bump: BOOLEAN, no_bump: SUBSET Authority(Host, Port),
     client_auth: ClientAuthMode, token_optional: BOOLEAN,
     host_policy: HostPolicyType(Host, Port)]

Leaf == [host: Host, not_after: Nat]
Destination == [host: Host, port: Port]

ASSUME ConnectionAssumption ==
    /\ None \notin Token /\ None \notin Addr /\ None \notin Leaf /\ None \notin Destination
    /\ None \notin Authority(Host, Port) /\ None \notin RequestType
    /\ None \notin Certificate /\ None \notin ClientCertInfo
    /\ Offers \in [Conn -> SUBSET RequestType] /\ Payload \in [Token -> PayloadType]
    /\ Cert \in [Conn -> Certificate \cup {None}]
    /\ BlockedHost \subseteq Host /\ Addr \subseteq Address
    /\ Port \subseteq Nat /\ {80, 443} \subseteq Port
    /\ Configs \subseteq ConfigType
    /\ \A k \in Configs :
          k.host_policy = NewPolicy(k.host_policy.allowed_hosts, k.host_policy.blocked_hosts)
    /\ Capacity \in Nat \ {0} /\ Margin \in Nat /\ MaxTime \in Nat
    /\ Validity \in Nat /\ Validity > Margin

VARIABLES
    config,
    now,
    cache,   \* leaves, the least recently used first
    conn     \* Conn -> the connection's task

vars == <<config, now, cache, conn>>

Phase == {"accepted", "open", "upgraded", "looking", "minting", "caching", "handshaking",
          "serving", "forwarding", "sent", "resolving", "connecting", "copying", "closed"}

\* target: where the CONNECT leads; request: the one on its way; dial: the host and
\* port it is sent to; addr: the address that was connected to.
Idle(phase) == [phase |-> phase, target |-> None, request |-> None, dial |-> None,
                addr |-> None, leaf |-> None, read |-> 0]

Init ==
    /\ config \in Configs /\ now = 0 /\ cache = <<>>
    /\ conn = [c \in Conn |-> Idle("accepted")]

Goto(c, p) == conn' = [conn EXCEPT ![c].phase = p]

\* A task that ends leaves nothing behind.
Close(c) == conn' = [conn EXCEPT ![c] = Idle("closed")]

-----------------------------------------------------------------------------
(* Requests                                                                *)

TlsInfo(c) == ExtractClientCertInfo(config.client_auth, Cert[c])

Accept(c) ==
    /\ conn[c].phase = "accepted"
    /\ IF HandshakeAccepts(config.client_auth, Cert[c]) THEN Goto(c, "open") ELSE Close(c)
    /\ UNCHANGED <<config, now, cache>>

\* The token of a CONNECT: the token header's, or a sealed one in the other header.
ConnectToken(r) ==
    LET value == r.headers[ProxyAuthorization] IN
    IF r.token # None THEN r.token
    ELSE IF Len(value) = 2 /\ value[1] = "Tokenizer" THEN value[2] ELSE None

HasToken(r) == r.token # None \/ r.headers[ProxyAuthorization] # <<>>

\* validate_connect, or connect_target_with_policy if there is no token at all.
ConnectAdmitted(c, r) ==
    /\ r.uri # None
    /\ IF HasToken(r)
       THEN LET t == ConnectToken(r) IN
            /\ t \in Token
            /\ ValidateAuth(Payload[t].auth, r.headers, TlsInfo(c))
            /\ ValidateHost(Payload[t], r.uri)
       ELSE config.token_optional /\ Validate(config.host_policy, r.uri)

\* handle_connect.  A CONNECT that is refused is answered, and the connection goes on.
ConnectRequest(c, r) ==
    /\ conn[c].phase = "open" /\ r.method = "CONNECT" /\ ConnectAdmitted(c, r)
    /\ conn' = [conn EXCEPT ![c].phase = "upgraded", ![c].request = r,
                            ![c].target = WithPort(r.uri, 443)]
    /\ UNCHANGED <<config, now, cache>>

\* Mutant: only origin-form requests are given the CONNECT's authority.
PrepareOriginForm(c, r) ==
    IF conn[c].target = None \/ r.uri # None THEN r
    ELSE LET a == CanonicalAuthority(conn[c].target, "https")
         IN [r EXCEPT !.uri = a, !.host = a]

\* prepare_request: an inner request is sent where the CONNECT led, whatever it says.
PrepareRequest(c, r) ==
    IF conn[c].target = None THEN r
    ELSE LET a == CanonicalAuthority(conn[c].target, "https")
         IN [r EXCEPT !.uri = a, !.host = a]

\* request_authority and validate_request.
RequestAuthority(r) == IF r.uri # None THEN r.uri ELSE r.host

Admitted(c, r) ==
    LET a == RequestAuthority(r) IN
    /\ a # None
    /\ IF r.token = None
       THEN config.token_optional /\ Validate(config.host_policy, a)
       ELSE LET p == Payload[r.token] IN
            /\ ValidateAuth(p.auth, r.headers, TlsInfo(c))
            /\ ValidateHost(p, a)
            /\ ValidateMethod(p, r.method)
            /\ ValidatePath(p, r.path)

\* Mutant: the Host header decides where an absolute-form request goes.
HostHeaderFirst(r) == IF r.host # None THEN r.host ELSE r.uri

\* ProxyService's authority of the outgoing request.
TargetAuthority(r) == IF r.uri # None THEN r.uri ELSE r.host

\* The token's scheme; without one the default, which is also what is forced upon
\* inner requests.
UpstreamScheme(r) == IF r.token = None THEN "https" ELSE Payload[r.token].upstream_scheme

\* Any other request, and any request inside an intercepted stream.  An error of the
\* stack is the service's error, and hyper ends the connection.
Serve(c, sent) ==
    LET r == PrepareRequest(c, sent) IN
    /\ \/ conn[c].phase = "open" /\ sent.method # "CONNECT"
       \/ conn[c].phase = "serving"
    /\ IF Admitted(c, r)
       THEN conn' = [conn EXCEPT
                ![c].phase = "forwarding", ![c].request = r,
                ![c].dial = WithPort(TargetAuthority(r), DefaultPort(UpstreamScheme(r)))]
       ELSE Close(c)
    /\ UNCHANGED <<config, now, cache>>

Respond(c) ==
    /\ conn[c].phase = "sent"
    /\ conn' = [conn EXCEPT ![c] = [Idle(IF @.target = None THEN "open" ELSE "serving")
                                      EXCEPT !.target = conn[c].target]]
    /\ UNCHANGED <<config, now, cache>>

\* The request timeout, or an upstream that fails.
RequestFails(c) ==
    /\ conn[c].phase \in {"forwarding", "sent"} /\ Close(c)
    /\ UNCHANGED <<config, now, cache>>

-----------------------------------------------------------------------------
(* CONNECT                                                                 *)

\* handle_tunnel_or_bump; the policy sees the host without its port, and leaf_for
\* begins by reading the clock.
Route(c) ==
    LET host == [host |-> conn[c].target.host, port |-> NoPort]
        in_no_bump == config.no_bump # {} /\ Validate(NewPolicy(config.no_bump, {}), host)
    IN
    /\ conn[c].phase = "upgraded"
    /\ IF config.bump /\ ~in_no_bump
       THEN conn' = [conn EXCEPT ![c].phase = "looking", ![c].read = now, ![c].request = None]
       ELSE Goto(c, "resolving")
    /\ UNCHANGED <<config, now, cache>>

\* Where the host's leaf is, if there is one, and the cache without it.
Slots(h) == {i \in DOMAIN cache : cache[i].host = h}
Slot(h) == CHOOSE i \in Slots(h) : TRUE
Others(h) == IF Slots(h) = {} THEN cache ELSE RemoveAt(cache, Slot(h))

\* Mutant: a leaf is served until it expires.
FreshToTheEnd(l, read) == l.not_after > read

\* "entry.not_after - now > renew_margin"
Fresh(l, read) == l.not_after - read > Margin

\* The first critical section of leaf_for.  LruCache::get makes the entry the most
\* recently used one, whether or not it is then fresh enough to be served.
LookUp(c) ==
    LET h == conn[c].target.host IN
    /\ conn[c].phase = "looking"
    /\ cache' = IF Slots(h) = {} THEN cache ELSE Append(Others(h), cache[Slot(h)])
    /\ IF Slots(h) # {} /\ Fresh(cache[Slot(h)], conn[c].read)
       THEN conn' = [conn EXCEPT ![c].phase = "handshaking", ![c].leaf = cache[Slot(h)]]
       ELSE Goto(c, "minting")
    /\ UNCHANGED <<config, now>>

\* mint_leaf, with a clock of its own.
Mint(c) ==
    /\ conn[c].phase = "minting"
    /\ conn' = [conn EXCEPT ![c].phase = "caching",
                            ![c].leaf = [host |-> conn[c].target.host, not_after |-> now + Validity]]
    /\ UNCHANGED <<config, now, cache>>

\* No key, no signature, or a host that is no DNS name.
MintFails(c) ==
    /\ conn[c].phase = "minting" /\ Close(c)
    /\ UNCHANGED <<config, now, cache>>

\* Mutant: nothing makes room.
PutEvictsNothing(c) ==
    /\ conn[c].phase = "caching"
    /\ cache' = Append(Others(conn[c].target.host), conn[c].leaf)
    /\ Goto(c, "handshaking")
    /\ UNCHANGED <<config, now>>

\* The second one.  LruCache::put replaces the host's entry, or makes room.
Put(c) ==
    LET kept == Append(Others(conn[c].target.host), conn[c].leaf) IN
    /\ conn[c].phase = "caching"
    /\ cache' = IF Len(kept) > Capacity THEN Tail(kept) ELSE kept
    /\ Goto(c, "handshaking")
    /\ UNCHANGED <<config, now>>

\* acceptor.accept; from here on the stream is served like a connection, and the
\* leaf and its clock are no longer needed.
Handshake(c) ==
    /\ conn[c].phase = "handshaking"
    /\ conn' = [conn EXCEPT ![c].phase = "serving", ![c].leaf = None, ![c].read = 0]
    /\ UNCHANGED <<config, now, cache>>

\* The handshake fails, the client closes the connection, between requests or while
\* one is on its way, whose future is dropped, or the limiter or the replay check
\* refuses a request.
ClientCloses(c) ==
    /\ conn[c].phase \in {"open", "handshaking", "serving", "forwarding", "sent"} /\ Close(c)
    /\ UNCHANGED <<config, now, cache>>

-----------------------------------------------------------------------------
(* Connections to upstreams                                                *)

Vetted(answer) == answer # <<>> /\ \A i \in DOMAIN answer : IsAllowed(config.filter, answer[i])

\* Both paths resolve the name and refuse the answer as a whole if it is empty or
\* any address in it is blocked; otherwise the first address is the one.
ResolveTunnel(c, answer) ==
    /\ conn[c].phase = "resolving"
    /\ IF Vetted(answer)
       THEN conn' = [conn EXCEPT ![c].phase = "connecting", ![c].dial = conn[c].target,
                                 ![c].addr = Head(answer)]
       ELSE Close(c)
    /\ UNCHANGED <<config, now, cache>>

\* ValidatingConnector, which also knows blocked names.
ResolveRequest(c, answer) ==
    /\ conn[c].phase = "forwarding"
    /\ IF conn[c].dial.host \notin BlockedHost /\ Vetted(answer)
       THEN conn' = [conn EXCEPT ![c].phase = "sent", ![c].addr = Head(answer)]
       ELSE Close(c)
    /\ UNCHANGED <<config, now, cache>>

\* Mutant: the name is resolved again where the connection is made.
ConnectByName(c) ==
    /\ conn[c].phase = "connecting"
    /\ \E a \in Addr : conn' = [conn EXCEPT ![c].phase = "copying", ![c].addr = a]
    /\ UNCHANGED <<config, now, cache>>

\* connect_upstream is given the address, not the name.
Connect(c) ==
    /\ conn[c].phase = "connecting" /\ Goto(c, "copying")
    /\ UNCHANGED <<config, now, cache>>

\* Mutant: there is no timeout around the connect.
ConnectFailsNever(c) == FALSE /\ UNCHANGED vars

\* Refused, or the connect timeout.
ConnectFails(c) ==
    /\ conn[c].phase = "connecting" /\ Close(c)
    /\ UNCHANGED <<config, now, cache>>

\* copy_bidirectional selects: the direction that ends first ends both.
CopyEnds(c) ==
    /\ conn[c].phase = "copying" /\ Close(c)
    /\ UNCHANGED <<config, now, cache>>

Tick ==
    /\ now < MaxTime /\ now' = now + 1
    /\ UNCHANGED <<config, cache, conn>>

-----------------------------------------------------------------------------
\* What the resolver may answer: nothing, one address or two.
Answers == {<<>>} \cup {<<a>> : a \in Addr} \cup {<<a, b>> : a, b \in Addr}

Own(c) == Route(c) \/ LookUp(c) \/ Mint(c) \/ Put(c)
Resolve(c) == \E answer \in Answers : ResolveTunnel(c, answer) \/ ResolveRequest(c, answer)
Request(c) == \E r \in Offers[c] : ConnectRequest(c, r) \/ Serve(c, r)

Next ==
    \/ \E c \in Conn :
         \/ Accept(c) \/ Request(c) \/ Respond(c) \/ RequestFails(c)
         \/ Own(c) \/ MintFails(c) \/ Handshake(c) \/ ClientCloses(c)
         \/ Resolve(c)
         \/ Connect(c) \/ ConnectFails(c) \/ CopyEnds(c)
    \/ Tick

\* The task's own steps, the resolver's answer and the timeouts.  Nothing is assumed
\* of clients and upstreams.
Fairness ==
    \A c \in Conn :
        /\ WF_vars(Own(c)) /\ WF_vars(Resolve(c))
        /\ WF_vars(ConnectFails(c)) /\ WF_vars(RequestFails(c))

Spec == Init /\ [][Next]_vars /\ Fairness

-----------------------------------------------------------------------------
TypeOK ==
    /\ config \in Configs /\ now \in Nat
    /\ cache \in Seq(Leaf) /\ Len(cache) <= Capacity
    /\ conn \in [Conn -> [phase: Phase, target: Destination \cup {None},
                          request: RequestType \cup {None},
                          dial: Destination \cup {None},
                          addr: Addr \cup {None}, leaf: Leaf \cup {None}, read: Nat]]

\* The address a filter is about: where a connection to it ends up, by class.
Blocked(ip) ==
    LET to == [form |-> IF ip.form = "v6" THEN "v6" ELSE "v4", class |-> ip.class] IN
    /\ to \notin config.filter.allowed_cidrs
    /\ \/ to.class = "loopback" /\ config.filter.block_loopback
       \/ to.class = "private" /\ config.filter.block_private
       \/ to.class = "link_local" /\ config.filter.block_link_local
       \/ to.class = "reserved"
       \/ to \in config.filter.blocked_cidrs

\* No connection is made, by a tunnel or for an intercepted request, to an address
\* that leads where the filter forbids it, whatever the resolver answers, however
\* often it changes its mind, and however the address is written.
ConnectsVetted == \A c \in Conn : conn[c].addr # None => ~Blocked(conn[c].addr)

\* An intercepted client is shown a leaf for the host it asked for, whoever else
\* looks up, mints and evicts leaves at the time; and one that has not expired, be it
\* from the cache or new, and however late it was put there, if it shakes hands
\* within the margin of the lookup.
LeafServes ==
    \A c \in Conn : conn[c].phase = "handshaking" =>
        /\ conn[c].leaf # None /\ conn[c].leaf.host = conn[c].target.host
        /\ now - conn[c].read <= Margin => now < conn[c].leaf.not_after

\* The token a connection to an upstream is owed to.
Pass(c) == IF conn[c].phase \in {"forwarding", "sent"} THEN conn[c].request.token
           ELSE ConnectToken(conn[c].request)

\* Whoever is dialled under a token, for a tunnel, a request or a request inside an
\* intercepted stream, is a host the token allows, and on the port it names, if it
\* names one; without a token it is one the static policy lists, if it has a list,
\* and does not block on all ports.  The code decides on the authority the client
\* wrote and dials one with the port that is implied.
DialsWhereAllowed ==
    \A c \in Conn : conn[c].dial # None =>
        LET d == conn[c].dial
            policy == config.host_policy
        IN IF Pass(c) # None
           THEN LET p == Payload[Pass(c)] IN
                \/ d.host \in UNION p.host_pattern
                \/ \E e \in p.allowed_hosts : e.host = d.host /\ e.port \in {NoPort, d.port}
           ELSE /\ config.token_optional
                /\ policy.allowed_hosts # {} =>
                       \E e \in policy.allowed_hosts : e.host = d.host /\ e.port \in {NoPort, d.port}
                /\ [host |-> d.host, port |-> NoPort] \notin policy.blocked_hosts

\* What is dialled under a token that is bound to a client is dialled for that client:
\* it has shown the certificate on its own connection, be the request inside a CONNECT
\* or not, or knows the key.
DialsForBoundClient ==
    \A c \in Conn : conn[c].dial # None /\ Pass(c) # None =>
        LET auth == Payload[Pass(c)].auth IN
        /\ auth.type = "mutual_tls" =>
               /\ config.client_auth \in {"optional", "required"}
               /\ Cert[c] # None /\ Cert[c].signed
               /\ Cert[c].fingerprint = auth.cert_fingerprint
        /\ auth.type = "api_key" =>
               Last(conn[c].request.headers[auth.header_name]) = Last(auth.key)

\* A request inside an intercepted stream goes to the host of its CONNECT, which the
\* CONNECT's own admission vetted, whatever its request line and Host header say, and
\* to the same port, but for a token that asks for plain HTTP: with the port left out
\* of the authority, 443 becomes 80.
InnerStaysOnTarget ==
    \A c \in Conn : conn[c].target # None /\ conn[c].dial # None =>
        /\ conn[c].dial.host = conn[c].target.host
        /\ \/ conn[c].dial.port = conn[c].target.port
           \/ /\ conn[c].target.port = 443 /\ conn[c].dial.port = 80
              /\ UpstreamScheme(conn[c].request) = "http"

\* Every CONNECT is soon intercepted, connected or closed and every request that was
\* let through is soon answered or given up, whoever does not answer.
StreamSettles ==
    \A c \in Conn :
        conn[c].phase \in {"upgraded", "forwarding"}
            ~> conn[c].phase \in {"open", "handshaking", "serving", "copying", "closed"}
=============================================================================
