-------------------------------- MODULE Sso --------------------------------
(***************************************************************************)
(* The SSO service between browsers and OAuth providers.  It keeps no      *)
(* state: a transaction lives in one signed cookie of the browser, which   *)
(* every `start` overwrites, a grant lives at the provider, a refresh      *)
(* token in the sealed token the client was given.  A callback is a URL:   *)
(* any browser can send any path, state and code, those of different       *)
(* flows too, late, twice or concurrently.                                 *)
(***************************************************************************)
EXTENDS Integers, FiniteSets

CONSTANTS
    Browser, Provider,
    Flow,       \* nonces; each stands for one transaction, its verifier and its code
    Callback,   \* callback requests (bound)
    Refresh,    \* refresh requests (bound)
    None,
    Pkce,       \* the providers that are used with PKCE
    Rotating,   \* the providers that replace a refresh token when it is used
    Ttl,        \* cookie.ttl_seconds
    MaxTime,    \* bound on the clock
    MaxRestarts \* bound on restarts with another cookie key

Transaction ==
    [nonce: Flow, provider_id: Provider, verifier: Flow \cup {None},
     client_redirect: BOOLEAN, expires_at: Nat, signed: BOOLEAN]
Authorization == [browser: Browser, provider: Provider]

ASSUME SsoAssumption ==
    /\ None \notin Browser \cup Provider \cup Flow \cup Nat \cup Transaction \cup Authorization
    /\ Pkce \subseteq Provider /\ Rotating \subseteq Provider
    /\ Ttl \in Nat /\ MaxTime \in Nat /\ MaxRestarts \in Nat

VARIABLES
    now,       \* wall clock, in seconds
    restarts,
    jar,       \* Browser -> the transaction cookie, or None
    started,   \* history: Flow -> [browser, provider], or None
    issued,    \* providers: the flows a code was issued for
    redeemed,  \* providers: the flows whose code was redeemed
    current,   \* providers: Flow -> the refresh token in force, a number, or None
    callback,  \* Callback -> request
    refresh,   \* Refresh -> request
    held,      \* the sealed tokens that clients were given
    lost       \* history: flows of which a provider's answer was lost

provider == <<issued, redeemed, current>>
clients == <<jar, started, held>>
vars == <<now, restarts, provider, clients, callback, refresh, lost>>

\* The path of a callback and its query parameters, each there or not.
CallbackParams ==
    [provider: Provider, state: Flow \cup {None}, code: Flow \cup {None}, error: BOOLEAN]

\* A sealed token: the flow whose grant it holds, and the state it was sealed for.
Sealed == [holder: Browser, flow: Flow, state: Flow, refresh: Nat \cup {None}]

Idle == [phase |-> "idle"]
Answered == [phase |-> "answered"]
Over == [phase |-> "over"]  \* dropped: there was no answer

Init ==
    /\ now = 0 /\ restarts = 0
    /\ jar = [b \in Browser |-> None] /\ started = [f \in Flow |-> None] /\ held = {}
    /\ issued = {} /\ redeemed = {} /\ current = [f \in Flow |-> None]
    /\ callback = [q \in Callback |-> Idle] /\ refresh = [r \in Refresh |-> Idle]
    /\ lost = {}

-----------------------------------------------------------------------------
(* start                                                                   *)

\* handle_start for a configured provider: a fresh nonce, a verifier with PKCE,
\* and a Set-Cookie that replaces the cookie of an earlier flow.  `r`: the client
\* gave a redirect_uri, and it is a URL; neither is looked at here.
Start(b, f, p, r) ==
    /\ started[f] = None
    /\ started' = [started EXCEPT ![f] = [browser |-> b, provider |-> p]]
    /\ jar' = [jar EXCEPT ![b] =
         [nonce |-> f, provider_id |-> p, verifier |-> IF p \in Pkce THEN f ELSE None,
          client_redirect |-> r, expires_at |-> now + Ttl, signed |-> TRUE]]
    /\ UNCHANGED <<now, restarts, provider, held, callback, refresh, lost>>

-----------------------------------------------------------------------------
(* The provider                                                            *)

\* The user agrees, once, and a code is issued.  (One who does not is a callback
\* with an error.)
Consent(f) ==
    /\ started[f] # None /\ f \notin issued
    /\ issued' = issued \cup {f}
    /\ UNCHANGED <<now, restarts, redeemed, current, clients, callback, refresh, lost>>

\* The token endpoint redeems a code of its own once, with PKCE for the verifier of
\* the flow it was issued to, and may or may not add a refresh token.
Redeems(c) ==
    LET f == c.params.code IN
    /\ f \in issued \ redeemed /\ c.params.provider = started[f].provider
    /\ c.params.provider \in Pkce => c.cookie.verifier = f

Redeem(q, gives) ==
    LET f == callback[q].params.code IN
    /\ callback[q].phase = "exchanging" /\ Redeems(callback[q])
    /\ redeemed' = redeemed \cup {f}
    /\ current' = [current EXCEPT ![f] = IF gives THEN 0 ELSE None]
    /\ callback' = [callback EXCEPT ![q].phase = "redeemed"]
    /\ UNCHANGED <<now, restarts, issued, clients, refresh, lost>>

\* The refresh grant: the token in force is accepted, where it was issued.
Renews(r) ==
    LET t == refresh[r].token IN
    /\ refresh[r].provider = started[t.flow].provider
    /\ t.refresh = current[t.flow]

Renew(r) ==
    LET f == refresh[r].token.flow
        new == IF refresh[r].provider \in Rotating THEN current[f] + 1 ELSE None IN
    /\ refresh[r].phase = "exchanging" /\ Renews(r)
    /\ current' = [current EXCEPT ![f] = IF new = None THEN @ ELSE new]
    /\ refresh' = [refresh EXCEPT ![r].phase = "redeemed", ![r].new = new]
    /\ UNCHANGED <<now, restarts, issued, redeemed, clients, callback, lost>>

-----------------------------------------------------------------------------
(* callback                                                                *)

\* A browser sends a callback, with the cookie it has.
Follow(q, b, params) ==
    /\ callback[q].phase = "idle"
    /\ callback' = [callback EXCEPT ![q] =
         [phase |-> "received", browser |-> b, params |-> params, cookie |-> jar[b]]]
    /\ UNCHANGED <<now, restarts, provider, clients, refresh, lost>>

\* What it can send: a nonce or a code that exists, or none.  Next to an error the
\* rest is not looked at.
Sendable ==
    LET nonces == {f \in Flow : started[f] # None} IN
    {p \in [provider: Provider, state: nonces \cup {None}, code: issued \cup {None},
            error: BOOLEAN] : p.error => p.state = None /\ p.code = None}

\* extract_from_cookie_header: there is a cookie, its signature is the key's in use, and
\* it has not expired.
Decodes(cookie) == cookie # None /\ cookie.signed /\ now < cookie.expires_at

\* Mutant: the state parameter is not compared with the nonce.
AcceptsAnyState(c) ==
    /\ ~c.params.error
    /\ Decodes(c.cookie)
    /\ c.cookie.provider_id = c.params.provider
    /\ c.params.state # None /\ c.params.code # None

\* The checks of handle_callback, in their order: no error from the provider, a
\* cookie that decodes, the provider, the nonce.  Of the code it is checked that there
\* is one.
Accepts(c) ==
    /\ ~c.params.error
    /\ Decodes(c.cookie)
    /\ c.cookie.provider_id = c.params.provider
    /\ c.params.state # None /\ c.cookie.nonce = c.params.state
    /\ c.params.code # None

\* They do not await.  An error response has no Set-Cookie.
Verify(q) ==
    /\ callback[q].phase = "received"
    /\ callback' = IF Accepts(callback[q]) THEN [callback EXCEPT ![q].phase = "exchanging"]
                   ELSE [callback EXCEPT ![q] = Answered]
    /\ UNCHANGED <<now, restarts, provider, clients, refresh, lost>>

\* exchange_code fails: the provider refuses, cannot be reached, or answers with
\* something else.
ExchangeFails(q) ==
    /\ callback[q].phase = "exchanging"
    /\ callback' = [callback EXCEPT ![q] = Answered]
    /\ UNCHANGED <<now, restarts, provider, clients, refresh, lost>>

\* seal_oauth_token, with the refresh token of the answer if there is one.
SealOauthToken(c) ==
    [holder |-> c.browser, flow |-> c.params.code, state |-> c.params.state,
     refresh |-> current[c.params.code]]

\* build_redirect_url succeeds: the client gave a redirect, and it is a URL.
Redirects(c) == c.cookie.client_redirect

\* Mutant: the transaction cookie is left in the browser.
CompleteKeepsCookie(q) ==
    LET c == callback[q] IN
    /\ c.phase = "redeemed"
    /\ callback' = [callback EXCEPT ![q] = Answered]
    /\ IF Redirects(c)
       THEN /\ held' = held \cup {SealOauthToken(c)}
            /\ UNCHANGED lost
       ELSE lost' = lost \cup {c.params.code} /\ UNCHANGED held
    /\ UNCHANGED <<now, restarts, provider, jar, started, refresh>>

\* The tokens arrive and are sealed.  Only now it is seen that the client left no
\* redirect, or one that is no URL.  The response clears the cookie the browser
\* has by then, whichever flow that belongs to.
Complete(q) ==
    LET c == callback[q] IN
    /\ c.phase = "redeemed"
    /\ callback' = [callback EXCEPT ![q] = Answered]
    /\ IF Redirects(c)
       THEN /\ held' = held \cup {SealOauthToken(c)}
            /\ jar' = [jar EXCEPT ![c.browser] = None]
            /\ UNCHANGED lost
       ELSE lost' = lost \cup {c.params.code} /\ UNCHANGED <<held, jar>>
    /\ UNCHANGED <<now, restarts, provider, started, refresh>>

\* reqwest gives up after 30 seconds, the code may have been redeemed.
Timeout(q) ==
    /\ callback[q].phase \in {"exchanging", "redeemed"}
    /\ callback' = [callback EXCEPT ![q] = Answered]
    /\ lost' = IF callback[q].phase = "redeemed"
               THEN lost \cup {callback[q].params.code} ELSE lost
    /\ UNCHANGED <<now, restarts, provider, clients, refresh>>

\* The browser goes away and the handler's future is dropped where it awaits.
Leave(q) ==
    /\ callback[q].phase \in {"exchanging", "redeemed"}
    /\ callback' = [callback EXCEPT ![q] = Over]
    /\ lost' = IF callback[q].phase = "redeemed"
               THEN lost \cup {callback[q].params.code} ELSE lost
    /\ UNCHANGED <<now, restarts, provider, clients, refresh>>

-----------------------------------------------------------------------------
(* refresh                                                                 *)

\* Mutant: extract_refresh_token takes what there is.
RefreshUnchecked(r, t, p) ==
    /\ refresh[r].phase = "idle"
    /\ refresh' = [refresh EXCEPT ![r] =
         [phase |-> "exchanging", token |-> t, provider |-> p, new |-> None]]
    /\ UNCHANGED <<now, restarts, provider, clients, callback, lost>>

\* handle_refresh for a configured provider, with a sealed token the client holds:
\* one without a refresh token is an error.  The provider is the one in the path.
StartRefresh(r, t, p) ==
    /\ refresh[r].phase = "idle"
    /\ refresh' = [refresh EXCEPT ![r] =
         IF t.refresh = None THEN Over
         ELSE [phase |-> "exchanging", token |-> t, provider |-> p, new |-> None]]
    /\ UNCHANGED <<now, restarts, provider, clients, callback, lost>>

\* refresh_tokens fails, or gives up, or the client goes away.
RefreshFails(r) ==
    /\ refresh[r].phase \in {"exchanging", "redeemed"}
    /\ refresh' = [refresh EXCEPT ![r] = Over]
    /\ lost' = IF refresh[r].phase = "redeemed"
               THEN lost \cup {refresh[r].token.flow} ELSE lost
    /\ UNCHANGED <<now, restarts, provider, clients, callback>>

\* Mutant: the refresh token of the old sealed token goes into the new one.
SealOldToken(r) == [refresh[r].token EXCEPT !.refresh = refresh[r].token.refresh]

\* seal_refreshed_token: the refresh token of the answer, none if it has none.
SealRefreshed(r) == [refresh[r].token EXCEPT !.refresh = refresh[r].new]

CompleteRefresh(r) ==
    /\ refresh[r].phase = "redeemed"
    /\ refresh' = [refresh EXCEPT ![r] = Over]
    /\ held' = held \cup {SealRefreshed(r)}
    /\ UNCHANGED <<now, restarts, provider, jar, started, callback, lost>>

-----------------------------------------------------------------------------
\* The service is restarted with another cookie key: what it was doing is lost, and
\* no cookie it has given out decodes any more.
Restart ==
    /\ restarts < MaxRestarts /\ restarts' = restarts + 1
    /\ jar' = [b \in Browser |->
                 IF jar[b] = None THEN None ELSE [jar[b] EXCEPT !.signed = FALSE]]
    /\ callback' = [q \in Callback |->
         IF callback[q].phase \in {"received", "exchanging", "redeemed"}
         THEN Over ELSE callback[q]]
    /\ refresh' = [r \in Refresh |->
         IF refresh[r].phase \in {"exchanging", "redeemed"}
         THEN Over ELSE refresh[r]]
    /\ lost' = lost \cup {callback[q].params.code :
                            q \in {x \in Callback : callback[x].phase = "redeemed"}}
                    \cup {refresh[r].token.flow :
                            r \in {x \in Refresh : refresh[x].phase = "redeemed"}}
    /\ UNCHANGED <<now, provider, started, held>>

Tick ==
    /\ now < MaxTime /\ now' = now + 1
    /\ UNCHANGED <<restarts, provider, clients, callback, refresh, lost>>

Next ==
    \/ \E b \in Browser, f \in Flow, p \in Provider, r \in BOOLEAN : Start(b, f, p, r)
    \/ \E f \in Flow : Consent(f)
    \/ \E q \in Callback :
         \/ \E b \in Browser, params \in Sendable : Follow(q, b, params)
         \/ \E gives \in BOOLEAN : Redeem(q, gives)
         \/ Verify(q) \/ ExchangeFails(q) \/ Complete(q) \/ Timeout(q) \/ Leave(q)
    \/ \E r \in Refresh :
         \/ \E t \in held, p \in Provider : StartRefresh(r, t, p)
         \/ Renew(r) \/ RefreshFails(r) \/ CompleteRefresh(r)
    \/ Restart \/ Tick

Spec == Init /\ [][Next]_vars

-----------------------------------------------------------------------------
TypeOK ==
    /\ now \in Nat /\ restarts \in Nat
    /\ jar \in [Browser -> Transaction \cup {None}]
    /\ started \in [Flow -> Authorization \cup {None}]
    /\ issued \subseteq Flow /\ redeemed \subseteq Flow /\ lost \subseteq Flow
    /\ current \in [Flow -> Nat \cup {None}]
    /\ callback \in [Callback -> {Idle, Answered, Over} \cup
         [phase: {"received"}, browser: Browser, params: CallbackParams,
          cookie: Transaction \cup {None}] \cup
         [phase: {"exchanging", "redeemed"}, browser: Browser,
          params: {p \in CallbackParams : p.state # None /\ p.code # None},
          cookie: Transaction]]
    /\ refresh \in [Refresh -> {Idle, Over} \cup
         [phase: {"exchanging", "redeemed"}, token: {t \in Sealed : t.refresh # None},
          provider: Provider, new: Nat \cup {None}]]
    /\ held \subseteq Sealed

\* handle_callback seals tokens only for a browser that started the transaction
\* whose state came back, and for a grant of that transaction's provider, whatever
\* callbacks browsers put together, when and how often; and refreshing leads to no
\* one else.  With PKCE the grant is that of the transaction itself: it reaches the
\* browser that asked for it and no other.  (Without, nothing ties a code to a state:
\* a browser that learns another's code is given that grant in a flow of its own.)
DeliveredToStarter ==
    \A t \in held :
        /\ started[t.state] # None /\ started[t.state].browser = t.holder
        /\ started[t.flow] # None /\ started[t.flow].provider = started[t.state].provider
        /\ started[t.flow].provider \in Pkce => t.flow = t.state

\* A flow that was completed leaves no cookie behind, in whatever order the flows
\* of a browser start and end.
CompletedFlowForgotten ==
    \A t \in held, b \in Browser : jar[b] # None => jar[b].nonce # t.state

\* The refresh token in force is never dropped by the service: unless an answer of
\* the provider was lost, it is in a sealed token that a client has, or on its way
\* into one, however many refreshes run at the same time.
RefreshTokenKept ==
    \A f \in Flow : current[f] # None /\ f \notin lost =>
        \/ \E t \in held : t.flow = f /\ t.refresh = current[f]
        \/ \E q \in Callback : callback[q].phase = "redeemed" /\ callback[q].params.code = f
        \/ \E r \in Refresh : /\ refresh[r].phase = "redeemed"
                              /\ refresh[r].token.flow = f /\ refresh[r].new = current[f]
=============================================================================
