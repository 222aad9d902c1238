------------------------------ MODULE SsoProofs ------------------------------
(***************************************************************************)
(* The SSO service delivers tokens to the browser that asked for them, for *)
(* any number of browsers, providers, flows, callbacks, refreshes and      *)
(* restarts, although it keeps no state of its own.                        *)
(***************************************************************************)
EXTENDS Sso, TLAPS

InFlight == {"received", "exchanging", "redeemed"}
Exchanging == {"exchanging", "redeemed"}

\* A cookie tells the truth about a flow: who started it and where, and with PKCE
\* it has the verifier of that flow and no other.
BelongsTo(cookie, b) ==
    /\ started[cookie.nonce] = [browser |-> b, provider |-> cookie.provider_id]
    /\ cookie.provider_id \in Pkce => cookie.verifier = cookie.nonce

\* That of a browser, and the copy a callback arrived with, is of a flow this
\* browser started.
CookieInv ==
    /\ \A b \in Browser : jar[b] # None => BelongsTo(jar[b], b)
    /\ \A q \in Callback : callback[q].phase \in InFlight /\ callback[q].cookie # None =>
          BelongsTo(callback[q].cookie, callback[q].browser)

\* A code is that of some flow.
CodeInv == \A f \in issued : started[f] # None

\* What handle_callback compared before it asks the provider for tokens.
Checked(c) ==
    c.cookie.nonce = c.params.state /\ c.cookie.provider_id = c.params.provider

\* What the provider compared before it gave them: of the code, not of the state.
Granted(c) ==
    /\ c.params.code \in issued /\ c.params.provider = started[c.params.code].provider
    /\ c.params.provider \in Pkce => c.cookie.verifier = c.params.code

CallbackInv ==
    \A q \in Callback :
        /\ callback[q].phase \in Exchanging => Checked(callback[q])
        /\ callback[q].phase = "redeemed" => Granted(callback[q])

\* What is refreshed is a token that was delivered.
RefreshInv ==
    \A r \in Refresh : refresh[r].phase \in Exchanging => refresh[r].token \in held

IndInv ==
    /\ TypeOK /\ CookieInv /\ CodeInv /\ CallbackInv /\ RefreshInv
    /\ DeliveredToStarter /\ CompletedFlowForgotten

\* What a callback and a refresh request hold while they run.
ReceivedRequest ==
    [phase: {"received"}, browser: Browser, params: CallbackParams,
     cookie: Transaction \cup {None}]
CheckedRequest ==
    [phase: Exchanging, browser: Browser,
     params: {p \in CallbackParams : p.state # None /\ p.code # None}, cookie: Transaction]
CallbackRequest == {Idle, Answered, Over} \cup ReceivedRequest \cup CheckedRequest
RefreshRequest ==
    [phase: {"exchanging", "redeemed"}, token: {t \in Sealed : t.refresh # None},
     provider: Provider, new: Nat \cup {None}]

-----------------------------------------------------------------------------
(* Types                                                                   *)

LEMMA CallbackType ==
    ASSUME TypeOK, NEW q \in Callback
    PROVE  /\ callback[q].phase = "received" => callback[q] \in ReceivedRequest
           /\ callback[q].phase \in Exchanging => callback[q] \in CheckedRequest
  BY DEF TypeOK, Exchanging, Idle, Answered, Over, ReceivedRequest, CheckedRequest

LEMMA RefreshType ==
    ASSUME TypeOK, NEW r \in Refresh, refresh[r].phase \in Exchanging
    PROVE  refresh[r] \in RefreshRequest
  BY DEF TypeOK, Exchanging, Idle, Over, RefreshRequest

LEMMA InitType == Init => TypeOK
  BY SsoAssumption DEF Init, TypeOK

\* A request whose phase moves on is still one.
LEMMA PhaseMoves ==
    ASSUME TypeOK, NEW q \in Callback, callback[q] \in CheckedRequest,
           NEW p \in Exchanging, callback' = [callback EXCEPT ![q].phase = p]
    PROVE  /\ callback' = [callback EXCEPT ![q] = [callback[q] EXCEPT !.phase = p]]
           /\ [callback[q] EXCEPT !.phase = p] \in CheckedRequest
  BY DEF TypeOK, CheckedRequest

LEMMA NextType == TypeOK /\ [Next]_vars => TypeOK'
  <1> SUFFICES ASSUME TypeOK, [Next]_vars PROVE TypeOK'
    OBVIOUS
  <1> USE SsoAssumption DEF provider, clients
  <1>t. /\ callback \in [Callback -> CallbackRequest]
        /\ refresh \in [Refresh -> {Idle, Over} \cup RefreshRequest]
    BY DEF TypeOK, CallbackRequest, ReceivedRequest, CheckedRequest, Exchanging, RefreshRequest
  <1>u. ASSUME callback' \in [Callback -> CallbackRequest]
        PROVE  callback' \in [Callback -> {Idle, Answered, Over} \cup
                 [phase: {"received"}, browser: Browser, params: CallbackParams,
                  cookie: Transaction \cup {None}] \cup
                 [phase: {"exchanging", "redeemed"}, browser: Browser,
                  params: {p \in CallbackParams : p.state # None /\ p.code # None},
                  cookie: Transaction]]
    BY <1>u DEF CallbackRequest, ReceivedRequest, CheckedRequest, Exchanging
  <1>1. ASSUME NEW b \in Browser, NEW f \in Flow, NEW p \in Provider, NEW r \in BOOLEAN,
               Start(b, f, p, r)
        PROVE  TypeOK'
    <2>1. jar' \in [Browser -> Transaction \cup {None}]
      BY <1>1 DEF Start, TypeOK, Transaction
    <2>2. started' \in [Flow -> Authorization \cup {None}]
      BY <1>1 DEF Start, TypeOK, Authorization
    <2> QED BY <1>1, <2>1, <2>2 DEF Start, TypeOK
  <1>2. ASSUME NEW f \in Flow, Consent(f) PROVE TypeOK'
    BY <1>2 DEF Consent, TypeOK
  <1>3. ASSUME NEW q \in Callback, NEW b \in Browser, NEW params \in Sendable,
               Follow(q, b, params)
        PROVE  TypeOK'
    <2>1. params \in CallbackParams
      BY DEF TypeOK, Sendable, CallbackParams
    <2>2. callback' \in [Callback -> CallbackRequest]
      BY <1>3, <1>t, <2>1 DEF Follow, TypeOK, CallbackRequest, ReceivedRequest
    <2> QED BY <1>3, <1>u, <2>2 DEF Follow, TypeOK
  <1>4. ASSUME NEW q \in Callback, NEW g \in BOOLEAN, Redeem(q, g) PROVE TypeOK'
    <2>1. callback[q] \in CheckedRequest
      BY <1>4, CallbackType DEF Redeem, Exchanging
    <2>2. callback' \in [Callback -> CallbackRequest]
      BY <1>4, <1>t, <2>1, PhaseMoves DEF Redeem, Exchanging, CallbackRequest
    <2>3. callback[q].params.code \in Flow
      BY <2>1 DEF CheckedRequest, CallbackParams
    <2>4. redeemed' \subseteq Flow /\ current' \in [Flow -> Nat \cup {None}]
      BY <1>4, <2>3 DEF Redeem, TypeOK
    <2> QED BY <1>4, <1>u, <2>2, <2>4 DEF Redeem, TypeOK
  <1>5. ASSUME NEW q \in Callback, Verify(q) PROVE TypeOK'
    <2>1. callback' \in [Callback -> CallbackRequest]
      <3>1. CASE Accepts(callback[q])
        <4>1. callback[q] \in ReceivedRequest
          BY <1>5, CallbackType DEF Verify
        <4>2. callback' = [callback EXCEPT ![q] = [callback[q] EXCEPT !.phase = "exchanging"]]
          BY <1>5, <1>t, <3>1 DEF Verify
        <4>3. [callback[q] EXCEPT !.phase = "exchanging"] \in CheckedRequest
          BY <3>1, <4>1 DEF Accepts, Decodes, ReceivedRequest, CheckedRequest, Exchanging
        <4> QED BY <1>t, <4>2, <4>3 DEF CallbackRequest
      <3>2. CASE ~Accepts(callback[q])
        BY <1>5, <1>t, <3>2 DEF Verify, CallbackRequest
      <3> QED BY <3>1, <3>2
    <2> QED BY <1>5, <1>u, <2>1 DEF Verify, TypeOK
  <1>6. ASSUME NEW q \in Callback, ExchangeFails(q) PROVE TypeOK'
    <2>1. callback' \in [Callback -> CallbackRequest]
      BY <1>6, <1>t DEF ExchangeFails, CallbackRequest
    <2> QED BY <1>6, <1>u, <2>1 DEF ExchangeFails, TypeOK
  <1>7. ASSUME NEW q \in Callback, Complete(q) PROVE TypeOK'
    <2>1. callback[q] \in CheckedRequest
      BY <1>7, CallbackType DEF Complete, Exchanging
    <2>2. callback' \in [Callback -> CallbackRequest]
      BY <1>7, <1>t DEF Complete, CallbackRequest
    <2>3. /\ callback[q].params.code \in Flow /\ callback[q].params.state \in Flow
          /\ callback[q].browser \in Browser
      BY <2>1 DEF CheckedRequest, CallbackParams
    <2>4. SealOauthToken(callback[q]) \in Sealed
      BY <2>3 DEF SealOauthToken, Sealed, TypeOK
    <2>5. /\ held' \subseteq Sealed /\ lost' \subseteq Flow
          /\ jar' \in [Browser -> Transaction \cup {None}]
      BY <1>7, <2>3, <2>4 DEF Complete, TypeOK
    <2> QED BY <1>7, <1>u, <2>2, <2>5 DEF Complete, TypeOK
  <1>8. ASSUME NEW q \in Callback, Timeout(q) \/ Leave(q) PROVE TypeOK'
    <2>1. callback[q] \in CheckedRequest
      BY <1>8, CallbackType DEF Timeout, Leave, Exchanging
    <2>2. callback' \in [Callback -> CallbackRequest]
      BY <1>8, <1>t DEF Timeout, Leave, CallbackRequest
    <2>3. lost' \subseteq Flow
      BY <1>8, <2>1 DEF Timeout, Leave, TypeOK, CheckedRequest, CallbackParams
    <2> QED BY <1>8, <1>u, <2>2, <2>3 DEF Timeout, Leave, TypeOK
  <1>9. ASSUME NEW r \in Refresh, NEW t \in held, NEW p \in Provider, StartRefresh(r, t, p)
        PROVE  TypeOK'
    <2>1. t \in Sealed
      BY DEF TypeOK
    <2>2. refresh' \in [Refresh -> {Idle, Over} \cup RefreshRequest]
      BY <1>9, <1>t, <2>1 DEF StartRefresh, RefreshRequest
    <2> QED BY <1>9, <2>2 DEF StartRefresh, TypeOK, RefreshRequest
  <1>10. ASSUME NEW r \in Refresh, Renew(r) PROVE TypeOK'
    <2>1. refresh[r] \in RefreshRequest
      BY <1>10, RefreshType DEF Renew, Exchanging
    <2>2. refresh[r].token.flow \in Flow /\ current[refresh[r].token.flow] \in Nat
      BY <1>10, <2>1 DEF Renew, Renews, RefreshRequest, Sealed, TypeOK
    <2>3. current' \in [Flow -> Nat \cup {None}]
      BY <1>10, <2>2 DEF Renew, TypeOK
    <2>4. refresh' \in [Refresh -> {Idle, Over} \cup RefreshRequest]
      <3> DEFINE n == IF refresh[r].provider \in Rotating
                      THEN current[refresh[r].token.flow] + 1 ELSE None
      <3>0. n \in Nat \cup {None}
        BY <2>2
      <3>1. refresh' = [refresh EXCEPT ![r].phase = "redeemed", ![r].new = n]
        BY <1>10 DEF Renew
      <3> HIDE DEF n
      <3>2. refresh' = [refresh EXCEPT ![r] = [refresh[r] EXCEPT !.phase = "redeemed", !.new = n]]
        BY <3>1, <1>t
      <3>3. [refresh[r] EXCEPT !.phase = "redeemed", !.new = n] \in RefreshRequest
        BY <2>1, <3>0 DEF RefreshRequest
      <3> QED BY <3>2, <3>3, <1>t
    <2> QED BY <1>10, <2>3, <2>4 DEF Renew, TypeOK, RefreshRequest
  <1>11. ASSUME NEW r \in Refresh, RefreshFails(r) \/ CompleteRefresh(r) PROVE TypeOK'
    <2>1. refresh[r] \in RefreshRequest
      BY <1>11, RefreshType DEF RefreshFails, CompleteRefresh, Exchanging
    <2>2. refresh' \in [Refresh -> {Idle, Over} \cup RefreshRequest]
      BY <1>11, <1>t DEF RefreshFails, CompleteRefresh
    <2>3. refresh[r].token.flow \in Flow /\ SealRefreshed(r) \in Sealed
      BY <2>1 DEF RefreshRequest, Sealed, SealRefreshed
    <2> QED BY <1>11, <2>2, <2>3 DEF RefreshFails, CompleteRefresh, TypeOK, RefreshRequest
  <1>12. CASE Restart
    <2>1. jar' \in [Browser -> Transaction \cup {None}]
      <3>1. \A c \in Transaction : [c EXCEPT !.signed = FALSE] \in Transaction
        BY DEF Transaction
      <3> QED BY <1>12, <3>1 DEF Restart, TypeOK
    <2>2. /\ callback' \in [Callback -> CallbackRequest]
          /\ refresh' \in [Refresh -> {Idle, Over} \cup RefreshRequest]
      BY <1>12, <1>t DEF Restart, CallbackRequest
    <2>3. /\ \A q \in Callback : callback[q].phase = "redeemed" => callback[q].params.code \in Flow
          /\ \A r \in Refresh : refresh[r].phase = "redeemed" => refresh[r].token.flow \in Flow
      BY CallbackType, RefreshType DEF Exchanging, CheckedRequest, RefreshRequest,
         CallbackParams, Sealed
    <2>4. lost' \subseteq Flow
      BY <1>12, <2>3 DEF Restart, TypeOK
    <2> QED BY <1>12, <1>u, <2>1, <2>2, <2>4 DEF Restart, TypeOK, RefreshRequest
  <1>13. CASE Tick \/ UNCHANGED vars
    BY <1>13 DEF Tick, vars, TypeOK
  <1> QED
    BY <1>1, <1>2, <1>3, <1>4, <1>5, <1>6, <1>7, <1>8, <1>9, <1>10, <1>11, <1>12, <1>13 DEF Next

\* Cookies, links, requests and sealed tokens are of their types: no request is
\* handled past the point where what it needs is missing.
THEOREM SsoTypeCorrect == Spec => []TypeOK
  BY InitType, NextType, PTL DEF Spec

-----------------------------------------------------------------------------
(* What a step may do                                                      *)

\* Who started a flow does not change, and the tokens given out are not taken back.
LEMMA Grows ==
    ASSUME TypeOK, [Next]_vars
    PROVE  /\ \A f \in Flow : started[f] # None => started'[f] = started[f]
           /\ held \subseteq held'
  BY DEF TypeOK, Next, vars, provider, clients, Start, Consent, Follow, Redeem, Verify,
     ExchangeFails, Complete, Timeout, Leave, StartRefresh, Renew, RefreshFails,
     CompleteRefresh, Restart, Tick

\* A cookie that is in a browser after the step was there before, up to its
\* signature, or is that of a flow the step starts.
LEMMA CookieOrigin ==
    ASSUME TypeOK, [Next]_vars, NEW b \in Browser, jar'[b] # None
    PROVE  \/ /\ jar[b] # None /\ jar'[b].nonce = jar[b].nonce
              /\ jar'[b].provider_id = jar[b].provider_id /\ jar'[b].verifier = jar[b].verifier
           \/ started[jar'[b].nonce] = None /\ BelongsTo(jar[b], b)'
  <1> DEFINE Goal ==
           \/ /\ jar[b] # None /\ jar'[b].nonce = jar[b].nonce
              /\ jar'[b].provider_id = jar[b].provider_id /\ jar'[b].verifier = jar[b].verifier
           \/ started[jar'[b].nonce] = None /\ BelongsTo(jar[b], b)'
  <1> USE DEF provider, clients
  <1>1. ASSUME NEW c \in Browser, NEW f \in Flow, NEW p \in Provider, NEW r \in BOOLEAN,
               Start(c, f, p, r)
        PROVE  Goal
    <2>1. CASE b = c
      BY <1>1, <2>1 DEF Start, TypeOK, BelongsTo
    <2>2. CASE b # c
      BY <1>1, <2>2 DEF Start, TypeOK
    <2> QED BY <2>1, <2>2
  <1>2. ASSUME NEW q \in Callback, Complete(q) PROVE Goal
    BY <1>2 DEF Complete, TypeOK
  <1>3. CASE Restart
    <2>1. jar[b] # None /\ jar'[b] = [jar[b] EXCEPT !.signed = FALSE]
      BY <1>3 DEF Restart
    <2>2. jar[b] \in Transaction
      BY <2>1 DEF TypeOK
    <2> QED BY <2>1, <2>2 DEF Transaction
  <1>4. CASE UNCHANGED jar
    BY <1>4
  <1> QED
    BY <1>1, <1>2, <1>3, <1>4
    DEF Next, vars, Consent, Follow, Redeem, Verify, ExchangeFails, Timeout, Leave,
        StartRefresh, Renew, RefreshFails, CompleteRefresh, Tick

\* A callback that is in flight after the step was so before, with what it has, or
\* just arrived with the cookie of its browser; it reaches the provider only past
\* the comparison of cookie and state, and is answered only past that of the code.
LEMMA CallbackOrigin ==
    ASSUME TypeOK, [Next]_vars, NEW q \in Callback, callback'[q].phase \in InFlight
    PROVE  \/ /\ callback[q].phase \in InFlight
              /\ callback'[q].browser = callback[q].browser
              /\ callback'[q].cookie = callback[q].cookie
              /\ callback'[q].params = callback[q].params
              /\ callback'[q].phase \in Exchanging =>
                    callback[q].phase \in Exchanging \/ Accepts(callback[q])
              /\ callback'[q].phase = "redeemed" =>
                    callback[q].phase = "redeemed" \/ Redeems(callback[q])
           \/ /\ callback'[q].phase = "received"
              /\ callback'[q].browser \in Browser
              /\ callback'[q].cookie = jar[callback'[q].browser]
              /\ jar' = jar
  <1> DEFINE Same(x) == /\ callback'[x].browser = callback[x].browser
                        /\ callback'[x].cookie = callback[x].cookie
                        /\ callback'[x].params = callback[x].params
             Goal == \/ /\ callback[q].phase \in InFlight /\ Same(q)
                        /\ callback'[q].phase \in Exchanging =>
                              callback[q].phase \in Exchanging \/ Accepts(callback[q])
                        /\ callback'[q].phase = "redeemed" =>
                              callback[q].phase = "redeemed" \/ Redeems(callback[q])
                     \/ /\ callback'[q].phase = "received"
                        /\ callback'[q].browser \in Browser
                        /\ callback'[q].cookie = jar[callback'[q].browser]
                        /\ jar' = jar
  <1> USE DEF provider, clients, InFlight, Exchanging
  <1>0. callback'[q] = callback[q] => Goal
    OBVIOUS
  <1>a. ASSUME NEW x \in Callback, NEW p, callback' = [callback EXCEPT ![x].phase = p],
               callback[x].phase \in InFlight
        PROVE  /\ x # q => callback'[q] = callback[q]
               /\ Same(x) /\ callback'[x].phase = p
    <2>1. callback[x] \in ReceivedRequest \/ callback[x] \in CheckedRequest
      BY <1>a, CallbackType
    <2> QED BY <1>a, <2>1 DEF TypeOK, ReceivedRequest, CheckedRequest
  <1>b. ASSUME NEW x \in Callback, NEW c \in {Answered, Over},
               callback' = [callback EXCEPT ![x] = c]
        PROVE  Goal
    BY <1>0, <1>b DEF TypeOK, Answered, Over
  <1>1. ASSUME NEW x \in Callback, NEW b \in Browser, NEW params, Follow(x, b, params)
        PROVE  Goal
    <2>1. CASE x = q
      BY <1>1, <2>1 DEF Follow, TypeOK
    <2>2. CASE x # q
      BY <1>0, <1>1, <2>2 DEF Follow, TypeOK
    <2> QED BY <2>1, <2>2
  <1>2. ASSUME NEW x \in Callback, NEW g \in BOOLEAN, Redeem(x, g) PROVE Goal
    <2>1. /\ callback' = [callback EXCEPT ![x].phase = "redeemed"]
          /\ callback[x].phase = "exchanging" /\ Redeems(callback[x])
      BY <1>2 DEF Redeem
    <2> QED BY <2>1, <1>0, <1>a
  <1>3. ASSUME NEW x \in Callback, Verify(x) PROVE Goal
    <2>1. CASE Accepts(callback[x])
      <3>1. /\ callback' = [callback EXCEPT ![x].phase = "exchanging"]
            /\ callback[x].phase = "received"
        BY <1>3, <2>1 DEF Verify
      <3> QED BY <2>1, <3>1, <1>0, <1>a
    <2>2. CASE ~Accepts(callback[x])
      BY <1>3, <2>2, <1>b DEF Verify
    <2> QED BY <2>1, <2>2
  <1>4. ASSUME NEW x \in Callback, ExchangeFails(x) \/ Complete(x) \/ Timeout(x) \/ Leave(x)
        PROVE  Goal
    BY <1>4, <1>b DEF ExchangeFails, Complete, Timeout, Leave
  <1>5. CASE Restart
    BY <1>5, <1>0 DEF Restart, Over
  <1>6. CASE UNCHANGED callback
    BY <1>6, <1>0
  <1> QED
    BY <1>1, <1>2, <1>3, <1>4, <1>5, <1>6
    DEF Next, vars, Start, Consent, StartRefresh, Renew, RefreshFails, CompleteRefresh, Tick

\* A token that is given out by the step is that of a callback's flow, and the
\* cookie of that browser goes; or a renewed one of a refresh.
LEMMA HeldOrigin ==
    ASSUME TypeOK, [Next]_vars, NEW t \in held', t \notin held
    PROVE  \/ \E q \in Callback :
                /\ callback[q].phase = "redeemed"
                /\ t.holder = callback[q].browser
                /\ t.flow = callback[q].params.code /\ t.state = callback[q].params.state
                /\ jar' = [jar EXCEPT ![callback[q].browser] = None]
           \/ /\ jar' = jar
              /\ \E r \in Refresh :
                   /\ refresh[r].phase = "redeemed"
                   /\ t.holder = refresh[r].token.holder /\ t.flow = refresh[r].token.flow
                   /\ t.state = refresh[r].token.state
  <1> DEFINE Goal ==
           \/ \E q \in Callback :
                /\ callback[q].phase = "redeemed"
                /\ t.holder = callback[q].browser
                /\ t.flow = callback[q].params.code /\ t.state = callback[q].params.state
                /\ jar' = [jar EXCEPT ![callback[q].browser] = None]
           \/ /\ jar' = jar
              /\ \E r \in Refresh :
                   /\ refresh[r].phase = "redeemed"
                   /\ t.holder = refresh[r].token.holder /\ t.flow = refresh[r].token.flow
                   /\ t.state = refresh[r].token.state
  <1> USE DEF provider, clients
  <1>1. ASSUME NEW q \in Callback, Complete(q) PROVE Goal
    BY <1>1 DEF Complete, SealOauthToken
  <1>2. ASSUME NEW r \in Refresh, CompleteRefresh(r) PROVE Goal
    <2>1. refresh[r].phase = "redeemed" /\ t = SealRefreshed(r) /\ jar' = jar
      BY <1>2 DEF CompleteRefresh
    <2>2. refresh[r].token \in Sealed
      BY <2>1, RefreshType DEF Exchanging, RefreshRequest
    <2>3. /\ t.holder = refresh[r].token.holder /\ t.flow = refresh[r].token.flow
          /\ t.state = refresh[r].token.state
      BY <2>1, <2>2 DEF SealRefreshed, Sealed
    <2> QED BY <2>1, <2>3
  <1>3. CASE UNCHANGED held
    BY <1>3
  <1> QED
    BY <1>1, <1>2, <1>3
    DEF Next, vars, Start, Consent, Follow, Redeem, Verify, ExchangeFails, Timeout, Leave,
        StartRefresh, Renew, RefreshFails, Restart, Tick

-----------------------------------------------------------------------------
(* Tokens reach who asked for them                                         *)

LEMMA InitInd == Init => IndInv
  BY InitType DEF Init, IndInv, CookieInv, CodeInv, CallbackInv, RefreshInv,
     DeliveredToStarter, CompletedFlowForgotten, InFlight, Exchanging, Idle

\* What is said of a started flow stays true.
LEMMA Started ==
    ASSUME TypeOK, [Next]_vars, NEW f \in Flow, started[f] # None
    PROVE  started'[f] = started[f] /\ started[f] \in Authorization
  BY Grows DEF TypeOK

\* A cookie that belongs to a browser belongs to it after the step.
LEMMA StillBelongs ==
    ASSUME TypeOK, [Next]_vars, NEW c \in Transaction, NEW b \in Browser, BelongsTo(c, b)
    PROVE  /\ started'[c.nonce] = [browser |-> b, provider |-> c.provider_id]
           /\ c.provider_id \in Pkce => c.verifier = c.nonce
  <1>1. c.nonce \in Flow /\ c.provider_id \in Provider
    BY DEF Transaction
  <1>2. started[c.nonce] # None
    BY <1>1, SsoAssumption DEF BelongsTo, Authorization
  <1> QED BY <1>1, <1>2, Started DEF BelongsTo

LEMMA CookiePreserved == IndInv /\ [Next]_vars => CookieInv'
  <1> SUFFICES ASSUME IndInv, [Next]_vars PROVE CookieInv'
    OBVIOUS
  <1>0. TypeOK /\ CookieInv
    BY DEF IndInv
  <1>1. ASSUME NEW b \in Browser, jar'[b] # None
        PROVE  BelongsTo(jar[b], b)'
    <2>1. CASE /\ jar[b] # None /\ jar'[b].nonce = jar[b].nonce
               /\ jar'[b].provider_id = jar[b].provider_id /\ jar'[b].verifier = jar[b].verifier
      <3>1. jar[b] \in Transaction /\ BelongsTo(jar[b], b)
        BY <1>0, <2>1 DEF TypeOK, CookieInv
      <3> QED BY <1>0, <2>1, <3>1, StillBelongs DEF BelongsTo
    <2> QED BY <1>0, <1>1, <2>1, CookieOrigin
  <1>2. ASSUME NEW q \in Callback, callback'[q].phase \in InFlight, callback'[q].cookie # None
        PROVE  BelongsTo(callback[q].cookie, callback[q].browser)'
    <2>1. CASE /\ callback[q].phase \in InFlight
               /\ callback'[q].browser = callback[q].browser
               /\ callback'[q].cookie = callback[q].cookie
      <3>1. callback[q].cookie \in Transaction /\ callback[q].browser \in Browser
        BY <1>0, <1>2, <2>1, CallbackType DEF InFlight, Exchanging, ReceivedRequest, CheckedRequest
      <3>2. BelongsTo(callback[q].cookie, callback[q].browser)
        BY <1>0, <1>2, <2>1 DEF CookieInv
      <3> QED BY <1>0, <2>1, <3>1, <3>2, StillBelongs DEF BelongsTo
    <2>2. CASE /\ callback'[q].browser \in Browser
               /\ callback'[q].cookie = jar[callback'[q].browser] /\ jar' = jar
      BY <1>1, <1>2, <2>2 DEF BelongsTo
    <2> QED BY <1>0, <1>2, <2>1, <2>2, CallbackOrigin
  <1> QED BY <1>1, <1>2 DEF CookieInv

\* Codes are issued for flows that were started, and stay issued.
LEMMA CodePreserved == IndInv /\ [Next]_vars => CodeInv' /\ issued \subseteq issued'
  <1> SUFFICES ASSUME IndInv, [Next]_vars PROVE CodeInv' /\ issued \subseteq issued'
    OBVIOUS
  <1>0. TypeOK /\ CodeInv
    BY DEF IndInv
  <1>1. /\ issued \subseteq issued'
        /\ \A f \in issued' : f \in Flow /\ (f \in issued \/ started[f] # None)
    BY <1>0 DEF TypeOK, Next, vars, provider, clients, Start, Consent, Follow, Redeem, Verify,
       ExchangeFails, Complete, Timeout, Leave, StartRefresh, Renew, RefreshFails,
       CompleteRefresh, Restart, Tick
  <1> QED BY <1>0, <1>1, Grows DEF CodeInv

\* The comparisons hold from the step that makes them on.
LEMMA CallbackPreserved == IndInv /\ [Next]_vars => CallbackInv'
  <1> SUFFICES ASSUME IndInv, [Next]_vars, NEW q \in Callback, callback'[q].phase \in Exchanging
               PROVE  /\ Checked(callback'[q])
                      /\ callback'[q].phase = "redeemed" => Granted(callback[q])'
    BY DEF CallbackInv, Checked, Exchanging
  <1>0. TypeOK /\ CodeInv /\ CallbackInv /\ issued \subseteq issued'
    BY CodePreserved DEF IndInv
  <1>1. callback'[q].phase \in InFlight /\ callback'[q].phase # "received"
    BY DEF InFlight, Exchanging
  <1>2. /\ callback'[q].cookie = callback[q].cookie /\ callback'[q].params = callback[q].params
        /\ callback[q].phase \in Exchanging \/ Accepts(callback[q])
        /\ callback'[q].phase = "redeemed" =>
              callback[q].phase = "redeemed" \/ Redeems(callback[q])
    BY <1>0, <1>1, CallbackOrigin
  <1>3. Checked(callback'[q])
    BY <1>0, <1>2 DEF CallbackInv, Checked, Accepts, Decodes
  <1>4. ASSUME callback'[q].phase = "redeemed" PROVE Granted(callback[q])'
    <2>1. Granted(callback[q])
      BY <1>0, <1>2, <1>4 DEF CallbackInv, Redeems, Granted
    <2>2. callback[q].params.code \in Flow /\ started[callback[q].params.code] # None
      BY <1>0, <2>1 DEF Granted, CodeInv, TypeOK
    <2> QED BY <1>0, <1>2, <2>1, <2>2, Started DEF Granted
  <1> QED BY <1>3, <1>4

LEMMA RefreshPreserved == IndInv /\ [Next]_vars => RefreshInv'
  <1> SUFFICES ASSUME IndInv, [Next]_vars, NEW r \in Refresh, refresh'[r].phase \in Exchanging
               PROVE  refresh'[r].token \in held'
    BY DEF RefreshInv
  <1> USE DEF provider, clients
  <1>0. TypeOK /\ held \subseteq held'
    BY Grows DEF IndInv
  <1>a. refresh[r].phase \in Exchanging => refresh[r].token \in held
    BY DEF IndInv, RefreshInv
  <1>1. ASSUME NEW x \in Refresh, NEW t \in held, NEW p \in Provider, StartRefresh(x, t, p)
        PROVE  refresh'[r].token \in held'
    BY <1>0, <1>a, <1>1 DEF StartRefresh, TypeOK, Over, Exchanging
  <1>2. ASSUME NEW x \in Refresh, Renew(x) PROVE refresh'[r].token \in held'
    <2>1. CASE x = r
      <3>1. refresh[r].phase \in Exchanging
        BY <1>2, <2>1 DEF Renew, Exchanging
      <3>2. refresh'[r].token = refresh[r].token
        BY <1>0, <1>2, <2>1, <3>1, RefreshType DEF Renew, TypeOK, RefreshRequest
      <3> QED BY <1>0, <1>a, <3>1, <3>2
    <2>2. CASE x # r
      BY <1>0, <1>a, <1>2, <2>2 DEF Renew, TypeOK
    <2> QED BY <2>1, <2>2
  <1>3. ASSUME NEW x \in Refresh, RefreshFails(x) \/ CompleteRefresh(x)
        PROVE  refresh'[r].token \in held'
    BY <1>0, <1>a, <1>3 DEF RefreshFails, CompleteRefresh, TypeOK, Over, Exchanging
  <1>4. CASE Restart
    BY <1>0, <1>a, <1>4 DEF Restart, Over, Exchanging
  <1>5. CASE UNCHANGED refresh
    BY <1>0, <1>a, <1>5
  <1> QED
    BY <1>1, <1>2, <1>3, <1>4, <1>5
    DEF Next, vars, Start, Consent, Follow, Redeem, Verify, ExchangeFails, Complete, Timeout,
        Leave, Tick

\* What a token says of two flows, the one it was sealed for and the one whose
\* grant it holds.
Delivered(holder, state, flow) ==
    /\ started[state] # None /\ started[state].browser = holder
    /\ started[flow] # None /\ started[flow].provider = started[state].provider
    /\ started[flow].provider \in Pkce => flow = state

\* The comparisons of a redeemed callback, cookie with state and code with verifier,
\* are what makes it so.
LEMMA RedeemedDelivers ==
    ASSUME IndInv, NEW q \in Callback, callback[q].phase = "redeemed"
    PROVE  Delivered(callback[q].browser, callback[q].params.state, callback[q].params.code)
  <1>1. callback[q] \in CheckedRequest
    BY CallbackType DEF IndInv, Exchanging
  <1>2. callback[q].cookie \in Transaction /\ callback[q].cookie # None
    BY <1>1, SsoAssumption DEF CheckedRequest
  <1>3. /\ Checked(callback[q]) /\ Granted(callback[q])
        /\ BelongsTo(callback[q].cookie, callback[q].browser)
    BY <1>2 DEF IndInv, CallbackInv, CookieInv, InFlight, Exchanging
  <1>4. started[callback[q].params.state] =
            [browser |-> callback[q].browser, provider |-> callback[q].params.provider]
    BY <1>3 DEF BelongsTo, Checked
  <1>5. started[callback[q].params.state] # None
    BY <1>1, <1>4, SsoAssumption DEF Authorization, CheckedRequest, CallbackParams
  <1>6. started[callback[q].params.code] # None
    BY <1>3 DEF IndInv, CodeInv, Granted
  <1> QED BY <1>3, <1>4, <1>5, <1>6 DEF Delivered, BelongsTo, Checked, Granted

\* A token that is in a client's hands after the step is sealed for a flow its
\* holder started, and no browser has a cookie for that.
LEMMA DeliveryPreserved ==
    IndInv /\ [Next]_vars => DeliveredToStarter' /\ CompletedFlowForgotten'
  <1> SUFFICES ASSUME IndInv, [Next]_vars, NEW t \in held'
               PROVE  /\ Delivered(t.holder, t.state, t.flow)'
                      /\ \A b \in Browser : jar'[b] # None => jar'[b].nonce # t.state
    BY DEF DeliveredToStarter, CompletedFlowForgotten, Delivered
  <1>0. TypeOK /\ TypeOK' /\ CookieInv /\ CookieInv' /\ RefreshInv
    BY NextType, CookiePreserved DEF IndInv
  <1>a. t.state \in Flow /\ t.flow \in Flow /\ t.holder \in Browser
    BY <1>0 DEF TypeOK, Sealed
  <1>b. ASSUME Delivered(t.holder, t.state, t.flow)
        PROVE  Delivered(t.holder, t.state, t.flow)' /\ started'[t.state] = started[t.state]
    <2>1. started'[t.state] = started[t.state] /\ started'[t.flow] = started[t.flow]
      BY <1>0, <1>a, <1>b, Started DEF Delivered
    <2> QED BY <1>b, <2>1 DEF Delivered
  <1>1. ASSUME NEW u \in held, t.flow = u.flow, t.state = u.state, t.holder = u.holder
        PROVE  /\ Delivered(t.holder, t.state, t.flow)'
               /\ \A b \in Browser : jar'[b] # None => jar'[b].nonce # t.state
    <2>1. Delivered(t.holder, t.state, t.flow)
      BY <1>1 DEF IndInv, DeliveredToStarter, Delivered
    <2>2. ASSUME NEW b \in Browser, jar'[b] # None PROVE jar'[b].nonce # t.state
      <3>1. jar[b] # None => jar[b].nonce # t.state
        BY <1>1 DEF IndInv, CompletedFlowForgotten
      <3>2. started[t.state] # None
        BY <2>1 DEF Delivered
      <3> QED BY <1>0, <2>2, <3>1, <3>2, CookieOrigin
    <2> QED BY <1>b, <2>1, <2>2
  <1>2. ASSUME NEW q \in Callback, callback[q].phase = "redeemed", t.holder = callback[q].browser,
               t.flow = callback[q].params.code, t.state = callback[q].params.state,
               jar' = [jar EXCEPT ![callback[q].browser] = None]
        PROVE  /\ Delivered(t.holder, t.state, t.flow)'
               /\ \A b \in Browser : jar'[b] # None => jar'[b].nonce # t.state
    <2>1. Delivered(t.holder, t.state, t.flow)
      BY <1>2, RedeemedDelivers
    <2>2. ASSUME NEW b \in Browser, jar'[b] # None, jar'[b].nonce = t.state PROVE FALSE
      <3>0. started'[jar'[b].nonce] = [browser |-> b, provider |-> jar'[b].provider_id]
        BY <1>0, <2>2 DEF CookieInv, BelongsTo
      <3>1. started'[t.state].browser = b
        BY <2>2, <3>0
      <3>2. b = callback[q].browser
        BY <1>2, <1>b, <2>1, <3>1 DEF Delivered
      <3> QED BY <1>0, <1>2, <2>2, <3>2 DEF TypeOK
    <2> QED BY <1>b, <2>1, <2>2
  <1>3. CASE t \in held
    BY <1>1, <1>3
  <1>4. CASE t \notin held
    <2>1. ASSUME NEW r \in Refresh, refresh[r].phase = "redeemed",
                 t.holder = refresh[r].token.holder, t.flow = refresh[r].token.flow,
                 t.state = refresh[r].token.state
          PROVE  /\ Delivered(t.holder, t.state, t.flow)'
                 /\ \A b \in Browser : jar'[b] # None => jar'[b].nonce # t.state
      <3>1. refresh[r].token \in held
        BY <1>0, <2>1 DEF RefreshInv, Exchanging
      <3> QED BY <1>1, <2>1, <3>1
    <2> QED BY <1>0, <1>2, <1>4, <2>1, HeldOrigin
  <1> QED BY <1>3, <1>4

\* The invariant that follows a flow through cookie, callback, token and refresh:
\* handle_callback ties the cookie to the state and the path, the provider ties the
\* code to the path and, with PKCE, to the cookie.  Only both together tie the code to
\* the state.
THEOREM FlowInvariant == Spec => []IndInv
  <1>1. IndInv /\ [Next]_vars => IndInv'
    BY NextType, CookiePreserved, CodePreserved, CallbackPreserved, RefreshPreserved,
       DeliveryPreserved DEF IndInv
  <1> QED BY InitInd, <1>1, PTL DEF Spec

\* handle_callback and handle_refresh deliver tokens to the browser that started the
\* transaction, for a grant of its provider, and with PKCE for the grant of that
\* transaction only, whatever states and codes browsers put together.
THEOREM TokensReachStarter == Spec => []DeliveredToStarter
  BY FlowInvariant, PTL DEF IndInv

\* A completed flow leaves no transaction cookie behind.
THEOREM CompletedIsForgotten == Spec => []CompletedFlowForgotten
  BY FlowInvariant, PTL DEF IndInv

-----------------------------------------------------------------------------
(* Refresh tokens are not dropped                                          *)

\* Where the refresh token in force may be.
InHand(f) == \E t \in held : t.flow = f /\ t.refresh = current[f]
Arriving(f) ==
    \E q \in Callback : callback[q].phase = "redeemed" /\ callback[q].params.code = f
Rotated(f) ==
    \E r \in Refresh : /\ refresh[r].phase = "redeemed"
                       /\ refresh[r].token.flow = f /\ refresh[r].new = current[f]

LEMMA KeptCases ==
    RefreshTokenKept <=>
        \A f \in Flow : current[f] # None /\ f \notin lost => InHand(f) \/ Arriving(f) \/ Rotated(f)
  BY DEF RefreshTokenKept, InHand, Arriving, Rotated

\* A step on a callback that is not redeemed, before or after, or on one whose flow
\* is lost, hides no refresh token.
LEMMA CallbackKept ==
    ASSUME TypeOK, NEW f \in Flow, NEW q \in Callback, InHand(f) \/ Arriving(f) \/ Rotated(f),
           callback[q].phase # "redeemed" \/ callback[q].params.code # f,
           \A x \in Callback : x # q => callback'[x] = callback[x],
           held \subseteq held', current'[f] = current[f], refresh' = refresh
    PROVE  InHand(f)' \/ Arriving(f)' \/ Rotated(f)'
  BY DEF InHand, Arriving, Rotated

LEMMA RefreshKept ==
    ASSUME TypeOK, NEW f \in Flow, NEW r \in Refresh, InHand(f) \/ Arriving(f) \/ Rotated(f),
           refresh[r].phase # "redeemed" \/ refresh[r].token.flow # f,
           \A x \in Refresh : x # r => refresh'[x] = refresh[x],
           held \subseteq held', current'[f] = current[f], callback' = callback
    PROVE  InHand(f)' \/ Arriving(f)' \/ Rotated(f)'
  BY DEF InHand, Arriving, Rotated

LEMMA KeptPreserved == TypeOK /\ RefreshTokenKept /\ [Next]_vars => RefreshTokenKept'
  <1> SUFFICES ASSUME TypeOK, RefreshTokenKept, [Next]_vars,
                      NEW f \in Flow, current'[f] # None, f \notin lost'
               PROVE  InHand(f)' \/ Arriving(f)' \/ Rotated(f)'
    BY DEF RefreshTokenKept, InHand, Arriving, Rotated
  <1> DEFINE Kept == InHand(f) \/ Arriving(f) \/ Rotated(f)
             Goal == InHand(f)' \/ Arriving(f)' \/ Rotated(f)'
  <1>0. current[f] # None /\ f \notin lost => Kept
    BY KeptCases
  <1> USE DEF provider, clients
  <1>1. ASSUME NEW b \in Browser, NEW g \in Flow, NEW p \in Provider, NEW r \in BOOLEAN,
               Start(b, g, p, r)
        PROVE  Goal
    BY <1>0, <1>1 DEF Start, InHand, Arriving, Rotated
  <1>2. CASE Tick \/ UNCHANGED vars \/ \E g \in Flow : Consent(g)
    BY <1>0, <1>2 DEF Tick, vars, Consent, InHand, Arriving, Rotated
  <1>3. ASSUME NEW q \in Callback, NEW b \in Browser, NEW params, Follow(q, b, params)
        PROVE  Goal
    <2>1. /\ callback[q].phase # "redeemed"
          /\ \A x \in Callback : x # q => callback'[x] = callback[x]
          /\ held' = held /\ current' = current /\ refresh' = refresh /\ lost' = lost
      BY <1>3 DEF Follow, TypeOK
    <2> QED BY <1>0, <2>1, CallbackKept
  <1>4. ASSUME NEW q \in Callback, NEW gives \in BOOLEAN, Redeem(q, gives) PROVE Goal
    <2>1. callback[q] \in CheckedRequest
      BY <1>4, CallbackType DEF Redeem, Exchanging
    <2>2. CASE callback[q].params.code = f
      <3>1. callback'[q].phase = "redeemed" /\ callback'[q].params.code = f
        BY <1>4, <2>1, <2>2 DEF Redeem, TypeOK, CheckedRequest
      <3> QED BY <3>1 DEF Arriving
    <2>3. CASE callback[q].params.code # f
      <3>1. current'[f] = current[f]
        BY <1>4, <2>3 DEF Redeem, TypeOK
      <3>2. /\ \A x \in Callback : x # q => callback'[x] = callback[x]
            /\ held' = held /\ refresh' = refresh /\ lost' = lost
        BY <1>4 DEF Redeem, TypeOK
      <3> QED BY <1>0, <2>3, <3>1, <3>2, CallbackKept
    <2> QED BY <2>2, <2>3
  <1>5. ASSUME NEW q \in Callback, Verify(q) \/ ExchangeFails(q) PROVE Goal
    <2>1. /\ callback[q].phase # "redeemed"
          /\ \A x \in Callback : x # q => callback'[x] = callback[x]
          /\ held' = held /\ current' = current /\ refresh' = refresh /\ lost' = lost
      BY <1>5 DEF Verify, ExchangeFails, TypeOK
    <2> QED BY <1>0, <2>1, CallbackKept
  <1>6. ASSUME NEW q \in Callback, Complete(q) PROVE Goal
    <2>1. /\ \A x \in Callback : x # q => callback'[x] = callback[x]
          /\ held \subseteq held' /\ current' = current /\ refresh' = refresh
          /\ lost \subseteq lost'
      BY <1>6 DEF Complete, TypeOK
    <2>2. CASE callback[q].params.code = f
      <3>1. SealOauthToken(callback[q]) \in held'
        BY <1>6, <2>2 DEF Complete
      <3>2. /\ SealOauthToken(callback[q]).flow = f
            /\ SealOauthToken(callback[q]).refresh = current'[f]
        BY <2>1, <2>2 DEF SealOauthToken
      <3> QED BY <3>1, <3>2 DEF InHand
    <2>3. CASE callback[q].params.code # f
      BY <1>0, <2>1, <2>3, CallbackKept
    <2> QED BY <2>2, <2>3
  <1>7. ASSUME NEW q \in Callback, Timeout(q) \/ Leave(q) PROVE Goal
    <2>1. /\ \A x \in Callback : x # q => callback'[x] = callback[x]
          /\ held' = held /\ current' = current /\ refresh' = refresh
          /\ lost \subseteq lost'
          /\ callback[q].phase # "redeemed" \/ callback[q].params.code # f
      BY <1>7 DEF Timeout, Leave, TypeOK
    <2> QED BY <1>0, <2>1, CallbackKept
  <1>8. ASSUME NEW r \in Refresh, NEW t \in held, NEW p \in Provider, StartRefresh(r, t, p)
        PROVE  Goal
    <2>1. /\ refresh[r].phase # "redeemed"
          /\ \A x \in Refresh : x # r => refresh'[x] = refresh[x]
          /\ held' = held /\ current' = current /\ callback' = callback /\ lost' = lost
      BY <1>8 DEF StartRefresh, TypeOK
    <2> QED BY <1>0, <2>1, RefreshKept
  <1>9. ASSUME NEW r \in Refresh, Renew(r) PROVE Goal
    <2> DEFINE g == refresh[r].token.flow
               n == IF refresh[r].provider \in Rotating THEN current[g] + 1 ELSE None
    <2>1. refresh[r] \in RefreshRequest
      BY <1>9, RefreshType DEF Renew, Exchanging
    <2>2. g \in Flow /\ current[g] \in Nat
      BY <1>9, <2>1 DEF Renew, Renews, RefreshRequest, Sealed, TypeOK
    <2>3. /\ \A x \in Refresh : x # r => refresh'[x] = refresh[x]
          /\ held' = held /\ callback' = callback /\ lost' = lost
          /\ refresh[r].phase # "redeemed"
      BY <1>9 DEF Renew, TypeOK
    <2>4. CASE g = f /\ refresh[r].provider \in Rotating
      <3>1. n = current[g] + 1 /\ n # None
        BY <2>2, <2>4, SsoAssumption
      <3>2. current' = [current EXCEPT ![g] = n]
            /\ refresh' = [refresh EXCEPT ![r].phase = "redeemed", ![r].new = n]
        BY <1>9, <3>1 DEF Renew
      <3> HIDE DEF n
      <3>3. current'[f] = n
        BY <2>2, <2>4, <3>2 DEF TypeOK
      <3>4. refresh'[r].phase = "redeemed" /\ refresh'[r].token.flow = f /\ refresh'[r].new = n
        BY <2>1, <2>4, <3>2 DEF TypeOK, RefreshRequest
      <3> QED BY <3>3, <3>4 DEF Rotated
    <2>5. CASE ~(g = f /\ refresh[r].provider \in Rotating)
      <3>1. current'[f] = current[f]
        BY <1>9, <2>2, <2>5 DEF Renew, TypeOK
      <3> QED BY <1>0, <2>3, <3>1, RefreshKept
    <2> QED BY <2>4, <2>5
  <1>10. ASSUME NEW r \in Refresh, RefreshFails(r) PROVE Goal
    <2>1. /\ \A x \in Refresh : x # r => refresh'[x] = refresh[x]
          /\ held' = held /\ current' = current /\ callback' = callback
          /\ lost \subseteq lost'
          /\ refresh[r].phase # "redeemed" \/ refresh[r].token.flow # f
      BY <1>10 DEF RefreshFails, TypeOK
    <2> QED BY <1>0, <2>1, RefreshKept
  <1>11. ASSUME NEW r \in Refresh, CompleteRefresh(r) PROVE Goal
    <2>1. /\ \A x \in Refresh : x # r => refresh'[x] = refresh[x]
          /\ held \subseteq held' /\ current' = current /\ callback' = callback
          /\ lost' = lost /\ SealRefreshed(r) \in held'
      BY <1>11 DEF CompleteRefresh, TypeOK
    <2>2. CASE refresh[r].token.flow = f /\ refresh[r].new = current[f]
      <3>1. refresh[r] \in RefreshRequest
        BY <1>11, RefreshType DEF CompleteRefresh, Exchanging
      <3>2. SealRefreshed(r).flow = f /\ SealRefreshed(r).refresh = current'[f]
        BY <2>1, <2>2, <3>1 DEF SealRefreshed, RefreshRequest, Sealed
      <3> QED BY <2>1, <3>2 DEF InHand
    <2>3. CASE ~(refresh[r].token.flow = f /\ refresh[r].new = current[f])
      BY <1>0, <2>1, <2>3 DEF InHand, Arriving, Rotated
    <2> QED BY <2>2, <2>3
  <1>12. CASE Restart
    <2>1. held' = held /\ current' = current /\ lost \subseteq lost'
      BY <1>12 DEF Restart
    <2>2. ~Arriving(f) /\ ~Rotated(f)
      BY <1>12 DEF Restart, Arriving, Rotated
    <2> QED BY <1>0, <2>1, <2>2 DEF InHand
  <1> QED
    BY <1>1, <1>2, <1>3, <1>4, <1>5, <1>6, <1>7, <1>8, <1>9, <1>10, <1>11, <1>12 DEF Next

\* Rotation drops no refresh token, however many refreshes of a flow run at once:
\* only an answer that never arrived does.
THEOREM RotationIsSafe == Spec => []RefreshTokenKept
  <1>1. Init => RefreshTokenKept
    BY DEF Init, RefreshTokenKept
  <1> QED BY <1>1, KeptPreserved, SsoTypeCorrect, PTL DEF Spec
=============================================================================
