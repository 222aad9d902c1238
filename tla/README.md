# A TLA+ model of Icebreaker

Icebreaker is a forward proxy that keeps credentials away from the programs that
use them.  A client sends a sealed token instead of a secret; the proxy unseals
it, checks that the client and the request are the ones it was made for, spends
one of its uses, injects the secret, forwards the request and watches the
response for the secret on its way back.  This directory models the parts of it
where concurrency, clocks, chunking and failure make that hard to get right,
checks them with TLC on small instances and proves their safety properties with
TLAPS for all of them.

## Inventory

| Component | State | Operations | Talks to |
|---|---|---|---|
| In-memory nonce store (`icebreaker-nonce/src/store.rs`) | a map from nonce to use count and expiry, behind a write lock | `check_and_record`, `get_use_count`, the cleanup task | called by both entrances, concurrently |
| Redis nonce store (the same file, feature `redis`) | a key per nonce in a Redis that proxies share | `check_and_record`: INCR, EXPIRE, compare | Redis |
| HTTP admission (`admission.rs`, `middleware/token_injection.rs`) | none of its own | `admit`: decrypt, validate, replay check, finalize | unseals with the key store, spends uses in the nonce store, leaves scan patterns for the response |
| CONNECT admission (`tunnel/connect_handler.rs`, `serve/connect.rs`) | none of its own | `validate_connect`, `enforce_replay`, tunnel or interception | the same nonce store and limiter; a guard in the shutdown state |
| Tokens and unsealing (`token.rs`, `sealed_box.rs`) | none | the builder, `seal`, `check_expiration`, `validate_host`, `unseal` | sealed by the command line tool and SSO, read by both entrances |
| Key store (`keypair.rs`) | a primary key and historical ones | `set_primary`, `add_historical`, `find_by_id` | read by unsealing; fixed once the stack is built |
| Response scanning (`middleware/response_scan.rs`, `body/scanning.rs`, `body/overlap_buffer.rs`) | the overlap of a scanner, flags of a body | `scan_chunk`, `poll_frame`, `resolve_encoding` | polled by hyper, polls the decoder |
| Decompression (`body/decompressing.rs`) | bytes decoded so far | `poll_frame` | polls the upstream's body |
| Serving and shutdown (`serve/`, `icebreaker-cli/src/main.rs`) | a flag and a count of connections | accept loop, connection and tunnel tasks, drain loop, health server | everything runs under it |
| Rate limiter (`middleware/rate_limit.rs`) | a map from client to theoretical arrival time | `check` | both entrances |
| Connections (`serve/http.rs`, `serve/proxy_service.rs`, `tls/acceptor.rs`) | the client's identity and, inside an intercepted stream, the CONNECT's authority | handshake, `prepare_request`, the timeout, forwarding | both entrances, the filter |
| Client authentication (`auth_validation.rs`, `auth.rs`) | none | `validate_auth`, the constructors of a token's binding | called by both entrances |
| Host policies (`middleware/host_validation.rs`, `token.rs`) | configuration | `validate`, `validate_host`, `validate_method`, `validate_path` | called by both entrances |
| Interception (`tls/intercept.rs`) | a cache of leaf certificates | `acceptor_for` | CONNECT |
| Network filter (`network/`) | configuration | resolve, validate, connect | forwarding and tunnels |
| Processors (`processor/`) | none | `process`, `process_body`, chains | called by admission's last step |
| Errors and metrics (`error.rs`, `metrics/mod.rs`) | counters | `status_code`, `error_class`, `record_*` | errors pass the layers outwards and are recorded by the outermost |
| SSO service (`icebreaker-sso`) | none; a transaction lives in the browser's cookie | start, callback, refresh | browsers and a provider; makes sealed tokens |

What is hard in it:

* **Replay protection.**  A request reads a clock three times before it holds
  the store's lock, and lets go of the processor between any two of them.
  Requests, CONNECTs and the cleanup task interleave; a request may be cancelled
  at the lock; the lifetime of a token is on the wall clock and the lifetime of
  its nonce on the monotonic one.  It is correct if no live token is granted
  more than its uses, and if the answers tell the client what was spent.
* **Scanning.**  The upstream decides where its body is cut.  It is correct if no
  cut lets a secret through and nothing else is changed or refused.
* **Shutdown.**  The accept loop, the connections, the tunnels and the main task
  share two atomics and nothing else.  It is correct if the count is exact, the
  drain waits for what it should and the process ends.
* **Rate limiting.**  One map of arrival times serves all connections of a client
  and both entrances.  It is correct if no window of time sees more than the rate
  and the burst, and a client that keeps to the rate is served.
* **Connections, tunnels and interception.**  An authority is written by the
  client, vetted in one place, given a port in another and dialled in a third; a
  request inside an intercepted stream writes another one.  A name is resolved,
  vetted and connected to in steps during which it may change; a leaf certificate
  is looked up, minted and cached in steps during which others do the same.  They
  are correct if nothing is dialled that the token or the policy does not allow, or
  for a client the token is not bound to, or at an address the filter forbids, if
  every client sees a valid leaf for the host it asked for, and no request hangs.
* **Exchanges.**  A request passes the limiter, admission, a chain of processors and
  the scanner, each of which may fail, rewrites it or the errors from inside it, and
  is dropped by the timeout at any await.  Tokens are older than the keys of the
  process, or younger.  It is correct if the upstream gets the proxy's credentials
  and no others, what the proxy signed verifies, the secret does not come back in
  another encoding, rotation loses no token, and the metrics tell what happened.
* **Redis.**  Proxies share one Redis and a check is two commands.  It is correct if it
  keeps the promise of the in-memory store, and its keys go.
* **SSO.**  The service has no state; browsers and providers do, and a callback can
  come late, twice, from another browser, and with a state and a code that do not
  belong together.  It is correct if tokens go to the browser that started the
  transaction, a flow that is over leaves nothing behind, and the service does not
  drop the refresh token a session depends on.

`PROJECT.json` lists every hazard at its line with the properties aimed at it.

## Modules

| Module | What it models |
|---|---|
| `NonceStore` | the critical sections of the store, as operators on an entry and on the map |
| `BoundedUse` | the abstract promise: at most `Limit` uses while a token lives |
| `Admission` | both entrances, the store, the cleanup task and the clocks |
| `AdmissionProofs` | the use bound and the refinement, what is let through, what the answers tell |
| `StreamScanner` | the overlap buffer and the scanner, as operators |
| `ResponseScan` | one response: headers, encoding, body, trailers |
| `ResponseScanProofs` | nothing leaks, no false alarm, transparency, clean header blocks |
| `Shutdown` | accept loop, connections, tunnels, drain and exit |
| `ShutdownProofs` | the count is exact, the drain is complete |
| `RateLimiter` | the GCRA map behind its lock, and the clients' keys |
| `RateLimiterProofs` | type correctness, the rate bound, no starvation |
| `IpFilter` | the address filter, as operators on addresses |
| `HostPolicy` | allowlists, blocklists and default ports, as operators on authorities |
| `ClientAuth` | the handshake's policy and the binding of tokens to clients, as operators |
| `Connection` | connections: handshake, requests and their destinations, CONNECTs, leaf cache, resolution |
| `ConnectionProofs` | where, for whom and to what address is dialled; which leaf is shown |
| `Sso` | start, callback and refresh between browsers and providers |
| `SsoProofs` | who gets tokens, what a flow leaves behind, refresh tokens are kept |
| `RedisStore` | `RedisNonceStore` over an external Redis, a second implementation of `BoundedUse` |
| `RedisStoreProofs` | the refinement of `BoundedUse` |
| `Errors` | the errors, their statuses and classes, as operators |
| `Sealing` | the key store, what is sealed, and what unsealing answers, as operators |
| `Processors` | the processors and chains of them, as operators on a request |
| `Exchange` | one HTTP exchange through all layers: keys, token, admission, processors, errors, metrics |
| `ExchangeProofs` | keys, credentials, signatures, scanned secrets and records |
| `MCAdmission`, `MCResponseScan`, `MCRateLimiter`, `MCConnection`, `MCSso`, `MCRedisStore`, `MCExchange` | instances for TLC |

### Admission

A request is a process with a program counter.  `Validate` is everything up to
the replay check: the code does not await in it and shares nothing, so it is one
step; the checks are a sequence of (condition, error) pairs in the order of the
code, and the first that fails decides.  What makes a check fail (a wrong key, a
host that is not allowed) is an input of the request; the expiration is computed.
The errors are those of `Errors`, and a processor that fails ends with one of the
errors processors have (`FinalizeErrors`).
`DeriveTtl` is `ttl_from_expiry` with its own read of the wall clock,
`ReadClock` the clock `check_and_record` reads before it queues for the lock,
`CheckAndRecord` its critical section with that clock, `Finalize` the injection,
`Answer` the upstream, `Cancel` the timeout or a client that goes away, possible
only where the future is suspended.  `SweepWake` and `SweepRetain` are the two
halves of the cleanup task.  `Tick` moves both clocks, `StepClock` only the wall
clock, `Restart` replaces the process: the store is empty, the requests it held
are lost.

Time is in ticks, `TicksPerSec` of them a second, because the code truncates to
seconds (`as_secs`) on one clock and not on the other.  The map is total: a nonce
that is not in it has the entry `Absent`.  A token stands for its nonce; that
sealing gives every token a nonce of its own is assumed.  `honoured` is a history
variable: the uses granted to a token while it lived, since the last restart.
`config` holds the command line's switches; a run names the ones it starts with.
The rate limiter in front of both entrances is a module of its own: a request
that it refuses never arrives here.

### ResponseScan

One response through `DynamicResponseScanService`.  The inner body is the
environment: it yields any frame (a decoder never yields an empty one), trailers
if the body is not decoded, an error, or the end, in any order the types allow.
`received` and `sent` are history: the data given to the scanner and to the
client.  A `Content-Encoding` is one of six cases by what its first line says,
because that is all `resolve_encoding` looks at.  Header names are not scanned by
the code and not modelled.  The loop over the values of a block is a recursive function
(`ScanLoop`), one round a value.

### Shutdown

Every access to the two atomics is a step of its task.  A connection is accepted,
counted and spawned, handshakes, serves, and may be handed over to a tunnel,
which has a guard of its own from before the client is answered.  Clients may
leave at any time and never have to.  `before` is history: the connections that
were counted when the flag was not yet set.

### RateLimiter

`check` reads the clock under its lock and does not await, so it is one step:
`Grant` or `Refuse`.  `Clear` and `ClearAll` are the limiter's two other
operations.  A client's key is its certificate's fingerprint, or its address.
Time is in whole ticks; an emission interval of less than one is zero, as it is
in the code for one of less than a nanosecond.  `grants` is history: the times a
key was granted at.

### Connection

A connection shakes hands (`Accept`), serves requests one after the other (`Serve`,
`Respond`) and may become a tunnel (`ConnectRequest`).  Admission decides here by
what the client sent: its certificate, its headers, the authorities of the request
line and of the Host header.  Expiry and replay are in `Admission`, the limiter in
`RateLimiter`, the guard in `Shutdown`; what they refuse is `ClientCloses`, because
an error of the stack is an error of hyper's service, which ends the connection
without an answer.  A CONNECT that is refused is answered and changes nothing.

`PrepareRequest` gives a request inside an intercepted stream the authority of its
CONNECT; `TargetAuthority`, `UpstreamScheme` and `WithPort` make of a request what
is dialled (`dial`).  `LookUp`, `Mint` and `Put` are the three parts of `leaf_for`,
with the lock taken in the first and the last; an LRU cache is a sequence, the
least recently used leaf first, and a lookup moves an entry to the end whether or
not it is then served (`Slots`, `Slot` and `Others` are its places, the place of a
host and the rest of it).  `read` is the clock of the lookup.  `ResolveTunnel` and
`ResolveRequest` are the two places that resolve and vet; the resolver answers with
any addresses, none and a mixture included.  `Connect` is given the address; `addr`
is where the connection went.  hyper's reuse of upstream connections is left out:
every request resolves.

An authority is a host and a port or none, a pattern the set of names it matches, a
header value a sequence of words, and keys are compared by themselves where the
code compares HMACs.  An address is its notation (IPv4, IPv6, mapped, NAT64) and its
class; `IsAllowed` follows `check_ip`, and the property states what is blocked by
the address a notation leads to.  What a client may send is a constant, `Offers`:
the requests that tell the rules apart.

### Sso

A flow is a nonce and stands for its verifier and for the code its provider issues.
`jar` holds the one transaction cookie of each browser.  `Follow` is a callback from
any browser, with its cookie and with any provider in its path, any nonce there is as
its state and any code that was issued, or none (`Sendable`): path, state and code are
independent.  `Verify` is everything `handle_callback` does before it awaits; `Redeem` is the provider's
half of `exchange_code`, `Complete` what follows it, up to the cookie that is
cleared.  Between them the client may give up (`Timeout`), the browser leave
(`Leave`), or the process restart with another cookie key (`Restart`).  A refresh
is in three parts in the same way.  A refresh token is a number, its generation:
a provider in `Rotating` accepts only the latest.  `lost` is history: the flows of
which an answer of the provider was lost on its way.  Providers are external; they
answer an authorization request once, and redeem a code of their own once and, with
PKCE, only with the verifier of the flow it was issued to.  A sealed token remembers
both the flow whose grant it holds and the state it was sealed for.

### RedisStore

A call of `check_and_record` is a process: `CheckAndRecord` derives the TTL and
calls, `Incr` and `Expire` are the commands, `Allow` and `Deny` the comparison.
`BreakOff` is a command that fails and a call that is dropped, with the command
executed or not.  Redis is external: a key has a count and, after an EXPIRE, the
seconds it has left; it loses nothing and its clock runs as fast as the proxies'.
`orphaned` are the keys without a TTL whose last call broke off.

### Exchange, Processors, Sealing and Errors

`Exchange` follows one request through `serve_http`'s stack.  What the other modules
decide (the limiter, the constraints of a token, the nonce store) is a choice here,
with each outcome's error and its record; what decides in none of them is computed:
unsealing (`Sealing`), the processors (`Processors`) and what becomes of an error on
its way out (`ThroughRateLimit`, `FailInside`).  `Rotate` and `AddOldKey` are the key
store's operations for whoever embeds the library; the server is started with one
key (`Restart`).  `Finalize` is admission's `finalize` with the processors of the
token; `config.collects` tells a caller of the library that runs `process_body` from
the server, which does not.  `HeadersAgain` and `CollectBody` are `process_body` up to
the await of the body and after it: a chain runs its header processors a second time,
on what they wrote in `finalize`, and then its body processor.  `Respond`,
`Echo` and `UpstreamFails` are the upstream's.  `Timeout` and `Cancel` end the
exchange at an await.  `cause` is history: the error where it arose; `returned` is
history: the encoding in which the secret came back.

`Loop` is the loop of `Processor::process`, a recursive function from the number of
processors that had their turn to what they made of the request.  `Ran` and
`RunsAfter` say which processors ran and in which order: those that need the body
come last.

`ProcessSigv4` signs the headers of the client's list that are there
(`HeadersToSign`) and a payload hash of the code's choosing (`SignableBody`), and forwards
`x-amz-content-sha256` as it came.  The AWS library (`AwsSign`) is external and combines
what it is given.  The upstream goes by its own rule: the header if there is one, else
a hash of the body (`PayloadHash`); where the two differ no signature is promised
(`PayloadTold`).

A request is its line, its headers by name and its body as a sequence of pieces.  A
value says what kind it is, and a signature carries its key and what it was computed
from, so that it verifies exactly when the upstream computes the same.  A box opens
with the key it was sealed for and no other.  An encoding of a secret is its name;
that the patterns themselves are found wherever they are cut is `ResponseScan`.

## Runs

| Run | Bounds | What it shows |
|---|---|---|
| `admission_race` | 3 requests, 1 single-use token, 3 ticks of half a second, a forward step, a restart; requests are symmetric | `UsesBounded`, `NonceOutlivesToken` and the refinement `KeepsPromise` in every interleaving |
| `admission_pipeline` | 2 requests, 4 tokens (single use, audit only, without expiry, unprotected), every header and every failing check, a ceiling of 2 for the count, with and without a store | `OnlyVettedForwarded`, `AnswersTellSpending`, with the count at its ceiling |
| `admission_fair` | 2 requests, a token with a derived TTL and one with an explicit TTL, 3 ticks | `AdmissionDecides`, `StaleEntriesGo` |
| `admission_late` | 2 requests, 1 token, 4 ticks | violates `MaxUsesEver`, see below |
| `response_scan` | two byte values, secrets of 2 and 3 bytes, an overlap of 3, frames of up to 3 bytes, streams of up to 7, a limit of 4 when decoded, blocks of up to 2 values | `NothingLeaks`, `AlarmIsTrue`, `Transparent`, `HeadersClean` |
| `shutdown` | 3 connections, with TLS, with or without the health server | `CountIsExact`, `DrainWaits`, `ShutdownCompletes` |
| `rate_limiter` | 2 clients at one address with a key each, 8 configurations (exact and truncated intervals, bursts of 0 to 2, a rate of 0, more requests than ticks), 6 ticks, 4 grants a key | `WindowBounded`, `SteadyClientServed` |
| `sso` | 2 browsers, 2 flows, 2 callbacks, 2 refreshes, a rotating provider without PKCE and another with it, callbacks with every provider, state and code, 1 restart, cookies that expire; names are symmetric | `DeliveredToStarter`, `CompletedFlowForgotten`, `RefreshTokenKept` |
| `connection` | 2 connections, one with a certificate, 12 and 5 requests to choose from, 3 hosts (one a blocked name), 3 ports, 5 tokens (bound to a certificate, a user, a key, a prefixed key, nobody), 3 configurations, a cache of 1 leaf valid for 3 days, 6 addresses, 2 filters, 4 days | `DialsWhereAllowed`, `DialsForBoundClient`, `InnerStaysOnTarget`, `ConnectsVetted`, `LeafServes`, `StreamSettles` |
| `exchange` | 1 exchange a process, 3 keys of which two have one id, 1 restart, 28 kinds of token (every processor, chains of up to 3, good and bad names, secrets and lifetimes, a signature that signs itself), 13 kinds of request (four of them AWS requests that parse: with a hash, unsigned, with signed chunks, and silent about the payload), 3 configurations, 2 seconds | `NoClientCredential`, `HeadersTellTruth`, `SecretStaysInside`, `RotationKeepsTokens`, `RecordsAgree` |
| `exchange_labels` | the same without a restart | violates `RecordedTruly`, see below |
| `redis` | 3 calls, a single-use token with a derived TTL and a token with an explicit TTL of 0, 3 seconds | `KeysGo` and the refinement `KeepsPromise` |

Why the bounds are enough.  Two requests suffice for every race about one entry;
the third lets one be granted, one refused and one cancelled or late.  The token
of the race expires at 0 with a tolerance of a second, so three half-second ticks
cover the time before, at and after its end, including the second the truncation
hides.  A stream of seven bytes holds the longest secret cut into three frames
with something before and after it, and is longer than twice the overlap, so the
overlap is filled, shifted and replaced by a chunk.  With three connections one is
old, one is in the accept loop, which holds one at a time, and one comes after.
Six ticks and four grants are more than one burst and two intervals of every
configuration.  Two flows in two browsers give every confusion of cookie, state,
code and browser; two callbacks and two refreshes every race for one code and one refresh
token.  With two connections and a cache of one, leaves are shared, replaced and
evicted, and four days reach from a mint past its renewal and its expiry; each way
of writing an address and each class is among the six.  The requests on offer pair
each token with the client, the credentials and the authority it is for and with
ones it is not for, with a port, with the default one and without, and each may be
sent inside every intercepted stream.  Exchanges share only the keys and the token,
which serving does not change, so one at a time shows them all; three keys give a
rotation, an added key and an id used twice, and two seconds reach past every
lifetime and tolerance.  Three calls are a grant, a refusal and one that breaks off
between any two commands of the others.  Counters are bounded in the guards by
`MaxTicks`, `MaxSteps`, `MaxRestarts`, `MaxStream`, `MaxFrame`, `MaxTime`,
`MaxGrants`, `MaxKeys` and `MaxBoots`.

Deadlock is checked in the admission runs (the cleanup task never ends), for the
limiter (it can always be asked) and for Redis (time goes on), and not in the others:
a response, an exchange, a shutdown, a connection and a flow come to their end.

### Fairness

`Admission!Fairness`: weak fairness for a request's own steps and the cleanup
task's two.  tokio polls every task that is ready; its `RwLock` is fair, and no
critical section awaits, so a waiting task is served.  Nothing is assumed of
clients, upstreams or the clock: a request that was forwarded may never be
answered.

`Shutdown!Fairness`: weak fairness for the main task, the accept loop, the health
server's reaction to the signal and the drain timer.  Nothing is assumed of
connections: `ShutdownCompletes` holds because of the drain timeout, not because
clients leave.

`Connection!Fairness`: weak fairness for a task's own steps (routing and the three
parts of `leaf_for`, which do not await), for the resolver's answer (the system's
resolver gives up by itself), for the connect timeout and for the request timeout.
Nothing is assumed of clients and upstreams: a handshake, an open connection and a
tunnel may last for ever.

`RedisStore!Fairness`: time passes, and a call that has begun goes on: Redis replies,
or the request timeout drops it.  No call has to begin, and none has to succeed.

### What the code does not do as described

* **`admission_late`.**  `ReplayProtection::max_uses` is the "maximum number of
  times this token can be used".  A request that has been vetted and waits for
  the lock is not checked against the expiry again, and an entry that went stale
  meanwhile is counted from 1: two requests get through on a single-use token, the
  second one after the end of the token's lifetime.  `UsesBounded` is the bound
  that does hold: over the uses granted while the token lives.
* **`exchange_labels`.**  An error is to be recorded "with the failure's true status"
  and a class by which failures "are distinguishable".  `TokenInjectionService` turns
  every error from below it into an `HttpError`, and `RateLimitService` every error
  from inside it: a blocked address or a leaked secret, and behind a limiter every
  refused token, is recorded as 502 and `upstream`.  What does hold is `RecordsAgree`:
  one record, one duration and one class for each exchange that fails, and the counters
  of single events (rejections, replays, leaks) move by what happened.

Others have no run:

* One scanner goes over all values of a header block, and its overlap joins the end
  of one to the start of the next: a response can be refused for a pattern that is in
  none of its values.  Nothing leaks by this (`HeadersClean`).
* The drain loop is to wait for connections in flight.  One that `accept` has returned
  and the loop has not counted is invisible to it and may be cut off before the
  timeout.  `DrainWaits` says that there is at most one, and none that was counted.
* `handle_callback` is to "clear cookie regardless of success/failure".  The header is
  used only when the flow completes; every error is answered by `error_response`,
  which sets no cookie.  What does hold is `CompletedFlowForgotten`.
* `handle_callback` compares the state with the cookie and passes on whatever code comes
  with it.  With PKCE the provider refuses a code of another flow; without, a browser that
  has learned another's code completes a flow of its own with it and is given that grant.
  `DeliveredToStarter` therefore ties the grant to the transaction only where PKCE is used;
  that states and browsers belong together, and grants and providers, it says always.
* sigv4 signs `STREAMING-UNSIGNED-PAYLOAD-TRAILER` for a request whose
  `x-amz-content-sha256` is `STREAMING-AWS4-HMAC-SHA256-PAYLOAD`, and `UNSIGNED-PAYLOAD` for
  one without the header or with one that is not text, and forwards the header unchanged.
  An upstream that goes by the header, or by the body, computes another signature.
  `HeadersTellTruth` leaves these requests out.
* `process_body` of a chain runs the header processors again.  A chain in which a
  processor replaces the `authorization` that sigv4 before it needs is refused the second
  time.
* The shutdown delay "allows load balancers to remove the pod" (`config.rs`), and is
  slept before the flag is set: `/readyz` answers READY until it is over, and the
  health server stops when it is.
* The server forwards a request whose token asks for a body processor as the client
  sent it, with a warning in its log.  HMAC signing with `sign_body`, the default, is
  one: the request goes out unsigned.
* Nothing refuses a token whose HMAC signature is among the headers it signs, or a chain
  in which one processor writes what another has signed; such signatures cannot be
  verified.  `HeadersTellTruth` leaves them out.
* An OAuth access token is checked with the default clock skew, whatever skew the
  proxy is configured with.
* `replace_placeholder` does not advance on an empty placeholder: it would not return.
* An `UnsupportedContentEncoding` refuses responses that are not to be searched, too.
* `record_blocked_address` is called nowhere: a blocked address is counted as an upstream
  failure and nothing else.
* Refusals for a replay, a failing nonce store and a lifetime that ended during
  admission leave no validation record.
* `TunnelConfig::idle_timeout`, the "maximum idle time before closing the tunnel",
  is read nowhere.
* `RateLimitConfig::burst` is described as additional requests; the code's burst
  includes the request itself, so that with a burst of 0 a key gets one request and
  then none (the first is granted without looking), which is why
  `SteadyClientServed` asks for a burst of 1.
* `create_bearer_api_key_config`, "the most common configuration", asks for the
  prefix `Bearer `, which `parse_auth_header` has already taken off: the header
  `Bearer <key>` is refused, `Bearer Bearer <key>` accepted.
* `UpstreamScheme` is said to give way to the scheme of an absolute-form request;
  `ProxyService` always takes the token's.
* An entry with a port does not match an authority that leaves the port out, even if
  it is the default one: `host:443` neither allows nor blocks a request to `host`,
  and `:443` is removed from the authority of intercepted requests.  This is why
  `DialsWhereAllowed` speaks of names that are blocked on all ports.
* A token that asks for plain HTTP, used inside an intercepted CONNECT to port 443, is
  dialled on port 80 (`InnerStaysOnTarget` has this case).
* `blocked_hostnames` is consulted for requests, not for tunnels.

## Proofs

Every safety property a run checks is also a theorem of its specification, for any
sets of requests, tokens, connections, hosts, keys, processors and so on, and for any
values of the bounds.  The assumptions are the ones the modules name: mostly the
types of the constants, and beside them

* in `Admission` and elsewhere, that `None` and the three values a header may have
  instead of a token are values of their own;
* in `Shutdown`, that the connections are finitely many (a count is a cardinality);
* in `RedisStore`, that the clock reaches the end of every token (`Life[t] <= MaxTime`):
  the proxies' clock stops at the bound while keys age on, so that a token that could
  outlive the clock would outlive its key;
* in `Connection`, that a host policy was built by its constructor from its two lists,
  that 80 and 443 are ports, and that leaves are valid for longer than the margin;
* in `Exchange`, that requests have a line, headers and a body, that a token's processor
  is one of the configuration's variants, and that the body has no header's name.

Four theorems ask for more, and say so: `BoundedUseHolds`, `NonceOutlives`,
`PromiseKept` and `OutcomesTellSpending` that the wall clock is never stepped backwards
(`ClockSteps \subseteq Nat`), the last also that the requests are finitely many.  The
first is necessary: after a backward step the token lives longer than the TTL that was
computed for its nonce.

### `AdmissionProofs`

* `TypeCorrect`: `TypeOK` and `HeaderInv` (a request that asks the store carries a
  replay-protected token with an expiry) are invariant.
* `BoundedUseHolds`, `NonceOutlives`, `PromiseKept`: `UsesBounded`, `NonceOutlivesToken`
  and the refinement of `BoundedUse`.
* `OnlyVetted`: `OnlyVettedForwarded`.
* `OutcomesTellSpending`: `AnswersTellSpending`.

The first group is not inductive.  What carries it (`Ledger`) is a chain: the TTL a
request derived reaches the end of the token's lifetime, measured from the current
clock (`TtlInv`, before it read the monotonic clock) or from the clock it holds (after);
so every entry in the map does too, whoever wrote it and however long that request
waited for the lock (`EntryInv`); clocks that were read are not ahead of the clock
(`ClockInv`), so neither the cleanup task nor a late request takes a live entry for
stale; so while the token lives, the count in the map is the number of uses granted, up
to the ceiling; and the count respects the limit.  Truncation to seconds only lengthens
a TTL (`WholeSecondsBound`), a forward step only shortens the remaining lifetime.  One
lemma per action keeps the chain.

`OnlyVetted` rests on `FirstErrorDecides`: the pipeline of checks ends without an error
exactly if each of them passed.  `VettedInv` carries that to the request that is
forwarded, through the store and its lock.  `SpendingInv` bounds the uses granted to a
token by the requests that carry it and were let through, from below, and by these and
the cancelled ones, from above; it is stated for the uses granted, which `EntryInv` ties
to the count in the map.

### `ResponseScanProofs`

* `ScanTypeCorrect`: types, and the overlap is a tail of the data received, all of it or
  at least as long as the overlap size.
* `NoSecretPasses`, `NoFalseAlarm`, `BodyIsTransparent`, `HeadersAreClean`.

`NextOverlapIsTail` shows that each of the three cases of `OverlapBuffer::process`
leaves such a tail; `NewMatchIsSeen` that a pattern which occurs in the data with the
new frame and not without it lies within the overlap and the frame, because the overlap
is no shorter than any pattern; and `SeenMatchIsReal` that whatever occurs there occurs
in the data.  For header blocks the loop over the values is unfolded (`ScanLoopUnfolds`)
and a block that passes has had each of its values searched (`CleanBlock`).

### `RateLimiterProofs`

* `LimiterTypeCorrect`, `RateIsBounded`, `SteadyIsServed`.

Neither property is inductive, as neither mentions the arrival time of a key that was
granted twice.  `TatInv` adds what does: the arrival time of a key is at least an
interval for each grant since any earlier one, counted from that grant (every grant
moves it by an interval, or to an interval after now), and no later than the burst
allowed at the last grant.  The first bounds the grants of a window from its start, the
second shows that an interval later the entry admits again.  A refusal leaves both alone.

### `ShutdownProofs`

* `ShutdownInvariant`, and from it `ShutdownTypeCorrect`, `CountExact`, `DrainIsComplete`.

A count that is a cardinality is kept by lemmas about sets that gain or lose one
connection.  `DrainIsComplete` needs to know that the accept loop has one connection at
a time (`LoopInv`) and has read the flag since the last it let in (`FlagInv`: at most
one is late), and that what the drain found stays so, because guards are not taken
again by connections that are over (`DrainInv`).

### `RedisStoreProofs`

* `RedisTypeCorrect`, `NumbersDiffer`, `RedisPromiseKept`: the refinement of `BoundedUse`.

No step of a call is atomic with another.  `TtlInv` says that neither the TTL a key has
nor one a call is about to set ends before the token; so a key of a live token does not
go, INCR gives every call a number of its own (`NumberInv`), and the uses granted are
the calls whose numbers are within the limit, of which there are at most as many as the
limit.

### `SsoProofs`

* `SsoTypeCorrect`, `FlowInvariant`, `TokensReachStarter`, `CompletedIsForgotten`,
  `RotationIsSafe`.

A token is sealed long after the cookie was looked at.  `CookieInv` ties a cookie, in a
browser or in a callback under way, to the browser that started its flow; `CallbackInv`
ties a callback past verification to its cookie's nonce and provider (`Checked`), and one
that the provider has answered to a code of that provider and, with PKCE, of that flow
(`Granted`).  Of the code nothing is known before the provider answers.  `RefreshInv` ties a refresh under way to a
token that was delivered.  `RotationIsSafe` follows the refresh token in force from the
provider through a callback or a refresh into a sealed token.

### `ConnectionProofs`

* `ConnectionInvariant`, and from it `ConnectionTypeCorrect`, `AddressesAreVetted`,
  `LeavesServe`, `InnerIsPinned`, `DialsAreAllowed`, `BoundTokensServeTheirClient`.

`TaskInv` says what a task holds at each stage: what is under way was admitted as it
stands, what is dialled is the authority admission saw with the implied port, an address
was vetted, a leaf is for the target's host and outlives the clock of its lookup by the
margin, and nothing is left over from what is done with.  `AllowedIsNotBlocked` relates
`check_ip` to the address a notation leads to.  `CacheInv` (a host has one leaf) is what
the type of an LRU map says and a sequence does not.

### `ExchangeProofs`

* `ExchangeInvariant`, and from it `ExchangeTypeCorrect`, `RotationLosesNothing`,
  `SecretsStayInside`, `RecordsAreKept`, `ClientCredentialsReplaced`; and
  `HeadersAreTrue`, with `TruthInv`.

`KeyIsFound` shows that the search through primary and historical keys finds a key with
a unique id; `RecordsInv` says what may have been recorded at each stage.  For the
processors there is a lemma for each kind, in two respects: what it writes is the proxy's
own and it leaves the proxy's values alone (`Good`), and it changes only what it writes
and its signature holds of the request it leaves (`Tells`).  Both are carried through a
chain of any length by induction over the loop of `Processor::process` (`ProcessGood`,
`ProcessTells`); `SignatureStays` shows that a signature goes on holding if nothing it
covers is written, and `BodyPhaseTold` adds the processor that comes last.  The second
header phase of a chain starts from what the first left (`HeadersAgainTruth`).  sigv4 takes
its scope, its list and the body's hash from the client, which is why the invariant keeps
track of where they come from (`Descends`) and the property asks for a truthful client.
Signer and verifier choose the payload's hash by different rules; that they agree where
`PayloadTold` holds, and go on doing so, is `Sigv4Tells` and `PayloadAgrees`.

### Loops

The provers cannot instantiate the library's induction theorems.  Loops over sequences
(`ScanLoop`, `Loop`) are therefore recursive functions on an interval of numbers, and
are reasoned about by the least number for which a claim fails (`Least`,
`LeastNumber`), whose existence follows from a theorem of the library.  That a
function with the recursive equation exists is shown in the same way (`LoopExists`,
`CourseExists`).

### Only model-checked

The liveness properties: `AdmissionDecides`, `StaleEntriesGo`, `ShutdownCompletes`,
`StreamSettles` and `KeysGo`.  Fairness and `ENABLED` are outside what the prover does.

## Plan

Done, in the order of importance: replay protection with its abstract
specification, response scanning, shutdown, the rate limiter, connections with client
authentication, host policies, tunnels, the leaf cache and the filter, SSO, exchanges
with keys, processors and errors, the Redis store as a second implementation of
`BoundedUse`, and the proofs of their safety properties.  Next:

1. The steps liveness rests on, as theorems about single steps: which action moves a
   stuck request, call or connection on, and that no other moves it back.
2. Abstract specifications of more components, shown to be implemented: a session with
   one refresh token for `Sso`, a drain for `Shutdown`, and a bucket for `RateLimiter`.
3. The bytes of a tunnel with half-closed connections.

## Not modelled

* Encryption, key derivation, certificates and TLS, the codecs, the AWS signing
  library and hyper: external, taken by what the code uses of them.  That the AWS
  library could refuse to sign is left out.
* The parameters of each SSO provider and its configuration, the text of errors,
  logs, health responses and canonical requests, and the one-shot commands but for
  `seal`: conversions without state or order.  `UpstreamError` is constructed nowhere.
* The bytes of a tunnel, and with them what is lost when one direction ends first;
  reuse of upstream connections; the growth of the limiter's map, which is never
  swept.
* A Redis that loses data or fails over, and clocks that run at different speeds.  The
  no-op store, which allows everything.
* Benchmarks and deployment files: not part of the running system.
