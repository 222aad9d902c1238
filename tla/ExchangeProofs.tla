--------------------------- MODULE ExchangeProofs ---------------------------
(***************************************************************************)
(* Proofs about Exchange.                                                  *)
(***************************************************************************)
EXTENDS Exchange, TLAPS, SequenceTheorems, WellFoundedInduction

\* The token, the processor's configuration in it and the header it comes in.
TokenName == "x-tokenizer-token"

\* The keys that can be found are the keys the process was given.
KeyStore == [primary : Key, historical : Seq(Key)]
KeysOf(ks) == {ks.primary} \cup ToSet(ks.historical)
KeysInv == held = KeysOf(keys)

\* A token names the key it was sealed for.
TokenInv ==
    token # None =>
        token.key_id = token.sealed_for.id /\ IsProcessorConfig(token.payload.processor)

\* Up to admission's end the request is the client's; past it, it had a token.
RequestInv ==
    /\ stage # "idle" => IsRequest(req) /\ IsRequest(client)
    /\ stage # "idle" /\ Has(client, TokenName) => token # None
    /\ stage \in {"limiting", "admitting", "replay"} => req = client
    /\ stage \in {"replay", "handed", "collecting"} => Has(client, TokenName)
    /\ stage \in {"handed", "collecting"} =>
          /\ config.collects /\ IsBodyProcessor(token.payload.processor)
          /\ Valid(token.payload.processor)

\* What the response is searched for is what scanning the token's secret takes, and
\* what came back is nothing of that.
ScanInv ==
    /\ stage # "answered" => returned = None
    /\ stage \in {"handed", "collecting", "forwarded"} /\ Has(client, TokenName) /\ config.response_scan =>
          patterns = GenerateScanPatterns(token.payload.secret)
    /\ returned # None =>
          /\ token # None /\ returned \in Encoding
          /\ config.response_scan =>
                <<returned, token.payload.secret>> \notin GenerateScanPatterns(token.payload.secret)

\* Nothing is recorded before a verdict, and no event before the response.
RecordsInv ==
    /\ stage \in {"idle", "limiting", "admitting", "replay"} => records = NothingRecorded
    /\ stage \in {"handed", "collecting", "forwarded"} => records.events = <<>>
    /\ RecordsAgree

\* r has a value of the proxy's in every header p fills.
Filled(r, p) ==
    \A h \in (Writes(p) \cap HeaderName) \ {TokenName} : Has(r, h) /\ ProxyMade(r.headers[h])

\* r does not have the client's token.
Clean(r) == Has(r, TokenName) => ProxyMade(r.headers[TokenName])

\* NoClientCredential, and what it takes while the body is collected.
CredentialInv ==
    stage \in {"handed", "collecting", "forwarded", "answered"} /\ Has(client, TokenName) =>
        /\ Clean(req)
        /\ \A i \in DOMAIN Parts(token.payload.processor) :
              LET p == Parts(token.payload.processor)[i]
              IN ~NeedsBody(p) \/ (config.collects /\ stage \notin {"handed", "collecting"}) => Filled(req, p)

IndInv ==
    TypeOK /\ KeysInv /\ TokenInv /\ RequestInv /\ ScanInv /\ RecordsInv /\ CredentialInv

-----------------------------------------------------------------------------
(* The keys                                                                *)

\* Induction over the naturals: a set of them that is not empty has a least element.
LEMMA Least ==
    ASSUME NEW T \in SUBSET Nat, T # {}
    PROVE  \E m \in T : \A k \in T : m <= k
<1> DEFINE R == OpToRel(<, Nat)
<1>1. IsWellFoundedOn(R, Nat)
    BY NatLessThanWellFounded
<1>2. \A x, y \in Nat : y < x => <<y, x>> \in R
    BY DEF OpToRel
<1> HIDE DEF R
<1>3. PICK x \in T : \A y \in T : ~ (<<y, x>> \in R)
    BY <1>1, WFMin
<1>4. ASSUME NEW k \in T PROVE x <= k
  <2>1. x \in Nat /\ k \in Nat
      OBVIOUS
  <2>2. ~(k < x)
      BY <1>2, <1>3, <2>1
  <2> QED BY <2>1, <2>2
<1> QED BY <1>4

\* What the key store's chain of keys is.
LEMMA ChainKeys ==
    ASSUME NEW ks \in [primary : Key, historical : Seq(Key)]
    PROVE  /\ DOMAIN Chain(ks) = 1..(Len(ks.historical) + 1)
           /\ Chain(ks)[1] = ks.primary
           /\ \A i \in DOMAIN ks.historical : Chain(ks)[i + 1] = ks.historical[i]
           /\ \A i \in DOMAIN Chain(ks) \ {1} : Chain(ks)[i] = ks.historical[i - 1]
<1> DEFINE h == ks.historical
           k == ks.primary
<1>1. k \in Key /\ h \in Seq(Key) /\ k # None
    BY SealingAssumption
<1>2. Chain(ks) = <<k>> \o h
    BY <1>1 DEF Chain
<1>3. <<k>> \in Seq(Key) /\ Len(<<k>>) = 1 /\ <<k>>[1] = k
    BY <1>1
<1> HIDE DEF h, k
<1>4. /\ Len(<<k>> \o h) = Len(h) + 1
      /\ <<k>> \o h \in Seq(Key)
      /\ \A i \in 1..(Len(h) + 1) :
            (<<k>> \o h)[i] = IF i <= 1 THEN <<k>>[i] ELSE h[i - 1]
    BY <1>1, <1>3, ConcatProperties
<1>5. Len(h) \in Nat /\ DOMAIN h = 1..Len(h) /\ DOMAIN (<<k>> \o h) = 1..(Len(h) + 1)
    BY <1>1, <1>4, LenProperties
<1> QED BY <1>2, <1>3, <1>4, <1>5 DEF h, k

\* find_by_id finds the key of an id that no other key has.
LEMMA KeyIsFound ==
    ASSUME NEW ks \in KeyStore, NEW k \in KeysOf(ks),
           \A other \in KeysOf(ks) : other.id = k.id => other = k
    PROVE  FindById(ks, k.id) = k
<1> DEFINE c == Chain(ks)
           found == {i \in DOMAIN c : c[i].id = k.id}
           all == {ks.primary} \cup ToSet(ks.historical)
<1> USE DEF KeyStore, KeysOf
<1>0. Len(ks.historical) \in Nat /\ DOMAIN ks.historical = 1..Len(ks.historical)
    BY LenProperties
<1>1. \A i \in DOMAIN c : c[i] \in all
  <2> SUFFICES ASSUME NEW i \in DOMAIN c PROVE c[i] \in all
      OBVIOUS
  <2>1. CASE i = 1
      BY <2>1, ChainKeys
  <2>2. CASE i # 1
    <3>1. i - 1 \in DOMAIN ks.historical
        BY <1>0, <2>2, ChainKeys
    <3>2. c[i] = ks.historical[i - 1]
        BY <2>2, ChainKeys
    <3> QED BY <3>1, <3>2 DEF ToSet
  <2> QED BY <2>1, <2>2
<1>2. \E i \in DOMAIN c : c[i] = k
  <2>1. CASE k = ks.primary
    <3>1. 1 \in DOMAIN c
        BY <1>0, ChainKeys
    <3> QED BY <2>1, <3>1, ChainKeys
  <2>2. ASSUME NEW i \in DOMAIN ks.historical, k = ks.historical[i]
        PROVE \E j \in DOMAIN c : c[j] = k
    <3>1. i + 1 \in DOMAIN c
        BY <1>0, ChainKeys
    <3>2. c[i + 1] = k
        BY <2>2, ChainKeys
    <3> QED BY <3>1, <3>2
  <2> QED BY <2>1, <2>2 DEF ToSet
<1>3. found \in SUBSET Nat /\ found # {}
    BY <1>0, <1>2, ChainKeys
<1>4. FindById(ks, k.id) = c[CHOOSE i \in found : \A j \in found : i <= j]
    BY <1>3 DEF FindById
<1> DEFINE first == CHOOSE i \in found : \A j \in found : i <= j
<1>5. first \in found
  <2> HIDE DEF found
  <2>1. \E m \in found : \A j \in found : m <= j
      BY <1>3, Least
  <2> QED BY <2>1
<1> HIDE DEF first
<1>6. c[first] \in all /\ c[first].id = k.id
    BY <1>1, <1>5
<1> QED BY <1>4, <1>6 DEF first

\* Rotating the primary key and adding an old one keep every key findable.
LEMMA KeysStayFindable ==
    ASSUME NEW ks \in KeyStore, NEW k \in Key, NEW new,
           new = SetPrimary(ks, k) \/ new = AddHistorical(ks, k)
    PROVE  new \in KeyStore /\ KeysOf(new) = KeysOf(ks) \cup {k}
<1> DEFINE h == ks.historical
           old == ks.primary
<1>1. old \in Key /\ h \in Seq(Key) /\ old # None
    BY SealingAssumption DEF KeyStore
<1>2. SetPrimary(ks, k) = [primary |-> k, historical |-> Append(h, old)]
    BY <1>1 DEF SetPrimary
<1>3. AddHistorical(ks, k) = [primary |-> old, historical |-> Append(h, k)]
  <2> DEFINE longer == Append(ks.historical, k)
  <2>1. AddHistorical(ks, k) = [ks EXCEPT !.historical = longer]
      BY Zenon DEF AddHistorical
  <2> HIDE DEF longer
  <2>2. [ks EXCEPT !.historical = longer] = [primary |-> ks.primary, historical |-> longer]
      BY DEF KeyStore
  <2> QED BY <2>1, <2>2 DEF longer
<1>4. KeysOf(ks) = {old} \cup ToSet(h)
    BY DEF KeysOf
<1> HIDE DEF h, old
<1>5. ASSUME NEW e \in Key
      PROVE  /\ Append(h, e) \in Seq(Key)
             /\ ToSet(Append(h, e)) = ToSet(h) \cup {e}
  <2>1. /\ Append(h, e) \in Seq(Key) /\ Len(Append(h, e)) = Len(h) + 1
        /\ \A i \in 1..Len(h) : Append(h, e)[i] = h[i]
        /\ Append(h, e)[Len(h) + 1] = e
      BY <1>1, AppendProperties
  <2>2. Len(h) \in Nat /\ DOMAIN h = 1..Len(h) /\ DOMAIN Append(h, e) = 1..(Len(h) + 1)
      BY <1>1, <2>1, LenProperties
  <2> DEFINE a == Append(h, e)
  <2> HIDE DEF a
  <2> QED BY <2>1, <2>2 DEF a, ToSet
<1>8. /\ KeysOf(ks) = {old} \cup ToSet(h)
      /\ \A e \in Key : Append(h, e) \in Seq(Key) /\ ToSet(Append(h, e)) = ToSet(h) \cup {e}
    BY <1>4, <1>5
<1>6. CASE new = SetPrimary(ks, k)
  <2>1. new.primary = k /\ new.historical = Append(h, old)
      BY <1>2, <1>6
  <2>2. ToSet(new.historical) = ToSet(h) \cup {old}
      BY <1>1, <1>8, <2>1
  <2>3. new \in KeyStore
      BY <1>1, <1>2, <1>6, <1>8 DEF KeyStore
  <2>4. KeysOf(new) = {new.primary} \cup ToSet(new.historical)
      BY DEF KeysOf
  <2> QED BY <1>8, <2>1, <2>2, <2>3, <2>4, Zenon
<1>7. CASE new = AddHistorical(ks, k)
  <2>1. new.primary = old /\ new.historical = Append(h, k)
      BY <1>3, <1>7
  <2>2. ToSet(new.historical) = ToSet(h) \cup {k}
      BY <1>8, <2>1
  <2>3. new \in KeyStore
      BY <1>1, <1>3, <1>7, <1>8 DEF KeyStore
  <2>4. KeysOf(new) = {new.primary} \cup ToSet(new.historical)
      BY DEF KeysOf
  <2> QED BY <1>8, <2>1, <2>2, <2>3, <2>4, Zenon
<1> QED BY <1>6, <1>7

\* The token of the seal command names its key.
LEMMA SealedTokenNames ==
    ASSUME NEW payload, NEW k
    PROVE  LET made == SealedToken(payload, k)
           IN made.key_id = k.id /\ made.sealed_for = k /\ made.payload = payload
BY DEF SealedToken, SealedBox

-----------------------------------------------------------------------------
(* The processors                                                          *)

\* A header that is inserted is there, and nothing else has changed.
LEMMA Inserted ==
    ASSUME NEW r, IsRequest(r), NEW name, NEW value
    PROVE  LET i == Insert(r, name, value)
           IN /\ IsRequest(i) /\ i.line = r.line /\ i.body = r.body
              /\ DOMAIN i.headers = DOMAIN r.headers \cup {name}
              /\ i.headers[name] = value
              /\ \A h \in DOMAIN r.headers \ {name} : i.headers[h] = r.headers[h]
<1> DEFINE hs == [h \in DOMAIN r.headers \cup {name} |-> IF h = name THEN value ELSE r.headers[h]]
<1>1. Insert(r, name, value) = [r EXCEPT !.headers = hs]
    BY Zenon DEF Insert
<1>2. /\ DOMAIN hs = DOMAIN r.headers \cup {name} /\ hs[name] = value
      /\ \A h \in DOMAIN r.headers \ {name} : hs[h] = r.headers[h]
    OBVIOUS
<1> HIDE DEF hs
<1>3. LET i == [r EXCEPT !.headers = hs]
      IN IsRequest(i) /\ i.line = r.line /\ i.body = r.body /\ i.headers = hs
    BY DEF IsRequest
<1> QED BY <1>1, <1>2, <1>3

\* A header that is removed is not there, and nothing else has changed.
LEMMA Removed ==
    ASSUME NEW r, IsRequest(r), NEW name
    PROVE  LET w == Without(r, name)
           IN /\ IsRequest(w) /\ w.line = r.line /\ w.body = r.body
              /\ DOMAIN w.headers = DOMAIN r.headers \ {name}
              /\ \A h \in DOMAIN r.headers \ {name} : w.headers[h] = r.headers[h]
<1> DEFINE hs == [h \in DOMAIN r.headers \ {name} |-> r.headers[h]]
<1>1. Without(r, name) = [r EXCEPT !.headers = hs]
    BY Zenon DEF Without
<1>2. /\ DOMAIN hs = DOMAIN r.headers \ {name}
      /\ \A h \in DOMAIN r.headers \ {name} : hs[h] = r.headers[h]
    OBVIOUS
<1> HIDE DEF hs
<1>3. LET w == [r EXCEPT !.headers = hs]
      IN IsRequest(w) /\ w.line = r.line /\ w.body = r.body /\ w.headers = hs
    BY DEF IsRequest
<1> QED BY <1>1, <1>2, <1>3

\* What the processors fail with.
ProcessError == {"ConfigError", "OAuthRefreshError", "InvalidPayload"}

LEMMA NoneIsNoError == None \notin ProcessError
BY ExchangeAssumption DEF ProcessError, TokenizerError, Status500

\* The values of the proxy's that r has are still values of the proxy's in s, but for
\* the one in the token's header, and the client's token is in s only if it was in r.
Keeps(r, s) ==
    /\ \A h : h # TokenName /\ Has(r, h) /\ ProxyMade(r.headers[h])
             => Has(s, h) /\ ProxyMade(s.headers[h])
    /\ Clean(r) => Clean(s)

\* What one processor does to a request that has no client's credential.
Good(res, r, p) ==
    /\ res.error \in ProcessError \cup {None}
    /\ IsRequest(res.req)
    /\ res.error = None => Keeps(r, res.req) /\ Filled(res.req, p)

LEMMA InsertKeeps ==
    ASSUME NEW r, IsRequest(r), NEW name, NEW value, ProxyMade(value)
    PROVE  LET i == Insert(r, name, value)
           IN IsRequest(i) /\ Keeps(r, i) /\ Has(i, name) /\ ProxyMade(i.headers[name])
<1> DEFINE i == Insert(r, name, value)
<1>1. /\ IsRequest(i)
      /\ DOMAIN i.headers = DOMAIN r.headers \cup {name}
      /\ i.headers[name] = value
      /\ \A h \in DOMAIN r.headers \ {name} : i.headers[h] = r.headers[h]
    BY Inserted
<1> HIDE DEF i
<1>2. ASSUME NEW h, Has(r, h), ProxyMade(r.headers[h])
      PROVE  Has(i, h) /\ ProxyMade(i.headers[h])
  <2>1. CASE h = name
      BY <1>1, <2>1 DEF Has
  <2>2. CASE h # name
      BY <1>1, <1>2, <2>2 DEF Has
  <2> QED BY <2>1, <2>2
<1>3. ASSUME Clean(r) PROVE Clean(i)
  <2>1. CASE TokenName = name
      BY <1>1, <2>1 DEF Clean
  <2>2. CASE TokenName # name
      BY <1>1, <1>3, <2>2 DEF Clean, Has
  <2> QED BY <2>1, <2>2
<1>4. Keeps(r, i)
    BY <1>2, <1>3 DEF Keeps
<1>5. Has(i, name) /\ ProxyMade(i.headers[name])
    BY <1>1 DEF Has
<1> QED BY <1>1, <1>4, <1>5 DEF i

LEMMA KeepsComposes ==
    ASSUME NEW r, NEW s, NEW u, Keeps(r, s), Keeps(s, u)
    PROVE  Keeps(r, u)
BY DEF Keeps

\* InjectProcessor and the end of OAuthProcessor.
LEMMA InsertSecretGood ==
    ASSUME NEW r, IsRequest(r), NEW p, Writes(p) = {p.header}, NEW prefix, NEW secret
    PROVE  Good(InsertSecret(r, p.header, prefix, secret), r, p)
<1> DEFINE value == <<"secret", prefix, secret>>
           i == Insert(r, p.header, value)
           res == InsertSecret(r, p.header, prefix, secret)
<1>1. CASE p.header \in HeaderName /\ secret \notin Unprintable
  <2>1. ProxyMade(value)
      BY DEF ProxyMade
  <2>2. res.error = None /\ res.req = i
      BY <1>1 DEF InsertSecret, Ok
  <2> HIDE DEF value, i, res
  <2>3. IsRequest(i) /\ Keeps(r, i) /\ Has(i, p.header) /\ ProxyMade(i.headers[p.header])
      BY <2>1, InsertKeeps DEF i
  <2>4. Filled(i, p)
      BY <2>3 DEF Filled
  <2>5. Good(res, r, p)
      BY <2>2, <2>3, <2>4 DEF Good
  <2> QED BY <2>5 DEF res
<1>2. CASE ~(p.header \in HeaderName /\ secret \notin Unprintable)
  <2>1. res.error = "ConfigError" /\ res.req = r
      BY <1>2 DEF InsertSecret, Err
  <2> HIDE DEF res
  <2>2. Good(res, r, p)
      BY <2>1, NoneIsNoError DEF Good, ProcessError
  <2> QED BY <2>2 DEF res
<1> QED BY <1>1, <1>2

\* OAuthProcessor
LEMMA OAuthGood ==
    ASSUME NEW r, IsRequest(r), NEW p, p.type = "oauth", NEW payload, NEW t
    PROVE  Good(ProcessOAuth(p, r, payload, t), r, p)
<1> DEFINE res == ProcessOAuth(p, r, payload, t)
           inserted == InsertSecret(r, p.header, "Bearer ", payload.secret)
<1>1. Writes(p) = {p.header}
    BY DEF Writes
<1>2. Good(inserted, r, p)
    BY <1>1, InsertSecretGood
<1>3. \/ res = inserted
      \/ res = Err(r, "OAuthRefreshError")
      \/ res = Err(r, "InvalidPayload")
    BY DEF ProcessOAuth
<1>4. ASSUME NEW e \in ProcessError PROVE Good(Err(r, e), r, p)
  <2>1. Err(r, e).error = e /\ Err(r, e).req = r
      BY DEF Err
  <2> QED BY <2>1, NoneIsNoError DEF Good
<1>5. "OAuthRefreshError" \in ProcessError /\ "InvalidPayload" \in ProcessError
    BY DEF ProcessError
<1> HIDE DEF inserted, res
<1>6. Good(res, r, p)
    BY <1>2, <1>3, <1>4, <1>5
<1> QED BY <1>6 DEF res

\* HmacProcessor, in either phase.
LEMMA HmacGood ==
    ASSUME NEW r, IsRequest(r), NEW p, p.type = "inject_hmac", NEW payload, NEW t
    PROVE  Good(ProcessHmac(p, r, payload, t), r, p)
<1> DEFINE res == ProcessHmac(p, r, payload, t)
           stamped == WithTimestamp(p, r, t)
           signature == SignHex(p, payload.secret, Canonical(p.signed, stamped, BodyHash(p, stamped)))
           signed == Insert(stamped, p.signature, signature)
<1>0. Writes(p) = {p.signature, p.timestamp}
    BY DEF Writes
<1>1. CASE p.signature \in HeaderName /\ p.timestamp \in HeaderName \cup {None}
  <2>1. res.error = None /\ res.req = signed
      BY <1>1 DEF ProcessHmac, Ok, Signed
  <2>2. ProxyMade(signature)
      BY DEF SignHex, ProxyMade
  <2>3. ProxyMade(<<"time", t>>)
      BY DEF ProxyMade
  <2>4. /\ IsRequest(stamped) /\ Keeps(r, stamped)
        /\ p.timestamp # None => Has(stamped, p.timestamp) /\ ProxyMade(stamped.headers[p.timestamp])
    <3>1. CASE p.timestamp = None
      <4>1. stamped = r
          BY <3>1 DEF WithTimestamp
      <4> QED BY <3>1, <4>1 DEF Keeps
    <3>2. CASE p.timestamp # None
      <4>1. stamped = Insert(r, p.timestamp, <<"time", t>>)
          BY <3>2 DEF WithTimestamp
      <4> HIDE DEF stamped
      <4> QED BY <2>3, <4>1, InsertKeeps
    <3> QED BY <3>1, <3>2
  <2> HIDE DEF signature, stamped
  <2>5. IsRequest(signed) /\ Keeps(stamped, signed) /\ Has(signed, p.signature) /\ ProxyMade(signed.headers[p.signature])
      BY <2>2, <2>4, InsertKeeps
  <2> HIDE DEF signed, res
  <2>6. Keeps(r, signed)
      BY <2>4, <2>5, KeepsComposes
  <2>7. ASSUME NEW h \in (Writes(p) \cap HeaderName) \ {TokenName}
        PROVE  Has(signed, h) /\ ProxyMade(signed.headers[h])
    <3>1. CASE h = p.signature
        BY <2>5, <3>1
    <3>2. CASE h = p.timestamp
      <4>1. p.timestamp # None
          BY <3>2, ProcessorAssumption
      <4> QED BY <2>4, <2>5, <3>2, <4>1 DEF Keeps
    <3> QED BY <1>0, <3>1, <3>2
  <2>8. Good(res, r, p)
      BY <2>1, <2>5, <2>6, <2>7 DEF Good, Filled
  <2> QED BY <2>8 DEF res
<1>2. CASE ~(p.signature \in HeaderName /\ p.timestamp \in HeaderName \cup {None})
  <2>1. res.error = "ConfigError" /\ res.req = r
      BY <1>2 DEF ProcessHmac, Err
  <2> HIDE DEF res
  <2>2. Good(res, r, p)
      BY <2>1, NoneIsNoError DEF Good, ProcessError
  <2> QED BY <2>2 DEF res
<1> QED BY <1>1, <1>2

\* Sigv4Processor
LEMMA Sigv4Good ==
    ASSUME NEW r, IsRequest(r), NEW p, p.type = "sigv4", NEW payload
    PROVE  Good(ProcessSigv4(p, r, payload), r, p)
<1> DEFINE res == ProcessSigv4(p, r, payload)
           own == r.headers["authorization"]
           stripped == Without(r, "x-tokenizer-token")
           names == HeadersToSign(own[4], stripped)
           signature == AwsSign(payload.secret, own[3], stripped, names, SignableBody(stripped))
           value == Aws4(p.access_key, own[3], names, signature)
           i == Insert(stripped, "authorization", value)
<1>0. Writes(p) = {"authorization", TokenName}
    BY DEF Writes, TokenName
<1>1. CASE Sigv4Parses(r)
  <2>1. res.error = None /\ res.req = i
      BY <1>1 DEF ProcessSigv4, Ok
  <2>2. signature # <<>>
      BY DEF AwsSign
  <2> HIDE DEF signature
  <2>3. ProxyMade(value)
      BY <2>2 DEF ProxyMade, Aws4
  <2> HIDE DEF value
  <2>4. /\ IsRequest(stripped)
        /\ DOMAIN stripped.headers = DOMAIN r.headers \ {TokenName}
        /\ \A h \in DOMAIN r.headers \ {TokenName} : stripped.headers[h] = r.headers[h]
      BY Removed DEF TokenName
  <2> HIDE DEF stripped
  <2>5. Keeps(r, stripped)
      BY <2>4 DEF Keeps, Has, Clean
  <2>6. IsRequest(i) /\ Keeps(stripped, i) /\ Has(i, "authorization") /\ ProxyMade(i.headers["authorization"])
      BY <2>3, <2>4, InsertKeeps
  <2> HIDE DEF i, res
  <2>7. Keeps(r, i)
      BY <2>5, <2>6, KeepsComposes
  <2>8. Good(res, r, p)
      BY <1>0, <2>1, <2>6, <2>7 DEF Good, Filled
  <2> QED BY <2>8 DEF res
<1>2. CASE ~Sigv4Parses(r)
  <2>1. res.error = "InvalidPayload" /\ res.req = r
      BY <1>2 DEF ProcessSigv4, Err
  <2> HIDE DEF res
  <2>2. Good(res, r, p)
      BY <2>1, NoneIsNoError DEF Good, ProcessError
  <2> QED BY <2>2 DEF res
<1> QED BY <1>1, <1>2

\* InjectBodyProcessor
LEMMA InjectBodyGood ==
    ASSUME NEW r, IsRequest(r), NEW p, p.type = "inject_body", NEW payload
    PROVE  Good(ProcessInjectBody(p, r, payload), r, p)
<1> DEFINE res == ProcessInjectBody(p, r, payload)
           body == Replaced(p, r.body, payload.secret)
           value == <<"length", Length(body)>>
           i == Insert(r, "content-length", value)
           sent == [i EXCEPT !.body = body]
<1>1. res.error = None /\ res.req = sent
    BY DEF ProcessInjectBody, Ok
<1>2. ProxyMade(value)
    BY DEF ProxyMade
<1> HIDE DEF value, body
<1>3. IsRequest(i) /\ Keeps(r, i) /\ Has(i, "content-length") /\ ProxyMade(i.headers["content-length"])
    BY <1>2, InsertKeeps
<1> HIDE DEF i
<1>4. IsRequest(sent) /\ sent.headers = i.headers
    BY <1>3 DEF IsRequest
<1> HIDE DEF sent
<1>5. Keeps(r, sent) /\ Has(sent, "content-length") /\ ProxyMade(sent.headers["content-length"])
    BY <1>3, <1>4 DEF Keeps, Has, Clean
<1>6. Writes(p) \cap HeaderName \subseteq {"content-length"}
    BY ExchangeAssumption DEF Writes
<1>7. Filled(sent, p)
    BY <1>5, <1>6 DEF Filled
<1> HIDE DEF res
<1>8. Good(res, r, p)
    BY <1>1, <1>4, <1>5, <1>7 DEF Good
<1> QED BY <1>8 DEF res

\* One processor of a chain, and the body processor.
LEMMA ProcessOneGood ==
    ASSUME NEW r, IsRequest(r), NEW p, p.type \in ProcessorType, ~NeedsBody(p), NEW payload, NEW t
    PROVE  Good(ProcessOne(p, r, payload, t), r, p)
<1>1. CASE p.type = "inject"
  <2>1. Writes(p) = {p.header}
      BY <1>1 DEF Writes
  <2>2. ProcessOne(p, r, payload, t) = InsertSecret(r, p.header, p.prefix, payload.secret)
      BY <1>1 DEF ProcessOne
  <2> QED BY <2>1, <2>2, InsertSecretGood
<1>2. CASE p.type = "inject_hmac"
  <2>1. ProcessOne(p, r, payload, t) = ProcessHmac(p, r, payload, t)
      BY <1>2 DEF ProcessOne
  <2> QED BY <1>2, <2>1, HmacGood
<1>3. CASE p.type = "oauth"
  <2>1. ProcessOne(p, r, payload, t) = ProcessOAuth(p, r, payload, t)
      BY <1>3 DEF ProcessOne
  <2> QED BY <1>3, <2>1, OAuthGood
<1>4. CASE p.type = "sigv4"
  <2>1. ProcessOne(p, r, payload, t) = ProcessSigv4(p, r, payload)
      BY <1>4 DEF ProcessOne
  <2> QED BY <1>4, <2>1, Sigv4Good
<1> QED BY <1>1, <1>2, <1>3, <1>4 DEF ProcessorType, NeedsBody

\* The parts of a configuration that passes MultiProcessorConfig::validate are no chains.
LEMMA PartsAreProcessors ==
    ASSUME NEW p, IsProcessorConfig(p), Valid(p)
    PROVE  /\ Len(Parts(p)) \in Nat /\ DOMAIN Parts(p) = 1..Len(Parts(p))
           /\ \A i \in DOMAIN Parts(p) : Parts(p)[i].type \in ProcessorType
           /\ \A i, j \in DOMAIN Parts(p) : NeedsBody(Parts(p)[i]) /\ NeedsBody(Parts(p)[j]) => i = j
<1>1. CASE p.type = "multi"
  <2>1. Parts(p) = p.processors
      BY <1>1 DEF Parts
  <2>2. p.type \notin ProcessorType
      BY <1>1 DEF ProcessorType
  <2> QED BY <1>1, <2>1, <2>2 DEF IsProcessorConfig, Valid
<1>2. CASE p.type # "multi"
  <2>1. Parts(p) = <<p>> /\ p.type \in ProcessorType
      BY <1>2 DEF Parts, IsProcessorConfig
  <2>2. Len(<<p>>) = 1 /\ DOMAIN <<p>> = 1..1 /\ <<p>>[1] = p
      OBVIOUS
  <2> QED BY <2>1, <2>2
<1> QED BY <1>1, <1>2

\* The body processor runs after the others, and fills its headers too.
LEMMA ProcessBodyGood ==
    ASSUME NEW p, IsProcessorConfig(p), Valid(p), IsBodyProcessor(p),
           NEW r, IsRequest(r), NEW payload, NEW t
    PROVE  /\ Good(ProcessBody(p, r, payload, t), r, BodyPart(p))
           /\ \A i \in DOMAIN Parts(p) : NeedsBody(Parts(p)[i]) => Parts(p)[i] = BodyPart(p)
<1> DEFINE b == CHOOSE i \in DOMAIN Parts(p) : NeedsBody(Parts(p)[i])
<1>1. b \in DOMAIN Parts(p) /\ NeedsBody(Parts(p)[b])
    BY DEF IsBodyProcessor
<1>2. BodyPart(p) = Parts(p)[b]
    BY DEF BodyPart
<1> HIDE DEF b
<1>3. \A i \in DOMAIN Parts(p) : NeedsBody(Parts(p)[i]) => Parts(p)[i] = BodyPart(p)
    BY <1>1, <1>2, PartsAreProcessors
<1> DEFINE q == BodyPart(p)
<1>4. NeedsBody(q)
    BY <1>1, <1>2
<1>5. CASE q.type = "inject_body"
  <2>1. ProcessBody(p, r, payload, t) = ProcessInjectBody(q, r, payload)
      BY <1>5 DEF ProcessBody
  <2> HIDE DEF q
  <2> QED BY <1>3, <1>5, <2>1, InjectBodyGood DEF q
<1>6. CASE q.type # "inject_body"
  <2>1. ProcessBody(p, r, payload, t) = ProcessHmac(q, r, payload, t)
      BY <1>6 DEF ProcessBody
  <2>2. q.type = "inject_hmac"
      BY <1>4, <1>6 DEF NeedsBody
  <2> HIDE DEF q
  <2> QED BY <1>3, <2>1, <2>2, HmacGood DEF q
<1> QED BY <1>5, <1>6

IsLoop(f, n, p, r, payload, t) ==
    /\ DOMAIN f = 0..n
    /\ f[0] = Ok(r)
    /\ \A i \in 1..n : f[i] = ProcessNext(f[i - 1], Parts(p)[i], payload, t)

LEMMA LoopExists ==
    ASSUME NEW p, NEW r, NEW payload, NEW t, NEW n \in Nat
    PROVE  \E f : IsLoop(f, n, p, r, payload, t)
<1> DEFINE T == {m \in Nat : ~ \E f : IsLoop(f, m, p, r, payload, t)}
<1> SUFFICES ASSUME T # {} PROVE FALSE
    OBVIOUS
<1>1. PICK m \in T : \A k \in T : m <= k
    BY Least
<1>2. CASE m = 0
  <2> DEFINE f == [i \in 0..0 |-> Ok(r)]
  <2>1. IsLoop(f, 0, p, r, payload, t)
      BY DEF IsLoop
  <2> QED BY <1>1, <1>2, <2>1
<1>3. CASE m # 0
  <2>1. m \in Nat /\ m - 1 \in Nat /\ m - 1 \notin T
      BY <1>1, <1>3
  <2>2. PICK g : IsLoop(g, m - 1, p, r, payload, t)
      BY <2>1
  <2> DEFINE f == [i \in 0..m |-> IF i = m THEN ProcessNext(g[m - 1], Parts(p)[m], payload, t) ELSE g[i]]
  <2>3. DOMAIN f = 0..m /\ f[0] = Ok(r)
      BY <1>3, <2>1, <2>2 DEF IsLoop
  <2>4. ASSUME NEW i \in 1..m PROVE f[i] = ProcessNext(f[i - 1], Parts(p)[i], payload, t)
    <3>1. CASE i = m
        BY <2>1, <3>1
    <3>2. CASE i # m
      <4>1. i \in 1..(m - 1) /\ i - 1 \in 0..m /\ i - 1 # m
          BY <2>1, <3>2
      <4> QED BY <2>2, <4>1 DEF IsLoop
    <3> QED BY <3>1, <3>2
  <2> HIDE DEF f
  <2>5. IsLoop(f, m, p, r, payload, t)
      BY <2>3, <2>4 DEF IsLoop
  <2> QED BY <1>1, <2>5
<1> QED BY <1>2, <1>3

\* The loop of Processor::process goes as it is written.
LEMMA LoopUnfolds ==
    ASSUME NEW p, NEW r, NEW payload, NEW t, Len(Parts(p)) \in Nat
    PROVE  IsLoop(Loop(p, r, payload, t), Len(Parts(p)), p, r, payload, t)
<1> DEFINE n == Len(Parts(p))
           Body(f) == [i \in 0..n |-> IF i = 0 THEN Ok(r)
                                      ELSE ProcessNext(f[i - 1], Parts(p)[i], payload, t)]
<1>1. PICK g : IsLoop(g, n, p, r, payload, t)
    BY LoopExists
<1> DEFINE f == [i \in 0..n |-> g[i]]
<1>2. f = Body(f)
  <2>1. ASSUME NEW i \in 0..n PROVE f[i] = Body(f)[i]
      <3>1. CASE i = 0 BY <1>1, <3>1 DEF IsLoop
      <3>2. CASE i # 0
        <4>1. i \in 1..n /\ i - 1 \in 0..n BY <3>2
        <4>2. f[i] = g[i] /\ f[i-1] = g[i-1] BY <4>1
        <4>3. g[i] = ProcessNext(g[i - 1], Parts(p)[i], payload, t) BY <1>1, <4>1 DEF IsLoop
        <4> HIDE DEF f
        <4> QED BY <3>2, <4>1, <4>2, <4>3
      <3> QED BY <3>1, <3>2
  <2> QED BY <2>1, Zenon
<1>3. Loop(p, r, payload, t) = CHOOSE h : h = Body(h)
    BY DEF Loop
<1>4. Loop(p, r, payload, t) = Body(Loop(p, r, payload, t))
  <2> HIDE DEF Body, f
  <2> QED BY <1>2, <1>3, Zenon
<1> DEFINE l == Loop(p, r, payload, t)
<1>5. l = Body(l) BY <1>4
<1> HIDE DEF l
<1> SUFFICES IsLoop(l, n, p, r, payload, t) BY DEF l
<1>6. DOMAIN l = 0..n /\ 0 \in 0..n BY <1>5
<1>7. \A i \in 0..n : l[i] = IF i = 0 THEN Ok(r) ELSE ProcessNext(l[i - 1], Parts(p)[i], payload, t)
    BY <1>5
<1> QED BY <1>6, <1>7 DEF IsLoop

\* Processor::process: its error, if it has one, is one of the processors'; without an
\* error every processor that does not need the body has filled its headers, and the
\* client's token has not come back.
LEMMA ProcessGood ==
    ASSUME NEW p, IsProcessorConfig(p), Valid(p),
           NEW r, IsRequest(r), Clean(r), NEW payload, NEW t
    PROVE  LET res == Process(p, r, payload, t)
           IN /\ res.error \in ProcessError \cup {None}
              /\ IsRequest(res.req)
              /\ res.error = None =>
                    /\ Clean(res.req)
                    /\ \A i \in DOMAIN Parts(p) :
                          ~NeedsBody(Parts(p)[i]) => Filled(res.req, Parts(p)[i])
<1> DEFINE n == Len(Parts(p))
           f == Loop(p, r, payload, t)
           Part(i) == Parts(p)[i]
           Done(res, k) ==
               /\ res.error \in ProcessError \cup {None}
               /\ IsRequest(res.req)
               /\ res.error = None =>
                     /\ Clean(res.req)
                     /\ \A i \in 1..k : ~NeedsBody(Part(i)) => Filled(res.req, Part(i))
           T == {k \in 0..n : ~Done(f[k], k)}
<1>1. n \in Nat /\ DOMAIN Parts(p) = 1..n /\ \A i \in 1..n : Part(i).type \in ProcessorType
    BY PartsAreProcessors
<1>2. f[0] = Ok(r) /\ \A i \in 1..n : f[i] = ProcessNext(f[i - 1], Part(i), payload, t)
    BY <1>1, LoopUnfolds DEF IsLoop
<1> HIDE DEF f, n, Part
<1>3. Done(f[0], 0)
    BY <1>2 DEF Ok
<1>4. ASSUME NEW k \in 1..n, Done(f[k - 1], k - 1)
      PROVE  Done(f[k], k)
  <2> DEFINE before == f[k - 1]
             q == Part(k)
  <2>1. f[k] = ProcessNext(before, q, payload, t) /\ q.type \in ProcessorType
      BY <1>1, <1>2
  <2>2. Done(before, k - 1)
      BY <1>4
  <2>0. \A i \in 1..k : i \in 1..(k - 1) \/ i = k
      BY <1>1
  <2> HIDE DEF before
  <2>3. CASE before.error # None
    <3>1. f[k] = before
        BY <2>1, <2>3 DEF ProcessNext
    <3> QED BY <2>2, <2>3, <3>1
  <2>4. CASE before.error = None /\ NeedsBody(q)
    <3>1. f[k] = before
        BY <2>1, <2>4 DEF ProcessNext
    <3> QED BY <2>0, <2>2, <2>4, <3>1
  <2>5. CASE before.error = None /\ ~NeedsBody(q)
    <3> DEFINE res == f[k]
    <3>1. res = ProcessOne(q, before.req, payload, t)
        BY <2>1, <2>5 DEF ProcessNext
    <3>2. Good(res, before.req, q)
        BY <2>1, <2>2, <2>5, <3>1, ProcessOneGood
    <3> HIDE DEF res, q
    <3>3. ASSUME res.error = None, NEW i \in 1..k, ~NeedsBody(Part(i))
          PROVE  Filled(res.req, Part(i))
      <4>1. CASE i = k
          BY <3>2, <3>3, <4>1 DEF Good, q
      <4>2. CASE i \in 1..(k - 1)
        <5>1. Filled(before.req, Part(i))
            BY <2>2, <2>5, <3>3, <4>2
        <5>2. Keeps(before.req, res.req)
            BY <3>2, <3>3 DEF Good
        <5> QED BY <5>1, <5>2 DEF Filled, Keeps
      <4> QED BY <2>0, <4>1, <4>2
    <3>4. res.error = None => Clean(res.req)
        BY <2>2, <2>5, <3>2 DEF Good, Keeps
    <3>5. Done(res, k)
        BY <3>2, <3>3, <3>4 DEF Good
    <3> QED BY <3>5 DEF res
  <2> QED BY <2>3, <2>4, <2>5
<1> HIDE DEF Done
<1>5. T = {}
  <2> SUFFICES ASSUME T # {} PROVE FALSE
      OBVIOUS
  <2>1. T \in SUBSET Nat
      BY <1>1
  <2>2. PICK m \in T : \A k \in T : m <= k
      BY <2>1, Least
  <2>3. m # 0
      BY <1>3
  <2>4. m \in 1..n /\ m - 1 \in 0..n /\ m - 1 \notin T
      BY <1>1, <2>2, <2>3
  <2>5. Done(f[m - 1], m - 1)
      BY <2>4
  <2> QED BY <1>4, <2>4, <2>5
<1>6. Done(f[n], n)
    BY <1>1, <1>5
<1>7. Process(p, r, payload, t) = f[n]
    BY DEF Process, f, n
<1> QED BY <1>1, <1>6, <1>7 DEF Done, Part

-----------------------------------------------------------------------------
(* What the headers say                                                    *)

\* s is r but for the headers in W.
Agree(r, s, W) ==
    /\ s.line = r.line
    /\ \A h : h \notin W => (Has(s, h) <=> Has(r, h)) /\ (Has(r, h) => s.headers[h] = r.headers[h])

LEMMA InsertAgrees ==
    ASSUME NEW r, IsRequest(r), NEW name, NEW value
    PROVE  LET i == Insert(r, name, value)
           IN /\ IsRequest(i) /\ i.body = r.body /\ Agree(r, i, {name})
              /\ Has(i, name) /\ i.headers[name] = value
<1> PICK i : i = Insert(r, name, value)
    OBVIOUS
<1>1. /\ IsRequest(i) /\ i.line = r.line /\ i.body = r.body
      /\ DOMAIN i.headers = DOMAIN r.headers \cup {name}
      /\ i.headers[name] = value
      /\ \A h \in DOMAIN r.headers \ {name} : i.headers[h] = r.headers[h]
    BY Inserted
<1> QED BY <1>1 DEF Agree, Has

LEMMA WithoutAgrees ==
    ASSUME NEW r, IsRequest(r), NEW name
    PROVE  LET w == Without(r, name)
           IN IsRequest(w) /\ w.body = r.body /\ Agree(r, w, {name}) /\ ~Has(w, name)
<1> PICK w : w = Without(r, name)
    OBVIOUS
<1>1. /\ IsRequest(w) /\ w.line = r.line /\ w.body = r.body
      /\ DOMAIN w.headers = DOMAIN r.headers \ {name}
      /\ \A h \in DOMAIN r.headers \ {name} : w.headers[h] = r.headers[h]
    BY Removed
<1> QED BY <1>1 DEF Agree, Has

\* What a canonical request is made of is what the signature covers.
LEMMA CanonicalAgrees ==
    ASSUME NEW r, NEW s, NEW W, Agree(r, s, W), NEW signed, signed \cap W = {}, NEW hash
    PROVE  Canonical(signed, s, hash) = Canonical(signed, r, hash)
<1> DEFINE Names(q) == {n \in signed : Has(q, n) /\ IsText(q.headers[n])}
<1>1. \A n \in signed : (Has(s, n) <=> Has(r, n)) /\ (Has(r, n) => s.headers[n] = r.headers[n])
    BY DEF Agree
<1>2. Names(s) = Names(r)
    BY <1>1
<1>3. \A n \in Names(r) : s.headers[n] = r.headers[n]
    BY <1>1
<1>4. [h \in Names(s) |-> s.headers[h]] = [h \in Names(r) |-> r.headers[h]]
  <2> HIDE DEF Names
  <2> QED BY <1>2, <1>3
<1>5. s.line = r.line
    BY DEF Agree
<1> QED BY <1>4, <1>5, Zenon DEF Canonical

LEMMA AwsSignAgrees ==
    ASSUME NEW r, NEW s, NEW W, Agree(r, s, W), NEW names, NEW secret, NEW scope, NEW hash,
           \A n \in names \cup {"x-amz-date"} : n \notin W /\ Has(r, n)
    PROVE  AwsSign(secret, scope, s, names, hash) = AwsSign(secret, scope, r, names, hash)
<1> DEFINE Values(q) == [h \in names \cup {"x-amz-date"} |-> q.headers[h]]
<1>1. \A n \in names \cup {"x-amz-date"} : s.headers[n] = r.headers[n]
    BY DEF Agree
<1>2. Values(s) = Values(r)
    BY <1>1
<1>3. s.line = r.line
    BY DEF Agree
<1>4. \A q : AwsSign(secret, scope, q, names, hash) = <<secret, scope, q.line, Values(q), hash>>
    BY Zenon DEF AwsSign
<1> HIDE DEF Values
<1> QED BY <1>2, <1>3, <1>4

\* What the upstream takes for the hash of the payload is in what a signature covers.
LEMMA PayloadAgrees ==
    ASSUME NEW r, NEW s, NEW W, Agree(r, s, W), "x-amz-content-sha256" \notin W, s.body = r.body
    PROVE  PayloadHash(s) = PayloadHash(r) /\ (PayloadTold(s) <=> PayloadTold(r))
<1>1. /\ Has(s, "x-amz-content-sha256") <=> Has(r, "x-amz-content-sha256")
      /\ Has(r, "x-amz-content-sha256") =>
            s.headers["x-amz-content-sha256"] = r.headers["x-amz-content-sha256"]
    BY DEF Agree
<1> QED BY <1>1 DEF PayloadHash, PayloadTold

\* r comes from the client's request `in`: its body is the client's, and
\* a hash or a list of signed headers in it is the client's.
Descends(r, in) ==
    /\ r.body = in.body
    /\ Text(r, "x-amz-content-sha256", "sha256") =>
          /\ Text(in, "x-amz-content-sha256", "sha256")
          /\ r.headers["x-amz-content-sha256"] = in.headers["x-amz-content-sha256"]
    /\ Text(r, "authorization", "aws4") =>
          /\ Text(in, "authorization", "aws4")
          /\ r.headers["authorization"][4] \subseteq in.headers["authorization"][4]

\* A signature that sigv4 made is for headers of the client's list, which are there.
Listed(p, r, in) ==
    p.type = "sigv4" =>
        /\ Text(r, "authorization", "aws4") /\ Has(r, "x-amz-date")
        /\ \A n \in r.headers["authorization"][4] : Has(r, n)
        /\ Text(in, "authorization", "aws4")
        /\ r.headers["authorization"][4] \subseteq in.headers["authorization"][4]

\* sigv4 signs the hash that the upstream takes.
Verifiable(p, r) == p.type = "sigv4" => PayloadTold(r)

\* What a processor leaves behind: its signature holds, unless it signs itself.
Signs(p, r, in, secret) == (Verifiable(p, r) => SignatureHolds(p, r, secret)) /\ Listed(p, r, in)

\* A signature goes on holding if nothing that it covers is written.
LEMMA SignatureStays ==
    ASSUME NEW p, p.type \in ProcessorType, NEW r, NEW s, NEW in, NEW secret, NEW W,
           Signs(p, r, in, secret), Agree(r, s, W), W \cap Covers(p, in) = {},
           TheBody \notin W => s.body = r.body
    PROVE  Signs(p, s, in, secret)
<1>1. CASE p.type = "inject_hmac"
  <2>1. p.signed \cap W = {} /\ p.signature \notin W /\ (p.sign_body => TheBody \notin W)
      BY <1>1 DEF Covers
  <2>2. Has(r, p.signature)
        /\ r.headers[p.signature] = SignHex(p, secret, Canonical(p.signed, r, BodyHash(p, r)))
      BY <1>1 DEF Signs, SignatureHolds, Verifiable
  <2>3. Has(s, p.signature) /\ s.headers[p.signature] = r.headers[p.signature]
      BY <2>1, <2>2 DEF Agree
  <2>4. BodyHash(p, s) = BodyHash(p, r)
      BY <2>1 DEF BodyHash
  <2>5. Canonical(p.signed, s, BodyHash(p, r)) = Canonical(p.signed, r, BodyHash(p, r))
      BY <2>1, CanonicalAgrees
  <2>6. SignatureHolds(p, s, secret)
      BY <1>1, <2>2, <2>3, <2>4, <2>5 DEF SignatureHolds
  <2> QED BY <1>1, <2>6 DEF Signs, Listed
<1>2. CASE p.type = "sigv4"
  <2> PICK sent : sent = r.headers["authorization"]
      OBVIOUS
  <2>1. /\ Text(r, "authorization", "aws4") /\ Has(r, "x-amz-date") /\ Text(in, "authorization", "aws4")
        /\ \A n \in sent[4] : Has(r, n)
        /\ sent[4] \subseteq in.headers["authorization"][4]
      BY <1>2 DEF Signs, Listed
  <2>2. Covers(p, in) = {"authorization", "x-amz-date", "x-amz-content-sha256", TheBody}
                            \cup in.headers["authorization"][4]
      BY <1>2, <2>1 DEF Covers
  <2>3. PayloadTold(r) =>
            /\ sent[2] = p.access_key
            /\ sent[5] = AwsSign(secret, sent[3], r, sent[4], PayloadHash(r))
            /\ Text(r, "x-amz-content-sha256", "sha256") => r.headers["x-amz-content-sha256"][2] = r.body
      BY <1>2 DEF Signs, SignatureHolds, Verifiable
  <2>4. (sent[4] \cup {"x-amz-date", "x-amz-content-sha256"}) \cap W = {} /\ "authorization" \notin W
      BY <2>1, <2>2
  <2> PICK names, scope, hash : names = sent[4] /\ scope = sent[3] /\ hash = PayloadHash(r)
      OBVIOUS
  <2>5. AwsSign(secret, scope, s, names, hash) = AwsSign(secret, scope, r, names, hash)
      BY <2>1, <2>4, AwsSignAgrees
  <2>6. \A h \in {"authorization", "x-amz-date", "x-amz-content-sha256"} :
            (Has(s, h) <=> Has(r, h)) /\ (Has(r, h) => s.headers[h] = r.headers[h])
      BY <2>4 DEF Agree
  <2>7. s.headers["authorization"] = sent /\ Text(s, "authorization", "aws4") /\ Has(s, "x-amz-date")
      BY <2>1, <2>6 DEF Text
  <2>8. s.body = r.body
      BY <2>2
  <2>9. PayloadTold(r) /\ Text(s, "x-amz-content-sha256", "sha256")
            => s.headers["x-amz-content-sha256"][2] = s.body
      BY <2>3, <2>6, <2>8 DEF Text
  <2>9a. PayloadHash(s) = hash /\ (PayloadTold(s) <=> PayloadTold(r))
      BY <2>4, <2>8, PayloadAgrees
  <2>10. PayloadTold(s) => SignatureHolds(p, s, secret)
      BY <1>2, <2>3, <2>5, <2>7, <2>9, <2>9a DEF SignatureHolds
  <2>11. \A n \in sent[4] : Has(s, n)
      BY <2>1, <2>4 DEF Agree
  <2>12. Listed(p, s, in)
      BY <2>1, <2>7, <2>11 DEF Listed
  <2> QED BY <1>2, <2>10, <2>12 DEF Signs, Verifiable
<1>3. CASE p.type \notin {"inject_hmac", "sigv4"}
    BY <1>3 DEF Signs, SignatureHolds, Listed
<1> QED BY <1>1, <1>2, <1>3

\* A header that is no hash and no list of signed headers leaves the client's alone.
LEMMA InsertDescends ==
    ASSUME NEW r, IsRequest(r), NEW in, Descends(r, in), NEW name, NEW value,
           value[1] \notin {"sha256", "aws4"}
    PROVE  Descends(Insert(r, name, value), in)
<1> PICK i : i = Insert(r, name, value)
    OBVIOUS
<1>1. i.body = r.body /\ Agree(r, i, {name}) /\ Has(i, name) /\ i.headers[name] = value
    BY InsertAgrees
<1>2. ASSUME NEW h, NEW tag \in {"sha256", "aws4"}, Text(i, h, tag)
      PROVE  Text(r, h, tag) /\ i.headers[h] = r.headers[h]
  <2>1. h # name
      BY <1>1, <1>2 DEF Text
  <2> QED BY <1>1, <1>2, <2>1 DEF Text, Agree
<1>3. Descends(i, in)
    BY <1>1, <1>2 DEF Descends
<1> QED BY <1>3

\* What one processor does to a request that comes from the client's.
Tells(res, r, p, in, secret) ==
    res.error = None =>
        /\ Agree(r, res.req, Writes(p)) /\ res.req.body = r.body /\ Descends(res.req, in)
        /\ ~SignsItself(p) => Signs(p, res.req, in, secret)

LEMMA InsertSecretTells ==
    ASSUME NEW r, IsRequest(r), NEW in, Descends(r, in), NEW p,
           Writes(p) = {p.header}, p.type # "inject_hmac", p.type # "sigv4", NEW prefix, NEW secret
    PROVE  Tells(InsertSecret(r, p.header, prefix, secret), r, p, in, secret)
<1> PICK value : value = <<"secret", prefix, secret>>
    OBVIOUS
<1> PICK res, i : res = InsertSecret(r, p.header, prefix, secret) /\ i = Insert(r, p.header, value)
    OBVIOUS
<1>2. value[1] \notin {"sha256", "aws4"}
    OBVIOUS
<1>3. res = Ok(i) \/ res = Err(r, "ConfigError")
    BY DEF InsertSecret
<1>4. i.body = r.body /\ Agree(r, i, {p.header})
    BY InsertAgrees
<1>4a. Descends(i, in)
    BY <1>2, InsertDescends
<1>5. Signs(p, i, in, secret)
    BY DEF Signs, SignatureHolds, Listed
<1>6. CASE res = Ok(i)
  <2>1. res.req = i
      BY <1>6 DEF Ok
  <2> QED BY <1>4, <1>4a, <1>5, <2>1 DEF Tells
<1>7. CASE res = Err(r, "ConfigError")
  <2>1. res.error # None
      BY <1>7, NoneIsNoError DEF Err, ProcessError
  <2> QED BY <2>1 DEF Tells
<1> QED BY <1>3, <1>6, <1>7

LEMMA OAuthTells ==
    ASSUME NEW r, IsRequest(r), NEW in, Descends(r, in), NEW p, p.type = "oauth", NEW payload, NEW t
    PROVE  Tells(ProcessOAuth(p, r, payload, t), r, p, in, payload.secret)
<1> PICK res, inserted : /\ res = ProcessOAuth(p, r, payload, t)
                         /\ inserted = InsertSecret(r, p.header, "Bearer ", payload.secret)
    OBVIOUS
<1>1. Tells(inserted, r, p, in, payload.secret)
  <2>1. Writes(p) = {p.header} /\ p.type # "inject_hmac" /\ p.type # "sigv4"
      BY DEF Writes
  <2> PICK prefix, secret : prefix = "Bearer " /\ secret = payload.secret
      OBVIOUS
  <2>2. Tells(InsertSecret(r, p.header, prefix, secret), r, p, in, secret)
      BY <2>1, InsertSecretTells
  <2> QED BY <2>2
<1>2. \/ res = inserted
      \/ res = Err(r, "OAuthRefreshError")
      \/ res = Err(r, "InvalidPayload")
    BY DEF ProcessOAuth
<1>3. CASE res # inserted
  <2>1. res.error \in ProcessError
    <3>1. \A e : Err(r, e).error = e
        BY DEF Err
    <3> QED BY <1>2, <1>3, <3>1 DEF ProcessError
  <2>2. res.error # None
      BY <2>1, NoneIsNoError
  <2> QED BY <2>2 DEF Tells
<1> QED BY <1>1, <1>3

\* The signature is computed from the request it is then put into.
LEMMA HmacTells ==
    ASSUME NEW r, IsRequest(r), NEW in, Descends(r, in), NEW p, p.type = "inject_hmac",
           NEW payload, NEW t
    PROVE  Tells(ProcessHmac(p, r, payload, t), r, p, in, payload.secret)
<1> PICK res, u, signature, i :
        /\ res = ProcessHmac(p, r, payload, t) /\ u = WithTimestamp(p, r, t)
        /\ signature = SignHex(p, payload.secret, Canonical(p.signed, u, BodyHash(p, u)))
        /\ i = Insert(u, p.signature, signature)
    OBVIOUS
<1>1. Writes(p) = {p.signature, p.timestamp}
    BY DEF Writes
<1>2. IsRequest(u) /\ u.body = r.body /\ Agree(r, u, {p.timestamp}) /\ Descends(u, in)
  <2>1. CASE p.timestamp = None
    <3>1. u = r
        BY <2>1 DEF WithTimestamp
    <3> QED BY <3>1 DEF Agree
  <2>2. CASE p.timestamp # None
    <3> PICK time : time = <<"time", t>>
        OBVIOUS
    <3>1. u = Insert(r, p.timestamp, time)
        BY <2>2 DEF WithTimestamp
    <3>2. time[1] \notin {"sha256", "aws4"}
        OBVIOUS
    <3> QED BY <3>1, <3>2, InsertAgrees, InsertDescends
  <2> QED BY <2>1, <2>2
<1>3. signature[1] \notin {"sha256", "aws4"}
    BY DEF SignHex
<1>4. /\ i.body = u.body /\ Agree(u, i, {p.signature})
      /\ Has(i, p.signature) /\ i.headers[p.signature] = signature
    BY <1>2, InsertAgrees
<1>4a. Descends(i, in)
    BY <1>2, <1>3, InsertDescends
<1>5. Agree(r, i, Writes(p))
    BY <1>1, <1>2, <1>4 DEF Agree
<1>6. ASSUME ~SignsItself(p) PROVE Signs(p, i, in, payload.secret)
  <2>1. p.signed \cap {p.signature} = {}
      BY <1>6 DEF SignsItself
  <2>2. BodyHash(p, i) = BodyHash(p, u)
      BY <1>4 DEF BodyHash
  <2>3. Canonical(p.signed, i, BodyHash(p, u)) = Canonical(p.signed, u, BodyHash(p, u))
      BY <1>4, <2>1, CanonicalAgrees
  <2>4. SignatureHolds(p, i, payload.secret)
      BY <1>4, <2>2, <2>3 DEF SignatureHolds
  <2> QED BY <2>4 DEF Signs, Listed
<1>7. res = Ok(i) \/ res = Err(r, "ConfigError")
    BY DEF ProcessHmac, Signed
<1>8. CASE res = Ok(i)
  <2>1. res.req = i
      BY <1>8 DEF Ok
  <2> QED BY <1>2, <1>4, <1>4a, <1>5, <1>6, <2>1 DEF Tells
<1>9. CASE res = Err(r, "ConfigError")
  <2>1. res.error # None
      BY <1>9, NoneIsNoError DEF Err, ProcessError
  <2> QED BY <2>1 DEF Tells
<1> QED BY <1>7, <1>8, <1>9

\* The client's list, without authorization, is signed over the request that is sent.
LEMMA Sigv4Tells ==
    ASSUME NEW r, IsRequest(r), NEW in, Descends(r, in), Truthful(in), NEW p, p.type = "sigv4",
           NEW payload
    PROVE  Tells(ProcessSigv4(p, r, payload), r, p, in, payload.secret)
<1> PICK res, own, names, u :
        /\ res = ProcessSigv4(p, r, payload)
        /\ own = r.headers["authorization"]
        /\ u = Without(r, "x-tokenizer-token")
        /\ names = HeadersToSign(own[4], u)
    OBVIOUS
<1> PICK secret, scope, hash : secret = payload.secret /\ scope = own[3] /\ hash = SignableBody(u)
    OBVIOUS
<1> PICK signature : signature = AwsSign(secret, scope, u, names, hash)
    OBVIOUS
<1> PICK value : value = Aws4(p.access_key, own[3], names, signature)
    OBVIOUS
<1> PICK i : i = Insert(u, "authorization", value)
    OBVIOUS
<1>1. CASE ~Sigv4Parses(r)
  <2>1. res.error # None
      BY <1>1, NoneIsNoError DEF ProcessSigv4, Err, ProcessError
  <2> QED BY <2>1 DEF Tells
<1>2. CASE Sigv4Parses(r)
  <2>1. res.req = i
      BY <1>2 DEF ProcessSigv4, Ok
  <2>2. IsRequest(u) /\ u.body = r.body /\ Agree(r, u, {"x-tokenizer-token"})
      BY WithoutAgrees
  <2>3. /\ i.body = u.body /\ Agree(u, i, {"authorization"})
        /\ Has(i, "authorization") /\ i.headers["authorization"] = value
      BY <2>2, InsertAgrees
  <2>4. /\ value[1] = "aws4" /\ value[2] = p.access_key /\ value[3] = own[3]
        /\ value[4] = names /\ value[5] = signature
      BY DEF Aws4
  <2>5. Agree(r, i, Writes(p))
    <3>1. Writes(p) = {"authorization", "x-tokenizer-token"}
        BY DEF Writes
    <3>2. i.line = r.line
        BY <2>2, <2>3 DEF Agree
    <3>3. ASSUME NEW h, h \notin {"authorization", "x-tokenizer-token"}
          PROVE  (Has(i, h) <=> Has(r, h)) /\ (Has(r, h) => i.headers[h] = r.headers[h])
      <4>1. (Has(u, h) <=> Has(r, h)) /\ (Has(r, h) => u.headers[h] = r.headers[h])
          BY <2>2, <3>3 DEF Agree
      <4>2. (Has(i, h) <=> Has(u, h)) /\ (Has(u, h) => i.headers[h] = u.headers[h])
          BY <2>3, <3>3 DEF Agree
      <4> QED BY <4>1, <4>2
    <3> QED BY <3>1, <3>2, <3>3 DEF Agree
  <2>6. Text(r, "authorization", "aws4") /\ Has(r, "x-amz-date")
      BY <1>2 DEF Sigv4Parses, Text
  <2>7. names \subseteq own[4] /\ "authorization" \notin names /\ \A n \in names : Has(u, n)
      BY DEF HeadersToSign
  <2>8. Text(in, "authorization", "aws4") /\ names \subseteq in.headers["authorization"][4]
      BY <2>6, <2>7 DEF Descends
  <2>9. Has(u, "x-amz-date") /\ Has(i, "x-amz-date")
      BY <2>2, <2>3, <2>6 DEF Agree
  <2>10. Text(i, "x-amz-content-sha256", "sha256") =>
            /\ Text(r, "x-amz-content-sha256", "sha256")
            /\ i.headers["x-amz-content-sha256"] = r.headers["x-amz-content-sha256"]
    <3> PICK h : h = "x-amz-content-sha256"
        OBVIOUS
    <3>1. h \notin Writes(p)
        BY DEF Writes
    <3>2. (Has(i, h) <=> Has(r, h)) /\ (Has(r, h) => i.headers[h] = r.headers[h])
        BY <2>5, <3>1 DEF Agree
    <3> QED BY <3>2 DEF Text
  <2>11. Text(i, "authorization", "aws4")
      BY <2>3, <2>4 DEF Text
  <2>12. Descends(i, in)
      BY <2>2, <2>3, <2>4, <2>8, <2>10 DEF Descends
  <2>13. AwsSign(secret, scope, i, names, hash) = AwsSign(secret, scope, u, names, hash)
    <3> PICK W : W = {"authorization"}
        OBVIOUS
    <3>1. \A n \in names \cup {"x-amz-date"} : n \notin W /\ Has(u, n)
        BY <2>7, <2>9
    <3> QED BY <2>3, <3>1, AwsSignAgrees
  <2>13a. PayloadTold(i) => PayloadHash(i) = hash
    <3>1. PayloadHash(i) = PayloadHash(u) /\ (PayloadTold(i) <=> PayloadTold(u))
        BY <2>3, PayloadAgrees
    <3>2. PayloadTold(u) => PayloadHash(u) = SignableBody(u)
        BY DEF PayloadTold, PayloadHash, SignableBody
    <3> QED BY <3>1, <3>2
  <2>14. Text(i, "x-amz-content-sha256", "sha256") => i.headers["x-amz-content-sha256"][2] = i.body
      BY <2>12 DEF Descends, Truthful
  <2>15. ASSUME PayloadTold(i) PROVE SignatureHolds(p, i, secret)
    <3> PICK sent : sent = i.headers["authorization"]
        OBVIOUS
    <3>0. sent[2] = p.access_key /\ sent[3] = scope /\ sent[4] = names /\ sent[5] = signature
        BY <2>3, <2>4
    <3>1. sent[2] = p.access_key /\ sent[5] = AwsSign(secret, sent[3], i, sent[4], PayloadHash(i))
        BY <2>13, <2>13a, <2>15, <3>0
    <3> QED BY <2>14, <3>1 DEF SignatureHolds
  <2>16. Listed(p, i, in)
    <3>1. \A n \in names : Has(i, n)
        BY <2>3, <2>7 DEF Agree
    <3> QED BY <2>3, <2>4, <2>8, <2>9, <2>11, <3>1 DEF Listed
  <2>17. Signs(p, i, in, secret)
      BY <2>15, <2>16 DEF Signs, Verifiable
  <2> QED BY <2>1, <2>2, <2>3, <2>5, <2>12, <2>17 DEF Tells
<1> QED BY <1>1, <1>2

LEMMA ProcessOneTells ==
    ASSUME NEW r, IsRequest(r), NEW in, Descends(r, in), Truthful(in),
           NEW p, p.type \in ProcessorType, ~NeedsBody(p), NEW payload, NEW t
    PROVE  Tells(ProcessOne(p, r, payload, t), r, p, in, payload.secret)
<1>1. CASE p.type = "inject"
  <2>1. ProcessOne(p, r, payload, t) = InsertSecret(r, p.header, p.prefix, payload.secret)
      BY <1>1 DEF ProcessOne
  <2>2. Writes(p) = {p.header} /\ p.type # "inject_hmac" /\ p.type # "sigv4"
      BY <1>1 DEF Writes
  <2> QED BY <2>1, <2>2, InsertSecretTells
<1>2. CASE p.type = "inject_hmac"
  <2>1. ProcessOne(p, r, payload, t) = ProcessHmac(p, r, payload, t)
      BY <1>2 DEF ProcessOne
  <2> QED BY <1>2, <2>1, HmacTells
<1>3. CASE p.type = "oauth"
  <2>1. ProcessOne(p, r, payload, t) = ProcessOAuth(p, r, payload, t)
      BY <1>3 DEF ProcessOne
  <2> QED BY <1>3, <2>1, OAuthTells
<1>4. CASE p.type = "sigv4"
  <2>1. ProcessOne(p, r, payload, t) = ProcessSigv4(p, r, payload)
      BY <1>4 DEF ProcessOne
  <2> QED BY <1>4, <2>1, Sigv4Tells
<1> QED BY <1>1, <1>2, <1>3, <1>4 DEF ProcessorType, NeedsBody

\* No processor of the header phase writes Content-Length.
LengthUnwritten(p) ==
    \A i \in DOMAIN Parts(p) : ~NeedsBody(Parts(p)[i]) => "content-length" \notin Writes(Parts(p)[i])

\* What the header phase leaves behind: the signatures that nothing overwrote hold, and
\* the Content-Length is the client's, or a processor wrote it.
HeaderPhase(p, r, in, secret) ==
    /\ Descends(r, in)
    /\ \A i \in DOMAIN Parts(p) :
          (/\ ~NeedsBody(Parts(p)[i]) /\ ~SignsItself(Parts(p)[i])
           /\ \A j \in DOMAIN Parts(p) :
                 j > i /\ ~NeedsBody(Parts(p)[j]) => Writes(Parts(p)[j]) \cap Covers(Parts(p)[i], in) = {})
          => Signs(Parts(p)[i], r, in, secret)
    /\ LengthUnwritten(p) => LengthHolds(r)

LEMMA LengthStays ==
    ASSUME NEW r, NEW s, NEW W, Agree(r, s, W), s.body = r.body, "content-length" \notin W, LengthHolds(r)
    PROVE  LengthHolds(s)
BY DEF Agree, LengthHolds

LEMMA ProcessTells ==
    ASSUME NEW p, IsProcessorConfig(p), Valid(p), NEW in, Truthful(in),
           NEW r, IsRequest(r), Descends(r, in), LengthUnwritten(p) => LengthHolds(r),
           NEW payload, NEW t, Process(p, r, payload, t).error = None
    PROVE  HeaderPhase(p, Process(p, r, payload, t).req, in, payload.secret)
<1> DEFINE n == Len(Parts(p))
           f == Loop(p, r, payload, t)
           Part(i) == Parts(p)[i]
           Later(i, k) == \A j \in 1..k : j > i /\ ~NeedsBody(Part(j)) => Writes(Part(j)) \cap Covers(Part(i), in) = {}
           Sound(q, k) ==
               /\ Descends(q, in)
               /\ \A i \in 1..k : ~NeedsBody(Part(i)) /\ ~SignsItself(Part(i)) /\ Later(i, k)
                                    => Signs(Part(i), q, in, payload.secret)
               /\ LengthUnwritten(p) => LengthHolds(q)
           Done(res, k) == IsRequest(res.req) /\ (res.error = None => Sound(res.req, k))
           T == {k \in 0..n : ~Done(f[k], k)}
<1>1. n \in Nat /\ DOMAIN Parts(p) = 1..n /\ \A i \in 1..n : Part(i).type \in ProcessorType
    BY PartsAreProcessors
<1>2. f[0] = Ok(r) /\ \A i \in 1..n : f[i] = ProcessNext(f[i - 1], Part(i), payload, t)
    BY <1>1, LoopUnfolds DEF IsLoop
<1> HIDE DEF f, n, Part
<1>3. Done(f[0], 0)
    BY <1>2 DEF Ok
<1>4. ASSUME NEW k \in 1..n, Done(f[k - 1], k - 1)
      PROVE  Done(f[k], k)
  <2> PICK before, q, res : before = f[k - 1] /\ q = Part(k) /\ res = f[k]
      OBVIOUS
  <2>1. res = ProcessNext(before, q, payload, t) /\ q.type \in ProcessorType
      BY <1>1, <1>2
  <2>2. Done(before, k - 1)
      BY <1>4
  <2>3. /\ \A i \in 1..k : i \in 1..(k - 1) \/ i = k
        /\ 1..(k - 1) \subseteq 1..k /\ k \in Nat /\ k - 1 \in Nat
      BY <1>1
  <2>4. \A i : Later(i, k) => Later(i, k - 1)
      BY <2>3
  <2>5. CASE before.error # None
    <3>1. res = before
        BY <2>1, <2>5 DEF ProcessNext
    <3> QED BY <2>2, <2>5, <3>1
  <2>6. CASE before.error = None /\ NeedsBody(q)
    <3>1. res = before
        BY <2>1, <2>6 DEF ProcessNext
    <3>2. Sound(before.req, k)
      <4> HIDE DEF Later
      <4> QED BY <2>2, <2>3, <2>4, <2>6
    <3> QED BY <2>2, <3>1, <3>2
  <2>7. CASE before.error = None /\ ~NeedsBody(q)
    <3>1. res = ProcessOne(q, before.req, payload, t)
        BY <2>1, <2>7 DEF ProcessNext
    <3>2. Sound(before.req, k - 1) /\ IsRequest(before.req)
        BY <2>2, <2>7
    <3>3. IsRequest(res.req)
        BY <2>1, <2>7, <3>1, <3>2, ProcessOneGood DEF Good
    <3>4. Tells(res, before.req, q, in, payload.secret)
        BY <2>1, <2>7, <3>1, <3>2, ProcessOneTells
    <3>5. ASSUME res.error = None PROVE Sound(res.req, k)
      <4>1. /\ Agree(before.req, res.req, Writes(q)) /\ res.req.body = before.req.body
            /\ Descends(res.req, in)
            /\ ~SignsItself(q) => Signs(q, res.req, in, payload.secret)
          BY <3>4, <3>5 DEF Tells
      <4>2. ASSUME NEW i \in 1..k, ~NeedsBody(Part(i)), ~SignsItself(Part(i)), Later(i, k)
            PROVE  Signs(Part(i), res.req, in, payload.secret)
        <5>1. CASE i = k
            BY <4>1, <4>2, <5>1
        <5>2. CASE i \in 1..(k - 1)
          <6>1. Signs(Part(i), before.req, in, payload.secret)
            <7> HIDE DEF Later
            <7> QED BY <2>4, <3>2, <4>2, <5>2
          <6>2. Writes(q) \cap Covers(Part(i), in) = {}
              BY <2>3, <2>7, <4>2, <5>2
          <6>3. Part(i).type \in ProcessorType
              BY <1>1
          <6> PICK s, u, w, secret, o :
                  s = before.req /\ u = res.req /\ w = Writes(q) /\ secret = payload.secret /\ o = Part(i)
              OBVIOUS
          <6>4. Signs(o, u, in, secret)
              BY <4>1, <6>1, <6>2, <6>3, SignatureStays
          <6> QED BY <6>4
        <5> QED BY <2>3, <5>1, <5>2
      <4>3. ASSUME LengthUnwritten(p) PROVE LengthHolds(res.req)
        <5>1. LengthHolds(before.req) /\ "content-length" \notin Writes(q)
            BY <1>1, <2>7, <3>2, <4>3 DEF LengthUnwritten, Part
        <5> QED BY <4>1, <5>1, LengthStays
      <4> HIDE DEF Later
      <4> QED BY <4>1, <4>2, <4>3
    <3> QED BY <3>3, <3>5
  <2> QED BY <2>5, <2>6, <2>7
<1>5. Process(p, r, payload, t) = f[n]
    BY DEF Process, f, n
<1>6. ASSUME Done(f[n], n) PROVE HeaderPhase(p, f[n].req, in, payload.secret)
  <2>1. f[n].error = None
      BY <1>5
  <2>2. Sound(f[n].req, n)
      BY <1>6, <2>1
  <2> QED BY <1>1, <2>2 DEF HeaderPhase, Part
<1> HIDE DEF Done
<1>7. T = {}
  <2> SUFFICES ASSUME T # {} PROVE FALSE
      OBVIOUS
  <2>1. T \in SUBSET Nat
      BY <1>1
  <2>2. PICK m \in T : \A k \in T : m <= k
      BY <2>1, Least
  <2>3. m # 0
      BY <1>3
  <2>4. m \in 1..n /\ m - 1 \in 0..n /\ m - 1 \notin T
      BY <1>1, <2>2, <2>3
  <2>5. Done(f[m - 1], m - 1)
      BY <2>4
  <2> QED BY <1>4, <2>4, <2>5
<1>8. Done(f[n], n)
    BY <1>1, <1>7
<1> QED BY <1>5, <1>6, <1>8

\* What HeadersTellTruth says of a request r that comes from `in`.
AllTold(p, r, in, secret, collects) ==
    /\ \A i \in Ran(p, collects) :
          (/\ ~SignsItself(Parts(p)[i])
           /\ Parts(p)[i].type = "sigv4" => PayloadTold(r)
           /\ \A j \in Ran(p, collects) :
                 RunsAfter(p, j, i) => Writes(Parts(p)[j]) \cap Covers(Parts(p)[i], in) = {})
          => SignatureHolds(Parts(p)[i], r, secret)
    /\ (\A i \in Ran(p, collects) : "content-length" \in Writes(Parts(p)[i]) => Parts(p)[i].type = "inject_body")
          => LengthHolds(r)

\* Without a body phase, what the header phase leaves behind is what is sent.
LEMMA HeaderPhaseTold ==
    ASSUME NEW p, NEW r, NEW in, NEW secret, NEW collects,
           HeaderPhase(p, r, in, secret), collects => ~IsBodyProcessor(p)
    PROVE  AllTold(p, r, in, secret, collects)
<1>1. \A i : i \in Ran(p, collects) <=> i \in DOMAIN Parts(p) /\ ~NeedsBody(Parts(p)[i])
    BY DEF Ran, IsBodyProcessor
<1>2. \A i, j \in Ran(p, collects) : RunsAfter(p, j, i) <=> j > i
    BY <1>1 DEF RunsAfter
<1>3. ASSUME NEW i \in Ran(p, collects), ~SignsItself(Parts(p)[i]), Verifiable(Parts(p)[i], r),
             \A j \in Ran(p, collects) :
                 RunsAfter(p, j, i) => Writes(Parts(p)[j]) \cap Covers(Parts(p)[i], in) = {}
      PROVE  SignatureHolds(Parts(p)[i], r, secret)
  <2>1. \A j \in DOMAIN Parts(p) :
            j > i /\ ~NeedsBody(Parts(p)[j]) => Writes(Parts(p)[j]) \cap Covers(Parts(p)[i], in) = {}
      BY <1>1, <1>2, <1>3
  <2>2. Signs(Parts(p)[i], r, in, secret)
      BY <1>1, <1>3, <2>1 DEF HeaderPhase
  <2> QED BY <1>3, <2>2 DEF Signs
<1>4. ASSUME \A i \in Ran(p, collects) :
                 "content-length" \in Writes(Parts(p)[i]) => Parts(p)[i].type = "inject_body"
      PROVE  LengthHolds(r)
  <2>1. LengthUnwritten(p)
      BY <1>1, <1>4 DEF NeedsBody, LengthUnwritten
  <2> QED BY <2>1 DEF HeaderPhase
<1> QED BY <1>3, <1>4 DEF AllTold, Verifiable

\* InjectBodyProcessor writes the body and its length together.
LEMMA InjectBodyTells ==
    ASSUME NEW r, IsRequest(r), NEW p, p.type = "inject_body", NEW payload
    PROVE  LET res == ProcessInjectBody(p, r, payload)
           IN Agree(r, res.req, Writes(p)) /\ LengthHolds(res.req) /\ TheBody \in Writes(p)
<1> PICK body, value : body = Replaced(p, r.body, payload.secret) /\ value = <<"length", Length(body)>>
    OBVIOUS
<1> PICK name : name = "content-length"
    OBVIOUS
<1> PICK i : i = Insert(r, name, value)
    OBVIOUS
<1> PICK s : s = [i EXCEPT !.body = body]
    OBVIOUS
<1>1. ProcessInjectBody(p, r, payload).req = s
    BY DEF ProcessInjectBody, Ok
<1>2. IsRequest(i) /\ Agree(r, i, {name}) /\ i.headers[name] = value
    BY InsertAgrees
<1>3. s.line = i.line /\ s.headers = i.headers /\ s.body = body
    BY <1>2 DEF IsRequest
<1>4. LengthHolds(s)
    BY <1>2, <1>3 DEF LengthHolds
<1>5. Writes(p) = {TheBody, "content-length"}
    BY DEF Writes
<1>6. Agree(r, s, Writes(p))
    BY <1>2, <1>3, <1>5 DEF Agree, Has
<1> QED BY <1>1, <1>4, <1>5, <1>6

\* The body phase comes after the header phase: it can overwrite and is not overwritten.
LEMMA BodyPhaseTold ==
    ASSUME NEW p, IsProcessorConfig(p), Valid(p), IsBodyProcessor(p), NEW r, IsRequest(r), NEW in,
           NEW payload, NEW t, HeaderPhase(p, r, in, payload.secret),
           ProcessBody(p, r, payload, t).error = None
    PROVE  AllTold(p, ProcessBody(p, r, payload, t).req, in, payload.secret, TRUE)
<1> PICK q, res, secret :
        q = BodyPart(p) /\ res = ProcessBody(p, r, payload, t) /\ secret = payload.secret
    OBVIOUS
<1> PICK s : s = res.req
    OBVIOUS
<1> DEFINE Part(i) == Parts(p)[i]
<1>1. PICK b \in DOMAIN Parts(p) : NeedsBody(Part(b))
    BY DEF IsBodyProcessor
<1>2. /\ \A i \in DOMAIN Parts(p) : Part(i).type \in ProcessorType
      /\ \A i \in DOMAIN Parts(p) : NeedsBody(Part(i)) => i = b
    BY <1>1, PartsAreProcessors
<1>3. Part(b) = q
    BY <1>1, ProcessBodyGood
<1>4. \A i : i \in Ran(p, TRUE) <=> i \in DOMAIN Parts(p)
    BY DEF Ran
<1>5. /\ Agree(r, s, Writes(q))
      /\ TheBody \notin Writes(q) => s.body = r.body
      /\ ~SignsItself(q) => SignatureHolds(q, s, secret)
      /\ q.type = "inject_body" \/ ("content-length" \notin Writes(q) /\ LengthHolds(r)) => LengthHolds(s)
  <2>1. CASE q.type = "inject_body"
    <3>1. res = ProcessInjectBody(q, r, payload)
        BY <2>1 DEF ProcessBody
    <3>2. Agree(r, s, Writes(q)) /\ LengthHolds(s) /\ TheBody \in Writes(q)
        BY <2>1, <3>1, InjectBodyTells
    <3>3. SignatureHolds(q, s, secret)
        BY <2>1 DEF SignatureHolds
    <3> QED BY <3>2, <3>3
  <2>2. CASE q.type # "inject_body"
    <3>1. res = ProcessHmac(q, r, payload, t)
        BY <2>2 DEF ProcessBody
    <3>2. q.type = "inject_hmac"
        BY <1>1, <1>3, <2>2 DEF NeedsBody
    <3>3. Descends(r, in)
        BY DEF HeaderPhase
    <3>4. Tells(res, r, q, in, secret)
        BY <3>1, <3>2, <3>3, HmacTells
    <3>5. /\ Agree(r, s, Writes(q)) /\ s.body = r.body
          /\ ~SignsItself(q) => SignatureHolds(q, s, secret)
        BY <3>2, <3>4 DEF Tells, Signs, Verifiable
    <3>6. "content-length" \notin Writes(q) /\ LengthHolds(r) => LengthHolds(s)
        BY <3>5, LengthStays
    <3> QED BY <2>2, <3>5, <3>6
  <2> QED BY <2>1, <2>2
<1>6. ASSUME NEW i \in DOMAIN Parts(p), ~SignsItself(Part(i)), Verifiable(Part(i), s),
             \A j \in Ran(p, TRUE) : RunsAfter(p, j, i) => Writes(Part(j)) \cap Covers(Part(i), in) = {}
      PROVE  SignatureHolds(Part(i), s, secret)
  <2>1. CASE i = b
      BY <1>3, <1>5, <1>6, <2>1
  <2>2. CASE i # b
    <3>1. ~NeedsBody(Part(i))
        BY <1>2, <2>2
    <3>2. ASSUME NEW j \in DOMAIN Parts(p), j > i, ~NeedsBody(Part(j))
          PROVE  Writes(Part(j)) \cap Covers(Part(i), in) = {}
      <4>1. RunsAfter(p, j, i)
          BY <3>1, <3>2 DEF RunsAfter
      <4> QED BY <1>4, <1>6, <4>1
    <3>3. Signs(Part(i), r, in, secret)
        BY <1>6, <3>1, <3>2 DEF HeaderPhase
    <3>4. Writes(q) \cap Covers(Part(i), in) = {}
      <4>1. RunsAfter(p, b, i)
          BY <1>1, <3>1 DEF RunsAfter
      <4> QED BY <1>3, <1>4, <1>6, <4>1
    <3> PICK o, w : o = Part(i) /\ w = Writes(q)
        OBVIOUS
    <3>5. Signs(o, s, in, secret)
        BY <1>2, <1>5, <3>3, <3>4, SignatureStays
    <3> QED BY <1>6, <3>5 DEF Signs
  <2> QED BY <2>1, <2>2
<1>7. ASSUME \A i \in Ran(p, TRUE) : "content-length" \in Writes(Part(i)) => Part(i).type = "inject_body"
      PROVE  LengthHolds(s)
  <2>1. CASE q.type = "inject_body"
      BY <1>5, <2>1
  <2>2. CASE q.type # "inject_body"
    <3>1. \A i \in DOMAIN Parts(p) : "content-length" \notin Writes(Part(i))
        BY <1>2, <1>3, <1>4, <1>7, <2>2 DEF NeedsBody
    <3>2. LengthHolds(r)
        BY <3>1 DEF HeaderPhase, LengthUnwritten
    <3> QED BY <1>1, <1>3, <1>5, <3>1, <3>2
  <2> QED BY <2>1, <2>2
<1> QED BY <1>4, <1>6, <1>7 DEF AllTold, Verifiable

-----------------------------------------------------------------------------
(* The records                                                             *)

\* What is recorded before an exchange ends.
Rec(validations, processors, events) ==
    [validations |-> validations, processors |-> processors, requests |-> <<>>,
     errors |-> <<>>, durations |-> 0, events |-> events]

\* Updates of several fields go one by one.
LEMMA UpdatesInTurn ==
    ASSUME NEW r, NEW q, NEW a, NEW b
    PROVE  /\ [r EXCEPT !.requests = q, !.errors = a, !.durations = b] =
                 [[[r EXCEPT !.requests = q] EXCEPT !.errors = a] EXCEPT !.durations = b]
           /\ [r EXCEPT !.requests = q, !.durations = b] =
                 [[r EXCEPT !.requests = q] EXCEPT !.durations = b]
OBVIOUS

Ended(v, p, ev, q, a, b) ==
    [validations |-> v, processors |-> p, requests |-> q, errors |-> a, durations |-> b, events |-> ev]

\* RecordFailure and RecordResponse, where nothing of the kind is recorded.
LEMMA RecEnds ==
    ASSUME NEW v, NEW p, NEW ev, NEW e, NEW status
    PROVE  /\ RecordFailure(Rec(v, p, ev), e) =
                 Ended(v, p, ev, <<StatusClass(StatusCode(e))>>, <<ErrorClass(e)>>, 1)
           /\ RecordResponse(Rec(v, p, ev), status) = Ended(v, p, ev, <<StatusClass(status)>>, <<>>, 1)
<1> DEFINE r == Rec(v, p, ev)
           q == Append(r.requests, StatusClass(StatusCode(e)))
           o == Append(r.requests, StatusClass(status))
           a == Append(r.errors, ErrorClass(e))
           b == r.durations + 1
<1>1. /\ RecordFailure(r, e) = [r EXCEPT !.requests = q, !.errors = a, !.durations = b]
      /\ RecordResponse(r, status) = [r EXCEPT !.requests = o, !.durations = b]
    BY Zenon DEF RecordFailure, RecordResponse
<1>2. q = <<StatusClass(StatusCode(e))>> /\ o = <<StatusClass(status)>> /\ a = <<ErrorClass(e)>> /\ b = 1
    BY DEF Rec
<1> HIDE DEF q, o, a, b
<1> DEFINE f1 == Ended(v, p, ev, q, <<>>, 0)
           f2 == Ended(v, p, ev, q, a, 0)
           a1 == Ended(v, p, ev, o, <<>>, 0)
<1>3. [r EXCEPT !.requests = q] = f1
    BY DEF Rec, Ended
<1>4. [f1 EXCEPT !.errors = a] = f2
    BY DEF Ended
<1>5. [f2 EXCEPT !.durations = b] = Ended(v, p, ev, q, a, b)
    BY DEF Ended
<1>8. [r EXCEPT !.requests = o] = a1
    BY DEF Rec, Ended
<1>9. [a1 EXCEPT !.durations = b] = Ended(v, p, ev, o, <<>>, b)
    BY DEF Ended
<1> HIDE DEF r, f1, f2, a1
<1>6. [r EXCEPT !.requests = q, !.errors = a, !.durations = b] = Ended(v, p, ev, q, a, b)
    BY <1>3, <1>4, <1>5, UpdatesInTurn
<1>7. [r EXCEPT !.requests = o, !.durations = b] = Ended(v, p, ev, o, <<>>, b)
    BY <1>8, <1>9, UpdatesInTurn
<1> QED BY <1>1, <1>2, <1>6, <1>7 DEF r

LEMMA RecIsRecords ==
    ASSUME NEW v \in Seq(ValidationResult), NEW p \in Seq(ProcessorType \cup {"multi"}), NEW ev \in Seq(Event)
    PROVE  Rec(v, p, ev) \in Records
BY DEF Rec, Records

LEMMA NothingIsRec == NothingRecorded = Rec(<<>>, <<>>, <<>>)
BY DEF NothingRecorded, Rec

\* A label or an event is added where none was.
LEMMA RecGrows ==
    ASSUME NEW p, NEW v, NEW label
    PROVE  /\ [Rec(<<>>, p, <<>>) EXCEPT !.validations = Append(@, label)] = Rec(<<label>>, p, <<>>)
           /\ [Rec(v, <<>>, <<>>) EXCEPT !.processors = Append(@, label)] = Rec(v, <<label>>, <<>>)
<1>1. Append(<<>>, label) = <<label>>
    OBVIOUS
<1> QED BY <1>1 DEF Rec

LEMMA WithEvent ==
    ASSUME NEW v, NEW p, NEW event
    PROVE  With(Rec(v, p, <<>>), event) = Rec(v, p, <<event>>)
<1>1. Append(<<>>, event) = <<event>>
    OBVIOUS
<1> QED BY <1>1 DEF Rec, With

\* Before there is a verdict, a validation result is the first thing recorded.
LEMMA ValidatedRec ==
    ASSUME records = NothingRecorded, NEW label
    PROVE  Validated(label) = Rec(<<label>>, <<>>, <<>>)
BY NothingIsRec, RecGrows DEF Validated

\* With the request forwarded no more than its verdict is recorded.
LEMMA RecordsInFlight ==
    ASSUME TypeOK, RecordsInv, stage \in InFlight
    PROVE  /\ records = Rec(records.validations, records.processors, <<>>)
           /\ records.validations \in Seq(ValidationResult) /\ Len(records.validations) <= 1
           /\ records.processors \in Seq(ProcessorType \cup {"multi"})
<1>1. records \in Records
    BY DEF TypeOK
<1>2. records.requests = <<>> /\ records.errors = <<>> /\ records.durations = 0
    BY DEF RecordsInv, RecordsAgree
<1>3. records.events = <<>> /\ Len(records.validations) <= 1
    BY DEF RecordsInv, RecordsAgree, InFlight, NothingRecorded
<1> QED BY <1>1, <1>2, <1>3 DEF Records, Rec

LEMMA LabelsAreLabels ==
    /\ \A e \in TokenizerError : ErrorClass(e) \in TokenizerError \cup {"upstream"}
    /\ \A status : StatusClass(status) \in StatusLabel
<1>1. \A e \in TokenizerError : ErrorClass(e) \in TokenizerError \cup {"upstream"}
    BY DEF ErrorClass
<1>2. ASSUME NEW status PROVE StatusClass(status) \in StatusLabel
  <2> DEFINE a == status \in 200..299
             b == status \in 300..399
             c == status \in 400..499
             d == status \in 500..599
  <2>1. StatusClass(status) = CASE a -> "2xx" [] b -> "3xx" [] c -> "4xx" [] d -> "5xx" [] OTHER -> "other"
      BY DEF StatusClass
  <2> HIDE DEF a, b, c, d
  <2> QED BY <2>1 DEF StatusLabel
<1> QED BY <1>1, <1>2

LEMMA ShortSequences ==
    ASSUME NEW S, NEW x \in S
    PROVE  <<x>> \in Seq(S) /\ <<>> \in Seq(S) /\ Len(<<x>>) = 1
OBVIOUS

\* How the records of an exchange end.
IsEnd(rec, v, p, ev, errors) ==
    /\ rec \in Records /\ rec.validations = v /\ rec.processors = p /\ rec.events = ev
    /\ rec.durations = 1 /\ Len(rec.requests) = 1 /\ Len(rec.errors) = errors

LEMMA FailureRecorded ==
    ASSUME NEW v \in Seq(ValidationResult), NEW p \in Seq(ProcessorType \cup {"multi"}), NEW ev \in Seq(Event),
           NEW e \in TokenizerError
    PROVE  IsEnd(RecordFailure(Rec(v, p, ev), e), v, p, ev, 1)
<1> DEFINE c == StatusClass(StatusCode(e))
           l == ErrorClass(e)
<1>1. c \in StatusLabel /\ l \in TokenizerError \cup {"upstream"}
    BY LabelsAreLabels
<1>2. RecordFailure(Rec(v, p, ev), e) = Ended(v, p, ev, <<c>>, <<l>>, 1)
    BY RecEnds
<1> HIDE DEF c, l
<1>3. <<c>> \in Seq(StatusLabel) /\ <<l>> \in Seq(TokenizerError \cup {"upstream"})
    BY <1>1, ShortSequences, Zenon
<1>4. Len(<<c>>) = 1 /\ Len(<<l>>) = 1 /\ 1 \in Nat
    OBVIOUS
<1> QED BY <1>2, <1>3, <1>4 DEF Records, Ended, IsEnd

LEMMA ResponseRecorded ==
    ASSUME NEW v \in Seq(ValidationResult), NEW p \in Seq(ProcessorType \cup {"multi"}), NEW ev \in Seq(Event),
           NEW status
    PROVE  IsEnd(RecordResponse(Rec(v, p, ev), status), v, p, ev, 0)
<1> DEFINE c == StatusClass(status)
<1>1. c \in StatusLabel
    BY LabelsAreLabels
<1>2. RecordResponse(Rec(v, p, ev), status) = Ended(v, p, ev, <<c>>, <<>>, 1)
    BY RecEnds
<1> HIDE DEF c
<1>3. <<c>> \in Seq(StatusLabel) /\ <<>> \in Seq(TokenizerError \cup {"upstream"})
    BY <1>1, ShortSequences
<1>4. Len(<<c>>) = 1 /\ Len(<<>>) = 0 /\ 1 \in Nat
    OBVIOUS
<1> QED BY <1>2, <1>3, <1>4 DEF Records, Ended, IsEnd

-----------------------------------------------------------------------------
(* The steps                                                               *)

LEMMA TokenNameIs == TokenName = "x-tokenizer-token"
BY DEF TokenName

LEMMA InitInd == Init => IndInv
<1> SUFFICES ASSUME Init PROVE IndInv
    OBVIOUS
<1>0. PICK k \in Key : keys = WithPrimary(k) /\ held = {k}
    BY DEF Init
<1>1. keys = [primary |-> k, historical |-> <<>>] /\ <<>> \in Seq(Key) /\ DOMAIN <<>> = {}
    BY <1>0 DEF WithPrimary
<1>2. records = Rec(<<>>, <<>>, <<>>) /\ records = NothingRecorded
    BY NothingIsRec DEF Init
<1>3. records \in Records
  <2>1. /\ <<>> \in Seq(ValidationResult) /\ <<>> \in Seq(ProcessorType \cup {"multi"})
        /\ <<>> \in Seq(Event)
      OBVIOUS
  <2> QED BY <1>2, <2>1, RecIsRecords
<1>4. TypeOK
  <2>1. keys \in [primary : Key, historical : Seq(Key)] /\ held \subseteq Key
      BY <1>0, <1>1
  <2>2. now \in 0..MaxTime /\ boots \in 0..MaxBoots
      BY ExchangeAssumption DEF Init
  <2>3. stage = "idle" /\ cause = None /\ config \in Configs /\ serving \in BOOLEAN
      BY DEF Init
  <2> QED BY <1>3, <2>1, <2>2, <2>3 DEF TypeOK, Settled, InFlight
<1>5. KeysInv
    BY <1>0, <1>1 DEF KeysInv, KeysOf, ToSet
<1>6. TokenInv /\ RequestInv /\ ScanInv /\ CredentialInv
    BY DEF Init, TokenInv, RequestInv, ScanInv, CredentialInv
<1>7. RecordsInv
  <2>1. stage = "idle" /\ Len(<<>>) = 0 /\ records.events = <<>> /\ records.validations = <<>>
      BY <1>2 DEF Init, Rec
  <2> QED BY <1>2, <2>1 DEF RecordsInv, RecordsAgree, InFlight
<1> QED BY <1>4, <1>5, <1>6, <1>7 DEF IndInv

\* The error e leaves the stack as `out`, and what was recorded before is of e.
IsFailure(e, out, v, p, ev) ==
    /\ e \in TokenizerError /\ out \in TokenizerError
    /\ v \in Seq(ValidationResult) /\ Len(v) <= 1
    /\ p \in Seq(ProcessorType \cup {"multi"})
    /\ ev \in Seq(Event) /\ ev = EventsOf(e, v, Has(client, TokenName))

\* An exchange that fails keeps the invariant where the events recorded are those of
\* the error.
LEMMA FailKeeps ==
    ASSUME IndInv, stage \in InFlight, UNCHANGED <<now, process, token>>,
           NEW e, NEW out, NEW v, NEW p, NEW ev,
           IsFailure(e, out, v, p, ev), Fail(e, out, Rec(v, p, ev))
    PROVE  IndInv'
<1>0. /\ e \in TokenizerError /\ out \in TokenizerError
      /\ v \in Seq(ValidationResult) /\ Len(v) <= 1
      /\ p \in Seq(ProcessorType \cup {"multi"})
      /\ ev \in Seq(Event) /\ ev = EventsOf(e, v, Has(client, TokenName))
    BY DEF IsFailure
<1>1. /\ stage' = "failed" /\ cause' = e /\ records' = RecordFailure(Rec(v, p, ev), out)
      /\ req' = req /\ patterns' = patterns /\ client' = client /\ returned' = returned
    BY DEF Fail, carried
<1>2. /\ now' = now /\ token' = token /\ config' = config /\ boots' = boots /\ keys' = keys
      /\ held' = held /\ serving' = serving
    BY DEF process
<1>3. /\ records' \in Records /\ records'.validations = v /\ records'.events = ev
      /\ records'.durations = 1 /\ Len(records'.requests) = 1 /\ Len(records'.errors) = 1
  <2>1. IsEnd(records', v, p, ev, 1)
      BY <1>0, <1>1, FailureRecorded
  <2> QED BY <2>1 DEF IsEnd
<1>4. stage # "idle" /\ stage # "answered" /\ returned = None /\ e # None
    BY <1>0, ExchangeAssumption DEF InFlight, IndInv, ScanInv
<1>5. TypeOK'
    BY <1>0, <1>1, <1>2, <1>3, <1>4 DEF IndInv, TypeOK, Settled, InFlight
<1>6. KeysInv' /\ TokenInv'
    BY <1>2 DEF IndInv, KeysInv, TokenInv
<1>7. RequestInv'
    BY <1>1, <1>2, <1>4 DEF IndInv, RequestInv
<1>8. ScanInv'
    BY <1>1, <1>4 DEF ScanInv
<1>9. RecordsInv'
    BY <1>0, <1>1, <1>3, <1>4, TokenNameIs DEF RecordsInv, RecordsAgree, InFlight
<1>10. CredentialInv'
    BY <1>1 DEF CredentialInv
<1> QED BY <1>5, <1>6, <1>7, <1>8, <1>9, <1>10 DEF IndInv

\* The steps of the keys, of the clock and of the seal command, between which an
\* exchange stays where it is.
LEMMA KeyStepKeeps ==
    ASSUME IndInv, Rotate \/ AddOldKey
    PROVE  IndInv'
<1>1. PICK k \in Key : /\ keys' = SetPrimary(keys, k) \/ keys' = AddHistorical(keys, k)
                       /\ held' = held \cup {k}
    BY DEF Rotate, AddOldKey
<1>2. UNCHANGED <<now, config, boots, serving, token, exchange>>
    BY DEF Rotate, AddOldKey
<1>3. keys \in KeyStore /\ held \subseteq Key
    BY DEF IndInv, TypeOK, KeyStore
<1>4. keys' \in KeyStore /\ KeysInv'
    BY <1>1, <1>3, KeysStayFindable DEF IndInv, KeysInv
<1>5. held' \subseteq Key
    BY <1>1, <1>3
<1>6. TypeOK'
    BY <1>2, <1>4, <1>5 DEF IndInv, TypeOK, exchange, KeyStore
<1>7. TokenInv' /\ RequestInv' /\ ScanInv' /\ CredentialInv'
    BY <1>2 DEF IndInv, TokenInv, RequestInv, ScanInv, CredentialInv, exchange
<1>8. RecordsInv'
    BY <1>2 DEF IndInv, RecordsInv, RecordsAgree, exchange
<1> QED BY <1>4, <1>6, <1>7, <1>8 DEF IndInv

LEMMA RestKeeps ==
    ASSUME IndInv, UNCHANGED <<config, boots, keys, held, token, exchange>>,
           serving' \in BOOLEAN, now' \in 0..MaxTime
    PROVE  IndInv'
<1>1. TypeOK' /\ KeysInv'
    BY DEF IndInv, TypeOK, KeysInv, exchange
<1>2. TokenInv' /\ RequestInv' /\ ScanInv' /\ CredentialInv'
    BY DEF IndInv, TokenInv, RequestInv, ScanInv, CredentialInv, exchange
<1>3. RecordsInv'
    BY DEF IndInv, RecordsInv, RecordsAgree, exchange
<1> QED BY <1>1, <1>2, <1>3 DEF IndInv

LEMMA RestartKeeps ==
    ASSUME IndInv, Restart
    PROVE  IndInv'
<1>0. PICK k \in Key : keys' = WithPrimary(k) /\ held' = {k}
    BY DEF Restart
<1>1. keys' = [primary |-> k, historical |-> <<>>] /\ <<>> \in Seq(Key) /\ DOMAIN <<>> = {}
    BY <1>0 DEF WithPrimary
<1>2. records' = Rec(<<>>, <<>>, <<>>) /\ records' = NothingRecorded
    BY NothingIsRec DEF Restart
<1>3. records' \in Records
  <2>1. /\ <<>> \in Seq(ValidationResult) /\ <<>> \in Seq(ProcessorType \cup {"multi"})
        /\ <<>> \in Seq(Event)
      OBVIOUS
  <2> QED BY <1>2, <2>1, RecIsRecords
<1>4. TypeOK'
  <2>1. boots' \in 0..MaxBoots
      BY ExchangeAssumption DEF Restart, IndInv, TypeOK
  <2>2. keys' \in [primary : Key, historical : Seq(Key)] /\ held' \subseteq Key
      BY <1>0, <1>1
  <2>3. /\ stage' = "idle" /\ cause' = None /\ config' \in Configs /\ serving' \in BOOLEAN
        /\ now' \in 0..MaxTime
      BY DEF Restart, IndInv, TypeOK
  <2> QED BY <1>3, <2>1, <2>2, <2>3 DEF TypeOK, Settled, InFlight
<1>5. KeysInv'
    BY <1>0, <1>1 DEF KeysInv, KeysOf, ToSet
<1>6. TokenInv' /\ RequestInv' /\ ScanInv' /\ CredentialInv'
    BY DEF IndInv, Restart, TokenInv, RequestInv, ScanInv, CredentialInv
<1>7. RecordsInv'
  <2>1. stage' = "idle" /\ Len(<<>>) = 0 /\ records'.events = <<>> /\ records'.validations = <<>>
      BY <1>2 DEF Restart, Rec
  <2> QED BY <1>2, <2>1 DEF RecordsInv, RecordsAgree, InFlight
<1> QED BY <1>4, <1>5, <1>6, <1>7 DEF IndInv

LEMMA SealKeeps ==
    ASSUME IndInv, Seal
    PROVE  IndInv'
<1>1. PICK template \in Template, k \in Key : token' = SealedToken(Payload(template, now), k)
    BY DEF Seal
<1>2. token = None /\ UNCHANGED <<now, process, exchange>>
    BY DEF Seal
<1>3. TokenInv'
  <2>1. /\ token'.key_id = k.id /\ token'.sealed_for = k
        /\ token'.payload = Payload(template, now)
      BY <1>1, SealedTokenNames
  <2>2. token'.payload.processor = template.processor
      BY <2>1 DEF Payload
  <2>3. IsProcessorConfig(template.processor)
      BY ProcessorAssumption
  <2> QED BY <2>1, <2>2, <2>3 DEF TokenInv
<1>4. TypeOK' /\ KeysInv'
    BY <1>2 DEF IndInv, TypeOK, KeysInv, process, exchange
<1>5. stage = "idle" \/ ~Has(client, TokenName)
    BY <1>2 DEF IndInv, RequestInv
<1>6. RequestInv'
    BY <1>2, <1>5 DEF IndInv, RequestInv, process, exchange
<1>7. ScanInv'
    BY <1>2, <1>5 DEF IndInv, ScanInv, process, exchange
<1>8. CredentialInv'
    BY <1>2, <1>5 DEF IndInv, CredentialInv, process, exchange
<1>9. RecordsInv'
    BY <1>2 DEF IndInv, RecordsInv, RecordsAgree, exchange
<1> QED BY <1>3, <1>4, <1>6, <1>7, <1>8, <1>9 DEF IndInv

\* The errors of the model are TokenizerErrors, the labels and events are of their sets.
LEMMA Vocabulary ==
    /\ ProcessError \subseteq TokenizerError
    /\ {"InvalidPayload", "HostNotAllowed", "MethodNotAllowed", "PathNotAllowed", "ConfigError",
        "ProxyAuthRequired", "DecryptionError", "TokenExpired", "ReplayProtectionUnavailable",
        "TokenReplayDetected", "NonceStoreError", "HttpError", "BlockedAddress", "Timeout",
        "SecretLeakDetected", "UnsupportedContentEncoding", "RateLimitExceeded"} \subseteq TokenizerError
    /\ \A e \in TokenizerError : ThroughRateLimit(e) \in TokenizerError
    /\ <<>> \in Seq(ValidationResult) /\ <<>> \in Seq(Event) /\ <<>> \in Seq(ProcessorType \cup {"multi"})
    /\ Len(<<>>) = 0
    /\ \A label \in ValidationResult : <<label>> \in Seq(ValidationResult) /\ Len(<<label>>) = 1
    /\ \A event \in Event : <<event>> \in Seq(Event)
<1>1. ProcessError \subseteq TokenizerError
    BY DEF ProcessError, TokenizerError, Status500
<1>2. {"InvalidPayload", "HostNotAllowed", "MethodNotAllowed", "PathNotAllowed", "ConfigError",
        "ProxyAuthRequired", "DecryptionError", "TokenExpired", "ReplayProtectionUnavailable",
        "TokenReplayDetected", "NonceStoreError", "HttpError", "BlockedAddress", "Timeout",
        "SecretLeakDetected", "UnsupportedContentEncoding", "RateLimitExceeded"} \subseteq TokenizerError
    BY DEF TokenizerError, Status500, Status403, Status401
<1>3. \A e \in TokenizerError : ThroughRateLimit(e) \in TokenizerError
    BY <1>2 DEF ThroughRateLimit
<1>4. /\ <<>> \in Seq(ValidationResult) /\ <<>> \in Seq(Event)
      /\ <<>> \in Seq(ProcessorType \cup {"multi"}) /\ Len(<<>>) = 0
    OBVIOUS
<1>5. \A label \in ValidationResult : <<label>> \in Seq(ValidationResult) /\ Len(<<label>>) = 1
    BY ShortSequences
<1>6. \A event \in Event : <<event>> \in Seq(Event)
    BY ShortSequences
<1> QED BY <1>1, <1>2, <1>3, <1>4, <1>5, <1>6

\* What the errors below count.
LEMMA NoEvents ==
    ASSUME NEW v, NEW with_token,
           NEW e \in {"InvalidPayload", "ProxyAuthRequired", "DecryptionError", "TokenExpired",
                      "ReplayProtectionUnavailable", "NonceStoreError", "HttpError", "BlockedAddress",
                      "Timeout", "RateLimitExceeded", "OAuthRefreshError"}
    PROVE  EventsOf(e, v, with_token) = <<>>
BY DEF EventsOf

LEMMA ReceiveKeeps ==
    ASSUME IndInv, Receive
    PROVE  IndInv'
<1>1. PICK in \in Incoming : /\ Has(in, "x-tokenizer-token") => token # None
                             /\ client' = in /\ req' = in
    BY DEF Receive
<1>2. IsRequest(in)
    BY ExchangeAssumption
<1>3. /\ stage = "idle" /\ UNCHANGED <<now, process, token, patterns, returned>>
      /\ returned = None
    BY DEF Receive, IndInv, ScanInv
<1>4. KeysInv' /\ TokenInv'
    BY <1>3 DEF IndInv, KeysInv, TokenInv, process
<1>5. CASE /\ stage' \in {"limiting", "admitting"} /\ cause' = None /\ records' = NothingRecorded
  <2>1. records' = Rec(<<>>, <<>>, <<>>) /\ records' \in Records
      BY <1>5, NothingIsRec, RecIsRecords, Vocabulary
  <2>2. TypeOK'
      BY <1>1, <1>2, <1>3, <1>5, <2>1 DEF IndInv, TypeOK, process, Settled, InFlight
  <2>3. RequestInv'
      BY <1>1, <1>2, <1>3, <1>5, TokenNameIs DEF RequestInv
  <2>4. ScanInv' /\ CredentialInv'
      BY <1>3, <1>5 DEF ScanInv, CredentialInv
  <2>5. RecordsInv'
      BY <1>5, <2>1, Vocabulary DEF RecordsInv, RecordsAgree, InFlight, Rec
  <2> QED BY <1>4, <2>2, <2>3, <2>4, <2>5 DEF IndInv
<1>6. CASE /\ stage' = "failed" /\ cause' = "InvalidPayload"
           /\ records' = RecordFailure(NothingRecorded, "InvalidPayload")
  <2>1. IsEnd(records', <<>>, <<>>, <<>>, 1)
      BY <1>6, NothingIsRec, FailureRecorded, Vocabulary
  <2>2. TypeOK'
    <3>1. cause' \in TokenizerError /\ cause' # None
        BY <1>6, Vocabulary, ExchangeAssumption
    <3> QED BY <1>3, <1>6, <2>1, <3>1 DEF IndInv, TypeOK, process, Settled, InFlight, IsEnd
  <2>3. RequestInv'
      BY <1>1, <1>2, <1>3, <1>6, TokenNameIs DEF RequestInv
  <2>4. ScanInv' /\ CredentialInv'
      BY <1>3, <1>6 DEF ScanInv, CredentialInv
  <2>5. RecordsInv'
    <3>1. EventsOf("InvalidPayload", <<>>, Has(client', "x-tokenizer-token")) = <<>>
        BY NoEvents
    <3> QED BY <1>3, <1>6, <2>1, <3>1, Vocabulary DEF RecordsInv, RecordsAgree, InFlight, IsEnd
  <2> QED BY <1>4, <2>2, <2>3, <2>4, <2>5 DEF IndInv
<1> QED BY <1>5, <1>6 DEF Receive

\* The request moves on, and neither it nor what is recorded changes.
LEMMA MoveKeeps ==
    ASSUME IndInv, UNCHANGED <<now, process, token, carried, cause, records>>,
           stage \in {"limiting", "admitting"}, NEW s \in {"admitting", "replay"}, stage' = s,
           s = "replay" => Has(client, TokenName)
    PROVE  IndInv'
<1>1. TypeOK' /\ KeysInv' /\ TokenInv'
    BY DEF IndInv, TypeOK, KeysInv, TokenInv, process, carried, Settled, InFlight
<1>2. RequestInv'
    BY DEF IndInv, RequestInv, carried, process
<1>3. ScanInv' /\ CredentialInv'
    BY DEF IndInv, ScanInv, CredentialInv, carried, process
<1>4. RecordsInv'
    BY DEF IndInv, RecordsInv, RecordsAgree, carried, InFlight
<1> QED BY <1>1, <1>2, <1>3, <1>4 DEF IndInv

LEMMA LimitKeeps ==
    ASSUME IndInv, Limit
    PROVE  IndInv'
<1>1. stage = "limiting" /\ UNCHANGED <<now, process, token>> /\ records = NothingRecorded
    BY DEF Limit, IndInv, RecordsInv
<1>2. CASE Fail("RateLimitExceeded", "RateLimitExceeded", records)
  <2>1. IsFailure("RateLimitExceeded", "RateLimitExceeded", <<>>, <<>>, <<>>)
      BY NoEvents, Vocabulary DEF IsFailure
  <2>2. Fail("RateLimitExceeded", "RateLimitExceeded", Rec(<<>>, <<>>, <<>>))
      BY <1>1, <1>2, NothingIsRec
  <2> QED BY <1>1, <2>1, <2>2, FailKeeps DEF InFlight
<1>3. CASE stage' = "admitting" /\ UNCHANGED <<carried, cause, records>>
    BY <1>1, <1>3, MoveKeeps
<1> QED BY <1>2, <1>3 DEF Limit

\* Admission refuses with a validation result, without or with an event.
LEMMA RefuseKeeps ==
    ASSUME IndInv, stage \in {"admitting", "replay"}, UNCHANGED <<now, process, token>>,
           NEW e \in TokenizerError, NEW label \in ValidationResult,
           EventsOf(e, <<label>>, Has(client, TokenName)) = <<>>,
           Refuse(e, Validated(label))
    PROVE  IndInv'
<1>1. records = NothingRecorded
    BY DEF IndInv, RecordsInv
<1>2. Fail(e, ThroughRateLimit(e), Rec(<<label>>, <<>>, <<>>))
    BY <1>1, ValidatedRec DEF Refuse
<1> PICK out : out = ThroughRateLimit(e)
    OBVIOUS
<1>3. IsFailure(e, out, <<label>>, <<>>, <<>>)
    BY Vocabulary DEF IsFailure
<1> QED BY <1>2, <1>3, FailKeeps DEF InFlight

LEMMA RefuseEventKeeps ==
    ASSUME IndInv, stage \in {"admitting", "replay"}, UNCHANGED <<now, process, token>>,
           NEW e \in TokenizerError, NEW label \in ValidationResult, NEW event \in Event,
           EventsOf(e, <<label>>, Has(client, TokenName)) = <<event>>,
           Refuse(e, With(Validated(label), event))
    PROVE  IndInv'
<1>1. records = NothingRecorded
    BY DEF IndInv, RecordsInv
<1>2. With(Validated(label), event) = Rec(<<label>>, <<>>, <<event>>)
    BY <1>1, ValidatedRec, WithEvent
<1>3. Fail(e, ThroughRateLimit(e), Rec(<<label>>, <<>>, <<event>>))
    BY <1>2 DEF Refuse
<1> PICK out : out = ThroughRateLimit(e)
    OBVIOUS
<1>4. IsFailure(e, out, <<label>>, <<>>, <<event>>)
    BY Vocabulary DEF IsFailure
<1> QED BY <1>3, <1>4, FailKeeps DEF InFlight

LEMMA AdmitTokenOptionalKeeps ==
    ASSUME IndInv, AdmitTokenOptional
    PROVE  IndInv'
<1>1. /\ stage = "admitting" /\ ~Has(client, TokenName) /\ UNCHANGED <<now, process, token>>
      /\ records = NothingRecorded
    BY TokenNameIs DEF AdmitTokenOptional, IndInv, RequestInv, RecordsInv
<1>2. CASE Refuse("InvalidPayload", Validated("Missing"))
  <2>1. EventsOf("InvalidPayload", <<"Missing">>, Has(client, TokenName)) = <<>>
      BY NoEvents
  <2> QED BY <1>1, <1>2, <2>1, RefuseKeeps, Vocabulary DEF ValidationResult
<1>3. CASE Refuse("InvalidPayload", Validated("Skipped"))
  <2>1. EventsOf("InvalidPayload", <<"Skipped">>, Has(client, TokenName)) = <<>>
      BY NoEvents
  <2> QED BY <1>1, <1>3, <2>1, RefuseKeeps, Vocabulary DEF ValidationResult
<1>4. CASE Refuse("HostNotAllowed", With(Validated("Skipped"), "token_optional_host_rejection"))
  <2>1. EventsOf("HostNotAllowed", <<"Skipped">>, Has(client, TokenName)) = <<"token_optional_host_rejection">>
      BY <1>1 DEF EventsOf
  <2> QED BY <1>1, <1>4, <2>1, RefuseEventKeeps, Vocabulary DEF ValidationResult, Event
<1>5. CASE stage' = "forwarded" /\ records' = Validated("Skipped") /\ UNCHANGED <<carried, cause>>
  <2>1. records' = Rec(<<"Skipped">>, <<>>, <<>>)
      BY <1>1, <1>5, ValidatedRec
  <2>2. records' \in Records
      BY <2>1, RecIsRecords, Vocabulary DEF ValidationResult
  <2>3. TypeOK' /\ KeysInv' /\ TokenInv'
      BY <1>1, <1>5, <2>2 DEF IndInv, TypeOK, KeysInv, TokenInv, process, carried, Settled, InFlight
  <2>4. RequestInv'
      BY <1>1, <1>5 DEF IndInv, RequestInv, process, carried
  <2>5. ScanInv' /\ CredentialInv'
      BY <1>1, <1>5 DEF IndInv, ScanInv, CredentialInv, process, carried
  <2>6. RecordsInv'
    <3>1. /\ records'.validations = <<"Skipped">> /\ records'.processors = <<>> /\ records'.requests = <<>>
          /\ records'.errors = <<>> /\ records'.durations = 0 /\ records'.events = <<>>
        BY <2>1 DEF Rec
    <3>2. Len(<<"Skipped">>) = 1 /\ Len(<<>>) = 0
        OBVIOUS
    <3>3. stage' = "forwarded" /\ ~Has(client', "x-tokenizer-token")
        BY <1>1, <1>5, TokenNameIs DEF carried
    <3> QED BY <3>1, <3>2, <3>3 DEF RecordsInv, RecordsAgree, InFlight
  <2> QED BY <2>3, <2>4, <2>5, <2>6 DEF IndInv
<1> QED BY <1>2, <1>3, <1>4, <1>5 DEF AdmitTokenOptional

\* Unsealing a token fails with one of three errors.
LEMMA UnsealingFails ==
    Unsealing \in {None, "DecryptionError", "TokenExpired", "InvalidPayload"}
BY DEF Unsealing, UnsealError

LEMMA RejectTokenKeeps ==
    ASSUME IndInv, RejectToken
    PROVE  IndInv'
<1>1. stage = "admitting" /\ UNCHANGED <<now, process, token>>
    BY DEF RejectToken
<1>2. ASSUME NEW e \in {"InvalidPayload", "DecryptionError", "TokenExpired"},
             NEW label \in {"Invalid", "DecryptionFailed", "Expired"},
             Refuse(e, Validated(label))
      PROVE  IndInv'
  <2>1. EventsOf(e, <<label>>, Has(client, TokenName)) = <<>>
      BY NoEvents
  <2>2. e \in TokenizerError /\ label \in ValidationResult
      BY Vocabulary DEF ValidationResult
  <2> QED BY <1>1, <1>2, <2>1, <2>2, RefuseKeeps
<1>3. CASE Refuse("InvalidPayload", Validated("Invalid"))
    BY <1>2, <1>3
<1>4. CASE Refuse("DecryptionError", Validated("DecryptionFailed"))
    BY <1>2, <1>4
<1>5. CASE /\ TokenHeader = <<"sealed">>
           /\ Refuse(Unsealing, Validated(IF Unsealing = "TokenExpired" THEN "Expired" ELSE "DecryptionFailed"))
  <2> PICK e, label : /\ e = Unsealing
                      /\ label = IF Unsealing = "TokenExpired" THEN "Expired" ELSE "DecryptionFailed"
      OBVIOUS
  <2>1. e # None
      BY <1>5 DEF RejectToken, Decrypts
  <2>2. e \in {"InvalidPayload", "DecryptionError", "TokenExpired"}
      BY <2>1, UnsealingFails
  <2> QED BY <1>2, <1>5, <2>2
<1> QED BY <1>3, <1>4, <1>5 DEF RejectToken

LEMMA ValidateRequestKeeps ==
    ASSUME IndInv, ValidateRequest
    PROVE  IndInv'
<1>1. /\ stage = "admitting" /\ UNCHANGED <<now, process, token>> /\ Has(client, TokenName)
    BY TokenNameIs DEF ValidateRequest, IndInv, RequestInv
<1>2. ASSUME NEW c \in Constraint, Refuse(c[1], c[2])
      PROVE  IndInv'
  <2>1. ASSUME NEW e \in {"ProxyAuthRequired", "InvalidPayload"}, Refuse(e, Validated("Invalid"))
        PROVE  IndInv'
    <3>1. EventsOf(e, <<"Invalid">>, Has(client, TokenName)) = <<>>
        BY NoEvents
    <3>2. e \in TokenizerError /\ "Invalid" \in ValidationResult
        BY Vocabulary DEF ValidationResult
    <3> QED BY <1>1, <2>1, <3>1, <3>2, RefuseKeeps
  <2>2. ASSUME NEW e \in TokenizerError, NEW label \in ValidationResult, NEW event \in Event,
               Refuse(e, With(Validated(label), event)),
               \/ e = "MethodNotAllowed" /\ label = "MethodValidationFailed" /\ event = "method_rejection"
               \/ /\ e \in {"HostNotAllowed", "ConfigError"} /\ label = "HostValidationFailed"
                  /\ event = "host_rejection"
               \/ /\ e \in {"PathNotAllowed", "ConfigError"} /\ label = "PathValidationFailed"
                  /\ event = "path_rejection"
        PROVE  IndInv'
    <3>1. EventsOf(e, <<label>>, Has(client, TokenName)) = <<event>>
        BY <1>1, <2>2 DEF EventsOf
    <3> QED BY <1>1, <2>2, <3>1, RefuseEventKeeps
  <2>3. \/ c[1] = "ProxyAuthRequired" /\ c[2] = Validated("Invalid")
        \/ c[1] = "InvalidPayload" /\ c[2] = Validated("Invalid")
        \/ c[1] = "MethodNotAllowed" /\ c[2] = With(Validated("MethodValidationFailed"), "method_rejection")
        \/ /\ c[1] \in {"HostNotAllowed", "ConfigError"}
           /\ c[2] = With(Validated("HostValidationFailed"), "host_rejection")
        \/ /\ c[1] \in {"PathNotAllowed", "ConfigError"}
           /\ c[2] = With(Validated("PathValidationFailed"), "path_rejection")
      BY DEF Constraint
  <2> QED BY <1>2, <2>1, <2>2, <2>3, Vocabulary DEF ValidationResult, Event
<1>3. CASE stage' = "replay" /\ UNCHANGED <<carried, cause, records>>
    BY <1>1, <1>3, MoveKeeps
<1> QED BY <1>2, <1>3 DEF ValidateRequest

LEMMA RefuseReplayKeeps ==
    ASSUME IndInv, RefuseReplay
    PROVE  IndInv'
<1>1. stage = "replay" /\ UNCHANGED <<now, process, token>> /\ records = NothingRecorded
    BY DEF RefuseReplay, IndInv, RecordsInv
<1>2. CASE Refuse("ReplayProtectionUnavailable", Validated("ReplayProtectionUnavailable"))
  <2>1. EventsOf("ReplayProtectionUnavailable", <<"ReplayProtectionUnavailable">>, Has(client, TokenName)) = <<>>
      BY NoEvents
  <2> QED BY <1>1, <1>2, <2>1, RefuseKeeps, Vocabulary DEF ValidationResult
<1>3. CASE Refuse("TokenReplayDetected", With(records, "replay_attempt"))
  <2>1. With(records, "replay_attempt") = Rec(<<>>, <<>>, <<"replay_attempt">>)
      BY <1>1, NothingIsRec, WithEvent
  <2> PICK out : out = ThroughRateLimit("TokenReplayDetected")
      OBVIOUS
  <2>2. IsFailure("TokenReplayDetected", out, <<>>, <<>>, <<"replay_attempt">>)
      BY Vocabulary DEF IsFailure, EventsOf, Event
  <2>3. Fail("TokenReplayDetected", out, Rec(<<>>, <<>>, <<"replay_attempt">>))
      BY <1>3, <2>1 DEF Refuse
  <2> QED BY <1>1, <2>2, <2>3, FailKeeps DEF InFlight
<1>4. ASSUME NEW e \in {"NonceStoreError", "TokenExpired"}, Refuse(e, records)
      PROVE  IndInv'
  <2> PICK out : out = ThroughRateLimit(e)
      OBVIOUS
  <2>1. EventsOf(e, <<>>, Has(client, TokenName)) = <<>>
      BY NoEvents
  <2>2. IsFailure(e, out, <<>>, <<>>, <<>>)
      BY <2>1, Vocabulary DEF IsFailure
  <2>3. Fail(e, out, Rec(<<>>, <<>>, <<>>))
      BY <1>1, <1>4, NothingIsRec DEF Refuse
  <2> QED BY <1>1, <2>2, <2>3, FailKeeps DEF InFlight
<1> QED BY <1>2, <1>3, <1>4 DEF RefuseReplay

LEMMA FinalizeKeeps ==
    ASSUME IndInv, Finalize
    PROVE  IndInv'
<1> PICK p, r, res, rec :
        /\ p = token.payload.processor /\ r = Stripped(req)
        /\ res = Process(p, r, token.payload, now)
        /\ rec = [Validated("Success") EXCEPT !.processors = Append(@, p.type)]
    OBVIOUS
<1>1. /\ stage = "replay" /\ UNCHANGED <<now, process, token>> /\ Has(client, TokenName)
      /\ IsRequest(req) /\ token # None /\ IsProcessorConfig(p) /\ records = NothingRecorded
    BY DEF Finalize, IndInv, RequestInv, TokenInv, RecordsInv
<1>2. \/ ~Valid(p) /\ Refuse("InvalidPayload", rec)
      \/ Valid(p) /\ res.error # None /\ Refuse(res.error, rec)
      \/ /\ Valid(p) /\ res.error = None
         /\ req' = res.req /\ records' = rec
         /\ patterns' = IF config.response_scan
                        THEN GenerateScanPatterns(token.payload.secret) ELSE {}
         /\ stage' = IF config.collects /\ IsBodyProcessor(p) THEN "handed" ELSE "forwarded"
         /\ UNCHANGED <<client, returned, cause>>
    BY DEF Finalize
<1>3. p.type \in ProcessorType \cup {"multi"}
    BY <1>1 DEF IsProcessorConfig
<1>4. rec = Rec(<<"Success">>, <<p.type>>, <<>>)
  <2> DEFINE validated == Validated("Success")
  <2>1. validated = Rec(<<"Success">>, <<>>, <<>>)
      BY <1>1, ValidatedRec
  <2>2. rec = [validated EXCEPT !.processors = Append(@, p.type)]
      OBVIOUS
  <2> HIDE DEF validated
  <2> QED BY <2>1, <2>2, RecGrows
<1>5. <<p.type>> \in Seq(ProcessorType \cup {"multi"}) /\ Len(<<p.type>>) = 1
    BY <1>3, ShortSequences
<1>6. "Success" \in ValidationResult
    BY DEF ValidationResult
<1>7. ASSUME NEW e \in ProcessError, Refuse(e, rec)
      PROVE  IndInv'
  <2> PICK out : out = ThroughRateLimit(e)
      OBVIOUS
  <2>1. EventsOf(e, <<"Success">>, Has(client, TokenName)) = <<>>
      BY DEF EventsOf, ProcessError
  <2>2. IsFailure(e, out, <<"Success">>, <<p.type>>, <<>>)
      BY <1>5, <1>6, <2>1, Vocabulary DEF IsFailure
  <2>3. Fail(e, out, Rec(<<"Success">>, <<p.type>>, <<>>))
      BY <1>4, <1>7 DEF Refuse
  <2> QED BY <1>1, <2>2, <2>3, FailKeeps DEF InFlight
<1>8. CASE ~Valid(p) /\ Refuse("InvalidPayload", rec)
    BY <1>7, <1>8 DEF ProcessError
<1>9. ASSUME Valid(p)
      PROVE  /\ res.error \in ProcessError \cup {None}
             /\ IsRequest(res.req)
             /\ res.error = None =>
                   /\ Clean(res.req)
                   /\ \A i \in DOMAIN Parts(p) : ~NeedsBody(Parts(p)[i]) => Filled(res.req, Parts(p)[i])
  <2>1. IsRequest(r) /\ Clean(r)
      BY <1>1, Removed DEF Stripped, Clean, Has, TokenName
  <2> QED BY <1>1, <1>9, <2>1, ProcessGood
<1>10. CASE Valid(p) /\ res.error # None /\ Refuse(res.error, rec)
    BY <1>7, <1>9, <1>10
<1>11. CASE /\ Valid(p) /\ res.error = None
            /\ req' = res.req /\ records' = rec
            /\ patterns' = IF config.response_scan
                           THEN GenerateScanPatterns(token.payload.secret) ELSE {}
            /\ stage' = IF config.collects /\ IsBodyProcessor(p) THEN "handed" ELSE "forwarded"
            /\ UNCHANGED <<client, returned, cause>>
  <2>1. stage' \in {"handed", "forwarded"} /\ (stage' = "handed" => config.collects /\ IsBodyProcessor(p))
      BY <1>11
  <2>2. records' \in Records
    <3>1. <<"Success">> \in Seq(ValidationResult) /\ <<>> \in Seq(Event)
        BY <1>6, Vocabulary
    <3>2. Rec(<<"Success">>, <<p.type>>, <<>>) \in Records
        BY <1>5, <3>1, RecIsRecords, Zenon
    <3> QED BY <1>4, <1>11, <3>2, Zenon
  <2>3. TypeOK'
      BY <1>1, <1>9, <1>11, <2>1, <2>2 DEF IndInv, TypeOK, process, Settled, InFlight
  <2>4. KeysInv' /\ TokenInv'
      BY <1>1 DEF IndInv, KeysInv, TokenInv, process
  <2>5. RequestInv'
      BY <1>1, <1>9, <1>11, <2>1 DEF IndInv, RequestInv, process
  <2>6. ScanInv'
      BY <1>1, <1>11, <2>1 DEF IndInv, ScanInv, process
  <2>7. RecordsInv'
    <3>1. /\ records'.validations = <<"Success">> /\ records'.processors = <<p.type>>
          /\ records'.requests = <<>> /\ records'.errors = <<>> /\ records'.durations = 0
          /\ records'.events = <<>>
        BY <1>4, <1>11 DEF Rec
    <3>2. Len(<<"Success">>) = 1
        OBVIOUS
    <3>3. Has(client', "x-tokenizer-token")
        BY <1>1, <1>11, TokenNameIs
    <3> QED BY <1>5, <2>1, <3>1, <3>2, <3>3 DEF RecordsInv, RecordsAgree, InFlight
  <2>8. CredentialInv'
    <3>1. p = token'.payload.processor /\ config' = config
        BY <1>1 DEF process
    <3>2. ASSUME NEW i \in DOMAIN Parts(p),
                 ~NeedsBody(Parts(p)[i]) \/ (config'.collects /\ stage' \notin {"handed", "collecting"})
          PROVE  Filled(req', Parts(p)[i])
      <4>1. ~NeedsBody(Parts(p)[i])
          BY <1>11, <3>1, <3>2 DEF IsBodyProcessor
      <4> QED BY <1>9, <1>11, <4>1
    <3>3. Clean(req')
        BY <1>9, <1>11
    <3> QED BY <3>1, <3>2, <3>3 DEF CredentialInv, Clean, Filled
  <2> QED BY <2>3, <2>4, <2>5, <2>6, <2>7, <2>8 DEF IndInv
<1> QED BY <1>2, <1>8, <1>10, <1>11

\* process_body fails.
LEMMA BodyRefusalKeeps ==
    ASSUME IndInv, stage \in {"handed", "collecting"}, UNCHANGED <<now, process, token>>,
           NEW e \in ProcessError \cup {"HttpError"}, Refuse(e, records)
    PROVE  IndInv'
<1> PICK out, v, ps : /\ out = ThroughRateLimit(e)
                      /\ v = records.validations /\ ps = records.processors
    OBVIOUS
<1>1. Has(client, TokenName)
    BY DEF IndInv, RequestInv
<1>2. /\ records = Rec(v, ps, <<>>) /\ v \in Seq(ValidationResult) /\ Len(v) <= 1
      /\ ps \in Seq(ProcessorType \cup {"multi"})
    BY RecordsInFlight DEF IndInv, InFlight
<1>3. v = <<"Success">>
    BY <1>1, TokenNameIs DEF IndInv, RecordsInv, RecordsAgree
<1>4. EventsOf(e, v, Has(client, TokenName)) = <<>>
    BY <1>3 DEF EventsOf, ProcessError
<1>5. IsFailure(e, out, v, ps, <<>>)
    BY <1>2, <1>4, Vocabulary DEF IsFailure
<1>6. Fail(e, out, Rec(v, ps, <<>>))
    BY <1>2 DEF Refuse
<1> QED BY <1>5, <1>6, FailKeeps DEF InFlight

\* process_body goes on, with another request.
LEMMA BodyStepKeeps ==
    ASSUME IndInv, stage \in {"handed", "collecting"}, stage' \in {"collecting", "forwarded"},
           IsRequest(req'), CredentialInv',
           UNCHANGED <<now, process, token, patterns, client, returned, cause, records>>
    PROVE  IndInv'
<1>1. TypeOK'
    BY DEF IndInv, TypeOK, process, Settled, InFlight
<1>2. KeysInv' /\ TokenInv'
    BY DEF IndInv, KeysInv, TokenInv, process
<1>3. RequestInv'
    BY DEF IndInv, RequestInv, process
<1>4. ScanInv'
    BY DEF IndInv, ScanInv, process
<1>5. RecordsInv'
    BY DEF IndInv, RecordsInv, RecordsAgree, InFlight
<1> QED BY <1>1, <1>2, <1>3, <1>4, <1>5 DEF IndInv

LEMMA HeadersAgainKeeps ==
    ASSUME IndInv, HeadersAgain
    PROVE  IndInv'
<1> PICK p, res : p = token.payload.processor /\ res = Process(p, req, token.payload, now)
    OBVIOUS
<1>1. /\ stage = "handed" /\ UNCHANGED <<now, process, token>> /\ Has(client, TokenName)
      /\ IsRequest(req) /\ token # None /\ IsProcessorConfig(p) /\ Valid(p)
    BY DEF HeadersAgain, IndInv, RequestInv, TokenInv
<1>2. \/ res.error # None /\ Refuse(res.error, records)
      \/ /\ res.error = None
         /\ req' = res.req /\ stage' = "collecting"
         /\ UNCHANGED <<patterns, client, returned, cause, records>>
    BY DEF HeadersAgain
<1>3. /\ res.error \in ProcessError \cup {None}
      /\ IsRequest(res.req)
      /\ res.error = None =>
            /\ Clean(res.req)
            /\ \A i \in DOMAIN Parts(p) : ~NeedsBody(Parts(p)[i]) => Filled(res.req, Parts(p)[i])
  <2>1. Clean(req)
      BY <1>1 DEF IndInv, CredentialInv
  <2> QED BY <1>1, <2>1, ProcessGood
<1>4. CASE res.error # None /\ Refuse(res.error, records)
    BY <1>1, <1>3, <1>4, BodyRefusalKeeps
<1>5. CASE /\ res.error = None
           /\ req' = res.req /\ stage' = "collecting"
           /\ UNCHANGED <<patterns, client, returned, cause, records>>
  <2>1. CredentialInv'
    <3>1. p = token'.payload.processor
        BY <1>1
    <3> QED BY <1>3, <1>5, <3>1 DEF CredentialInv, Clean, Filled
  <2> QED BY <1>1, <1>3, <1>5, <2>1, BodyStepKeeps
<1> QED BY <1>2, <1>4, <1>5

LEMMA CollectBodyKeeps ==
    ASSUME IndInv, CollectBody
    PROVE  IndInv'
<1> PICK p, res : p = token.payload.processor /\ res = ProcessBody(p, req, token.payload, now)
    OBVIOUS
<1>1. /\ stage = "collecting" /\ UNCHANGED <<now, process, token>> /\ Has(client, TokenName)
      /\ IsRequest(req) /\ token # None /\ IsProcessorConfig(p)
      /\ IsBodyProcessor(p) /\ Valid(p)
    BY DEF CollectBody, IndInv, RequestInv, TokenInv
<1>2. \/ Refuse("HttpError", records)
      \/ res.error # None /\ Refuse(res.error, records)
      \/ /\ res.error = None
         /\ req' = res.req /\ stage' = "forwarded"
         /\ UNCHANGED <<patterns, client, returned, cause, records>>
    BY DEF CollectBody
<1>3. /\ Good(res, req, BodyPart(p))
      /\ \A i \in DOMAIN Parts(p) : NeedsBody(Parts(p)[i]) => Parts(p)[i] = BodyPart(p)
    BY <1>1, ProcessBodyGood
<1>4. CASE Refuse("HttpError", records)
    BY <1>1, <1>4, BodyRefusalKeeps
<1>5. CASE res.error # None /\ Refuse(res.error, records)
  <2>1. res.error \in ProcessError
      BY <1>3, <1>5 DEF Good
  <2> QED BY <1>1, <1>5, <2>1, BodyRefusalKeeps
<1>6. CASE /\ res.error = None
           /\ req' = res.req /\ stage' = "forwarded"
           /\ UNCHANGED <<patterns, client, returned, cause, records>>
  <2>1. IsRequest(res.req) /\ Keeps(req, res.req) /\ Filled(res.req, BodyPart(p))
      BY <1>3, <1>6 DEF Good
  <2>2. Clean(req) /\ \A i \in DOMAIN Parts(p) : ~NeedsBody(Parts(p)[i]) => Filled(req, Parts(p)[i])
      BY <1>1 DEF IndInv, CredentialInv
  <2>3. ASSUME NEW i \in DOMAIN Parts(p) PROVE Filled(res.req, Parts(p)[i])
    <3>1. CASE NeedsBody(Parts(p)[i])
        BY <1>3, <2>1, <3>1
    <3>2. CASE ~NeedsBody(Parts(p)[i])
      <4>1. Filled(req, Parts(p)[i])
          BY <2>2, <3>2
      <4> QED BY <2>1, <4>1 DEF Filled, Keeps
    <3> QED BY <3>1, <3>2
  <2>4. Clean(res.req)
      BY <2>1, <2>2 DEF Keeps
  <2>5. CredentialInv'
    <3>1. p = token'.payload.processor
        BY <1>1
    <3> QED BY <1>6, <2>3, <2>4, <3>1 DEF CredentialInv, Clean, Filled
  <2> QED BY <1>1, <1>6, <2>1, <2>5, BodyStepKeeps
<1> QED BY <1>2, <1>4, <1>5, <1>6

\* The response is passed on: its status is recorded, and with it a leak that was found.
LEMMA AnswerKeeps ==
    ASSUME IndInv, stage = "forwarded", stage' = "answered",
           UNCHANGED <<now, process, token, req, patterns, client, cause>>,
           NEW status, NEW ev \in Seq(Event),
           records' = RecordResponse(Rec(records.validations, records.processors, ev), status),
           ev # <<>> => returned' = None,
           returned' # None =>
               /\ token # None /\ returned' \in Encoding
               /\ config.response_scan =>
                     <<returned', token.payload.secret>> \notin GenerateScanPatterns(token.payload.secret)
    PROVE  IndInv'
<1> PICK v, ps : v = records.validations /\ ps = records.processors
    OBVIOUS
<1>1. v \in Seq(ValidationResult) /\ Len(v) <= 1 /\ ps \in Seq(ProcessorType \cup {"multi"})
    BY RecordsInFlight DEF IndInv, InFlight
<1>2. IsEnd(records', v, ps, ev, 0)
    BY <1>1, ResponseRecorded
<1>3. TypeOK'
    BY <1>2 DEF IndInv, TypeOK, process, Settled, InFlight, IsEnd
<1>4. KeysInv' /\ TokenInv'
    BY DEF IndInv, KeysInv, TokenInv, process
<1>5. RequestInv' /\ CredentialInv'
    BY DEF IndInv, RequestInv, CredentialInv, process
<1>6. ScanInv'
    BY DEF ScanInv, process
<1>7. RecordsInv'
  <2>1. /\ v = <<IF Has(client, "x-tokenizer-token") THEN "Success" ELSE "Skipped">>
        /\ Len(ps) = IF Has(client, "x-tokenizer-token") THEN 1 ELSE 0
      BY DEF IndInv, RecordsInv, RecordsAgree
  <2> QED BY <1>1, <1>2, <2>1 DEF RecordsInv, RecordsAgree, InFlight, IsEnd
<1> QED BY <1>3, <1>4, <1>5, <1>6, <1>7 DEF IndInv

LEMMA RespondKeeps ==
    ASSUME IndInv, Respond
    PROVE  IndInv'
<1>1. /\ stage = "forwarded" /\ stage' = "answered"
      /\ UNCHANGED <<now, process, token, req, patterns, client, cause, returned>>
    BY DEF Respond, carried
<1>2. PICK status \in {200, 404, 503} : records' = RecordResponse(records, status)
    BY DEF Respond
<1>3. records = Rec(records.validations, records.processors, <<>>)
    BY <1>1, RecordsInFlight DEF IndInv, InFlight
<1>4. records' = RecordResponse(Rec(records.validations, records.processors, <<>>), status)
    BY <1>2, <1>3
<1>5. returned' = None
    BY <1>1 DEF IndInv, ScanInv
<1> QED BY <1>1, <1>4, <1>5, AnswerKeeps, Vocabulary

LEMMA EchoKeeps ==
    ASSUME IndInv, Echo
    PROVE  IndInv'
<1> PICK form \in Encoding :
        LET found == <<form, token.payload.secret>> \in patterns
            leak == With(records, "secret_leak_detected")
        IN \/ found /\ FailInside("SecretLeakDetected", leak)
           \/ /\ stage' = "answered"
              /\ records' = RecordResponse(IF found THEN leak ELSE records, 200)
              /\ returned' = IF found THEN None ELSE form
              /\ UNCHANGED <<req, patterns, client, cause>>
    BY DEF Echo
<1> PICK v, ps, leak : /\ v = records.validations /\ ps = records.processors
                       /\ leak = With(records, "secret_leak_detected")
    OBVIOUS
<1>1. /\ stage = "forwarded" /\ UNCHANGED <<now, process, token>> /\ Has(client, TokenName)
      /\ token # None
    BY TokenNameIs DEF Echo, IndInv, RequestInv
<1>2. /\ records = Rec(v, ps, <<>>) /\ v \in Seq(ValidationResult) /\ Len(v) <= 1
      /\ ps \in Seq(ProcessorType \cup {"multi"})
    BY <1>1, RecordsInFlight DEF IndInv, InFlight
<1>3. leak = Rec(v, ps, <<"secret_leak_detected">>)
    BY <1>2, WithEvent
<1>4. <<"secret_leak_detected">> \in Seq(Event)
    BY Vocabulary DEF Event
<1>5. CASE FailInside("SecretLeakDetected", leak)
  <2> PICK out : out = ThroughRateLimit("HttpError")
      OBVIOUS
  <2>1. EventsOf("SecretLeakDetected", v, Has(client, TokenName)) = <<"secret_leak_detected">>
      BY DEF EventsOf
  <2>2. IsFailure("SecretLeakDetected", out, v, ps, <<"secret_leak_detected">>)
      BY <1>2, <1>4, <2>1, Vocabulary DEF IsFailure
  <2>3. Fail("SecretLeakDetected", out, Rec(v, ps, <<"secret_leak_detected">>))
      BY <1>3, <1>5 DEF FailInside
  <2> QED BY <1>1, <2>2, <2>3, FailKeeps DEF InFlight
<1>6. CASE /\ <<form, token.payload.secret>> \in patterns
           /\ stage' = "answered" /\ records' = RecordResponse(leak, 200) /\ returned' = None
           /\ UNCHANGED <<req, patterns, client, cause>>
  <2>1. records' = RecordResponse(Rec(records.validations, records.processors, <<"secret_leak_detected">>), 200)
      BY <1>3, <1>6
  <2> QED BY <1>1, <1>4, <1>6, <2>1, AnswerKeeps
<1>7. CASE /\ <<form, token.payload.secret>> \notin patterns
           /\ stage' = "answered" /\ records' = RecordResponse(records, 200) /\ returned' = form
           /\ UNCHANGED <<req, patterns, client, cause>>
  <2>1. records' = RecordResponse(Rec(records.validations, records.processors, <<>>), 200)
      BY <1>2, <1>7
  <2>2. config.response_scan => <<form, token.payload.secret>> \notin GenerateScanPatterns(token.payload.secret)
      BY <1>1, <1>7 DEF IndInv, ScanInv
  <2> QED BY <1>1, <1>7, <2>1, <2>2, AnswerKeeps, Vocabulary
<1> QED BY <1>5, <1>6, <1>7

LEMMA UpstreamFailsKeeps ==
    ASSUME IndInv, UpstreamFails
    PROVE  IndInv'
<1> PICK v, ps : v = records.validations /\ ps = records.processors
    OBVIOUS
<1>1. stage = "forwarded" /\ UNCHANGED <<now, process, token>>
    BY DEF UpstreamFails
<1>2. /\ records = Rec(v, ps, <<>>) /\ v \in Seq(ValidationResult) /\ Len(v) <= 1
      /\ ps \in Seq(ProcessorType \cup {"multi"})
    BY <1>1, RecordsInFlight DEF IndInv, InFlight
<1> PICK out : out = ThroughRateLimit("HttpError")
    OBVIOUS
<1>3. ASSUME NEW e \in {"HttpError", "BlockedAddress"}, FailInside(e, records)
      PROVE  IndInv'
  <2>1. EventsOf(e, v, Has(client, TokenName)) = <<>>
      BY NoEvents
  <2>2. IsFailure(e, out, v, ps, <<>>)
      BY <1>2, <2>1, Vocabulary DEF IsFailure
  <2>3. Fail(e, out, Rec(v, ps, <<>>))
      BY <1>2, <1>3 DEF FailInside
  <2> QED BY <1>1, <2>2, <2>3, FailKeeps DEF InFlight
<1>4. CASE FailInside("UnsupportedContentEncoding", With(records, "unsupported_encoding_blocked"))
  <2> DEFINE e == "UnsupportedContentEncoding"
             ev == <<"unsupported_encoding_blocked">>
  <2>1. EventsOf(e, v, Has(client, TokenName)) = ev
      BY DEF EventsOf
  <2>2. IsFailure(e, out, v, ps, ev)
      BY <1>2, <2>1, Vocabulary DEF IsFailure, Event
  <2>3. Fail(e, out, Rec(v, ps, ev))
      BY <1>2, <1>4, WithEvent DEF FailInside
  <2> QED BY <1>1, <2>2, <2>3, FailKeeps DEF InFlight
<1> QED BY <1>3, <1>4 DEF UpstreamFails

LEMMA TimeoutKeeps ==
    ASSUME IndInv, Timeout
    PROVE  IndInv'
<1> PICK v, ps : v = records.validations /\ ps = records.processors
    OBVIOUS
<1>1. stage \in InFlight /\ UNCHANGED <<now, process, token>>
    BY DEF Timeout, Awaiting, InFlight
<1>2. /\ records = Rec(v, ps, <<>>) /\ v \in Seq(ValidationResult) /\ Len(v) <= 1
      /\ ps \in Seq(ProcessorType \cup {"multi"})
    BY <1>1, RecordsInFlight DEF IndInv
<1>3. EventsOf("Timeout", v, Has(client, TokenName)) = <<>>
    BY NoEvents
<1>4. IsFailure("Timeout", "Timeout", v, ps, <<>>)
    BY <1>2, <1>3, Vocabulary DEF IsFailure
<1>5. Fail("Timeout", "Timeout", Rec(v, ps, <<>>))
    BY <1>2 DEF Timeout
<1> QED BY <1>1, <1>4, <1>5, FailKeeps

LEMMA CancelKeeps ==
    ASSUME IndInv, Cancel
    PROVE  IndInv'
<1>1. /\ stage \in InFlight /\ stage' = "cancelled"
      /\ UNCHANGED <<now, process, token, carried, cause, records>>
    BY DEF Cancel, Awaiting, InFlight
<1>2. TypeOK' /\ KeysInv' /\ TokenInv'
    BY <1>1 DEF IndInv, TypeOK, KeysInv, TokenInv, process, carried, Settled, InFlight
<1>3. RequestInv'
    BY <1>1 DEF IndInv, RequestInv, process, carried, InFlight
<1>4. ScanInv' /\ CredentialInv'
    BY <1>1 DEF IndInv, ScanInv, CredentialInv, process, carried, InFlight
<1>5. RecordsInv'
    BY <1>1 DEF IndInv, RecordsInv, RecordsAgree, carried, InFlight
<1> QED BY <1>2, <1>3, <1>4, <1>5 DEF IndInv

-----------------------------------------------------------------------------
(* Theorems                                                                *)

\* What holds in every state: the keys, the token, the request, what is searched for,
\* the records and the credentials, each needing the ones before it.
THEOREM ExchangeInvariant == Spec => []IndInv
<1>1. ASSUME IndInv, [Next]_vars
      PROVE  IndInv'
  <2>1. CASE Rotate \/ AddOldKey
      BY <1>1, <2>1, KeyStepKeeps
  <2>2. CASE StartServing
      BY <1>1, <2>2, RestKeeps DEF StartServing, IndInv, TypeOK
  <2>3. CASE Restart
      BY <1>1, <2>3, RestartKeeps
  <2>4. CASE Seal
      BY <1>1, <2>4, SealKeeps
  <2>5. CASE Tick
    <3>1. now' \in 0..MaxTime
        BY <1>1, <2>5, ExchangeAssumption DEF Tick, IndInv, TypeOK
    <3>2. UNCHANGED <<config, boots, keys, held, token, exchange>> /\ serving' \in BOOLEAN
        BY <1>1, <2>5 DEF Tick, IndInv, TypeOK, process
    <3> QED BY <1>1, <3>1, <3>2, RestKeeps
  <2>6. CASE Serve
      BY <1>1, <2>6, ReceiveKeeps, LimitKeeps, AdmitTokenOptionalKeeps, RejectTokenKeeps,
         ValidateRequestKeeps, RefuseReplayKeeps, FinalizeKeeps, HeadersAgainKeeps, CollectBodyKeeps, RespondKeeps,
         EchoKeeps, UpstreamFailsKeeps, TimeoutKeeps, CancelKeeps DEF Serve
  <2>7. CASE UNCHANGED vars
    <3>1. UNCHANGED <<config, boots, keys, held, token, exchange>> /\ serving' = serving /\ now' = now
        BY <2>7 DEF vars, process
    <3> QED BY <1>1, <3>1, RestKeeps DEF IndInv, TypeOK
  <2> QED BY <1>1, <2>1, <2>2, <2>3, <2>4, <2>5, <2>6, <2>7 DEF Next
<1> QED BY <1>1, InitInd, PTL DEF Spec

\* The variables have their types: in particular every failure has an error of
\* TokenizerError, whatever processor it comes from.
THEOREM ExchangeTypeCorrect == Spec => []TypeOK
<1>1. IndInv => TypeOK
    BY DEF IndInv
<1> QED BY <1>1, ExchangeInvariant, PTL

\* set_primary, add_historical and find_by_id: whatever keys a process is given, in
\* whatever order, a token sealed for one of them opens, unless another key has its id.
THEOREM RotationLosesNothing == Spec => []RotationKeepsTokens
<1>1. IndInv => RotationKeepsTokens
  <2> SUFFICES ASSUME IndInv, token # None, token.sealed_for \in held,
                      \A k \in held : k.id = token.key_id => k = token.sealed_for
               PROVE  Opens(keys, token)
      BY DEF RotationKeepsTokens
  <2> PICK ks, k : ks = keys /\ k = token.sealed_for
      OBVIOUS
  <2>1. ks \in KeyStore /\ held = KeysOf(ks) /\ token.key_id = k.id
      BY DEF IndInv, TypeOK, KeyStore, KeysInv, TokenInv
  <2>2. FindById(ks, k.id) = k
      BY <2>1, KeyIsFound
  <2> QED BY <2>1, <2>2 DEF Opens
<1> QED BY <1>1, ExchangeInvariant, PTL

\* GenerateScanPatterns and DynamicResponseScanService: with scanning on, the secret
\* that was injected comes back in no encoding, or it is short and not as it is.
THEOREM SecretsStayInside == Spec => []SecretStaysInside
<1>1. IndInv => SecretStaysInside
  <2> SUFFICES ASSUME IndInv, returned # None, config.response_scan
               PROVE  returned # "raw" /\ token.payload.secret \in Short
      BY DEF SecretStaysInside
  <2> PICK secret : secret = token.payload.secret
      OBVIOUS
  <2>1. returned \in Encoding /\ <<returned, secret>> \notin GenerateScanPatterns(secret)
      BY DEF IndInv, ScanInv
  <2>2. "raw" \in Encoding
      BY DEF Encoding
  <2>3. \A form : form \in (IF secret \in Short THEN {"raw"} ELSE Encoding)
                    => <<form, secret>> \in GenerateScanPatterns(secret)
      BY DEF GenerateScanPatterns
  <2> QED BY <2>1, <2>2, <2>3
<1> QED BY <1>1, ExchangeInvariant, PTL

\* The metrics of an exchange: once, with one duration, an error exactly when it failed,
\* and the events of what happened, on every way through the layers.
THEOREM RecordsAreKept == Spec => []RecordsAgree
<1>1. IndInv => RecordsAgree
    BY DEF IndInv, RecordsInv
<1> QED BY <1>1, ExchangeInvariant, PTL

\* finalize and the processors: for a chain of any length, what reaches the upstream has
\* neither the sealed token nor a credential of the client's in a header that a
\* processor of the token fills.
THEOREM ClientCredentialsReplaced == Spec => []NoClientCredential
<1>1. IndInv => NoClientCredential
  <2> SUFFICES ASSUME IndInv, Injected PROVE
        LET p == token.payload.processor
            ran == {q \in ToSet(Parts(p)) : config.collects \/ ~NeedsBody(q)}
        IN /\ Has(req, "x-tokenizer-token") => ProxyMade(req.headers["x-tokenizer-token"])
           /\ \A q \in ran : \A h \in (Writes(q) \cap HeaderName) \ {"x-tokenizer-token"} :
                 Has(req, h) /\ ProxyMade(req.headers[h])
      BY DEF NoClientCredential
  <2> PICK p : p = token.payload.processor
      OBVIOUS
  <2>1. Clean(req) /\ \A i \in DOMAIN Parts(p) :
            ~NeedsBody(Parts(p)[i]) \/ config.collects => Filled(req, Parts(p)[i])
      BY TokenNameIs DEF IndInv, CredentialInv, Injected
  <2>2. \A q \in ToSet(Parts(p)) : config.collects \/ ~NeedsBody(q) => Filled(req, q)
      BY <2>1 DEF ToSet
  <2> QED BY <2>1, <2>2, TokenNameIs DEF Clean, Filled
<1> QED BY <1>1, ExchangeInvariant, PTL
\* HeadersTellTruth, and what it takes while the body is collected.
TruthInv ==
    stage \in {"handed", "collecting", "forwarded", "answered"} /\ Has(client, TokenName) /\ Truthful(client) =>
        IF stage \in {"handed", "collecting"}
        THEN HeaderPhase(token.payload.processor, req, client, token.payload.secret)
        ELSE AllTold(token.payload.processor, req, client, token.payload.secret, config.collects)

\* A step that leaves the request and the token alone, and does not send it on.
LEMMA TruthStays ==
    ASSUME TruthInv, UNCHANGED <<config, token, req, client>>,
           \/ stage' = stage
           \/ stage' \notin {"handed", "collecting", "forwarded", "answered"}
           \/ stage = "forwarded" /\ stage' = "answered"
           \/ ~Has(client, TokenName)
    PROVE  TruthInv'
BY DEF TruthInv

LEMMA FinalizeTruth ==
    ASSUME IndInv, TruthInv, Finalize
    PROVE  TruthInv'
<1> PICK p, r, res, payload :
        /\ p = token.payload.processor /\ r = Stripped(req) /\ payload = token.payload
        /\ res = Process(p, r, payload, now)
    OBVIOUS
<1>1. /\ stage = "replay" /\ UNCHANGED <<now, process, token>> /\ req = client
      /\ IsRequest(req) /\ token # None /\ IsProcessorConfig(p)
    BY DEF Finalize, IndInv, RequestInv, TokenInv
<1>2. CASE stage' = "failed" /\ UNCHANGED carried
    BY <1>1, <1>2, TruthStays DEF process, carried
<1>3. CASE /\ Valid(p) /\ res.error = None /\ req' = res.req /\ client' = client
           /\ stage' = IF config.collects /\ IsBodyProcessor(p) THEN "handed" ELSE "forwarded"
  <2> SUFFICES ASSUME Truthful(client) PROVE TruthInv'
      BY <1>3 DEF TruthInv
  <2>1. IsRequest(r) /\ r.body = client.body /\ Agree(client, r, {"x-tokenizer-token"})
      BY <1>1, WithoutAgrees DEF Stripped
  <2>2. Descends(r, client)
      BY <2>1 DEF Descends, Agree, Text
  <2>3. LengthHolds(r)
    <3>1. "content-length" \notin {"x-tokenizer-token"} /\ LengthHolds(client)
        BY DEF Truthful
    <3> QED BY <2>1, <3>1, LengthStays
  <2> PICK in, t, sent, collects : in = client /\ t = now /\ sent = req' /\ collects = config.collects
      OBVIOUS
  <2>4. HeaderPhase(p, sent, in, payload.secret)
      BY <1>1, <1>3, <2>1, <2>2, <2>3, ProcessTells
  <2>5. ~(collects /\ IsBodyProcessor(p)) => AllTold(p, sent, in, payload.secret, collects)
      BY <2>4, HeaderPhaseTold
  <2>6. config' = config /\ token' = token
      BY <1>1 DEF process
  <2> QED BY <1>3, <2>4, <2>5, <2>6 DEF TruthInv
<1>4. \/ stage' = "failed" /\ UNCHANGED carried
      \/ /\ Valid(p) /\ res.error = None /\ req' = res.req /\ client' = client
         /\ stage' = IF config.collects /\ IsBodyProcessor(p) THEN "handed" ELSE "forwarded"
    BY DEF Finalize, Refuse, Fail
<1> QED BY <1>2, <1>3, <1>4

\* A second header phase starts from what the first left, and leaves the same behind.
LEMMA HeadersAgainTruth ==
    ASSUME IndInv, TruthInv, HeadersAgain
    PROVE  TruthInv'
<1> PICK p, payload, res :
        /\ p = token.payload.processor /\ payload = token.payload
        /\ res = Process(p, req, payload, now)
    OBVIOUS
<1>1. /\ stage = "handed" /\ UNCHANGED <<now, process, token>>
      /\ IsRequest(req) /\ token # None /\ IsProcessorConfig(p) /\ Valid(p)
    BY DEF HeadersAgain, IndInv, RequestInv, TokenInv
<1>2. CASE stage' = "failed" /\ UNCHANGED carried
    BY <1>1, <1>2, TruthStays DEF process, carried
<1>3. CASE res.error = None /\ req' = res.req /\ client' = client /\ stage' = "collecting"
  <2> SUFFICES ASSUME Truthful(client), Has(client, TokenName) PROVE TruthInv'
      BY <1>3 DEF TruthInv
  <2> PICK r, in, t, sent : r = req /\ in = client /\ t = now /\ sent = req'
      OBVIOUS
  <2>1. HeaderPhase(p, r, in, payload.secret)
      BY <1>1 DEF TruthInv
  <2>2. Descends(r, in) /\ (LengthUnwritten(p) => LengthHolds(r))
      BY <2>1 DEF HeaderPhase
  <2>3. HeaderPhase(p, sent, in, payload.secret)
      BY <1>1, <1>3, <2>2, ProcessTells
  <2> QED BY <1>1, <1>3, <2>3 DEF TruthInv
<1>4. \/ stage' = "failed" /\ UNCHANGED carried
      \/ res.error = None /\ req' = res.req /\ client' = client /\ stage' = "collecting"
    BY DEF HeadersAgain, Refuse, Fail
<1> QED BY <1>2, <1>3, <1>4

LEMMA CollectBodyTruth ==
    ASSUME IndInv, TruthInv, CollectBody
    PROVE  TruthInv'
<1> PICK p, payload, res :
        /\ p = token.payload.processor /\ payload = token.payload
        /\ res = ProcessBody(p, req, payload, now)
    OBVIOUS
<1>1. /\ stage = "collecting" /\ UNCHANGED <<now, process, token>> /\ Has(client, TokenName)
      /\ IsRequest(req) /\ token # None /\ IsProcessorConfig(p)
      /\ config.collects /\ IsBodyProcessor(p) /\ Valid(p)
    BY DEF CollectBody, IndInv, RequestInv, TokenInv
<1>2. CASE stage' = "failed" /\ UNCHANGED carried
    BY <1>1, <1>2, TruthStays DEF process, carried
<1>3. CASE res.error = None /\ req' = res.req /\ client' = client /\ stage' = "forwarded"
  <2> SUFFICES ASSUME Truthful(client) PROVE TruthInv'
      BY <1>3 DEF TruthInv
  <2> PICK r, in, t, sent : r = req /\ in = client /\ t = now /\ sent = req'
      OBVIOUS
  <2>1. HeaderPhase(p, r, in, payload.secret)
      BY <1>1 DEF TruthInv
  <2>2. AllTold(p, sent, in, payload.secret, TRUE)
      BY <1>1, <1>3, <2>1, BodyPhaseTold
  <2>3. config.collects = TRUE
      BY <1>1, ExchangeAssumption DEF IndInv, TypeOK, ConfigType
  <2>4. config' = config /\ token' = token
      BY <1>1 DEF process
  <2> QED BY <1>3, <2>2, <2>3, <2>4 DEF TruthInv
<1>4. \/ stage' = "failed" /\ UNCHANGED carried
      \/ res.error = None /\ req' = res.req /\ client' = client /\ stage' = "forwarded"
    BY DEF CollectBody, Refuse, Fail
<1> QED BY <1>2, <1>3, <1>4

\* finalize, process_body and the processors: for a chain of any length, every signature
\* the proxy made verifies at the upstream, unless it signs itself or a processor that
\* ran later wrote what it covers, and the Content-Length is the length of the body.
\* Of sigv4 it says so where the request that is sent has an x-amz-content-sha256 that
\* is text and not the marker of signed chunks: else the code signs another hash.
THEOREM HeadersAreTrue == Spec => []HeadersTellTruth
<1>1. Init => TruthInv
    BY DEF Init, TruthInv
<1>2. ASSUME IndInv, TruthInv, [Next]_vars
      PROVE  TruthInv'
  <2>1. CASE Rotate \/ AddOldKey \/ StartServing \/ Tick \/ UNCHANGED vars
      BY <1>2, <2>1, TruthStays DEF Rotate, AddOldKey, StartServing, Tick, vars, process, exchange
  <2>2. CASE Restart
      BY <2>2 DEF Restart, TruthInv
  <2>3. CASE Seal
    <3>1. /\ token = None /\ UNCHANGED <<config, stage, req, client>>
        BY <2>3 DEF Seal, process, exchange
    <3>2. stage \in {"handed", "collecting", "forwarded", "answered"} => ~Has(client, TokenName)
        BY <1>2, <3>1 DEF IndInv, RequestInv
    <3> QED BY <3>1, <3>2 DEF TruthInv
  <2>4. CASE Serve
    <3>1. CASE Finalize
        BY <1>2, <3>1, FinalizeTruth
    <3>2a. CASE HeadersAgain
        BY <1>2, <3>2a, HeadersAgainTruth
    <3>2. CASE CollectBody
        BY <1>2, <3>2, CollectBodyTruth
    <3>3. CASE Receive
        BY <3>3 DEF Receive, TruthInv
    <3>4. CASE AdmitTokenOptional
      <4>1. UNCHANGED <<config, token, req, client>> /\ (stage' = "failed" \/ ~Has(client, TokenName))
          BY <1>2, <3>4, TokenNameIs
             DEF AdmitTokenOptional, Refuse, Fail, process, carried, IndInv, RequestInv
      <4> QED BY <1>2, <4>1, TruthStays
    <3>5. CASE Limit \/ RejectToken \/ ValidateRequest \/ RefuseReplay
      <4>1. UNCHANGED <<config, token, req, client>> /\ stage' \in {"failed", "admitting", "replay"}
          BY <3>5 DEF Limit, RejectToken, ValidateRequest, RefuseReplay, Refuse, Fail, process, carried
      <4> QED BY <1>2, <4>1, TruthStays
    <3>6. CASE Respond \/ Echo \/ UpstreamFails
      <4>1. /\ UNCHANGED <<config, token, req, client>>
            /\ stage = "forwarded" /\ stage' \in {"failed", "answered"}
          BY <3>6 DEF Respond, Echo, UpstreamFails, FailInside, Fail, process, carried
      <4> QED BY <1>2, <4>1, TruthStays
    <3>7. CASE Timeout \/ Cancel
      <4>1. UNCHANGED <<config, token, req, client>> /\ stage' \in {"failed", "cancelled"}
          BY <3>7 DEF Timeout, Cancel, Fail, process, carried
      <4> QED BY <1>2, <4>1, TruthStays
    <3> QED BY <2>4, <3>1, <3>2, <3>2a, <3>3, <3>4, <3>5, <3>6, <3>7 DEF Serve
  <2> QED BY <1>2, <2>1, <2>2, <2>3, <2>4 DEF Next
<1>3. TruthInv => HeadersTellTruth
    BY TokenNameIs DEF TruthInv, AllTold, HeadersTellTruth, Injected
<1> QED BY <1>1, <1>2, <1>3, ExchangeInvariant, PTL DEF Spec
=============================================================================
