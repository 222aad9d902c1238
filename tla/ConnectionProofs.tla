--------------------------- MODULE ConnectionProofs ---------------------------
(***************************************************************************)
(* Where connections lead, for any number of connections, hosts, tokens,   *)
(* configurations and addresses, any cache capacity and any clock.         *)
(***************************************************************************)
EXTENDS Connection, SequenceTheorems, TLAPS

Task == [phase: Phase, target: Destination \cup {None}, request: RequestType \cup {None},
         dial: Destination \cup {None}, addr: Addr \cup {None}, leaf: Leaf \cup {None}, read: Nat]

\* What holds of the task k of connection c at each stage: nothing is left over from
\* a request or a CONNECT that is done with, what is under way was admitted, and
\* what is dialled is what admission saw, with the port that is implied.
TaskInv(c, k) ==
    /\ k.phase \notin {"accepted", "closed"} => HandshakeAccepts(config.client_auth, Cert[c])
    /\ k.phase \in {"accepted", "open", "closed"} => k.target = None
    /\ k.phase \notin {"forwarding", "sent", "connecting", "copying"} => k.dial = None
    /\ k.phase \notin {"sent", "connecting", "copying"} => k.addr = None
    /\ k.phase \in {"upgraded", "resolving", "connecting", "copying"} =>
          /\ k.request # None /\ ConnectAdmitted(c, k.request)
          /\ k.target = WithPort(k.request.uri, 443)
    /\ k.phase \in {"connecting", "copying"} => k.dial = k.target
    /\ k.phase \in {"forwarding", "sent"} =>
          /\ k.request # None /\ Admitted(c, k.request)
          /\ k.dial = WithPort(TargetAuthority(k.request), DefaultPort(UpstreamScheme(k.request)))
          /\ k.target # None => k.request.uri = CanonicalAuthority(k.target, "https")
    /\ k.addr # None => ~Blocked(k.addr)
    /\ k.phase \in {"looking", "minting", "caching", "handshaking", "serving"} => k.target # None
    /\ k.phase \in {"looking", "minting", "caching", "handshaking"} => k.read <= now
    /\ k.phase \in {"caching", "handshaking"} =>
          /\ k.leaf # None /\ k.leaf.host = k.target.host
          /\ k.leaf.not_after - k.read > Margin

TasksInv == \A c \in Conn : TaskInv(c, conn[c])

\* A host has one leaf at most.
CacheInv == \A i, j \in DOMAIN cache : cache[i].host = cache[j].host => i = j

IndInv == TypeOK /\ TasksInv /\ CacheInv

-----------------------------------------------------------------------------
(* The address filter, ports and authorities                               *)

LEMMA FieldTypes == ASSUME TypeOK, NEW c \in Conn PROVE conn[c] \in Task
  BY DEF TypeOK, Task

\* check_ip lets no address through that leads where the filter forbids it.
LEMMA AllowedIsNotBlocked ==
    ASSUME NEW a \in Address, IsAllowed(config.filter, a)
    PROVE  ~Blocked(a)
  <1>1. CASE a.form \in {"mapped", "nat64"}
    <2>1. Embedded(a) = [form |-> "v4", class |-> a.class]
      BY <1>1 DEF Embedded, Address
    <2> QED BY <1>1, <2>1 DEF IsAllowed, Blocked
  <1>2. CASE a.form \notin {"mapped", "nat64"}
    <2>1. Embedded(a) = a /\ a = [form |-> a.form, class |-> a.class]
      BY <1>2 DEF Embedded, Address
    <2>2. a.form \in {"v4", "v6"}
      BY <1>2 DEF Address, Form
    <2> QED BY <2>1, <2>2 DEF IsAllowed, Blocked
  <1> QED BY <1>1, <1>2

\* An answer that was vetted has a first address, and it is not blocked.
LEMMA VettedHead ==
    ASSUME NEW answer \in Answers, Vetted(answer)
    PROVE  Head(answer) \in Addr /\ ~Blocked(Head(answer))
  <1>1. Head(answer) \in Addr /\ IsAllowed(config.filter, Head(answer))
    BY DEF Answers, Vetted
  <1> QED BY <1>1, AllowedIsNotBlocked, ConnectionAssumption

\* WithPort keeps the host, and the port if there is one.
LEMMA WithPortType ==
    ASSUME NEW a \in Authority(Host, Port), NEW d \in Port
    PROVE  /\ WithPort(a, d) \in Destination
           /\ WithPort(a, d).host = a.host
           /\ WithPort(a, d).port = IF a.port = NoPort THEN d ELSE a.port
  BY DEF WithPort, Authority, Destination

LEMMA CanonicalType ==
    ASSUME NEW a \in Destination
    PROVE  /\ CanonicalAuthority(a, "https") \in Authority(Host, Port)
           /\ CanonicalAuthority(a, "https").host = a.host
           /\ CanonicalAuthority(a, "https").port = IF a.port = 443 THEN NoPort ELSE a.port
  BY DEF CanonicalAuthority, Authority, Destination, DefaultPort

\* What a request that was admitted is dialled at.
LEMMA DialType ==
    ASSUME NEW c \in Conn, NEW r \in RequestType, Admitted(c, r)
    PROVE  /\ TargetAuthority(r) \in Authority(Host, Port)
           /\ TargetAuthority(r) = RequestAuthority(r)
           /\ DefaultPort(UpstreamScheme(r)) \in Port
  <1>1. TargetAuthority(r) = RequestAuthority(r) /\ TargetAuthority(r) # None
    BY DEF Admitted, TargetAuthority, RequestAuthority
  <1>2. TargetAuthority(r) \in Authority(Host, Port) \cup {None}
    BY DEF TargetAuthority, RequestType
  <1>3. DefaultPort(UpstreamScheme(r)) \in Port
    BY ConnectionAssumption DEF DefaultPort
  <1> QED BY <1>1, <1>2, <1>3

-----------------------------------------------------------------------------
(* The leaf cache                                                          *)

\* RemoveAt closes the gap.
LEMMA RemoveAtProperties ==
    ASSUME NEW S, NEW s \in Seq(S), NEW n \in 1..Len(s)
    PROVE  /\ RemoveAt(s, n) \in Seq(S) /\ Len(RemoveAt(s, n)) = Len(s) - 1
           /\ \A i \in 1..Len(s) - 1 : RemoveAt(s, n)[i] = IF i < n THEN s[i] ELSE s[i + 1]
  <1> DEFINE a == SubSeq(s, 1, n - 1)
             b == SubSeq(s, n + 1, Len(s))
  <1>1. Len(s) \in Nat /\ n \in Nat /\ n <= Len(s) /\ 1 <= n
    OBVIOUS
  <1>2. /\ a \in Seq(S) /\ Len(a) = n - 1
        /\ \A i \in 1..n - 1 : a[i] = s[i]
    BY <1>1, SubSeqProperties
  <1>3. /\ b \in Seq(S) /\ Len(b) = Len(s) - n
        /\ \A i \in 1..Len(s) - n : b[i] = s[n + i]
    BY <1>1, SubSeqProperties
  <1> HIDE DEF a, b
  <1>4. a \o b \in Seq(S) /\ Len(a \o b) = Len(s) - 1
    <2>1. a \o b \in Seq(S) /\ Len(a \o b) = Len(a) + Len(b)
      BY <1>2, <1>3, ConcatProperties
    <2> QED BY <1>1, <1>2, <1>3, <2>1
  <1>5. \A i \in 1..Len(s) - 1 : (a \o b)[i] = IF i < n THEN s[i] ELSE s[i + 1]
    <2> SUFFICES ASSUME NEW i \in 1..Len(s) - 1
                 PROVE  (a \o b)[i] = IF i < n THEN s[i] ELSE s[i + 1]
      OBVIOUS
    <2>0. (a \o b)[i] = IF i <= Len(a) THEN a[i] ELSE b[i - Len(a)]
      BY <1>1, <1>2, <1>3, ConcatProperties
    <2>1. CASE i < n
      BY <1>1, <1>2, <2>0, <2>1
    <2>2. CASE ~(i < n)
      <3> DEFINE m == i - Len(a)
      <3>1. m \in 1..Len(s) - n /\ n + m = i + 1 /\ ~(i <= Len(a))
        BY <1>1, <1>2, <2>2
      <3> HIDE DEF m
      <3>2. b[m] = s[n + m]
        BY <1>3, <3>1
      <3>3. (a \o b)[i] = b[m]
        BY <2>0, <3>1 DEF m
      <3> QED BY <2>2, <3>1, <3>2, <3>3
    <2> QED BY <2>1, <2>2
  <1> QED BY <1>4, <1>5 DEF RemoveAt, a, b

\* The cache without a host's leaf.
LEMMA OthersProperties ==
    ASSUME cache \in Seq(Leaf), CacheInv, NEW h
    PROVE  /\ Others(h) \in Seq(Leaf)
           /\ Len(Others(h)) = IF Slots(h) = {} THEN Len(cache) ELSE Len(cache) - 1
           /\ \A i \in DOMAIN Others(h) : Others(h)[i].host # h
           /\ \A i, j \in DOMAIN Others(h) : Others(h)[i].host = Others(h)[j].host => i = j
  <1>1. CASE Slots(h) = {}
    BY <1>1 DEF Others, Slots, CacheInv
  <1>2. CASE Slots(h) # {}
    <2> DEFINE n == Slot(h)
               s == RemoveAt(cache, n)
    <2>1. n \in Slots(h)
      BY <1>2 DEF Slot
    <2>2. n \in 1..Len(cache) /\ cache[n].host = h
      BY <2>1 DEF Slots
    <2> HIDE DEF n
    <2>3. /\ s \in Seq(Leaf) /\ Len(s) = Len(cache) - 1
          /\ \A i \in 1..Len(cache) - 1 : s[i] = IF i < n THEN cache[i] ELSE cache[i + 1]
      BY <2>2, RemoveAtProperties
    <2> HIDE DEF s
    <2>4. DOMAIN s = 1..Len(cache) - 1 /\ DOMAIN cache = 1..Len(cache) /\ Len(cache) \in Nat
      BY <2>3
    <2>5. \A i \in DOMAIN s : s[i].host # h
      BY <2>2, <2>3, <2>4 DEF CacheInv
    <2>6. ASSUME NEW i \in DOMAIN s, NEW j \in DOMAIN s, s[i].host = s[j].host
          PROVE  i = j
      <3> DEFINE At(x) == IF x < n THEN x ELSE x + 1
      <3>1. At(i) \in DOMAIN cache /\ At(j) \in DOMAIN cache /\ (At(i) = At(j) => i = j)
        BY <2>2, <2>4
      <3>2. s[i] = cache[At(i)] /\ s[j] = cache[At(j)]
        BY <2>3, <2>4
      <3> HIDE DEF At
      <3>3. At(i) = At(j)
        BY <2>6, <3>1, <3>2 DEF CacheInv
      <3> QED BY <3>1, <3>3
    <2>7. Others(h) = s
      BY <1>2 DEF Others, s, n
    <2> QED BY <1>2, <2>3, <2>5, <2>6, <2>7
  <1> QED BY <1>1, <1>2

\* A leaf of a host that has none in s is appended to s.
LEMMA AppendLeaf ==
    ASSUME NEW s \in Seq(Leaf), NEW l \in Leaf, \A i \in DOMAIN s : s[i].host # l.host,
           \A i, j \in DOMAIN s : s[i].host = s[j].host => i = j
    PROVE  /\ Append(s, l) \in Seq(Leaf) /\ Len(Append(s, l)) = Len(s) + 1
           /\ \A i, j \in DOMAIN Append(s, l) :
                 Append(s, l)[i].host = Append(s, l)[j].host => i = j
  <1> DEFINE t == Append(s, l)
  <1>1. /\ t \in Seq(Leaf) /\ Len(t) = Len(s) + 1 /\ Len(s) \in Nat
        /\ \A i \in 1..Len(s) : t[i] = s[i]
        /\ t[Len(s) + 1] = l
    BY AppendProperties
  <1> HIDE DEF t
  <1>2. DOMAIN t = 1..Len(s) + 1 /\ DOMAIN s = 1..Len(s)
    BY <1>1
  <1>3. \A i, j \in DOMAIN t : t[i].host = t[j].host => i = j
    BY <1>1, <1>2
  <1> QED BY <1>1, <1>3 DEF t

\* The least recently used leaf goes, the others keep their order.
LEMMA TailLeaf ==
    ASSUME NEW s \in Seq(Leaf), s # <<>>,
           \A i, j \in DOMAIN s : s[i].host = s[j].host => i = j
    PROVE  /\ Tail(s) \in Seq(Leaf) /\ Len(Tail(s)) = Len(s) - 1
           /\ \A i, j \in DOMAIN Tail(s) : Tail(s)[i].host = Tail(s)[j].host => i = j
  <1> DEFINE t == Tail(s)
  <1>1. /\ t \in Seq(Leaf) /\ Len(t) = Len(s) - 1
        /\ \A i \in 1..Len(t) : t[i] = s[i + 1]
    BY HeadTailProperties
  <1> HIDE DEF t
  <1>2. DOMAIN t = 1..Len(s) - 1 /\ DOMAIN s = 1..Len(s) /\ Len(s) \in Nat
    BY <1>1
  <1>3. ASSUME NEW i \in DOMAIN t, NEW j \in DOMAIN t, t[i].host = t[j].host
        PROVE  i = j
    <2>1. i + 1 \in DOMAIN s /\ j + 1 \in DOMAIN s /\ i \in Nat /\ j \in Nat
      BY <1>2
    <2>2. t[i] = s[i + 1] /\ t[j] = s[j + 1]
      BY <1>1, <1>2
    <2>3. i + 1 = j + 1
      BY <1>3, <2>1, <2>2
    <2> QED BY <2>1, <2>3
  <1> QED BY <1>1, <1>3 DEF t

-----------------------------------------------------------------------------
(* One connection's step leaves the others alone                           *)

LEMMA OneTask ==
    ASSUME TypeOK, TasksInv, NEW c \in Conn, NEW k \in Task, TaskInv(c, k),
           conn' = [conn EXCEPT ![c] = k], config' = config, now' = now
    PROVE  conn' \in [Conn -> Task] /\ TasksInv'
  <1>1. conn' \in [Conn -> Task]
    BY DEF TypeOK, Task
  <1>2. ASSUME NEW d \in Conn PROVE TaskInv(d, conn[d])'
    <2>1. TaskInv(d, conn'[d])
      <3>1. CASE d = c
        BY <3>1 DEF TypeOK
      <3>2. CASE d # c
        BY <3>2 DEF TypeOK, TasksInv
      <3> QED BY <3>1, <3>2
    <2> QED BY <2>1 DEF TaskInv, Admitted, ConnectAdmitted, TlsInfo, Blocked
  <1> QED BY <1>1, <1>2 DEF TasksInv

\* The filter's rules and the client's certificate are read from the configuration,
\* which does not change.
LEMMA ClosedTask == \A c \in Conn : Idle("closed") \in Task /\ TaskInv(c, Idle("closed"))
  BY DEF Idle, Task, Phase, TaskInv

\* A step of one connection that reads neither clock nor cache: what it does to its
\* own task is all there is to show.
LEMMA TaskStep ==
    ASSUME IndInv, NEW c \in Conn, NEW k \in Task, TaskInv(c, k),
           conn' = [conn EXCEPT ![c] = k], UNCHANGED <<config, now, cache>>
    PROVE  IndInv'
  <1>1. conn' \in [Conn -> Task] /\ TasksInv'
    BY OneTask DEF IndInv
  <1> QED BY <1>1 DEF IndInv, TypeOK, CacheInv, Task

\* A task that moves on without touching anything else.
LEMMA PhaseStep ==
    ASSUME IndInv, NEW c \in Conn, NEW p \in Phase, TaskInv(c, [conn[c] EXCEPT !.phase = p]),
           Goto(c, p), UNCHANGED <<config, now, cache>>
    PROVE  IndInv'
  <1>1. conn' = [conn EXCEPT ![c] = [conn[c] EXCEPT !.phase = p]]
    BY DEF Goto
  <1>2. [conn[c] EXCEPT !.phase = p] \in Task
    BY FieldTypes DEF IndInv, Task
  <1> QED BY <1>1, <1>2, TaskStep

\* A task that ends.
LEMMA CloseStep ==
    ASSUME IndInv, NEW c \in Conn, Close(c), UNCHANGED <<config, now, cache>>
    PROVE  IndInv'
  BY ClosedTask, TaskStep DEF Close

-----------------------------------------------------------------------------
(* Requests                                                                *)

LEMMA AcceptStep ==
    ASSUME IndInv, NEW c \in Conn, Accept(c)
    PROVE  IndInv'
  <1>1. CASE HandshakeAccepts(config.client_auth, Cert[c])
    <2> DEFINE k == [conn[c] EXCEPT !.phase = "open"]
    <2>1. TaskInv(c, conn[c]) /\ conn[c] \in Task /\ conn[c].phase = "accepted"
      BY FieldTypes DEF Accept, IndInv, TasksInv
    <2>2. TaskInv(c, k)
      BY <1>1, <2>1 DEF TaskInv, Task
    <2> QED BY <1>1, <2>2, PhaseStep DEF Accept, Phase
  <1>2. CASE ~HandshakeAccepts(config.client_auth, Cert[c])
    BY <1>2, CloseStep DEF Accept
  <1> QED BY <1>1, <1>2

\* The target of a CONNECT that is admitted is its authority, with a port.
LEMMA ConnectStep ==
    ASSUME IndInv, NEW c \in Conn, NEW r \in Offers[c], ConnectRequest(c, r)
    PROVE  IndInv'
  <1> DEFINE t == WithPort(r.uri, 443)
             k == [conn[c] EXCEPT !.phase = "upgraded", !.request = r, !.target = t]
  <1>1. TaskInv(c, conn[c]) /\ conn[c] \in Task /\ conn[c].phase = "open"
    BY FieldTypes DEF ConnectRequest, IndInv, TasksInv
  <1>2. r \in RequestType /\ r # None
    BY ConnectionAssumption
  <1>3. r.uri \in Authority(Host, Port) /\ ConnectAdmitted(c, r)
    BY <1>2 DEF ConnectRequest, ConnectAdmitted, RequestType
  <1>4. t \in Destination
    BY <1>3, WithPortType, ConnectionAssumption
  <1> HIDE DEF t
  <1>5. k \in Task
    BY <1>1, <1>2, <1>4 DEF Task, Phase
  <1>6. /\ k.phase = "upgraded" /\ k.request = r /\ k.target = t
        /\ k.dial = conn[c].dial /\ k.addr = conn[c].addr
    BY <1>1 DEF Task
  <1> HIDE DEF k
  <1>7. TaskInv(c, k)
    BY <1>1, <1>2, <1>3, <1>6 DEF TaskInv, t
  <1>8. conn' = [conn EXCEPT ![c] = k]
    BY DEF ConnectRequest, k, t
  <1> QED BY <1>5, <1>7, <1>8, TaskStep DEF ConnectRequest

\* Requests, on the connection or inside its CONNECT.
LEMMA ServeStep ==
    ASSUME IndInv, NEW c \in Conn, NEW sent \in Offers[c], Serve(c, sent)
    PROVE  IndInv'
  <1> DEFINE r == PrepareRequest(c, sent)
             d == WithPort(TargetAuthority(r), DefaultPort(UpstreamScheme(r)))
             k == [conn[c] EXCEPT !.phase = "forwarding", !.request = r, !.dial = d]
  <1>1. TaskInv(c, conn[c]) /\ conn[c] \in Task /\ conn[c].phase \in {"open", "serving"}
    BY FieldTypes DEF Serve, IndInv, TasksInv
  <1>2. sent \in RequestType
    BY ConnectionAssumption
  <1>3. r \in RequestType /\ r # None
    <2>1. CASE conn[c].target = None
      BY <1>2, <2>1, ConnectionAssumption DEF PrepareRequest
    <2>2. CASE conn[c].target # None
      <3> DEFINE a == CanonicalAuthority(conn[c].target, "https")
      <3>1. a \in Authority(Host, Port)
        BY <1>1, <2>2, CanonicalType DEF Task
      <3> HIDE DEF a
      <3>2. [sent EXCEPT !.uri = a, !.host = a] \in RequestType
        BY <1>2, <3>1 DEF RequestType
      <3> QED BY <2>2, <3>2, ConnectionAssumption DEF PrepareRequest, a
    <2> QED BY <2>1, <2>2
  <1>4. conn[c].target # None => r.uri = CanonicalAuthority(conn[c].target, "https")
    BY <1>2 DEF PrepareRequest, RequestType
  <1> HIDE DEF r
  <1>5. CASE Admitted(c, r)
    <2>1. d \in Destination
      BY <1>3, <1>5, DialType, WithPortType
    <2> HIDE DEF d
    <2>2. k \in Task
      BY <1>1, <1>3, <2>1 DEF Task, Phase
    <2>3. /\ k.phase = "forwarding" /\ k.request = r /\ k.dial = d
          /\ k.target = conn[c].target /\ k.addr = conn[c].addr
      BY <1>1 DEF Task
    <2>4. conn' = [conn EXCEPT ![c] = k]
      BY <1>5 DEF Serve, r, d
    <2> HIDE DEF k
    <2>5. TaskInv(c, k)
      BY <1>1, <1>3, <1>4, <1>5, <2>3 DEF TaskInv, d
    <2> QED BY <2>2, <2>4, <2>5, TaskStep DEF Serve
  <1>6. CASE ~Admitted(c, r)
    BY <1>6, CloseStep DEF Serve, r
  <1> QED BY <1>5, <1>6

LEMMA RespondStep ==
    ASSUME IndInv, NEW c \in Conn, Respond(c)
    PROVE  IndInv'
  <1> DEFINE k == [Idle(IF conn[c].target = None THEN "open" ELSE "serving")
                      EXCEPT !.target = conn[c].target]
  <1>1. TaskInv(c, conn[c]) /\ conn[c] \in Task /\ conn[c].phase = "sent"
    BY FieldTypes DEF Respond, IndInv, TasksInv
  <1>2. /\ k \in Task /\ k.phase = IF conn[c].target = None THEN "open" ELSE "serving"
        /\ k.target = conn[c].target /\ k.dial = None /\ k.addr = None
    BY <1>1 DEF Idle, Task, Phase
  <1>3. conn' = [conn EXCEPT ![c] = k]
    BY DEF Respond
  <1> HIDE DEF k
  <1>4. TaskInv(c, k)
    BY <1>1, <1>2 DEF TaskInv
  <1> QED BY <1>2, <1>3, <1>4, TaskStep DEF Respond

-----------------------------------------------------------------------------
(* CONNECT                                                                 *)

LEMMA RouteStep ==
    ASSUME IndInv, NEW c \in Conn, Route(c)
    PROVE  IndInv'
  <1> DEFINE k == [conn[c] EXCEPT !.phase = "looking", !.read = now, !.request = None]
             l == [conn[c] EXCEPT !.phase = "resolving"]
  <1>1. TaskInv(c, conn[c]) /\ conn[c] \in Task /\ conn[c].phase = "upgraded"
    BY FieldTypes DEF Route, IndInv, TasksInv
  <1>2. conn[c].target # None
    <2>1. conn[c].request.uri \in Authority(Host, Port)
      BY <1>1 DEF TaskInv, ConnectAdmitted, Task, RequestType
    <2> QED BY <1>1, <2>1, WithPortType, ConnectionAssumption DEF TaskInv
  <1>3. now \in Nat
    BY DEF IndInv, TypeOK
  <1>4. /\ k \in Task /\ k.phase = "looking" /\ k.read = now
        /\ k.target = conn[c].target /\ k.dial = conn[c].dial /\ k.addr = conn[c].addr
    BY <1>1, <1>3 DEF Task, Phase
  <1>5. conn' = [conn EXCEPT ![c] = k] \/ Goto(c, "resolving")
    BY DEF Route
  <1> HIDE DEF k
  <1>6. TaskInv(c, k)
    BY <1>1, <1>2, <1>3, <1>4 DEF TaskInv
  <1>7. TaskInv(c, l)
    BY <1>1 DEF TaskInv, Task
  <1>8. CASE conn' = [conn EXCEPT ![c] = k]
    BY <1>4, <1>6, <1>8, TaskStep DEF Route
  <1>9. CASE Goto(c, "resolving")
    BY <1>7, <1>9, PhaseStep DEF Route, Phase
  <1> QED BY <1>5, <1>8, <1>9

\* The cache after a lookup is a cache, with the same leaves.
LEMMA LookUpCache ==
    ASSUME IndInv, NEW c \in Conn, LookUp(c)
    PROVE  cache' \in Seq(Leaf) /\ Len(cache') <= Capacity /\ CacheInv'
  <1> DEFINE h == conn[c].target.host
  <1>1. cache \in Seq(Leaf) /\ Len(cache) <= Capacity /\ CacheInv
    BY DEF IndInv, TypeOK
  <1>2. CASE Slots(h) = {}
    BY <1>1, <1>2 DEF LookUp, CacheInv
  <1>3. CASE Slots(h) # {}
    <2> DEFINE l == cache[Slot(h)]
               o == Others(h)
    <2>1. Slot(h) \in Slots(h)
      BY <1>3 DEF Slot
    <2>2. l \in Leaf /\ l.host = h
      BY <1>1, <2>1 DEF Slots
    <2>3. /\ o \in Seq(Leaf) /\ Len(o) = Len(cache) - 1
          /\ \A i \in DOMAIN o : o[i].host # l.host
          /\ \A i, j \in DOMAIN o : o[i].host = o[j].host => i = j
      BY <1>1, <1>3, <2>2, OthersProperties
    <2>4. cache' = Append(o, l)
      BY <1>3 DEF LookUp
    <2> HIDE DEF l, o
    <2>5. /\ cache' \in Seq(Leaf) /\ Len(cache') = Len(o) + 1
          /\ \A i, j \in DOMAIN cache' : cache'[i].host = cache'[j].host => i = j
      BY <2>2, <2>3, <2>4, AppendLeaf
    <2> QED BY <1>1, <2>3, <2>5 DEF CacheInv
  <1> QED BY <1>2, <1>3

\* A leaf that was looked up is the host's, and it outlives the reading of the clock
\* by more than the margin.
LEMMA LookUpStep ==
    ASSUME IndInv, NEW c \in Conn, LookUp(c)
    PROVE  IndInv'
  <1> DEFINE h == conn[c].target.host
             l == cache[Slot(h)]
             k == [conn[c] EXCEPT !.phase = "handshaking", !.leaf = l]
             m == [conn[c] EXCEPT !.phase = "minting"]
  <1>1. TaskInv(c, conn[c]) /\ conn[c] \in Task /\ conn[c].phase = "looking"
    BY FieldTypes DEF LookUp, IndInv, TasksInv
  <1>2. UNCHANGED <<config, now>>
    BY DEF LookUp
  <1>3. TypeOK /\ TasksInv
    BY DEF IndInv
  <1>4. conn' \in [Conn -> Task] /\ TasksInv'
    <2>1. CASE Slots(h) # {} /\ Fresh(l, conn[c].read)
      <3>1. Slot(h) \in Slots(h)
        BY <2>1 DEF Slot
      <3>2. l \in Leaf /\ l.host = h /\ l # None
        BY <1>3, <3>1, ConnectionAssumption DEF Slots, TypeOK
      <3>3. l.not_after - conn[c].read > Margin
        BY <2>1 DEF Fresh
      <3>4. conn' = [conn EXCEPT ![c] = k]
        BY <2>1 DEF LookUp
      <3> HIDE DEF l
      <3>5. /\ k \in Task /\ k.phase = "handshaking" /\ k.leaf = l /\ k.read = conn[c].read
            /\ k.target = conn[c].target /\ k.dial = conn[c].dial /\ k.addr = conn[c].addr
        BY <1>1, <3>2 DEF Task, Phase
      <3> HIDE DEF k
      <3>6. TaskInv(c, k)
        BY <1>1, <3>2, <3>3, <3>5 DEF TaskInv
      <3> QED BY <1>2, <1>3, <3>4, <3>5, <3>6, OneTask
    <2>2. CASE ~(Slots(h) # {} /\ Fresh(l, conn[c].read))
      <3>1. conn' = [conn EXCEPT ![c] = m]
        BY <2>2 DEF LookUp, Goto
      <3>2. m \in Task /\ TaskInv(c, m)
        BY <1>1 DEF TaskInv, Task, Phase
      <3> HIDE DEF m
      <3> QED BY <1>2, <1>3, <3>1, <3>2, OneTask
    <2> QED BY <2>1, <2>2
  <1> QED BY <1>2, <1>3, <1>4, LookUpCache DEF IndInv, TypeOK, Task

LEMMA MintStep ==
    ASSUME IndInv, NEW c \in Conn, Mint(c)
    PROVE  IndInv'
  <1> DEFINE l == [host |-> conn[c].target.host, not_after |-> now + Validity]
             k == [conn[c] EXCEPT !.phase = "caching", !.leaf = l]
  <1>1. TaskInv(c, conn[c]) /\ conn[c] \in Task /\ conn[c].phase = "minting"
    BY FieldTypes DEF Mint, IndInv, TasksInv
  <1>2. now \in Nat /\ conn[c].read \in Nat /\ conn[c].read <= now
    BY <1>1 DEF IndInv, TypeOK, TaskInv, Task
  <1>3. conn[c].target \in Destination
    BY <1>1 DEF TaskInv, Task
  <1>4. /\ l \in Leaf /\ l # None /\ l.host = conn[c].target.host
        /\ l.not_after - conn[c].read > Margin
    <2>1. l \in Leaf
      BY <1>2, <1>3, ConnectionAssumption DEF Leaf, Destination
    <2>2. now + Validity - conn[c].read > Margin
      BY <1>2, ConnectionAssumption
    <2>3. l.host = conn[c].target.host /\ l.not_after = now + Validity
      OBVIOUS
    <2> HIDE DEF l
    <2>4. l # None
      BY <2>1, ConnectionAssumption
    <2>5. l.not_after - conn[c].read > Margin
      BY <1>2, <2>2, <2>3, ConnectionAssumption
    <2> QED BY <2>1, <2>3, <2>4, <2>5
  <1>5. conn' = [conn EXCEPT ![c] = k]
    BY DEF Mint
  <1> HIDE DEF l
  <1>6. /\ k \in Task /\ k.phase = "caching" /\ k.leaf = l /\ k.read = conn[c].read
        /\ k.target = conn[c].target /\ k.dial = conn[c].dial /\ k.addr = conn[c].addr
    BY <1>1, <1>4 DEF Task, Phase
  <1> HIDE DEF k
  <1>7. TaskInv(c, k)
    BY <1>1, <1>4, <1>6 DEF TaskInv
  <1> QED BY <1>5, <1>6, <1>7, TaskStep DEF Mint

LEMMA PutCache ==
    ASSUME IndInv, NEW c \in Conn, Put(c)
    PROVE  cache' \in Seq(Leaf) /\ Len(cache') <= Capacity /\ CacheInv'
  <1> DEFINE h == conn[c].target.host
             l == conn[c].leaf
             o == Others(h)
             kept == Append(o, l)
  <1>1. cache \in Seq(Leaf) /\ Len(cache) <= Capacity /\ CacheInv
    BY DEF IndInv, TypeOK
  <1>2. l \in Leaf /\ l.host = h
    BY FieldTypes DEF Put, IndInv, TasksInv, TaskInv, Task
  <1>3. /\ o \in Seq(Leaf) /\ Len(o) <= Len(cache) /\ Len(cache) \in Nat /\ Len(o) \in Nat
        /\ \A i \in DOMAIN o : o[i].host # l.host
        /\ \A i, j \in DOMAIN o : o[i].host = o[j].host => i = j
    BY <1>1, <1>2, OthersProperties
  <1>4. cache' = IF Len(kept) > Capacity THEN Tail(kept) ELSE kept
    BY DEF Put
  <1> HIDE DEF l, o
  <1>5. /\ kept \in Seq(Leaf) /\ Len(kept) = Len(o) + 1
        /\ \A i, j \in DOMAIN kept : kept[i].host = kept[j].host => i = j
    BY <1>2, <1>3, AppendLeaf
  <1> HIDE DEF kept
  <1>6. kept # <<>>
    BY <1>3, <1>5
  <1>7. /\ Tail(kept) \in Seq(Leaf) /\ Len(Tail(kept)) = Len(kept) - 1
        /\ \A i, j \in DOMAIN Tail(kept) : Tail(kept)[i].host = Tail(kept)[j].host => i = j
    BY <1>5, <1>6, TailLeaf
  <1>8. CASE Len(kept) > Capacity
    <2>1. cache' = Tail(kept)
      BY <1>4, <1>8
    <2>2. Len(Tail(kept)) <= Capacity
      BY <1>1, <1>3, <1>5, <1>7, ConnectionAssumption
    <2> QED BY <1>7, <2>1, <2>2 DEF CacheInv
  <1>9. CASE ~(Len(kept) > Capacity)
    <2>1. cache' = kept
      BY <1>4, <1>9
    <2>2. Len(kept) <= Capacity
      BY <1>3, <1>5, <1>9, ConnectionAssumption
    <2> QED BY <1>5, <2>1, <2>2 DEF CacheInv
  <1> QED BY <1>8, <1>9

LEMMA PutStep ==
    ASSUME IndInv, NEW c \in Conn, Put(c)
    PROVE  IndInv'
  <1> DEFINE k == [conn[c] EXCEPT !.phase = "handshaking"]
  <1>1. TaskInv(c, conn[c]) /\ conn[c] \in Task /\ conn[c].phase = "caching"
    BY FieldTypes DEF Put, IndInv, TasksInv
  <1>2. k \in Task /\ TaskInv(c, k)
    BY <1>1 DEF TaskInv, Task, Phase
  <1>3. conn' = [conn EXCEPT ![c] = k] /\ UNCHANGED <<config, now>>
    BY DEF Put, Goto
  <1> HIDE DEF k
  <1>4. conn' \in [Conn -> Task] /\ TasksInv'
    BY <1>2, <1>3, OneTask DEF IndInv
  <1> QED BY <1>3, <1>4, PutCache DEF IndInv, TypeOK, Task

LEMMA HandshakeStep ==
    ASSUME IndInv, NEW c \in Conn, Handshake(c)
    PROVE  IndInv'
  <1> DEFINE k == [conn[c] EXCEPT !.phase = "serving", !.leaf = None, !.read = 0]
  <1>1. TaskInv(c, conn[c]) /\ conn[c] \in Task /\ conn[c].phase = "handshaking"
    BY FieldTypes DEF Handshake, IndInv, TasksInv
  <1>2. k \in Task /\ TaskInv(c, k)
    BY <1>1 DEF TaskInv, Task, Phase
  <1>3. conn' = [conn EXCEPT ![c] = k]
    BY DEF Handshake
  <1> HIDE DEF k
  <1> QED BY <1>2, <1>3, TaskStep DEF Handshake

-----------------------------------------------------------------------------
(* Upstreams                                                               *)

LEMMA ResolveTunnelStep ==
    ASSUME IndInv, NEW c \in Conn, NEW answer \in Answers, ResolveTunnel(c, answer)
    PROVE  IndInv'
  <1> DEFINE a == Head(answer)
             k == [conn[c] EXCEPT !.phase = "connecting", !.dial = conn[c].target, !.addr = a]
  <1>1. TaskInv(c, conn[c]) /\ conn[c] \in Task /\ conn[c].phase = "resolving"
    BY FieldTypes DEF ResolveTunnel, IndInv, TasksInv
  <1>2. CASE Vetted(answer)
    <2>1. a \in Addr /\ ~Blocked(a)
      BY <1>2, VettedHead
    <2>2. conn' = [conn EXCEPT ![c] = k]
      BY <1>2 DEF ResolveTunnel
    <2> HIDE DEF a
    <2>3. /\ k \in Task /\ k.phase = "connecting" /\ k.dial = conn[c].target /\ k.addr = a
          /\ k.target = conn[c].target /\ k.request = conn[c].request
      BY <1>1, <2>1 DEF Task, Phase
    <2> HIDE DEF k
    <2>4. TaskInv(c, k)
      BY <1>1, <2>1, <2>3 DEF TaskInv
    <2> QED BY <2>2, <2>3, <2>4, TaskStep DEF ResolveTunnel
  <1>3. CASE ~Vetted(answer)
    BY <1>3, CloseStep DEF ResolveTunnel
  <1> QED BY <1>2, <1>3

LEMMA ResolveRequestStep ==
    ASSUME IndInv, NEW c \in Conn, NEW answer \in Answers, ResolveRequest(c, answer)
    PROVE  IndInv'
  <1> DEFINE a == Head(answer)
             k == [conn[c] EXCEPT !.phase = "sent", !.addr = a]
  <1>1. TaskInv(c, conn[c]) /\ conn[c] \in Task /\ conn[c].phase = "forwarding"
    BY FieldTypes DEF ResolveRequest, IndInv, TasksInv
  <1>2. CASE conn[c].dial.host \notin BlockedHost /\ Vetted(answer)
    <2>1. a \in Addr /\ ~Blocked(a)
      BY <1>2, VettedHead
    <2>2. conn' = [conn EXCEPT ![c] = k]
      BY <1>2 DEF ResolveRequest
    <2> HIDE DEF a
    <2>3. /\ k \in Task /\ k.phase = "sent" /\ k.dial = conn[c].dial /\ k.addr = a
          /\ k.target = conn[c].target /\ k.request = conn[c].request
      BY <1>1, <2>1 DEF Task, Phase
    <2> HIDE DEF k
    <2>4. TaskInv(c, k)
      BY <1>1, <2>1, <2>3 DEF TaskInv
    <2> QED BY <2>2, <2>3, <2>4, TaskStep DEF ResolveRequest
  <1>3. CASE ~(conn[c].dial.host \notin BlockedHost /\ Vetted(answer))
    BY <1>3, CloseStep DEF ResolveRequest
  <1> QED BY <1>2, <1>3

LEMMA ConnectUpstreamStep ==
    ASSUME IndInv, NEW c \in Conn, Connect(c)
    PROVE  IndInv'
  <1> DEFINE k == [conn[c] EXCEPT !.phase = "copying"]
  <1>1. TaskInv(c, conn[c]) /\ conn[c] \in Task /\ conn[c].phase = "connecting"
    BY FieldTypes DEF Connect, IndInv, TasksInv
  <1>2. TaskInv(c, k)
    BY <1>1 DEF TaskInv, Task
  <1> QED BY <1>2, PhaseStep DEF Connect, Phase

\* The clock moves on: a reading of it is never ahead.
LEMMA TickStep ==
    ASSUME IndInv, Tick
    PROVE  IndInv'
  <1>1. now \in Nat /\ now' \in Nat /\ now' = now + 1 /\ UNCHANGED <<config, cache, conn>>
    BY DEF IndInv, TypeOK, Tick
  <1>2. ASSUME NEW c \in Conn PROVE TaskInv(c, conn[c])'
    <2>1. TaskInv(c, conn[c]) /\ conn[c].read \in Nat
      BY FieldTypes DEF IndInv, TasksInv, Task
    <2> QED BY <1>1, <2>1 DEF TaskInv, Admitted, ConnectAdmitted, TlsInfo, Blocked
  <1> QED BY <1>1, <1>2 DEF IndInv, TypeOK, TasksInv, CacheInv

-----------------------------------------------------------------------------
(* Theorems                                                                *)

LEMMA InitInd == Init => IndInv
  <1> SUFFICES ASSUME Init PROVE IndInv
    OBVIOUS
  <1>1. Idle("accepted") \in Task
    BY DEF Idle, Task, Phase
  <1>2. TypeOK
    BY <1>1, ConnectionAssumption DEF Init, TypeOK, Task
  <1>3. \A c \in Conn : TaskInv(c, conn[c])
    BY DEF Init, Idle, TaskInv
  <1> QED BY <1>2, <1>3 DEF Init, IndInv, TasksInv, CacheInv

\* Every step of every connection keeps the invariant.
THEOREM ConnectionInvariant == Spec => []IndInv
  <1>1. IndInv /\ [Next]_vars => IndInv'
    <2> SUFFICES ASSUME IndInv, [Next]_vars PROVE IndInv'
      OBVIOUS
    <2>1. ASSUME NEW c \in Conn,
                 RequestFails(c) \/ MintFails(c) \/ ClientCloses(c) \/ ConnectFails(c) \/ CopyEnds(c)
          PROVE  IndInv'
      BY <2>1, CloseStep DEF RequestFails, MintFails, ClientCloses, ConnectFails, CopyEnds
    <2>2. ASSUME NEW c \in Conn, Request(c) PROVE IndInv'
      BY <2>2, ConnectStep, ServeStep DEF Request
    <2>3. ASSUME NEW c \in Conn, Own(c) PROVE IndInv'
      BY <2>3, RouteStep, LookUpStep, MintStep, PutStep DEF Own
    <2>4. ASSUME NEW c \in Conn, Resolve(c) PROVE IndInv'
      BY <2>4, ResolveTunnelStep, ResolveRequestStep DEF Resolve
    <2>5. CASE UNCHANGED vars
      BY <2>5 DEF vars, IndInv, TypeOK, TasksInv, CacheInv, TaskInv, Admitted, ConnectAdmitted,
         TlsInfo, Blocked
    <2> QED
      BY <2>1, <2>2, <2>3, <2>4, <2>5, AcceptStep, RespondStep, HandshakeStep,
         ConnectUpstreamStep, TickStep
      DEF Next
  <1> QED BY InitInd, <1>1, PTL DEF Spec

\* Types; the cache never holds more than MAX_CACHED_LEAVES leaves.
THEOREM ConnectionTypeCorrect == Spec => []TypeOK
  BY ConnectionInvariant, PTL DEF IndInv

\* No connection is made to an address the filter forbids.
THEOREM AddressesAreVetted == Spec => []ConnectsVetted
  <1>1. IndInv => ConnectsVetted
    BY DEF IndInv, TasksInv, TaskInv, ConnectsVetted
  <1> QED BY <1>1, ConnectionInvariant, PTL

\* leaf_for: the leaf that is shown is the host's own and, within the margin of the
\* lookup, has not expired.
THEOREM LeavesServe == Spec => []LeafServes
  <1>1. ASSUME IndInv, NEW c \in Conn, conn[c].phase = "handshaking"
        PROVE  /\ conn[c].leaf # None /\ conn[c].leaf.host = conn[c].target.host
               /\ now - conn[c].read <= Margin => now < conn[c].leaf.not_after
    <2>1. TaskInv(c, conn[c]) /\ conn[c] \in Task /\ now \in Nat
      BY <1>1, FieldTypes DEF IndInv, TasksInv, TypeOK
    <2>2. /\ conn[c].leaf # None /\ conn[c].leaf.host = conn[c].target.host
          /\ conn[c].leaf.not_after - conn[c].read > Margin
      BY <1>1, <2>1 DEF TaskInv
    <2>3. conn[c].leaf.not_after \in Nat /\ conn[c].read \in Nat
      BY <2>1, <2>2 DEF Task, Leaf
    <2> QED BY <2>1, <2>2, <2>3, ConnectionAssumption
  <1>2. IndInv => LeafServes
    BY <1>1 DEF LeafServes
  <1> QED BY <1>2, ConnectionInvariant, PTL

\* Which stages dial.
LEMMA WhoDials ==
    ASSUME IndInv, NEW c \in Conn, conn[c].dial # None
    PROVE  /\ conn[c] \in Task /\ TaskInv(c, conn[c])
           /\ conn[c].phase \in {"forwarding", "sent", "connecting", "copying"}
           /\ conn[c].request \in RequestType
  <1>1. conn[c] \in Task /\ TaskInv(c, conn[c])
    BY FieldTypes DEF IndInv, TasksInv
  <1> QED BY <1>1 DEF TaskInv, Task

\* An inner request stays on the target of its CONNECT.
THEOREM InnerIsPinned == Spec => []InnerStaysOnTarget
  <1>1. ASSUME IndInv, NEW c \in Conn, conn[c].target # None, conn[c].dial # None
        PROVE  /\ conn[c].dial.host = conn[c].target.host
               /\ \/ conn[c].dial.port = conn[c].target.port
                  \/ /\ conn[c].target.port = 443 /\ conn[c].dial.port = 80
                     /\ UpstreamScheme(conn[c].request) = "http"
    <2> DEFINE t == conn[c].target
               r == conn[c].request
    <2>1. /\ TaskInv(c, conn[c]) /\ t \in Destination
          /\ conn[c].phase \in {"forwarding", "sent", "connecting", "copying"}
          /\ r \in RequestType
      BY <1>1, WhoDials DEF Task
    <2>2. CASE conn[c].phase \in {"connecting", "copying"}
      BY <2>1, <2>2 DEF TaskInv
    <2>3. CASE conn[c].phase \in {"forwarding", "sent"}
      <3>1. /\ Admitted(c, r) /\ r.uri = CanonicalAuthority(t, "https")
            /\ conn[c].dial = WithPort(TargetAuthority(r), DefaultPort(UpstreamScheme(r)))
        BY <1>1, <2>1, <2>3 DEF TaskInv
      <3>2. /\ r.uri \in Authority(Host, Port) /\ r.uri.host = t.host
            /\ r.uri.port = IF t.port = 443 THEN NoPort ELSE t.port
        BY <2>1, <3>1, CanonicalType
      <3>3. TargetAuthority(r) = r.uri
        BY <3>2, ConnectionAssumption DEF TargetAuthority
      <3>4. DefaultPort(UpstreamScheme(r)) \in Port
        BY <2>1, <3>1, DialType
      <3>5. /\ conn[c].dial.host = t.host
            /\ conn[c].dial.port =
                  IF r.uri.port = NoPort THEN DefaultPort(UpstreamScheme(r)) ELSE r.uri.port
        BY <3>1, <3>2, <3>3, <3>4, WithPortType
      <3>6. t.port # NoPort
        BY <2>1, ConnectionAssumption DEF Destination, NoPort
      <3>7. \/ DefaultPort(UpstreamScheme(r)) = 443
            \/ DefaultPort(UpstreamScheme(r)) = 80 /\ UpstreamScheme(r) = "http"
        BY DEF DefaultPort
      <3> QED BY <3>2, <3>5, <3>6, <3>7
    <2> QED BY <2>1, <2>2, <2>3
  <1>2. IndInv => InnerStaysOnTarget
    BY <1>1 DEF InnerStaysOnTarget
  <1> QED BY <1>2, ConnectionInvariant, PTL

-----------------------------------------------------------------------------
(* Tokens and policies decide where, and for whom                          *)

\* Whoever is let through to an authority without a port is let through to it at the
\* port that is implied, and the other way round.
LEMMA MatchesWithPort ==
    ASSUME NEW a \in Authority(Host, Port), NEW d \in Port, NEW S, Matches(S, a)
    PROVE  \E e \in S : e.host = WithPort(a, d).host /\ e.port \in {NoPort, WithPort(a, d).port}
  BY WithPortType DEF Matches

\* A host a token allows, as the property says it.
LEMMA TokenAllows ==
    ASSUME NEW p, NEW a \in Authority(Host, Port), NEW d \in Port, ValidateHost(p, a)
    PROVE  \/ WithPort(a, d).host \in UNION p.host_pattern
           \/ \E e \in p.allowed_hosts :
                 e.host = WithPort(a, d).host /\ e.port \in {NoPort, WithPort(a, d).port}
  BY MatchesWithPort, WithPortType DEF ValidateHost

\* A host the static policy allows.
LEMMA PolicyAllows ==
    ASSUME config \in Configs, NEW a \in Authority(Host, Port), NEW d \in Port,
           Validate(config.host_policy, a)
    PROVE  /\ config.host_policy.allowed_hosts # {} =>
                 \E e \in config.host_policy.allowed_hosts :
                    e.host = WithPort(a, d).host /\ e.port \in {NoPort, WithPort(a, d).port}
           /\ [host |-> WithPort(a, d).host, port |-> NoPort] \notin config.host_policy.blocked_hosts
  <1> DEFINE policy == config.host_policy
  <1>1. policy.allowed_patterns = {}
    <2>1. policy = NewPolicy(policy.allowed_hosts, policy.blocked_hosts)
      BY ConnectionAssumption
    <2> QED BY <2>1 DEF NewPolicy
  <1> HIDE DEF policy
  <1>2. policy.allowed_hosts # {} => Matches(policy.allowed_hosts, a)
    BY <1>1 DEF Validate, policy
  <1>3. ~Matches(policy.blocked_hosts, a)
    BY DEF Validate, policy
  <1>4. [host |-> a.host, port |-> NoPort] \notin policy.blocked_hosts
    BY <1>3 DEF Matches
  <1> QED BY <1>2, <1>4, MatchesWithPort, WithPortType DEF policy

\* What is dialled, the authority it was admitted for, and what admitted it.
LEMMA DialWasAdmitted ==
    ASSUME IndInv, NEW c \in Conn, conn[c].dial # None
    PROVE  \E a \in Authority(Host, Port), d \in Port :
              /\ conn[c].dial = WithPort(a, d)
              /\ IF Pass(c) # None
                 THEN /\ Pass(c) \in Token /\ ValidateHost(Payload[Pass(c)], a)
                      /\ ValidateAuth(Payload[Pass(c)].auth, conn[c].request.headers, TlsInfo(c))
                 ELSE config.token_optional /\ Validate(config.host_policy, a)
  <1> DEFINE r == conn[c].request
  <1>1. /\ TaskInv(c, conn[c]) /\ r \in RequestType
        /\ conn[c].phase \in {"forwarding", "sent", "connecting", "copying"}
    BY WhoDials
  <1>2. CASE conn[c].phase \in {"connecting", "copying"}
    <2>1. /\ ConnectAdmitted(c, r) /\ conn[c].dial = WithPort(r.uri, 443)
      BY <1>1, <1>2 DEF TaskInv
    <2>2. r.uri \in Authority(Host, Port) /\ 443 \in Port
      BY <1>1, <2>1, ConnectionAssumption DEF ConnectAdmitted, RequestType
    <2>3. Pass(c) = ConnectToken(r)
      BY <1>2 DEF Pass
    <2>4. CASE HasToken(r)
      <3>1. /\ Pass(c) \in Token /\ Pass(c) # None /\ ValidateHost(Payload[Pass(c)], r.uri)
            /\ ValidateAuth(Payload[Pass(c)].auth, r.headers, TlsInfo(c))
        BY <2>1, <2>3, <2>4, ConnectionAssumption DEF ConnectAdmitted
      <3> QED BY <2>1, <2>2, <3>1
    <2>5. CASE ~HasToken(r)
      <3>1. r.token = None /\ r.headers[ProxyAuthorization] = <<>>
        BY <2>5 DEF HasToken
      <3>2. Len(r.headers[ProxyAuthorization]) # 2
        BY <3>1
      <3>3. Pass(c) = None
        BY <2>3, <3>1, <3>2 DEF ConnectToken
      <3>4. config.token_optional /\ Validate(config.host_policy, r.uri)
        BY <2>1, <2>5 DEF ConnectAdmitted
      <3> QED BY <2>1, <2>2, <3>3, <3>4
    <2> QED BY <2>4, <2>5
  <1>3. CASE conn[c].phase \in {"forwarding", "sent"}
    <2> DEFINE a == TargetAuthority(r)
               d == DefaultPort(UpstreamScheme(r))
    <2>1. Admitted(c, r) /\ conn[c].dial = WithPort(a, d)
      BY <1>1, <1>3 DEF TaskInv
    <2>2. a \in Authority(Host, Port) /\ d \in Port /\ a = RequestAuthority(r)
      BY <1>1, <2>1, DialType
    <2>3. Pass(c) = r.token /\ r.token \in Token \cup {None}
      BY <1>1, <1>3 DEF Pass, RequestType
    <2> HIDE DEF a, d
    <2>4. CASE r.token = None
      <3>1. config.token_optional /\ Validate(config.host_policy, a)
        BY <2>1, <2>2, <2>4 DEF Admitted
      <3> QED BY <2>1, <2>2, <2>3, <2>4, <3>1
    <2>5. CASE r.token # None
      <3>1. /\ ValidateHost(Payload[r.token], a)
            /\ ValidateAuth(Payload[r.token].auth, r.headers, TlsInfo(c))
        BY <2>1, <2>2, <2>5 DEF Admitted
      <3> QED BY <2>1, <2>2, <2>3, <2>5, <3>1
    <2> QED BY <2>4, <2>5
  <1> QED BY <1>1, <1>2, <1>3

\* Tunnels, requests and inner requests go where the token, or the static policy,
\* lets them.
THEOREM DialsAreAllowed == Spec => []DialsWhereAllowed
  <1>1. ASSUME IndInv, NEW c \in Conn, conn[c].dial # None
        PROVE  IF Pass(c) # None
               THEN \/ conn[c].dial.host \in UNION Payload[Pass(c)].host_pattern
                    \/ \E e \in Payload[Pass(c)].allowed_hosts :
                          e.host = conn[c].dial.host /\ e.port \in {NoPort, conn[c].dial.port}
               ELSE /\ config.token_optional
                    /\ config.host_policy.allowed_hosts # {} =>
                          \E e \in config.host_policy.allowed_hosts :
                             e.host = conn[c].dial.host /\ e.port \in {NoPort, conn[c].dial.port}
                    /\ [host |-> conn[c].dial.host, port |-> NoPort]
                          \notin config.host_policy.blocked_hosts
    <2>1. PICK a \in Authority(Host, Port), d \in Port :
              /\ conn[c].dial = WithPort(a, d)
              /\ IF Pass(c) # None
                 THEN ValidateHost(Payload[Pass(c)], a)
                 ELSE config.token_optional /\ Validate(config.host_policy, a)
      BY <1>1, DialWasAdmitted
    <2>2. config \in Configs
      BY <1>1 DEF IndInv, TypeOK
    <2>3. CASE Pass(c) # None
      <3>1. ValidateHost(Payload[Pass(c)], a)
        BY <2>1, <2>3
      <3>2. \/ WithPort(a, d).host \in UNION Payload[Pass(c)].host_pattern
            \/ \E e \in Payload[Pass(c)].allowed_hosts :
                  e.host = WithPort(a, d).host /\ e.port \in {NoPort, WithPort(a, d).port}
        BY <3>1, TokenAllows
      <3> QED BY <2>1, <2>3, <3>2
    <2>4. CASE Pass(c) = None
      <3>1. config.token_optional /\ Validate(config.host_policy, a)
        BY <2>1, <2>4
      <3>2. /\ config.host_policy.allowed_hosts # {} =>
                  \E e \in config.host_policy.allowed_hosts :
                     e.host = WithPort(a, d).host /\ e.port \in {NoPort, WithPort(a, d).port}
            /\ [host |-> WithPort(a, d).host, port |-> NoPort]
                  \notin config.host_policy.blocked_hosts
        BY <2>2, <3>1, PolicyAllows
      <3> QED BY <2>1, <2>4, <3>1, <3>2
    <2> QED BY <2>3, <2>4
  <1>2. IndInv => DialsWhereAllowed
    BY <1>1 DEF DialsWhereAllowed
  <1> QED BY <1>2, ConnectionInvariant, PTL

\* The last word of a value is that of its tail, and of itself.
LEMMA LastOfTail ==
    ASSUME NEW S, NEW s \in Seq(S), Len(s) > 1
    PROVE  /\ Tail(s) \in Seq(S) /\ Tail(s) # <<>>
           /\ Tail(s)[Len(Tail(s))] = s[Len(s)]
  <1> DEFINE t == Tail(s)
  <1>0. s # <<>> /\ Len(s) \in Nat
    OBVIOUS
  <1>1. /\ t \in Seq(S) /\ Len(t) = Len(s) - 1
        /\ \A i \in 1..Len(t) : t[i] = s[i + 1]
    BY <1>0, HeadTailProperties
  <1> HIDE DEF t
  <1>2. Len(t) \in 1..Len(t) /\ Len(t) + 1 = Len(s) /\ t # <<>>
    BY <1>0, <1>1
  <1>3. t[Len(t)] = s[Len(t) + 1]
    BY <1>1, <1>2
  <1> QED BY <1>1, <1>2, <1>3 DEF t

LEMMA LastOfOne ==
    ASSUME NEW S, NEW w \in S
    PROVE  <<w>> \in Seq(S) /\ <<w>> # <<>> /\ <<w>>[Len(<<w>>)] = w
  OBVIOUS

\* parse_auth_header and extract_key_from_credential take a key from the end of the
\* header's value.
LEMMA KeyEndsValue ==
    ASSUME NEW auth \in AuthConfig, auth.type = "api_key",
           NEW headers \in [HeaderName -> Seq(STRING)], ValidateApiKey(auth, headers)
    PROVE  Last(headers[auth.header_name]) = Last(auth.key)
  <1> DEFINE value == headers[auth.header_name]
             cred == ParseAuthHeader(value)
             text == cred.text
             n == Len(auth.prefix) + 1
  <1>1. /\ auth.header_name \in HeaderName /\ auth.prefix \in Seq(STRING)
        /\ auth.key \in Seq(STRING) /\ auth.key # <<>>
    BY DEF AuthConfig
  <1>2. value \in Seq(STRING) /\ value # <<>>
    BY <1>1 DEF ValidateApiKey
  <1> HIDE DEF value
  <1>3. text \in Seq(STRING) /\ text # <<>> /\ text[Len(text)] = value[Len(value)]
    <2>1. CASE Len(value) > 1 /\ Head(value) = "Bearer"
      <3>1. text = Tail(value)
        BY <2>1 DEF ParseAuthHeader
      <3> HIDE DEF text
      <3> QED BY <1>2, <2>1, <3>1, LastOfTail
    <2>2. CASE ~(Len(value) > 1 /\ Head(value) = "Bearer") /\ Len(value) = 3 /\ Head(value) = "Basic"
      <3>1. text = <<value[3]>>
        BY <2>2 DEF ParseAuthHeader
      <3>2. value[3] \in STRING
        <4>1. 3 \in 1..Len(value)
          BY <2>2
        <4> QED BY <1>2, <4>1, ElementOfSeq
      <3>3. /\ <<value[3]>> \in Seq(STRING) /\ <<value[3]>> # <<>>
            /\ <<value[3]>>[Len(<<value[3]>>)] = value[3]
        BY <3>2, LastOfOne
      <3> HIDE DEF text
      <3>4. Len(value) = 3
        BY <2>2
      <3> QED BY <3>1, <3>3, <3>4
    <2>3. CASE /\ ~(Len(value) > 1 /\ Head(value) = "Bearer")
               /\ ~(Len(value) = 3 /\ Head(value) = "Basic")
      <3>1. text = value
        BY <2>3 DEF ParseAuthHeader
      <3> HIDE DEF text
      <3> QED BY <1>2, <3>1
    <2> QED BY <2>1, <2>2, <2>3
  <1>4. SubSeq(text, n, Len(text)) = auth.key
    BY DEF ValidateApiKey, CheckCredential, ExtractedKey, value
  <1> HIDE DEF cred, text
  <1>5. /\ n \in Nat /\ n >= 1 /\ Len(text) \in Nat
    BY <1>1, <1>3
  <1> HIDE DEF n
  <1>6. n <= Len(text)
    <2>1. Len(text) < n => SubSeq(text, n, Len(text)) = <<>>
      BY <1>5, SubSeqEmpty
    <2> QED BY <1>1, <1>4, <1>5, <2>1
  <1>7. /\ Len(SubSeq(text, n, Len(text))) = Len(text) - n + 1
        /\ \A i \in 1..Len(text) - n + 1 : SubSeq(text, n, Len(text))[i] = text[n + i - 1]
    <2>1. \A i \in n..Len(text) : text[i] \in STRING
      BY <1>3, <1>5
    <2> QED BY <1>5, <1>6, <2>1, SubSeqProperties
  <1>8. auth.key[Len(auth.key)] = text[Len(text)]
    <2> DEFINE m == Len(text) - n + 1
    <2>1. m \in 1..m /\ n + m - 1 = Len(text)
      BY <1>5, <1>6
    <2>2. Len(auth.key) = m
      BY <1>4, <1>7
    <2>3. auth.key[m] = text[n + m - 1]
      BY <1>4, <1>7, <2>1
    <2> QED BY <2>1, <2>2, <2>3
  <1> QED BY <1>3, <1>8 DEF Last, value

\* What is dialled under a token that is bound to a client is dialled for that client.
THEOREM BoundTokensServeTheirClient == Spec => []DialsForBoundClient
  <1>1. ASSUME IndInv, NEW c \in Conn, conn[c].dial # None, Pass(c) # None
        PROVE  LET auth == Payload[Pass(c)].auth IN
               /\ auth.type = "mutual_tls" =>
                      /\ config.client_auth \in {"optional", "required"}
                      /\ Cert[c] # None /\ Cert[c].signed
                      /\ Cert[c].fingerprint = auth.cert_fingerprint
               /\ auth.type = "api_key" =>
                      Last(conn[c].request.headers[auth.header_name]) = Last(auth.key)
    <2> DEFINE auth == Payload[Pass(c)].auth
               headers == conn[c].request.headers
    <2>1. Pass(c) \in Token /\ ValidateAuth(auth, headers, TlsInfo(c))
      BY <1>1, DialWasAdmitted
    <2>2. auth \in AuthConfig
      BY <2>1, ConnectionAssumption DEF PayloadType
    <2>3. /\ headers \in [HeaderName -> Seq(STRING)]
          /\ HandshakeAccepts(config.client_auth, Cert[c])
      BY <1>1, WhoDials DEF RequestType, TaskInv
    <2>4. config.client_auth \in ClientAuthMode
      BY <1>1, ConnectionAssumption DEF IndInv, TypeOK, ConfigType
    <2> HIDE DEF auth, headers
    <2>5. CASE auth.type = "mutual_tls"
      <3>1. TlsInfo(c) # None /\ TlsInfo(c).cert_fingerprint = auth.cert_fingerprint
        BY <2>1, <2>5 DEF ValidateAuth, ValidateMtls
      <3>2. /\ config.client_auth \in {"optional", "required"} /\ Cert[c] # None
            /\ TlsInfo(c).cert_fingerprint = Cert[c].fingerprint
        BY <2>4, <3>1 DEF TlsInfo, ExtractClientCertInfo, ClientAuthMode
      <3>3. Cert[c].signed
        BY <2>3, <3>2 DEF HandshakeAccepts
      <3> QED BY <2>5, <3>1, <3>2, <3>3 DEF auth
    <2>6. CASE auth.type = "api_key"
      <3>1. ValidateApiKey(auth, headers)
        BY <2>1, <2>6 DEF ValidateAuth
      <3> QED BY <2>2, <2>3, <2>6, <3>1, KeyEndsValue DEF auth, headers
    <2>7. CASE auth.type \notin {"mutual_tls", "api_key"}
      BY <2>7 DEF auth
    <2> QED BY <2>5, <2>6, <2>7
  <1>2. IndInv => DialsForBoundClient
    BY <1>1 DEF DialsForBoundClient
  <1> QED BY <1>2, ConnectionInvariant, PTL
=============================================================================
