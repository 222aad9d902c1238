------------------------- MODULE RateLimiterProofs -------------------------
(***************************************************************************)
(* The rate limiter for every set of clients and every configuration.      *)
(***************************************************************************)
EXTENDS RateLimiter, TLAPS

\* What the arrival time of a key says of its grants: each of them, and every one
\* after it, has moved it on by an interval, and the last one left it within the
\* burst of its own time.
TatInv ==
    \A k \in Key :
        LET g == grants[k]
            T == EmissionInterval(config) IN
        IF g = <<>>
        THEN tat[k] = NoEntry
        ELSE /\ tat[k] \in Nat
             /\ g[Len(g)] <= now
             /\ tat[k] <= g[Len(g)] + Burst * T
             /\ \A i \in 1 .. Len(g) : g[i] + (Len(g) - i + 1) * T <= tat[k]

IInv == TypeOK /\ TatInv /\ WindowBounded

\* The interval is a length of time, and multiplying it follows the usual laws.
LEMMA IntervalType ==
    ASSUME TypeOK
    PROVE  /\ EmissionInterval(config) \in Nat
           /\ Burst \in Nat \ {0}
           /\ BurstTolerance(config) = EmissionInterval(config) * config.burst
           /\ config.burst \in Nat
<1>1. config \in [max_requests: Nat, period: Nat, burst: Nat]
  BY RateLimiterAssumption DEF TypeOK
<1>2. EmissionInterval(config) \in Nat
  <2>1. CASE config.max_requests = 0
    BY <1>1, <2>1 DEF EmissionInterval
  <2>2. CASE config.max_requests # 0
    <3>1. config.period \in Nat /\ config.max_requests \in Nat /\ config.max_requests > 0
      BY <1>1, <2>2
    <3>2. config.period \div config.max_requests \in Nat
      BY <3>1, SMT
    <3> QED BY <3>2, <2>2 DEF EmissionInterval
  <2> QED BY <2>1, <2>2
<1> QED BY <1>1, <1>2 DEF Burst, BurstTolerance

LEMMA Laws ==
    ASSUME NEW T \in Nat, NEW n \in Int, NEW b \in Nat
    PROVE  /\ (n + 1) * T = n * T + T
           /\ n * T \in Int
           /\ b * T \in Nat
           /\ T * b = b * T
           /\ b >= 1 => b * T >= T
           /\ 1 * T = T /\ 0 * T = 0
<1>1. (n + 1) * T = n * T + T /\ n * T \in Int /\ b * T \in Nat /\ T * b = b * T
      /\ 1 * T = T /\ 0 * T = 0
  BY SMT
<1>2. ASSUME b >= 1 PROVE b * T >= T
  <2>1. PICK c \in Nat : b = c + 1
    BY <1>2
  <2>2. b * T = c * T + T /\ c * T \in Nat
    BY <2>1, SMT
  <2> QED BY <2>2
<1> QED BY <1>1, <1>2

-----------------------------------------------------------------------------
\* The step that counts: a key is granted a request.  Its new arrival time is an
\* interval past the old one and past the clock, and within the burst of the clock.
LEMMA GrantedTat ==
    ASSUME TypeOK, TatInv, NEW k \in Key, Grant(k)
    PROVE  LET T == EmissionInterval(config) IN
           /\ tat'[k] \in Nat
           /\ tat'[k] >= now + T
           /\ tat[k] # NoEntry => tat'[k] >= tat[k] + T
           /\ tat'[k] <= now + Burst * T
<1> DEFINE T == EmissionInterval(config)
           b == config.burst
<1>1. /\ T \in Nat /\ Burst \in Nat /\ Burst >= 1 /\ b \in Nat
      /\ BurstTolerance(config) = T * b
  BY IntervalType
<1>2. now \in Nat /\ tat[k] \in Nat \cup {NoEntry} /\ k \in DOMAIN tat
  BY DEF TypeOK
<1>3. tat'[k] = Allowed(config, tat[k], now)
  BY <1>2 DEF Grant
<1>4. b <= Burst /\ (b = 0 => Burst = 1) /\ (b # 0 => Burst = b)
  BY <1>1 DEF Burst
<1> HIDE DEF T, b
<1>5. /\ T * b = b * T /\ b * T \in Nat /\ Burst * T \in Nat
      /\ Burst * T >= T /\ 0 * T = 0
  <2>1. T * b = b * T /\ b * T \in Nat /\ 0 * T = 0
    BY <1>1, Laws
  <2>2. Burst * T \in Nat /\ Burst * T >= T
    BY <1>1, Laws
  <2> QED BY <2>1, <2>2
<1>6. b * T <= Burst * T
  <2>1. CASE b = 0
    BY <2>1, <1>5
  <2>2. CASE b # 0
    BY <2>2, <1>4, <1>5
  <2> QED BY <2>1, <2>2
<1>7. CASE tat[k] = NoEntry
  <2>1. tat'[k] = now + T
    BY <1>2, <1>3, <1>7 DEF Allowed, NewTat, T
  <2> QED BY <2>1, <1>1, <1>2, <1>5, <1>7 DEF T
<1>8. CASE tat[k] # NoEntry
  <2>1. tat'[k] = NewTat(config, tat[k], now)
    BY <1>3, <1>8 DEF Allowed
  <2>2. tat'[k] - T * b <= now
    BY <2>1, <1>1, <1>8 DEF Grant, Allows, T, b
  <2>3. tat'[k] = (IF tat[k] < now THEN now ELSE tat[k]) + T
    BY <2>1 DEF NewTat, T
  <2>4. tat[k] \in Nat
    BY <1>2, <1>8
  <2>5. tat'[k] \in Nat /\ tat'[k] >= now + T /\ tat'[k] >= tat[k] + T
    BY <2>3, <2>4, <1>1, <1>2
  <2>6. tat'[k] <= now + Burst * T
    BY <2>2, <2>5, <1>2, <1>5, <1>6
  <2> QED BY <2>5, <2>6 DEF T
<1> QED BY <1>7, <1>8

\* The same step keeps what the arrival time says of the grants.
LEMMA GrantKeepsTat ==
    ASSUME TypeOK, TatInv, NEW k \in Key, Grant(k)
    PROVE  TatInv'
<1> DEFINE T == EmissionInterval(config)
           g == grants[k]
<1>1. T \in Nat /\ Burst \in Nat
  BY IntervalType
<1>2. /\ EmissionInterval(config)' = T /\ Burst' = Burst /\ now' = now /\ Key' = Key
      /\ config' = config
  BY DEF Grant, EmissionInterval, Burst, Key
<1>3. now \in Nat /\ g \in Seq(Nat) /\ k \in DOMAIN grants /\ k \in DOMAIN tat
  BY DEF TypeOK
<1>4. grants'[k] = Append(g, now)
  BY <1>3 DEF Grant
<1>5. /\ grants'[k] # <<>> /\ Len(grants'[k]) = Len(g) + 1 /\ Len(g) \in Nat
      /\ grants'[k][Len(g) + 1] = now
      /\ \A i \in 1 .. Len(g) : grants'[k][i] = g[i] /\ g[i] \in Nat
  BY <1>3, <1>4
<1>6. /\ tat'[k] \in Nat /\ tat'[k] >= now + T /\ tat'[k] <= now + Burst * T
      /\ tat[k] # NoEntry => tat'[k] >= tat[k] + T
  BY GrantedTat
<1> SUFFICES ASSUME NEW j \in Key
             PROVE  LET h == grants'[j] IN
                    IF h = <<>>
                    THEN tat'[j] = NoEntry
                    ELSE /\ tat'[j] \in Nat
                         /\ h[Len(h)] <= now
                         /\ tat'[j] <= h[Len(h)] + Burst * T
                         /\ \A i \in 1 .. Len(h) : h[i] + (Len(h) - i + 1) * T <= tat'[j]
  BY <1>2 DEF TatInv
<1>7. CASE j # k
  <2>1. grants'[j] = grants[j] /\ tat'[j] = tat[j]
    BY <1>7, <1>3 DEF Grant, TypeOK
  <2> QED BY <2>1 DEF TatInv
<1>8. CASE j = k
  <2> DEFINE h == grants'[k]
  <2>1. h[Len(h)] = now
    BY <1>5
  <2>2. ASSUME NEW i \in 1 .. Len(h)
        PROVE  h[i] + (Len(h) - i + 1) * T <= tat'[k]
    <3>1. CASE i = Len(g) + 1
      <4>1. Len(h) - i + 1 = 1
        BY <3>1, <1>5
      <4>2. (Len(h) - i + 1) * T = T
        BY <4>1, <1>1, Laws
      <4> QED BY <3>1, <4>2, <1>1, <1>3, <1>5, <1>6
    <3>2. CASE i # Len(g) + 1
      <4>1. i \in 1 .. Len(g) /\ Len(g) - i + 1 \in Nat
        BY <3>2, <1>5
      <4>2. g # <<>>
        BY <4>1
      <4>3. tat[k] \in Nat /\ g[i] + (Len(g) - i + 1) * T <= tat[k]
        BY <4>1, <4>2 DEF TatInv
      <4>4. tat[k] # NoEntry
        BY <4>3 DEF NoEntry
      <4> DEFINE n == Len(g) - i + 1
      <4>5. Len(h) - i + 1 = n + 1 /\ n \in Int
        BY <4>1, <1>5
      <4> HIDE DEF n
      <4>6. (n + 1) * T = n * T + T /\ n * T \in Int
        BY <4>5, <1>1, Laws
      <4>7. g[i] + n * T <= tat[k]
        BY <4>3 DEF n
      <4>8. g[i] + (n + 1) * T <= tat'[k]
        <5> HIDE DEF T, g
        <5> QED BY <4>1, <4>3, <4>4, <4>6, <4>7, <1>1, <1>5, <1>6
      <4> QED BY <4>1, <4>5, <4>8, <1>5
    <3> QED BY <3>1, <3>2
  <2>3. tat'[k] <= h[Len(h)] + Burst * T
    BY <2>1, <1>6
  <2> QED BY <2>1, <2>2, <2>3, <1>3, <1>5, <1>6, <1>8
<1> QED BY <1>7, <1>8

\* The window that ends with the new grant: its length is what is left between
\* the two bounds on the arrival time.
LEMMA GrantKeepsWindow ==
    ASSUME TypeOK, TatInv, WindowBounded, NEW k \in Key, Grant(k)
    PROVE  WindowBounded'
<1> DEFINE T == EmissionInterval(config)
           g == grants[k]
           h == grants'[k]
<1>1. T \in Nat /\ Burst \in Nat
  BY IntervalType
<1>2. EmissionInterval(config)' = T /\ Burst' = Burst /\ now' = now /\ Key' = Key
  BY DEF Grant, EmissionInterval, Burst, Key
<1>3. now \in Nat /\ g \in Seq(Nat) /\ k \in DOMAIN grants
  BY DEF TypeOK
<1>4. h = Append(g, now)
  BY <1>3 DEF Grant
<1>5. /\ h # <<>> /\ Len(h) = Len(g) + 1 /\ Len(g) \in Nat /\ h[Len(h)] = now
      /\ \A i \in 1 .. Len(g) : h[i] = g[i]
      /\ \A i \in 1 .. Len(h) : h[i] \in Nat
  BY <1>3, <1>4
<1>6. TatInv'
  BY GrantKeepsTat
<1>7. /\ tat'[k] \in Nat /\ tat'[k] <= now + Burst * T
      /\ \A i \in 1 .. Len(h) : h[i] + (Len(h) - i + 1) * T <= tat'[k]
  BY <1>2, <1>5, <1>6 DEF TatInv
<1> SUFFICES ASSUME NEW m \in Key,
                    NEW i \in 1 .. Len(grants'[m]), NEW j \in 1 .. Len(grants'[m]), i <= j
             PROVE  (j - i + 1) * T <= (grants'[m][j] - grants'[m][i]) + Burst * T
  BY <1>2 DEF WindowBounded
<1>8. CASE m # k
  <2>1. grants'[m] = grants[m]
    BY <1>8, <1>3 DEF Grant
  <2> QED BY <2>1 DEF WindowBounded
<1>9. CASE m = k /\ j # Len(h)
  <2>1. i \in 1 .. Len(g) /\ j \in 1 .. Len(g)
    BY <1>5, <1>9
  <2>2. (j - i + 1) * T <= (g[j] - g[i]) + Burst * T
    BY <2>1 DEF WindowBounded
  <2> QED BY <2>1, <2>2, <1>5, <1>9
<1>10. CASE m = k /\ j = Len(h)
  <2>1. i \in 1 .. Len(h) /\ h[i] \in Nat /\ Len(h) - i + 1 \in Int
    BY <1>5, <1>10
  <2> DEFINE n == Len(h) - i + 1
  <2>2. n * T \in Int /\ Burst * T \in Nat
    BY <2>1, <1>1, Laws
  <2>3. h[i] + n * T <= tat'[k]
    BY <2>1, <1>7
  <2>4. n * T <= (now - h[i]) + Burst * T
    <3> HIDE DEF T, h, n
    <3> QED BY <2>1, <2>2, <2>3, <1>3, <1>7
  <2> QED BY <2>4, <1>5, <1>10
<1> QED BY <1>8, <1>9, <1>10

-----------------------------------------------------------------------------
LEMMA Start == Init => IInv
<1> SUFFICES ASSUME Init PROVE IInv
  OBVIOUS
<1>1. TypeOK
  BY RateLimiterAssumption DEF Init, TypeOK, NoEntry
<1>2. \A k \in Key : grants[k] = <<>> /\ tat[k] = NoEntry
  BY DEF Init
<1>3. TatInv
  BY <1>2 DEF TatInv
<1>4. WindowBounded
  BY <1>2 DEF WindowBounded
<1> QED BY <1>1, <1>3, <1>4 DEF IInv

LEMMA Step == IInv /\ [Next]_vars => IInv'
<1> SUFFICES ASSUME IInv, [Next]_vars PROVE IInv'
  OBVIOUS
<1> USE DEF IInv
<1>1. ASSUME NEW k \in Key, Grant(k) PROVE IInv'
  <2>1. tat'[k] \in Nat
    BY <1>1, GrantedTat
  <2>2. grants[k] \in Seq(Nat) /\ now \in Nat
    BY DEF TypeOK
  <2>3. Append(grants[k], now) \in Seq(Nat)
    BY <2>2
  <2>4. Key' = Key
    BY DEF Key
  <2>5. grants' \in [Key -> Seq(Nat)]
    BY <1>1, <2>3 DEF Grant, TypeOK
  <2>6. tat' \in [Key -> Nat \cup {NoEntry}]
    BY <1>1, <2>1 DEF Grant, TypeOK
  <2>7. config' \in Configs /\ now' \in Nat
    BY <1>1 DEF Grant, TypeOK
  <2>8. TypeOK'
    BY <2>4, <2>5, <2>6, <2>7 DEF TypeOK, NoEntry
  <2> QED BY <1>1, <2>8, GrantKeepsTat, GrantKeepsWindow
<1>2. ASSUME NEW K \in SUBSET Key,
             tat' = [k \in Key |-> IF k \in K THEN NoEntry ELSE tat[k]],
             grants' = [k \in Key |-> IF k \in K THEN <<>> ELSE grants[k]],
             config' = config, now' = now
      PROVE  IInv'
  <2>1. /\ Key' = Key /\ Burst' = Burst
        /\ EmissionInterval(config)' = EmissionInterval(config)
    BY <1>2 DEF Key, Burst, EmissionInterval
  <2>2. TypeOK'
    BY <1>2, <2>1 DEF TypeOK, NoEntry
  <2>3. TatInv'
    BY <1>2, <2>1 DEF TatInv
  <2>4. WindowBounded'
    BY <1>2, <2>1 DEF WindowBounded
  <2> QED BY <2>2, <2>3, <2>4
<1>3. ASSUME NEW k \in Key, Clear(k) PROVE IInv'
  <2>1. /\ tat' = [j \in Key |-> IF j \in {k} THEN NoEntry ELSE tat[j]]
        /\ grants' = [j \in Key |-> IF j \in {k} THEN <<>> ELSE grants[j]]
        /\ config' = config /\ now' = now
    BY <1>3 DEF Clear, TypeOK
  <2> QED BY <2>1, <1>2
<1>4. ASSUME ClearAll PROVE IInv'
  <2>1. /\ tat' = [j \in Key |-> IF j \in Key THEN NoEntry ELSE tat[j]]
        /\ grants' = [j \in Key |-> IF j \in Key THEN <<>> ELSE grants[j]]
        /\ config' = config /\ now' = now
    BY <1>4 DEF ClearAll
  <2> QED BY <2>1, <1>2
<1>5. ASSUME Tick PROVE IInv'
  <2>1. /\ Key' = Key /\ Burst' = Burst /\ now \in Nat /\ now' = now + 1
        /\ EmissionInterval(config)' = EmissionInterval(config)
        /\ config' = config /\ tat' = tat /\ grants' = grants
    BY <1>5 DEF Tick, TypeOK, Key, Burst, EmissionInterval
  <2>2. TypeOK'
    BY <2>1 DEF TypeOK, NoEntry
  <2>3. \A k \in Key : grants[k] # <<>> => grants[k][Len(grants[k])] \in Nat
    BY DEF TypeOK
  <2>4. \A k \in Key :
          grants[k] # <<>> /\ grants[k][Len(grants[k])] <= now
            => grants[k][Len(grants[k])] <= now'
    BY <2>1, <2>3
  <2>5. TatInv'
    BY <2>1, <2>4 DEF TatInv
  <2>6. WindowBounded'
    BY <2>1 DEF WindowBounded
  <2> QED BY <2>2, <2>5, <2>6
<1>6. ASSUME UNCHANGED vars PROVE IInv'
  <2>1. config' = config /\ now' = now /\ tat' = tat /\ grants' = grants
    BY <1>6 DEF vars
  <2> QED BY <2>1 DEF TypeOK, TatInv, WindowBounded, Key, Burst, EmissionInterval, NoEntry
<1>7. ASSUME NEW c \in Client, Check(c) PROVE IInv'
  <2>1. RateLimitKey(c) \in Key
    BY DEF Key
  <2> QED BY <2>1, <1>1, <1>6, <1>7 DEF Check, Refuse
<1> QED BY <1>3, <1>4, <1>5, <1>6, <1>7 DEF Next

\* A request that keeps to the rate is within the burst of the clock.
LEMMA SteadyFollows == IInv => SteadyClientServed
<1> SUFFICES ASSUME IInv, NEW k \in Key, config.burst >= 1, grants[k] # <<>>,
                    now >= grants[k][Len(grants[k])] + EmissionInterval(config)
             PROVE  Allows(config, tat[k], now)
  BY DEF SteadyClientServed
<1> DEFINE T == EmissionInterval(config)
           b == config.burst
           u == grants[k][Len(grants[k])]
<1>1. T \in Nat /\ b \in Nat /\ BurstTolerance(config) = T * b
  BY IntervalType DEF IInv
<1>2. Burst = b
  BY <1>1 DEF Burst
<1>3. now \in Nat /\ u \in Nat
  BY DEF IInv, TypeOK
<1>4. tat[k] \in Nat /\ tat[k] <= u + b * T
  BY <1>2 DEF IInv, TatInv
<1>5. b >= 1 /\ u + T <= now
  BY <1>1, <1>3
<1>6. NewTat(config, tat[k], now) = (IF tat[k] < now THEN now ELSE tat[k]) + T
  BY DEF NewTat
<1> HIDE DEF T, b, u
<1>7. T * b = b * T /\ b * T \in Nat /\ b * T >= T
  BY <1>1, <1>5, Laws
<1>8. NewTat(config, tat[k], now) - BurstTolerance(config) <= now
  BY <1>1, <1>3, <1>4, <1>5, <1>6, <1>7
<1> QED BY <1>8 DEF Allows

\* RateLimiter::check keeps its arrival times in range whatever the
\* configuration, a max_requests or a burst of 0 included.
THEOREM LimiterTypeCorrect == Spec => []TypeOK
<1>1. IInv => TypeOK
  BY DEF IInv
<1> QED BY <1>1, Start, Step, PTL DEF Spec

\* RateLimiter::check never grants one key more, in any window of time, than one
\* request per emission interval and the burst.
THEOREM RateIsBounded == Spec => []WindowBounded
<1>1. IInv => WindowBounded
  BY DEF IInv
<1> QED BY <1>1, Start, Step, PTL DEF Spec

\* RateLimiter::check never refuses a client that keeps to the rate, however it
\* behaved before and however often it was refused.
THEOREM SteadyIsServed == Spec => []SteadyClientServed
<1> QED BY SteadyFollows, Start, Step, PTL DEF Spec
=============================================================================
