-------------------------- MODULE RedisStoreProofs --------------------------
(***************************************************************************)
(* Proxies that share a Redis keep the promise of BoundedUse for any       *)
(* number of calls, tokens, limits and lifetimes, wherever calls           *)
(* interleave, fail or are dropped.                                        *)
(***************************************************************************)
EXTENDS RedisStore, FiniteSetTheorems, TLAPS

\* The calls on a token that hold, or have acted on, a number of INCR's.
Numbered(t) == {c \in Call : nonce[c] = t /\ pc[c] \in {"expire", "decide", "allowed"}}
Granted(t) == {c \in Call : nonce[c] = t /\ pc[c] = "allowed"}

\* The TTL of a key, and the one a call is about to give it, reach to the end of
\* the token's lifetime: while the token lives its key is not lost.
TtlInv ==
    \A t \in Guarded :
        /\ now < Life[t] /\ ttl[t] # None => now + ttl[t] >= Life[t]
        /\ \A c \in Call : nonce[c] = t /\ pc[c] \in {"incr", "expire"} =>
              now + ttl_secs[c] >= Life[t]

\* So INCR gives every call a number of its own, and the uses granted are the
\* calls whose number was within the limit.
NumberInv ==
    \A t \in Guarded : now < Life[t] =>
        /\ \A c \in Numbered(t) : new_count[c] \in 1..count[t]
        /\ \A c \in Granted(t) : ~Exceeds(new_count[c], Replay[t].max_uses)
        /\ \A c, d \in Numbered(t) : new_count[c] = new_count[d] => c = d
        /\ IsFiniteSet(Granted(t)) /\ used[t] = Cardinality(Granted(t))

IndInv == TypeOK /\ TtlInv /\ NumberInv

-----------------------------------------------------------------------------
(* Types                                                                   *)

LEMMA InitType == Init => TypeOK
  BY RedisAssumption DEF Init, TypeOK

\* TypeOK holds again after every step.
LEMMA NextType == TypeOK /\ [Next]_vars => TypeOK'
  <1> SUFFICES ASSUME TypeOK, [Next]_vars PROVE TypeOK'
    OBVIOUS
  <1> USE RedisAssumption DEF TypeOK, ReplayProtection, redis, locals, Goto
  <1>1. CASE Tick
    BY <1>1 DEF Tick
  <1>2. ASSUME NEW c \in Call, CheckAndRecord(c) PROVE TypeOK'
    BY <1>2 DEF CheckAndRecord, TtlFromExpiry, AtLeastOne
  <1>3. ASSUME NEW c \in Call, Incr(c) PROVE TypeOK'
    BY <1>3 DEF Incr
  <1>4. ASSUME NEW c \in Call, Expire(c) PROVE TypeOK'
    BY <1>4 DEF Expire, Expired
  <1>5. ASSUME NEW c \in Call, Allow(c) PROVE TypeOK'
    BY <1>5 DEF Allow
  <1>6. ASSUME NEW c \in Call, Deny(c) PROVE TypeOK'
    BY <1>6 DEF Deny
  <1>7. ASSUME NEW c \in Call, BreakOff(c) PROVE TypeOK'
    <2>1. CASE pc[c] = "incr"
      <3>1. nonce[c] \in Token
        OBVIOUS
      <3>2. PICK n \in {count[nonce[c]], count[nonce[c]] + 1} :
               count' = [count EXCEPT ![nonce[c]] = n]
        BY <1>7, <2>1 DEF BreakOff
      <3>3. count' \in [Token -> Nat] /\ \A t \in Token : count'[t] = 0 => count[t] = 0
        BY <3>1, <3>2
      <3>4. orphaned' \subseteq Token
        BY <1>7, <2>1, <3>1 DEF BreakOff
      <3> QED BY <1>7, <2>1, <3>3, <3>4 DEF BreakOff
    <2>2. CASE pc[c] = "expire"
      BY <1>7, <2>2 DEF BreakOff, Expired
    <2>3. CASE pc[c] = "decide"
      BY <1>7, <2>3 DEF BreakOff
    <2> QED BY <1>7, <2>1, <2>2, <2>3 DEF BreakOff
  <1>8. CASE UNCHANGED vars
    BY <1>8 DEF vars
  <1> QED BY <1>1, <1>2, <1>3, <1>4, <1>5, <1>6, <1>7, <1>8 DEF Next, Run

\* Every count is a natural number, every TTL is positive and belongs to a key.
THEOREM RedisTypeCorrect == Spec => []TypeOK
  BY InitType, NextType, PTL DEF Spec

-----------------------------------------------------------------------------
(* Keys outlive their tokens                                               *)

LEMMA TtlPreserved == TypeOK /\ TtlInv /\ [Next]_vars => TtlInv'
  <1> SUFFICES ASSUME TypeOK, TtlInv, [Next]_vars, NEW t \in Guarded
               PROVE  /\ now' < Life[t] /\ ttl'[t] # None => now' + ttl'[t] >= Life[t]
                      /\ \A c \in Call : nonce'[c] = t /\ pc'[c] \in {"incr", "expire"} =>
                            now' + ttl_secs'[c] >= Life[t]
    BY DEF TtlInv, Guarded
  <1> DEFINE Goal == /\ now' < Life[t] /\ ttl'[t] # None => now' + ttl'[t] >= Life[t]
                     /\ \A c \in Call : nonce'[c] = t /\ pc'[c] \in {"incr", "expire"} =>
                           now' + ttl_secs'[c] >= Life[t]
  <1>0. t \in Token /\ Life[t] \in Nat /\ Replay[t].nonce_ttl_seconds = None
    BY RedisAssumption DEF Guarded
  <1> USE <1>0, RedisAssumption DEF TypeOK, TtlInv, redis, locals, Goto
  <1>1. CASE Tick
    BY <1>1 DEF Tick
  <1>2. ASSUME NEW c \in Call, CheckAndRecord(c) PROVE Goal
    BY <1>2 DEF CheckAndRecord, TtlFromExpiry, AtLeastOne
  <1>3. ASSUME NEW c \in Call, Incr(c) PROVE Goal
    BY <1>3 DEF Incr
  <1>4. ASSUME NEW c \in Call, Expire(c) PROVE Goal
    BY <1>4 DEF Expire, Expired
  <1>5. ASSUME NEW c \in Call, Allow(c) \/ Deny(c) PROVE Goal
    BY <1>5 DEF Allow, Deny
  <1>6. ASSUME NEW c \in Call, BreakOff(c) PROVE Goal
    <2>1. CASE pc[c] = "incr"
      BY <1>6, <2>1 DEF BreakOff
    <2>2. CASE pc[c] = "expire"
      BY <1>6, <2>2 DEF BreakOff, Expired
    <2>3. CASE pc[c] = "decide"
      BY <1>6, <2>3 DEF BreakOff
    <2> QED BY <1>6, <2>1, <2>2, <2>3 DEF BreakOff
  <1>7. CASE UNCHANGED vars
    BY <1>7 DEF vars
  <1> QED BY <1>1, <1>2, <1>3, <1>4, <1>5, <1>6, <1>7 DEF Next, Run

\* A step loses no key of a token that lives on after it: the count does not fall.
LEMMA CountKept ==
    ASSUME TypeOK, TtlInv, [Next]_vars, NEW t \in Guarded, now' < Life[t]
    PROVE  now < Life[t] /\ count'[t] >= count[t]
  <1> USE RedisAssumption DEF TypeOK, redis, locals, Guarded
  <1>1. CASE Tick
    BY <1>1 DEF Tick, TtlInv
  <1>2. ASSUME NEW c \in Call, Incr(c) PROVE now < Life[t] /\ count'[t] >= count[t]
    BY <1>2 DEF Incr
  <1>3. ASSUME NEW c \in Call, BreakOff(c) PROVE now < Life[t] /\ count'[t] >= count[t]
    BY <1>3 DEF BreakOff
  <1>4. ASSUME NEW c \in Call, CheckAndRecord(c) \/ Expire(c) \/ Allow(c) \/ Deny(c)
        PROVE  now < Life[t] /\ count'[t] >= count[t]
    BY <1>4 DEF CheckAndRecord, Expire, Allow, Deny
  <1>5. CASE UNCHANGED vars
    BY <1>5 DEF vars
  <1> QED BY <1>1, <1>2, <1>3, <1>4, <1>5 DEF Next, Run

-----------------------------------------------------------------------------
(* Every call has a number of its own                                      *)

\* A step that gives out no number and grants nothing.
LEMMA NumberKept ==
    ASSUME TypeOK, TtlInv, NumberInv, [Next]_vars, NEW t \in Guarded, now' < Life[t],
           Granted(t)' = Granted(t), Numbered(t)' \subseteq Numbered(t),
           used' = used, new_count' = new_count
    PROVE  /\ \A c \in Numbered(t)' : new_count'[c] \in 1..count'[t]
           /\ \A c \in Granted(t)' : ~Exceeds(new_count'[c], Replay[t].max_uses)
           /\ \A c, d \in Numbered(t)' : new_count'[c] = new_count'[d] => c = d
           /\ IsFiniteSet(Granted(t)') /\ used'[t] = Cardinality(Granted(t)')
  <1>1. now < Life[t] /\ count'[t] >= count[t]
    BY CountKept
  <1>2. /\ \A c \in Numbered(t) : new_count[c] \in 1..count[t]
        /\ \A c \in Granted(t) : ~Exceeds(new_count[c], Replay[t].max_uses)
        /\ \A c, d \in Numbered(t) : new_count[c] = new_count[d] => c = d
        /\ IsFiniteSet(Granted(t)) /\ used[t] = Cardinality(Granted(t))
    BY <1>1 DEF NumberInv
  <1>3. count[t] \in Nat /\ count'[t] \in Nat
    BY NextType DEF TypeOK, Guarded
  <1>4. \A c \in Numbered(t)' : new_count'[c] \in 1..count'[t]
    BY <1>1, <1>2, <1>3
  <1> QED BY <1>2, <1>4

LEMMA NumberPreserved == IndInv /\ [Next]_vars => NumberInv'
  <1> SUFFICES ASSUME TypeOK, TtlInv, NumberInv, [Next]_vars, NEW t \in Guarded, now' < Life[t]
               PROVE  /\ \A c \in Numbered(t)' : new_count'[c] \in 1..count'[t]
                      /\ \A c \in Granted(t)' : ~Exceeds(new_count'[c], Replay[t].max_uses)
                      /\ \A c, d \in Numbered(t)' : new_count'[c] = new_count'[d] => c = d
                      /\ IsFiniteSet(Granted(t)') /\ used'[t] = Cardinality(Granted(t)')
    BY DEF IndInv, NumberInv, Guarded
  <1> DEFINE Goal == /\ \A c \in Numbered(t)' : new_count'[c] \in 1..count'[t]
                     /\ \A c \in Granted(t)' : ~Exceeds(new_count'[c], Replay[t].max_uses)
                     /\ \A c, d \in Numbered(t)' : new_count'[c] = new_count'[d] => c = d
                     /\ IsFiniteSet(Granted(t)') /\ used'[t] = Cardinality(Granted(t)')
  <1>a. t \in Token /\ now < Life[t] /\ count'[t] >= count[t] /\ count[t] \in Nat
    BY CountKept DEF TypeOK, Guarded
  <1>b. /\ \A c \in Numbered(t) : new_count[c] \in 1..count[t]
        /\ \A c \in Granted(t) : ~Exceeds(new_count[c], Replay[t].max_uses)
        /\ \A c, d \in Numbered(t) : new_count[c] = new_count[d] => c = d
        /\ IsFiniteSet(Granted(t)) /\ used[t] = Cardinality(Granted(t))
    BY <1>a DEF NumberInv
  <1> USE DEF TypeOK, redis, locals, Goto
  <1>1. ASSUME NEW c \in Call, Incr(c) PROVE Goal
    <2>1. CASE nonce[c] = t
      <3>1. Numbered(t)' = Numbered(t) \cup {c} /\ c \notin Numbered(t)
        BY <1>1, <2>1 DEF Incr, Numbered
      <3>2. Granted(t)' = Granted(t) /\ used' = used
        BY <1>1 DEF Incr, Granted
      <3>3. new_count'[c] = count[t] + 1 /\ count'[t] = count[t] + 1
        BY <1>1, <2>1, <1>a DEF Incr
      <3>4. \A d \in Numbered(t) : new_count'[d] = new_count[d]
        BY <1>1, <3>1 DEF Incr, Numbered
      <3>5. \A d \in Granted(t) : new_count'[d] = new_count[d]
        BY <3>4 DEF Granted, Numbered
      <3>6. \A d \in Numbered(t)' : new_count'[d] \in 1..count'[t]
        BY <3>1, <3>3, <3>4, <1>a, <1>b
      <3>7. \A d, e \in Numbered(t)' : new_count'[d] = new_count'[e] => d = e
        BY <3>1, <3>3, <3>4, <1>a, <1>b
      <3> QED BY <3>2, <3>5, <3>6, <3>7, <1>b
    <2>2. CASE nonce[c] # t
      <3>1. Numbered(t)' = Numbered(t) /\ Granted(t)' = Granted(t) /\ used' = used
        BY <1>1, <2>2 DEF Incr, Numbered, Granted
      <3>2. \A d \in Numbered(t) : new_count'[d] = new_count[d]
        BY <1>1, <2>2 DEF Incr, Numbered
      <3>3. \A d \in Granted(t) : new_count'[d] = new_count[d]
        BY <3>2 DEF Granted, Numbered
      <3>4. count'[t] = count[t]
        BY <1>1, <2>2, <1>a DEF Incr
      <3> QED BY <3>1, <3>2, <3>3, <3>4, <1>b
    <2> QED BY <2>1, <2>2
  <1>2. ASSUME NEW c \in Call, Allow(c) PROVE Goal
    <2>1. Numbered(t)' = Numbered(t) /\ new_count' = new_count /\ count' = count
      BY <1>2 DEF Allow, Numbered
    <2>2. CASE nonce[c] = t
      <3>1. Granted(t)' = Granted(t) \cup {c} /\ c \notin Granted(t)
        BY <1>2, <2>2 DEF Allow, Granted
      <3>2. ~Exceeds(new_count[c], Replay[t].max_uses)
        BY <1>2, <2>2 DEF Allow
      <3>3. used'[t] = used[t] + 1
        BY <1>2, <2>2, <1>a DEF Allow
      <3>4. /\ IsFiniteSet(Granted(t) \cup {c})
            /\ Cardinality(Granted(t) \cup {c}) = Cardinality(Granted(t)) + 1
        BY <3>1, <1>b, FS_AddElement
      <3>5. IsFiniteSet(Granted(t)') /\ used'[t] = Cardinality(Granted(t)')
        BY <3>1, <3>3, <3>4, <1>b
      <3>6. \A d \in Granted(t)' : ~Exceeds(new_count'[d], Replay[t].max_uses)
        BY <3>1, <3>2, <2>1, <1>b
      <3> QED BY <2>1, <3>5, <3>6, <1>b
    <2>3. CASE nonce[c] # t
      <3>1. Granted(t)' = Granted(t) /\ used'[t] = used[t]
        BY <1>2, <2>3, <1>a DEF Allow, Granted
      <3> QED BY <2>1, <3>1, <1>b
    <2> QED BY <2>2, <2>3
  <1>3. ASSUME NEW c \in Call, CheckAndRecord(c) \/ Expire(c) \/ Deny(c) \/ BreakOff(c)
        PROVE  Goal
    <2>1. used' = used /\ new_count' = new_count
      BY <1>3 DEF CheckAndRecord, Expire, Deny, BreakOff
    <2>2. /\ nonce' = nonce /\ pc' = [pc EXCEPT ![c] = pc'[c]]
          /\ pc[c] # "allowed" /\ pc'[c] # "allowed"
          /\ pc'[c] \in {"expire", "decide", "allowed"} => pc[c] \in {"expire", "decide", "allowed"}
      BY <1>3 DEF CheckAndRecord, Expire, Deny, BreakOff
    <2>3. Numbered(t)' \subseteq Numbered(t)
      BY <2>2 DEF Numbered
    <2>4. Granted(t)' = Granted(t)
      BY <2>2 DEF Granted
    <2> QED BY <2>1, <2>3, <2>4, NumberKept
  <1>4. CASE Tick \/ UNCHANGED vars
    <2>1. used' = used /\ new_count' = new_count
      BY <1>4 DEF Tick, vars
    <2>2. Numbered(t)' = Numbered(t) /\ Granted(t)' = Granted(t)
      BY <1>4 DEF Tick, vars, Numbered, Granted
    <2> QED BY <2>1, <2>2, NumberKept
  <1> QED BY <1>1, <1>2, <1>3, <1>4 DEF Next, Run

\* The TTLs reach and the numbers differ, in every reachable state.
THEOREM NumbersDiffer == Spec => []IndInv
  <1>1. Init => IndInv
    <2> SUFFICES ASSUME Init PROVE IndInv
      OBVIOUS
    <2>1. TtlInv
      BY RedisAssumption DEF Init, TtlInv, Guarded
    <2>2. \A t \in Guarded : Numbered(t) = {} /\ Granted(t) = {} /\ used[t] = 0
      BY DEF Init, Numbered, Granted, Guarded
    <2>3. IsFiniteSet({}) /\ Cardinality({}) = 0
      BY FS_EmptySet
    <2>4. NumberInv
      BY <2>2, <2>3 DEF NumberInv
    <2> QED BY InitType, <2>1, <2>4 DEF IndInv
  <1>2. IndInv /\ [Next]_vars => IndInv'
    BY NextType, TtlPreserved, NumberPreserved DEF IndInv
  <1> QED BY <1>1, <1>2, PTL DEF Spec

-----------------------------------------------------------------------------
(* The promise                                                             *)

\* A call that is allowed while its token lives finds a use left: the calls
\* granted so far, and this one, have different numbers within the limit.
LEMMA UseIsLeft ==
    ASSUME IndInv, NEW c \in Call, Allow(c), nonce[c] \in Guarded, now < Life[nonce[c]],
           Replay[nonce[c]].max_uses # None
    PROVE  used[nonce[c]] < Replay[nonce[c]].max_uses
  <1> DEFINE t == nonce[c]
             max == Replay[t].max_uses
             S == Granted(t) \cup {c}
             f == [d \in S |-> new_count[d]]
  <1>1. t \in Token /\ max \in Nat
    BY RedisAssumption DEF Guarded, ReplayProtection
  <1>2. S \subseteq Numbered(t) /\ c \notin Granted(t)
    BY DEF Allow, Granted, Numbered
  <1>3. /\ \A d \in Numbered(t) : new_count[d] \in 1..count[t]
        /\ \A d \in Granted(t) : ~Exceeds(new_count[d], max)
        /\ \A d, e \in Numbered(t) : new_count[d] = new_count[e] => d = e
        /\ IsFiniteSet(Granted(t)) /\ used[t] = Cardinality(Granted(t))
    BY DEF IndInv, NumberInv
  <1>4. \A d \in S : new_count[d] \in 1..max
    <2>1. \A d \in S : ~Exceeds(new_count[d], max)
      BY <1>3 DEF Allow
    <2>2. count[t] \in Nat
      BY <1>1 DEF IndInv, TypeOK
    <2> QED BY <1>1, <1>2, <1>3, <2>1, <2>2 DEF Exceeds
  <1>5. f \in Injection(S, 1..max)
    <2>1. f \in [S -> 1..max]
      BY <1>4
    <2>2. \A d, e \in S : f[d] = f[e] => d = e
      BY <1>2, <1>3
    <2> QED BY <2>1, <2>2 DEF Injection, IsInjective
  <1>6. IsFiniteSet(1..max) /\ Cardinality(1..max) = max
    <2>1. 1 \in Int /\ max \in Int
      BY <1>1
    <2> HIDE DEF max
    <2>2. IsFiniteSet(1..max) /\ Cardinality(1..max) = IF 1 > max THEN 0 ELSE max - 1 + 1
      BY <2>1, FS_Interval
    <2> QED BY <1>1, <2>2
  <1>7. Cardinality(S) <= max
    BY <1>5, <1>6, FS_Injection
  <1>8. Cardinality(S) = Cardinality(Granted(t)) + 1 /\ Cardinality(Granted(t)) \in Nat
    BY <1>2, <1>3, FS_AddElement, FS_CardinalityType
  <1> QED BY <1>1, <1>3, <1>7, <1>8

\* Every step is a grant with a use left, the end of lifetimes, or nothing.
LEMMA StepIsPromised ==
    ASSUME IndInv, [Next]_vars
    PROVE  [Promise!Next]_(Promise!vars)
  <1> USE RedisAssumption DEF redis, locals, Goto
  <1>1. ASSUME NEW c \in Call, Allow(c) PROVE [Promise!Next]_(Promise!vars)
    <2>1. now' = now /\ {t \in Guarded : now' >= Life[t]} = {t \in Guarded : now >= Life[t]}
      BY <1>1 DEF Allow
    <2>2. CASE nonce[c] \in Guarded /\ now < Life[nonce[c]]
      <3>0. PICK h \in Guarded : h = nonce[c]
        BY <2>2
      <3>1. h \notin {t \in Guarded : now >= Life[t]}
        BY <2>2, <3>0 DEF IndInv, TypeOK, Guarded
      <3>2. used' = [used EXCEPT ![h] = @ + 1]
        BY <1>1, <2>2, <3>0 DEF Allow
      <3>3. [t \in Guarded |-> used'[t]] =
               [[t \in Guarded |-> used[t]] EXCEPT ![h] = @ + 1]
        BY <3>2, <2>2, <3>0 DEF IndInv, TypeOK, Guarded
      <3>4. Replay[h].max_uses = None \/ used[h] < Replay[h].max_uses
        BY <1>1, <2>2, <3>0, UseIsLeft
      <3>5. Promise!Grant(h)
        BY <2>1, <2>2, <3>0, <3>1, <3>3, <3>4 DEF Promise!Grant
      <3>6. Promise!Next
        BY <3>5 DEF Promise!Next
      <3> QED BY <3>6
    <2>3. CASE ~(nonce[c] \in Guarded /\ now < Life[nonce[c]])
      <3>1. [t \in Guarded |-> used'[t]] = [t \in Guarded |-> used[t]]
        BY <1>1, <2>3 DEF Allow, IndInv, TypeOK, Guarded
      <3>2. (Promise!vars)' = Promise!vars
        BY <2>1, <3>1 DEF Promise!vars
      <3> QED BY <3>2
    <2> QED BY <2>2, <2>3
  <1>2. CASE Tick
    <2>1. used' = used /\ now' >= now /\ now \in Nat /\ now' \in Nat
      BY <1>2 DEF Tick, IndInv, TypeOK
    <2>2. {t \in Guarded : now' >= Life[t]} =
             {t \in Guarded : now >= Life[t]} \cup {t \in Guarded : now' >= Life[t]}
      BY <2>1 DEF Guarded
    <2>3. {t \in Guarded : now' >= Life[t]} \in SUBSET Guarded
      OBVIOUS
    <2>4. Promise!Expire
      BY <2>1, <2>2, <2>3 DEF Promise!Expire
    <2> QED BY <2>4 DEF Promise!Next
  <1>3. ASSUME NEW c \in Call,
               CheckAndRecord(c) \/ Incr(c) \/ Expire(c) \/ Deny(c) \/ BreakOff(c)
        PROVE  [Promise!Next]_(Promise!vars)
    <2>1. used' = used /\ now' = now
      BY <1>3 DEF CheckAndRecord, Incr, Expire, Deny, BreakOff
    <2> QED BY <2>1 DEF Promise!vars
  <1>4. CASE UNCHANGED vars
    BY <1>4 DEF vars, Promise!vars
  <1> QED BY <1>1, <1>2, <1>3, <1>4 DEF Next, Run

\* RedisNonceStore implements BoundedUse: INCR's numbers bound the uses of a token
\* across proxies, although INCR, EXPIRE and the decision are separate steps.
THEOREM RedisPromiseKept == Spec => KeepsPromise
  <1>1. Init => Promise!Init
    BY DEF Init, Promise!Init, Guarded
  <1>2. IndInv /\ [Next]_vars => [Promise!Next]_(Promise!vars)
    BY StepIsPromised
  <1> QED BY <1>1, <1>2, NumbersDiffer, PTL DEF Spec, KeepsPromise, Promise!Spec
=============================================================================
