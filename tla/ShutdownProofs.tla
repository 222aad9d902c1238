---------------------------- MODULE ShutdownProofs ----------------------------
(***************************************************************************)
(* The drain of a graceful shutdown misses no connection that was there    *)
(* before it, and at most one that came later, for any number of           *)
(* connections and with or without TLS.                                    *)
(***************************************************************************)
EXTENDS Shutdown, FiniteSetTheorems, TLAPS

TrackedConns == {c \in Conn : conn[c] \in Tracked}
GuardedTunnels == {c \in Conn : tunnel[c] \in Guarded}

\* Connections let in after the shutdown was initiated.
Late == {c \in Conn : conn[c] \notin {"none", "accepted"}} \ before

\* The accept loop holds the one connection that is accepted and not tracked;
\* a connection has no tunnel before it is tracked; only the exit cuts one off.
LoopInv ==
    /\ loop = "tracking" => accepted \in Conn /\ conn[accepted] = "accepted"
    /\ \A c \in Conn :
          /\ conn[c] = "accepted" => loop = "tracking" /\ c = accepted
          /\ conn[c] \in {"none", "accepted"} => tunnel[c] = "none" /\ c \notin before
          /\ Running => conn[c] # "cut" /\ tunnel[c] # "cut"

\* The loop reads the flag once per connection: past a reading it may let one
\* more connection in, and the next reading stops it.
FlagInv ==
    /\ is_shutting_down <=> main \notin {"serving", "delaying"}
    /\ ~is_shutting_down \/ loop \in {"waiting", "tracking"} => Late = {}
    /\ \A c, d \in Late : c = d

\* What the drain found is still so.
DrainInv ==
    main = "drained" => \A c \in before : conn[c] = "over" /\ tunnel[c] \in {"none", "over"}

IndInv == TypeOK /\ CountIsExact /\ LoopInv /\ FlagInv /\ DrainInv

-----------------------------------------------------------------------------
(* Counting                                                                *)

\* The sets the count stands for are finite.
LEMMA CountedFinite ==
    /\ IsFiniteSet(TrackedConns) /\ Cardinality(TrackedConns) \in Nat
    /\ IsFiniteSet(GuardedTunnels) /\ Cardinality(GuardedTunnels) \in Nat
  <1>1. TrackedConns \in SUBSET Conn /\ GuardedTunnels \in SUBSET Conn
    BY DEF TrackedConns, GuardedTunnels
  <1>2. IsFiniteSet(TrackedConns) /\ IsFiniteSet(GuardedTunnels)
    BY <1>1, FS_Subset, ShutdownAssumption
  <1> QED BY <1>2, FS_CardinalityType

\* The count, as the cardinalities of the two sets.
LEMMA CountSets ==
    CountIsExact <=>
        (Running => active_connections = Cardinality(TrackedConns) + Cardinality(GuardedTunnels))
  BY DEF CountIsExact, TrackedConns, GuardedTunnels

\* A set with at most one element has a cardinality of at most 1.
LEMMA AtMostOne ==
    ASSUME NEW S, \A c, d \in S : c = d
    PROVE  Cardinality(S) <= 1
  <1>1. CASE S = {}
    BY <1>1, FS_EmptySet
  <1>2. CASE S # {}
    <2>1. PICK c \in S : TRUE
      BY <1>2
    <2>2. S = {c}
      BY <2>1
    <2>3. Cardinality({c}) = 1
      BY FS_Singleton
    <2>4. Cardinality(S) = 1
      BY <2>2, <2>3
    <2> QED BY <2>4
  <1> QED BY <1>1, <1>2

-----------------------------------------------------------------------------
(* The count stays exact: one case for each action that starts or ends a   *)
(* connection or a tunnel, and none of the others touches what is counted. *)

\* A step that changes one set by one element, and the count by one.
LEMMA CountPreserved ==
    ASSUME TypeOK, CountIsExact, LoopInv, Next
    PROVE  active_connections' \in Nat /\ CountIsExact'
  <1> USE DEF TypeOK, LoopInv, Running, vars, shared, mains, tasks
  <1> DEFINE T == TrackedConns
             G == GuardedTunnels
  <1>0. /\ IsFiniteSet(T) /\ Cardinality(T) \in Nat
        /\ IsFiniteSet(G) /\ Cardinality(G) \in Nat
        /\ active_connections = Cardinality(T) + Cardinality(G)
    BY CountedFinite, CountSets DEF Next
  <1>a. CountIsExact' <=> (Running' => active_connections' =
            Cardinality(TrackedConns') + Cardinality(GuardedTunnels'))
    BY DEF CountIsExact, TrackedConns, GuardedTunnels
  <1>b. ASSUME active_connections' = active_connections, TrackedConns' = T, GuardedTunnels' = G
        PROVE  active_connections' \in Nat /\ CountIsExact'
    BY <1>b, <1>0, <1>a
  <1>1. CASE Track
    <2>1. accepted \in Conn /\ accepted \notin T
      BY <1>1 DEF Track, TrackedConns, Tracked
    <2>2. TrackedConns' = T \cup {accepted} /\ GuardedTunnels' = G
      BY <1>1, <2>1 DEF Track, TrackedConns, GuardedTunnels, Tracked
    <2>3. Cardinality(T \cup {accepted}) = Cardinality(T) + 1
      BY <2>1, <1>0, FS_AddElement
    <2>4. active_connections' = active_connections + 1
      BY <1>1 DEF Track, connection_started
    <2> QED BY <2>2, <2>3, <2>4, <1>0, <1>a
  <1>2. ASSUME NEW c \in Conn, Connect(c)
        PROVE  active_connections' \in Nat /\ CountIsExact'
    <2>1. c \notin G
      BY <1>2 DEF Connect, GuardedTunnels, Guarded
    <2>2. GuardedTunnels' = G \cup {c} /\ TrackedConns' = T
      BY <1>2, <2>1 DEF Connect, TrackedConns, GuardedTunnels, Guarded
    <2>3. Cardinality(G \cup {c}) = Cardinality(G) + 1
      BY <2>1, <1>0, FS_AddElement
    <2>4. active_connections' = active_connections + 1
      BY <1>2 DEF Connect, connection_started
    <2> QED BY <2>2, <2>3, <2>4, <1>0, <1>a
  <1>3. ASSUME NEW c \in Conn, ConnEnds(c)
        PROVE  active_connections' \in Nat /\ CountIsExact'
    <2>1. c \in T
      BY <1>3 DEF ConnEnds, TrackedConns
    <2>2. TrackedConns' = T \ {c} /\ GuardedTunnels' = G
      BY <1>3, <2>1 DEF ConnEnds, TrackedConns, GuardedTunnels, Tracked
    <2>3. Cardinality(T \ {c}) = Cardinality(T) - 1 /\ Cardinality(T \ {c}) \in Nat
      BY <2>1, <1>0, FS_RemoveElement, FS_CardinalityType
    <2>4. active_connections' = active_connections - 1
      BY <1>3 DEF ConnEnds, connection_ended
    <2> QED BY <2>2, <2>3, <2>4, <1>0, <1>a
  <1>4. ASSUME NEW c \in Conn, TunnelEnds(c)
        PROVE  active_connections' \in Nat /\ CountIsExact'
    <2>1. c \in G
      BY <1>4 DEF TunnelEnds, GuardedTunnels, Guarded
    <2>2. GuardedTunnels' = G \ {c} /\ TrackedConns' = T
      BY <1>4, <2>1 DEF TunnelEnds, TrackedConns, GuardedTunnels, Guarded
    <2>3. Cardinality(G \ {c}) = Cardinality(G) - 1 /\ Cardinality(G \ {c}) \in Nat
      BY <2>1, <1>0, FS_RemoveElement, FS_CardinalityType
    <2>4. active_connections' = active_connections - 1
      BY <1>4 DEF TunnelEnds, connection_ended
    <2> QED BY <2>2, <2>3, <2>4, <1>0, <1>a
  <1>5. ASSUME NEW c \in Conn, Accept(c)
        PROVE  active_connections' \in Nat /\ CountIsExact'
    <2>1. TrackedConns' = T /\ GuardedTunnels' = G
      BY <1>5 DEF Accept, TrackedConns, GuardedTunnels, Tracked
    <2> QED BY <2>1, <1>5, <1>b DEF Accept
  <1>6. ASSUME NEW c \in Conn, Handshake(c)
        PROVE  active_connections' \in Nat /\ CountIsExact'
    <2>1. TrackedConns' = T /\ GuardedTunnels' = G
      BY <1>6 DEF Handshake, TrackedConns, GuardedTunnels, Tracked
    <2> QED BY <2>1, <1>6, <1>b DEF Handshake
  <1>7. ASSUME NEW c \in Conn, Upgrade(c)
        PROVE  active_connections' \in Nat /\ CountIsExact'
    <2>1. TrackedConns' = T /\ GuardedTunnels' = G
      BY <1>7 DEF Upgrade, TrackedConns, GuardedTunnels, Tracked, Guarded
    <2> QED BY <2>1, <1>7, <1>b DEF Upgrade
  <1>8. CASE Exit
    BY <1>8, <1>0, <1>a DEF Exit
  <1>9. CASE UNCHANGED <<active_connections, tasks>>
    <2>1. TrackedConns' = T /\ GuardedTunnels' = G
      BY <1>9 DEF TrackedConns, GuardedTunnels
    <2> QED BY <2>1, <1>9, <1>b
  <1>10. CASE CheckFlag \/ AcceptNothing \/ Aborted \/ Signal \/ InitiateShutdown
              \/ SendShutdown \/ TimeoutElapses \/ Drain \/ HealthStops
    BY <1>10, <1>9 DEF CheckFlag, AcceptNothing, Aborted, Signal, InitiateShutdown,
         SendShutdown, TimeoutElapses, Drain, HealthStops
  <1> QED
    BY <1>1, <1>2, <1>3, <1>4, <1>5, <1>6, <1>7, <1>8, <1>10 DEF Next, Loop, Client, Main

-----------------------------------------------------------------------------
(* The other conjuncts                                                     *)

\* The initial states satisfy the invariant.
LEMMA InitInd == Init => IndInv
  <1> SUFFICES ASSUME Init PROVE IndInv
    OBVIOUS
  <1> USE DEF Init
  <1>1. TypeOK /\ LoopInv /\ DrainInv
    BY ShutdownAssumption DEF TypeOK, LoopInv, DrainInv, Running, Tracked, Guarded
  <1>2. Late = {}
    BY DEF Late
  <1>3. FlagInv
    BY <1>2 DEF FlagInv
  <1>4. TrackedConns = {} /\ GuardedTunnels = {}
    BY DEF TrackedConns, GuardedTunnels, Tracked, Guarded
  <1>5. Cardinality({}) = 0
    BY FS_EmptySet
  <1>6. CountIsExact
    BY <1>4, <1>5, CountSets
  <1> QED BY <1>1, <1>3, <1>6 DEF IndInv

\* Types and what the accept loop holds.
LEMMA LoopPreserved ==
    ASSUME IndInv, Next
    PROVE  TypeOK' /\ LoopInv'
  <1> USE ShutdownAssumption
      DEF IndInv, TypeOK, LoopInv, Running, shared, mains, tasks, Tracked, Guarded
  <1>0. active_connections' \in Nat
    BY CountPreserved
  <1>1. ASSUME NEW c \in Conn, Accept(c) PROVE TypeOK' /\ LoopInv'
    BY <1>0, <1>1 DEF Accept
  <1>2. CASE Track
    <2>1. accepted \in Conn /\ accepted # NoConn
      BY <1>2 DEF Track
    <2> QED BY <1>0, <1>2, <2>1 DEF Track
  <1>3. CASE CheckFlag \/ AcceptNothing \/ Aborted
    BY <1>0, <1>3 DEF CheckFlag, AcceptNothing, Aborted
  <1>4. ASSUME NEW c \in Conn, Handshake(c) PROVE TypeOK' /\ LoopInv'
    BY <1>0, <1>4 DEF Handshake
  <1>5. ASSUME NEW c \in Conn, Connect(c) PROVE TypeOK' /\ LoopInv'
    BY <1>0, <1>5 DEF Connect
  <1>6. ASSUME NEW c \in Conn, Upgrade(c) PROVE TypeOK' /\ LoopInv'
    BY <1>0, <1>6 DEF Upgrade
  <1>7. ASSUME NEW c \in Conn, ConnEnds(c) PROVE TypeOK' /\ LoopInv'
    BY <1>0, <1>7 DEF ConnEnds
  <1>8. ASSUME NEW c \in Conn, TunnelEnds(c) PROVE TypeOK' /\ LoopInv'
    BY <1>0, <1>8 DEF TunnelEnds
  <1>9. CASE Signal \/ InitiateShutdown \/ SendShutdown \/ TimeoutElapses \/ Drain \/ HealthStops
    BY <1>0, <1>9 DEF Signal, InitiateShutdown, SendShutdown, TimeoutElapses, Drain, HealthStops
  <1>10. CASE Exit
    BY <1>0, <1>10 DEF Exit
  <1> QED
    BY <1>1, <1>2, <1>3, <1>4, <1>5, <1>6, <1>7, <1>8, <1>9, <1>10 DEF Next, Loop, Client, Main

\* How many connections come late.
LEMMA FlagPreserved ==
    ASSUME IndInv, Next
    PROVE  FlagInv'
  <1> USE DEF IndInv, TypeOK, LoopInv, FlagInv, Running, shared, mains, tasks, Tracked, Guarded
  <1>1. ASSUME NEW c \in Conn, Accept(c) PROVE FlagInv'
    <2>1. Late' = Late
      BY <1>1 DEF Accept, Late
    <2> QED BY <1>1, <2>1 DEF Accept
  <1>2. CASE Track
    <2>1. Late = {}
      BY <1>2 DEF Track
    <2>2. Late' \subseteq {accepted} /\ (~is_shutting_down => Late' = {})
      BY <1>2, <2>1 DEF Track, Late
    <2> QED BY <1>2, <2>2 DEF Track
  <1>3. CASE CheckFlag \/ AcceptNothing \/ Aborted \/ SendShutdown \/ TimeoutElapses \/ Drain
             \/ HealthStops \/ Signal \/ InitiateShutdown
    <2>1. Late' = Late
      BY <1>3 DEF CheckFlag, AcceptNothing, Aborted, SendShutdown, TimeoutElapses, Drain,
           HealthStops, Signal, InitiateShutdown, Late
    <2> QED
      BY <1>3, <2>1 DEF CheckFlag, AcceptNothing, Aborted, SendShutdown, TimeoutElapses, Drain,
           HealthStops, Signal, InitiateShutdown
  <1>4. ASSUME NEW c \in Conn, Handshake(c) \/ Connect(c) \/ Upgrade(c) \/ ConnEnds(c) \/ TunnelEnds(c)
        PROVE  FlagInv'
    <2>1. Late' = Late
      BY <1>4 DEF Handshake, Connect, Upgrade, ConnEnds, TunnelEnds, Late
    <2> QED BY <1>4, <2>1 DEF Handshake, Connect, Upgrade, ConnEnds, TunnelEnds
  <1>5. CASE Exit
    <2>1. CASE loop = "tracking"
      <3>1. Late' \subseteq {accepted}
        BY <1>5, <2>1 DEF Exit, Late
      <3> QED BY <1>5, <3>1 DEF Exit
    <2>2. CASE loop # "tracking"
      <3>1. Late' = Late
        BY <1>5, <2>2 DEF Exit, Late
      <3> QED BY <1>5, <3>1 DEF Exit
    <2> QED BY <2>1, <2>2
  <1> QED BY <1>1, <1>2, <1>3, <1>4, <1>5 DEF Next, Loop, Client, Main

\* What the drain says stays true.
LEMMA DrainPreserved ==
    ASSUME IndInv, Next
    PROVE  DrainInv'
  <1> USE DEF IndInv, TypeOK, LoopInv, FlagInv, DrainInv, Running, shared, mains, tasks, Tracked, Guarded
  <1>1. CASE Drain
    <2>1. CASE active_connections = 0
      <3>1. TrackedConns = {} /\ GuardedTunnels = {}
        <4>1. Cardinality(TrackedConns) = 0 /\ Cardinality(GuardedTunnels) = 0
          BY <2>1, CountSets, CountedFinite DEF Next
        <4> QED BY <4>1, CountedFinite, FS_EmptySet
      <3>2. \A c \in Conn : conn[c] \notin Tracked /\ tunnel[c] \notin Guarded
        BY <3>1 DEF TrackedConns, GuardedTunnels
      <3>3. \A c \in before : conn[c] = "over" /\ tunnel[c] \in {"none", "over"}
        BY <3>2, <1>1 DEF Drain
      <3> QED BY <3>3, <1>1 DEF Drain
    <2>2. CASE active_connections # 0
      BY <1>1, <2>2 DEF Drain
    <2> QED BY <2>1, <2>2
  <1>2. CASE Track
    BY <1>2 DEF Track
  <1>3. CASE CheckFlag \/ AcceptNothing \/ Aborted \/ SendShutdown \/ TimeoutElapses
             \/ HealthStops \/ Signal \/ InitiateShutdown \/ Exit
    BY <1>3 DEF CheckFlag, AcceptNothing, Aborted, SendShutdown, TimeoutElapses,
         HealthStops, Signal, InitiateShutdown, Exit
  <1>4. ASSUME NEW c \in Conn, Accept(c) \/ Handshake(c) \/ Connect(c) \/ Upgrade(c) \/ ConnEnds(c) \/ TunnelEnds(c)
        PROVE  DrainInv'
    BY <1>4 DEF Accept, Handshake, Connect, Upgrade, ConnEnds, TunnelEnds
  <1> QED BY <1>1, <1>2, <1>3, <1>4 DEF Next, Loop, Client, Main

\* A step that changes nothing preserves it.
LEMMA StutterInd == IndInv /\ UNCHANGED vars => IndInv'
  BY DEF vars, shared, mains, tasks, IndInv, TypeOK, CountIsExact, LoopInv, FlagInv, DrainInv,
     Late, Running

-----------------------------------------------------------------------------
(* Theorems                                                                *)

\* The invariant is inductive.
THEOREM ShutdownInvariant == Spec => []IndInv
  <1>1. IndInv /\ [Next]_vars => IndInv'
    <2>1. IndInv /\ Next => IndInv'
      BY CountPreserved, LoopPreserved, FlagPreserved, DrainPreserved DEF IndInv
    <2> QED BY <2>1, StutterInd
  <1> QED BY InitInd, <1>1, PTL DEF Spec

\* Types: the count of a server that runs never goes below zero.
THEOREM ShutdownTypeCorrect == Spec => []TypeOK
  BY ShutdownInvariant, PTL DEF IndInv

\* connection_started and connection_ended balance: the count is the connections
\* and tunnels there are, at every step of every handover.
THEOREM CountExact == Spec => []CountIsExact
  BY ShutdownInvariant, PTL DEF IndInv

\* The drain says "all connections drained" only when every connection of the
\* time before the shutdown, and its tunnel, is over, and the accept loop lets
\* at most one more in.
THEOREM DrainIsComplete == Spec => []DrainWaits
  <1>1. IndInv => DrainWaits
    <2> SUFFICES ASSUME IndInv PROVE DrainWaits
      OBVIOUS
    <2>1. Cardinality(Late) <= 1
      BY AtMostOne DEF IndInv, FlagInv
    <2> QED BY <2>1 DEF IndInv, DrainInv, DrainWaits, Late
  <1> QED BY <1>1, ShutdownInvariant, PTL

=============================================================================
