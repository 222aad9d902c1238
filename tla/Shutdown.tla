------------------------------ MODULE Shutdown ------------------------------
(***************************************************************************)
(* Graceful shutdown of the proxy server: the accept loop, the connections *)
(* it spawns, the CONNECT tunnels that outlive them, the health server and *)
(* the main task that drains them, over the shared ShutdownState.  They    *)
(* run on a multi-threaded runtime: every access to the shared atomics is  *)
(* a step.                                                                 *)
(***************************************************************************)
EXTENDS Integers, FiniteSets

CONSTANTS
    Conn,     \* the connections clients may open (bound)
    NoConn,   \* the accept loop holds none
    Tls       \* the server has a TLS acceptor

ASSUME ShutdownAssumption ==
    /\ IsFiniteSet(Conn) /\ NoConn \notin Conn
    /\ Tls \in BOOLEAN

VARIABLES
    is_shutting_down,    \* ShutdownState
    active_connections,  \* ShutdownState, an AtomicU64
    main,      \* "serving", "delaying", "initiated", "draining", "drained", "forced", "exited"
    elapsed,   \* the drain timeout is over
    signalled, \* the watch channel holds true
    health,    \* "up" or "down"
    loop,      \* the accept loop: "check", "waiting", "tracking", "stopped"
    accepted,  \* the connection the loop has accepted and not tracked yet
    conn,      \* Conn -> where the connection's task is
    tunnel,    \* Conn -> where the task of its CONNECT tunnel is
    before     \* history: connections tracked before shutdown was initiated

shared == <<is_shutting_down, active_connections>>
mains == <<main, elapsed, signalled>>
tasks == <<conn, tunnel>>
vars == <<shared, mains, health, loop, accepted, tasks, before>>

\* A connection's task, from connection_started to connection_ended.
Tracked == {"handshake", "serving", "upgraded"}
\* A tunnel's task, for the lifetime of its ConnectionGuard.
Guarded == {"upgrading", "open"}

Init ==
    /\ is_shutting_down = FALSE /\ active_connections = 0
    /\ main = "serving" /\ elapsed = FALSE /\ signalled = FALSE
    /\ health \in {"up", "down"}  \* down from the start where it is disabled
    /\ loop = "check" /\ accepted = NoConn
    /\ conn = [c \in Conn |-> "none"] /\ tunnel = [c \in Conn |-> "none"]
    /\ before = {}

Running == main # "exited"

connection_started == active_connections' = active_connections + 1
connection_ended == active_connections' = active_connections - 1

-----------------------------------------------------------------------------
(* The accept loop                                                         *)

\* "if accept_state.is_shutting_down() { break; }"
CheckFlag ==
    /\ loop = "check"
    /\ loop' = IF is_shutting_down THEN "stopped" ELSE "waiting"
    /\ UNCHANGED <<shared, mains, health, accepted, tasks, before>>

\* The select: a connection, an accept error or 100 ms without either.
Accept(c) ==
    /\ loop = "waiting" /\ conn[c] = "none"
    /\ loop' = "tracking" /\ accepted' = c
    /\ conn' = [conn EXCEPT ![c] = "accepted"]
    /\ UNCHANGED <<shared, mains, health, tunnel, before>>

AcceptNothing ==
    /\ loop = "waiting" /\ loop' = "check"
    /\ UNCHANGED <<shared, mains, health, accepted, tasks, before>>

\* The connection is counted and its task spawned.
Track ==
    /\ loop = "tracking"
    /\ connection_started
    /\ conn' = [conn EXCEPT ![accepted] = IF Tls THEN "handshake" ELSE "serving"]
    /\ before' = IF is_shutting_down THEN before ELSE before \cup {accepted}
    /\ loop' = "check" /\ accepted' = NoConn
    /\ UNCHANGED <<is_shutting_down, mains, health, tunnel>>

\* accept_handle.abort() takes effect where the loop awaits.
Aborted ==
    /\ main \in {"drained", "forced"} /\ loop = "waiting"
    /\ loop' = "stopped"
    /\ UNCHANGED <<shared, mains, health, accepted, tasks, before>>

-----------------------------------------------------------------------------
(* Connections and tunnels                                                 *)

Handshake(c) ==
    /\ conn[c] = "handshake"
    /\ conn' = [conn EXCEPT ![c] = "serving"]
    /\ UNCHANGED <<shared, mains, health, loop, accepted, tunnel, before>>

\* Mutant: the tunnel makes its guard itself, once it has the stream.
ConnectUnguarded(c) ==
    /\ conn[c] = "serving" /\ tunnel[c] = "none"
    /\ tunnel' = [tunnel EXCEPT ![c] = "upgrading"]
    /\ UNCHANGED <<shared, mains, health, loop, accepted, conn, before>>

\* handle_connect accepts: the guard is made before the tunnel's task is spawned
\* and before the client is answered.
Connect(c) ==
    /\ conn[c] = "serving" /\ tunnel[c] = "none"
    /\ tunnel' = [tunnel EXCEPT ![c] = "upgrading"]
    /\ connection_started
    /\ UNCHANGED <<is_shutting_down, mains, health, loop, accepted, conn, before>>

\* hyper hands the stream over and is done with the connection.
Upgrade(c) ==
    /\ conn[c] = "serving" /\ tunnel[c] = "upgrading"
    /\ conn' = [conn EXCEPT ![c] = "upgraded"]
    /\ tunnel' = [tunnel EXCEPT ![c] = "open"]
    /\ UNCHANGED <<shared, mains, health, loop, accepted, before>>

\* Mutant: a failed TLS handshake returns early, past connection_ended.
ConnEndsEarlyReturn(c) ==
    /\ conn[c] \in Tracked
    /\ conn' = [conn EXCEPT ![c] = "over"]
    /\ IF conn[c] = "handshake" THEN UNCHANGED active_connections ELSE connection_ended
    /\ UNCHANGED <<is_shutting_down, mains, health, loop, accepted, tunnel, before>>

\* The handshake fails, the client leaves, or the stream was handed over.
ConnEnds(c) ==
    /\ conn[c] \in Tracked
    /\ conn' = [conn EXCEPT ![c] = "over"]
    /\ connection_ended
    /\ UNCHANGED <<is_shutting_down, mains, health, loop, accepted, tunnel, before>>

\* The tunnel closes, or its upgrade fails with the connection; the guard drops.
TunnelEnds(c) ==
    /\ \/ tunnel[c] = "open"
       \/ tunnel[c] = "upgrading" /\ conn[c] = "over"
    /\ tunnel' = [tunnel EXCEPT ![c] = "over"]
    /\ connection_ended
    /\ UNCHANGED <<is_shutting_down, mains, health, loop, accepted, conn, before>>

-----------------------------------------------------------------------------
(* The main task and the health server                                     *)

Signal ==
    /\ main = "serving" /\ main' = "delaying"
    /\ UNCHANGED <<shared, elapsed, signalled, health, loop, accepted, tasks, before>>

InitiateShutdown ==
    /\ main = "delaying" /\ main' = "initiated"
    /\ is_shutting_down' = TRUE
    /\ UNCHANGED <<active_connections, elapsed, signalled, health, loop, accepted, tasks, before>>

SendShutdown ==
    /\ main = "initiated" /\ main' = "draining"
    /\ signalled' = TRUE
    /\ UNCHANGED <<shared, elapsed, health, loop, accepted, tasks, before>>

\* The drain timeout runs out.
TimeoutElapses ==
    /\ main = "draining" /\ ~elapsed
    /\ elapsed' = TRUE
    /\ UNCHANGED <<shared, main, signalled, health, loop, accepted, tasks, before>>

\* Mutant: the drain waits as long as it takes.
DrainForever ==
    /\ main = "draining" /\ active_connections = 0 /\ main' = "drained"
    /\ UNCHANGED <<shared, elapsed, signalled, health, loop, accepted, tasks, before>>

\* One look at the count; the loop sleeps and looks again while it is not zero.
Drain ==
    /\ main = "draining"
    /\ \/ active_connections = 0 /\ main' = "drained"
       \/ active_connections # 0 /\ elapsed /\ main' = "forced"
    /\ UNCHANGED <<shared, elapsed, signalled, health, loop, accepted, tasks, before>>

HealthStops ==
    /\ health = "up" /\ signalled
    /\ health' = "down"
    /\ UNCHANGED <<shared, mains, loop, accepted, tasks, before>>

\* The runtime is dropped: every task that is left is cut off.
Exit ==
    /\ main \in {"drained", "forced"} /\ health = "down"
    /\ main' = "exited"
    /\ loop' = "stopped"
    /\ conn' = [c \in Conn |-> IF conn[c] \in Tracked \cup {"accepted"} THEN "cut" ELSE conn[c]]
    /\ tunnel' = [c \in Conn |-> IF tunnel[c] \in Guarded THEN "cut" ELSE tunnel[c]]
    /\ UNCHANGED <<shared, elapsed, signalled, health, accepted, before>>

Loop == CheckFlag \/ AcceptNothing \/ Track \/ Aborted \/ \E c \in Conn : Accept(c)
Client == \E c \in Conn :
    Handshake(c) \/ Connect(c) \/ Upgrade(c) \/ ConnEnds(c) \/ TunnelEnds(c)
Main == InitiateShutdown \/ SendShutdown \/ Drain \/ Exit

Next == Running /\ (Loop \/ Client \/ Main \/ Signal \/ TimeoutElapses \/ HealthStops)

Spec == Init /\ [][Next]_vars

\* The runtime runs every task that is ready and fires every timer, the loop's
\* 100 ms included; clients owe nothing: a keep-alive connection may stay open.
Fairness ==
    /\ WF_vars(Main) /\ WF_vars(Running /\ TimeoutElapses) /\ WF_vars(Running /\ HealthStops)
    /\ WF_vars(Running /\ Loop)

FairSpec == Spec /\ Fairness

-----------------------------------------------------------------------------
(* Properties                                                              *)

TypeOK ==
    /\ is_shutting_down \in BOOLEAN /\ active_connections \in Nat
    /\ main \in {"serving", "delaying", "initiated", "draining", "drained", "forced", "exited"}
    /\ elapsed \in BOOLEAN /\ signalled \in BOOLEAN /\ health \in {"up", "down"}
    /\ loop \in {"check", "waiting", "tracking", "stopped"}
    /\ accepted \in Conn \cup {NoConn}
    /\ conn \in [Conn -> {"none", "accepted", "over", "cut"} \cup Tracked]
    /\ tunnel \in [Conn -> {"none", "over", "cut"} \cup Guarded]
    /\ before \subseteq Conn

\* The count is the connections and tunnels there are, so a tunnel is counted
\* without a gap while its stream is handed over, and nothing is counted twice.
CountIsExact ==
    Running => active_connections =
        Cardinality({c \in Conn : conn[c] \in Tracked})
            + Cardinality({c \in Conn : tunnel[c] \in Guarded})

\* "all connections drained": every connection of the time before the shutdown is
\* over when the drain says so, and its tunnel too; and the accept loop lets in at
\* most one that the drain may have missed.
DrainWaits ==
    /\ main = "drained" => \A c \in before : conn[c] = "over" /\ tunnel[c] \in {"none", "over"}
    /\ is_shutting_down =>
          Cardinality({c \in Conn : conn[c] \notin {"none", "accepted"}} \ before) <= 1

\* A signal ends the process, whatever the clients do.
ShutdownCompletes == main = "delaying" ~> main = "exited"
=============================================================================
