---------------------------- MODULE HostPolicy ----------------------------
(***************************************************************************)
(* Where a request may go: a token's allowlists and the static policy of   *)
(* token-optional mode, as operators on authorities.  An authority is what *)
(* split_host_port makes of it, a host and a port that may be missing.  A  *)
(* pattern is the set of names it matches; one that does not compile       *)
(* matches none.                                                           *)
(***************************************************************************)
EXTENDS Integers

NoPort == -1
Authority(hosts, ports) == [host: hosts, port: ports \cup {NoPort}]

\* A bare entry matches any port, an entry with a port only that one.
Matches(entries, a) == \E e \in entries : e.host = a.host /\ e.port \in {NoPort, a.port}

-----------------------------------------------------------------------------
(* The token's constraints.  host_pattern and path_pattern hold one        *)
(* pattern or none.                                                        *)

ValidateHost(payload, a) ==
    Matches(payload.allowed_hosts, a) \/ a.host \in UNION payload.host_pattern

ValidateMethod(payload, method) ==
    payload.allowed_methods = {} \/ method \in payload.allowed_methods

ValidatePath(payload, path) ==
    \/ payload.allowed_paths = {} /\ payload.path_pattern = {}
    \/ path \in payload.allowed_paths \cup UNION payload.path_pattern

-----------------------------------------------------------------------------
(* HostValidationConfig                                                    *)

HostPolicyType(hosts, ports) ==
    [allowed_hosts: SUBSET Authority(hosts, ports), allowed_patterns: SUBSET SUBSET hosts,
     blocked_hosts: SUBSET Authority(hosts, ports), blocked_patterns: SUBSET SUBSET hosts]

\* build_token_optional_policy and the no-bump policy: the command line has lists,
\* not patterns.
NewPolicy(allow, deny) ==
    [allowed_hosts |-> allow, allowed_patterns |-> {},
     blocked_hosts |-> deny, blocked_patterns |-> {}]

\* validate: the blocklist first, and without an allowlist everything else is allowed.
Validate(policy, a) ==
    /\ ~Matches(policy.blocked_hosts, a) /\ a.host \notin UNION policy.blocked_patterns
    /\ \/ Matches(policy.allowed_hosts, a)
       \/ a.host \in UNION policy.allowed_patterns
       \/ policy.allowed_hosts = {} /\ policy.allowed_patterns = {}

-----------------------------------------------------------------------------
(* Ports                                                                   *)

DefaultPort(scheme) == IF scheme = "http" THEN 80 ELSE 443

\* canonical_authority: an inner request is sent to a bare host if the port is the
\* scheme's own.
CanonicalAuthority(a, scheme) ==
    IF a.port = DefaultPort(scheme) THEN [a EXCEPT !.port = NoPort] ELSE a

\* ValidatingConnector dials the port of the URI, or the scheme's.
WithPort(a, default) == IF a.port = NoPort THEN [a EXCEPT !.port = default] ELSE a
=============================================================================
