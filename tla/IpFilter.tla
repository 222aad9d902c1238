----------------------------- MODULE IpFilter -----------------------------
(***************************************************************************)
(* The address filter, as operators on addresses.  An address is how it is *)
(* written (IPv4, IPv6, IPv4 mapped into IPv6, IPv4 behind the NAT64       *)
(* prefix) and what the address it leads to is.                            *)
(***************************************************************************)
EXTENDS FiniteSets

Form == {"v4", "v6", "mapped", "nat64"}
Class == {"public", "private", "loopback", "link_local", "reserved"}
Address == [form: Form, class: Class]

\* IpFilter.  The two sets are the addresses in the configured CIDRs.
Filter ==
    [block_private: BOOLEAN, block_loopback: BOOLEAN, block_link_local: BOOLEAN,
     blocked_cidrs: SUBSET Address, allowed_cidrs: SUBSET Address]

\* to_ipv4_mapped and extract_nat64_ipv4.
Embedded(ip) == IF ip.form \in {"mapped", "nat64"} THEN [ip EXCEPT !.form = "v4"] ELSE ip

\* check_ip returns None: the rules in their order, the allowed CIDRs first.
IsAllowed(f, ip) ==
    LET e == Embedded(ip) IN
    \/ e \in f.allowed_cidrs
    \/ /\ ~(f.block_loopback /\ e.class = "loopback")
       /\ ~(f.block_private /\ e.class = "private")
       /\ ~(f.block_link_local /\ e.class = "link_local")
       /\ e \notin f.blocked_cidrs
       /\ e.class # "reserved"
=============================================================================
