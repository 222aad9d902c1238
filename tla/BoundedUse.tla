----------------------------- MODULE BoundedUse -----------------------------
(***************************************************************************)
(* What replay protection promises the owner of a token, with no word on   *)
(* how: while the token lives it is granted at most its number of uses.    *)
(* A restart of the proxy forgets the uses (the store is process memory).  *)
(***************************************************************************)
EXTENDS Integers

CONSTANTS
    Token,    \* the tokens under protection
    Limit,    \* the uses each token is good for, or None
    None      \* no limit: uses are only counted

VARIABLES
    used,    \* uses granted to each token while it lived, since the last restart
    expired  \* the tokens past their lifetime

vars == <<used, expired>>

Init == used = [t \in Token |-> 0] /\ expired \in SUBSET Token

\* A live token with a use left is granted one.
Grant(t) ==
    /\ t \notin expired
    /\ Limit[t] = None \/ used[t] < Limit[t]
    /\ used' = [used EXCEPT ![t] = @ + 1]
    /\ UNCHANGED expired

\* Tokens reach the end of their lifetime, and stay there.
Expire ==
    /\ \E dead \in SUBSET Token : expired' = expired \cup dead
    /\ UNCHANGED used

\* The proxy restarts with an empty store.
Forget == used' = [t \in Token |-> 0] /\ UNCHANGED expired

Next == Expire \/ Forget \/ \E t \in Token : Grant(t)

Spec == Init /\ [][Next]_vars
=============================================================================
