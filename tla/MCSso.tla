------------------------------- MODULE MCSso -------------------------------
(* An instance of Sso for TLC.                                             *)
EXTENDS Sso, TLC

\* Browsers, nonces and requests are names.
Names == UNION {Permutations(S) : S \in {Browser, Flow, Callback, Refresh}}
=============================================================================
