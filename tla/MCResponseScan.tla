--------------------------- MODULE MCResponseScan ---------------------------
(* Instances of ResponseScan for TLC.                                      *)
EXTENDS ResponseScan

\* A secret of three bytes and one of two, so that a secret spans up to three
\* frames and both fit in the overlap of three.
Secrets == {<<"a", "b", "a">>, <<"a", "a">>}

\* Blocks of up to two values of up to two bytes.
Blocks == BoundedSeq(BoundedSeq({"a", "b"}, 2), 2)
=============================================================================
