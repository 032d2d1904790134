----------------------------- MODULE MCUserCounters ------------------------------
(* UserCounters on a small instance; the bounds are given in the cfg file.  *)
EXTENDS UserCounters

CONSTANTS ann, bob, cid

\* Ann and Bob follow each other.
AnnAndBob == {<<ann, bob>>, <<bob, ann>>}
=================================================================================
