------------------------------ MODULE MCEngagement -------------------------------
(* Engagement on small instances; the bounds are given in the cfg files. *)
EXTENDS Engagement, TLC

\* Connections and accounts are interchangeable.
Symmetry == Permutations(Clients) \cup Permutations(Users)
=================================================================================
