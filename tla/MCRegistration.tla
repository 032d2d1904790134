----------------------------- MODULE MCRegistration -------------------------------
(* Registration on small instances.                                         *)
EXTENDS Registration, TLC

\* Clients are interchangeable, and so are names.
Symmetry == Permutations(Clients) \cup Permutations(Names)
=================================================================================
