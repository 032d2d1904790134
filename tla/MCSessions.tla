------------------------------- MODULE MCSessions ---------------------------------
(* Sessions on small instances: accounts, devices and bounds.               *)
EXTENDS Sessions, TLC

CONSTANTS ann, bob, phone, tablet, laptop

\* The laptop is Bob's, the others are Ann's.
UsersOfDevices == [d \in Devices |-> IF d = laptop THEN bob ELSE ann]

\* Connections are interchangeable.
Symmetry == Permutations(Conns)

\* Six requests and disturbances.
SmallBound ==
  [k \in Kinds |-> CASE k \in {"logins", "refreshes"} -> 3 [] k = "steps" -> 6 [] OTHER -> 1]
=================================================================================
