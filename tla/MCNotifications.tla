---------------------------- MODULE MCNotifications ------------------------------
(* Notifications on a small instance: accounts, posts and bounds.           *)
EXTENDS Notifications, TLC

CONSTANTS ann, bob

\* Post 1 is Ann's, post 2 is Bob's and not there yet.
Authors == <<ann, bob>>

\* Workers are interchangeable.
WorkerSymmetry == Permutations(Workers)

\* Two acts, and some of everything else, a few at a time.
SmallBound ==
  [k \in Kinds |-> CASE k = "acts" -> 2 [] k = "devices" -> 2 [] k = "steps" -> 4
                     [] OTHER -> 1]
=================================================================================
