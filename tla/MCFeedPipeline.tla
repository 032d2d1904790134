------------------------------ MODULE MCFeedPipeline ------------------------------
(* FeedPipeline on small instances: accounts, initial follows and bounds.   *)
EXTENDS FeedPipeline

CONSTANTS ann, bob

\* Ann follows Bob before the first post.
AnnFollowsBob == {<<ann, bob>>}

\* Workers are interchangeable.
WorkerSymmetry == Permutations(Workers)

\* Up to three posts and one of everything else, four steps in all.
StormBound == [k \in Kinds |-> CASE k = "posts" -> 3 [] k = "steps" -> 4 [] OTHER -> 1]

\* Two posts around an expiry, one read.
ColdBound ==
  [k \in Kinds |-> CASE k = "posts" -> 2 [] k \in {"expiries", "reads"} -> 1
                      [] k = "steps" -> 4 [] OTHER -> 0]
=================================================================================
