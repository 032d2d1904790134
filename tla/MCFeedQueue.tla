------------------------------- MODULE MCFeedQueue -------------------------------
(* FeedQueue on small instances; the bounds are given in the cfg files. *)
EXTENDS FeedQueue
=================================================================================
