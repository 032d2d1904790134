------------------------------ MODULE MCPagination --------------------------------
(* Pagination on small instances.                                           *)
EXTENDS Pagination

\* Only the lists of users that follow, undisturbed.
FollowInit == Init /\ list \in FollowLists
FollowSpec == FollowInit /\ [][Next]_vars
=================================================================================
