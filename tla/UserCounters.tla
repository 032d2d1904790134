------------------------------ MODULE UserCounters -------------------------------
(***************************************************************************)
(* The counters of the users table (follower_count, following_count,       *)
(* post_count) and the rows they count: follows and undeleted posts.       *)
(* Follow, Unfollow, and the creation and deletion of a post each change   *)
(* one row and the counters of one or two users in a transaction           *)
(* (service/follow.go, repository/follow.go, repository/user.go,           *)
(* repository/post.go).                                                    *)
(*                                                                         *)
(* Postgres at READ COMMITTED, one step per statement. The tables here     *)
(* hold what is committed. A transaction has locked the row it wrote and   *)
(* the users it updated until it ends, and a statement that needs a locked *)
(* row waits. When transactions wait for each other in a circle, Postgres  *)
(* aborts one of them.                                                     *)
(***************************************************************************)
EXTENDS Integers, Sequences, FiniteSets

CONSTANTS
  Clients,      \* requests in progress at a time
  Users,        \* the accounts
  InitFollows,  \* follows that exist at the start
  Requests,     \* the kinds of request made
  MaxRequests   \* bound: requests ever begun

ASSUME RequestsAssumption == Requests \subseteq {"follow", "unfollow", "create", "delete"}
ASSUME InitFollowsAssumption == InitFollows \subseteq {p \in Users \X Users : p[1] # p[2]}
ASSUME UsersAssumption == IsFiniteSet(Users)
ASSUME MaxRequestsAssumption == MaxRequests \in Nat

VARIABLES
  follows,   \* the follows table: <<follower, followee>>
  posts,     \* the posts table: author and deleted_at by id
  count,     \* the counters of each user
  tx,        \* the request of each client
  begun      \* requests begun so far

tables == <<follows, posts, count>>
vars == <<follows, posts, count, tx, begun>>

Counters == {"followers", "following", "posts"}

\* user acts on whom (a followee) or on post. at: the statement it is at.
\* todo: UPDATEs of users still to do, and held: the users it has updated.
NoTx == [op |-> "none", at |-> "begin", user |-> "none", whom |-> "none", post |-> 0,
         todo |-> <<>>, held |-> {}]

Followers(u) == {v \in Users : <<v, u>> \in follows}
Following(u) == {v \in Users : <<u, v>> \in follows}
LivePosts(u) == {p \in DOMAIN posts : posts[p].author = u /\ posts[p].live}

\* The counters as the tables have them.
Counted(u) == [k \in Counters |-> CASE k = "followers" -> Cardinality(Followers(u))
                                    [] k = "following" -> Cardinality(Following(u))
                                    [] k = "posts" -> Cardinality(LivePosts(u))]

Init ==
  /\ follows = InitFollows /\ posts = <<>>
  /\ count = [u \in Users |-> Counted(u)]
  /\ tx = [c \in Clients |-> NoTx]
  /\ begun = 0

---------------------------------------------------------------------------------
(* Locks *)

Others(c) == Clients \ {c}

\* The transaction has written its own row and not ended.
Wrote(d) == tx[d].at \in {"update", "commit"}

\* An uncommitted insert or delete of the same follow.
FollowLocked(c) ==
  \E d \in Others(c) : /\ Wrote(d) /\ tx[d].op \in {"follow", "unfollow"}
                       /\ tx[d].user = tx[c].user /\ tx[d].whom = tx[c].whom

PostLocked(c) ==
  \E d \in Others(c) : Wrote(d) /\ tx[d].op = "delete" /\ tx[d].post = tx[c].post

\* c's next UPDATE of users waits for d.
WaitsFor(c, d) == tx[c].at = "update" /\ c # d /\ Head(tx[c].todo)[1] \in tx[d].held

Waits(c) == \E d \in Clients : WaitsFor(c, d)

\* c and others wait for each other in a circle. A row has one holder, so who
\* waits, waits for one other: a set in which everyone waits for a member and
\* is waited for by one is made of circles.
InCircle(c) ==
  \E S \in SUBSET Clients :
    /\ c \in S
    /\ \A d \in S : (\E e \in S : WaitsFor(d, e)) /\ (\E e \in S : WaitsFor(e, d))

---------------------------------------------------------------------------------
(* Requests and their statements *)

Go(c, r) == tx' = [tx EXCEPT ![c] = r]

Update(u, k, delta) == <<u, k, delta>>

\* Mutant: an unfollow updates its own user first.
UpdatesOwnFirst(t) ==
  CASE t.op = "follow" ->
         <<Update(t.whom, "followers", 1), Update(t.user, "following", 1)>>
    [] t.op = "unfollow" ->
         <<Update(t.user, "following", -1), Update(t.whom, "followers", -1)>>
    [] t.op = "create" -> <<Update(t.user, "posts", 1)>>
    [] t.op = "delete" -> <<Update(t.user, "posts", -1)>>

\* The UPDATEs of users a request makes, in their order.
Updates(t) ==
  CASE t.op = "follow" ->
         <<Update(t.whom, "followers", 1), Update(t.user, "following", 1)>>
    [] t.op = "unfollow" ->
         <<Update(t.whom, "followers", -1), Update(t.user, "following", -1)>>
    [] t.op = "create" -> <<Update(t.user, "posts", 1)>>
    [] t.op = "delete" -> <<Update(t.user, "posts", -1)>>

\* The row is written: on to the counters.
Written(t) == [t EXCEPT !.at = "update", !.todo = Updates(t)]

\* A request arrives. Follow refuses oneself before any query; an unfollow of
\* oneself finds no row.
Begin(c) ==
  /\ tx[c] = NoTx /\ begun < MaxRequests
  /\ begun' = begun + 1
  /\ \/ \E op \in Requests \cap {"follow", "unfollow"}, u \in Users : \E a \in Users \ {u} :
          Go(c, [NoTx EXCEPT !.op = op, !.at = "row", !.user = u, !.whom = a])
     \/ \E u \in Users :
          "create" \in Requests /\ Go(c, [NoTx EXCEPT !.op = "create", !.at = "row", !.user = u])
     \/ \E u \in Users, p \in DOMAIN posts :
          "delete" \in Requests
          /\ Go(c, [NoTx EXCEPT !.op = "delete", !.at = "row", !.user = u, !.post = p])
  /\ UNCHANGED tables

\* Mutant: the early return for ErrAlreadyFollowing does not roll back.
InsertFollowLeaks(c) ==
  /\ tx[c].op = "follow" /\ tx[c].at = "row" /\ ~FollowLocked(c)
  /\ Go(c, IF <<tx[c].user, tx[c].whom>> \in follows THEN [tx[c] EXCEPT !.at = "leaked"]
           ELSE Written(tx[c]))
  /\ UNCHANGED <<tables, begun>>

\* followRepository.Create: INSERT ... ON CONFLICT DO NOTHING waits for an
\* uncommitted row; no row inserted is ErrAlreadyFollowing.
InsertFollow(c) ==
  /\ tx[c].op = "follow" /\ tx[c].at = "row" /\ ~FollowLocked(c)
  /\ Go(c, IF <<tx[c].user, tx[c].whom>> \in follows THEN NoTx ELSE Written(tx[c]))
  /\ UNCHANGED <<tables, begun>>

\* followRepository.Delete: waits only for a row it sees; none is
\* ErrNotFollowing.
DeleteFollow(c) ==
  LET row == <<tx[c].user, tx[c].whom>> IN
  /\ tx[c].op = "unfollow" /\ tx[c].at = "row"
  /\ row \in follows => ~FollowLocked(c)
  /\ Go(c, IF row \in follows THEN Written(tx[c]) ELSE NoTx)
  /\ UNCHANGED <<tables, begun>>

\* postRepository.Create: INSERT INTO posts and post_details wait for nobody.
InsertPost(c) ==
  /\ tx[c].op = "create" /\ tx[c].at = "row"
  /\ Go(c, Written(tx[c]))
  /\ UNCHANGED <<tables, begun>>

\* Mutant: deleted_at is not looked at.
SoftDeletePostAgain(c) ==
  /\ tx[c].op = "delete" /\ tx[c].at = "row" /\ ~PostLocked(c)
  /\ Go(c, IF posts[tx[c].post].author = tx[c].user THEN Written(tx[c]) ELSE NoTx)
  /\ UNCHANGED <<tables, begun>>

\* postRepository.Delete: UPDATE posts of an undeleted post of the user's
\* (ErrNotPostOwner, ErrPostNotFound).
SoftDeletePost(c) ==
  /\ tx[c].op = "delete" /\ tx[c].at = "row" /\ ~PostLocked(c)
  /\ Go(c, IF posts[tx[c].post] = [author |-> tx[c].user, live |-> TRUE]
           THEN Written(tx[c]) ELSE NoTx)
  /\ UNCHANGED <<tables, begun>>

\* Mutant: COMMIT after the first of the counters.
UpdateUserOnce(c) ==
  LET t == tx[c] IN
  /\ t.at = "update" /\ ~Waits(c)
  /\ Go(c, [t EXCEPT !.todo = Tail(@), !.held = @ \cup {Head(t.todo)[1]}, !.at = "commit"])
  /\ UNCHANGED <<tables, begun>>

\* UPDATE users: IncrementFollowerCount, IncrementFollowingCount, post_count.
UpdateUser(c) ==
  LET t == tx[c] IN
  /\ t.at = "update" /\ ~Waits(c)
  /\ Go(c, [t EXCEPT !.todo = Tail(@), !.held = @ \cup {Head(t.todo)[1]},
                     !.at = IF Len(t.todo) = 1 THEN "commit" ELSE "update"])
  /\ UNCHANGED <<tables, begun>>

\* What the UPDATEs of the transaction add to a counter.
Delta(t, u, k) ==
  LET ups == Updates(t)
  IN IF \E i \in DOMAIN ups : ups[i][1] = u /\ ups[i][2] = k
     THEN ups[CHOOSE i \in DOMAIN ups : ups[i][1] = u /\ ups[i][2] = k][3] ELSE 0

\* COMMIT: the row and the counters become visible together.
Commit(c) ==
  LET t == tx[c] IN
  /\ t.at = "commit"
  /\ Go(c, NoTx)
  /\ follows' = CASE t.op = "follow" -> follows \cup {<<t.user, t.whom>>}
                  [] t.op = "unfollow" -> follows \ {<<t.user, t.whom>>}
                  [] OTHER -> follows
  /\ posts' = CASE t.op = "create" -> Append(posts, [author |-> t.user, live |-> TRUE])
                [] t.op = "delete" -> [posts EXCEPT ![t.post].live = FALSE]
                [] OTHER -> posts
  /\ count' = [u \in Users |-> [k \in Counters |-> count[u][k] + Delta(t, u, k)]]
  /\ UNCHANGED begun

\* Postgres' deadlock detector aborts a transaction that waits in a circle:
\* the request fails and is rolled back.
DeadlockVictim(c) ==
  /\ InCircle(c)
  /\ Go(c, NoTx)
  /\ UNCHANGED <<tables, begun>>

\* A statement fails, the client goes away or the process dies: rollback.
Abort(c) ==
  /\ tx[c] # NoTx
  /\ Go(c, NoTx)
  /\ UNCHANGED <<tables, begun>>

Statement(c) ==
  \/ InsertFollow(c) \/ DeleteFollow(c) \/ InsertPost(c) \/ SoftDeletePost(c)
  \/ UpdateUser(c) \/ Commit(c) \/ DeadlockVictim(c)

Next == \E c \in Clients : Begin(c) \/ Statement(c) \/ Abort(c)

Spec == Init /\ [][Next]_vars

\* Statements that are not waiting are executed, and the deadlock detector
\* runs. No fault is needed for progress.
FairSpec == Spec /\ \A c \in Clients : WF_vars(Statement(c))

---------------------------------------------------------------------------------
(* Properties *)

UserUpdates == Users \X Counters \X {1, -1}

Tx == [op : Requests \cup {"none"}, at : {"begin", "row", "update", "commit"},
       user : Users \cup {"none"}, whom : Users \cup {"none"}, post : Nat,
       todo : Seq(UserUpdates), held : SUBSET Users]

\* Every variable keeps its type.
TypeOK ==
  /\ follows \subseteq Users \X Users
  /\ posts \in Seq([author : Users, live : BOOLEAN])
  /\ count \in [Users -> [Counters -> Int]]
  /\ tx \in [Clients -> Tx]
  /\ begun \in 0 .. MaxRequests

\* docs/FOLLOW_SYSTEM.md, "update trong transaction", and docs/USER_MANAGEMENT.md,
\* "luôn >= 0": whatever requests run concurrently, are repeated, deadlock or
\* are rolled back, the counters count the rows.
CountersExact == \A u \in Users : count[u] = Counted(u)

\* A request in progress is for users and a post that exist.
RequestsMakeSense ==
  \A c \in Clients : tx[c] # NoTx =>
    /\ tx[c].op # "none" /\ tx[c].at # "begin" /\ tx[c].user \in Users
    /\ tx[c].op \in {"follow", "unfollow"} => tx[c].whom \in Users \ {tx[c].user}
    /\ tx[c].op = "delete" => tx[c].post \in DOMAIN posts

\* It updates users in the order of Updates and holds those it has updated.
UpdatesInOrder ==
  \A c \in Clients : LET t == tx[c] IN
    /\ ~Wrote(c) => t.todo = <<>> /\ t.held = {}
    /\ t.at = "update" =>
         \/ t.todo = Updates(t) /\ t.held = {}
         \/ /\ t.op \in {"follow", "unfollow"}
            /\ t.todo = Tail(Updates(t)) /\ t.held = {t.whom}
    /\ t.at = "commit" => t.todo = <<>>

\* Two transactions do not hold one row: of follows or posts, or of users.
RowsHeldOnce ==
  /\ \A c \in Clients : Wrote(c) =>
       /\ tx[c].op \in {"follow", "unfollow"} => ~FollowLocked(c)
       /\ tx[c].op = "delete" => ~PostLocked(c)
  /\ \A c, d \in Clients : c # d => tx[c].held \cap tx[d].held = {}

\* What a transaction found when it wrote its row stays so until it ends.
FindingsLast ==
  \A c \in Clients : Wrote(c) =>
    LET row == <<tx[c].user, tx[c].whom>> IN
    /\ tx[c].op = "follow" => row \notin follows
    /\ tx[c].op = "unfollow" => row \in follows
    /\ tx[c].op = "delete" => posts[tx[c].post] = [author |-> tx[c].user, live |-> TRUE]

\* The inductive invariant: the counters are exact because the locks keep what
\* each transaction found from changing under it.
CountersInv ==
  /\ TypeOK /\ RequestsMakeSense /\ UpdatesInOrder /\ RowsHeldOnce /\ FindingsLast
  /\ CountersExact

\* Who deadlocks: follows and unfollows in a circle of users, each of whom
\* follows or unfollows the next. Requests on one account, however many, do
\* not deadlock, nor does a post.
OnlyFollowCirclesDeadlock ==
  \A c, d \in Clients : InCircle(c) /\ WaitsFor(c, d) =>
    /\ tx[c].op \in {"follow", "unfollow"} /\ tx[d].op \in {"follow", "unfollow"}
    /\ tx[d].whom = tx[c].user

\* Every request ends, also one that deadlocks, and gives its transaction's
\* connection back.
EveryRequestEnds == \A c \in Clients : tx[c] # NoTx ~> tx[c] = NoTx
=================================================================================
