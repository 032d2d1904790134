------------------------------- MODULE Engagement --------------------------------
(***************************************************************************)
(* Likes and comments of one post (service/post.go, service/comment.go and *)
(* their repositories): the rows in post_likes and post_comments and the   *)
(* counters like_count and comment_count of the posts row, kept by         *)
(* transactions of concurrent requests.                                    *)
(*                                                                         *)
(* Postgres runs them at READ COMMITTED: every statement sees what was     *)
(* committed when it started; a statement that would write a row another   *)
(* transaction wrote waits for that transaction to end. The rows here are  *)
(* the committed ones; what a transaction has written, and so locks, is in *)
(* its record until Commit. Requests on different posts share no row.      *)
(***************************************************************************)
EXTENDS Integers, FiniteSets

CONSTANTS
  Clients,      \* requests in progress at a time; one user may have several
  Users,        \* the accounts
  MaxRequests,  \* bound: requests ever begun
  Requests      \* the kinds of request made

ASSUME MaxRequestsAssumption == MaxRequests \in Nat
ASSUME RequestsAssumption ==
  Requests \subseteq {"like", "unlike", "comment", "uncomment", "remove"}

VARIABLES
  live,          \* posts.deleted_at IS NULL
  likes,         \* post_likes: the users of its rows
  likeCount,     \* posts.like_count
  comments,      \* post_comments: owner and parent (0: top level) by id
  commentCount,  \* posts.comment_count
  nextId,        \* the sequence of comment ids
  tx,            \* the request of each client
  begun,         \* requests begun so far
  uncommented    \* history: a comment has been deleted

post == <<live, likes, likeCount, comments, commentCount>>
vars == <<live, likes, likeCount, comments, commentCount, nextId, tx, begun,
          uncommented>>

\* at: the statement a request executes next. parent: of a new comment.
\* id: the row it inserted. target: the comment an uncomment deletes;
\* measured: the number of rows it counted; deleted: the rows it deleted.
NoTx == [op |-> "none", at |-> "begin", user |-> "none",
         parent |-> 0, target |-> 0, id |-> 0, deleted |-> {}, measured |-> 0]

Init ==
  /\ live = TRUE
  /\ likes = {} /\ likeCount = 0
  /\ comments = <<>> /\ commentCount = 0 /\ nextId = 1
  /\ tx = [c \in Clients |-> NoTx]
  /\ begun = 0 /\ uncommented = FALSE

---------------------------------------------------------------------------------
(* Locks of the other transactions *)

Others(c) == Clients \ {c}

\* An uncommitted insert or delete of the user's like.
LikeRowLocked(c) ==
  \E d \in Others(c) : /\ tx[d].op \in {"like", "unlike"} /\ tx[d].user = tx[c].user
                       /\ tx[d].at \in {"bump", "commit"}

\* An uncommitted delete of comment i.
CommentLocked(c, i) == \E d \in Others(c) : i \in tx[d].deleted

\* A foreign key check of a reply keeps its parent from being deleted.
CommentShared(c, i) ==
  \E d \in Others(c) : tx[d].op = "comment" /\ tx[d].parent = i /\ tx[d].at \in {"bump", "commit"}

\* Mutant: like and comment check the post FOR SHARE in their transaction.
PostLockedForShare(c) ==
  \E d \in Others(c) : \/ tx[d].at = "commit"
                       \/ tx[d].at = "bump" /\ tx[d].op \in {"like", "comment"}

\* An uncommitted UPDATE of the posts row. (The foreign keys' share locks on
\* it do not conflict with an UPDATE that leaves the key alone.)
PostLocked(c) == \E d \in Others(c) : tx[d].at = "commit"

Replies(i) == {j \in DOMAIN comments : comments[j].parent = i}
Thread(i) == {j \in DOMAIN comments : j = i} \cup Replies(i)

---------------------------------------------------------------------------------
(* Statements *)

Go(c, r) == tx' = [tx EXCEPT ![c] = r]

First(op) ==
  CASE op \in {"like", "comment"} -> "exists"
    [] op = "unlike" -> "rows"
    [] op = "uncomment" -> "owner"
    [] OTHER -> "bump"

\* A request arrives.
Begin(c) ==
  /\ tx[c] = NoTx /\ begun < MaxRequests
  /\ begun' = begun + 1
  /\ \E op \in Requests, u \in Users, i \in {0} \cup DOMAIN comments :
       /\ op \in {"like", "unlike", "remove"} => i = 0
       /\ op = "uncomment" => i # 0
       /\ Go(c, [NoTx EXCEPT
            !.op = op, !.user = u, !.target = IF op = "uncomment" THEN i ELSE 0,
            !.parent = IF op = "comment" THEN i ELSE 0, !.at = First(op)])
  /\ UNCHANGED <<post, nextId, uncommented>>

\* Like and comment Create first ask, outside the transaction, whether the
\* post exists; ErrPostNotFound ends the request.
PostExists(c) ==
  /\ tx[c].at = "exists"
  /\ Go(c, IF ~live THEN NoTx
           ELSE [tx[c] EXCEPT !.at = IF tx[c].parent = 0 THEN "rows" ELSE "parent"])
  /\ UNCHANGED <<post, nextId, begun, uncommented>>

\* Mutant: a reply to a reply keeps it as its parent.
ReadParentUnflattened(c) ==
  /\ tx[c].at = "parent"
  /\ Go(c, IF tx[c].parent \notin DOMAIN comments THEN NoTx
           ELSE [tx[c] EXCEPT !.at = "rows"])
  /\ UNCHANGED <<post, nextId, begun, uncommented>>

\* Create reads the parent, outside the transaction too: ErrCommentNotFound,
\* or a reply to a reply becomes a reply to its top-level comment.
ReadParent(c) ==
  /\ tx[c].at = "parent"
  /\ Go(c, IF tx[c].parent \notin DOMAIN comments THEN NoTx
           ELSE [tx[c] EXCEPT !.at = "rows",
                   !.parent = IF comments[tx[c].parent].parent = 0 THEN tx[c].parent
                              ELSE comments[tx[c].parent].parent])
  /\ UNCHANGED <<post, nextId, begun, uncommented>>

\* INSERT INTO post_likes: the unique index waits for an uncommitted row of
\* the user and refuses a committed one (ErrAlreadyLiked).
MayInsertLike(c) == tx[c].op = "like" /\ tx[c].at = "rows" /\ ~LikeRowLocked(c)

InsertLike(c) ==
  /\ MayInsertLike(c)
  /\ Go(c, IF tx[c].user \in likes THEN NoTx ELSE [tx[c] EXCEPT !.at = "bump"])
  /\ UNCHANGED <<post, nextId, begun, uncommented>>

\* DELETE FROM post_likes: waits only for a row it sees; no row is ErrNotLiked.
MayDeleteLike(c) ==
  /\ tx[c].op = "unlike" /\ tx[c].at = "rows"
  /\ tx[c].user \in likes => ~LikeRowLocked(c)

\* Mutant: the number of rows deleted is not looked at.
DeleteLikeUnchecked(c) ==
  /\ MayDeleteLike(c)
  /\ Go(c, [tx[c] EXCEPT !.at = "bump"])
  /\ UNCHANGED <<post, nextId, begun, uncommented>>

DeleteLike(c) ==
  /\ MayDeleteLike(c)
  /\ Go(c, IF tx[c].user \notin likes THEN NoTx ELSE [tx[c] EXCEPT !.at = "bump"])
  /\ UNCHANGED <<post, nextId, begun, uncommented>>

\* INSERT INTO post_comments: the foreign key waits while the parent is being
\* deleted and refuses a parent that is gone.
MayInsertComment(c) ==
  /\ tx[c].op = "comment" /\ tx[c].at = "rows"
  /\ tx[c].parent # 0 => ~CommentLocked(c, tx[c].parent)

\* Mutant: the id is read from the sequence without advancing it.
InsertCommentCurrval(c) ==
  /\ MayInsertComment(c)
  /\ Go(c, IF tx[c].parent \in {0} \cup DOMAIN comments
           THEN [tx[c] EXCEPT !.at = "bump", !.id = nextId] ELSE NoTx)
  /\ UNCHANGED <<post, nextId, begun, uncommented>>

\* Mutant: the row is inserted outside the transaction.
InsertCommentNoTx(c) ==
  /\ tx[c].op = "comment" /\ tx[c].at = "rows"
  /\ IF tx[c].parent \in {0} \cup DOMAIN comments
     THEN /\ Go(c, [tx[c] EXCEPT !.at = "bump", !.id = nextId])
          /\ nextId' = nextId + 1
          /\ comments' = [i \in DOMAIN comments \cup {nextId} |->
               IF i = nextId THEN [owner |-> tx[c].user, parent |-> tx[c].parent]
               ELSE comments[i]]
     ELSE Go(c, NoTx) /\ UNCHANGED <<nextId, comments>>
  /\ UNCHANGED <<live, likes, likeCount, commentCount, begun, uncommented>>

InsertComment(c) ==
  /\ MayInsertComment(c)
  /\ IF tx[c].parent \in {0} \cup DOMAIN comments
     THEN /\ Go(c, [tx[c] EXCEPT !.at = "bump", !.id = nextId])
          /\ nextId' = nextId + 1
     ELSE Go(c, NoTx) /\ UNCHANGED nextId
  /\ UNCHANGED <<post, begun, uncommented>>

\* comment Delete, first statement: the row and its owner
\* (ErrCommentNotFound, ErrNotCommentOwner).
SelectOwner(c) ==
  /\ tx[c].at = "owner"
  /\ Go(c, IF tx[c].target \in DOMAIN comments /\ comments[tx[c].target].owner = tx[c].user
           THEN [tx[c] EXCEPT !.at = "measure"] ELSE NoTx)
  /\ UNCHANGED <<post, nextId, begun, uncommented>>

\* Second: SELECT COUNT(*) of the comment and its replies.
CountComments(c) ==
  /\ tx[c].at = "measure"
  /\ Go(c, [tx[c] EXCEPT !.at = "rows", !.measured = Cardinality(Thread(tx[c].target))])
  /\ UNCHANGED <<post, nextId, begun, uncommented>>

\* Third: DELETE. It waits while another transaction deletes the row or
\* refers to it. That the row is gone by then is not noticed: the number of
\* rows deleted is not looked at.
MayDeleteComment(c) ==
  /\ tx[c].op = "uncomment" /\ tx[c].at = "rows"
  /\ ~CommentLocked(c, tx[c].target) /\ ~CommentShared(c, tx[c].target)

DeleteComment(c) ==
  LET t == tx[c] IN
  /\ MayDeleteComment(c)
  /\ Go(c, IF t.target \in DOMAIN comments
           THEN [t EXCEPT !.at = "cascade", !.deleted = {t.target}]
           ELSE [t EXCEPT !.at = "bump"])
  /\ UNCHANGED <<post, nextId, begun, uncommented>>

\* ON DELETE CASCADE, in the same statement: the replies of now, each when no
\* other transaction is deleting it.
MayCascade(c) == tx[c].at = "cascade" /\ \A i \in Replies(tx[c].target) : ~CommentLocked(c, i)

CascadeReplies(c) ==
  LET t == tx[c] IN
  /\ MayCascade(c)
  /\ Go(c, [t EXCEPT !.at = "bump", !.deleted = Thread(t.target)])
  /\ UNCHANGED <<post, nextId, begun, uncommented>>

\* UPDATE posts: IncrementLikeCount, IncrementCommentCount or the soft delete
\* of repository Delete, the author's. Waits for the row; no live row is
\* ErrPostNotFound and the transaction is rolled back.
MayUpdatePost(c) == tx[c].at = "bump" /\ ~PostLocked(c)

UpdatePost(c) ==
  /\ MayUpdatePost(c)
  /\ Go(c, IF live THEN [tx[c] EXCEPT !.at = "commit"] ELSE NoTx)
  /\ UNCHANGED <<post, nextId, begun, uncommented>>

\* COMMIT: the rows and the counter become visible together.
Commit(c) ==
  LET t == tx[c] IN
  /\ t.at = "commit"
  /\ Go(c, NoTx)
  /\ live' = (t.op # "remove")
  /\ likes' = CASE t.op = "like" -> likes \cup {t.user}
                [] t.op = "unlike" -> likes \ {t.user}
                [] OTHER -> likes
  /\ likeCount' = CASE t.op = "like" -> likeCount + 1
                    [] t.op = "unlike" -> likeCount - 1
                    [] OTHER -> likeCount
  /\ comments' = [i \in (DOMAIN comments \cup (IF t.op = "comment" THEN {t.id} ELSE {})) \ t.deleted |->
                    IF t.op = "comment" /\ i = t.id THEN [owner |-> t.user, parent |-> t.parent]
                    ELSE comments[i]]
  /\ commentCount' = CASE t.op = "comment" -> commentCount + 1
                       [] t.op = "uncomment" -> commentCount - t.measured
                       [] OTHER -> commentCount
  /\ uncommented' = (uncommented \/ t.op = "uncomment")
  /\ UNCHANGED <<nextId, begun>>

\* A statement fails, the client goes away or the process dies: rollback.
Abort(c) ==
  /\ tx[c] # NoTx
  /\ Go(c, NoTx)
  /\ UNCHANGED <<post, nextId, begun, uncommented>>

\* What a request does next, other than ending early.
Statement(c) ==
  \/ PostExists(c) \/ ReadParent(c) \/ SelectOwner(c) \/ CountComments(c)
  \/ InsertLike(c) \/ DeleteLike(c) \/ InsertComment(c) \/ DeleteComment(c) \/ CascadeReplies(c)
  \/ UpdatePost(c) \/ Commit(c)

Next == \E c \in Clients : Begin(c) \/ Statement(c) \/ Abort(c)

Spec == Init /\ [][Next]_vars

---------------------------------------------------------------------------------
(* Properties *)

Ids == 1 .. nextId - 1

Comment == [owner : Users, parent : {0} \cup Ids]
Tx == [op : Requests \cup {"none"},
       at : {"begin", "exists", "parent", "owner", "measure", "rows", "cascade", "bump", "commit"},
       user : Users \cup {"none"}, parent : {0} \cup Ids, target : {0} \cup Ids,
       id : {0} \cup Ids, deleted : SUBSET Ids, measured : Nat]

\* Every variable keeps its type.
TypeOK ==
  /\ live \in BOOLEAN
  /\ likes \subseteq Users /\ IsFiniteSet(likes)
  /\ likeCount \in Int /\ commentCount \in Int
  /\ nextId \in Nat \ {0} /\ DOMAIN comments \subseteq Ids
  /\ comments \in [DOMAIN comments -> Comment]
  /\ tx \in [Clients -> Tx]
  /\ begun \in 0 .. MaxRequests /\ uncommented \in BOOLEAN

\* docs/LIKES_COMMENTS.md, note 1: like_count is the number of rows in
\* post_likes, whatever likes and unlikes of the same and other users run
\* concurrently, are repeated, or are rolled back.
LikeCountExact == likeCount = Cardinality(likes)

\* docs/LIKES_COMMENTS.md, note 1: comment_count is the number of rows in
\* post_comments.
CommentCountExact == commentCount = Cardinality(DOMAIN comments)

\* What is left of it: the count is exact until a comment is deleted, whatever
\* comments, replies, aborted deletes and the deletion of the post interleave.
CommentCountExactBeforeDeletes == uncommented \/ CommentCountExact

\* docs/LIKES_COMMENTS.md, note 2: replies are one level deep. The parent is
\* read before the transaction that inserts the reply, and may be deleted in
\* between; still no reply is left without its top-level comment.
OneLevelReplies ==
  \A i \in DOMAIN comments : comments[i].parent # 0 =>
    /\ comments[i].parent \in DOMAIN comments
    /\ comments[comments[i].parent].parent = 0

\* The request of c can execute its next statement: it waits for no lock.
\* (These are the guards of the actions of Statement.)
CanGoOn(c) ==
  \/ tx[c].at \in {"exists", "parent", "owner", "measure", "commit"}
  \/ MayInsertLike(c) \/ MayDeleteLike(c) \/ MayInsertComment(c)
  \/ MayDeleteComment(c) \/ MayCascade(c) \/ MayUpdatePost(c)

\* Requests never wait for each other in a circle: while some are in progress,
\* one of them can go on.
NoDeadlock == (\E c \in Clients : tx[c] # NoTx) => \E c \in Clients : CanGoOn(c)

(* The inductive invariant. *)

Wrote(t) == t.at \in {"bump", "commit"}

\* A request is at a statement of its kind, and only a comment has a parent
\* and a row of its own, only an uncomment a target and rows it deleted.
RequestsMakeSense ==
  \A c \in Clients : LET t == tx[c] IN
    t # NoTx =>
      /\ t.user \in Users
      /\ \/ t.op = "like" /\ t.at \in {"exists", "rows", "bump", "commit"}
         \/ t.op = "unlike" /\ t.at \in {"rows", "bump", "commit"}
         \/ t.op = "comment" /\ t.at \in {"exists", "parent", "rows", "bump", "commit"}
         \/ t.op = "uncomment"
            /\ t.at \in {"owner", "measure", "rows", "cascade", "bump", "commit"}
         \/ t.op = "remove" /\ t.at \in {"bump", "commit"}
      /\ t.op # "comment" => t.parent = 0
      /\ t.id # 0 <=> t.op = "comment" /\ Wrote(t)
      /\ t.deleted # {} => t.op = "uncomment" /\ (t.at = "cascade" \/ Wrote(t))
      /\ t.at = "cascade" => t.deleted = {t.target}

\* The row of an uncommitted like is new and that of an unlike is there; no
\* two transactions hold the like of one user.
LikesHeld ==
  /\ \A c \in Clients : Wrote(tx[c]) =>
       /\ tx[c].op = "like" => tx[c].user \notin likes
       /\ tx[c].op = "unlike" => tx[c].user \in likes
  /\ \A c, d \in Clients :
       c # d /\ Wrote(tx[c]) /\ Wrote(tx[d]) /\ {tx[c].op, tx[d].op} \subseteq {"like", "unlike"}
       => tx[c].user # tx[d].user

\* The id of an uncommitted comment is its own, and nobody has replied to it.
IdsAreNew ==
  \A c \in Clients : tx[c].id # 0 =>
    /\ tx[c].id \notin DOMAIN comments
    /\ \A d \in Clients : tx[c].id # tx[d].parent /\ (c # d => tx[c].id # tx[d].id)

\* The parent of a reply is top-level, if it is still there when the reply is
\* inserted; from then on it is, and nobody is deleting it.
ParentsHeld ==
  \A c \in Clients : tx[c].parent # 0 /\ tx[c].at \in {"rows", "bump", "commit"} =>
    /\ tx[c].parent \in DOMAIN comments => comments[tx[c].parent].parent = 0
    /\ Wrote(tx[c]) => /\ tx[c].parent \in DOMAIN comments
                       /\ \A d \in Clients : tx[c].parent \notin tx[d].deleted

\* The rows a transaction deletes are there and no other one's; those of a
\* finished DELETE include the replies of each.
DeletesAreWhole ==
  \A c \in Clients :
    /\ tx[c].deleted \subseteq DOMAIN comments
    /\ \A d \in Clients \ {c} : tx[c].deleted \cap tx[d].deleted = {}
    /\ Wrote(tx[c]) => \A i \in tx[c].deleted : Replies(i) \subseteq tx[c].deleted

EngagementInv ==
  /\ TypeOK /\ RequestsMakeSense
  /\ LikesHeld /\ LikeCountExact
  /\ IdsAreNew /\ CommentCountExactBeforeDeletes
  /\ ParentsHeld /\ DeletesAreWhole /\ OneLevelReplies
=================================================================================
