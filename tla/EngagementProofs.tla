----------------------------- MODULE EngagementProofs -----------------------------
(***************************************************************************)
(* Proofs about Engagement for every number of clients, accounts and       *)
(* requests: likes, comments, replies and deletes of one post.             *)
(***************************************************************************)
EXTENDS Engagement, FiniteSetTheorems, TLAPS

USE MaxRequestsAssumption, RequestsAssumption

---------------------------------------------------------------------------------
(* The parts of the invariant that speak of requests: of one, and of two. *)

Fits(t) ==
  t # NoTx =>
    /\ t.user \in Users
    /\ \/ t.op = "like" /\ t.at \in {"exists", "rows", "bump", "commit"}
       \/ t.op = "unlike" /\ t.at \in {"rows", "bump", "commit"}
       \/ t.op = "comment" /\ t.at \in {"exists", "parent", "rows", "bump", "commit"}
       \/ t.op = "uncomment"
          /\ t.at \in {"owner", "measure", "rows", "cascade", "bump", "commit"}
       \/ t.op = "remove" /\ t.at \in {"bump", "commit"}
    /\ t.op # "comment" => t.parent = 0
    /\ t.id # 0 <=> t.op = "comment" /\ Wrote(t)
    /\ t.deleted # {} => t.op = "uncomment" /\ (t.at = "cascade" \/ Wrote(t))
    /\ t.at = "cascade" => t.deleted = {t.target}

Alone(t) ==
  /\ Wrote(t) => /\ t.op = "like" => t.user \notin likes
                 /\ t.op = "unlike" => t.user \in likes
  /\ t.id # 0 => t.id \notin DOMAIN comments /\ t.id # t.parent
  /\ t.parent # 0 /\ t.at \in {"rows", "bump", "commit"} =>
       /\ t.parent \in DOMAIN comments => comments[t.parent].parent = 0
       /\ Wrote(t) => t.parent \in DOMAIN comments
  /\ t.deleted \subseteq DOMAIN comments
  /\ Wrote(t) => \A i \in t.deleted : Replies(i) \subseteq t.deleted

Apart(t, u) ==
  /\ Wrote(t) /\ Wrote(u) /\ {t.op, u.op} \subseteq {"like", "unlike"} => t.user # u.user
  /\ t.id # 0 => t.id # u.parent /\ t.id # u.id
  /\ t.parent # 0 /\ Wrote(t) => t.parent \notin u.deleted
  /\ t.deleted \cap u.deleted = {}

Sound ==
  /\ \A c \in Clients : Fits(tx[c]) /\ Alone(tx[c])
  /\ \A c, d \in Clients : c # d => Apart(tx[c], tx[d])

Held == RequestsMakeSense /\ LikesHeld /\ IdsAreNew /\ ParentsHeld /\ DeletesAreWhole

LEMMA NoTxFacts ==
  /\ NoTx.op = "none" /\ NoTx.at = "begin" /\ NoTx.user = "none" /\ NoTx.parent = 0
  /\ NoTx.target = 0 /\ NoTx.id = 0 /\ NoTx.deleted = {} /\ NoTx.measured = 0
  /\ nextId \in Nat \ {0} => NoTx \in Tx
  /\ Fits(NoTx) /\ Alone(NoTx) /\ ~Wrote(NoTx)
<1>1. /\ NoTx.op = "none" /\ NoTx.at = "begin" /\ NoTx.user = "none" /\ NoTx.parent = 0
      /\ NoTx.target = 0 /\ NoTx.id = 0 /\ NoTx.deleted = {} /\ NoTx.measured = 0
  BY DEF NoTx
<1>2. nextId \in Nat \ {0} => NoTx \in Tx
  BY DEF NoTx, Tx
<1>3. Fits(NoTx)
  BY DEF Fits
<1>4. Alone(NoTx) /\ ~Wrote(NoTx)
  BY <1>1 DEF Alone, Wrote
<1> QED BY <1>1, <1>2, <1>3, <1>4

LEMMA TxFacts ==
  ASSUME TypeOK, NEW c \in Clients
  PROVE  /\ tx[c] \in Tx
         /\ tx[c].at \in {"begin", "exists", "parent", "owner", "measure", "rows", "cascade",
                          "bump", "commit"}
         /\ tx[c].parent \in {0} \cup Ids /\ tx[c].target \in {0} \cup Ids
         /\ tx[c].id \in {0} \cup Ids /\ tx[c].deleted \subseteq Ids /\ tx[c].measured \in Nat
BY DEF TypeOK, Tx

LEMMA CommentFacts ==
  ASSUME TypeOK, NEW i \in DOMAIN comments
  PROVE  /\ comments[i] \in Comment /\ comments[i].owner \in Users
         /\ comments[i].parent \in {0} \cup Ids /\ i \in Ids
BY DEF TypeOK, Comment

LEMMA SoundIsHeld == Sound <=> Held
<1>1. ASSUME Sound PROVE Held
  <2>1. RequestsMakeSense
    BY <1>1, Zenon DEF Sound, Fits, RequestsMakeSense
  <2>2. LikesHeld
    BY <1>1 DEF Sound, Alone, Apart, LikesHeld
  <2>3. IdsAreNew
    BY <1>1 DEF Sound, Alone, Apart, IdsAreNew
  <2>4. ParentsHeld
    <3> SUFFICES ASSUME NEW c \in Clients, tx[c].parent # 0, tx[c].at \in {"rows", "bump", "commit"}
                 PROVE  /\ tx[c].parent \in DOMAIN comments => comments[tx[c].parent].parent = 0
                        /\ Wrote(tx[c]) => /\ tx[c].parent \in DOMAIN comments
                                           /\ \A d \in Clients : tx[c].parent \notin tx[d].deleted
      BY DEF ParentsHeld
    <3>1. tx[c].deleted = {}
      BY <1>1, NoTxFacts DEF Sound, Fits
    <3>2. /\ tx[c].parent \in DOMAIN comments => comments[tx[c].parent].parent = 0
          /\ Wrote(tx[c]) => tx[c].parent \in DOMAIN comments
      BY <1>1 DEF Sound, Alone
    <3> QED BY <1>1, <3>1, <3>2 DEF Sound, Apart
  <2>5. DeletesAreWhole
    BY <1>1 DEF Sound, Alone, Apart, DeletesAreWhole
  <2> QED BY <2>1, <2>2, <2>3, <2>4, <2>5 DEF Held
<1>2. ASSUME Held PROVE Sound
  <2>1. \A c \in Clients : Fits(tx[c])
    BY <1>2, Zenon DEF Held, Fits, RequestsMakeSense
  <2>2. ASSUME NEW c \in Clients PROVE Alone(tx[c])
    BY <1>2 DEF Held, Alone, LikesHeld, IdsAreNew, ParentsHeld, DeletesAreWhole
  <2>3. ASSUME NEW c \in Clients, NEW d \in Clients, c # d PROVE Apart(tx[c], tx[d])
    <3>1. tx[c].parent # 0 /\ Wrote(tx[c]) => tx[c].parent \notin tx[d].deleted
      BY <1>2 DEF Held, ParentsHeld, Wrote
    <3> QED BY <1>2, <2>3, <3>1 DEF Held, Apart, LikesHeld, IdsAreNew, DeletesAreWhole
  <2> QED BY <2>1, <2>2, <2>3 DEF Sound
<1> QED BY <1>1, <1>2

LEMMA Parts ==
  EngagementInv <=> /\ TypeOK /\ Sound /\ LikeCountExact
                    /\ CommentCountExactBeforeDeletes /\ OneLevelReplies
BY SoundIsHeld DEF Held, EngagementInv

---------------------------------------------------------------------------------
(* A statement other than COMMIT changes the request alone. *)

LEMMA StatementKeeps ==
  ASSUME EngagementInv, NEW c \in Clients, NEW t, tx' = [tx EXCEPT ![c] = t],
         UNCHANGED <<post, uncommented>>, nextId' \in {nextId, nextId + 1},
         begun' \in 0 .. MaxRequests,
         t \in Tx', Fits(t), Alone(t),
         \A d \in Clients \ {c} : Apart(t, tx[d]) /\ Apart(tx[d], t)
  PROVE  EngagementInv'
<1>1. TypeOK /\ Sound /\ LikeCountExact /\ CommentCountExactBeforeDeletes /\ OneLevelReplies
  BY Parts
<1>2. /\ UNCHANGED <<live, likes, likeCount, comments, commentCount>>
      /\ nextId \in Nat \ {0} /\ nextId' \in Nat \ {0} /\ Ids \subseteq Ids'
  BY <1>1 DEF TypeOK, Ids, post
<1>3. \A d \in Clients : tx'[d] = IF d = c THEN t ELSE tx[d]
  BY <1>1 DEF TypeOK
<1>4. TypeOK'
  <2>1. Tx \subseteq Tx' /\ Comment \subseteq Comment'
    BY <1>2 DEF Tx, Comment
  <2>2. tx' \in [Clients -> Tx']
    BY <1>1, <2>1 DEF TypeOK
  <2>3. comments' \in [DOMAIN comments' -> Comment']
    BY <1>1, <1>2, <2>1 DEF TypeOK
  <2> QED BY <1>1, <1>2, <2>2, <2>3 DEF TypeOK
<1>5. Sound'
  <2>1. ASSUME NEW d \in Clients PROVE Fits(tx[d])' /\ Alone(tx[d])'
    <3>1. Fits(tx'[d]) /\ Alone(tx'[d])
      BY <1>1, <1>3 DEF Sound
    <3>2. Fits(tx[d])'
      BY <3>1 DEF Fits, Wrote
    <3>3. Alone(tx[d])'
      BY <1>2, <3>1 DEF Alone, Wrote, Replies
    <3> QED BY <3>2, <3>3
  <2>2. ASSUME NEW d \in Clients, NEW e \in Clients, d # e PROVE Apart(tx[d], tx[e])'
    <3>1. Apart(tx'[d], tx'[e])
      BY <1>1, <1>3, <2>2 DEF Sound
    <3> QED BY <3>1 DEF Apart, Wrote
  <2> QED BY <2>1, <2>2 DEF Sound
<1>6. LikeCountExact' /\ CommentCountExactBeforeDeletes' /\ OneLevelReplies'
  BY <1>1, <1>2 DEF LikeCountExact, CommentCountExactBeforeDeletes, CommentCountExact, OneLevelReplies
<1>7. (/\ TypeOK /\ Sound /\ LikeCountExact
       /\ CommentCountExactBeforeDeletes /\ OneLevelReplies)'
  BY <1>4, <1>5, <1>6
<1> QED BY <1>7, Parts, PTL

\* A request that holds no row: it may end, or it has not written yet.
LEMMA HoldsNothing ==
  ASSUME EngagementInv, NEW c \in Clients, NEW t, ~Wrote(t), t.deleted = {}, t.id = 0,
         \A d \in Clients \ {c} : tx[d].id # 0 => tx[d].id # t.parent,
         t.parent # 0 /\ t.at = "rows" /\ t.parent \in DOMAIN comments
         => comments[t.parent].parent = 0
  PROVE  Alone(t) /\ \A d \in Clients \ {c} : Apart(t, tx[d]) /\ Apart(tx[d], t)
<1>1. Alone(t)
  BY DEF Alone, Wrote
<1>2. ASSUME NEW d \in Clients \ {c} PROVE Apart(t, tx[d]) /\ Apart(tx[d], t)
  BY DEF Apart
<1> QED BY <1>1, <1>2

LEMMA EndKeeps ==
  ASSUME EngagementInv, NEW c \in Clients, Go(c, NoTx),
         UNCHANGED <<post, nextId, begun, uncommented>>
  PROVE  EngagementInv'
<1>1. TypeOK /\ Sound
  BY Parts
<1>2. NoTx \in Tx'
  <2>1. nextId' \in Nat \ {0} => (NoTx \in Tx)'
    BY DEF NoTx, Tx, Ids
  <2> QED BY <1>1, <2>1 DEF TypeOK, NoTx
<1>3. Alone(NoTx) /\ \A d \in Clients \ {c} : Apart(NoTx, tx[d]) /\ Apart(tx[d], NoTx)
  BY NoTxFacts, HoldsNothing
<1>4. begun' \in 0 .. MaxRequests
  BY <1>1 DEF TypeOK
<1> QED BY <1>2, <1>3, <1>4, NoTxFacts, StatementKeeps DEF Go

LEMMA AbortInv ==
  ASSUME EngagementInv, NEW c \in Clients, Abort(c)
  PROVE  EngagementInv'
BY EndKeeps DEF Abort

LEMMA FirstFacts ==
  /\ \A op \in {"like", "comment"} : First(op) = "exists"
  /\ First("unlike") = "rows" /\ First("uncomment") = "owner" /\ First("remove") = "bump"
BY DEF First

LEMMA BeginInv ==
  ASSUME EngagementInv, NEW c \in Clients, Begin(c)
  PROVE  EngagementInv'
<1>1. TypeOK /\ Sound
  BY Parts
<1>2. PICK op \in Requests, u \in Users, i \in {0} \cup DOMAIN comments :
        /\ op \in {"like", "unlike", "remove"} => i = 0
        /\ op = "uncomment" => i # 0
        /\ Go(c, [NoTx EXCEPT
             !.op = op, !.user = u, !.target = IF op = "uncomment" THEN i ELSE 0,
             !.parent = IF op = "comment" THEN i ELSE 0, !.at = First(op)])
  BY DEF Begin
<1> DEFINE t == [NoTx EXCEPT
             !.op = op, !.user = u, !.target = IF op = "uncomment" THEN i ELSE 0,
             !.parent = IF op = "comment" THEN i ELSE 0, !.at = First(op)]
<1>3. /\ begun \in 0 .. MaxRequests /\ begun < MaxRequests /\ begun' = begun + 1
      /\ UNCHANGED <<post, nextId, uncommented>>
  BY <1>1 DEF Begin, TypeOK
<1>4. tx' = [tx EXCEPT ![c] = t]
  BY <1>2 DEF Go
<1>5. First(op) \in {"exists", "rows", "owner", "bump"} /\ op # "none"
  BY FirstFacts
<1>6. i \in {0} \cup Ids /\ Ids' = Ids
  BY <1>1, <1>3 DEF TypeOK, Ids
<1>7. /\ t.op = op /\ t.user = u /\ t.target = IF op = "uncomment" THEN i ELSE 0
      /\ t.parent = IF op = "comment" THEN i ELSE 0
      /\ t.at = First(op) /\ t.id = 0 /\ t.deleted = {} /\ t.measured = 0
      /\ t \in Tx'
  BY <1>5, <1>6 DEF NoTx, Tx
<1> HIDE DEF t
<1>8. /\ op \in {"like", "comment"} => t.at = "exists"
      /\ op = "unlike" => t.at = "rows"
      /\ op = "uncomment" => t.at = "owner"
      /\ op = "remove" => t.at = "bump"
  BY <1>7, FirstFacts
<1>9. Fits(t)
  BY <1>2, <1>7, <1>8 DEF Fits, Wrote
<1>10. \A d \in Clients \ {c} : tx[d].id # 0 => tx[d].id # t.parent
  BY <1>1, <1>7 DEF Sound, Alone
<1>11. Alone(t) /\ \A d \in Clients \ {c} : Apart(t, tx[d]) /\ Apart(tx[d], t)
  <2>1. CASE op # "remove"
    BY <1>7, <1>8, <1>10, <2>1, HoldsNothing DEF Wrote
  <2>2. CASE op = "remove"
    <3>1. Alone(t)
      BY <1>7, <2>2 DEF Alone
    <3>2. ASSUME NEW d \in Clients \ {c} PROVE Apart(t, tx[d]) /\ Apart(tx[d], t)
      BY <1>7, <1>10, <2>2 DEF Apart
    <3> QED BY <3>1, <3>2
  <2> QED BY <2>1, <2>2
<1>12. begun' \in 0 .. MaxRequests
  BY <1>3
<1> QED BY <1>3, <1>4, <1>7, <1>9, <1>11, <1>12, StatementKeeps

LEMMA PostExistsInv ==
  ASSUME EngagementInv, NEW c \in Clients, PostExists(c)
  PROVE  EngagementInv'
<1>1. TypeOK /\ Sound
  BY Parts
<1>2. CASE Go(c, NoTx)
  BY <1>2, EndKeeps DEF PostExists
<1>3. CASE Go(c, [tx[c] EXCEPT !.at = IF tx[c].parent = 0 THEN "rows" ELSE "parent"])
  <2> DEFINE t == [tx[c] EXCEPT !.at = IF tx[c].parent = 0 THEN "rows" ELSE "parent"]
  <2>1. /\ tx' = [tx EXCEPT ![c] = t] /\ UNCHANGED <<post, nextId, uncommented>>
        /\ begun' \in 0 .. MaxRequests /\ tx[c].at = "exists"
    BY <1>1, <1>3 DEF Go, PostExists, TypeOK
  <2>2. /\ t \in Tx /\ t.at = IF tx[c].parent = 0 THEN "rows" ELSE "parent"
        /\ t.op = tx[c].op /\ t.user = tx[c].user /\ t.parent = tx[c].parent
        /\ t.target = tx[c].target /\ t.id = tx[c].id /\ t.deleted = tx[c].deleted
    BY <1>1, TxFacts DEF Tx
  <2>3. t \in Tx'
    BY <2>1, <2>2 DEF Tx, Ids
  <2> HIDE DEF t
  <2>4. /\ tx[c] # NoTx /\ tx[c].op \in {"like", "comment"} /\ tx[c].id = 0
        /\ tx[c].deleted = {} /\ tx[c].user \in Users
        /\ tx[c].op = "like" => tx[c].parent = 0
    BY <1>1, <2>1, NoTxFacts DEF Sound, Fits, Wrote
  <2>5. Fits(t)
    BY <2>2, <2>4 DEF Fits, Wrote
  <2>6. \A d \in Clients \ {c} : tx[d].id # 0 => tx[d].id # t.parent
    BY <1>1, <2>2 DEF Sound, Apart
  <2>7. Alone(t) /\ \A d \in Clients \ {c} : Apart(t, tx[d]) /\ Apart(tx[d], t)
    BY <2>2, <2>4, <2>6, HoldsNothing DEF Wrote
  <2> QED BY <2>1, <2>3, <2>5, <2>7, StatementKeeps
<1> QED BY <1>2, <1>3 DEF PostExists

LEMMA ReadParentInv ==
  ASSUME EngagementInv, NEW c \in Clients, ReadParent(c)
  PROVE  EngagementInv'
<1>1. TypeOK /\ Sound /\ OneLevelReplies
  BY Parts
<1>2. CASE tx[c].parent \notin DOMAIN comments
  BY <1>2, EndKeeps DEF ReadParent
<1>3. CASE tx[c].parent \in DOMAIN comments
  <2> DEFINE p == IF comments[tx[c].parent].parent = 0 THEN tx[c].parent
                  ELSE comments[tx[c].parent].parent
             t == [tx[c] EXCEPT !.at = "rows", !.parent = p]
  <2>1. /\ tx' = [tx EXCEPT ![c] = t] /\ UNCHANGED <<post, nextId, uncommented>>
        /\ begun' \in 0 .. MaxRequests /\ tx[c].at = "parent"
    BY <1>1, <1>3 DEF Go, ReadParent, TypeOK
  <2>2. p \in DOMAIN comments /\ comments[p].parent = 0 /\ p \in Ids /\ p # 0
    BY <1>1, <1>3, CommentFacts DEF OneLevelReplies, Ids
  <2> HIDE DEF p
  <2>3. /\ t \in Tx /\ t.at = "rows" /\ t.parent = p
        /\ t.op = tx[c].op /\ t.user = tx[c].user
        /\ t.target = tx[c].target /\ t.id = tx[c].id /\ t.deleted = tx[c].deleted
    BY <1>1, <2>2, TxFacts DEF Tx
  <2>4. t \in Tx'
    BY <2>1, <2>3 DEF Tx, Ids
  <2> HIDE DEF t
  <2>5. /\ tx[c] # NoTx /\ tx[c].op = "comment" /\ tx[c].id = 0
        /\ tx[c].deleted = {} /\ tx[c].user \in Users
    BY <1>1, <2>1, NoTxFacts DEF Sound, Fits, Wrote
  <2>6. Fits(t)
    BY <2>3, <2>5 DEF Fits, Wrote
  <2>7. \A d \in Clients \ {c} : tx[d].id # 0 => tx[d].id # t.parent
    BY <1>1, <2>2, <2>3 DEF Sound, Alone
  <2>8. Alone(t) /\ \A d \in Clients \ {c} : Apart(t, tx[d]) /\ Apart(tx[d], t)
    BY <2>2, <2>3, <2>5, <2>7, HoldsNothing DEF Wrote
  <2> QED BY <2>1, <2>4, <2>6, <2>8, StatementKeeps
<1> QED BY <1>2, <1>3

\* The request goes on to its next statement.
LEMMA MoveFacts ==
  ASSUME TypeOK, NEW c \in Clients, Ids' = Ids,
         NEW a \in {"measure", "rows", "cascade", "bump", "commit"}
  PROVE  LET t == [tx[c] EXCEPT !.at = a] IN
         /\ t \in Tx' /\ t.at = a /\ t.op = tx[c].op /\ t.user = tx[c].user
         /\ t.parent = tx[c].parent /\ t.target = tx[c].target /\ t.id = tx[c].id
         /\ t.deleted = tx[c].deleted /\ t.measured = tx[c].measured
BY TxFacts DEF Tx

\* What the statements before a request's own rows leave as it was.
LEMMA BeforeRows ==
  ASSUME Sound, NEW c \in Clients, tx[c].at \in {"owner", "measure", "rows"}
  PROVE  /\ tx[c] # NoTx /\ tx[c].user \in Users /\ tx[c].id = 0 /\ tx[c].deleted = {}
         /\ tx[c].op # "comment" => tx[c].parent = 0
         /\ tx[c].at \in {"owner", "measure"} => tx[c].op = "uncomment"
BY NoTxFacts DEF Sound, Fits, Wrote

LEMMA LikeRowsInv ==
  ASSUME EngagementInv, NEW c \in Clients, InsertLike(c) \/ DeleteLike(c)
  PROVE  EngagementInv'
<1>1. TypeOK /\ Sound
  BY Parts
<1> DEFINE t == [tx[c] EXCEPT !.at = "bump"]
<1>2. /\ tx[c].op \in {"like", "unlike"} /\ tx[c].at = "rows"
      /\ UNCHANGED <<post, nextId, begun, uncommented>>
      /\ \/ Go(c, NoTx)
         \/ /\ tx' = [tx EXCEPT ![c] = t] /\ ~LikeRowLocked(c)
            /\ tx[c].op = "like" => tx[c].user \notin likes
            /\ tx[c].op = "unlike" => tx[c].user \in likes
  BY DEF InsertLike, DeleteLike, MayInsertLike, MayDeleteLike, Go
<1>3. CASE Go(c, NoTx)
  BY <1>2, <1>3, EndKeeps
<1>4. CASE /\ tx' = [tx EXCEPT ![c] = t] /\ ~LikeRowLocked(c)
           /\ tx[c].op = "like" => tx[c].user \notin likes
           /\ tx[c].op = "unlike" => tx[c].user \in likes
  <2>1. Ids' = Ids /\ begun' \in 0 .. MaxRequests
    BY <1>1, <1>2 DEF Ids, TypeOK
  <2>2. /\ t \in Tx' /\ t.at = "bump" /\ t.op = tx[c].op /\ t.user = tx[c].user
        /\ t.parent = tx[c].parent /\ t.id = tx[c].id /\ t.deleted = tx[c].deleted
    BY <1>1, <2>1, MoveFacts
  <2> HIDE DEF t
  <2>3. tx[c].user \in Users /\ t.id = 0 /\ t.deleted = {} /\ t.parent = 0
    BY <1>1, <1>2, <2>2, BeforeRows
  <2>4. Fits(t)
    BY <1>2, <2>2, <2>3 DEF Fits, Wrote
  <2>5. Alone(t)
    BY <1>4, <2>2, <2>3 DEF Alone
  <2>6. ASSUME NEW d \in Clients \ {c} PROVE Apart(t, tx[d]) /\ Apart(tx[d], t)
    <3>1. ~(tx[d].op \in {"like", "unlike"} /\ tx[d].user = t.user /\ Wrote(tx[d]))
      BY <1>4, <2>2 DEF LikeRowLocked, Others, Wrote
    <3> QED BY <2>3, <3>1 DEF Apart
  <2> QED BY <1>2, <1>4, <2>1, <2>2, <2>4, <2>5, <2>6, StatementKeeps
<1> QED BY <1>2, <1>3, <1>4

\* A reply's parent is there, and nobody is deleting it, when it is inserted.
LEMMA InsertCommentInv ==
  ASSUME EngagementInv, NEW c \in Clients, InsertComment(c)
  PROVE  EngagementInv'
<1>1. TypeOK /\ Sound
  BY Parts
<1>2. CASE tx[c].parent \notin {0} \cup DOMAIN comments
  BY <1>2, EndKeeps DEF InsertComment, MayInsertComment
<1>3. CASE tx[c].parent \in {0} \cup DOMAIN comments
  <2> DEFINE t == [tx[c] EXCEPT !.at = "bump", !.id = nextId]
  <2>1. /\ tx' = [tx EXCEPT ![c] = t] /\ nextId' = nextId + 1
        /\ tx[c].op = "comment" /\ tx[c].at = "rows"
        /\ tx[c].parent # 0 => ~CommentLocked(c, tx[c].parent)
        /\ UNCHANGED <<post, begun, uncommented>>
    BY <1>3 DEF InsertComment, MayInsertComment, Go
  <2>2. /\ begun' \in 0 .. MaxRequests /\ nextId \in Nat \ {0} /\ nextId \in Ids'
        /\ Ids \subseteq Ids' /\ nextId \notin {0} \cup Ids
    BY <1>1, <2>1 DEF Ids, TypeOK
  <2>3. /\ t.at = "bump" /\ t.id = nextId /\ t.op = tx[c].op /\ t.user = tx[c].user
        /\ t.parent = tx[c].parent /\ t.deleted = tx[c].deleted
        /\ t \in Tx'
    BY <1>1, <2>2, TxFacts DEF Tx
  <2> HIDE DEF t
  <2>4. tx[c].user \in Users /\ t.deleted = {}
    BY <1>1, <2>1, <2>3, BeforeRows
  <2>5. Fits(t)
    BY <2>1, <2>2, <2>3, <2>4 DEF Fits, Wrote
  <2>6. Alone(t)
    <3>1. nextId \notin DOMAIN comments /\ nextId # tx[c].parent
      BY <1>1, <2>2, TxFacts DEF TypeOK
    <3>2. tx[c].parent # 0 =>
            tx[c].parent \in DOMAIN comments /\ comments[tx[c].parent].parent = 0
      BY <1>1, <1>3, <2>1 DEF Sound, Alone
    <3> QED BY <2>1, <2>3, <2>4, <3>1, <3>2 DEF Alone
  <2>7. ASSUME NEW d \in Clients \ {c} PROVE Apart(t, tx[d]) /\ Apart(tx[d], t)
    <3>1. nextId # tx[d].parent /\ nextId # tx[d].id
      BY <1>1, <2>2, TxFacts
    <3>2. tx[c].parent # 0 => tx[c].parent \notin tx[d].deleted
      BY <2>1 DEF CommentLocked, Others
    <3>3. tx[d].id # 0 => tx[d].id # tx[c].parent
      BY <1>1 DEF Sound, Apart
    <3> QED BY <2>1, <2>3, <2>4, <3>1, <3>2, <3>3 DEF Apart
  <2> QED BY <2>1, <2>2, <2>3, <2>5, <2>6, <2>7, StatementKeeps
<1> QED BY <1>2, <1>3

LEMMA ThreadFacts ==
  ASSUME TypeOK, NEW i
  PROVE  Thread(i) \subseteq DOMAIN comments /\ Cardinality(Thread(i)) \in Nat
<1>1. Thread(i) \subseteq DOMAIN comments
  BY DEF Thread, Replies
<1>2. IsFiniteSet(Ids)
  <2>1. nextId - 1 \in Int
    BY DEF TypeOK
  <2> QED BY <2>1, FS_Interval DEF Ids
<1>3. IsFiniteSet(Thread(i))
  BY <1>1, <1>2, FS_Subset DEF TypeOK
<1> QED BY <1>1, <1>3, FS_CardinalityType

LEMMA MeasureInv ==
  ASSUME EngagementInv, NEW c \in Clients, SelectOwner(c) \/ CountComments(c)
  PROVE  EngagementInv'
<1>1. TypeOK /\ Sound
  BY Parts
<1>2. /\ UNCHANGED <<post, nextId, begun, uncommented>> /\ tx[c].at \in {"owner", "measure"}
      /\ Ids' = Ids /\ begun' \in 0 .. MaxRequests
  BY <1>1 DEF SelectOwner, CountComments, TypeOK, Ids
<1>3. /\ tx[c] # NoTx /\ tx[c].user \in Users /\ tx[c].id = 0 /\ tx[c].deleted = {}
      /\ tx[c].op = "uncomment" /\ tx[c].parent = 0
  BY <1>1, <1>2, BeforeRows
<1>4. ASSUME NEW t \in Tx', tx' = [tx EXCEPT ![c] = t], t.at \in {"measure", "rows"},
             t.op = tx[c].op, t.user = tx[c].user, t.parent = tx[c].parent, t.id = tx[c].id,
             t.deleted = tx[c].deleted
      PROVE  EngagementInv'
  <2>1. Fits(t)
    BY <1>3, <1>4 DEF Fits, Wrote
  <2>2. Alone(t) /\ \A d \in Clients \ {c} : Apart(t, tx[d]) /\ Apart(tx[d], t)
    BY <1>3, <1>4, HoldsNothing DEF Wrote
  <2> QED BY <1>2, <1>4, <2>1, <2>2, StatementKeeps
<1>5. CASE SelectOwner(c)
  <2>1. CASE Go(c, NoTx)
    BY <1>2, <2>1, EndKeeps
  <2>2. CASE Go(c, [tx[c] EXCEPT !.at = "measure"])
    <3> DEFINE t == [tx[c] EXCEPT !.at = "measure"]
    <3>1. /\ t \in Tx' /\ t.at = "measure" /\ t.op = tx[c].op /\ t.user = tx[c].user
          /\ t.parent = tx[c].parent /\ t.id = tx[c].id /\ t.deleted = tx[c].deleted
      BY <1>1, <1>2, MoveFacts
    <3>2. tx' = [tx EXCEPT ![c] = t]
      BY <2>2 DEF Go
    <3> HIDE DEF t
    <3> QED BY <1>4, <3>1, <3>2
  <2> QED BY <1>5, <2>1, <2>2 DEF SelectOwner
<1>6. CASE CountComments(c)
  <2> DEFINE n == Cardinality(Thread(tx[c].target))
             t == [tx[c] EXCEPT !.at = "rows", !.measured = n]
  <2>1. n \in Nat
    BY <1>1, ThreadFacts
  <2>2. tx' = [tx EXCEPT ![c] = t]
    BY <1>6 DEF CountComments, Go
  <2> HIDE DEF n
  <2>3. /\ t \in Tx' /\ t.at = "rows" /\ t.op = tx[c].op /\ t.user = tx[c].user
        /\ t.parent = tx[c].parent /\ t.id = tx[c].id /\ t.deleted = tx[c].deleted
    BY <1>1, <1>2, <2>1, TxFacts DEF Tx
  <2> HIDE DEF t
  <2> QED BY <1>4, <2>2, <2>3
<1> QED BY <1>5, <1>6

LEMMA DeleteCommentInv ==
  ASSUME EngagementInv, NEW c \in Clients, DeleteComment(c)
  PROVE  EngagementInv'
<1>1. TypeOK /\ Sound
  BY Parts
<1>2. /\ tx[c].op = "uncomment" /\ tx[c].at = "rows"
      /\ ~CommentLocked(c, tx[c].target) /\ ~CommentShared(c, tx[c].target)
      /\ UNCHANGED <<post, nextId, begun, uncommented>>
      /\ Ids' = Ids /\ begun' \in 0 .. MaxRequests
  BY <1>1 DEF DeleteComment, MayDeleteComment, TypeOK, Ids
<1>3. /\ tx[c] # NoTx /\ tx[c].user \in Users /\ tx[c].id = 0 /\ tx[c].deleted = {}
      /\ tx[c].parent = 0
  BY <1>1, <1>2, BeforeRows
<1>4. CASE tx[c].target \notin DOMAIN comments
  <2> DEFINE t == [tx[c] EXCEPT !.at = "bump"]
  <2>1. /\ t \in Tx' /\ t.at = "bump" /\ t.op = tx[c].op /\ t.user = tx[c].user
        /\ t.parent = tx[c].parent /\ t.id = tx[c].id /\ t.deleted = tx[c].deleted
    BY <1>1, <1>2, MoveFacts
  <2>2. tx' = [tx EXCEPT ![c] = t]
    BY <1>4 DEF DeleteComment, MayDeleteComment, Go
  <2> HIDE DEF t
  <2>3. Fits(t) /\ Alone(t)
    BY <1>2, <1>3, <2>1 DEF Fits, Alone, Wrote
  <2>4. \A d \in Clients \ {c} : Apart(t, tx[d]) /\ Apart(tx[d], t)
    BY <1>2, <1>3, <2>1 DEF Apart
  <2> QED BY <1>2, <2>1, <2>2, <2>3, <2>4, StatementKeeps
<1>5. CASE tx[c].target \in DOMAIN comments
  <2> DEFINE t == [tx[c] EXCEPT !.at = "cascade", !.deleted = {tx[c].target}]
  <2>1. {tx[c].target} \subseteq Ids /\ tx[c].target \in DOMAIN comments
    BY <1>1, <1>5 DEF TypeOK
  <2>2. /\ t \in Tx' /\ t.at = "cascade" /\ t.op = tx[c].op /\ t.user = tx[c].user
        /\ t.target = tx[c].target
        /\ t.parent = tx[c].parent /\ t.id = tx[c].id /\ t.deleted = {tx[c].target}
    BY <1>1, <1>2, <2>1, TxFacts DEF Tx
  <2>3. tx' = [tx EXCEPT ![c] = t]
    BY <1>5 DEF DeleteComment, MayDeleteComment, Go
  <2> HIDE DEF t
  <2>4. Fits(t) /\ Alone(t)
    BY <1>2, <1>3, <2>1, <2>2 DEF Fits, Alone, Wrote
  <2>5. ASSUME NEW d \in Clients \ {c} PROVE Apart(t, tx[d]) /\ Apart(tx[d], t)
    <3>1. tx[c].target \notin tx[d].deleted
      BY <1>2 DEF CommentLocked, Others
    <3>2. tx[d].parent # 0 /\ Wrote(tx[d]) => tx[d].parent # tx[c].target
      <4>1. tx[d].parent # 0 => tx[d].op = "comment"
        BY <1>1, NoTxFacts DEF Sound, Fits
      <4> QED BY <1>2, <4>1 DEF CommentShared, Others, Wrote
    <3> QED BY <1>2, <1>3, <2>2, <3>1, <3>2 DEF Apart
  <2> QED BY <1>2, <2>2, <2>3, <2>4, <2>5, StatementKeeps
<1> QED BY <1>4, <1>5

\* The replies of a reply are none: what the cascade deletes is whole.
LEMMA CascadeRepliesInv ==
  ASSUME EngagementInv, NEW c \in Clients, CascadeReplies(c)
  PROVE  EngagementInv'
<1>1. TypeOK /\ Sound /\ OneLevelReplies
  BY Parts
<1> DEFINE k == tx[c].target
           t == [tx[c] EXCEPT !.at = "bump", !.deleted = Thread(k)]
<1>2. /\ tx[c].at = "cascade" /\ \A i \in Replies(k) : ~CommentLocked(c, i)
      /\ tx' = [tx EXCEPT ![c] = t]
      /\ UNCHANGED <<post, nextId, begun, uncommented>>
      /\ Ids' = Ids /\ begun' \in 0 .. MaxRequests
  BY <1>1 DEF CascadeReplies, MayCascade, TypeOK, Ids, Go
<1>3. /\ tx[c] # NoTx /\ tx[c].user \in Users /\ tx[c].id = 0 /\ tx[c].deleted = {k}
      /\ tx[c].parent = 0 /\ tx[c].op = "uncomment"
  BY <1>1, <1>2, NoTxFacts DEF Sound, Fits, Wrote
<1>4. k \in DOMAIN comments /\ k # 0
  BY <1>1, <1>3 DEF Sound, Alone, TypeOK, Ids
<1>5. Thread(k) = {k} \cup Replies(k) /\ Thread(k) \subseteq DOMAIN comments
      /\ Thread(k) \subseteq Ids
  BY <1>1, <1>4 DEF Thread, Replies, TypeOK
<1>6. /\ t \in Tx' /\ t.at = "bump" /\ t.op = tx[c].op /\ t.user = tx[c].user
      /\ t.parent = tx[c].parent /\ t.id = tx[c].id /\ t.deleted = Thread(k)
  BY <1>1, <1>2, <1>5, TxFacts DEF Tx
<1> HIDE DEF t, k
<1>7. \A i \in Replies(k) : comments[i].parent = k
  BY DEF Replies
<1>8. \A i \in Thread(k) : Replies(i) \subseteq Thread(k)
  <2>1. ASSUME NEW i \in Replies(k), NEW j \in Replies(i) PROVE FALSE
    <3>1. j \in DOMAIN comments /\ comments[j].parent = i /\ i # 0
      BY <1>1, <2>1 DEF Replies, TypeOK, Ids
    <3> QED BY <1>1, <1>4, <1>7, <3>1 DEF OneLevelReplies
  <2> QED BY <1>5, <2>1
<1>9. Fits(t) /\ Alone(t)
  BY <1>3, <1>5, <1>6, <1>8 DEF Fits, Alone, Wrote
<1>10. ASSUME NEW d \in Clients \ {c} PROVE Apart(t, tx[d]) /\ Apart(tx[d], t)
  <2>1. Thread(k) \cap tx[d].deleted = {}
    BY <1>1, <1>2, <1>3, <1>5 DEF Sound, Apart, CommentLocked, Others
  <2>2. tx[d].parent # 0 /\ Wrote(tx[d]) => tx[d].parent \notin Thread(k)
    <3> SUFFICES ASSUME tx[d].parent # 0, Wrote(tx[d]) PROVE tx[d].parent \notin Thread(k)
      OBVIOUS
    <3>1. tx[d].parent # k
      BY <1>1, <1>3 DEF Sound, Apart
    <3>2. comments[tx[d].parent].parent = 0
      BY <1>1 DEF Sound, Alone, Wrote
    <3> QED BY <1>4, <1>5, <1>7, <3>1, <3>2
  <2> QED BY <1>3, <1>6, <2>1, <2>2 DEF Apart
<1> QED BY <1>2, <1>6, <1>9, <1>10, StatementKeeps

LEMMA UpdatePostInv ==
  ASSUME EngagementInv, NEW c \in Clients, UpdatePost(c)
  PROVE  EngagementInv'
<1>1. TypeOK /\ Sound
  BY Parts
<1>2. /\ tx[c].at = "bump" /\ UNCHANGED <<post, nextId, begun, uncommented>>
      /\ Ids' = Ids /\ begun' \in 0 .. MaxRequests
  BY <1>1 DEF UpdatePost, MayUpdatePost, TypeOK, Ids
<1>3. CASE Go(c, NoTx)
  BY <1>2, <1>3, EndKeeps
<1>4. CASE Go(c, [tx[c] EXCEPT !.at = "commit"])
  <2> DEFINE t == [tx[c] EXCEPT !.at = "commit"]
  <2>1. /\ t \in Tx' /\ t.at = "commit" /\ t.op = tx[c].op /\ t.user = tx[c].user
        /\ t.parent = tx[c].parent /\ t.id = tx[c].id /\ t.deleted = tx[c].deleted
    BY <1>1, <1>2, MoveFacts
  <2>2. tx' = [tx EXCEPT ![c] = t]
    BY <1>4 DEF Go
  <2> HIDE DEF t
  <2>3. tx[c] # NoTx /\ Wrote(tx[c]) /\ Wrote(t)
    BY <1>2, <2>1, NoTxFacts DEF Wrote
  <2>4. Fits(t)
    BY <1>1, <1>2, <2>1, <2>3 DEF Sound, Fits
  <2>5. Alone(t)
    BY <1>1, <1>2, <2>1, <2>3 DEF Sound, Alone
  <2>6. ASSUME NEW d \in Clients \ {c} PROVE Apart(t, tx[d]) /\ Apart(tx[d], t)
    BY <1>1, <2>1, <2>3 DEF Sound, Apart
  <2> QED BY <1>2, <2>1, <2>2, <2>4, <2>5, <2>6, StatementKeeps
<1> QED BY <1>3, <1>4 DEF UpdatePost, MayUpdatePost
---------------------------------------------------------------------------------
(* COMMIT *)

\* What it does to the rows.
LEMMA CommitFacts ==
  ASSUME EngagementInv, NEW c \in Clients, Commit(c)
  PROVE  LET t == tx[c] IN
         /\ t # NoTx /\ Wrote(t) /\ t.user \in Users
         /\ t.op \in {"like", "unlike", "comment", "uncomment", "remove"}
         /\ t.op = "comment" => t.id \in Ids /\ t.deleted = {} /\ DOMAIN comments' = DOMAIN comments \cup {t.id}
         /\ t.op = "comment" => comments'[t.id] = [owner |-> t.user, parent |-> t.parent]
         /\ t.op = "comment" => comments'[t.id].parent = t.parent
         /\ t.op # "comment" => t.id = 0 /\ DOMAIN comments' = DOMAIN comments \ t.deleted
         /\ t.op # "uncomment" => t.deleted = {}
         /\ \A i \in DOMAIN comments \cap DOMAIN comments' : comments'[i] = comments[i]
         /\ tx' = [tx EXCEPT ![c] = NoTx] /\ UNCHANGED <<nextId, begun>>
<1>1. TypeOK /\ Sound
  BY Parts
<1>2. /\ tx[c].at = "commit" /\ tx' = [tx EXCEPT ![c] = NoTx] /\ UNCHANGED <<nextId, begun>>
      /\ comments' = [i \in (DOMAIN comments \cup (IF tx[c].op = "comment" THEN {tx[c].id} ELSE {}))
                            \ tx[c].deleted |->
                        IF tx[c].op = "comment" /\ i = tx[c].id
                        THEN [owner |-> tx[c].user, parent |-> tx[c].parent]
                        ELSE comments[i]]
  BY DEF Commit, Go
<1>3. /\ tx[c] # NoTx /\ Wrote(tx[c]) /\ tx[c].user \in Users
      /\ tx[c].op \in {"like", "unlike", "comment", "uncomment", "remove"}
      /\ tx[c].id # 0 <=> tx[c].op = "comment"
      /\ tx[c].op # "uncomment" => tx[c].deleted = {}
  BY <1>1, <1>2, NoTxFacts DEF Sound, Fits, Wrote
<1>4. tx[c].id # 0 => tx[c].id \in Ids /\ tx[c].id \notin DOMAIN comments
  BY <1>1, TxFacts DEF Sound, Alone
<1>5. CASE tx[c].op = "comment"
  BY <1>2, <1>3, <1>4, <1>5
<1>6. CASE tx[c].op # "comment"
  BY <1>2, <1>3, <1>6
<1> QED BY <1>2, <1>3, <1>5, <1>6

LEMMA CommitCounts ==
  ASSUME NEW c \in Clients, Commit(c)
  PROVE  /\ tx[c].op = "like" => likes' = likes \cup {tx[c].user} /\ likeCount' = likeCount + 1
         /\ tx[c].op = "unlike" => likes' = likes \ {tx[c].user} /\ likeCount' = likeCount - 1
         /\ tx[c].op \notin {"like", "unlike"} => likes' = likes /\ likeCount' = likeCount
         /\ tx[c].op = "comment" => commentCount' = commentCount + 1
         /\ tx[c].op = "uncomment" => commentCount' = commentCount - tx[c].measured
         /\ tx[c].op \notin {"comment", "uncomment"} => commentCount' = commentCount
         /\ uncommented' = (uncommented \/ tx[c].op = "uncomment")
         /\ live' \in BOOLEAN
BY DEF Commit

LEMMA CommitTypes ==
  ASSUME EngagementInv, NEW c \in Clients, Commit(c)
  PROVE  TypeOK'
<1>1. TypeOK
  BY Parts
<1> DEFINE t == tx[c]
<1>2. /\ t.user \in Users
      /\ t.op = "comment" => t.id \in Ids
      /\ t.op \in {"like", "unlike", "comment", "uncomment", "remove"}
      /\ tx' = [tx EXCEPT ![c] = NoTx] /\ UNCHANGED <<nextId, begun>>
  BY CommitFacts
<1>3. Ids' = Ids /\ Tx' = Tx /\ Comment' = Comment
  BY <1>2 DEF Ids, Tx, Comment
<1>4. likes' \subseteq Users /\ IsFiniteSet(likes')
  <2>1. likes \subseteq Users /\ IsFiniteSet(likes) /\ tx[c].user \in Users
    BY <1>1, <1>2 DEF TypeOK
  <2>2. likes' \in {likes, likes \cup {tx[c].user}, likes \ {tx[c].user}}
    BY CommitCounts
  <2> QED BY <2>1, <2>2, FS_AddElement, FS_RemoveElement
<1>5. likeCount' \in Int /\ commentCount' \in Int
  <2>1. likeCount \in Int /\ commentCount \in Int /\ tx[c].measured \in Nat
    BY <1>1, TxFacts DEF TypeOK
  <2> QED BY <2>1, CommitCounts
<1>6. DOMAIN comments' \subseteq Ids /\ comments' \in [DOMAIN comments' -> Comment]
  <2>1. /\ \A i \in DOMAIN comments' :
             i \in DOMAIN comments \/ (t.op = "comment" /\ i = t.id)
        /\ \A i \in DOMAIN comments \cap DOMAIN comments' : comments'[i] = comments[i]
        /\ t.op = "comment" => comments'[t.id] = [owner |-> t.user, parent |-> t.parent]
    <3>1. /\ t.op = "comment" => DOMAIN comments' = DOMAIN comments \cup {t.id}
          /\ t.op # "comment" => DOMAIN comments' = DOMAIN comments \ t.deleted
      BY CommitFacts
    <3>2. \A i \in DOMAIN comments \cap DOMAIN comments' : comments'[i] = comments[i]
      BY CommitFacts
    <3>3. t.op = "comment" => comments'[t.id] = [owner |-> t.user, parent |-> t.parent]
      BY CommitFacts
    <3> QED BY <3>1, <3>2, <3>3
  <2>2. [owner |-> t.user, parent |-> t.parent] \in Comment
    <3>1. t.parent \in {0} \cup Ids /\ t.user \in Users
      BY <1>1, <1>2, TxFacts
    <3> QED BY <3>1 DEF Comment
  <2>3. \A i \in DOMAIN comments : comments[i] \in Comment /\ i \in Ids
    BY <1>1, CommentFacts
  <2>4. \A i \in DOMAIN comments' : comments'[i] \in Comment /\ i \in Ids
    BY <1>2, <2>1, <2>2, <2>3
  <2>5. comments' = [i \in DOMAIN comments' |-> comments'[i]]
    BY DEF Commit
  <2> QED BY <2>4, <2>5
<1>7. tx' \in [Clients -> Tx]
  BY <1>1, <1>2, NoTxFacts DEF TypeOK
<1>8. live' \in BOOLEAN /\ uncommented' \in BOOLEAN /\ begun' \in 0 .. MaxRequests
      /\ nextId' \in Nat \ {0}
  BY <1>1, <1>2, CommitCounts DEF TypeOK
<1> QED BY <1>3, <1>4, <1>5, <1>6, <1>7, <1>8 DEF TypeOK

LEMMA CommitSound ==
  ASSUME EngagementInv, NEW c \in Clients, Commit(c)
  PROVE  Sound'
<1>1. TypeOK /\ Sound
  BY Parts
<1> DEFINE t == tx[c]
<1>2. /\ t # NoTx /\ Wrote(t)
      /\ t.op \in {"like", "unlike", "comment", "uncomment", "remove"}
      /\ t.op = "comment" => t.id \in Ids /\ DOMAIN comments' = DOMAIN comments \cup {t.id}
      /\ t.op = "comment" => comments'[t.id].parent = t.parent
      /\ t.op # "comment" => DOMAIN comments' = DOMAIN comments \ t.deleted
      /\ t.op # "uncomment" => t.deleted = {}
      /\ \A i \in DOMAIN comments \cap DOMAIN comments' : comments'[i] = comments[i]
      /\ tx' = [tx EXCEPT ![c] = NoTx]
  BY CommitFacts
<1>3. t.op = "comment" => t.id # 0
  BY <1>2 DEF Ids
<1>4. \A d \in Clients : tx'[d] = IF d = c THEN NoTx ELSE tx[d]
  BY <1>1, <1>2 DEF TypeOK
<1>5. ASSUME NEW d \in Clients, d # c
      PROVE  /\ Wrote(tx[d]) => /\ tx[d].op = "like" => tx[d].user \notin likes'
                                /\ tx[d].op = "unlike" => tx[d].user \in likes'
             /\ tx[d].id # 0 => tx[d].id \notin DOMAIN comments' /\ tx[d].id # tx[d].parent
             /\ tx[d].parent # 0 /\ tx[d].at \in {"rows", "bump", "commit"} =>
                  /\ tx[d].parent \in DOMAIN comments' => comments'[tx[d].parent].parent = 0
                  /\ Wrote(tx[d]) => tx[d].parent \in DOMAIN comments'
             /\ tx[d].deleted \subseteq DOMAIN comments'
             /\ Wrote(tx[d]) => \A i \in tx[d].deleted : \A j \in DOMAIN comments' :
                                  comments'[j].parent = i => j \in tx[d].deleted
  <2>1. Alone(tx[d]) /\ Apart(t, tx[d]) /\ Apart(tx[d], t)
    BY <1>1, <1>5 DEF Sound
  <2> HIDE DEF t
  <2>2. Wrote(tx[d]) => /\ tx[d].op = "like" => tx[d].user \notin likes'
                        /\ tx[d].op = "unlike" => tx[d].user \in likes'
    <3>1. /\ t.op = "like" => likes' = likes \cup {t.user}
          /\ t.op = "unlike" => likes' = likes \ {t.user}
          /\ t.op \notin {"like", "unlike"} => likes' = likes
      BY CommitCounts DEF t
    <3> QED BY <1>2, <2>1, <3>1 DEF Alone, Apart
  <2>3. tx[d].id # 0 => tx[d].id \notin DOMAIN comments' /\ tx[d].id # tx[d].parent
    BY <1>2, <1>3, <2>1 DEF Alone, Apart
  <2>4. tx[d].parent # 0 /\ tx[d].at \in {"rows", "bump", "commit"} =>
          /\ tx[d].parent \in DOMAIN comments' => comments'[tx[d].parent].parent = 0
          /\ Wrote(tx[d]) => tx[d].parent \in DOMAIN comments'
    BY <1>2, <1>3, <2>1 DEF Alone, Apart
  <2>5. tx[d].deleted \subseteq DOMAIN comments'
    BY <1>2, <2>1 DEF Alone, Apart
  <2>6. ASSUME Wrote(tx[d]), NEW i \in tx[d].deleted, NEW j \in DOMAIN comments',
               comments'[j].parent = i
        PROVE  j \in tx[d].deleted
    <3>1. CASE j \in DOMAIN comments
      BY <1>2, <2>1, <2>6, <3>1 DEF Alone, Replies
    <3>2. CASE j \notin DOMAIN comments
      <4>1. t.op = "comment" /\ t.parent = i
        BY <1>2, <2>6, <3>2
      <4>2. i # 0
        BY <1>1, <2>1 DEF Alone, TypeOK, Ids
      <4> QED BY <1>2, <2>1, <4>1, <4>2 DEF Apart
    <3> QED BY <3>1, <3>2
  <2> QED BY <2>2, <2>3, <2>4, <2>5, <2>6
<1>6. ASSUME NEW d \in Clients PROVE Fits(tx[d])' /\ Alone(tx[d])'
  <2>1. CASE d = c
    <3>1. tx'[d] = NoTx
      BY <1>4, <2>1
    <3>2. Fits(tx[d])'
      BY <3>1 DEF Fits
    <3>3. Alone(tx[d])'
      BY <3>1, NoTxFacts DEF Alone, Wrote
    <3> QED BY <3>2, <3>3
  <2>2. CASE d # c
    <3>1. tx'[d] = tx[d] /\ Fits(tx[d])
      BY <1>1, <1>4, <2>2 DEF Sound
    <3>2. Fits(tx[d])'
      BY <3>1 DEF Fits, Wrote
    <3>3. Alone(tx[d])'
      BY <1>5, <2>2, <3>1 DEF Alone, Wrote, Replies
    <3> QED BY <3>2, <3>3
  <2> QED BY <2>1, <2>2
<1>7. ASSUME NEW d \in Clients, NEW e \in Clients, d # e PROVE Apart(tx[d], tx[e])'
  <2>1. Apart(tx'[d], tx'[e])
    BY <1>1, <1>4, <1>7, NoTxFacts DEF Sound, Apart
  <2> QED BY <2>1 DEF Apart, Wrote
<1> QED BY <1>6, <1>7 DEF Sound

LEMMA CommitInv ==
  ASSUME EngagementInv, NEW c \in Clients, Commit(c)
  PROVE  EngagementInv'
<1>1. TypeOK /\ Sound /\ LikeCountExact /\ CommentCountExactBeforeDeletes /\ OneLevelReplies
  BY Parts
<1>2. /\ Wrote(tx[c]) /\ tx[c].op \in {"like", "unlike", "comment", "uncomment", "remove"}
      /\ tx[c].op = "comment" => tx[c].id \in Ids /\ tx[c].deleted = {}
                                 /\ DOMAIN comments' = DOMAIN comments \cup {tx[c].id}
      /\ tx[c].op = "comment" => comments'[tx[c].id].parent = tx[c].parent
      /\ tx[c].op # "comment" => DOMAIN comments' = DOMAIN comments \ tx[c].deleted
      /\ tx[c].op # "uncomment" => tx[c].deleted = {}
      /\ \A i \in DOMAIN comments \cap DOMAIN comments' : comments'[i] = comments[i]
  BY CommitFacts
<1>3. Alone(tx[c])
  BY <1>1 DEF Sound
<1>4. LikeCountExact'
  <2>1. IsFiniteSet(likes) /\ likeCount \in Int /\ likeCount = Cardinality(likes)
        /\ Cardinality(likes) \in Nat
    BY <1>1, FS_CardinalityType DEF TypeOK, LikeCountExact
  <2>2. CASE tx[c].op = "like"
    <3>1. tx[c].user \notin likes /\ likes' = likes \cup {tx[c].user} /\ likeCount' = likeCount + 1
      BY <1>2, <1>3, <2>2, CommitCounts DEF Alone
    <3>2. Cardinality(likes') = Cardinality(likes) + 1
      BY <2>1, <3>1, FS_AddElement
    <3> QED BY <2>1, <3>1, <3>2 DEF LikeCountExact
  <2>3. CASE tx[c].op = "unlike"
    <3>1. tx[c].user \in likes /\ likes' = likes \ {tx[c].user} /\ likeCount' = likeCount - 1
      BY <1>2, <1>3, <2>3, CommitCounts DEF Alone
    <3>2. Cardinality(likes') = Cardinality(likes) - 1
      BY <2>1, <3>1, FS_RemoveElement
    <3> QED BY <2>1, <3>1, <3>2 DEF LikeCountExact
  <2>4. CASE tx[c].op \notin {"like", "unlike"}
    BY <2>1, <2>4, CommitCounts DEF LikeCountExact
  <2> QED BY <2>2, <2>3, <2>4
<1>5. CommentCountExactBeforeDeletes'
  <2> SUFFICES ASSUME ~uncommented' PROVE commentCount' = Cardinality(DOMAIN comments')
    BY DEF CommentCountExactBeforeDeletes, CommentCountExact
  <2>1. ~uncommented /\ tx[c].op # "uncomment"
    BY CommitCounts
  <2>2. IsFiniteSet(DOMAIN comments)
    <3>1. nextId - 1 \in Int
      BY <1>1 DEF TypeOK
    <3>2. IsFiniteSet(Ids)
      BY <3>1, FS_Interval DEF Ids
    <3> QED BY <1>1, <3>2, FS_Subset DEF TypeOK
  <2>3. commentCount = Cardinality(DOMAIN comments)
    BY <1>1, <2>1 DEF CommentCountExactBeforeDeletes, CommentCountExact
  <2>4. CASE tx[c].op = "comment"
    <3>1. /\ DOMAIN comments' = DOMAIN comments \cup {tx[c].id}
          /\ tx[c].id \notin DOMAIN comments /\ commentCount' = commentCount + 1
      BY <1>2, <1>3, <2>4, CommitCounts DEF Alone, Ids
    <3> QED BY <2>2, <2>3, <3>1, FS_AddElement
  <2>5. CASE tx[c].op # "comment"
    <3>1. DOMAIN comments' = DOMAIN comments /\ commentCount' = commentCount
      BY <1>2, <2>1, <2>5, CommitCounts
    <3> QED BY <2>3, <3>1
  <2> QED BY <2>4, <2>5
<1>6. OneLevelReplies'
  <2> SUFFICES ASSUME NEW i \in DOMAIN comments', comments'[i].parent # 0
               PROVE  /\ comments'[i].parent \in DOMAIN comments'
                      /\ comments'[comments'[i].parent].parent = 0
    BY DEF OneLevelReplies
  <2> DEFINE p == comments'[i].parent
  <2>1. p \in DOMAIN comments /\ comments[p].parent = 0 /\ p \in DOMAIN comments'
    <3>1. CASE i \in DOMAIN comments
      <4>1. comments'[i] = comments[i]
        BY <1>2, <3>1
      <4>2. p \in DOMAIN comments /\ comments[p].parent = 0 /\ i \in Replies(p)
        BY <1>1, <3>1, <4>1 DEF OneLevelReplies, Replies
      <4>3. tx[c].op # "comment" => i \notin tx[c].deleted
        BY <1>2
      <4>4. tx[c].op # "comment" => p \notin tx[c].deleted
        BY <1>2, <1>3, <4>2, <4>3 DEF Alone
      <4> QED BY <1>2, <4>2, <4>4
    <3>2. CASE i \notin DOMAIN comments
      <4>1. tx[c].op = "comment" /\ p = tx[c].parent
        BY <1>2, <3>2
      <4> QED BY <1>2, <1>3, <4>1 DEF Alone, Wrote
    <3> QED BY <3>1, <3>2
  <2> QED BY <1>2, <2>1
<1>7. (/\ TypeOK /\ Sound /\ LikeCountExact
       /\ CommentCountExactBeforeDeletes /\ OneLevelReplies)'
  BY <1>4, <1>5, <1>6, CommitTypes, CommitSound
<1> QED BY <1>7, Parts, PTL

---------------------------------------------------------------------------------
(* The theorems *)

LEMMA InitInv == Init => EngagementInv
<1> SUFFICES ASSUME Init PROVE EngagementInv
  OBVIOUS
<1>1. /\ live = TRUE /\ likes = {} /\ likeCount = 0 /\ comments = <<>> /\ commentCount = 0
      /\ nextId = 1 /\ tx = [c \in Clients |-> NoTx] /\ begun = 0 /\ uncommented = FALSE
  BY DEF Init
<1>2. DOMAIN comments = {} /\ \A c \in Clients : tx[c] = NoTx
  BY <1>1
<1>3. Cardinality({}) = 0 /\ IsFiniteSet({})
  BY FS_EmptySet
<1>4. TypeOK
  <2>1. tx \in [Clients -> Tx]
    BY <1>1, NoTxFacts
  <2>2. comments \in [DOMAIN comments -> Comment]
    BY <1>1
  <2>3. likeCount \in Int /\ commentCount \in Int /\ nextId \in Nat \ {0} /\ begun \in 0 .. MaxRequests
    BY <1>1
  <2>4. live \in BOOLEAN /\ uncommented \in BOOLEAN
    BY <1>1, Zenon
  <2> QED BY <1>1, <1>2, <1>3, <2>1, <2>2, <2>3, <2>4 DEF TypeOK
<1>5. Sound
  BY <1>2, NoTxFacts DEF Sound, Apart
<1>6. LikeCountExact /\ CommentCountExactBeforeDeletes /\ OneLevelReplies
  BY <1>1, <1>2, <1>3
     DEF LikeCountExact, CommentCountExactBeforeDeletes, CommentCountExact, OneLevelReplies
<1> QED BY <1>4, <1>5, <1>6, Parts

LEMMA NextInv ==
  ASSUME EngagementInv, [Next]_vars
  PROVE  EngagementInv'
<1>1. CASE \E c \in Clients : Begin(c)
  BY <1>1, BeginInv
<1>2. CASE \E c \in Clients : PostExists(c)
  BY <1>2, PostExistsInv
<1>3. CASE \E c \in Clients : ReadParent(c)
  BY <1>3, ReadParentInv
<1>4. CASE \E c \in Clients : SelectOwner(c) \/ CountComments(c)
  BY <1>4, MeasureInv
<1>5. CASE \E c \in Clients : InsertLike(c) \/ DeleteLike(c)
  BY <1>5, LikeRowsInv
<1>6. CASE \E c \in Clients : InsertComment(c)
  BY <1>6, InsertCommentInv
<1>7. CASE \E c \in Clients : DeleteComment(c)
  BY <1>7, DeleteCommentInv
<1>8. CASE \E c \in Clients : CascadeReplies(c)
  BY <1>8, CascadeRepliesInv
<1>9. CASE \E c \in Clients : UpdatePost(c)
  BY <1>9, UpdatePostInv
<1>10. CASE \E c \in Clients : Commit(c)
  BY <1>10, CommitInv
<1>11. CASE \E c \in Clients : Abort(c)
  BY <1>11, AbortInv
<1>12. CASE UNCHANGED vars
  <2>1. TypeOK'
    BY <1>12 DEF vars, EngagementInv, TypeOK, Ids, Comment, Tx
  <2>2. /\ LikeCountExact' /\ CommentCountExactBeforeDeletes' /\ OneLevelReplies'
        /\ RequestsMakeSense' /\ LikesHeld' /\ IdsAreNew' /\ ParentsHeld' /\ DeletesAreWhole'
    BY <1>12 DEF vars, EngagementInv, LikeCountExact, CommentCountExactBeforeDeletes,
       CommentCountExact, OneLevelReplies, RequestsMakeSense, LikesHeld, IdsAreNew, ParentsHeld,
       DeletesAreWhole, Replies
  <2> QED BY <2>1, <2>2 DEF EngagementInv
<1> QED BY <1>1, <1>2, <1>3, <1>4, <1>5, <1>6, <1>7, <1>8, <1>9, <1>10, <1>11, <1>12
        DEF Next, Statement

\* The inductive invariant of likes and comments holds in every reachable state.
THEOREM EngagementInvariant == Spec => []EngagementInv
BY InitInv, NextInv, PTL DEF Spec

\* Every variable keeps its type.
THEOREM TypeCorrect == Spec => []TypeOK
<1>1. EngagementInv => TypeOK
  BY DEF EngagementInv
<1> QED BY <1>1, EngagementInvariant, PTL

\* like_count is the number of rows in post_likes, whatever likes and unlikes of
\* any number of users run at the same time, are repeated or are rolled back.
THEOREM LikesCounted == Spec => []LikeCountExact
<1>1. EngagementInv => LikeCountExact
  BY DEF EngagementInv
<1> QED BY <1>1, EngagementInvariant, PTL

\* comment_count is the number of rows in post_comments until a comment is
\* deleted, whatever comments, replies and aborted deletes run at the same time.
THEOREM CommentsCounted == Spec => []CommentCountExactBeforeDeletes
<1>1. EngagementInv => CommentCountExactBeforeDeletes
  BY DEF EngagementInv
<1> QED BY <1>1, EngagementInvariant, PTL

\* Every reply has its top-level comment, however reads of parents, inserts of
\* replies and deletes of comments with their replies interleave.
THEOREM RepliesOneLevel == Spec => []OneLevelReplies
<1>1. EngagementInv => OneLevelReplies
  BY DEF EngagementInv
<1> QED BY <1>1, EngagementInvariant, PTL

\* Requests never wait for each other in a circle: one at COMMIT does not wait,
\* one at the posts row waits only for those, one that deletes replies only for
\* those and for one that deletes such a reply, which has none itself, and one
\* at its rows for these.
THEOREM NoCircularWait == Spec => []NoDeadlock
<1>1. EngagementInv => NoDeadlock
  <2> SUFFICES ASSUME EngagementInv, NEW c0 \in Clients, tx[c0] # NoTx,
                      \A c \in Clients : ~CanGoOn(c)
               PROVE  FALSE
    BY DEF NoDeadlock
  <2>1. TypeOK /\ Sound /\ OneLevelReplies
    BY Parts
  <2>2. \A c \in Clients : tx[c].at \notin {"exists", "parent", "owner", "measure", "commit"}
    BY DEF CanGoOn
  <2>3. \A c \in Clients : tx[c].at # "bump"
    BY <2>2 DEF CanGoOn, MayUpdatePost, PostLocked, Others
  <2>4. ASSUME NEW c \in Clients, tx[c].deleted # {}
        PROVE  tx[c].at = "cascade" /\ tx[c].deleted = {tx[c].target}
    BY <2>1, <2>2, <2>3, <2>4, NoTxFacts DEF Sound, Fits, Wrote
  <2>5. ASSUME NEW c \in Clients, tx[c].at = "cascade" PROVE FALSE
    <3>1. ASSUME NEW x \in Clients, tx[x].at = "cascade"
          PROVE  \E i \in Replies(tx[x].target), d \in Clients : i \in tx[d].deleted
      BY <3>1 DEF CanGoOn, MayCascade, CommentLocked, Others
    <3>2. PICK i \in Replies(tx[c].target), d \in Clients : i \in tx[d].deleted
      BY <2>5, <3>1
    <3>3. tx[d].at = "cascade" /\ tx[d].target = i
      BY <2>4, <3>2
    <3>4. PICK j : j \in Replies(i)
      BY <3>1, <3>3
    <3>5. tx[c].target # 0
      <4>1. tx[c].deleted = {tx[c].target}
        BY <2>1, <2>5, NoTxFacts DEF Sound, Fits
      <4> QED BY <2>1, <4>1 DEF TypeOK, Sound, Alone, Ids
    <3>6. /\ i \in DOMAIN comments /\ comments[i].parent # 0
          /\ j \in DOMAIN comments /\ comments[j].parent = i /\ i # 0
      BY <2>1, <3>2, <3>4, <3>5 DEF Replies, TypeOK, Ids
    <3> QED BY <2>1, <3>6 DEF OneLevelReplies
  <2>6. \A c \in Clients : tx[c].deleted = {} /\ tx[c].at \notin {"bump", "commit"}
    BY <2>2, <2>3, <2>4, <2>5
  <2>7. \A c \in Clients : /\ \A i : ~CommentLocked(c, i) /\ ~CommentShared(c, i)
                           /\ ~LikeRowLocked(c)
    BY <2>6 DEF LikeRowLocked, CommentLocked, CommentShared, Others
  <2>8. tx[c0].at = "rows" /\ tx[c0].op \in {"like", "unlike", "comment", "uncomment"}
    BY <2>1, <2>2, <2>3, <2>5 DEF Sound, Fits
  <2> QED BY <2>7, <2>8
          DEF CanGoOn, MayInsertLike, MayDeleteLike, MayInsertComment, MayDeleteComment
<1> QED BY <1>1, EngagementInvariant, PTL
=================================================================================
