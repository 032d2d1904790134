---------------------------- MODULE UserCountersProofs ----------------------------
(***************************************************************************)
(* Proofs about UserCounters for every number of users, clients and        *)
(* requests.                                                               *)
(***************************************************************************)
EXTENDS UserCounters, FiniteSetTheorems, SequenceTheorems, TLAPS

USE RequestsAssumption, InitFollowsAssumption, UsersAssumption, MaxRequestsAssumption

FollowOps == {"follow", "unfollow"}

\* Sequences of one and of two elements.
LEMMA OneElement ==
  ASSUME NEW S, NEW a \in S
  PROVE  /\ <<a>> \in Seq(S) /\ <<a>> # <<>> /\ Len(<<a>>) = 1
         /\ Head(<<a>>) = a /\ Tail(<<a>>) = <<>>
OBVIOUS

LEMMA TwoElements ==
  ASSUME NEW S, NEW a \in S, NEW b \in S
  PROVE  /\ <<a, b>> \in Seq(S) /\ <<a, b>> # <<>> /\ Len(<<a, b>>) = 2
         /\ Head(<<a, b>>) = a /\ Tail(<<a, b>>) = <<b>>
OBVIOUS

\* The UPDATEs of each kind of request, by value.
LEMMA UpdatesByKind ==
  ASSUME NEW t
  PROVE  /\ t.op = "follow" =>
              Updates(t) = <<<<t.whom, "followers", 1>>, <<t.user, "following", 1>>>>
         /\ t.op = "unfollow" =>
              Updates(t) = <<<<t.whom, "followers", -1>>, <<t.user, "following", -1>>>>
         /\ t.op = "create" => Updates(t) = <<<<t.user, "posts", 1>>>>
         /\ t.op = "delete" => Updates(t) = <<<<t.user, "posts", -1>>>>
BY DEF Updates, Update

\* A transaction has one or two UPDATEs to do, and of what is left the first.
LEMMA UpdatesTyped ==
  ASSUME NEW t \in Tx, t.user \in Users,
         t.op \in FollowOps => t.whom \in Users, t.op # "none"
  PROVE  /\ Updates(t) \in Seq(UserUpdates)
         /\ Updates(t) # <<>>
         /\ t.op \in FollowOps =>
              /\ Len(Updates(t)) = 2 /\ Head(Updates(t))[1] = t.whom
              /\ Tail(Updates(t)) \in Seq(UserUpdates)
              /\ Tail(Updates(t)) # <<>> /\ Len(Tail(Updates(t))) = 1
              /\ Tail(Tail(Updates(t))) = <<>>
              /\ Head(Tail(Updates(t)))[1] = t.user
         /\ t.op \notin FollowOps =>
              /\ Len(Updates(t)) = 1 /\ Tail(Updates(t)) = <<>>
              /\ Head(Updates(t))[1] = t.user
<1>1. t.op \in {"follow", "unfollow", "create", "delete"}
  BY DEF Tx
<1>2. CASE t.op = "follow"
  <2> DEFINE a == <<t.whom, "followers", 1>>
             b == <<t.user, "following", 1>>
  <2>1. a \in UserUpdates /\ b \in UserUpdates /\ a[1] = t.whom /\ b[1] = t.user /\ Updates(t) = <<a, b>>
    BY <1>2, UpdatesByKind DEF UserUpdates, Counters, FollowOps
  <2> HIDE DEF a, b
  <2>2. <<a, b>> \in Seq(UserUpdates) /\ Len(<<a, b>>) = 2 /\ Head(<<a, b>>) = a /\ Tail(<<a, b>>) = <<b>>
    BY <2>1, TwoElements
  <2>3. <<b>> \in Seq(UserUpdates) /\ <<b>> # <<>> /\ Len(<<b>>) = 1 /\ Head(<<b>>) = b /\ Tail(<<b>>) = <<>>
    BY <2>1, OneElement
  <2> QED BY <1>2, <2>1, <2>2, <2>3 DEF FollowOps
<1>3. CASE t.op = "unfollow"
  <2> DEFINE a == <<t.whom, "followers", -1>>
             b == <<t.user, "following", -1>>
  <2>1. a \in UserUpdates /\ b \in UserUpdates /\ a[1] = t.whom /\ b[1] = t.user /\ Updates(t) = <<a, b>>
    BY <1>3, UpdatesByKind DEF UserUpdates, Counters, FollowOps
  <2> HIDE DEF a, b
  <2>2. <<a, b>> \in Seq(UserUpdates) /\ Len(<<a, b>>) = 2 /\ Head(<<a, b>>) = a /\ Tail(<<a, b>>) = <<b>>
    BY <2>1, TwoElements
  <2>3. <<b>> \in Seq(UserUpdates) /\ <<b>> # <<>> /\ Len(<<b>>) = 1 /\ Head(<<b>>) = b /\ Tail(<<b>>) = <<>>
    BY <2>1, OneElement
  <2> QED BY <1>3, <2>1, <2>2, <2>3 DEF FollowOps
<1>4. CASE t.op = "create"
  <2> DEFINE a == <<t.user, "posts", 1>>
  <2>1. a \in UserUpdates /\ a[1] = t.user /\ Updates(t) = <<a>>
    BY <1>4, UpdatesByKind DEF UserUpdates, Counters
  <2> HIDE DEF a
  <2>2. <<a>> \in Seq(UserUpdates) /\ <<a>> # <<>> /\ Len(<<a>>) = 1 /\ Head(<<a>>) = a /\ Tail(<<a>>) = <<>>
    BY <2>1, OneElement
  <2> QED BY <1>4, <2>1, <2>2 DEF FollowOps
<1>5. CASE t.op = "delete"
  <2> DEFINE a == <<t.user, "posts", -1>>
  <2>1. a \in UserUpdates /\ a[1] = t.user /\ Updates(t) = <<a>>
    BY <1>5, UpdatesByKind DEF UserUpdates, Counters
  <2> HIDE DEF a
  <2>2. <<a>> \in Seq(UserUpdates) /\ <<a>> # <<>> /\ Len(<<a>>) = 1 /\ Head(<<a>>) = a /\ Tail(<<a>>) = <<>>
    BY <2>1, OneElement
  <2> QED BY <1>5, <2>1, <2>2 DEF FollowOps
<1> QED BY <1>1, <1>2, <1>3, <1>4, <1>5

\* What a transaction adds to each counter.
LEMMA DeltaByKind ==
  ASSUME NEW t, NEW u, NEW k
  PROVE  /\ t.op = "follow" => 
              Delta(t, u, k) = CASE k = "followers" /\ u = t.whom -> 1
                                 [] k = "following" /\ u = t.user -> 1 [] OTHER -> 0
         /\ t.op = "unfollow" =>
              Delta(t, u, k) = CASE k = "followers" /\ u = t.whom -> -1
                                 [] k = "following" /\ u = t.user -> -1 [] OTHER -> 0
         /\ t.op = "create" => Delta(t, u, k) = IF k = "posts" /\ u = t.user THEN 1 ELSE 0
         /\ t.op = "delete" => Delta(t, u, k) = IF k = "posts" /\ u = t.user THEN -1 ELSE 0
<1> DEFINE ups == Updates(t)
           hits == {i \in DOMAIN ups : ups[i][1] = u /\ ups[i][2] = k}
<1>1. /\ hits = {} => Delta(t, u, k) = 0
      /\ \A i : hits = {i} => Delta(t, u, k) = ups[i][3]
  BY DEF Delta
<1>2. ASSUME t.op \in FollowOps
      PROVE  hits = IF k = "followers" /\ u = t.whom THEN {1}
                    ELSE IF k = "following" /\ u = t.user THEN {2} ELSE {}
  BY <1>2, UpdatesByKind DEF FollowOps
<1>3. ASSUME t.op \in {"create", "delete"}
      PROVE  hits = IF k = "posts" /\ u = t.user THEN {1} ELSE {}
  BY <1>3, UpdatesByKind
<1> QED BY <1>1, <1>2, <1>3, UpdatesByKind DEF FollowOps

---------------------------------------------------------------------------------
(* The parts of the invariant that speak of transactions, of one of them or of
   two. *)

Writing(t) == t.at \in {"update", "commit"}

Sensible(t) ==
  t # NoTx =>
    /\ t.op # "none" /\ t.at # "begin" /\ t.user \in Users
    /\ t.op \in FollowOps => t.whom \in Users \ {t.user}
    /\ t.op = "delete" => t.post \in DOMAIN posts

Ordered(t) ==
  /\ ~Writing(t) => t.todo = <<>> /\ t.held = {}
  /\ t.at = "update" =>
       \/ t.todo = Updates(t) /\ t.held = {}
       \/ t.op \in FollowOps /\ t.todo = Tail(Updates(t)) /\ t.held = {t.whom}
  /\ t.at = "commit" => t.todo = <<>>

StillFound(t) ==
  Writing(t) =>
    /\ t.op = "follow" => <<t.user, t.whom>> \notin follows
    /\ t.op = "unfollow" => <<t.user, t.whom>> \in follows
    /\ t.op = "delete" => posts[t.post] = [author |-> t.user, live |-> TRUE]

SameRow(s, t) ==
  \/ s.op \in FollowOps /\ t.op \in FollowOps /\ s.user = t.user /\ s.whom = t.whom
  \/ s.op = "delete" /\ t.op = "delete" /\ s.post = t.post

\* Two transactions that have written do not exclude each other.
Compatible(s, t) ==
  /\ Writing(s) /\ Writing(t) => ~SameRow(s, t)
  /\ s.held \cap t.held = {}

TxsInv ==
  /\ \A c \in Clients : Sensible(tx[c]) /\ Ordered(tx[c]) /\ StillFound(tx[c])
  /\ \A c, d \in Clients : c # d => Compatible(tx[c], tx[d])

LEMMA TxsInvMeans ==
  TxsInv <=> RequestsMakeSense /\ UpdatesInOrder /\ RowsHeldOnce /\ FindingsLast
<1>1. (\A c \in Clients : Sensible(tx[c])) <=> RequestsMakeSense
  BY DEF Sensible, RequestsMakeSense, FollowOps
<1>2. (\A c \in Clients : Ordered(tx[c])) <=> UpdatesInOrder
  BY DEF Ordered, UpdatesInOrder, Wrote, Writing, FollowOps
<1>3. (\A c \in Clients : StillFound(tx[c])) <=> FindingsLast
  BY DEF StillFound, FindingsLast, Wrote, Writing
<1>4. (\A c, d \in Clients : c # d => Compatible(tx[c], tx[d])) <=> RowsHeldOnce
  <2>1. ASSUME NEW c \in Clients, NEW d \in Clients, RowsHeldOnce, c # d
        PROVE  Compatible(tx[c], tx[d])
    BY <2>1 DEF Compatible, RowsHeldOnce, SameRow, Writing, Wrote, FollowLocked, PostLocked,
                Others, FollowOps
  <2>2. ASSUME \A c, d \in Clients : c # d => Compatible(tx[c], tx[d])
        PROVE  RowsHeldOnce
    BY <2>2 DEF Compatible, RowsHeldOnce, SameRow, Writing, Wrote, FollowLocked, PostLocked,
                Others, FollowOps
  <2> QED BY <2>1, <2>2
<1> QED BY <1>1, <1>2, <1>3, <1>4 DEF TxsInv

LEMMA InvMeans == CountersInv <=> TypeOK /\ TxsInv /\ CountersExact
BY TxsInvMeans DEF CountersInv

\* The counters, one by one.
Exact ==
  \A u \in Users : /\ count[u]["followers"] = Cardinality(Followers(u))
                   /\ count[u]["following"] = Cardinality(Following(u))
                   /\ count[u]["posts"] = Cardinality(LivePosts(u))

LEMMA ExactMeans == TypeOK => (CountersExact <=> Exact)
<1> SUFFICES ASSUME TypeOK, NEW u \in Users
             PROVE  count[u] = Counted(u) <=>
                      /\ count[u]["followers"] = Cardinality(Followers(u))
                      /\ count[u]["following"] = Cardinality(Following(u))
                      /\ count[u]["posts"] = Cardinality(LivePosts(u))
  BY DEF CountersExact, Exact
<1>1. count[u] \in [Counters -> Int]
  BY DEF TypeOK
<1>2. /\ Counted(u) = [k \in Counters |-> Counted(u)[k]]
      /\ Counted(u)["followers"] = Cardinality(Followers(u))
      /\ Counted(u)["following"] = Cardinality(Following(u))
      /\ Counted(u)["posts"] = Cardinality(LivePosts(u))
  BY DEF Counted, Counters
<1> QED BY <1>1, <1>2 DEF Counters

\* No request is under way.
LEMMA NoTxFacts ==
  /\ NoTx \in Tx /\ Ordered(NoTx) /\ StillFound(NoTx) /\ Sensible(NoTx) /\ ~Writing(NoTx)
  /\ NoTx.held = {} /\ NoTx.at = "begin" /\ NoTx.op = "none"
BY EmptySeq DEF NoTx, Tx, Ordered, StillFound, Sensible, Writing

\* A statement that changes one transaction and no table keeps the invariant,
\* if what the transaction becomes fits the tables and the others.
LEMMA TxKeeps ==
  ASSUME CountersInv, UNCHANGED tables, begun' \in 0 .. MaxRequests,
         NEW c \in Clients, NEW r \in Tx, tx' = [tx EXCEPT ![c] = r],
         Sensible(r), Ordered(r), StillFound(r),
         \A d \in Clients \ {c} : Compatible(r, tx[d])
  PROVE  CountersInv'
<1>1. TypeOK /\ TxsInv /\ CountersExact
  BY InvMeans
<1>2. tx'[c] = r /\ \A d \in Clients : d # c => tx'[d] = tx[d]
  BY <1>1 DEF TypeOK
<1>3. follows' = follows /\ posts' = posts /\ count' = count
  BY DEF tables
<1>4. TypeOK'
  BY <1>1, <1>3 DEF TypeOK
<1>5. \A d \in Clients : (Sensible(tx[d]) /\ Ordered(tx[d]) /\ StillFound(tx[d]))'
  <2>1. (Sensible(r) /\ Ordered(r) /\ StillFound(r))'
    BY <1>3 DEF Sensible, Ordered, StillFound
  <2>2. ASSUME NEW d \in Clients, d # c
        PROVE  (Sensible(tx[d]) /\ Ordered(tx[d]) /\ StillFound(tx[d]))'
    BY <1>1, <1>2, <1>3, <2>2 DEF TxsInv, Sensible, Ordered, StillFound
  <2> QED BY <1>2, <2>1, <2>2
<1>6. \A d, e \in Clients : d # e => Compatible(tx[d], tx[e])'
  <2>1. \A s, t \in Tx : Compatible(s, t) <=> Compatible(t, s)
    BY DEF Compatible, SameRow
  <2>2. \A d \in Clients : tx[d] \in Tx
    BY <1>1 DEF TypeOK
  <2> QED BY <1>1, <1>2, <2>1, <2>2 DEF TxsInv
<1>7. CountersExact'
  <2>1. Exact
    BY <1>1, ExactMeans
  <2>2. Exact'
    BY <1>3, <2>1 DEF Exact, Followers, Following, LivePosts
  <2>3. (TypeOK => (CountersExact <=> Exact))'
    BY ExactMeans, PTL
  <2> QED BY <1>4, <2>2, <2>3
<1>8. TxsInv'
  BY <1>5, <1>6 DEF TxsInv
<1>9. (CountersInv <=> TypeOK /\ TxsInv /\ CountersExact)'
  BY InvMeans, PTL
<1> QED BY <1>4, <1>7, <1>8, <1>9

\* A transaction ends without effect: what it wrote is rolled back.
LEMMA EndInv ==
  ASSUME CountersInv, NEW c \in Clients, tx' = [tx EXCEPT ![c] = NoTx], UNCHANGED <<tables, begun>>
  PROVE  CountersInv'
<1>1. begun' \in 0 .. MaxRequests /\ UNCHANGED tables
  BY InvMeans DEF TypeOK
<1>2. \A d \in Clients : Compatible(NoTx, tx[d])
  BY NoTxFacts DEF Compatible
<1> QED BY <1>1, <1>2, NoTxFacts, TxKeeps

LEMMA BeginInv ==
  ASSUME CountersInv, NEW c \in Clients, Begin(c)
  PROVE  CountersInv'
<1>1. TypeOK /\ TxsInv /\ CountersExact
  BY InvMeans
<1>2. PICK r : /\ tx' = [tx EXCEPT ![c] = r]
               /\ r.op \in Requests /\ r.at = "row" /\ r.user \in Users
               /\ r \in Tx /\ r.todo = <<>> /\ r.held = {}
               /\ r.op \in FollowOps => r.whom \in Users \ {r.user}
               /\ r.op = "delete" => r.post \in DOMAIN posts
  <2>1. \/ \E op \in Requests \cap FollowOps, u \in Users : \E a \in Users \ {u} :
             Go(c, [NoTx EXCEPT !.op = op, !.at = "row", !.user = u, !.whom = a])
        \/ \E u \in Users :
             "create" \in Requests /\ Go(c, [NoTx EXCEPT !.op = "create", !.at = "row", !.user = u])
        \/ \E u \in Users, p \in DOMAIN posts :
             "delete" \in Requests
             /\ Go(c, [NoTx EXCEPT !.op = "delete", !.at = "row", !.user = u, !.post = p])
    BY Zenon DEF Begin, FollowOps
  <2>2. CASE \E op \in Requests \cap FollowOps, u \in Users : \E a \in Users \ {u} :
               Go(c, [NoTx EXCEPT !.op = op, !.at = "row", !.user = u, !.whom = a])
    <3>1. PICK op \in Requests \cap FollowOps, u \in Users, a \in Users :
                 /\ a # u
                 /\ Go(c, [NoTx EXCEPT !.op = op, !.at = "row", !.user = u, !.whom = a])
      BY <2>2
    <3> DEFINE r == [NoTx EXCEPT !.op = op, !.at = "row", !.user = u, !.whom = a]
    <3>2. /\ r \in Tx /\ r.op = op /\ r.at = "row" /\ r.user = u /\ r.whom = a
          /\ r.todo = <<>> /\ r.held = {}
      BY NoTxFacts DEF Tx, NoTx
    <3>3. tx' = [tx EXCEPT ![c] = r]
      BY <3>1 DEF Go
    <3> HIDE DEF r
    <3> QED BY <3>1, <3>2, <3>3 DEF FollowOps
  <2>3. CASE \E u \in Users :
               "create" \in Requests /\ Go(c, [NoTx EXCEPT !.op = "create", !.at = "row", !.user = u])
    <3>1. PICK u \in Users :
                 "create" \in Requests /\ Go(c, [NoTx EXCEPT !.op = "create", !.at = "row", !.user = u])
      BY <2>3
    <3> DEFINE r == [NoTx EXCEPT !.op = "create", !.at = "row", !.user = u]
    <3>2. /\ r \in Tx /\ r.op = "create" /\ r.at = "row" /\ r.user = u
          /\ r.todo = <<>> /\ r.held = {}
      BY <3>1, NoTxFacts DEF Tx, NoTx
    <3>3. tx' = [tx EXCEPT ![c] = r]
      BY <3>1 DEF Go
    <3> HIDE DEF r
    <3> QED BY <3>1, <3>2, <3>3 DEF FollowOps
  <2>4. CASE \E u \in Users, p \in DOMAIN posts :
               "delete" \in Requests
               /\ Go(c, [NoTx EXCEPT !.op = "delete", !.at = "row", !.user = u, !.post = p])
    <3>1. PICK u \in Users, p \in DOMAIN posts :
               "delete" \in Requests
               /\ Go(c, [NoTx EXCEPT !.op = "delete", !.at = "row", !.user = u, !.post = p])
      BY <2>4
    <3> DEFINE r == [NoTx EXCEPT !.op = "delete", !.at = "row", !.user = u, !.post = p]
    <3>2. p \in Nat
      BY <1>1 DEF TypeOK
    <3>3. /\ r \in Tx /\ r.op = "delete" /\ r.at = "row" /\ r.user = u /\ r.post = p
          /\ r.todo = <<>> /\ r.held = {}
      BY <3>1, <3>2, NoTxFacts DEF Tx, NoTx
    <3>4. tx' = [tx EXCEPT ![c] = r]
      BY <3>1 DEF Go
    <3> HIDE DEF r
    <3> QED BY <3>1, <3>3, <3>4 DEF FollowOps
  <2> QED BY <2>1, <2>2, <2>3, <2>4
<1>3. Sensible(r) /\ Ordered(r) /\ StillFound(r) /\ \A d \in Clients : Compatible(r, tx[d])
  BY <1>2 DEF Sensible, Ordered, StillFound, Compatible, Writing
<1>4. UNCHANGED tables /\ begun < MaxRequests /\ begun' = begun + 1
  BY Zenon DEF Begin
<1>5. begun' \in 0 .. MaxRequests
  BY <1>1, <1>4 DEF TypeOK
<1> QED BY <1>2, <1>3, <1>4, <1>5, TxKeeps

\* The row of a request is written, having been found as it has to be and held
\* by nobody else.
LEMMA WrittenInv ==
  ASSUME CountersInv, NEW c \in Clients, tx[c] # NoTx, tx[c].at = "row",
         Go(c, Written(tx[c])), UNCHANGED <<tables, begun>>,
         \A d \in Clients \ {c} : Writing(tx[d]) => ~SameRow(tx[c], tx[d]),
         tx[c].op = "follow" => <<tx[c].user, tx[c].whom>> \notin follows,
         tx[c].op = "unfollow" => <<tx[c].user, tx[c].whom>> \in follows,
         tx[c].op = "delete" =>
           posts[tx[c].post] = [author |-> tx[c].user, live |-> TRUE]
  PROVE  CountersInv'
<1> DEFINE t == tx[c]
           r == Written(tx[c])
<1>1. TypeOK /\ TxsInv /\ CountersExact
  BY InvMeans
<1>2. t \in Tx /\ Sensible(t) /\ Ordered(t) /\ t # NoTx
  BY <1>1 DEF TypeOK, TxsInv
<1>3. Updates(t) \in Seq(UserUpdates)
  BY <1>2, UpdatesTyped DEF Sensible
<1>4. /\ r \in Tx /\ r.at = "update" /\ r.op = t.op /\ r.user = t.user /\ r.whom = t.whom
      /\ r.post = t.post /\ r.held = t.held /\ r.todo = Updates(t)
  BY <1>2, <1>3 DEF Written, Tx
<1>5. Updates(r) = Updates(t)
  BY <1>4 DEF Updates
<1>6. r.held = {}
  BY <1>2, <1>4 DEF Ordered, Writing
<1>7. Sensible(r)
  BY <1>2, <1>4 DEF Sensible
<1>8. Ordered(r)
  BY <1>4, <1>5, <1>6 DEF Ordered, Writing
<1>9. StillFound(r)
  BY <1>4 DEF StillFound
<1>10. \A d \in Clients \ {c} : Compatible(r, tx[d])
  BY <1>4, <1>6 DEF Compatible, SameRow
<1>11. tx' = [tx EXCEPT ![c] = r] /\ begun' \in 0 .. MaxRequests /\ UNCHANGED tables
  BY <1>1 DEF Go, TypeOK
<1> HIDE DEF t, r
<1> QED BY <1>4, <1>7, <1>8, <1>9, <1>10, <1>11, TxKeeps

LEMMA RowInv ==
  ASSUME CountersInv, NEW c \in Clients,
         InsertFollow(c) \/ DeleteFollow(c) \/ InsertPost(c) \/ SoftDeletePost(c)
  PROVE  CountersInv'
<1> DEFINE row == <<tx[c].user, tx[c].whom>>
<1>1. tx[c] # NoTx /\ tx[c].at = "row" /\ UNCHANGED <<tables, begun>>
  BY NoTxFacts DEF InsertFollow, DeleteFollow, InsertPost, SoftDeletePost
<1>2. ASSUME Go(c, NoTx) PROVE CountersInv'
  BY <1>1, <1>2, EndInv DEF Go
<1>3. CASE InsertFollow(c)
  <2>1. tx[c].op = "follow" /\ ~FollowLocked(c)
    BY <1>3 DEF InsertFollow
  <2>2. row \in follows => Go(c, NoTx)
    BY <1>3 DEF InsertFollow
  <2>3. row \notin follows => Go(c, Written(tx[c]))
    BY <1>3 DEF InsertFollow
  <2>4. \A d \in Clients \ {c} : Writing(tx[d]) => ~SameRow(tx[c], tx[d])
    BY <2>1 DEF FollowLocked, Others, Wrote, Writing, SameRow, FollowOps
  <2> QED BY <1>1, <1>2, <2>1, <2>2, <2>3, <2>4, WrittenInv
<1>4. CASE DeleteFollow(c)
  <2>1. tx[c].op = "unfollow" /\ (row \in follows => ~FollowLocked(c))
    BY <1>4 DEF DeleteFollow
  <2>2. row \notin follows => Go(c, NoTx)
    BY <1>4 DEF DeleteFollow
  <2>3. row \in follows => Go(c, Written(tx[c]))
    BY <1>4 DEF DeleteFollow
  <2>4. row \in follows => \A d \in Clients \ {c} : Writing(tx[d]) => ~SameRow(tx[c], tx[d])
    BY <2>1 DEF FollowLocked, Others, Wrote, Writing, SameRow, FollowOps
  <2> QED BY <1>1, <1>2, <2>1, <2>2, <2>3, <2>4, WrittenInv
<1>5. CASE InsertPost(c)
  <2>1. tx[c].op = "create" /\ Go(c, Written(tx[c]))
    BY <1>5 DEF InsertPost
  <2>2. \A d \in Clients : ~SameRow(tx[c], tx[d])
    BY <2>1 DEF SameRow, FollowOps
  <2> QED BY <1>1, <2>1, <2>2, WrittenInv
<1>6. CASE SoftDeletePost(c)
  <2> DEFINE found == posts[tx[c].post] = [author |-> tx[c].user, live |-> TRUE]
  <2>1. tx[c].op = "delete" /\ ~PostLocked(c)
    BY <1>6 DEF SoftDeletePost
  <2>2. ~found => Go(c, NoTx)
    BY <1>6 DEF SoftDeletePost
  <2>3. found => Go(c, Written(tx[c]))
    BY <1>6 DEF SoftDeletePost
  <2>4. \A d \in Clients \ {c} : Writing(tx[d]) => ~SameRow(tx[c], tx[d])
    BY <2>1 DEF PostLocked, Others, Wrote, Writing, SameRow, FollowOps
  <2> QED BY <1>1, <1>2, <2>1, <2>2, <2>3, <2>4, WrittenInv
<1> QED BY <1>3, <1>4, <1>5, <1>6

\* An UPDATE of users waits for nobody and takes one more of them.
LEMMA UpdateUserInv ==
  ASSUME CountersInv, NEW c \in Clients, UpdateUser(c)
  PROVE  CountersInv'
<1> DEFINE t == tx[c]
           u == Head(t.todo)[1]
           r == [t EXCEPT !.todo = Tail(@), !.held = @ \cup {u},
                          !.at = IF Len(t.todo) = 1 THEN "commit" ELSE "update"]
<1>1. TypeOK /\ TxsInv /\ CountersExact
  BY InvMeans
<1>2. /\ t.at = "update" /\ ~Waits(c) /\ tx' = [tx EXCEPT ![c] = r]
      /\ UNCHANGED <<tables, begun>>
  BY DEF UpdateUser, Go
<1>3. t \in Tx /\ Sensible(t) /\ Ordered(t) /\ StillFound(t) /\ t # NoTx
  BY <1>1, <1>2, NoTxFacts DEF TypeOK, TxsInv
<1>4. /\ t.user \in Users /\ (t.op \in FollowOps => t.whom \in Users) /\ t.op # "none"
  BY <1>3 DEF Sensible
<1>5. \/ t.todo = Updates(t) /\ t.held = {}
      \/ t.op \in FollowOps /\ t.todo = Tail(Updates(t)) /\ t.held = {t.whom}
  BY <1>2, <1>3 DEF Ordered
<1>6. /\ Tail(t.todo) \in Seq(UserUpdates) /\ u \in Users
      /\ Len(t.todo) = 1 => Tail(t.todo) = <<>>
      /\ Len(t.todo) # 1 => /\ t.op \in FollowOps /\ t.held = {} /\ u = t.whom
                            /\ Tail(t.todo) = Tail(Updates(t))
  <2>1. CASE t.todo = Updates(t) /\ t.held = {} /\ t.op \in FollowOps
    BY <1>3, <1>4, <2>1, UpdatesTyped, HeadTailProperties
  <2>2. CASE t.todo = Updates(t) /\ t.held = {} /\ t.op \notin FollowOps
    BY <1>3, <1>4, <2>2, UpdatesTyped, EmptySeq
  <2>3. CASE t.op \in FollowOps /\ t.todo = Tail(Updates(t)) /\ t.held = {t.whom}
    BY <1>3, <1>4, <2>3, UpdatesTyped, EmptySeq
  <2> QED BY <1>5, <2>1, <2>2, <2>3
<1>7. /\ r \in Tx /\ r.op = t.op /\ r.user = t.user /\ r.whom = t.whom /\ r.post = t.post
      /\ r.held = t.held \cup {u} /\ r.todo = Tail(t.todo)
      /\ r.at = IF Len(t.todo) = 1 THEN "commit" ELSE "update"
  BY <1>3, <1>6 DEF Tx
<1>8. Updates(r) = Updates(t)
  BY <1>7 DEF Updates
<1>9. Sensible(r)
  BY <1>2, <1>3, <1>7 DEF Sensible
<1>10. Ordered(r)
  <2> HIDE DEF r, t, u
  <2> QED BY <1>6, <1>7, <1>8 DEF Ordered, Writing
<1>11. StillFound(r)
  BY <1>2, <1>3, <1>7 DEF StillFound, Writing
<1>12. ASSUME NEW d \in Clients \ {c} PROVE Compatible(r, tx[d])
  <2>1. u \notin tx[d].held
    BY <1>2 DEF Waits, WaitsFor
  <2>2. Compatible(t, tx[d])
    BY <1>1 DEF TxsInv
  <2> HIDE DEF r, t, u
  <2> QED BY <1>2, <1>7, <2>1, <2>2 DEF Compatible, Writing, SameRow, t
<1>13. begun' \in 0 .. MaxRequests /\ UNCHANGED tables
  BY <1>1, <1>2 DEF TypeOK
<1> HIDE DEF r
<1> QED BY <1>2, <1>7, <1>9, <1>10, <1>11, <1>12, <1>13, TxKeeps

\* COMMIT: the row that was found is still as it was found, so it is one more
\* or one less, and the counters change by as much.
LEMMA CommitInv ==
  ASSUME CountersInv, NEW c \in Clients, Commit(c)
  PROVE  CountersInv'
<1> DEFINE t == tx[c]
<1>1. TypeOK /\ TxsInv /\ Exact
  BY InvMeans, ExactMeans
<1>2. /\ t.at = "commit" /\ tx' = [tx EXCEPT ![c] = NoTx] /\ begun' = begun
      /\ follows' = CASE t.op = "follow" -> follows \cup {<<t.user, t.whom>>}
                      [] t.op = "unfollow" -> follows \ {<<t.user, t.whom>>}
                      [] OTHER -> follows
      /\ posts' = CASE t.op = "create" -> Append(posts, [author |-> t.user, live |-> TRUE])
                    [] t.op = "delete" -> [posts EXCEPT ![t.post].live = FALSE]
                    [] OTHER -> posts
      /\ count' = [u \in Users |-> [k \in Counters |-> count[u][k] + Delta(t, u, k)]]
  BY DEF Commit, Go
<1>3. /\ t \in Tx /\ t # NoTx /\ t.op \in {"follow", "unfollow", "create", "delete"}
      /\ t.user \in Users /\ (t.op \in FollowOps => t.whom \in Users /\ t.whom # t.user)
      /\ t.op = "delete" => t.post \in DOMAIN posts
      /\ StillFound(t) /\ Writing(t)
  BY <1>1, <1>2, NoTxFacts DEF TypeOK, TxsInv, Sensible, Tx, Writing
<1>4. tx'[c] = NoTx /\ \A d \in Clients : d # c => tx'[d] = tx[d]
  BY <1>1, <1>2 DEF TypeOK
<1>5. \A u \in Users : /\ count[u]["followers"] \in Int /\ count[u]["following"] \in Int
                       /\ count[u]["posts"] \in Int
  BY <1>1 DEF TypeOK, Counters
<1>6. \A u \in Users, k \in Counters : Delta(t, u, k) \in Int
  BY <1>3, DeltaByKind DEF Counters
<1>7. \A u \in Users, k \in Counters : count'[u][k] = count[u][k] + Delta(t, u, k)
  BY <1>2
<1>8. posts' \in Seq([author : Users, live : BOOLEAN]) /\ DOMAIN posts \subseteq DOMAIN posts'
  <2>1. posts \in Seq([author : Users, live : BOOLEAN])
    BY <1>1 DEF TypeOK
  <2>2. CASE t.op = "create"
    BY <1>2, <1>3, <2>1, <2>2
  <2>3. CASE t.op = "delete"
    <3> DEFINE P == [author : Users, live : BOOLEAN]
    <3>0. posts \in Seq(P) /\ t.post \in DOMAIN posts
      BY <1>3, <2>1, <2>3
    <3> HIDE DEF P
    <3>1. posts[t.post] \in P
      BY <3>0
    <3> DEFINE r == [posts[t.post] EXCEPT !.live = FALSE]
    <3>2. r \in P
      BY <3>1 DEF P
    <3>3. posts' = [posts EXCEPT ![t.post] = r]
      BY <1>2, <2>3
    <3> HIDE DEF r
    <3>4. posts' \in Seq(P) /\ DOMAIN posts' = DOMAIN posts
      BY <3>0, <3>2, <3>3, ExceptSeq
    <3> QED BY <3>4 DEF P
  <2>4. CASE t.op \in FollowOps
    BY <1>2, <2>1, <2>4 DEF FollowOps
  <2> QED BY <1>3, <2>2, <2>3, <2>4 DEF FollowOps
<1>9. TypeOK'
  <2>1. follows' \subseteq Users \X Users
    BY <1>1, <1>2, <1>3 DEF TypeOK, FollowOps
  <2>2. count' \in [Users -> [Counters -> Int]]
    BY <1>1, <1>2, <1>6 DEF TypeOK
  <2>3. tx' \in [Clients -> Tx]
    BY <1>1, <1>2, NoTxFacts DEF TypeOK
  <2>4. begun' \in 0 .. MaxRequests
    BY <1>1, <1>2 DEF TypeOK
  <2> QED BY <1>8, <2>1, <2>2, <2>3, <2>4 DEF TypeOK
<1>10. ASSUME NEW d \in Clients, d # c
       PROVE  StillFound(tx[d])'
  <2>1. StillFound(tx[d]) /\ Sensible(tx[d]) /\ (Writing(tx[d]) => ~SameRow(t, tx[d]))
    BY <1>1, <1>3, <1>10 DEF TxsInv, Compatible
  <2>2. tx[d] # NoTx => Sensible(tx[d])
    BY <2>1
  <2>3. tx'[d] = tx[d]
    BY <1>4, <1>10
  <2> DEFINE e == tx[d]
  <2>4. ASSUME Writing(e), e.op \in FollowOps
        PROVE  <<e.user, e.whom>> \in follows' <=> <<e.user, e.whom>> \in follows
    BY <1>2, <2>1, <2>4 DEF SameRow, FollowOps
  <2>5. ASSUME Writing(e), e.op = "delete"
        PROVE  posts'[e.post] = posts[e.post]
    <3>1. e.post \in DOMAIN posts
      BY <2>1, <2>5, NoTxFacts DEF Sensible
    <3>2. posts \in Seq([author : Users, live : BOOLEAN])
      BY <1>1 DEF TypeOK
    <3> QED BY <1>2, <1>3, <2>1, <2>5, <3>1, <3>2 DEF SameRow
  <2> HIDE DEF e
  <2>6. (Writing(e) =>
          /\ e.op = "follow" => <<e.user, e.whom>> \notin follows'
          /\ e.op = "unfollow" => <<e.user, e.whom>> \in follows'
          /\ e.op = "delete" => posts'[e.post] = [author |-> e.user, live |-> TRUE])
    BY <2>1, <2>4, <2>5 DEF StillFound, FollowOps, e
  <2> QED BY <2>3, <2>6 DEF StillFound, Writing, e
<1>11. TxsInv'
  <2>1. \A d \in Clients : (Sensible(tx[d]) /\ Ordered(tx[d]) /\ StillFound(tx[d]))'
    <3>1. (Sensible(NoTx) /\ Ordered(NoTx) /\ StillFound(NoTx))'
      BY NoTxFacts, PTL
    <3>2. ASSUME NEW d \in Clients, d # c
          PROVE  (Sensible(tx[d]) /\ Ordered(tx[d]))'
      BY <1>1, <1>4, <1>8, <3>2 DEF TxsInv, Sensible, Ordered
    <3> QED BY <1>4, <1>10, <3>1, <3>2
  <2>2. \A d, e \in Clients : d # e => Compatible(tx[d], tx[e])'
    <3>1. \A s : Compatible(s, NoTx) /\ Compatible(NoTx, s)
      BY NoTxFacts DEF Compatible
    <3> QED BY <1>1, <1>4, <3>1 DEF TxsInv
  <2> QED BY <2>1, <2>2 DEF TxsInv
<1>12. Exact'
  <2> SUFFICES ASSUME NEW u \in Users
               PROVE  /\ count'[u]["followers"] = Cardinality(Followers(u)')
                      /\ count'[u]["following"] = Cardinality(Following(u)')
                      /\ count'[u]["posts"] = Cardinality(LivePosts(u)')
    BY DEF Exact
  <2>1. /\ count'[u]["followers"] = count[u]["followers"] + Delta(t, u, "followers")
        /\ count'[u]["following"] = count[u]["following"] + Delta(t, u, "following")
        /\ count'[u]["posts"] = count[u]["posts"] + Delta(t, u, "posts")
    BY <1>7 DEF Counters
  <2>2. /\ count[u]["followers"] = Cardinality(Followers(u))
        /\ count[u]["following"] = Cardinality(Following(u))
        /\ count[u]["posts"] = Cardinality(LivePosts(u))
    BY <1>1 DEF Exact
  <2>3. IsFiniteSet(Followers(u)) /\ IsFiniteSet(Following(u)) /\ IsFiniteSet(LivePosts(u))
    <3>1. posts \in Seq([author : Users, live : BOOLEAN])
      BY <1>1 DEF TypeOK
    <3>2. LivePosts(u) \subseteq 1 .. Len(posts) /\ Len(posts) \in Nat
      BY <3>1 DEF LivePosts
    <3>3. Followers(u) \subseteq Users /\ Following(u) \subseteq Users
      BY DEF Followers, Following
    <3>4. IsFiniteSet(1 .. Len(posts))
      BY <3>2, FS_Interval
    <3>5. IsFiniteSet(LivePosts(u))
      BY <3>2, <3>4, FS_Subset
    <3>6. IsFiniteSet(Followers(u)) /\ IsFiniteSet(Following(u))
      BY <3>3, FS_Subset
    <3> QED BY <3>5, <3>6
  <2>4. /\ Cardinality(Followers(u)) \in Int /\ Cardinality(Following(u)) \in Int
        /\ Cardinality(LivePosts(u)) \in Int
    BY <2>3, FS_CardinalityType
  <2>5. CASE t.op = "follow"
    <3>1. /\ Followers(u)' = IF u = t.whom THEN Followers(u) \cup {t.user} ELSE Followers(u)
          /\ t.user \notin Followers(t.whom)
      BY <1>2, <1>3, <2>5 DEF Followers, FollowOps, StillFound
    <3>2. /\ Following(u)' = IF u = t.user THEN Following(u) \cup {t.whom} ELSE Following(u)
          /\ t.whom \notin Following(t.user)
      BY <1>2, <1>3, <2>5 DEF Following, FollowOps, StillFound
    <3>3. posts' = posts
      BY <1>2, <2>5
    <3>4. LivePosts(u)' = LivePosts(u)
      BY <3>3 DEF LivePosts
    <3>5. /\ Cardinality(Followers(u)') = Cardinality(Followers(u)) + Delta(t, u, "followers")
          /\ Cardinality(Following(u)') = Cardinality(Following(u)) + Delta(t, u, "following")
          /\ Delta(t, u, "posts") = 0
      <4>1. /\ Delta(t, u, "followers") = IF u = t.whom THEN 1 ELSE 0
            /\ Delta(t, u, "following") = IF u = t.user THEN 1 ELSE 0
            /\ Delta(t, u, "posts") = 0
        BY <2>5, DeltaByKind
      <4>2. u = t.whom => Cardinality(Followers(u) \cup {t.user}) = Cardinality(Followers(u)) + 1
        BY <2>3, <2>4, <3>1, FS_AddElement
      <4>3. u = t.user => Cardinality(Following(u) \cup {t.whom}) = Cardinality(Following(u)) + 1
        BY <2>3, <2>4, <3>2, FS_AddElement
      <4> QED BY <2>4, <3>1, <3>2, <4>1, <4>2, <4>3
    <3> QED BY <2>1, <2>2, <2>4, <3>4, <3>5
  <2>6. CASE t.op = "unfollow"
    <3>1. /\ Followers(u)' = IF u = t.whom THEN Followers(u) \ {t.user} ELSE Followers(u)
          /\ t.user \in Followers(t.whom)
      BY <1>2, <1>3, <2>6 DEF Followers, FollowOps, StillFound
    <3>2. /\ Following(u)' = IF u = t.user THEN Following(u) \ {t.whom} ELSE Following(u)
          /\ t.whom \in Following(t.user)
      BY <1>2, <1>3, <2>6 DEF Following, FollowOps, StillFound
    <3>3. posts' = posts
      BY <1>2, <2>6
    <3>4. LivePosts(u)' = LivePosts(u)
      BY <3>3 DEF LivePosts
    <3>5. /\ Cardinality(Followers(u)') = Cardinality(Followers(u)) + Delta(t, u, "followers")
          /\ Cardinality(Following(u)') = Cardinality(Following(u)) + Delta(t, u, "following")
          /\ Delta(t, u, "posts") = 0
      <4>1. /\ Delta(t, u, "followers") = IF u = t.whom THEN -1 ELSE 0
            /\ Delta(t, u, "following") = IF u = t.user THEN -1 ELSE 0
            /\ Delta(t, u, "posts") = 0
        BY <2>6, DeltaByKind
      <4>2. u = t.whom => Cardinality(Followers(u) \ {t.user}) = Cardinality(Followers(u)) + -1
        BY <2>3, <2>4, <3>1, FS_RemoveElement
      <4>3. u = t.user => Cardinality(Following(u) \ {t.whom}) = Cardinality(Following(u)) + -1
        BY <2>3, <2>4, <3>2, FS_RemoveElement
      <4> QED BY <2>4, <3>1, <3>2, <4>1, <4>2, <4>3
    <3> QED BY <2>1, <2>2, <2>4, <3>4, <3>5
  <2>7. CASE t.op = "create"
    <3> DEFINE new == Len(posts) + 1
    <3>1. posts \in Seq([author : Users, live : BOOLEAN])
      BY <1>1 DEF TypeOK
    <3>2. /\ LivePosts(u)' = IF u = t.user THEN LivePosts(u) \cup {new} ELSE LivePosts(u)
          /\ new \notin LivePosts(u)
      BY <1>2, <2>7, <3>1 DEF LivePosts
    <3>3. Followers(u)' = Followers(u) /\ Following(u)' = Following(u)
      BY <1>2, <2>7 DEF Followers, Following
    <3>4. /\ Cardinality(LivePosts(u)') = Cardinality(LivePosts(u)) + Delta(t, u, "posts")
          /\ Delta(t, u, "followers") = 0 /\ Delta(t, u, "following") = 0
      <4>1. /\ Delta(t, u, "posts") = IF u = t.user THEN 1 ELSE 0
            /\ Delta(t, u, "followers") = 0 /\ Delta(t, u, "following") = 0
        BY <2>7, DeltaByKind
      <4>2. u = t.user => Cardinality(LivePosts(u) \cup {new}) = Cardinality(LivePosts(u)) + 1
        BY <2>3, <2>4, <3>2, FS_AddElement
      <4> QED BY <2>4, <3>2, <4>1, <4>2
    <3> QED BY <2>1, <2>2, <2>4, <3>3, <3>4
  <2>8. CASE t.op = "delete"
    <3>1. posts \in Seq([author : Users, live : BOOLEAN])
      BY <1>1 DEF TypeOK
    <3>2. /\ LivePosts(u)' = IF u = t.user THEN LivePosts(u) \ {t.post} ELSE LivePosts(u)
          /\ t.post \in LivePosts(t.user)
      BY <1>2, <1>3, <2>8, <3>1 DEF LivePosts, StillFound
    <3>3. Followers(u)' = Followers(u) /\ Following(u)' = Following(u)
      BY <1>2, <2>8 DEF Followers, Following
    <3>4. /\ Cardinality(LivePosts(u)') = Cardinality(LivePosts(u)) + Delta(t, u, "posts")
          /\ Delta(t, u, "followers") = 0 /\ Delta(t, u, "following") = 0
      <4>1. /\ Delta(t, u, "posts") = IF u = t.user THEN -1 ELSE 0
            /\ Delta(t, u, "followers") = 0 /\ Delta(t, u, "following") = 0
        BY <2>8, DeltaByKind
      <4>2. u = t.user => Cardinality(LivePosts(u) \ {t.post}) = Cardinality(LivePosts(u)) + -1
        BY <2>3, <2>4, <3>2, FS_RemoveElement
      <4> QED BY <2>4, <3>2, <4>1, <4>2
    <3> QED BY <2>1, <2>2, <2>4, <3>3, <3>4
  <2> QED BY <1>3, <2>5, <2>6, <2>7, <2>8
<1>13. (CountersInv <=> TypeOK /\ TxsInv /\ CountersExact)' /\ (TypeOK => (CountersExact <=> Exact))'
  BY InvMeans, ExactMeans, PTL
<1> QED BY <1>9, <1>11, <1>12, <1>13

\* The invariant holds at the start.
LEMMA InitInv == Init => CountersInv
<1> SUFFICES ASSUME Init PROVE CountersInv
  OBVIOUS
<1>1. CountersExact
  BY DEF Init, CountersExact
<1>2. TxsInv
  BY NoTxFacts DEF Init, TxsInv, Compatible
<1>3. TypeOK
  <2>1. ASSUME NEW u \in Users
        PROVE  Counted(u) \in [Counters -> Int]
    <3>1. IsFiniteSet(Followers(u)) /\ IsFiniteSet(Following(u))
      <4>1. Followers(u) \subseteq Users /\ Following(u) \subseteq Users
        BY DEF Followers, Following
      <4> QED BY <4>1, FS_Subset
    <3>2. LivePosts(u) = {}
      BY DEF Init, LivePosts
    <3>3. /\ Cardinality(Followers(u)) \in Int /\ Cardinality(Following(u)) \in Int
          /\ Cardinality(LivePosts(u)) \in Int
      BY <3>1, <3>2, FS_CardinalityType, FS_EmptySet
    <3> QED BY <3>3 DEF Counted, Counters
  <2>2. tx \in [Clients -> Tx]
    BY NoTxFacts DEF Init
  <2>3. posts \in Seq([author : Users, live : BOOLEAN])
    BY EmptySeq DEF Init
  <2> QED BY <2>1, <2>2, <2>3 DEF Init, TypeOK
<1> QED BY <1>1, <1>2, <1>3, InvMeans

\* Every step keeps the invariant.
LEMMA NextInv == CountersInv /\ [Next]_vars => CountersInv'
<1> SUFFICES ASSUME CountersInv, [Next]_vars PROVE CountersInv'
  OBVIOUS
<1>1. ASSUME NEW c \in Clients, Begin(c) PROVE CountersInv'
  BY <1>1, BeginInv
<1>2. ASSUME NEW c \in Clients, Statement(c) PROVE CountersInv'
  <2>1. ASSUME InsertFollow(c) \/ DeleteFollow(c) \/ InsertPost(c) \/ SoftDeletePost(c)
        PROVE  CountersInv'
    BY <2>1, RowInv
  <2>2. ASSUME UpdateUser(c) PROVE CountersInv'
    BY <2>2, UpdateUserInv
  <2>3. ASSUME Commit(c) PROVE CountersInv'
    BY <2>3, CommitInv
  <2>4. ASSUME DeadlockVictim(c) PROVE CountersInv'
    BY <2>4, EndInv DEF DeadlockVictim, Go
  <2> QED BY <1>2, <2>1, <2>2, <2>3, <2>4 DEF Statement
<1>3. ASSUME NEW c \in Clients, Abort(c) PROVE CountersInv'
  BY <1>3, EndInv DEF Abort, Go
<1>4. CASE UNCHANGED vars
  <2>1. TypeOK /\ RequestsMakeSense /\ UpdatesInOrder /\ RowsHeldOnce /\ FindingsLast /\ Exact
    BY ExactMeans DEF CountersInv
  <2>2. (TypeOK /\ RequestsMakeSense /\ FindingsLast /\ UpdatesInOrder /\ RowsHeldOnce)'
    BY <1>4, <2>1 DEF vars, TypeOK, RequestsMakeSense, FindingsLast, UpdatesInOrder,
         RowsHeldOnce, Wrote, FollowLocked, PostLocked
  <2>3. Exact'
    BY <1>4, <2>1 DEF vars, Exact, Followers, Following, LivePosts
  <2>4. (TypeOK => (CountersExact <=> Exact))'
    BY ExactMeans, PTL
  <2> QED BY <2>2, <2>3, <2>4 DEF CountersInv
<1> QED BY <1>1, <1>2, <1>3, <1>4 DEF Next

\* The inductive invariant holds in every state, however many requests run at
\* a time, deadlock or are rolled back.
THEOREM CountersInvariant == Spec => []CountersInv
BY InitInv, NextInv, PTL DEF Spec

\* The counters of every user count the rows, for any number of concurrent
\* follows, unfollows, posts and deletes.
THEOREM CountersCountRows == Spec => []CountersExact
<1>1. CountersInv => CountersExact
  BY DEF CountersInv
<1> QED BY <1>1, CountersInvariant, PTL

\* Every variable keeps its type.
THEOREM TypeCorrect == Spec => []TypeOK
<1>1. CountersInv => TypeOK
  BY DEF CountersInv
<1> QED BY <1>1, CountersInvariant, PTL

\* Only follows and unfollows deadlock, in circles in which each acts on the
\* next user: who waits and is waited for has updated one of two users, and so
\* has whoever it waits for.
LEMMA CirclesOfFollows == CountersInv => OnlyFollowCirclesDeadlock
<1> SUFFICES ASSUME CountersInv, NEW c \in Clients, NEW d \in Clients, InCircle(c), WaitsFor(c, d)
             PROVE  /\ tx[c].op \in FollowOps /\ tx[d].op \in FollowOps
                    /\ tx[d].whom = tx[c].user
  BY DEF OnlyFollowCirclesDeadlock, FollowOps
<1>1. PICK S \in SUBSET Clients :
        /\ c \in S
        /\ \A e \in S : (\E f \in S : WaitsFor(e, f)) /\ (\E f \in S : WaitsFor(f, e))
  BY DEF InCircle
<1>2. TypeOK /\ TxsInv
  BY InvMeans
<1>3. ASSUME NEW e \in S
      PROVE  /\ tx[e].at = "update" /\ tx[e].op \in FollowOps /\ tx[e].held = {tx[e].whom}
             /\ Head(tx[e].todo)[1] = tx[e].user
  <2>1. e \in Clients /\ tx[e].at = "update" /\ tx[e].held # {}
    BY <1>1 DEF WaitsFor
  <2>2. tx[e] \in Tx /\ Sensible(tx[e]) /\ Ordered(tx[e]) /\ tx[e] # NoTx
    BY <1>2, <2>1, NoTxFacts DEF TypeOK, TxsInv
  <2>3. /\ tx[e].op \in FollowOps /\ tx[e].todo = Tail(Updates(tx[e]))
        /\ tx[e].held = {tx[e].whom}
    BY <2>1, <2>2 DEF Ordered
  <2>4. Head(Tail(Updates(tx[e])))[1] = tx[e].user
    BY <2>2, <2>3, UpdatesTyped DEF Sensible
  <2> QED BY <2>1, <2>3, <2>4
<1>4. PICK e \in S : WaitsFor(c, e)
  BY <1>1
<1>5. tx[c].user \in tx[d].held /\ tx[c].user \in tx[e].held
  BY <1>1, <1>3, <1>4 DEF WaitsFor
<1>6. d = e
  BY <1>2, <1>5 DEF TxsInv, Compatible
<1> QED BY <1>1, <1>3, <1>5, <1>6

\* Requests deadlock only in circles of follows and unfollows.
THEOREM DeadlocksAreFollowCircles == Spec => []OnlyFollowCirclesDeadlock
BY CirclesOfFollows, CountersInvariant, PTL
=================================================================================
