------------------------------- MODULE FeedPipeline -------------------------------
(***************************************************************************)
(* The feed: posts and follows in Postgres, the event stream, the handlers *)
(* that keep every follower's feed cache up to date                        *)
(* (internal/worker/handler.go) and the reader that warms and pages        *)
(* through it (internal/service/feed.go).                                  *)
(*                                                                         *)
(* A request commits to Postgres and then publishes an event, two steps    *)
(* with everybody else in between. The stream is the contract of           *)
(* EventDelivery, which FeedQueue implements: any worker may be handed     *)
(* whatever that allows (MayTake). A handler reads Postgres once and then  *)
(* touches one cache per step.                                             *)
(***************************************************************************)
EXTENDS FeedCache, Sequences, SequencesExt

CONSTANTS
  Users,          \* the accounts
  Workers,        \* the worker goroutines
  Readers,        \* the users that open their feed
  InitFollows,    \* follows that exist before the first post
  BackfillLimit,  \* backfillLimit of handleUserFollowed
  RemoveLimit,    \* removeLimit of handleUserUnfollowed
  CacheWarmLimit, \* posts warmCache reads
  PageLimit,      \* the limit of a feed request
  InFlight,       \* bound: requests of one user between commit and publish
  Bound           \* bounds: how often each kind of step is taken

ASSUME LimitsAssumption ==
  /\ FeedCacheCap \in Nat \ {0} /\ BackfillLimit \in Nat /\ RemoveLimit \in Nat
  /\ CacheWarmLimit \in Nat /\ PageLimit \in Nat \ {0}
  /\ InFlight \in Nat

ASSUME ReadersAssumption == Readers \subseteq Users

\* The check no_self_follow of the follows table.
ASSUME FollowsAssumption ==
  InitFollows \subseteq Users \X Users /\ \A u \in Users : <<u, u>> \notin InitFollows

Kinds == {"posts", "deletes", "follows", "unfollows", "expiries", "crashes",
          "failures", "lost", "resent", "reads", "steps"}  \* steps: all of them

ASSUME BoundAssumption == Bound \in [Kinds -> Nat]

VARIABLES
  posts,      \* the posts table: author and deleted_at of every post, by id
  follows,    \* the follows table: <<follower, followee>>
  inFlight,   \* events of committed requests that have not been published
  stream,     \* published events
  job,        \* what each worker is doing
  attempted,  \* entries some handler was started on
  settled,    \* entries acknowledged
  cache,      \* the feed caches
  reader,     \* what each reader is doing
  everFollowed, \* history: follows that ever existed
  owed,       \* history: <<user, post>> of the author and of each user that
              \* followed the author when the post was committed and ever since
  inOrder,    \* history: events were handed out one at a time in stream order
  spoiled,    \* history: <<user, post>> whose add failed or was undone
  used        \* steps of each kind taken so far

db == <<posts, follows, everFollowed, owed>>
delivery == <<job, attempted, settled, inOrder>>
vars == <<posts, follows, inFlight, stream, job, attempted, settled, cache, reader,
          everFollowed, owed, inOrder, spoiled, used>>

---------------------------------------------------------------------------------
(* Postgres *)

PostIds == 1 .. Len(posts)
LiveBy(authors) == {p \in PostIds : posts[p].author \in authors /\ posts[p].live}

GetFollowerIDs(a) == {u \in Users : <<u, a>> \in follows}
GetFolloweeIDs(u) == {a \in Users : <<u, a>> \in follows}
GetRecentPostsByUser(a, limit) == Newest(LiveBy({a}), limit)
GetFeedPostIDs(authors, limit) == Newest(LiveBy(authors), limit)

---------------------------------------------------------------------------------
(* The handlers: the cache operations an event comes to, given the tables *)

Op(kind, u, p) == [kind |-> kind, user |-> u, post |-> p]

handlePostCreated(ev) ==
  {Op("add", u, ev.post) : u \in GetFollowerIDs(ev.author) \cup {ev.author}}

handlePostDeleted(ev) ==
  {Op("remove", u, ev.post) : u \in GetFollowerIDs(ev.author) \cup {ev.author}}

\* Mutant: follower and followee swapped.
BackfillFollowee(ev) ==
  {Op("add", ev.followee, p) : p \in GetRecentPostsByUser(ev.follower, BackfillLimit)}

handleUserFollowed(ev) ==
  {Op("add", ev.follower, p) : p \in GetRecentPostsByUser(ev.followee, BackfillLimit)}

\* Mutant: follower and followee swapped.
RemoveFromFollowee(ev) ==
  {Op("remove", ev.followee, p) : p \in GetRecentPostsByUser(ev.follower, RemoveLimit)}

handleUserUnfollowed(ev) ==
  {Op("remove", ev.follower, p) : p \in GetRecentPostsByUser(ev.followee, RemoveLimit)}

HandleEvent(ev) ==
  CASE ev.type = "post_created" -> handlePostCreated(ev)
    [] ev.type = "post_deleted" -> handlePostDeleted(ev)
    [] ev.type = "user_followed" -> handleUserFollowed(ev)
    [] ev.type = "user_unfollowed" -> handleUserUnfollowed(ev)

\* The order of the loops: followers as the database returns them (there is
\* no ORDER BY) and the author last; a user's posts newest first.
MayComeNext(op, ev, todo) ==
  IF ev.type \in {"post_created", "post_deleted"}
  THEN op.user = ev.author => todo = {op}
  ELSE \A o \in todo : o.post <= op.post

PostEvent(type, p, a) == [type |-> type, user |-> a, post |-> p, author |-> a]
FollowEvent(type, u, a) == [type |-> type, user |-> u, follower |-> u, followee |-> a]

---------------------------------------------------------------------------------

NoJob == [event |-> 0, phase |-> "idle", todo |-> {}]
NoRead == [step |-> "idle", authors |-> {}, posts |-> {}, cursor |-> 0,
           page |-> {}, answered |-> FALSE]

Init ==
  /\ posts = <<>> /\ follows = InitFollows /\ everFollowed = InitFollows /\ owed = {}
  /\ inFlight = <<>> /\ stream = <<>>
  /\ job = [w \in Workers |-> NoJob] /\ attempted = {} /\ settled = {}
  /\ inOrder = TRUE /\ spoiled = {}
  /\ cache = [u \in Users |-> {}]
  /\ reader = [u \in Readers |-> NoRead]
  /\ used = [k \in Kinds |-> 0]

\* An event sent again and the deletion of a post are another event of what
\* has one, and count as two steps.
Cost(k) == IF k \in {"resent", "deletes"} THEN 2 ELSE 1

Spend(k) ==
  /\ used[k] < Bound[k] /\ used["steps"] + Cost(k) <= Bound["steps"]
  /\ used' = [used EXCEPT ![k] = @ + 1, !["steps"] = @ + Cost(k)]

Spoil(adds) == spoiled' = spoiled \cup adds

\* What is lost with an event: the adds it may come to.
AddsOf(ev) ==
  CASE ev.type = "post_created" -> Users \X {ev.post}
    [] ev.type = "user_followed" ->
         {ev.follower} \X {p \in PostIds : posts[p].author = ev.followee}
    [] OTHER -> {}

\* A request of ev's user commits; it publishes ev later.
Commit(ev) ==
  /\ Cardinality({i \in DOMAIN inFlight : inFlight[i].user = ev.user}) < InFlight
  /\ inFlight' = Append(inFlight, ev)
  /\ UNCHANGED <<stream, delivery, cache, reader, spoiled>>

---------------------------------------------------------------------------------
(* HTTP requests *)

\* The row of a new post, and who is to see it.
InsertPost(a) ==
  /\ posts' = Append(posts, [author |-> a, live |-> TRUE])
  /\ owed' = owed \cup ((GetFollowerIDs(a) \cup {a}) \X {Len(posts) + 1})

\* Mutant: the event is built before the id of the new row is known.
CreatePostWithoutId(a) ==
  /\ Spend("posts")
  /\ InsertPost(a)
  /\ Commit(PostEvent("post_created", 0, a))
  /\ UNCHANGED <<follows, everFollowed>>

\* PostService.Create
CreatePost(a) ==
  /\ Spend("posts")
  /\ InsertPost(a)
  /\ Commit(PostEvent("post_created", Len(posts) + 1, a))
  /\ UNCHANGED <<follows, everFollowed>>

\* PostService.Delete: only a live post of the caller's.
DeletePost(p) ==
  /\ Spend("deletes")
  /\ posts[p].live
  /\ posts' = [posts EXCEPT ![p].live = FALSE]
  /\ Commit(PostEvent("post_deleted", p, posts[p].author))
  /\ UNCHANGED <<follows, everFollowed, owed>>

\* FollowService.Follow: not oneself, and only if the row is new.
Follow(u, a) ==
  /\ Spend("follows")
  /\ u # a /\ <<u, a>> \notin follows
  /\ follows' = follows \cup {<<u, a>>}
  /\ everFollowed' = everFollowed \cup {<<u, a>>}
  /\ Commit(FollowEvent("user_followed", u, a))
  /\ UNCHANGED <<posts, owed>>

\* FollowService.Unfollow: ErrNotFollowing if there is no row.
Unfollow(u, a) ==
  /\ Spend("unfollows")
  /\ <<u, a>> \in follows
  /\ follows' = follows \ {<<u, a>>}
  /\ owed' = {o \in owed : o[1] # u \/ posts[o[2]].author # a}
  /\ Commit(FollowEvent("user_unfollowed", u, a))
  /\ UNCHANGED <<posts, everFollowed>>

\* Publisher.Publish, after the commit.
Publish(i) ==
  /\ stream' = Append(stream, inFlight[i])
  /\ inFlight' = RemoveAt(inFlight, i)
  /\ UNCHANGED <<db, delivery, cache, reader, spoiled, used>>

\* The reply of XADD is lost and the Redis client sends it again: the event is
\* in the stream already and is published once more later.
PublishAgain(i) ==
  /\ Spend("resent")
  /\ stream' = Append(stream, inFlight[i])
  /\ UNCHANGED <<db, inFlight, delivery, cache, reader, spoiled>>

\* Publish fails, or the process dies before it: the error is logged and the
\* request succeeds all the same.
LosePublish(i) ==
  /\ Spend("lost")
  /\ inFlight' = RemoveAt(inFlight, i)
  /\ Spoil(AddsOf(inFlight[i]))
  /\ UNCHANGED <<db, stream, delivery, cache, reader>>

---------------------------------------------------------------------------------
(* Workers *)

Taken == {job[w].event : w \in Workers}
MayTake(w, e) == job[w] = NoJob /\ e \notin settled /\ e \notin Taken

\* A worker starts the handler of an event: it reads the tables, once. If
\* that query fails the handler has nothing to apply and returns an error.
Attempt(w, e) ==
  /\ MayTake(w, e)
  /\ \E todo \in {HandleEvent(stream[e]), {}} :
       /\ job' = [job EXCEPT ![w] = [event |-> e, phase |-> "apply", todo |-> todo]]
       /\ \/ todo = HandleEvent(stream[e]) /\ UNCHANGED <<spoiled, used>>
          \/ todo # HandleEvent(stream[e]) /\ Spend("failures") /\ Spoil(AddsOf(stream[e]))
  /\ attempted' = attempted \cup {e}
  /\ inOrder' = (inOrder /\ 1 .. e - 1 \subseteq settled)
  /\ UNCHANGED <<db, inFlight, stream, settled, cache, reader>>

\* Mutant: a failure ends the handler's loop.
ApplyUpToFailure(w, op) ==
  /\ job[w].phase = "apply" /\ op.kind = "add"
  /\ MayComeNext(op, stream[job[w].event], job[w].todo)
  /\ \/ /\ cache' = AddPost(cache, op.user, op.post)
        /\ job' = [job EXCEPT ![w].todo = @ \ {op}]
        /\ UNCHANGED <<spoiled, used>>
     \/ /\ Spend("failures") /\ UNCHANGED cache
        /\ job' = [job EXCEPT ![w].todo = {}]
        /\ Spoil({<<op.user, op.post>>})
  /\ UNCHANGED <<db, inFlight, stream, attempted, settled, inOrder, reader>>

\* One AddPost or RemovePost of a handler's loop. A failure is counted and
\* the loop goes on.
Apply(w, op) ==
  /\ job[w].phase = "apply"
  /\ MayComeNext(op, stream[job[w].event], job[w].todo)
  /\ job' = [job EXCEPT ![w].todo = @ \ {op}]
  /\ \/ /\ op.kind = "add"
        /\ cache' = AddPost(cache, op.user, op.post)
        /\ UNCHANGED <<spoiled, used>>
     \/ /\ op.kind = "remove"
        /\ cache' = RemovePost(cache, op.user, op.post)
        /\ Spoil({<<op.user, op.post>>}) /\ UNCHANGED used
     \/ /\ Spend("failures") /\ UNCHANGED cache
        /\ Spoil(IF op.kind = "add" THEN {<<op.user, op.post>>} ELSE {})
  /\ UNCHANGED <<db, inFlight, stream, attempted, settled, inOrder, reader>>

\* The handler returns.
Return(w) ==
  /\ job[w].phase = "apply" /\ job[w].todo = {}
  /\ job' = [job EXCEPT ![w].phase = "ack"]
  /\ UNCHANGED <<db, inFlight, stream, attempted, settled, inOrder, cache, reader, spoiled, used>>

\* Mutant: the message is acknowledged while its handler runs.
AckEarly(w) ==
  /\ job[w].phase \in {"apply", "ack"}
  /\ job' = [job EXCEPT ![w] = NoJob]
  /\ settled' = settled \cup {job[w].event}
  /\ UNCHANGED <<db, inFlight, stream, attempted, inOrder, cache, reader, spoiled, used>>

\* XACK, whatever the handler returned. If it fails the event is handed out
\* again some time.
Ack(w) ==
  /\ job[w].phase = "ack"
  /\ job' = [job EXCEPT ![w] = NoJob]
  /\ \/ settled' = settled \cup {job[w].event} /\ UNCHANGED used
     \/ Spend("failures") /\ UNCHANGED settled
  /\ UNCHANGED <<db, inFlight, stream, attempted, inOrder, cache, reader, spoiled>>

\* The workers die with their process; Redis and Postgres keep what was done
\* and the events in hand are handed out again. (A request that dies with it
\* is LosePublish, a read that dies with it is repeated by the client.)
Crash ==
  /\ Spend("crashes")
  /\ \E w \in Workers : job[w] # NoJob
  /\ job' = [w \in Workers |-> NoJob]
  /\ UNCHANGED <<db, inFlight, stream, attempted, settled, inOrder, cache, reader, spoiled>>

\* Nothing is going on: no request, event, handler or read is in progress.
Quiet ==
  /\ inFlight = <<>> /\ settled = 1 .. Len(stream)
  /\ \A w \in Workers : job[w] = NoJob
  /\ \A u \in Readers : reader[u].step = "idle"

\* A cache that nobody touched for 7 days expires. What its owner was
\* answered before that is forgotten.
ExpireCache(u) ==
  /\ Quiet /\ Exists(cache, u)
  /\ Spend("expiries")
  /\ cache' = Expire(cache, u) /\ Spoil({u} \X PostIds)
  /\ reader' = [v \in Readers |-> IF v = u THEN NoRead ELSE reader[v]]
  /\ UNCHANGED <<db, inFlight, stream, delivery>>

---------------------------------------------------------------------------------
(* FeedService.GetFeed, one step per call to Redis or Postgres *)

ReaderStep(u, from, r) ==
  /\ reader[u].step = from
  /\ reader' = [reader EXCEPT ![u] = r]
  /\ UNCHANGED <<db, inFlight, stream, delivery, spoiled>>

\* A request: the first page, or the page after the last one.
StartRead(u) ==
  /\ Spend("reads")
  /\ \E cursor \in {0, reader[u].cursor} :
       ReaderStep(u, "idle", [NoRead EXCEPT !.step = "exists", !.cursor = cursor])
  /\ UNCHANGED cache

\* Step 1: does the cache exist?
CheckExists(u) ==
  /\ ReaderStep(u, "exists",
       [reader[u] EXCEPT !.step = IF Exists(cache, u) THEN "fetch" ELSE "followees"])
  /\ UNCHANGED <<cache, used>>

\* Step 2, warmCache: the followees and the user, their posts, one WarmCache.
WarmFollowees(u) ==
  /\ ReaderStep(u, "followees",
       [reader[u] EXCEPT !.step = "posts", !.authors = GetFolloweeIDs(u) \cup {u}])
  /\ UNCHANGED <<cache, used>>

WarmPosts(u) ==
  /\ ReaderStep(u, "posts",
       [reader[u] EXCEPT !.step = "warm", !.authors = {},
                         !.posts = GetFeedPostIDs(reader[u].authors, CacheWarmLimit)])
  /\ UNCHANGED <<cache, used>>

Warm(u) ==
  /\ ReaderStep(u, "warm", [reader[u] EXCEPT !.step = "fetch", !.posts = {}])
  /\ cache' = WarmCache(cache, u, reader[u].posts)
  /\ UNCHANGED used

\* Step 3: a page of post ids. None: an empty response.
Fetch(u) ==
  LET page == GetFeed(cache, u, reader[u].cursor, PageLimit)
  IN /\ ReaderStep(u, "fetch",
          IF page = {} THEN [NoRead EXCEPT !.answered = TRUE]
          ELSE [reader[u] EXCEPT !.step = "hydrate", !.page = page])
     /\ UNCHANGED <<cache, used>>

\* Steps 4 and 5: GetByIDs drops deleted posts; has_more and the next cursor
\* are computed from what is left of the page.
Hydrate(u) ==
  LET shown == {p \in reader[u].page : posts[p].live}
      hasMore == Cardinality(shown) = PageLimit
  IN /\ ReaderStep(u, "hydrate",
          [reader[u] EXCEPT !.step = "idle", !.answered = TRUE, !.page = shown,
                            !.cursor = IF hasMore THEN Min(reader[u].page) ELSE 0])
     /\ UNCHANGED <<cache, used>>

\* A failing call. Without an answer to Exists the cache is warmed, a failing
\* warm-up is logged, and a failing fetch or hydration fails the request.
ReadFails(u) ==
  /\ Spend("failures")
  /\ \/ ReaderStep(u, "exists", [reader[u] EXCEPT !.step = "followees"])
     \/ \E step \in {"followees", "posts", "warm"} :
          ReaderStep(u, step, [reader[u] EXCEPT !.step = "fetch", !.authors = {}, !.posts = {}])
     \/ \E step \in {"fetch", "hydrate"} : ReaderStep(u, step, NoRead)
  /\ UNCHANGED cache

---------------------------------------------------------------------------------

Next ==
  \/ \E a \in Users : CreatePost(a)
  \/ \E p \in PostIds : DeletePost(p)
  \/ \E u, a \in Users : Follow(u, a) \/ Unfollow(u, a)
  \/ \E i \in DOMAIN inFlight : Publish(i) \/ PublishAgain(i) \/ LosePublish(i)
  \/ \E w \in Workers : \/ \E e \in DOMAIN stream : Attempt(w, e)
                        \/ \E op \in job[w].todo : Apply(w, op)
                        \/ Return(w) \/ Ack(w)
  \/ Crash
  \/ \E u \in Users : ExpireCache(u)
  \/ \E u \in Readers : \/ StartRead(u) \/ CheckExists(u)
                        \/ WarmFollowees(u) \/ WarmPosts(u) \/ Warm(u)
                        \/ Fetch(u) \/ Hydrate(u) \/ ReadFails(u)

Spec == Init /\ [][Next]_vars

---------------------------------------------------------------------------------
(* Properties *)

Post == [author : Users, live : BOOLEAN]
Ops == [kind : {"add", "remove"}, user : Users, post : PostIds]
PostEvents == [type : {"post_created", "post_deleted"}, user : Users, post : PostIds, author : Users]
FollowEvents ==
  [type : {"user_followed", "user_unfollowed"}, user : Users, follower : Users, followee : Users]
Event == PostEvents \cup FollowEvents
Job == [event : 0 .. Len(stream), phase : {"idle", "apply", "ack"}, todo : SUBSET Ops]
Read == [step : {"idle", "exists", "followees", "posts", "warm", "fetch", "hydrate"},
         authors : SUBSET Users, posts : SUBSET PostIds, cursor : Nat, page : SUBSET PostIds,
         answered : BOOLEAN]

\* Every variable keeps its type.
TypeOK ==
  /\ posts \in Seq(Post)
  /\ follows \subseteq everFollowed /\ everFollowed \subseteq Users \X Users
  /\ owed \subseteq Users \X PostIds
  /\ inFlight \in Seq(Event) /\ stream \in Seq(Event)
  /\ job \in [Workers -> Job]
  /\ settled \subseteq attempted /\ attempted \subseteq 1 .. Len(stream)
  /\ cache \in [Users -> SUBSET PostIds]
  /\ reader \in [Readers -> Read]
  /\ inOrder \in BOOLEAN /\ spoiled \subseteq Users \X PostIds
  /\ used \in [Kinds -> Nat] /\ \A k \in Kinds : used[k] <= Bound[k]

Delivery ==
  INSTANCE EventDelivery WITH
    appended <- Len(stream),
    hand <- [w \in Workers |-> job[w].event],
    running <- {w \in Workers : job[w].phase = "apply"}

\* Whatever event the contract may hand a worker, a worker takes and handles.
TakesWhatItMay ==
  \A w \in Workers, e \in DOMAIN stream : Delivery!MayAttempt(w, e) => MayTake(w, e)

\* The workers of this module keep to the contract of the event stream that
\* FeedQueue implements, and assume no more of it.
DeliveryContract == Delivery!DSpec /\ []TakesWhatItMay

\* The posts that may be in a feed.
Allowed(u, p) == posts[p].author = u \/ <<u, posts[p].author>> \in everFollowed

\* A feed holds posts of its owner and of accounts its owner followed at some
\* time: no interleaving of handlers, warm-ups and reads puts anybody else's
\* there or on a page.
OnlyFollowed ==
  \A u \in Users :
    \A p \in cache[u] \cup (IF u \in Readers THEN reader[u].page ELSE {}) : Allowed(u, p)

\* A feed has a post, or the cap's worth of newer ones.
Has(u, p) == p \in cache[u] \/ Cardinality({q \in cache[u] : q > p}) >= FeedCacheCap

\* One of the limit newest posts of its author, deleted ones included.
Recent(p, limit) ==
  Cardinality({q \in PostIds : q > p /\ posts[q].author = posts[p].author}) < limit

\* The posts that belong in a feed: of a follow that is older than the post
\* every post, of a younger one those of the size of a backfill.
Due(u) == {p \in LiveBy(GetFolloweeIDs(u) \cup {u}) : <<u, p>> \in owed \/ Recent(p, BackfillLimit)}

Never(k) == used[k] = 0

\* Nothing was taken out of a feed that is not trimmed.
Calm == (Never("deletes") /\ Never("unfollows")) \/ Len(posts) <= FeedCacheCap

\* When nothing is going on, every feed has what belongs there: between the
\* fan-out, which reads the followers, and the backfill, which reads the posts,
\* no post falls through, in whatever order, how often and with whichever
\* crashes the events are handled. What does go wrong costs no more than its
\* own adds: a failing query, call to the cache or publication those of its
\* event, the expiry of a cache and the handling of an unfollow the posts they
\* remove, and a failing read nothing. (A full feed from which posts are taken
\* out does not get the older ones back.)
NothingMissed ==
  Quiet /\ Calm => \A u \in Users : \A p \in Due(u) : <<u, p>> \in spoiled \/ Has(u, p)

\* Events happen to be handled one after the other in stream order, users send
\* one request at a time, nothing fails, is sent twice or deleted and no read
\* warms a cache.
Undisturbed ==
  /\ inOrder /\ InFlight <= 1
  /\ Never("failures") /\ Never("lost") /\ Never("resent")
  /\ Never("deletes") /\ Never("reads")

Follows(u, p) == posts[p].author \in GetFolloweeIDs(u) \cup {u}

\* worker/handler.go:211, "we want to remove all their posts", and
\* plan/feed.md: after an unfollow the "Cache is now clean of unfollowed
\* user's posts", once its event has been handled and nothing is going on.
\* As many as the limit are gone, also through crashes and repeated follows.
UnfollowCleansInOrder ==
  Undisturbed /\ Quiet =>
    \A u \in Users : \A p \in cache[u] : Follows(u, p) \/ ~Recent(p, RemoveLimit)

\* plan/feed.md, Cold Start: a user who returns after 7 days gets the feed
\* warmed from the database: when a request was answered and nothing else is
\* going on, the feed is complete.
ColdStartWarms ==
  Quiet => \A u \in Readers : reader[u].answered => \A p \in Due(u) : Has(u, p)

(* The inductive invariant. *)

\* What an event says of posts and follows is so.
MakesSense(ev) ==
  IF ev.type \in {"post_created", "post_deleted"}
  THEN /\ ev.author = posts[ev.post].author
       /\ ev.type = "post_deleted" => ~Never("deletes")
  ELSE /\ <<ev.follower, ev.followee>> \in everFollowed /\ ev.follower # ev.followee
       /\ ev.user = ev.follower
       /\ ev.type = "user_unfollowed" => ~Never("unfollows")

EventsMakeSense == \A ev \in Range(inFlight) \cup Range(stream) : MakesSense(ev)

\* An event is in the hands of one worker, which has started on it and not
\* acknowledged it; nothing is left to do but in its loop.
OneHandEach ==
  \A w \in Workers :
    /\ job[w].event = 0 <=> job[w].phase = "idle"
    /\ job[w].phase # "apply" => job[w].todo = {}
    /\ job[w].event # 0 => /\ job[w].event \in attempted \ settled
                           /\ \A v \in Workers \ {w} : job[v].event # job[w].event

\* What a worker adds belongs to the feed's owner or was followed; what it
\* removes is of a delete or an unfollow; a reader found posts of the same
\* accounts.
OpsMakeSense ==
  \A w \in Workers : \A op \in job[w].todo :
    IF op.kind = "add" THEN Allowed(op.user, op.post)
                       ELSE ~Never("deletes") \/ ~Never("unfollows")

ReadsMakeSense ==
  \A u \in Readers : /\ reader[u].authors \subseteq {u} \cup {a \in Users : <<u, a>> \in everFollowed}
                      /\ \A p \in reader[u].posts : Allowed(u, p)

\* A post is owed to followers only, and to its author.
OwedToFollowers ==
  /\ \A u \in Users : <<u, u>> \notin follows
  /\ \A o \in owed : Follows(o[1], o[2])
  /\ \A p \in PostIds : <<posts[p].author, p>> \in owed

\* The event that brings a post to a feed: its own if it is owed, and else the
\* follow's.
Brings(ev, u, p) ==
  IF <<u, p>> \in owed THEN ev.type = "post_created" /\ ev.post = p
  ELSE ev.type = "user_followed" /\ ev.follower = u /\ ev.followee = posts[p].author

\* It is about to be published, waits for a worker or has the post among what
\* its handler has still to add.
Coming(u, p) ==
  \/ \E i \in DOMAIN inFlight : Brings(inFlight[i], u, p)
  \/ \E e \in DOMAIN stream \ settled :
       /\ Brings(stream[e], u, p)
       /\ \A w \in Workers : job[w].event = e => Op("add", u, p) \in job[w].todo

\* What belongs in a feed is there or on its way.
NoneMissing ==
  Calm => \A u \in Users : \A p \in Due(u) : <<u, p>> \in spoiled \/ Has(u, p) \/ Coming(u, p)

ContentInv ==
  /\ TypeOK /\ EventsMakeSense /\ OneHandEach /\ OpsMakeSense /\ ReadsMakeSense
  /\ OnlyFollowed /\ OwedToFollowers /\ NoneMissing

IsUnfollow(ev, u, a) == ev.type = "user_unfollowed" /\ ev.follower = u /\ ev.followee = a
IsFollow(ev, u, a) == ev.type = "user_followed" /\ ev.follower = u /\ ev.followee = a

\* An unfollow is still to be handled after event e.
UnfollowAfter(e, u, a) ==
  \/ \E i \in DOMAIN inFlight : IsUnfollow(inFlight[i], u, a)
  \/ \E f \in DOMAIN stream \ settled : f > e /\ IsUnfollow(stream[f], u, a)

\* The unfollow that will remove a post is about to be published, waits for a
\* worker or has the post among what its handler has still to remove.
Going(u, p) ==
  \/ \E i \in DOMAIN inFlight : IsUnfollow(inFlight[i], u, posts[p].author)
  \/ \E e \in DOMAIN stream \ settled :
       /\ IsUnfollow(stream[e], u, posts[p].author)
       /\ \A w \in Workers : job[w].event = e => Op("remove", u, p) \in job[w].todo

\* Whoever is not followed is so because of the last event, and whatever of his
\* is in a feed, or may still come, is removed after it.
LeavesInOrder ==
  \A u, a \in Users : u # a /\ <<u, a>> \notin follows =>
    /\ \A i \in DOMAIN inFlight : ~IsFollow(inFlight[i], u, a)
    /\ \A e \in DOMAIN stream \ settled : IsFollow(stream[e], u, a) => UnfollowAfter(e, u, a)
    /\ \A w \in Workers : \A op \in job[w].todo :
         op.kind = "add" /\ op.user = u /\ posts[op.post].author = a
           => UnfollowAfter(job[w].event, u, a)
    /\ \A p \in cache[u] : posts[p].author = a /\ Recent(p, RemoveLimit) => Going(u, p)

InOrderInv ==
  Undisturbed =>
    /\ \A w \in Workers : job[w].event # 0 => 1 .. job[w].event - 1 \subseteq settled
    /\ \A p \in PostIds : posts[p].live
    /\ \A u \in Readers : reader[u].step = "idle"
    /\ LeavesInOrder

FeedInv == ContentInv /\ InOrderInv
=================================================================================
