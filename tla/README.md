# TLA+ models of the social feed backend

A Go service over Postgres and Redis: accounts, follows, posts, likes, comments,
and a home feed that is *fanned out on write*. A request commits to Postgres and
then publishes an event to a Redis stream; worker goroutines consume the stream
and keep one sorted set of post ids per user up to date; reading the feed pages
through that set. This directory models the parts where the order of steps
matters, checks them with TLC on small instances and proves the safety
properties of every module with TLAPS for every instance.

## 1. Inventory

| Component | State | Operations | Talks to | What is hard |
|---|---|---|---|---|
| Event queue and worker pool (`queue/consumer.go`, `queue/publisher.go`, `worker/manager.go`, shutdown in `transport/http/server.go`) | Redis: stream, group, pending lists (PEL). Process: one goroutine per worker with its batch | `Publish`, `EnsureGroup`, `Start`, `Stop`, `ReadPending`, `Read`, `Ack` | handlers (call), publishers (stream) | crash between delivery and ack, recovery order, cancelled context in mid-batch, failed `XACK`, lost reply |
| Feed event handlers (`worker/handler.go`, `queue/events.go`) | none of their own | `handlePostCreated`, `handlePostDeleted`, `handleUserFollowed`, `handleUserUnfollowed`, two for notifications | Postgres (reads), feed cache, notification service | two workers, any order, redelivery; tables change between commit and handling |
| Feed cache (`cache/feed.go`) | Redis: `feed:<user>` sorted sets, cap 500, expiry 7 days | `AddPost`, `RemovePost`, `WarmCache`, `GetFeed`, `Exists` | handlers, feed reader | concurrent adds, trim and warm-up; limits 20/100/500 that meet |
| Feed reader (`service/feed.go`) | none; cursor held by the client | `GetFeed`: exists, warm, page, hydrate | cache, Postgres | five calls with everything else in between |
| Follows (`service/follow.go`, `repository/follow.go`) | `follows`, two counters in `users` | `Follow`, `Unfollow`, lists | queue | deadlocks, duplicate requests, commit then publish |
| Posts (`service/post.go`, `repository/post.go`) | `posts`, `post_media`, `post_likes`, `post_count` | `Create`, `Delete`, `Like`, `Unlike`, lists | queue | counters under concurrency, commit then publish |
| Comments (`service/comment.go`, `repository/comment.go`) | `post_comments`, `comment_count` | `Create` (with flattening), `Update`, `Delete` (cascade), list | queue | rows counted before they are deleted; parent read before the transaction |
| User counters (`repository/user.go`) | counters in `users` | increments inside the transactions above | follows, posts | row locks, deadlock detector |
| Sessions (`service/auth.go`, `repository/refresh_token.go`) | `refresh_tokens` | issue, rotate, revoke, revoke all | — | rotation in four statements without a transaction; lost answers, killed apps |
| Registration and profiles (`service/user.go`, `handler/auth.go`, `service/media.go`) | `users`, avatars in an object store | register, complete onboarding, login, search | media | upload, then check, then insert, with anything failing or lost in between |
| Lists (`GetFollowers`, `GetFollowing`, `GetUserThumbnails`, `GetPostLikers`, `GetByPostID`, the feed) | none; cursor held by the client | one page | Postgres, cache | rows that come, go and move between pages; cursors coarser than the order; cursors read in a second query |
| Notifications (`service/notification.go`, `repository/notification.go`) | `notifications`, `device_tokens`, a goroutine per push | create, list, mark read, tokens | handlers, push | redelivery; a push that outlives its handler; a list read in two queries |
| Push, presigned media, rest of the HTTP layer, configuration | none | I/O | — | — |

What makes each correct:

* queue: nothing published vanishes; never two handlers of one event at a time;
  replay before new work; everything acknowledged in the end;
* feed: complete up to its cap whatever fails elsewhere, only posts of accounts
  once followed, clean after an unfollow;
* lists: a row that stays is shown, once, and every traversal ends;
* likes, comments, counters: every counter equals the number of rows it counts,
  replies one level deep, no request waits forever;
* sessions: a device that hears its answers keeps its session, no token is left
  behind, a revoked token stays as it is, a logout of all devices reaches all;
* registration: what a client was told of a name stays true, an account has the
  avatar that its own request stored, or all of the default one;
* notifications: every act of another user reported, once unless something
  fails; pushes to the recipient's devices only; unread counts not too low.

## 2. Modules

```
EventDelivery   at-least-once contract (abstract)
   ^  implemented by     ^ kept by
FeedQueue             FeedPipeline -> FeedCache,  Notifications
Engagement  UserCounters  Sessions  Pagination  Registration
<module>Proofs.tla        theorems, one module for each of these eight
MC<module>.tla, *.cfg     small instances
```

`EventDelivery` is what joins the halves: which worker has which event in hand,
whose handler is running, what is settled. `FeedQueue` has streams, pending
lists, goroutines and processes and is proved to implement it, worker by worker.
`FeedPipeline` and `Notifications` have none of those. Their workers keep to the
contract as well, and take every event it may hand them (`TakesWhatItMay`):
`DeliveryContract` says both there, and is checked and proved. So whatever the
queue does with an event, the feed and the notifications are examined under it,
without carrying the queue's state.

### FeedQueue

| Model | Code |
|---|---|
| `published`, `groupExists`, `lastDelivered`, `pel` | the Redis stream and its group; entry `e` is the `e`-th `XADD` |
| `mode` | process: down, up, stopping (context cancelled), draining (workers gone, HTTP still served) |
| `pc`, `recovering`, `batch` | a goroutine's place in `runWorker`, `processPending`, `processMessages`, `handleMessages`; its messages not yet acknowledged |
| `begun`, `handled`, `acked` | history; `acked` is also what Redis has removed from the PEL |
| `Start` / `Stop` / `WorkersStopped` / `Exit` / `Crash` | `Manager.Start`, the two halves of `Manager.Stop`, the end of `Run`, SIGKILL |
| `ReadPending`, `EndRecovery`, `LoopTop`, `Read`, `ReadNothing`, `ReadLost`, `BeginHandle`, `HandleOk`, `HandleErr`, `Ack`, `AckFailed` | one step per Redis call, handler call or handler return |

`CallFails` is where a call made with the cancelled context of a shutdown fails,
and where any call may fail (charged to `MaxFaults`). A handler's error does not
prevent the `XACK`, as in `handleMessages`. An event that a worker reaches after
the context was cancelled is `refused`: the handler's first query fails, nothing is
done and the `XACK` fails too, so it never comes into a hand. Consumer names are computed as in
`consumerNameForWorker`: the rune `'0' + workerID`.

### FeedCache and FeedPipeline

A post is its id; ids grow with time, so the score order of the sorted set is
the order of ids and a feed is a set of ids. `FeedPipeline` adds the tables
(`posts`, `follows`), events committed but unpublished (`inFlight`), the
`stream`, a `job` per worker and the state of each reader's request. A handler
reads the tables once (`Attempt`) and then performs one cache operation per step
(`Apply`), in the order of its loop (`MayComeNext`), each of which may fail and
is skipped, as in the code. A read is one step per call: `CheckExists`,
`WarmFollowees`, `WarmPosts`, `Warm`, `Fetch`, `Hydrate`. `ReadFails` is each
error branch of `GetFeed`. The history `spoiled` collects the (user, post) pairs
whose add was lost with its event, failed, or was undone by a removal or expiry:
it is what `NothingMissed` excuses, and nothing else. The history `owed` has the
pairs of each post and those who follow its author since before it was
committed: `Due` asks for these, and of a younger follow for as many posts as a
backfill brings. A Redis pipeline (add, trim, expire) is one step:
its commands are sent together; see section 7.

### Pagination

One module for six lists, since they differ only in what orders their rows, how
much of it is in the cursor, where the cursor comes from and how a page knows
that there are more:

| List | Code | Order | Cursor | More |
|---|---|---|---|---|
| `followers`, `following` | `followRepository.GetFollowers`, `GetFollowing` | `created_at` | second | `LIMIT n + 1` |
| `comments` | `commentRepository.GetByPostID` | `created_at`, id | second, id | `LIMIT n + 1` |
| `posts` | `postRepository.GetUserThumbnails` | `created_at`, id | second, id; time from a second query, whose error is dropped | `LIMIT n + 1` |
| `likers` | `postRepository.GetPostLikers` | `created_at`, id of the like | second, id, both from a second query; without it the list ends | `LIMIT n + 1` |
| `feed` | `FeedService.GetFeed`, `RedisFeedCache.GetFeed` | score | score | full page after hydration |

A row is a second, a fraction and an id; the `time.RFC3339` and `t.Unix()` of the
cursors drop the fraction (`FollowCursor`, `formatCursor`). `Pages` is every
answer a query with `LIMIT` may give: rows with equal keys come in any order.
`client` is the request in progress and the cursor; `walk` is history. Others
add, remove and hide rows, move a post (`Rescore`: a fan-out scores with the
event's time, a backfill or warm-up with `created_at`) and delete the post whose
likers or comments are listed, between any two steps. A new row may be older
than rows that are there: `created_at` is the start of its transaction.

### Registration

| Model | Code |
|---|---|
| `config` | which of `DEFAULT_AVATAR_URL` and `DEFAULT_AVATAR_KEY` are set |
| `users`, `bucket` | the `users` table by name; keys in the object store |
| `req` | `POST /auth/register` requests between their calls, and what their clients were told |
| `Register`, `UploadAvatar`, `ExistsByUsername`, `Create` | `AuthHandler.Register` up to its first call, `MediaService.UploadAvatar`, the lookup of `UserService.Register` with the hashing after it, the `INSERT` |
| `Refused` | what the table refuses: a name that is taken (unique index), an avatar without URL or key (`migrations/000005_make_display_name_avatar_required.up.sql`) |
| `CompleteOnboarding` | `UserService.CompleteOnboarding` |

A call may fail with or without having written (`CallFails`), free of charge once
the client is gone, for then the request's context is cancelled. A client makes
one request at a time, repeats one it heard no success of (`GiveUp`: a timeout or
a lost answer) and never one that succeeded. `Crash` ends all requests. Requests
rejected for a malformed form change nothing and are left out. A request says in
`avatar` which of the two columns it brings, a row only whose they are (`key`),
since it has both.

### Engagement and UserCounters

Postgres at READ COMMITTED, one step per statement of a request. Variables hold
what is committed; a transaction's own writes, which are its locks, are in its
record `tx[c]` until `Commit`. A statement that needs a locked row waits (its
guard is false). `Engagement` is one post with likes, comments, replies and the
post's deletion; `UserCounters` is follows and posts with the counters of one
or two users per transaction, updated in the order of the code.

### Notifications

| Model | Code |
|---|---|
| `acts` | history: likes, comments and follows in the order of their commits; the number of an act is the id of its comment |
| `stream`, `job`, `attempted`, `settled` | the event stream and the workers, under the contract of `EventDelivery` |
| `notes`, `lastId` | the `notifications` table |
| `pushes` | one `sendPushNotification` goroutine each |
| `owner`, `holder` | `device_tokens`; `holder` is history, who last registered the device |
| `lister` | a `GET /notifications` between its two queries, and its answer |

The transactions that `Engagement` and `UserCounters` take apart are single steps
here, and deleting a comment cascades to its replies and the notifications of
all of them. `CreateNotification` is the last thing each of the three handlers
does and its result changes nothing, so it is one step; `Backfill` is the part
of the follow handler that decides whether it gets there.

### Sessions

One step per statement of a refresh: `Find`, `Insert`, `FindNew`, `Revoke`, with
`RevokeAllForUser` on a revoked token; a logout is `Find`, `Revoke`; a login
`Insert`. `Fails` is each error branch: an error of the first query is told as
an unknown token, an error after the `INSERT` of a refresh is dropped, and a logout
whose `UPDATE` fails is told so. The device (external,
modelled as `docs/AUTHENTICATION_FLOW.md` prescribes) keeps one token, sends one
request at a time and may be killed (`KillApp`), after which the server works on
with nobody waiting. `root`, `allRevoked` and `caught` are history; the last two
are set anew by each revocation of all of a user's tokens, so a session that one
of them missed is not excused from the next.

## 3. Runs that pass

Distinct states and time are for two TLC workers.

| Run | Shows | States |
|---|---|---|
| `queue` | Crashes, shutdowns and a failing call at any point: every event is undelivered, pending with one consumer or acknowledged after a handler began it (`EveryEventAccounted`); no event in two hands (`OneHolder`); the contract (`DeliveryContract`); the inductive invariant (`QueueInv`). Until something fails: a replay never runs an older event after a newer one of its consumer (`ReplayInOrder`), a worker that waits for news has nothing pending (`NothingLeftBehind`), and everything is acknowledged in the end (`AcknowledgedUnlessFaulty`, liveness) | 112 thousand, 20 s |
| `feed_storm` | Two workers, any order of events, four steps of any kinds, one post more than the cap: when all is quiet every feed has each post that belongs there, up to the cap, except those whose own add failed, was lost or was undone (`NothingMissed`): a failing call, a lost publication, a crash or a failing read costs nothing else; a stranger's post is never in a feed or on a page (`OnlyFollowed`); after an unfollow none of the account's posts within the limit is left if events were handled in order, crashes included (`UnfollowCleansInOrder`); the workers keep to the contract and take what it may hand them (`DeliveryContract`); the inductive invariant (`FeedInv`) | 920 thousand, 105 s |
| `pagination` | Each of the six lists, up to three rows in every order and with every tie, pages of one or two, three changes or failures: at the end only rows were left out that share their second with a page's last row, and only behind it (`MissedOnlyAtPageEnds`); a row that stays is not shown twice (`ShownOnce`); every answer ends the list or leads on in it, and every traversal ends (`EveryTraversalEnds`, liveness); the inductive invariant (`PagesInv`) | 320 thousand, 50 s |
| `registration` | Two clients, two names, three requests, two failures or crashes: 201 means the account is the client's for good, 409 that it is somebody else's or the client's own from a success it did not hear, and after 400 and 409 nothing came of the request (`AnswersHold`); an account has the image of the request that made it, which is in the bucket, or, if that stored none, the default avatar with URL and key (`AvatarsWhole`); the inductive invariant (`RegistrationInv`) | 730 thousand, 30 s |
| `engagement` | `like_count` counts the likes; `comment_count` the comments until one is deleted; replies stay one level deep although the parent is read before the transaction; no deadlock among likes, comments and deletes (`NoDeadlock`); the inductive invariant (`EngagementInv`) | 520 thousand, 20 s |
| `counters` | Follower, following and post counters are exact under concurrent, repeated, deadlocked and rolled back requests; only follows and unfollows in a circle of users deadlock; every request ends, deadlocked ones included (liveness); the inductive invariant (`CountersInv`) | 100 thousand, 95 s |
| `notifications` | Acts of others are reported (`EveryActNotified`), once unless a worker died, a call failed or an event was sent twice (`NotifiedOnce`); a device that changed hands gets no push for its former user of anything later (`PushGoesHome`); a list's `unread_count` is not below what was unread all the while (`UnreadNotUnderstated`); the contract (`DeliveryContract`); the inductive invariant (`NotificationsInv`) | 740 thousand, 80 s |
| `sessions` | Two users with three devices, six requests and disturbances: devices that hear their answers keep their sessions (`KeepsItsSession`) and leave no usable token behind (`NoTokenLeftBehind`); revoked tokens stay as they are, and a session that is over, with no token that can be used and no refresh about to insert one, is never open again (`RevokedForGood`); `replaced_by` links are disjoint chains (`ChainsAreDisjoint`); a logout of all devices leaves only sessions with a refresh about to insert at that time, and the next one reaches them (`LogoutAllReachesAll`); the inductive invariant (`SessionsInv`) | 1.2 million, 105 s |

`CHECK_DEADLOCK FALSE` is set for all runs but those of the queue: they
have a budget per kind of step, and a behaviour that has spent it stops. In
`Engagement` waiting in a circle is asked as the invariant `NoDeadlock` instead,
in terms of the guards of its statements (`CanGoOn`).
The queue runs check deadlock: `Stop` and `Crash` are bounded, but an idle worker
always goes on reading.

### Bounds and why they are enough

* Two workers: every race here is between two handlers or between a handler and
  one other party. The default configuration starts two as well.
* Queue: three entries, batches of two, two restarts, one fault: a batch split
  over a crash, an entry behind it, a recovery interrupted by a second crash, and
  a fault in any of them. The proofs remove these bounds.
* Feed: two accounts suffice for a follower and a followee, each both author and
  reader; up to three posts and a follow or unfollow make every order of the
  events involved. Limits are scaled: 500 becomes 2 ("exceeded by one post"), 100
  and 20 become 1 ("less than a feed holds"); only whether they are exceeded
  matters, since handlers treat posts uniformly, and the proofs remove the bounds.
* `Bound` gives each kind of step a budget and all of them together one
  (`steps`), so `feed_storm` covers every combination of four steps of any kinds
  with all their interleavings. What makes another event of something that has one
  counts as two of them: an event sent again and, in the feed, a deletion
  (`Cost`). Handler, reader and publishing steps are not
  counted. What a property excludes is in its antecedent or, for `NothingMissed`,
  in `spoiled`.
* Pagination: three rows and pages of one or two make a page end with and without
  a tie, twice in a row; two seconds and two fractions make every order of three
  rows by second, fraction and id. Three changes: a row removed and put back
  and one more, or a removal, a failure and an addition. The proofs remove these bounds.
* Registration: two clients race for a name and the loser tries again, or a client
  repeats a request whose answer was lost, which takes three requests.
* Engagement and counters: three concurrent requests, the shortest circles having
  two and three transactions. Engagement has five in all. Counters have three, and
  two accounts that follow each other at the start, so that a repeated unfollow,
  and a post deleted twice, are among three requests.
* Notifications: two acts, so that a group of two exists, and four steps of any
  kinds. One device and two users make it change hands twice.
* Sessions: two devices of one user and one of another, three requests at a time
  (two devices and a request nobody waits for), six requests or disturbances.

### Fairness

* `FeedQueue!Fairness`: weak fairness of each worker's step (the Go scheduler and
  a Redis that answers; `XREADGROUP` blocks for five seconds at most), of
  `WorkersStopped` (calls with the cancelled context fail, so every worker comes to
  an end), of `Exit` and of `Start` (a supervisor restarts the process; without it
  nothing could be said after a crash). The code does not guarantee `Exit`: `Run`
  calls `server.Shutdown` with a background context and so waits for the HTTP
  requests in progress without a timeout; that these end is an assumption. Nothing is assumed of publishing, stopping, crashing or faults,
  and faults are bounded by `MaxFaults`.
* `UserCounters!FairSpec`: weak fairness of each client's statement, which
  includes the deadlock detector's choice of a victim; Postgres runs it after
  `deadlock_timeout`. Requests are bounded, so waiting for a lock cannot starve.
* `Pagination!Spec`: weak fairness of `Walk`: the client goes on until it is told
  that there is no more, repeating a request that failed, and the server answers
  every request. Nothing is assumed of the others, whose changes and failures
  are bounded.

## 4. Where the code and the documents disagree

Each run of this kind checks one property that a document or comment of the
repository states, and TLC shows a behaviour of the code without it.

| Run | Statement | What the code does |
|---|---|---|
| `queue_no_reclaim` | `plan/redis_mq.md`: "Stuck messages = lost work; reclaim them" | pending entries are read once, at start; one failed `XACK` or lost reply leaves an entry pending while the process lives |
| `feed_cold_start` | `plan/feed.md`: returning users are warmed "with all 500 posts" | a fan-out to an expired cache creates it, and an existing cache is not warmed |
| `lists_same_second` | `docs/FOLLOW_SYSTEM.md`: `has_more === false` means that there is no more data | cursors have no fraction of a second: of two users who followed within one second, the one behind the page's end is never shown |
| `comments_deleted` | `docs/LIKES_COMMENTS.md`: counters always consistent with the rows | rows are counted before the `DELETE`; two deletes, or a delete and a reply, make the counter drift |

The same modules explain the remaining antecedents and bounds; each of these is
a behaviour of the model, reached by admitting the step that the passing run
leaves out:

* `UnfollowCleansInOrder` (`plan/feed.md`: "Cache is now clean of unfollowed user's
  posts") without `inOrder`: two workers run a follow and the unfollow after it in the other
  order, and the backfilled posts stay.
* The same without `~Recent(p, RemoveLimit)`: 100 posts are removed and 500 kept,
  although the comment in `worker/handler.go` wants "all their posts" removed.
* The same with a delete: the post is neither in the unfollow's list
  (undeleted posts only) nor, its delete being handled after the unfollow was
  committed, removed by the delete (followers of now only).
* The same with a reader: a warm-up that read the followees before the
  unfollow writes its posts after it.
* The same with two requests of one user at a time: the events of a follow and the
  unfollow after it may be published in the other order.
* `spoiled` grows with an unfollow handled after the later follow (the posts of a
  followed account are removed), with a lost event (nothing retries a failed
  publish) and with a failing handler (its message is acknowledged all the same).
* `walk.cut`: a deleted post on a feed page makes the page short and `has_more`
  false, where `plan/feed.md` has it false "when user has seen all available
  posts"; a failed query for a cursor ends the lists of posts and likers early.
* `walk.slipped`: a like repeated between the page that ends with it and the query
  for its cursor moves the cursor, and rows are shown twice or left out.
* An app killed after the server revoked its refresh token and before it heard of
  the new one is told `TOKEN_REUSED` at its next start, and all tokens of the user
  are revoked, where `docs/AUTHENTICATION_FLOW.md` has it refresh again.
* `Create` with no avatar at all (`Refused`): `docs/AUTHENTICATION_FLOW.md` has a
  request without image use the default avatar, but with neither
  `DEFAULT_AVATAR_URL` nor `DEFAULT_AVATAR_KEY` set it brings two NULLs, which the
  table refuses, and the client is told 500.
* `Received` with half a default avatar: `migrations/000005_make_display_name_avatar_required.up.sql`
  has "avatar_key can be empty for default avatar" and gives the column the
  default `''`, but with `DEFAULT_AVATAR_URL` alone the service refuses the request
  ("must both be provided or both omitted") and the client is told 500.
  `AvatarsWhole` holds of the accounts there are; that a request without image
  makes one takes both settings.
* `Create` with the name taken since the lookup: the client is told 500, where
  `docs/AUTHENTICATION_FLOW.md` has 409 for a name that exists. The avatar of a
  registration that fails after its upload stays in the bucket.
* `NotifiedOnce` with a crash after the insert: the event is handled and reported
  again. A follow of an account without posts is not reported at all, where
  `docs/NOTIFICATIONS.md` lists every follow.
* A list's `unread_count` counts the read rows of a group with an unread one, and
  rows behind the limit are not counted: it differs from
  `GET /notifications/unread-count` in both directions.
* `KeepsItsSession` after a logout of all devices: a device that did not hear of it
  presents its old token, and the sessions begun since are revoked.

## 5. Proofs

### FeedQueueProofs

Proved, for every `WorkerCount`, `BatchSize`, `MaxEvents`,
`MaxRestarts` and `MaxFaults` allowed by the assumptions in `FeedQueue` (positive
worker count and batch size, natural bounds):

| Theorem | Statement |
|---|---|
| `QueueInvariant` | `Spec => []QueueInv` |
| `TypeCorrect` | `Spec => []TypeOK` |
| `Accounting` | `Spec => []EveryEventAccounted` |
| `Exclusion` | `Spec => []OneHolder` |
| `ReplayOrder` | `Spec => []ReplayInOrder` |
| `NoneLeftBehind` | `Spec => []NothingLeftBehind` |
| `Refinement` | `Spec => DeliveryContract`: every step maps to a step of `EventDelivery` or to a stutter |

`QueueInv` is inductive (`InitInv`, `NextInv`), and TLC checks it in
the run `queue`. Its parts, and why the properties alone do not carry
themselves:

* `BatchIsPending`: what a goroutine holds is pending with its own consumer.
  With it, exclusion of workers reduces to disjoint pending lists.
* `Partition`: undelivered, pending and acknowledged entries are disjoint and
  together the whole stream. `Exclusion` and `Accounting` follow from it; it
  needs the names of consumers to differ (`NameFacts`).
* `HoldsWhileWorking`: a batch is held exactly in the middle of
  `handleMessages`, and no goroutine runs once the process has stopped; needed
  where `Start` creates workers with empty batches.
* `CurrentBegun`: what is being acknowledged was begun; needed for the third
  case of `Accounting` and for `Settle` in the refinement.
* `InOrder`: until something fails a consumer has begun nothing beyond its pending
  entries, and outside recovery its batch is all of them. `ReplayOrder` and
  `NoneLeftBehind` follow; neither is inductive without it. That failures are
  counted and never forgotten (`FaultsCounted`) carries it through the steps.

The refinement maps `appended` to `published`, `hand` to the oldest entry of the
batch of a goroutine that is inside a handler or about to acknowledge, and to none
otherwise (`InHand`), `running` to the goroutines inside a handler, `attempted` to
the entries some consumer began and `settled` to `acked`. `BeginHandle` is `Attempt`
by that worker, `HandleOk` and `HandleErr` are its `Return`, a successful `Ack` is
its `Settle`, an `AckFailed` its `Leave`, `Crash` is `AbortAll`; everything else
stutters, an event refused during shutdown included. That `Attempt` is allowed is
`Exclusion` once more: the entry begun is pending with one consumer only
(`Partition`), so no other hand can have it (`OtherHands`).

### PaginationProofs

Proved for every `ItemCount`, `LastSecond`, set of `Fractions` that has 0, limits
and `MaxChanges`:

| Theorem | Statement |
|---|---|
| `PagesInvariant` | `Spec => []PagesInv` |
| `Missed` | `Spec => []MissedOnlyAtPageEnds` |
| `Once` | `Spec => []ShownOnce` |
| `CursorsDescend` | `Spec => TraversalGetsOn`, the safety half of `EveryTraversalEnds` |

The properties speak of the end of a traversal, or of its past; `PagesInv` says
what the cursor means in the middle of one. Rows that stayed and were shown are
not below the cursor (so the next page does not show them again), and rows that
stayed and were not shown are below it or share their second with the end of a
page. The exclusive cursor, the fact that a cursor is at most the key of its
page's last row and no further below it than its second, and the fact that
everything left out of a page is not above what is on it (`Pages`) carry both
from page to page. For the lists whose page is held while another query runs,
`HeldPage` says the same of the page in hand, and that its key is the one it had
when it was read. Rows that others touch leave `stayed`, so no step of theirs
disturbs a conjunct.

`CursorsDescend` is why no traversal walks in a circle, in any of the lists:
each cursor is at or below the key of its page's last row, and that is below the
cursor the page was asked with. The exceptions it names are a failing query, after
which the client may repeat its request, and a like that was repeated between the
page that ends with it and the query for its cursor; `changes` bounds both. That
something which gets on and is disturbed finitely often ends is left to TLC.

### RegistrationProofs

Proved for any sets of clients and names and any `MaxRequests` and `MaxFailures`:

| Theorem | Statement |
|---|---|
| `RegistrationInvariant` | `Spec => []RegistrationInv` |
| `AnswersHoldForGood` | `Spec => []AnswersHold` |
| `NoBrokenAvatar` | `Spec => []AvatarsWhole` |

`AnswersHold` and `AvatarsWhole` are not inductive by themselves:

* `RowsHaveRequests`: a row was inserted by a request for its name that has ended
  and was not refused. Without it an `INSERT` could not be known to leave the rows
  of told requests alone.
* `RequestsInOrder`: only ended requests have answers, only a request that is past
  its upload has an image in the bucket, and what it brings is that image, or the
  default avatar as far as it is configured. `AvatarsWhole` follows when the table
  takes the row, and stays because a request that has ended uploads nothing.
* `OneAtATime`: a client that waits was told of no success before, which is why the
  owner named by a 409 is another client or one that did not hear of its success.

`RequestKeeps` is the lemma for the steps that change one request and no row,
`InsertInv` for the two that insert one, `CrashInv` for the step that ends many.

### UserCountersProofs

Proved for any finite set of users, any set of clients and any `MaxRequests`:

| Theorem | Statement |
|---|---|
| `CountersInvariant` | `Spec => []CountersInv` |
| `CountersCountRows` | `Spec => []CountersExact` |
| `DeadlocksAreFollowCircles` | `Spec => []OnlyFollowCirclesDeadlock` |

Counters change with the rows, when a transaction commits; `CountersExact` is
inductive only together with what the transaction knows at that point:

* `FindingsLast`: the row of `follows` or `posts` is as the transaction found it
  when it wrote it, so the commit changes the number of rows by exactly one. This
  holds because of
* `RowsHeldOnce`: no two transactions hold the same row, of `follows`, `posts` or
  `users`, which the guards (the locks) keep.
* `UpdatesInOrder`: what was added to each counter is what `Updates` lists, once.

That the number of a user's rows changes by one is cardinality of a set
comprehension, hence `UsersAssumption` (finitely many accounts). The deadlock
theorem rests on `UpdatesInOrder` and `RowsHeldOnce`: everyone in a circle waits
and is waited for, so it is a follow or an unfollow that has updated the row of the
one followed and waits for its own user's, and the one holder of that row is the
next in the circle, which follows this one's user.

### EngagementProofs

Proved for any sets of clients and users and any `MaxRequests`:

| Theorem | Statement |
|---|---|
| `EngagementInvariant` | `Spec => []EngagementInv` |
| `LikesCounted` | `Spec => []LikeCountExact` |
| `CommentsCounted` | `Spec => []CommentCountExactBeforeDeletes` |
| `RepliesOneLevel` | `Spec => []OneLevelReplies` |
| `NoCircularWait` | `Spec => []NoDeadlock` |

* `LikesHeld`: the like a transaction inserts is new until it commits, the one it
  deletes is there, and no two transactions hold the like of one user.
* `IdsAreNew`: an uncommitted comment has an id of its own that nobody refers to.
* `ParentsHeld`: the parent of a reply was top-level when it was read, and if it
  was deleted since then the foreign key refuses the reply; once the reply is
  inserted, nobody deletes the parent before the commit.
* `DeletesAreWhole`: concurrent deletes have disjoint rows, and a finished
  `DELETE` has the replies of each of its rows. With `ParentsHeld` it gives
  `OneLevelReplies` across the cascade.

`NoCircularWait` supposes that everybody waits. Nobody is about to commit, since a
commit waits for nothing; so nobody holds the row of the post, and nobody waits for
it. What is left to wait for are rows that deletes hold, and the deletes still
running are cascades. A cascade that waits for another one would wait for a reply,
and the other would in turn wait for a reply below that reply, which
`OneLevelReplies` excludes; so somebody goes on.

### SessionsProofs

Proved for any sets of users, devices and requests in progress and all bounds:

| Theorem | Statement |
|---|---|
| `SessionsInvariant` | `Spec => []SessionsInv` |
| `SessionsKept` | `Spec => []KeepsItsSession` |
| `NoneLeft` | `Spec => []NoTokenLeftBehind` |
| `Chains` | `Spec => []ChainsAreDisjoint` |
| `LogoutReaches` | `Spec => []LogoutAllReachesAll` |
| `RevokedOnce` | `Spec => RevokedForGood`, an action property |

* `SuccessorsInFlight`: the token a refresh has inserted continues the chain of the
  one it presented and is nobody's successor until it revokes that; `Chains`
  follows when it does, even if two devices refresh at the same time.
* `OneKeeper`: a token is on its way to one device or kept by one.
* `CaughtInTime`: a refresh that found its token good and has not inserted is the
  only thing a revocation of all tokens can miss; its session is then in `caught`,
  which names those of the user's last such revocation only.
* `AnswersAwaited`: while every answer is heard, a request presents the token its
  device keeps and is the device's only one. A device that did not hear an answer
  breaks it, which is why the two properties about devices exclude that.
* `RevokedByOwner`: then nothing but a device's own answered request has revoked
  what it keeps, which is `KeepsItsSession` in the middle of a refresh.

`RevokedOnce` rests on two lemmas about a step: `TableMoves` (a token only loses its
worth, and what is added is the token of a request about to insert) and
`RequestMoves` (a refresh about to insert was so before, or has just found its
token good). A session that is open after a step was therefore open before it
(`StaysOver`).

Each part is first shown to be kept under a condition on the one request that a
step changes (`SenseKeeps`, `KeeperKeeps`, `ChainsKeep`, ...); the lemmas of the
steps establish those conditions.

### NotificationsProofs

Proved for any sets of users, posts, workers and devices and all bounds:

| Theorem | Statement |
|---|---|
| `NotificationsInvariant` | `Spec => []NotificationsInv` |
| `ActsNotified` | `Spec => []EveryActNotified` |
| `ActsNotifiedOnce` | `Spec => []NotifiedOnce` |
| `PushesGoHome` | `Spec => []PushGoesHome` |
| `UnreadCounted` | `Spec => []UnreadNotUnderstated` |
| `WorkersTakeAll` | `Spec => []TakesWhatItMay` |
| `WorkersKeepContract` | `Spec => DeliveryContract`, which adds that the workers' steps are steps of `EventDelivery` |

* `NoneForgotten`, `HandledIsTold`: an act's event is in flight or in the stream,
  and a handler that returns has told what is due by then. `ActsNotified` joins
  the two when nothing is left to handle. `PostsStay` (a deleted post does not come
  back) makes "due" only ever shrink.
* `OneEventEach`, `NotesHaveHandlers`: every notification has an event whose
  handler is past its insert, and that event is the act's only one. Handlers in
  the middle therefore have made none, so inserting makes no second.
* `DevicesInStep`: the table of devices is what their users last heard, and a push
  knows of every device that its recipient uses.
* `FollowsCounted`: the invariant of `UnreadNotUnderstated` between the two queries
  of a list.

### FeedPipelineProofs

Proved for any sets of users, workers and readers, all limits, and all bounds:

| Theorem | Statement |
|---|---|
| `FeedInvariant` | `Spec => []FeedInv` |
| `NobodyElse` | `Spec => []OnlyFollowed` |
| `NothingFallsThrough` | `Spec => []NothingMissed` |
| `NothingOfTheUnfollowed` | `Spec => []UnfollowCleansInOrder` |
| `WorkersTakeAll` | `Spec => []TakesWhatItMay` |
| `WorkersKeepContract` | `Spec => DeliveryContract`, which adds that the workers' steps are steps of `EventDelivery` |

`FeedInv` is `ContentInv` and `InOrderInv` (`ContentInvariant`, `LastWordCounts`).
`NothingMissed` speaks of quiet states; `NoneMissing` in `ContentInv` says of
every state that what is due is in the feed, spoiled or `Coming`: its event is
unpublished, waits for a worker, or is in a hand that has the add still to do. The
event is the post's own if the pair is `owed` and the follow's otherwise
(`Brings`). The case that matters is a handler's one read of the tables:
whoever is owed the post is still a follower when the fan-out reads the followers
(`OwedToFollowers`), and a post of a younger follow is among the backfill when it
is read, since it is among the newest of its author and was committed before the
follow (`HandledAdds`, `RecentIsFound`). That a feed which had a post, or the cap's
worth of newer ones, has so after any further add and trim is `TrimmedKeeps`,
which rests on two lemmas about `Newest`: members of a finite set of numbers have
the ranks 0, 1, ... (`Ranks`), and the n newest of at least n are n
(`NewestCount`). The proof shows that what `NothingMissed` excuses is enough.

`InOrderInv` is the same for what has to go: while nothing disturbs the order, a
worker holds an event only if all before it are settled, and of an account that is
not followed whatever is in the feed is `Going` and whatever may still be added has
the unfollow after it (`LeavesInOrder`). An add that a handler does before an
unfollow it has not seen is removed later because the unfollow's event is not
in any hand yet; and if a user sends one request at a time, the events of his
follows and unfollows are published in the order of their commits
(`OneAtATime`), which `Undisturbed` asks for as `InFlight <= 1`.

### Only model-checked

`AcknowledgedUnlessFaulty`, `EveryRequestEnds` and `EveryTraversalEnds` are
liveness under fairness, which is outside the prover; of the last one the safety
half is `CursorsDescend`. The runs of section 4 refute what they check. Every other
property of a run is a theorem.

## 6. Plan

1. (done) The modules of section 2.
2. (done) The proofs of section 5.
3. Left: what stands between a feed and its reader, namely that the pages of one
   `GetFeed` traversal miss nothing while handlers write (`Pagination` has it for
   lists with any changes, `FeedPipeline` for one page at a time).

## 7. What is not modelled, and why

* In `FeedPipeline` the id of a post stands for its score as well. The real scores
  are seconds, of the event or of `created_at`; they tie, Redis orders ties by
  member, as text, and a later add overwrites them. `Pagination` has ties and
  overwritten scores for a reader's pages, not for the trim: which of two posts of
  about the same second falls off at the cap is examined nowhere.
* A message that cannot be parsed is skipped by `Read` and never acknowledged; the
  publisher in this repository writes none.
* Two processes with the same consumer names (the names carry no host): the
  model has one process at a time, as the deployment does.
* A pipeline of which Redis executes only a part because the connection breaks
  in the middle.
* Push delivery, presigned uploads, configuration and the rest of the HTTP layer:
  I/O without state of their own. Login, profiles, search and the follow status
  that lists are enriched with: reads. Comment text, media rows and mentions: no
  property depends on them.
