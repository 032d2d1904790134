------------------------------ MODULE Notifications -------------------------------
(***************************************************************************)
(* Notifications: a like, a comment or a follow is committed and published *)
(* (service/post.go, comment.go, follow.go), a worker's handler inserts a  *)
(* row into notifications (worker/handler.go), a goroutine of its own      *)
(* pushes it to the recipient's devices (service/notification.go), and the *)
(* recipient lists the rows and marks them read                            *)
(* (repository/notification.go).                                           *)
(*                                                                         *)
(* The stream is the contract of EventDelivery, which FeedQueue            *)
(* implements. The transactions of likes, comments and follows are in      *)
(* Engagement and UserCounters; here they are one step. Deleting a comment *)
(* cascades to its replies and to the notifications of both.               *)
(***************************************************************************)
EXTENDS Integers, Sequences, FiniteSets

CONSTANTS
  Users,      \* the accounts
  NoUser,     \* the owner of a device token that is not registered
  Author,     \* the author of every post there may be
  InitPosts,  \* the posts that exist at the start
  Workers,    \* the worker goroutines
  Devices,    \* Expo push tokens, one per device
  ListLimit,  \* the limit of GET /notifications
  Bound       \* bounds: how often each kind of step is taken

Posts == DOMAIN Author

Kinds == {"acts", "undos", "posts", "deletes", "devices", "lists", "marks", "crashes",
          "failures", "lost", "resent", "steps"}  \* steps: all of them

ASSUME NoUserAssumption == NoUser \notin Users
ASSUME AuthorAssumption == Author \in [Posts -> Users] /\ InitPosts \subseteq Posts
ASSUME ListLimitAssumption == ListLimit \in Nat \ {0}
ASSUME BoundAssumption == Bound \in [Kinds -> Nat]

VARIABLES
  status,     \* of each post: "none", "live" or "deleted"
  likes,      \* the post_likes table: <<user, post>>
  follows,    \* the follows table: <<follower, followee>>
  comments,   \* the post_comments table: the acts that created them
  acts,       \* history: every like, comment and follow committed, by its number
  inFlight,   \* acts committed whose event has not been published
  stream,     \* published events: the number of their act
  job,        \* what each worker is doing
  attempted,  \* entries some handler was started on
  settled,    \* entries acknowledged
  notes,      \* the notifications table
  lastId,     \* its sequence of ids, which is also the order of created_at
  pushes,     \* the sendPushNotification goroutines
  owner,      \* the device_tokens table: the user of each token
  holder,     \* history: who uses the device, as far as its requests were heard
  lister,     \* GET /notifications of each user
  used        \* steps of each kind taken so far

tables == <<status, likes, follows, comments, acts>>
delivery == <<stream, job, attempted, settled>>
phone == <<owner, holder>>
vars == <<tables, inFlight, delivery, notes, lastId, pushes, phone, lister, used>>

NoJob == [event |-> 0, phase |-> "idle"]
NoList == [step |-> "idle", count |-> 0, unread |-> {}, cut |-> FALSE]

Init ==
  /\ status = [p \in Posts |-> IF p \in InitPosts THEN "live" ELSE "none"]
  /\ likes = {} /\ follows = {} /\ comments = {} /\ acts = <<>>
  /\ inFlight = {} /\ stream = <<>>
  /\ job = [w \in Workers |-> NoJob] /\ attempted = {} /\ settled = {}
  /\ notes = {} /\ lastId = 0 /\ pushes = {}
  /\ owner = [d \in Devices |-> NoUser] /\ holder = owner
  /\ lister = [u \in Users |-> NoList]
  /\ used = [k \in Kinds |-> 0]

\* An event sent again is handled again, and counts as two steps.
Cost(k) == IF k = "resent" THEN 2 ELSE 1

Spend(k) ==
  /\ used[k] < Bound[k] /\ used["steps"] + Cost(k) <= Bound["steps"]
  /\ used' = [used EXCEPT ![k] = @ + 1, !["steps"] = @ + Cost(k)]

LiveBy(u) == {p \in Posts : status[p] = "live" /\ Author[p] = u}

---------------------------------------------------------------------------------
(* Requests *)

\* A request of type by actor is committed; user is to be notified. had: the
\* live posts of user at that time.
Commit(type, actor, user, post) ==
  /\ Spend("acts")
  /\ acts' = Append(acts, [type |-> type, actor |-> actor, user |-> user, post |-> post,
                           had |-> LiveBy(user)])
  /\ inFlight' = inFlight \cup {Len(acts) + 1}
  /\ UNCHANGED <<status, delivery, notes, lastId, pushes, phone, lister>>

\* PostService.Like: a live post not liked before.
Like(u, p) ==
  /\ status[p] = "live" /\ <<u, p>> \notin likes
  /\ likes' = likes \cup {<<u, p>>}
  /\ Commit("like", u, Author[p], p)
  /\ UNCHANGED <<follows, comments>>

\* CommentService.Create on a live post.
Comment(u, p) ==
  /\ status[p] = "live"
  /\ comments' = comments \cup {Len(acts) + 1}
  /\ Commit("comment", u, Author[p], p)
  /\ UNCHANGED <<likes, follows>>

\* FollowService.Follow
Follow(u, a) ==
  /\ u # a /\ <<u, a>> \notin follows
  /\ follows' = follows \cup {<<u, a>>}
  /\ Commit("follow", u, a, 0)
  /\ UNCHANGED <<likes, comments>>

\* Unlike and Unfollow take back the row, not the notification.
Undo ==
  /\ Spend("undos")
  /\ \/ \E l \in likes : likes' = likes \ {l} /\ UNCHANGED follows
     \/ \E f \in follows : follows' = follows \ {f} /\ UNCHANGED likes
  /\ UNCHANGED <<status, comments, acts, inFlight, delivery, notes, lastId, pushes, phone,
                 lister>>

\* CommentService.Delete: a comment with its replies; their notifications go
\* with them.
DeleteComments(T) ==
  /\ Spend("deletes")
  /\ \E p \in Posts : \A c \in T : acts[c].post = p
  /\ comments' = comments \ T
  /\ notes' = {n \in notes : n.act \notin T}
  /\ UNCHANGED <<status, likes, follows, acts, inFlight, delivery, lastId, pushes, phone,
                 lister>>

\* PostService.Create
CreatePost(p) ==
  /\ Spend("posts")
  /\ status[p] = "none"
  /\ status' = [status EXCEPT ![p] = "live"]
  /\ UNCHANGED <<likes, follows, comments, acts, inFlight, delivery, notes, lastId, pushes,
                 phone, lister>>

\* PostService.Delete sets deleted_at: likes, comments and notifications stay.
DeletePost(p) ==
  /\ Spend("deletes")
  /\ status[p] = "live"
  /\ status' = [status EXCEPT ![p] = "deleted"]
  /\ UNCHANGED <<likes, follows, comments, acts, inFlight, delivery, notes, lastId, pushes,
                 phone, lister>>

\* Likes of and comments on one's own post have no event.
HasEvent(a) == acts[a].actor # acts[a].user

\* GetAuthorID (an author never changes) and Publish, after the commit.
Publish(a) ==
  /\ inFlight' = inFlight \ {a}
  /\ stream' = IF HasEvent(a) THEN Append(stream, a) ELSE stream
  /\ UNCHANGED <<tables, job, attempted, settled, notes, lastId, pushes, phone, lister, used>>

\* The reply of XADD is lost and the Redis client sends it again later.
PublishAgain(a) ==
  /\ Spend("resent")
  /\ HasEvent(a)
  /\ stream' = Append(stream, a)
  /\ UNCHANGED <<tables, inFlight, job, attempted, settled, notes, lastId, pushes, phone,
                 lister>>

\* GetAuthorID or Publish fails, or the process dies first: the request
\* succeeds all the same.
LosePublish(a) ==
  /\ Spend("lost")
  /\ inFlight' = inFlight \ {a}
  /\ UNCHANGED <<tables, delivery, notes, lastId, pushes, phone, lister>>

---------------------------------------------------------------------------------
(* Workers *)

Working == {"backfill", "notify"}
Taken == {job[w].event : w \in Workers}
MayTake(w, e) == job[w] = NoJob /\ e \notin settled /\ e \notin Taken
ActOf(w) == stream[job[w].event]

\* Mutant: an event may be in two hands.
AttemptTaken(w, e) ==
  /\ job[w] = NoJob
  /\ e \notin settled
  /\ job' = [job EXCEPT ![w] =
       [event |-> e, phase |-> IF acts[stream[e]].type = "follow" THEN "backfill" ELSE "notify"]]
  /\ attempted' = attempted \cup {e}
  /\ UNCHANGED <<tables, inFlight, stream, settled, notes, lastId, pushes, phone, lister, used>>

\* A worker starts the handler of an event.
Attempt(w, e) ==
  /\ MayTake(w, e)
  /\ job' = [job EXCEPT ![w] =
       [event |-> e, phase |-> IF acts[stream[e]].type = "follow" THEN "backfill" ELSE "notify"]]
  /\ attempted' = attempted \cup {e}
  /\ UNCHANGED <<tables, inFlight, stream, settled, notes, lastId, pushes, phone, lister, used>>

\* handleUserFollowed reads the followee's posts and returns at once if there
\* are none, or if it cannot. (What it does to the feed is in FeedPipeline.)
Backfill(w) ==
  /\ job[w].phase = "backfill"
  /\ \/ /\ job' = [job EXCEPT ![w].phase =
                     IF LiveBy(acts[ActOf(w)].user) = {} THEN "ack" ELSE "notify"]
        /\ UNCHANGED used
     \/ job' = [job EXCEPT ![w].phase = "ack"] /\ Spend("failures")
  /\ UNCHANGED <<tables, inFlight, stream, attempted, settled, notes, lastId, pushes, phone,
                 lister>>

\* Mutant: no foreign key.
InsertableAlways(a) == TRUE

\* A comment's notification refers to the comment.
Insertable(a) == acts[a].type = "comment" => a \in comments

Insert(a) ==
  /\ lastId' = lastId + 1
  /\ notes' = notes \cup {[id |-> lastId + 1, act |-> a, read |-> FALSE]}

\* The devices used by u.
HeldBy(u) == {d \in Devices : holder[d] = u}

\* go sendPushNotification. home, history: devices the recipient used at some
\* time since the notification was created.
StartPush(a) ==
  pushes' = pushes \cup {[note |-> lastId + 1, user |-> acts[a].user, step |-> "read",
                          devices |-> {}, home |-> HeldBy(acts[a].user)]}

Similar(a, b) ==
  acts[a].type = acts[b].type /\ acts[a].post = acts[b].post /\ acts[a].user = acts[b].user

\* Mutant: one notification for a post, whoever acted.
CreateNotificationOncePerPost(w) ==
  /\ job[w].phase = "notify"
  /\ job' = [job EXCEPT ![w].phase = "ack"]
  /\ IF Insertable(ActOf(w)) /\ ~\E n \in notes : Similar(n.act, ActOf(w))
     THEN Insert(ActOf(w)) /\ StartPush(ActOf(w))
     ELSE UNCHANGED <<notes, lastId, pushes>>
  /\ UNCHANGED <<tables, inFlight, stream, attempted, settled, phone, lister, used>>

\* NotificationService.CreateNotification: the INSERT, which a foreign key may
\* refuse, and then a goroutine for the push. The handler returns whatever
\* comes of it.
CreateNotification(w) ==
  /\ job[w].phase = "notify"
  /\ job' = [job EXCEPT ![w].phase = "ack"]
  /\ IF Insertable(ActOf(w)) THEN Insert(ActOf(w)) /\ StartPush(ActOf(w))
                             ELSE UNCHANGED <<notes, lastId, pushes>>
  /\ UNCHANGED <<tables, inFlight, stream, attempted, settled, phone, lister, used>>

\* The INSERT fails, or is done but its reply is lost: no push.
CreateNotificationFails(w) ==
  /\ Spend("failures")
  /\ job[w].phase = "notify"
  /\ job' = [job EXCEPT ![w].phase = "ack"]
  /\ \/ UNCHANGED <<notes, lastId>>
     \/ Insertable(ActOf(w)) /\ Insert(ActOf(w))
  /\ UNCHANGED <<tables, inFlight, stream, attempted, settled, pushes, phone, lister>>

\* Mutant: acknowledged before the handler has returned.
AckEarly(w) ==
  /\ job[w] # NoJob
  /\ job' = [job EXCEPT ![w] = NoJob]
  /\ settled' = settled \cup {job[w].event}
  /\ UNCHANGED <<tables, inFlight, stream, attempted, notes, lastId, pushes, phone, lister, used>>

\* XACK. If it fails the event is handed out again some time.
Ack(w) ==
  /\ job[w].phase = "ack"
  /\ job' = [job EXCEPT ![w] = NoJob]
  /\ \/ settled' = settled \cup {job[w].event} /\ UNCHANGED used
     \/ Spend("failures") /\ UNCHANGED settled
  /\ UNCHANGED <<tables, inFlight, stream, attempted, notes, lastId, pushes, phone, lister>>

\* The process dies, with its workers, pushes and half-read lists.
Crash ==
  /\ Spend("crashes")
  /\ job' = [w \in Workers |-> NoJob]
  /\ pushes' = {}
  /\ lister' = [u \in Users |-> IF lister[u].step = "idle" THEN lister[u] ELSE NoList]
  /\ UNCHANGED <<tables, inFlight, stream, attempted, settled, notes, lastId, phone>>

---------------------------------------------------------------------------------
(* Push and device tokens *)

GetByUserID(u) == {d \in Devices : owner[d] = u}

\* No device, no push.
ReadDevices(p) ==
  LET found == GetByUserID(p.user) IN
  /\ p.step = "read"
  /\ pushes' = (pushes \ {p}) \cup
       (IF found = {} THEN {} ELSE {[p EXCEPT !.step = "send", !.devices = found]})
  /\ UNCHANGED <<tables, inFlight, delivery, notes, lastId, phone, lister, used>>

\* SendToTokens: the goroutine ends, whatever Expo answers.
Send(p) ==
  /\ p.step = "send"
  /\ pushes' = pushes \ {p}
  /\ UNCHANGED <<tables, inFlight, delivery, notes, lastId, phone, lister, used>>

\* The recipient's tokens or the actor cannot be read.
PushFails(p) ==
  /\ Spend("failures")
  /\ pushes' = pushes \ {p}
  /\ UNCHANGED <<tables, inFlight, delivery, notes, lastId, phone, lister>>

\* Mutant: ON CONFLICT DO NOTHING.
UpsertDoNothing(u, d) == owner' = IF owner[d] = NoUser THEN [owner EXCEPT ![d] = u] ELSE owner

\* A token that exists is reassigned.
Upsert(u, d) == owner' = [owner EXCEPT ![d] = u]

Delete(d) == owner' = [owner EXCEPT ![d] = NoUser]

\* u now uses d.
Holds(u, d) ==
  /\ holder' = [holder EXCEPT ![d] = u]
  /\ pushes' = {IF p.user = u THEN [p EXCEPT !.home = @ \cup {d}] ELSE p : p \in pushes}

\* On login and at every start of the app.
RegisterDeviceToken(u, d) ==
  /\ Spend("devices")
  /\ Upsert(u, d) /\ Holds(u, d)
  /\ UNCHANGED <<tables, inFlight, delivery, notes, lastId, lister>>

\* On logout.
RemoveDeviceToken(d) ==
  /\ Spend("devices")
  /\ Delete(d) /\ Holds(NoUser, d)
  /\ UNCHANGED <<tables, inFlight, delivery, notes, lastId, lister>>

---------------------------------------------------------------------------------
(* Reading notifications *)

OfUser(u) == {n \in notes : acts[n.act].user = u}
Unread(N) == {n \in N : ~n.read}
Ids(N) == {n.id : n \in N}
FollowNotes(u) == {n \in OfUser(u) : acts[n.act].type = "follow"}

\* The newest of a set of notifications.
Latest(N) == CHOOSE n \in N : \A m \in N : m.id <= n.id

\* ORDER BY created_at DESC LIMIT ListLimit
Listed(N) == {n \in N : Cardinality({m \in N : m.id > n.id}) < ListLimit}

\* GROUP BY type, post_id ... ORDER BY MAX(created_at) DESC LIMIT ListLimit
Groups(u) ==
  LET rest == OfUser(u) \ FollowNotes(u)
  IN {{m \in rest : Similar(m.act, n.act)} : n \in rest}

ListedGroups(u) ==
  {G \in Groups(u) :
     Cardinality({H \in Groups(u) : Latest(H).id > Latest(G).id}) < ListLimit}

\* Mutant: an unread group counts as one.
AggregatedUnreadGroups(u) == Cardinality({G \in ListedGroups(u) : Unread(G) # {}})

\* A group with an unread row adds its total_count: all its rows.
AggregatedUnread(u) ==
  Cardinality(UNION {G \in ListedGroups(u) : Unread(G) # {}})

\* GetFollowNotifications: the first of two queries. unread, history: what is
\* unread now and stays so until the second.
ListFollows(u) ==
  /\ Spend("lists")
  /\ lister[u].step = "idle"
  /\ lister' = [lister EXCEPT ![u] =
       [step |-> "aggregate", count |-> Cardinality(Unread(Listed(FollowNotes(u)))),
        unread |-> Ids(Unread(OfUser(u))), cut |-> Listed(FollowNotes(u)) # FollowNotes(u)]]
  /\ UNCHANGED <<tables, inFlight, delivery, notes, lastId, pushes, phone>>

\* GetAggregatedNotifications, and the answer.
ListAggregated(u) ==
  /\ lister[u].step = "aggregate"
  /\ lister' = [lister EXCEPT ![u] =
       [step |-> "idle", count |-> @.count + AggregatedUnread(u),
        unread |-> @.unread \cap Ids(Unread(OfUser(u))),
        cut |-> @.cut \/ ListedGroups(u) # Groups(u)]]
  /\ UNCHANGED <<tables, inFlight, delivery, notes, lastId, pushes, phone, used>>

\* Either query fails, and the request.
ListFails(u) ==
  /\ Spend("failures")
  /\ lister[u].step = "aggregate"
  /\ lister' = [lister EXCEPT ![u] = NoList]
  /\ UNCHANGED <<tables, inFlight, delivery, notes, lastId, pushes, phone>>

MarkRead(N) ==
  /\ Spend("marks")
  /\ notes' = {IF n \in N THEN [n EXCEPT !.read = TRUE] ELSE n : n \in notes}
  /\ UNCHANGED <<tables, inFlight, delivery, lastId, pushes, phone, lister>>

\* Rows of ids that are the user's own.
MarkAsRead(u, ids) == MarkRead({n \in OfUser(u) : n.id \in ids})

MarkAllAsRead(u) == MarkRead(Unread(OfUser(u)))

---------------------------------------------------------------------------------

Next ==
  \/ \E u \in Users : \/ \E p \in Posts : Like(u, p) \/ Comment(u, p)
                      \/ \E a \in Users : Follow(u, a)
  \/ Undo
  \/ \E T \in SUBSET comments \ {{}} : DeleteComments(T)
  \/ \E p \in Posts : CreatePost(p) \/ DeletePost(p)
  \/ \E a \in inFlight : Publish(a) \/ PublishAgain(a) \/ LosePublish(a)
  \/ \E w \in Workers : \/ \E e \in DOMAIN stream : Attempt(w, e)
                        \/ Backfill(w) \/ CreateNotification(w)
                        \/ CreateNotificationFails(w) \/ Ack(w)
  \/ Crash
  \/ \E p \in pushes : ReadDevices(p) \/ Send(p) \/ PushFails(p)
  \/ \E d \in Devices : RemoveDeviceToken(d) \/ \E u \in Users : RegisterDeviceToken(u, d)
  \/ \E u \in Users : \/ ListFollows(u) \/ ListAggregated(u) \/ ListFails(u)
                      \/ MarkAllAsRead(u)
                      \/ \E ids \in SUBSET Ids(notes) \ {{}} : MarkAsRead(u, ids)

Spec == Init /\ [][Next]_vars

---------------------------------------------------------------------------------
(* Properties *)

Act == [type : {"like", "comment", "follow"}, actor : Users, user : Users, post : Posts \cup {0},
        had : SUBSET Posts]
Job == [event : {0} \cup DOMAIN stream, phase : Working \cup {"idle", "ack"}]
Note == [id : 1 .. lastId, act : DOMAIN acts, read : BOOLEAN]
Push == [note : Nat, user : Users, step : {"read", "send"}, devices : SUBSET Devices,
         home : SUBSET Devices]
List == [step : {"idle", "aggregate"}, count : Nat, unread : SUBSET (1 .. lastId), cut : BOOLEAN]

\* Every variable keeps its type, and the tables their keys.
TypeOK ==
  /\ status \in [Posts -> {"none", "live", "deleted"}]
  /\ likes \subseteq Users \X Posts /\ follows \subseteq Users \X Users
  /\ acts \in Seq(Act)
  /\ comments \subseteq {a \in DOMAIN acts : acts[a].type = "comment"}
  /\ inFlight \subseteq DOMAIN acts /\ stream \in Seq(DOMAIN acts)
  /\ job \in [Workers -> Job]
  /\ settled \subseteq attempted /\ attempted \subseteq DOMAIN stream
  /\ notes \subseteq Note /\ IsFiniteSet(notes) /\ lastId \in Nat
  /\ \A m, n \in notes : m.id = n.id => m = n
  /\ \A n \in notes : acts[n.act].type = "comment" => n.act \in comments
  /\ pushes \subseteq Push
  /\ {owner, holder} \subseteq [Devices -> Users \cup {NoUser}]
  /\ lister \in [Users -> List]
  /\ used \in [Kinds -> Nat] /\ \A k \in Kinds : used[k] <= Bound[k]

Delivery ==
  INSTANCE EventDelivery WITH
    appended <- Len(stream),
    hand <- [w \in Workers |-> job[w].event],
    running <- {w \in Workers : job[w].phase \in Working}

\* Whatever event the contract may hand a worker, a worker takes and handles.
TakesWhatItMay ==
  \A w \in Workers, e \in DOMAIN stream : Delivery!MayAttempt(w, e) => MayTake(w, e)

\* The workers of this module keep to the contract of the event stream that
\* FeedQueue implements, and assume no more of it.
DeliveryContract == Delivery!DSpec /\ []TakesWhatItMay

Never(k) == used[k] = 0

NotesOf(a) == {n \in notes : n.act = a}

\* docs/NOTIFICATIONS.md, "Khi nao user nhan push notification?": who likes,
\* comments on a post or follows is reported to the other user. When every
\* event has been handled every such act has its notification, whatever
\* crashed or was undone, unless a call failed or an event was lost; a comment
\* as long as it exists, and a follow only if the followee had a post that was
\* not deleted before the event was handled.
EveryActNotified ==
  /\ inFlight = {} /\ settled = DOMAIN stream
  /\ Never("failures") /\ Never("lost")
  => \A a \in DOMAIN acts :
       /\ HasEvent(a)
       /\ acts[a].type = "comment" => a \in comments
       /\ acts[a].type = "follow" => acts[a].had \cap LiveBy(acts[a].user) # {}
       => NotesOf(a) # {}

\* An act is reported once, if no worker died with it, no call failed and its
\* event was not sent twice: concurrent workers do not report it twice.
NotifiedOnce ==
  Never("crashes") /\ Never("failures") /\ Never("resent")
  => \A a \in DOMAIN acts : Cardinality(NotesOf(a)) <= 1

\* A device that changed hands gets no push for its former user of a
\* notification that was created after that.
PushGoesHome == \A p \in pushes : p.devices \subseteq p.home

\* The badge never says less than there is to read: the unread_count of a list
\* that was not cut at the limit counts at least the notifications unread all
\* the while it was read, whatever is inserted, deleted and marked meanwhile.
UnreadNotUnderstated ==
  \A u \in Users : lister[u].step = "idle" /\ ~lister[u].cut
                     => Cardinality(lister[u].unread) <= lister[u].count

(* The inductive invariant. *)

\* An event is in the hands of one worker, which has started on it and not
\* acknowledged it; only follows are backfilled.
OneHandEach ==
  \A w \in Workers :
    /\ job[w].event = 0 <=> job[w].phase = "idle"
    /\ job[w].phase = "backfill" => acts[ActOf(w)].type = "follow"
    /\ job[w].event # 0 => /\ job[w].event \in attempted \ settled
                           /\ \A v \in Workers \ {w} : job[v].event # job[w].event

\* The table of devices is what their users heard, and a push knows of every
\* device that its recipient uses.
DevicesInStep == owner = holder /\ \A p \in pushes : HeldBy(p.user) \subseteq p.home

\* A post that was live is not created again.
PostsStay == \A a \in DOMAIN acts : \A p \in acts[a].had : status[p] # "none"

Appended(a) == \E e \in DOMAIN stream : stream[e] = a

\* An act's event is published, or about to be.
NoneForgotten ==
  Never("lost") => \A a \in DOMAIN acts : HasEvent(a) => a \in inFlight \/ Appended(a)

\* The act has its notification, if it is due one.
Told(a) ==
  /\ acts[a].type = "comment" => a \in comments
  /\ acts[a].type = "follow" => acts[a].had \cap LiveBy(acts[a].user) # {}
  => NotesOf(a) # {}

\* A handler has reported what it was handed when it returns.
HandledIsTold ==
  Never("failures") => /\ \A e \in settled : Told(stream[e])
                       /\ \A w \in Workers : job[w].phase = "ack" => Told(ActOf(w))

\* An act has one event, once it is published.
OneEventEach ==
  Never("resent") =>
    /\ \A e \in DOMAIN stream : stream[e] \notin inFlight
    /\ \A e, f \in DOMAIN stream : stream[e] = stream[f] => e = f

\* Then what a handler was started on is settled or still in its hands, and
\* only a handler at its end has made a notification.
NotesHaveHandlers ==
  Never("crashes") /\ Never("failures") /\ Never("resent")
  => /\ \A e \in attempted \ settled : e \in Taken
     /\ \A n \in notes : \E e \in attempted :
          stream[e] = n.act /\ \A w \in Workers : job[w].event = e => job[w].phase = "ack"
     /\ \A m, n \in notes : m.act = n.act => m = n

\* Between its queries a list that was not cut has counted every follow that
\* stays unread.
FollowsCounted ==
  \A u \in Users : lister[u].step = "aggregate" /\ ~lister[u].cut =>
    Cardinality({i \in lister[u].unread : i \in Ids(FollowNotes(u))}) <= lister[u].count

NotificationsInv ==
  /\ TypeOK /\ OneHandEach
  /\ DevicesInStep /\ PushGoesHome
  /\ PostsStay /\ NoneForgotten /\ HandledIsTold
  /\ OneEventEach /\ NotesHaveHandlers
  /\ FollowsCounted /\ UnreadNotUnderstated
=================================================================================
