-------------------------------- MODULE Pagination --------------------------------
(***************************************************************************)
(* A client pages through a list while others change it: the followers and *)
(* followees of a user (repository/follow.go), the posts of a user and the *)
(* likers of a post (repository/post.go), the comments of a post           *)
(* (repository/comment.go) and the cached feed (service/feed.go).          *)
(*                                                                         *)
(* Every list is newest first and its cursor is exclusive: the next page   *)
(* begins below the cursor. What the lists do not share is what orders     *)
(* their rows, how much of that is left in the cursor, where the cursor    *)
(* comes from and how a page knows that there are more.                    *)
(*                                                                         *)
(* A row's time is its second, the fraction of it and its id. Cursors are  *)
(* text and keep the second only: their fraction is 0.                     *)
(***************************************************************************)
EXTENDS Integers, FiniteSets

CONSTANTS
  ItemCount,    \* bound: posts, users or comments that may be in the list
  LastSecond,   \* bound: rows are written in the seconds 1 .. LastSecond
  Fractions,    \* bound: the fractions of a second that are told apart
  Asked,        \* the limits clients ask for
  DefaultLimit, \* the limit of a request that asks for none
  MaxLimit,     \* the largest limit served
  MaxChanges    \* bound: changes of the list and failing calls

ASSUME ItemCountAssumption == ItemCount \in Nat
ASSUME TimesAssumption == LastSecond \in Nat /\ Fractions \subseteq Nat /\ 0 \in Fractions
ASSUME LimitsAssumption ==
  /\ DefaultLimit \in 1 .. MaxLimit /\ MaxLimit \in Nat /\ Asked \subseteq Nat \ {0}
ASSUME MaxChangesAssumption == MaxChanges \in Nat

VARIABLES
  list,     \* the list the client pages through
  rows,     \* the row of every item, Absent if it is not in the list
  fresh,    \* items that were never in the list
  lastId,   \* the likes' last id
  hidden,   \* feed: soft-deleted posts whose cache entry is still there
  deleted,  \* likers, comments: their post is soft-deleted
  client,   \* the request in progress and the cursor
  walk,     \* history of the client's pages
  changes   \* changes and failures so far

vars == <<list, rows, fresh, lastId, hidden, deleted, client, walk, changes>>
table == <<list, rows, fresh, lastId, hidden, deleted>>

Items == 1 .. ItemCount
FollowLists == {"followers", "following"}
Lists == FollowLists \cup {"posts", "likers", "comments", "feed"}

At(s, f, id) == [s |-> s, f |-> f, id |-> id]
Absent == At(0, 0, 0)
Present == {i \in Items : rows[i] # Absent}

\* Rows are written with a fraction of a second, scores of the feed without.
Times(l) == {t \in (1 .. LastSecond) \X Fractions : l = "feed" => t[2] = 0}

Less(a, b) ==
  \/ a.s < b.s
  \/ a.s = b.s /\ a.f < b.f
  \/ a.s = b.s /\ a.f = b.f /\ a.id < b.id

---------------------------------------------------------------------------------
(* Order and cursors. NoCursor is above every row; the time.Time of a query *)
(* that failed is below.                                                    *)

NoCursor == At(LastSecond + 1, 0, 0)
ZeroTime == At(0, 0, 0)

\* The ORDER BY of each list: follows by time alone, the feed by score.
Key(i) == IF list \in FollowLists \cup {"feed"} THEN [rows[i] EXCEPT !.id = 0] ELSE rows[i]

\* time.RFC3339 has no fraction.
FollowCursor(row) == At(row.s, 0, 0)

\* Mutant: timestamp and id swapped.
formatCursorSwapped(row) == At(row.id, 0, row.s)

formatCursor(row) == At(row.s, 0, row.id)

formatCommentCursor(row) == At(row.s, 0, row.id)

\* Mutant: the second is rounded up.
formatFeedCursorRoundedUp(row) == At(row.s + 1, 0, 0)

\* The post's id is in the cursor's text and ignored by parseFeedCursor.
formatFeedCursor(row) == At(row.s, 0, 0)

\* Mutant: the cursor is inclusive.
BelowOrAt(cursor) == {i \in Present : ~Less(cursor, Key(i))}

Below(cursor) == {i \in Present : Less(Key(i), cursor)}

\* A query for LIMIT n + 1 returns more than n rows.
More(n) == Cardinality(Below(client.cursor)) > n

\* The pages LIMIT n may return: rows whose keys are equal come in any order.
Pages(n) ==
  {S \in SUBSET Below(client.cursor) :
     /\ \A i \in S, j \in Below(client.cursor) \ S : ~Less(Key(i), Key(j))
     /\ IF More(n) THEN Cardinality(S) = n ELSE S = Below(client.cursor)}

LastOf(S) == {e \in S : \A i \in S : ~Less(Key(i), Key(e))}

---------------------------------------------------------------------------------
(* Limits *)

\* Follow lists refuse a limit above the maximum, the others lower it.
FollowLimit(asked) == IF asked = {} THEN {DefaultLimit}
                      ELSE {n \in asked : n <= MaxLimit}

ClampedLimit(asked) == IF asked = {} THEN {DefaultLimit}
                       ELSE {IF n > MaxLimit THEN MaxLimit ELSE n : n \in asked}

\* A request asks for no limit or for one.
Requests == {{}} \cup {{n} : n \in Asked}

---------------------------------------------------------------------------------

NoPage == [page |-> {}, size |-> 0, last |-> 0, end |-> NoCursor]

InitClient == [step |-> "ask", cursor |-> NoCursor, got |-> NoPage]

\* seen, twice: items shown, and shown more than once. ends: the last rows of
\* pages with more behind. stayed: items whose row has not changed since the
\* first request. slipped: a cursor was taken from another row than the last
\* of its page. cut: an answer ended the list without having looked behind
\* its page.
InitWalk == [seen |-> {}, twice |-> {}, ends |-> {}, stayed |-> Present,
             slipped |-> FALSE, cut |-> FALSE]

Init ==
  /\ list \in Lists
  /\ \E at \in [Items -> {<<>>} \cup Times(list)] :
       rows = [i \in Items |-> IF at[i] = <<>> THEN Absent ELSE At(at[i][1], at[i][2], i)]
  /\ fresh = Items \ Present
  /\ lastId = ItemCount /\ hidden = {} /\ deleted = FALSE
  /\ client = InitClient /\ walk = InitWalk /\ changes = 0

Disturb == changes < MaxChanges /\ changes' = changes + 1

Shown(w, S) == [w EXCEPT !.seen = @ \cup S, !.twice = @ \cup (S \cap w.seen)]

\* An answer with has_more: S is shown, its last row was end.
Continue(w, S, end, cursor) ==
  /\ client' = [InitClient EXCEPT !.cursor = cursor]
  /\ walk' = [Shown(w, S) EXCEPT !.ends = @ \cup {end}]

\* An answer without.
Stop(w, S) ==
  /\ client' = [InitClient EXCEPT !.step = "done"]
  /\ walk' = Shown(w, S)

\* The page is read; another query is needed before it is answered.
Hold(step, S, n, e) ==
  /\ client' = [client EXCEPT !.step = step,
                              !.got = [page |-> S, size |-> n, last |-> e, end |-> Key(e)]]
  /\ UNCHANGED walk

\* A page of a list whose cursor is at hand: LIMIT n + 1, trimmed to n.
Answer(n, Cursor(_)) ==
  \E S \in Pages(n) :
    IF More(n) THEN \E e \in LastOf(S) : Continue(walk, S, Key(e), Cursor(rows[e]))
               ELSE Stop(walk, S)

\* A page whose cursor takes another query.
AnswerOrHold(n) ==
  \E S \in Pages(n) :
    IF More(n) THEN \E e \in LastOf(S) : Hold("cursor", S, n, e)
               ELSE Stop(walk, S)

---------------------------------------------------------------------------------
(* Requests *)

\* Mutant: the row that shows that there are more is dropped and skipped.
GetFollowersPastPeek(n) ==
  /\ list = "followers" /\ client.step = "ask"
  /\ \E S \in Pages(n) :
       IF More(n) THEN \E T \in Pages(n + 1) : \E d \in LastOf(S), e \in LastOf(T) :
                         S \subseteq T /\ Continue(walk, S, Key(d), FollowCursor(rows[e]))
                  ELSE Stop(walk, S)
  /\ UNCHANGED <<table, changes>>

GetFollowers(n) ==
  /\ list = "followers" /\ client.step = "ask"
  /\ Answer(n, FollowCursor)
  /\ UNCHANGED <<table, changes>>

GetFollowing(n) ==
  /\ list = "following" /\ client.step = "ask"
  /\ Answer(n, FollowCursor)
  /\ UNCHANGED <<table, changes>>

\* CommentService.GetByPostID finds the post before it reads the page.
GetByPostID(n) ==
  /\ list = "comments" /\ client.step = "ask" /\ ~deleted
  /\ Answer(n, formatCommentCursor)
  /\ UNCHANGED <<table, changes>>

GetUserThumbnails(n) ==
  /\ list = "posts" /\ client.step = "ask"
  /\ AnswerOrHold(n)
  /\ UNCHANGED <<table, changes>>

\* created_at of the page's last post, which stays when the post is deleted.
\* The query's error is dropped: the cursor is then the zero time.
PostCursor ==
  /\ list = "posts" /\ client.step = "cursor"
  /\ \/ /\ Continue(walk, client.got.page, client.got.end, formatCursor(client.got.end))
        /\ UNCHANGED changes
     \/ /\ Disturb
        /\ Continue([walk EXCEPT !.cut = TRUE], client.got.page, client.got.end,
                    formatCursor(ZeroTime))
  /\ UNCHANGED table

GetPostLikers(n) ==
  /\ list = "likers" /\ client.step = "ask" /\ ~deleted
  /\ AnswerOrHold(n)
  /\ UNCHANGED <<table, changes>>

\* The like of the page's last user is read again. It may be gone, or another
\* one; without it, and if the query fails, the list ends here.
LikerCursor ==
  LET e == client.got.last
      other == [walk EXCEPT !.slipped = @ \/ rows[e] # client.got.end]
  IN /\ list = "likers" /\ client.step = "cursor"
     /\ \/ /\ rows[e] # Absent
           /\ Continue(other, client.got.page, client.got.end, formatCursor(rows[e]))
           /\ UNCHANGED changes
        \/ /\ \/ rows[e] = Absent /\ UNCHANGED changes
              \/ Disturb
           /\ Stop([walk EXCEPT !.cut = TRUE], client.got.page)
     /\ UNCHANGED table

\* GET of the likers or comments of a post that was deleted since: 404.
NotFound ==
  /\ list \in {"likers", "comments"} /\ client.step = "ask" /\ deleted
  /\ Stop([walk EXCEPT !.cut = TRUE], {})
  /\ UNCHANGED <<table, changes>>

\* FeedService.GetFeed reads a page of ids and scores. None: no has_more.
GetFeed(n) ==
  /\ list = "feed" /\ client.step = "ask"
  /\ \E S \in Pages(n) :
       IF S = {} THEN Stop(walk, {})
                 ELSE \E e \in LastOf(S) : Hold("hydrate", S, n, e)
  /\ UNCHANGED <<table, changes>>

\* It drops deleted posts and there are more if a full page is left. If a
\* query fails so does the request, and the client repeats it.
Hydrate ==
  LET shown == client.got.page \ hidden
  IN /\ list = "feed" /\ client.step = "hydrate"
     /\ \/ /\ IF Cardinality(shown) = client.got.size
              THEN Continue(walk, shown, client.got.end, formatFeedCursor(client.got.end))
              ELSE Stop([walk EXCEPT !.cut = @ \/ shown # client.got.page], shown)
           /\ UNCHANGED changes
        \/ /\ Disturb
           /\ client' = [client EXCEPT !.step = "ask", !.got = NoPage]
           /\ UNCHANGED walk
     /\ UNCHANGED table

---------------------------------------------------------------------------------
(* What others do meanwhile *)

Moved(i) == walk' = [walk EXCEPT !.stayed = @ \ {i}]

\* A new row. Its time is that of its transaction's start: rows that are
\* already there may be newer. Posts and comments do not come back.
Add(i) ==
  /\ Disturb
  /\ i \notin Present /\ (list \in {"posts", "comments"} => i \in fresh)
  /\ lastId' = IF list = "likers" THEN lastId + 1 ELSE lastId
  /\ \E t \in Times(list) :
       rows' = [rows EXCEPT ![i] = At(t[1], t[2], IF list = "likers" THEN lastId' ELSE i)]
  /\ fresh' = fresh \ {i}
  /\ UNCHANGED <<list, hidden, deleted, client, walk>>

\* An unfollow, an unlike, a deleted post or comment; in the feed a removal, a
\* trim or an expired cache.
Remove(i) ==
  /\ Disturb
  /\ i \in Present
  /\ rows' = [rows EXCEPT ![i] = Absent]
  /\ hidden' = hidden \ {i}
  /\ Moved(i)
  /\ UNCHANGED <<list, fresh, lastId, deleted, client>>

\* A post is soft-deleted before its event has cleaned the feed.
Hide(i) ==
  /\ Disturb
  /\ list = "feed" /\ i \in Present \ hidden
  /\ hidden' = hidden \cup {i}
  /\ Moved(i)
  /\ UNCHANGED <<list, rows, fresh, lastId, deleted, client>>

\* A fan-out scores a post with the time of its event, a backfill and a
\* warm-up with created_at, rounded: the later ZADD moves it.
Rescore(i) ==
  /\ Disturb
  /\ list = "feed" /\ i \in Present
  /\ \E s \in 1 .. LastSecond :
       s # rows[i].s /\ rows' = [rows EXCEPT ![i].s = s]
  /\ Moved(i)
  /\ UNCHANGED <<list, fresh, lastId, hidden, deleted, client>>

\* The post whose likers or comments are listed is soft-deleted.
DeletePost ==
  /\ Disturb
  /\ list \in {"likers", "comments"} /\ ~deleted
  /\ deleted' = TRUE
  /\ UNCHANGED <<list, rows, fresh, lastId, hidden, client, walk>>

---------------------------------------------------------------------------------

\* What the client and the server do for it.
Walk ==
  \/ \E asked \in Requests :
       \/ \E n \in FollowLimit(asked) : GetFollowers(n) \/ GetFollowing(n)
       \/ \E n \in ClampedLimit(asked) :
            GetUserThumbnails(n) \/ GetPostLikers(n) \/ GetByPostID(n) \/ GetFeed(n)
  \/ PostCursor \/ LikerCursor \/ NotFound \/ Hydrate

Others == DeletePost \/ \E i \in Items : Add(i) \/ Remove(i) \/ Hide(i) \/ Rescore(i)

Next == Walk \/ Others

\* The client goes on until it is told that there is no more.
Spec == Init /\ [][Next]_vars /\ WF_vars(Walk)

---------------------------------------------------------------------------------
(* Properties *)

Rows == [s : 0 .. LastSecond + 1, f : Fractions, id : Nat]

\* Every variable keeps its type.
TypeOK ==
  /\ list \in Lists
  /\ rows \in [Items -> Rows] /\ fresh \subseteq Items \ Present
  /\ lastId \in Nat /\ changes \in 0 .. MaxChanges
  /\ hidden \subseteq Present /\ deleted \in BOOLEAN
  /\ client \in [step : {"ask", "cursor", "hydrate", "done"}, cursor : Rows,
                 got : [page : SUBSET Items, size : Nat, last : Items \cup {0}, end : Rows]]
  /\ walk \in [seen : SUBSET Items, twice : SUBSET Items, ends : SUBSET Rows,
               stayed : SUBSET Present, slipped : BOOLEAN, cut : BOOLEAN]

\* A row of the second in which a page ended, not above the page's last row.
SameSecond(i) == \E e \in walk.ends : rows[i].s = e.s /\ ~Less(e, Key(i))

\* Whatever others add, remove and move: at the end of a list only rows were
\* left out that share their second with the last row of a page, and only
\* behind that row, because cursors have no fraction of a second. Not if a
\* like was repeated between its page and its cursor, nor if an answer said
\* that there is no more because a query failed or a deleted post was dropped.
MissedOnlyAtPageEnds ==
  client.step = "done" /\ ~walk.slipped /\ ~walk.cut =>
    \A i \in walk.stayed \ walk.seen : SameSecond(i)

\* repository/follow.go: "Consistent results even when new followers are added
\* during pagination": a row that stays is not shown twice, in any list, unless
\* a like was repeated between its page and its cursor.
ShownOnce == ~walk.slipped => walk.twice \cap walk.stayed = {}

\* A page that is held was read below the cursor, its last row is not above
\* the others, and every other row that stayed is not above that.
HeldPage(g) ==
  /\ g.last \in Items /\ Less(g.end, client.cursor)
  /\ \A i \in g.page \cap walk.stayed : Less(Key(i), client.cursor) /\ ~Less(Key(i), g.end)
  /\ ~walk.slipped /\ ~walk.cut =>
       \A i \in walk.stayed \ walk.seen :
         \/ i \in g.page \/ SameSecond(i)
         \/ ~Less(g.end, Key(i)) /\ Cardinality(g.page) = g.size

\* What carries MissedOnlyAtPageEnds and ShownOnce from request to request: of
\* the rows that stayed, those below the cursor were not shown, and those at or
\* above it were, or share their second with the end of a page.
PagesInv ==
  /\ TypeOK
  /\ walk.stayed \cap hidden = {}
  /\ client.step \in {"cursor", "hydrate"} => HeldPage(client.got)
  /\ ShownOnce
  /\ ~walk.slipped /\ client.step # "done" =>
       \A i \in walk.stayed \cap walk.seen : ~Less(Key(i), client.cursor)
  /\ MissedOnlyAtPageEnds
  /\ ~walk.slipped /\ ~walk.cut /\ client.step = "ask" =>
       \A i \in walk.stayed \ walk.seen : Less(Key(i), client.cursor) \/ SameSecond(i)

\* docs/FOLLOW_SYSTEM.md: without has_more the client has all the data: all
\* rows that stayed were shown.
SeenAllAtEnd == client.step = "done" => walk.stayed \subseteq walk.seen

\* Every answer ends the list or has a cursor below the request's, or a query
\* failed, or the like that the cursor is taken from was repeated after its
\* page was read: a client comes back only where others made changes, and
\* those are finite.
TraversalGetsOn ==
  [][Walk => \/ client'.step # "ask" \/ changes' # changes
             \/ Less(client'.cursor, client.cursor)
             \/ list = "likers" /\ rows[client.got.last] # client.got.end]_vars

\* A client that follows the cursors reaches the end of its list, whatever
\* its limits and whatever others do meanwhile: no cursor leads in a circle.
EveryTraversalEnds == TraversalGetsOn /\ <>(client.step = "done")
=================================================================================
