-------------------------------- MODULE FeedCache --------------------------------
(***************************************************************************)
(* The per-user feed cache (internal/cache/feed.go): one Redis sorted set  *)
(* "feed:user:<id>" per user. A member is a post and its score the time    *)
(* the post was created; here posts are numbered in creation order and the *)
(* number stands for both. Redis removes a key with its last member, so a  *)
(* key exists iff its set is not empty. A cache is a function from users   *)
(* to sets. An operation is one command, or one pipeline on one key, taken *)
(* as one step: other commands may come between its ZADD and its trim, but *)
(* every order of them leaves the same set and shows the same page.        *)
(***************************************************************************)
EXTENDS Naturals, FiniteSets

CONSTANTS FeedCacheCap   \* posts kept per user

\* The n newest members of S: ORDER BY created_at DESC LIMIT n.
Newest(S, n) == {p \in S : Cardinality({q \in S : q > p}) < n}

\* Mutant: the rank range counted from the other end.
TrimmedNewest(S) == {p \in S : Cardinality({q \in S : q < p}) < FeedCacheCap}

\* ZREMRANGEBYRANK key 0 -(cap+1): all but the cap highest scores go.
Trimmed(S) == Newest(S, FeedCacheCap)

Exists(cache, u) == cache[u] # {}

\* ZADD, trim, EXPIRE.
AddPost(cache, u, p) == [cache EXCEPT ![u] = Trimmed(@ \cup {p})]

\* ZREM.
RemovePost(cache, u, p) == [cache EXCEPT ![u] = @ \ {p}]

\* One ZADD of all posts, trim, EXPIRE; no posts, no command.
WarmCache(cache, u, posts) ==
  IF posts = {} THEN cache ELSE [cache EXCEPT ![u] = Trimmed(@ \cup posts)]

\* ZREVRANGE 0 limit-1, or the limit highest scores strictly below the
\* cursor's; cursor 0 is no cursor.
GetFeed(cache, u, cursor, limit) ==
  Newest(IF cursor = 0 THEN cache[u] ELSE {p \in cache[u] : p < cursor}, limit)

\* The 7 days of FeedCacheTTL pass without an access.
Expire(cache, u) == [cache EXCEPT ![u] = {}]
=================================================================================
