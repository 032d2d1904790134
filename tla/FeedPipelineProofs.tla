---------------------------- MODULE FeedPipelineProofs ----------------------------
(***************************************************************************)
(* Proofs about FeedPipeline for every number of accounts, workers, posts  *)
(* and disturbances, and all limits.                                       *)
(***************************************************************************)
EXTENDS FeedPipeline, FiniteSetTheorems, SequenceTheorems, TLAPS

USE LimitsAssumption, ReadersAssumption, FollowsAssumption, BoundAssumption

---------------------------------------------------------------------------------
(* The newest of a set *)

\* The members of a finite set of numbers have the ranks 0, 1, ..., from the
\* greatest down.
LEMMA Ranks ==
  ASSUME NEW T \in SUBSET Int, IsFiniteSet(T)
  PROVE  /\ Cardinality(T) \in Nat
         /\ \A x \in T : Cardinality({y \in T : y > x}) \in 0 .. Cardinality(T) - 1
         /\ \A x, y \in T : Cardinality({z \in T : z > x}) = Cardinality({z \in T : z > y}) => x = y
         /\ \A i \in 0 .. Cardinality(T) - 1 : \E x \in T : Cardinality({y \in T : y > x}) = i
<1> DEFINE Above(x) == {y \in T : y > x}
           r == [x \in T |-> Cardinality(Above(x))]
           n == Cardinality(T)
<1>1. n \in Nat
  BY FS_CardinalityType
<1>2. \A x : IsFiniteSet(Above(x)) /\ Cardinality(Above(x)) \in Nat
  <2> SUFFICES ASSUME NEW x PROVE IsFiniteSet(Above(x)) /\ Cardinality(Above(x)) \in Nat
    OBVIOUS
  <2>1. Above(x) \in SUBSET T
    OBVIOUS
  <2> HIDE DEF Above
  <2> QED BY <2>1, FS_Subset, FS_CardinalityType
<1>3. ASSUME NEW x \in T PROVE Cardinality(Above(x)) < n
  <2>1. Above(x) \in SUBSET T /\ Above(x) # T
    OBVIOUS
  <2> HIDE DEF Above
  <2>2. Cardinality(Above(x)) <= n /\ Cardinality(Above(x)) # n
    BY <2>1, FS_Subset
  <2> QED BY <1>1, <1>2, <2>2
<1>4. ASSUME NEW x \in T, NEW y \in T, x < y PROVE Cardinality(Above(y)) < Cardinality(Above(x))
  <2>0. \A z \in T : z \in Int
    OBVIOUS
  <2>a. \A z \in Above(y) : z \in Above(x)
    BY <1>4, <2>0
  <2>b. y \in Above(x) /\ y \notin Above(y)
    BY <1>4, <2>0
  <2>1. Above(y) \in SUBSET Above(x) /\ Above(y) # Above(x)
    BY <2>a, <2>b
  <2> HIDE DEF Above
  <2>2. Cardinality(Above(y)) <= Cardinality(Above(x)) /\ Cardinality(Above(y)) # Cardinality(Above(x))
    BY <1>2, <2>1, FS_Subset
  <2> QED BY <1>2, <2>2
<1> HIDE DEF Above, n
<1>5. \A x \in T : r[x] = Cardinality(Above(x)) /\ r[x] \in 0 .. n - 1
  BY <1>1, <1>2, <1>3
<1>6. \A x, y \in T : Cardinality(Above(x)) = Cardinality(Above(y)) => x = y
  BY <1>2, <1>4
<1>7. r \in Injection(T, 0 .. n - 1)
  BY <1>5, <1>6 DEF Injection, IsInjective
<1> HIDE DEF r
<1>8. IsFiniteSet(0 .. n - 1) /\ Cardinality(0 .. n - 1) = n
  BY <1>1, FS_Interval
<1>9. r \in Surjection(T, 0 .. n - 1)
  BY <1>7, <1>8, FS_Injection DEF n
<1>10. \A i \in 0 .. n - 1 : \E x \in T : Cardinality(Above(x)) = i
  BY <1>5, <1>9 DEF Surjection
<1> QED BY <1>1, <1>5, <1>6, <1>10 DEF Above, n

\* LIMIT n of at least n rows is n rows.
LEMMA NewestCount ==
  ASSUME NEW T \in SUBSET Int, IsFiniteSet(T), NEW n \in Nat, n <= Cardinality(T)
  PROVE  Cardinality(Newest(T, n)) = n
<1> DEFINE Above(x) == {y \in T : y > x}
           N == {x \in T : Cardinality(Above(x)) < n}
           g == [x \in N |-> Cardinality(Above(x))]
<1>1. /\ Cardinality(T) \in Nat
      /\ \A x \in T : Cardinality(Above(x)) \in 0 .. Cardinality(T) - 1
      /\ \A x, y \in T : Cardinality(Above(x)) = Cardinality(Above(y)) => x = y
      /\ \A i \in 0 .. Cardinality(T) - 1 : \E x \in T : Cardinality(Above(x)) = i
  BY Ranks
<1> HIDE DEF Above
<1>2. g \in [N -> 0 .. n - 1]
  <2> SUFFICES ASSUME NEW x \in N PROVE Cardinality(Above(x)) \in 0 .. n - 1
    OBVIOUS
  <2>1. Cardinality(Above(x)) \in 0 .. Cardinality(T) - 1 /\ Cardinality(Above(x)) < n
    BY <1>1
  <2> QED BY <1>1, <2>1
<1>3. g \in Injection(N, 0 .. n - 1)
  BY <1>1, <1>2 DEF Injection, IsInjective
<1>4. g \in Surjection(N, 0 .. n - 1)
  <2> SUFFICES ASSUME NEW i \in 0 .. n - 1 PROVE \E x \in N : g[x] = i
    BY <1>2 DEF Surjection
  <2>1. i \in 0 .. Cardinality(T) - 1
    BY <1>1
  <2>2. PICK x \in T : Cardinality(Above(x)) = i
    BY <1>1, <2>1
  <2> QED BY <2>2
<1> HIDE DEF g, N
<1>5. IsFiniteSet(0 .. n - 1) /\ Cardinality(0 .. n - 1) = n
  <2>1. n - 1 \in Int /\ 0 \in Int
    OBVIOUS
  <2>2. /\ IsFiniteSet(0 .. n - 1)
        /\ Cardinality(0 .. n - 1) = IF 0 > n - 1 THEN 0 ELSE (n - 1) - 0 + 1
    BY <2>1, FS_Interval
  <2> QED BY <2>2
<1>6. Cardinality(N) = n
  BY <1>3, <1>4, <1>5, FS_Injection
<1> QED BY <1>6 DEF N, Above, Newest

\* A finite set of numbers has a least member.
LEMMA LeastMember ==
  ASSUME NEW T \in SUBSET Int, IsFiniteSet(T), T # {}
  PROVE  Min(T) \in T
<1> DEFINE Above(x) == {y \in T : y > x}
<1>1. /\ Cardinality(T) \in Nat
      /\ \A i \in 0 .. Cardinality(T) - 1 : \E x \in T : Cardinality(Above(x)) = i
  BY Ranks
<1>2. Cardinality(T) # 0
  BY FS_EmptySet
<1>3. PICK x \in T : Cardinality(Above(x)) = Cardinality(T) - 1
  BY <1>1, <1>2
<1>4. IsFiniteSet(T \ {x}) /\ Cardinality(T \ {x}) = Cardinality(T) - 1
  BY FS_RemoveElement
<1>5. Above(x) \in SUBSET (T \ {x})
  OBVIOUS
<1>6. Above(x) = T \ {x}
  BY <1>3, <1>4, <1>5, FS_Subset
<1>7. \A y \in T : x <= y
  BY <1>6
<1> QED BY <1>7 DEF Min

\* What a feed has is not lost when the feed grows and is trimmed: it is there,
\* or pushed out by the cap's worth of newer posts.
LEMMA TrimmedKeeps ==
  ASSUME NEW S \in SUBSET Int, NEW T \in SUBSET Int, S \subseteq T, IsFiniteSet(T), NEW p \in Int,
         p \in S \/ Cardinality({q \in S : q > p}) >= FeedCacheCap
  PROVE  p \in Trimmed(T) \/ Cardinality({q \in Trimmed(T) : q > p}) >= FeedCacheCap
<1> DEFINE A == {q \in T : q > p}
           B == {q \in S : q > p}
<1>1. IsFiniteSet(A) /\ Cardinality(A) \in Nat
  <2>1. A \in SUBSET T
    OBVIOUS
  <2> HIDE DEF A
  <2> QED BY <2>1, FS_Subset, FS_CardinalityType
<1>2. IsFiniteSet(B) /\ Cardinality(B) \in Nat /\ Cardinality(B) <= Cardinality(A)
  <2>1. B \in SUBSET A
    OBVIOUS
  <2> HIDE DEF A, B
  <2> QED BY <1>1, <2>1, FS_Subset, FS_CardinalityType
<1>3. CASE Cardinality(A) < FeedCacheCap
  <2>1. p \in S
    BY <1>1, <1>2, <1>3
  <2> QED BY <1>3, <2>1 DEF Trimmed, Newest
<1>4. CASE Cardinality(A) >= FeedCacheCap
  <2>1. {q \in Trimmed(T) : q > p} = Newest(A, FeedCacheCap)
    <3>1. ASSUME NEW x \in A PROVE {q \in T : q > x} = {q \in A : q > x}
      <4>1. x \in Int /\ x > p /\ \A q \in T : q \in Int
        OBVIOUS
      <4>2. \A q \in T : q > x => q > p
        BY <4>1
      <4> QED BY <4>2
    <3> QED BY <3>1 DEF Trimmed, Newest
  <2>2. Cardinality(Newest(A, FeedCacheCap)) = FeedCacheCap
    BY <1>1, <1>4, NewestCount
  <2> QED BY <2>1, <2>2
<1> QED BY <1>1, <1>3, <1>4
---------------------------------------------------------------------------------
(* What the type invariant says, variable by variable. *)

TablesOK ==
  /\ posts \in Seq(Post)
  /\ follows \subseteq everFollowed /\ everFollowed \subseteq Users \X Users
  /\ owed \subseteq Users \X PostIds

EventsOK == inFlight \in Seq(Event) /\ stream \in Seq(Event)

JobsOK ==
  /\ job \in [Workers -> Job] /\ inOrder \in BOOLEAN
  /\ settled \subseteq attempted /\ attempted \subseteq 1 .. Len(stream)

FeedsOK == cache \in [Users -> SUBSET PostIds] /\ spoiled \subseteq Users \X PostIds

ReadersOK == reader \in [Readers -> Read]

UsedOK == used \in [Kinds -> Nat] /\ \A k \in Kinds : used[k] <= Bound[k]

LEMMA TypeParts ==
  TypeOK <=> TablesOK /\ EventsOK /\ JobsOK /\ FeedsOK /\ ReadersOK /\ UsedOK
BY Zenon DEF TypeOK, TablesOK, EventsOK, JobsOK, FeedsOK, ReadersOK, UsedOK

LEMMA PostFacts ==
  ASSUME TypeOK
  PROVE  /\ Len(posts) \in Nat /\ DOMAIN posts = PostIds /\ PostIds \subseteq Nat \ {0}
         /\ \A p \in PostIds : /\ posts[p] \in Post /\ posts[p].author \in Users
                               /\ posts[p].live \in BOOLEAN
         /\ IsFiniteSet(PostIds) /\ Cardinality(PostIds) = Len(posts)
<1>1. posts \in Seq(Post)
  BY DEF TypeOK
<1>2. Len(posts) \in Nat /\ DOMAIN posts = PostIds
  BY <1>1, LenProperties DEF PostIds
<1>3. \A p \in PostIds : posts[p] \in Post
  BY <1>1, <1>2, ElementOfSeq DEF PostIds
<1>4. \A p \in PostIds : posts[p].author \in Users /\ posts[p].live \in BOOLEAN
  BY <1>3 DEF Post
<1>5. IsFiniteSet(PostIds) /\ Cardinality(PostIds) = Len(posts)
  <2>1. 1 \in Int /\ Len(posts) \in Int
    BY <1>2
  <2>2. /\ IsFiniteSet(1 .. Len(posts))
        /\ Cardinality(1 .. Len(posts)) = IF 1 > Len(posts) THEN 0 ELSE Len(posts) - 1 + 1
    BY <2>1, FS_Interval
  <2> QED BY <1>2, <2>2 DEF PostIds
<1>6. PostIds \subseteq Nat \ {0}
  BY <1>2 DEF PostIds
<1> QED BY <1>2, <1>3, <1>4, <1>5, <1>6

LEMMA EventFacts ==
  ASSUME TypeOK
  PROVE  /\ Len(inFlight) \in Nat /\ DOMAIN inFlight = 1 .. Len(inFlight)
         /\ Len(stream) \in Nat /\ DOMAIN stream = 1 .. Len(stream) /\ 0 \notin DOMAIN stream
         /\ \A i \in DOMAIN inFlight : inFlight[i] \in Event
         /\ \A e \in DOMAIN stream : stream[e] \in Event
<1>1. inFlight \in Seq(Event) /\ stream \in Seq(Event)
  BY DEF TypeOK
<1>2. /\ Len(inFlight) \in Nat /\ DOMAIN inFlight = 1 .. Len(inFlight)
      /\ Len(stream) \in Nat /\ DOMAIN stream = 1 .. Len(stream)
  BY <1>1, LenProperties
<1> QED BY <1>1, <1>2, ElementOfSeq

LEMMA JobFacts ==
  ASSUME TypeOK
  PROVE  \A w \in Workers :
           /\ job[w] \in Job /\ job[w].event \in {0} \cup DOMAIN stream
           /\ job[w].phase \in {"idle", "apply", "ack"} /\ job[w].todo \subseteq Ops
           /\ \A op \in job[w].todo : /\ op \in Ops /\ op.user \in Users /\ op.post \in PostIds
                                      /\ op.kind \in {"add", "remove"}
<1>1. \A w \in Workers : job[w] \in Job
  BY DEF TypeOK
<1>2. \A w \in Workers : /\ job[w].event \in 0 .. Len(stream) /\ job[w].todo \subseteq Ops
                         /\ job[w].phase \in {"idle", "apply", "ack"}
  BY <1>1 DEF Job
<1>3. \A op \in Ops : op.user \in Users /\ op.post \in PostIds /\ op.kind \in {"add", "remove"}
  BY DEF Ops
<1>4. \A w \in Workers : job[w].event \in {0} \cup DOMAIN stream
  BY <1>2, EventFacts
<1> QED BY <1>1, <1>2, <1>3, <1>4

\* Nobody has anything to do with the entry that comes next.
LEMMA NextEntry ==
  ASSUME TypeOK, NEW n, n = Len(stream) + 1
  PROVE  /\ n \notin DOMAIN stream /\ n \notin settled
         /\ \A w \in Workers : job[w].event # n /\ job[w].event < n
<1>1. Len(stream) \in Nat /\ DOMAIN stream = 1 .. Len(stream)
  BY EventFacts
<1>2. n \notin 1 .. Len(stream)
  BY <1>1
<1>3. settled \subseteq DOMAIN stream
  BY <1>1 DEF TypeOK
<1>4. \A w \in Workers : job[w].event \in {0} \cup DOMAIN stream
  BY JobFacts
<1>5. \A w \in Workers : job[w].event \in Nat /\ job[w].event <= Len(stream)
  BY <1>1, <1>4
<1> QED BY <1>1, <1>2, <1>3, <1>5

LEMMA ReadFacts ==
  ASSUME TypeOK
  PROVE  \A u \in Readers :
           /\ reader[u] \in Read /\ reader[u].authors \subseteq Users
           /\ reader[u].posts \subseteq PostIds /\ reader[u].page \subseteq PostIds
           /\ reader[u].cursor \in Nat /\ reader[u].answered \in BOOLEAN
           /\ reader[u].step \in
                {"idle", "exists", "followees", "posts", "warm", "fetch", "hydrate"}
BY DEF TypeOK, Read

LEMMA FeedFacts ==
  ASSUME TypeOK
  PROVE  \A u \in Users :
           /\ cache[u] \subseteq PostIds /\ IsFiniteSet(cache[u])
           /\ \A p \in Int : /\ IsFiniteSet({q \in cache[u] : q > p})
                             /\ Cardinality({q \in cache[u] : q > p}) \in Nat
<1> SUFFICES ASSUME NEW u \in Users
             PROVE  /\ cache[u] \subseteq PostIds /\ IsFiniteSet(cache[u])
                    /\ \A p \in Int : /\ IsFiniteSet({q \in cache[u] : q > p})
                                      /\ Cardinality({q \in cache[u] : q > p}) \in Nat
  OBVIOUS
<1>1. cache[u] \subseteq PostIds
  BY DEF TypeOK
<1>2. IsFiniteSet(cache[u])
  BY <1>1, PostFacts, FS_Subset
<1>3. ASSUME NEW p \in Int
      PROVE  /\ IsFiniteSet({q \in cache[u] : q > p})
             /\ Cardinality({q \in cache[u] : q > p}) \in Nat
  <2>1. {q \in cache[u] : q > p} \in SUBSET cache[u]
    OBVIOUS
  <2> QED BY <1>2, <2>1, FS_Subset, FS_CardinalityType
<1> QED BY <1>1, <1>2, <1>3

\* What is newer than a post among the posts of its author.
LEMMA NewerFacts ==
  ASSUME TypeOK, NEW p \in PostIds
  PROVE  LET newer == {q \in PostIds : q > p /\ posts[q].author = posts[p].author}
         IN  IsFiniteSet(newer) /\ Cardinality(newer) \in Nat
<1> DEFINE newer == {q \in PostIds : q > p /\ posts[q].author = posts[p].author}
<1>1. newer \in SUBSET PostIds
  OBVIOUS
<1> HIDE DEF newer
<1>2. IsFiniteSet(newer) /\ Cardinality(newer) \in Nat
  BY <1>1, PostFacts, FS_Subset, FS_CardinalityType
<1> QED BY <1>2 DEF newer

---------------------------------------------------------------------------------
(* What a step must see to that each part of the invariant is kept. *)

\* Posts and events are only added, posts keep their authors and what was
\* followed stays on record.
Grows ==
  /\ Len(posts) <= Len(posts') /\ Len(posts') \in Nat
  /\ \A p \in PostIds : posts'[p].author = posts[p].author
  /\ everFollowed \subseteq everFollowed'
  /\ Len(stream) <= Len(stream') /\ Len(stream') \in Nat
  /\ \A k \in Kinds : Never(k)' => Never(k)

\* A step that was counted has not never been taken, and forgets no other.
LEMMA SpendFacts ==
  ASSUME TypeOK, NEW k \in Kinds \ {"steps"}, Spend(k)
  PROVE  UsedOK' /\ (\A j \in Kinds : Never(j)' => Never(j)) /\ ~Never(k)'
<1> DEFINE n == used[k] + 1
           m == used["steps"] + Cost(k)
<1>1. used \in [Kinds -> Nat] /\ "steps" \in Kinds
  BY DEF TypeOK, Kinds
<1>2. used' = [[used EXCEPT ![k] = n] EXCEPT !["steps"] = m] /\ n <= Bound[k] /\ m <= Bound["steps"]
  BY <1>1 DEF Spend
<1>3. used'[k] = n /\ used'["steps"] = m /\ \A j \in Kinds \ {k, "steps"} : used'[j] = used[j]
  BY <1>1, <1>2
<1>4. \A j \in Kinds : used[j] \in Nat /\ Bound[j] \in Nat /\ used[j] <= Bound[j]
  BY DEF TypeOK
<1>5. n \in Nat \ {0} /\ m \in Nat \ {0}
  <2>1. Cost(k) \in {1, 2}
    BY DEF Cost
  <2> QED BY <1>1, <1>4, <2>1
<1> HIDE DEF n, m
<1>6. used' \in [Kinds -> Nat]
  BY <1>1, <1>2, <1>5
<1>7. \A j \in Kinds : used'[j] <= Bound[j]
  BY <1>2, <1>3, <1>4
<1>8. \A j \in Kinds : Never(j)' => Never(j)
  BY <1>3, <1>4, <1>5 DEF Never
<1>9. ~Never(k)'
  BY <1>3, <1>5 DEF Never
<1> QED BY <1>6, <1>7, <1>8, <1>9 DEF UsedOK

LEMMA NoneSpent ==
  ASSUME TypeOK, used' = used
  PROVE  UsedOK' /\ \A j \in Kinds : Never(j)' => Never(j)
BY DEF TypeOK, UsedOK, Never

LEMMA RemoveAtFacts ==
  ASSUME NEW S, NEW s \in Seq(S), NEW i \in DOMAIN s
  PROVE  /\ RemoveAt(s, i) \in Seq(S) /\ Len(RemoveAt(s, i)) = Len(s) - 1
         /\ \A j \in DOMAIN RemoveAt(s, i) : \E k \in DOMAIN s : RemoveAt(s, i)[j] = s[k]
         /\ \A k \in DOMAIN s \ {i} : \E j \in DOMAIN RemoveAt(s, i) : RemoveAt(s, i)[j] = s[k]
<1> DEFINE a == SubSeq(s, 1, i - 1)
           b == SubSeq(s, i + 1, Len(s))
           n == Len(s)
<1>1. n \in Nat /\ DOMAIN s = 1 .. n /\ i \in 1 .. n /\ \A j \in 1 .. n : s[j] \in S
  BY LenProperties, ElementOfSeq
<1>2. a \in Seq(S) /\ Len(a) = i - 1 /\ \A j \in 1 .. i - 1 : a[j] = s[j]
  <2>1. 1 \in Int /\ i - 1 \in Int /\ \A j \in 1 .. i - 1 : s[j] \in S
    BY <1>1
  <2>2. /\ a \in Seq(S) /\ Len(a) = IF 1 <= i - 1 THEN (i - 1) - 1 + 1 ELSE 0
        /\ \A j \in 1 .. (i - 1) - 1 + 1 : a[j] = s[1 + j - 1]
    BY <2>1, SubSeqProperties
  <2>3. \A j \in 1 .. i - 1 : 1 + j - 1 = j /\ j \in 1 .. (i - 1) - 1 + 1
    BY <1>1
  <2> QED BY <1>1, <2>2, <2>3
<1>3. b \in Seq(S) /\ Len(b) = n - i /\ \A j \in 1 .. n - i : b[j] = s[i + j]
  <2>1. i + 1 \in Int /\ n \in Int /\ \A j \in i + 1 .. n : s[j] \in S
    BY <1>1
  <2>2. /\ b \in Seq(S) /\ Len(b) = IF i + 1 <= n THEN n - (i + 1) + 1 ELSE 0
        /\ \A j \in 1 .. n - (i + 1) + 1 : b[j] = s[(i + 1) + j - 1]
    BY <2>1, SubSeqProperties
  <2>3. \A j \in 1 .. n - i : (i + 1) + j - 1 = i + j /\ j \in 1 .. n - (i + 1) + 1
    BY <1>1
  <2> QED BY <1>1, <2>2, <2>3
<1>4. RemoveAt(s, i) = a \o b
  BY DEF RemoveAt
<1> HIDE DEF a, b, n
<1> DEFINE r == a \o b
<1>5. /\ r \in Seq(S) /\ Len(r) = Len(a) + Len(b) /\ DOMAIN r = 1 .. Len(r)
      /\ \A j \in 1 .. Len(a) + Len(b) : r[j] = IF j <= Len(a) THEN a[j] ELSE b[j - Len(a)]
  BY <1>2, <1>3, ConcatProperties, LenProperties
<1> HIDE DEF r
<1>6. DOMAIN r = 1 .. n - 1 /\ Len(r) = n - 1
  BY <1>1, <1>2, <1>3, <1>5
<1>7. \A j \in 1 .. n - 1 : r[j] = IF j < i THEN s[j] ELSE s[j + 1]
  <2> SUFFICES ASSUME NEW j \in 1 .. n - 1 PROVE r[j] = IF j < i THEN s[j] ELSE s[j + 1]
    OBVIOUS
  <2>1. r[j] = IF j <= i - 1 THEN a[j] ELSE b[j - (i - 1)]
    BY <1>1, <1>2, <1>3, <1>5
  <2>2. CASE j < i
    BY <1>1, <1>2, <2>1, <2>2
  <2>3. CASE j >= i
    <3>1. j - (i - 1) \in 1 .. n - i /\ i + (j - (i - 1)) = j + 1
      BY <1>1, <2>3
    <3>2. b[j - (i - 1)] = s[j + 1]
      BY <1>3, <3>1
    <3>3. ~(j <= i - 1) /\ ~(j < i)
      BY <1>1, <2>3
    <3> QED BY <2>1, <3>2, <3>3
  <2> QED BY <1>1, <2>2, <2>3
<1>8. \A j \in DOMAIN r : \E k \in DOMAIN s : r[j] = s[k]
  BY <1>1, <1>6, <1>7
<1>9. ASSUME NEW k \in DOMAIN s \ {i} PROVE \E j \in DOMAIN r : r[j] = s[k]
  <2>1. CASE k < i
    <3>1. k \in 1 .. n - 1
      BY <1>1, <2>1
    <3>2. r[k] = s[k]
      BY <1>7, <2>1, <3>1
    <3> QED BY <1>6, <3>1, <3>2
  <2>2. CASE k > i
    <3>1. k - 1 \in 1 .. n - 1 /\ ~(k - 1 < i) /\ (k - 1) + 1 = k
      BY <1>1, <2>2
    <3>2. r[k - 1] = s[k]
      BY <1>7, <3>1
    <3> QED BY <1>6, <3>1, <3>2
  <2> QED BY <1>1, <2>1, <2>2
<1> QED BY <1>4, <1>5, <1>6, <1>8, <1>9 DEF r, n

LEMMA AppendFacts ==
  ASSUME NEW S, NEW s \in Seq(S), NEW x \in S
  PROVE  /\ Append(s, x) \in Seq(S) /\ Len(Append(s, x)) = Len(s) + 1
         /\ DOMAIN Append(s, x) = 1 .. Len(s) + 1
         /\ \A i \in DOMAIN s : Append(s, x)[i] = s[i]
         /\ Append(s, x)[Len(s) + 1] = x
BY AppendProperties, LenProperties

LEMMA MoreFacts ==
  ASSUME NEW S, NEW s \in Seq(S), NEW x \in S, NEW t \in {s, Append(s, x)}
  PROVE  /\ t \in Seq(S) /\ DOMAIN t = 1 .. Len(t) /\ Len(t) \in Nat /\ Len(s) <= Len(t)
         /\ \A e \in DOMAIN s : e \in DOMAIN t /\ t[e] = s[e]
         /\ \A e \in DOMAIN t : e \in DOMAIN s \/ t[e] = x
         /\ t = Append(s, x) => Len(s) + 1 \in DOMAIN t /\ t[Len(s) + 1] = x
<1>1. PICK a : a = Append(s, x)
  OBVIOUS
<1>2. /\ a \in Seq(S) /\ Len(a) = Len(s) + 1 /\ DOMAIN a = 1 .. Len(s) + 1
      /\ \A i \in DOMAIN s : a[i] = s[i]
      /\ a[Len(s) + 1] = x
  BY <1>1, AppendFacts
<1>3. Len(s) \in Nat /\ DOMAIN s = 1 .. Len(s)
  BY LenProperties
<1>4. a # s
  BY <1>2, <1>3
<1>5. CASE t = s
  <2>1. t # Append(s, x)
    BY <1>1, <1>4, <1>5
  <2>2. t \in Seq(S) /\ DOMAIN t = 1 .. Len(t) /\ Len(t) \in Nat /\ Len(s) <= Len(t)
    BY <1>3, <1>5
  <2>3. /\ \A e \in DOMAIN s : e \in DOMAIN t /\ t[e] = s[e]
        /\ \A e \in DOMAIN t : e \in DOMAIN s
    BY <1>5
  <2> QED BY <2>1, <2>2, <2>3, Zenon
<1>6. CASE t = a
  <2>1. t \in Seq(S) /\ DOMAIN t = 1 .. Len(t) /\ Len(t) \in Nat /\ Len(s) <= Len(t)
    BY <1>2, <1>3, <1>6
  <2>2. \A e \in DOMAIN s : e \in DOMAIN t /\ t[e] = s[e]
    BY <1>2, <1>3, <1>6
  <2>3. \A e \in DOMAIN t : e \in DOMAIN s \/ t[e] = x
    BY <1>2, <1>3, <1>6
  <2>4. Len(s) + 1 \in DOMAIN t /\ t[Len(s) + 1] = x
    <3>1. Len(s) + 1 \in 1 .. Len(s) + 1
      BY <1>3
    <3> QED BY <1>2, <1>6, <3>1
  <2> QED BY <2>1, <2>2, <2>3, <2>4
<1> QED BY <1>1, <1>5, <1>6

\* The sets of the type invariant grow with the posts and events.
LEMMA GrowsSets ==
  ASSUME TypeOK, Grows
  PROVE  /\ PostIds \subseteq PostIds' /\ Ops \subseteq Ops' /\ Event \subseteq Event'
         /\ Job \subseteq Job' /\ Read \subseteq Read'
         /\ DOMAIN stream \subseteq 1 .. Len(stream')
<1>1. PostIds \subseteq PostIds'
  BY PostFacts DEF Grows, PostIds
<1>2. Ops \subseteq Ops'
  BY <1>1 DEF Ops
<1>3. Event \subseteq Event'
  BY <1>1 DEF Event, PostEvents, FollowEvents
<1>4. Job \subseteq Job'
  <2>1. 0 .. Len(stream) \subseteq 0 .. Len(stream')
    BY EventFacts DEF Grows
  <2> QED BY <1>2, <2>1 DEF Job
<1>5. Read \subseteq Read'
  BY <1>1 DEF Read
<1>6. DOMAIN stream \subseteq 1 .. Len(stream')
  BY EventFacts DEF Grows
<1> QED BY <1>1, <1>2, <1>3, <1>4, <1>5, <1>6

LEMMA SenseStays ==
  ASSUME TypeOK, Grows
  PROVE  /\ \A ev \in Event : MakesSense(ev) => MakesSense(ev)'
         /\ \A u \in Users, p \in PostIds : Allowed(u, p) => Allowed(u, p)'
<1>1. "deletes" \in Kinds /\ "unfollows" \in Kinds
  BY DEF Kinds
<1>2. ASSUME NEW ev \in Event, MakesSense(ev) PROVE MakesSense(ev)'
  <2>1. CASE ev.type \in {"post_created", "post_deleted"}
    <3>1. ev.post \in PostIds
      BY <2>1 DEF Event, PostEvents, FollowEvents
    <3> QED BY <1>1, <1>2, <2>1, <3>1 DEF MakesSense, Grows
  <2>2. CASE ev.type \notin {"post_created", "post_deleted"}
    BY <1>1, <1>2, <2>2 DEF MakesSense, Grows
  <2> QED BY <2>1, <2>2
<1>3. \A u \in Users, p \in PostIds : Allowed(u, p) => Allowed(u, p)'
  BY DEF Allowed, Grows
<1> QED BY <1>2, <1>3

\* A post that is among the newest of its author was so before.
LEMMA RecentBefore ==
  ASSUME TypeOK, Grows, NEW p \in PostIds, NEW n \in Nat, Recent(p, n)'
  PROVE  Recent(p, n)
<1> DEFINE old == {q \in PostIds : q > p /\ posts[q].author = posts[p].author}
           new == {q \in PostIds' : q > p /\ posts'[q].author = posts'[p].author}
<1>1. IsFiniteSet(old) /\ Cardinality(old) \in Nat
  BY NewerFacts
<1>2. IsFiniteSet(PostIds')
  <2>1. 1 \in Int /\ Len(posts') \in Int
    BY DEF Grows
  <2>2. IsFiniteSet(1 .. Len(posts'))
    BY <2>1, FS_Interval
  <2> QED BY <2>2 DEF PostIds
<1>3. IsFiniteSet(new) /\ Cardinality(new) \in Nat
  <2>1. new \in SUBSET PostIds'
    OBVIOUS
  <2> HIDE DEF new
  <2> QED BY <1>2, <2>1, FS_Subset, FS_CardinalityType
<1>4. old \in SUBSET new
  <2>1. PostIds \subseteq PostIds'
    BY GrowsSets
  <2>2. \A q \in PostIds : posts'[q].author = posts[q].author
    BY DEF Grows
  <2> QED BY <2>1, <2>2
<1>5. Cardinality(new) < n
  BY DEF Recent
<1>6. Cardinality(old) < n
  <2> HIDE DEF old, new
  <2> QED BY <1>1, <1>3, <1>4, <1>5, FS_Subset
<1> QED BY <1>6 DEF Recent

---------------------------------------------------------------------------------
(* What a step must see to that nothing goes missing. *)

Served(u, p) == <<u, p>> \in spoiled \/ Has(u, p) \/ Coming(u, p)

\* Calm steps keep the rest of the invariant's burden: what is due is served.
LEMMA DueFacts ==
  ASSUME TypeOK, NEW u \in Users, NEW p \in Due(u)
  PROVE  p \in PostIds /\ p \in Nat /\ posts[p].live /\ Follows(u, p)
         /\ (<<u, p>> \in owed \/ Recent(p, BackfillLimit))
BY PostFacts DEF Due, LiveBy, Follows

LEMMA ServedCalm ==
  ASSUME NoneMissing, Calm, NEW u \in Users, NEW p \in Due(u)
  PROVE  Served(u, p)
BY DEF NoneMissing, Served

LEMMA NoneMissingNext ==
  ASSUME Calm' => \A u \in Users : \A p \in Due(u)' : Served(u, p)'
  PROVE  NoneMissing'
BY DEF NoneMissing, Served

\* A step that changes no cache, no event's progress and not what is spoiled, and
\* leaves every event that is to be published, leaves what is served.
LEMMA ServedAtRest ==
  ASSUME NEW u, NEW p, Served(u, p),
         \A ev : Brings(ev, u, p) => Brings(ev, u, p)',
         \A i \in DOMAIN inFlight : \E j \in DOMAIN inFlight' : inFlight'[j] = inFlight[i],
         UNCHANGED <<stream, settled, job, cache>>, spoiled \subseteq spoiled'
  PROVE  Served(u, p)'
<1>1. CASE <<u, p>> \in spoiled
  BY <1>1 DEF Served
<1>2. CASE Has(u, p)
  BY <1>2 DEF Served, Has
<1>3. CASE Coming(u, p)
  <2>1. CASE \E i \in DOMAIN inFlight : Brings(inFlight[i], u, p)
    <3>1. PICK i \in DOMAIN inFlight : Brings(inFlight[i], u, p)
      BY <2>1
    <3>2. PICK j \in DOMAIN inFlight' : inFlight'[j] = inFlight[i]
      OBVIOUS
    <3>3. \A ev : ev = inFlight[i] => Brings(ev, u, p)'
      BY <3>1
    <3>4. \A ev : ev = inFlight'[j] => Brings(ev, u, p)'
      BY <3>2, <3>3
    <3>5. Brings(inFlight[j], u, p)'
      BY <3>4
    <3> QED BY <3>5 DEF Served, Coming
  <2>2. CASE ~\E i \in DOMAIN inFlight : Brings(inFlight[i], u, p)
    <3>1. PICK e \in DOMAIN stream \ settled :
            /\ Brings(stream[e], u, p)
            /\ \A w \in Workers : job[w].event = e => Op("add", u, p) \in job[w].todo
      BY <1>3, <2>2 DEF Coming
    <3>2. \A ev : ev = stream[e] => Brings(ev, u, p)'
      BY <3>1
    <3>3. Brings(stream[e], u, p)'
      BY <3>2
    <3> QED BY <3>1, <3>3 DEF Served, Coming
  <2> QED BY <2>1, <2>2
<1> QED BY <1>1, <1>2, <1>3 DEF Served

---------------------------------------------------------------------------------
(* Requests *)

\* What a request leaves alone.
LEMMA RequestKeeps ==
  ASSUME ContentInv, Grows, NEW ev, ev \in Event', MakesSense(ev)', inFlight' = Append(inFlight, ev),
         UNCHANGED <<stream, delivery, cache, reader, spoiled>>,
         TablesOK', UsedOK', OwedToFollowers', NoneMissing'
  PROVE  ContentInv'
<1> USE DEF ContentInv
<1>1. /\ PostIds \subseteq PostIds' /\ Ops \subseteq Ops' /\ Event \subseteq Event'
      /\ Job \subseteq Job' /\ Read \subseteq Read'
  BY GrowsSets
<1>2. UNCHANGED <<stream, job, attempted, settled, inOrder, cache, reader, spoiled>>
  BY DEF delivery
<1>3. EventsOK'
  <2>1. inFlight \in Seq(Event') /\ stream \in Seq(Event')
    BY <1>1, SeqMonotonic DEF TypeOK
  <2>2. inFlight' \in Seq(Event')
    BY <2>1, AppendProperties
  <2> QED BY <1>2, <2>1, <2>2 DEF EventsOK
<1>4. JobsOK' /\ ReadersOK' /\ FeedsOK'
  <2>1. job' \in [Workers -> Job'] /\ reader' \in [Readers -> Read']
        /\ cache' \in [Users -> SUBSET PostIds'] /\ spoiled' \subseteq Users \X PostIds'
    BY <1>1, <1>2 DEF TypeOK
  <2> QED BY <1>2, <2>1 DEF JobsOK, ReadersOK, FeedsOK, TypeOK
<1>5. TypeOK'
  BY <1>3, <1>4, TypeParts, PTL
<1>6. EventsMakeSense'
  <2> SUFFICES ASSUME NEW x, x \in Range(inFlight') \cup Range(stream') PROVE MakesSense(x)'
    BY DEF EventsMakeSense
  <2>1. CASE x \in Range(inFlight) \cup Range(stream)
    <3>1. x \in Event
      BY <2>1, EventFacts DEF Range
    <3>2. MakesSense(x)
      BY <2>1 DEF EventsMakeSense
    <3> QED BY <3>1, <3>2, SenseStays
  <2>2. CASE x \notin Range(inFlight) \cup Range(stream)
    <3>1. x \in Range(inFlight')
      BY <1>2, <2>2
    <3>2. PICK i \in DOMAIN inFlight' : inFlight'[i] = x
      BY <3>1 DEF Range
    <3>3. inFlight \in Seq(Event') /\ ev \in Event'
      BY <1>1, SeqMonotonic DEF TypeOK
    <3>4. /\ Len(inFlight') = Len(inFlight) + 1 /\ inFlight'[Len(inFlight) + 1] = ev
          /\ \A j \in 1 .. Len(inFlight) : inFlight'[j] = inFlight[j]
          /\ DOMAIN inFlight' = 1 .. Len(inFlight')
      BY <3>3, AppendProperties, LenProperties
    <3>5. i = Len(inFlight) + 1 \/ i \in DOMAIN inFlight
      BY <3>4, EventFacts
    <3>6. i \notin DOMAIN inFlight
      BY <2>2, <3>2, <3>4, EventFacts DEF Range
    <3>7. x = ev
      BY <3>2, <3>4, <3>5, <3>6
    <3> QED BY <3>7
  <2> QED BY <2>1, <2>2
<1>7. OneHandEach'
  BY <1>2 DEF OneHandEach
<1>8. OpsMakeSense'
  <2> SUFFICES ASSUME NEW w \in Workers, NEW op \in job[w].todo
               PROVE  IF op.kind = "add" THEN Allowed(op.user, op.post)'
                                         ELSE ~Never("deletes")' \/ ~Never("unfollows")'
    BY <1>2 DEF OpsMakeSense
  <2>1. "deletes" \in Kinds /\ "unfollows" \in Kinds
    BY DEF Kinds
  <2> QED BY <2>1, SenseStays, JobFacts DEF OpsMakeSense, Grows
<1>9. ReadsMakeSense'
  <2> SUFFICES ASSUME NEW u \in Readers
               PROVE  /\ reader[u].authors \subseteq {u} \cup {a \in Users : <<u, a>> \in everFollowed'}
                      /\ \A p \in reader[u].posts : Allowed(u, p)'
    BY <1>2 DEF ReadsMakeSense
  <2> QED BY SenseStays, ReadFacts DEF ReadsMakeSense, Grows
<1>10. OnlyFollowed'
  <2> SUFFICES ASSUME NEW u \in Users,
                      NEW p \in cache[u] \cup (IF u \in Readers THEN reader[u].page ELSE {})
               PROVE  Allowed(u, p)'
    BY <1>2 DEF OnlyFollowed
  <2>1. Allowed(u, p) /\ p \in PostIds
    BY FeedFacts, ReadFacts DEF OnlyFollowed
  <2> QED BY <2>1, SenseStays
<1> QED BY <1>5, <1>6, <1>7, <1>8, <1>9, <1>10

LEMMA RequestAppends ==
  ASSUME TypeOK, NEW ev, inFlight' = Append(inFlight, ev)
  PROVE  /\ \A i \in DOMAIN inFlight : \E j \in DOMAIN inFlight' : inFlight'[j] = inFlight[i]
         /\ \E j \in DOMAIN inFlight' : inFlight'[j] = ev
<1>1. inFlight \in Seq(Event \cup {ev})
  BY SeqMonotonic DEF TypeOK
<1>2. /\ Len(inFlight') = Len(inFlight) + 1 /\ inFlight'[Len(inFlight) + 1] = ev
      /\ \A j \in 1 .. Len(inFlight) : inFlight'[j] = inFlight[j]
      /\ DOMAIN inFlight' = 1 .. Len(inFlight')
  BY <1>1, AppendProperties, LenProperties
<1>3. \A i \in DOMAIN inFlight : i \in DOMAIN inFlight' /\ i \in 1 .. Len(inFlight)
  BY <1>2, EventFacts
<1>4. Len(inFlight) + 1 \in DOMAIN inFlight'
  BY <1>2, EventFacts
<1> QED BY <1>2, <1>3, <1>4

LEMMA CreatePostKeeps ==
  ASSUME ContentInv, NEW a \in Users, CreatePost(a)
  PROVE  ContentInv' /\ Grows
<1>0. PICK n : n = Len(posts) + 1
  OBVIOUS
<1> DEFINE row == [author |-> a, live |-> TRUE]
           ev == PostEvent("post_created", n, a)
<1>1. /\ Spend("posts") /\ posts' = Append(posts, row)
      /\ owed' = owed \cup ((GetFollowerIDs(a) \cup {a}) \X {n})
      /\ inFlight' = Append(inFlight, ev)
      /\ UNCHANGED <<stream, delivery, cache, reader, spoiled, follows, everFollowed>>
  BY <1>0 DEF CreatePost, InsertPost, Commit
<1>2. TypeOK /\ OwedToFollowers /\ NoneMissing
  BY DEF ContentInv
<1>3. UsedOK' /\ \A k \in Kinds : Never(k)' => Never(k)
  BY <1>1, <1>2, SpendFacts DEF Kinds
<1>4. /\ posts' \in Seq(Post) /\ Len(posts') = n /\ posts'[n] = row
      /\ \A p \in PostIds : posts'[p] = posts[p]
  <2>1. posts \in Seq(Post) /\ row \in Post
    BY <1>2 DEF TypeOK, Post
  <2> HIDE DEF row
  <2> QED BY <1>0, <1>1, <2>1, AppendProperties DEF PostIds
<1>5. n \in Nat /\ n \notin PostIds /\ PostIds' = PostIds \cup {n}
  BY <1>0, <1>2, <1>4, PostFacts DEF PostIds
<1>6. posts'[n].author = a /\ posts'[n].live
  BY <1>4
<1>7. Grows
  <2>1. Len(posts) <= Len(posts') /\ Len(posts') \in Nat
    BY <1>0, <1>2, <1>4, PostFacts
  <2>2. Len(stream) <= Len(stream') /\ Len(stream') \in Nat
    BY <1>1, <1>2, EventFacts
  <2> QED BY <1>1, <1>3, <1>4, <2>1, <2>2 DEF Grows
<1>8. TablesOK'
  <2>1. owed' \subseteq Users \X PostIds'
    BY <1>1, <1>2, <1>5 DEF TypeOK, GetFollowerIDs
  <2> QED BY <1>1, <1>2, <1>4, <2>1 DEF TypeOK, TablesOK
<1>9. ev \in Event' /\ MakesSense(ev)'
  <2>1. n \in PostIds'
    BY <1>5
  <2>2. ev \in PostEvents'
    BY <2>1 DEF PostEvents, PostEvent
  <2> QED BY <1>6, <2>2 DEF Event, MakesSense, PostEvent
<1>10. \A u \in Users, p \in PostIds : <<u, p>> \in owed' <=> <<u, p>> \in owed
  BY <1>1, <1>5
<1>11. \A u \in Users : <<u, n>> \in owed' <=> u = a \/ <<u, a>> \in follows
  <2>1. \A u \in Users : <<u, n>> \notin owed
    BY <1>2, <1>5 DEF TypeOK
  <2> QED BY <1>1, <2>1 DEF GetFollowerIDs
<1>12. OwedToFollowers'
  <2>1. \A o \in owed' : Follows(o[1], o[2])'
    <3> SUFFICES ASSUME NEW o \in owed' PROVE Follows(o[1], o[2])'
      OBVIOUS
    <3>1. CASE o \in owed
      <4>1. Follows(o[1], o[2]) /\ o[2] \in PostIds
        BY <1>2, <3>1 DEF OwedToFollowers, TypeOK
      <4> QED BY <1>1, <1>4, <4>1 DEF Follows, GetFolloweeIDs
    <3>2. CASE o \notin owed
      <4>1. o[1] \in GetFollowerIDs(a) \cup {a} /\ o[2] = n
        BY <1>1, <3>2
      <4> QED BY <1>1, <1>6, <4>1 DEF Follows, GetFolloweeIDs, GetFollowerIDs
    <3> QED BY <3>1, <3>2
  <2>2. \A p \in PostIds' : <<posts'[p].author, p>> \in owed'
    <3> SUFFICES ASSUME NEW p \in PostIds' PROVE <<posts'[p].author, p>> \in owed'
      OBVIOUS
    <3>1. CASE p \in PostIds
      BY <1>1, <1>2, <1>4, <3>1 DEF OwedToFollowers
    <3>2. CASE p = n
      BY <1>1, <1>6, <3>2
    <3> QED BY <1>5, <3>1, <3>2
  <2> QED BY <1>1, <1>2, <2>1, <2>2 DEF OwedToFollowers
<1>13. NoneMissing'
  <2> SUFFICES ASSUME Calm', NEW u \in Users, NEW p \in Due(u)' PROVE Served(u, p)'
    BY NoneMissingNext
  <2>1. Calm
    <3>1. "deletes" \in Kinds /\ "unfollows" \in Kinds
      BY DEF Kinds
    <3>2. Len(posts') <= FeedCacheCap => Len(posts) <= FeedCacheCap
      BY <1>0, <1>2, <1>4, PostFacts
    <3> QED BY <1>3, <3>1, <3>2 DEF Calm
  <2>2. /\ p \in PostIds' /\ posts'[p].live /\ posts'[p].author \in GetFolloweeIDs(u)' \cup {u}
        /\ (<<u, p>> \in owed' \/ Recent(p, BackfillLimit)')
    BY DEF Due, LiveBy
  <2>3. CASE p \in PostIds
    <3>1. Recent(p, BackfillLimit)' => Recent(p, BackfillLimit)
      BY <1>2, <1>7, <2>3, RecentBefore
    <3>2. p \in LiveBy(GetFolloweeIDs(u) \cup {u})
      BY <1>1, <1>4, <2>2, <2>3 DEF LiveBy, GetFolloweeIDs
    <3>3. p \in Due(u)
      BY <1>10, <2>2, <2>3, <3>1, <3>2 DEF Due
    <3>4. Served(u, p)
      BY <1>2, <2>1, <3>3, ServedCalm
    <3>5. \A x : Brings(x, u, p) => Brings(x, u, p)'
      BY <1>4, <1>10, <2>3 DEF Brings
    <3>6. UNCHANGED <<stream, settled, job, cache>> /\ spoiled \subseteq spoiled'
      BY <1>1 DEF delivery
    <3> QED BY <1>1, <1>2, <3>4, <3>5, <3>6, RequestAppends, ServedAtRest
  <2>4. CASE p = n
    <3>1. <<u, p>> \in owed'
      BY <1>1, <1>6, <1>11, <2>2, <2>4 DEF GetFolloweeIDs
    <3>2. PICK j \in DOMAIN inFlight' : inFlight'[j] = ev
      BY <1>1, <1>2, RequestAppends
    <3>3. ev.type = "post_created" /\ ev.post = p
      BY <2>4 DEF PostEvent
    <3>4. Brings(inFlight[j], u, p)'
      BY <3>1, <3>2, <3>3 DEF Brings
    <3> QED BY <3>4 DEF Served, Coming
  <2> QED BY <1>5, <2>2, <2>3, <2>4
<1> QED
  <2> HIDE DEF ev
  <2> QED BY <1>1, <1>3, <1>7, <1>8, <1>9, <1>12, <1>13, RequestKeeps

LEMMA DeletePostKeeps ==
  ASSUME ContentInv, NEW d \in PostIds, DeletePost(d)
  PROVE  ContentInv'
<1>0. PICK b : b = posts[d].author
  OBVIOUS
<1> DEFINE ev == PostEvent("post_deleted", d, b)
<1>1. /\ Spend("deletes") /\ posts' = [posts EXCEPT ![d].live = FALSE]
      /\ inFlight' = Append(inFlight, ev)
      /\ UNCHANGED <<stream, delivery, cache, reader, spoiled, follows, everFollowed, owed>>
  BY <1>0 DEF DeletePost, Commit
<1>2. TypeOK /\ OwedToFollowers /\ NoneMissing
  BY DEF ContentInv
<1>3. UsedOK' /\ (\A k \in Kinds : Never(k)' => Never(k)) /\ ~Never("deletes")'
  BY <1>1, <1>2, SpendFacts DEF Kinds
<1>4. /\ posts' \in Seq(Post) /\ Len(posts') = Len(posts)
      /\ \A p \in PostIds : /\ posts'[p].author = posts[p].author
                            /\ posts'[p].live => posts[p].live
  <2>1. posts \in Seq(Post) /\ d \in 1 .. Len(posts)
    BY <1>2 DEF TypeOK, PostIds
  <2>2. \A p \in PostIds : /\ posts[p] \in [author : Users, live : BOOLEAN]
    BY <1>2, PostFacts DEF Post
  <2> DEFINE row == [posts[d] EXCEPT !.live = FALSE]
  <2>3. row \in Post /\ row.author = posts[d].author /\ ~row.live
    BY <2>2 DEF Post
  <2>4. posts' = [posts EXCEPT ![d] = row]
    BY <1>1
  <2> HIDE DEF row
  <2>5. /\ posts' \in Seq(Post) /\ Len(posts') = Len(posts)
        /\ \A p \in 1 .. Len(posts) : posts'[p] = IF p = d THEN row ELSE posts[p]
    BY <2>1, <2>3, <2>4, ExceptSeq
  <2>6. \A p \in PostIds : posts'[p] = IF p = d THEN row ELSE posts[p]
    BY <2>5 DEF PostIds
  <2> QED BY <2>3, <2>5, <2>6
<1>5. PostIds' = PostIds
  BY <1>4 DEF PostIds
<1>6. Grows
  <2>1. Len(posts) <= Len(posts') /\ Len(posts') \in Nat
    BY <1>2, <1>4, PostFacts
  <2>2. Len(stream) <= Len(stream') /\ Len(stream') \in Nat
    BY <1>1, <1>2, EventFacts
  <2> QED BY <1>1, <1>3, <1>4, <2>1, <2>2 DEF Grows
<1>7. TablesOK'
  BY <1>1, <1>2, <1>4, <1>5 DEF TypeOK, TablesOK
<1>8. ev \in Event' /\ MakesSense(ev)'
  <2>1. ev \in PostEvents'
    BY <1>0, <1>2, <1>5, PostFacts DEF PostEvents, PostEvent
  <2> QED BY <1>0, <1>3, <1>4, <2>1 DEF Event, MakesSense, PostEvent
<1>9. OwedToFollowers'
  <2>1. \A o \in owed : o[2] \in PostIds
    BY <1>2 DEF TypeOK
  <2>2. \A o \in owed' : Follows(o[1], o[2])'
    <3> SUFFICES ASSUME NEW o \in owed' PROVE Follows(o[1], o[2])'
      OBVIOUS
    <3>1. Follows(o[1], o[2]) /\ posts'[o[2]].author = posts[o[2]].author
      BY <1>1, <1>2, <1>4, <2>1 DEF OwedToFollowers
    <3> QED BY <1>1, <3>1 DEF Follows, GetFolloweeIDs
  <2>3. \A p \in PostIds' : <<posts'[p].author, p>> \in owed'
    BY <1>1, <1>2, <1>4, <1>5 DEF OwedToFollowers
  <2> QED BY <1>1, <1>2, <2>2, <2>3 DEF OwedToFollowers
<1>10. NoneMissing'
  <2> SUFFICES ASSUME Calm', NEW u \in Users, NEW p \in Due(u)' PROVE Served(u, p)'
    BY NoneMissingNext
  <2>1. Calm
    BY <1>3, <1>4 DEF Calm
  <2>2. /\ p \in PostIds /\ posts'[p].live /\ posts'[p].author \in GetFolloweeIDs(u)' \cup {u}
        /\ (<<u, p>> \in owed' \/ Recent(p, BackfillLimit)')
    BY <1>5 DEF Due, LiveBy
  <2>3. Recent(p, BackfillLimit)' => Recent(p, BackfillLimit)
    BY <1>2, <1>6, <2>2, RecentBefore
  <2>4. p \in Due(u)
    BY <1>1, <1>4, <2>2, <2>3 DEF Due, LiveBy, GetFolloweeIDs
  <2>5. Served(u, p)
    BY <1>2, <2>1, <2>4, ServedCalm
  <2>6. \A x : Brings(x, u, p) => Brings(x, u, p)'
    BY <1>1, <1>4, <2>2 DEF Brings
  <2>7. UNCHANGED <<stream, settled, job, cache>> /\ spoiled \subseteq spoiled'
    BY <1>1 DEF delivery
  <2> QED BY <1>1, <1>2, <2>5, <2>6, <2>7, RequestAppends, ServedAtRest
<1> QED
  <2> HIDE DEF ev
  <2> QED BY <1>1, <1>3, <1>6, <1>7, <1>8, <1>9, <1>10, RequestKeeps

LEMMA FollowKeeps ==
  ASSUME ContentInv, NEW v \in Users, NEW a \in Users, Follow(v, a)
  PROVE  ContentInv' /\ Grows
<1> DEFINE ev == FollowEvent("user_followed", v, a)
<1>1. /\ Spend("follows") /\ v # a /\ <<v, a>> \notin follows
      /\ follows' = follows \cup {<<v, a>>} /\ everFollowed' = everFollowed \cup {<<v, a>>}
      /\ inFlight' = Append(inFlight, ev)
      /\ UNCHANGED <<stream, delivery, cache, reader, spoiled, posts, owed>>
  BY DEF Follow, Commit
<1>2. TypeOK /\ OwedToFollowers /\ NoneMissing
  BY DEF ContentInv
<1>3. UsedOK' /\ \A k \in Kinds : Never(k)' => Never(k)
  BY <1>1, <1>2, SpendFacts DEF Kinds
<1>4. PostIds' = PostIds
  BY <1>1 DEF PostIds
<1>5. Grows
  BY <1>1, <1>2, <1>3, PostFacts, EventFacts DEF Grows
<1>6. TablesOK'
  BY <1>1, <1>2, <1>4 DEF TypeOK, TablesOK
<1>7. ev \in Event' /\ MakesSense(ev)'
  <2>1. ev \in FollowEvents'
    BY DEF FollowEvents, FollowEvent
  <2> QED BY <1>1, <2>1 DEF Event, MakesSense, FollowEvent
<1>8. \A u \in Users : GetFolloweeIDs(u)' = GetFolloweeIDs(u) \cup (IF u = v THEN {a} ELSE {})
  BY <1>1 DEF GetFolloweeIDs
<1>9. OwedToFollowers'
  <2>1. \A o \in owed' : Follows(o[1], o[2])'
    BY <1>1, <1>2 DEF OwedToFollowers, Follows, GetFolloweeIDs
  <2>2. \A u \in Users : <<u, u>> \notin follows'
    BY <1>1, <1>2 DEF OwedToFollowers
  <2> QED BY <1>1, <1>2, <1>4, <2>1, <2>2 DEF OwedToFollowers
<1>10. NoneMissing'
  <2> SUFFICES ASSUME Calm', NEW u \in Users, NEW p \in Due(u)' PROVE Served(u, p)'
    BY NoneMissingNext
  <2>1. Calm
    BY <1>1, <1>3 DEF Calm, Kinds
  <2>2. /\ p \in PostIds /\ posts[p].live /\ posts[p].author \in GetFolloweeIDs(u)' \cup {u}
        /\ (<<u, p>> \in owed \/ Recent(p, BackfillLimit))
    BY <1>1, <1>4 DEF Due, LiveBy, Recent
  <2>3. CASE posts[p].author \in GetFolloweeIDs(u) \cup {u}
    <3>1. p \in Due(u)
      BY <2>2, <2>3 DEF Due, LiveBy
    <3>2. Served(u, p)
      BY <1>2, <2>1, <3>1, ServedCalm
    <3>3. \A x : Brings(x, u, p) => Brings(x, u, p)'
      BY <1>1 DEF Brings
    <3>4. UNCHANGED <<stream, settled, job, cache>> /\ spoiled \subseteq spoiled'
      BY <1>1 DEF delivery
    <3> QED BY <1>1, <1>2, <3>2, <3>3, <3>4, RequestAppends, ServedAtRest
  <2>4. CASE posts[p].author \notin GetFolloweeIDs(u) \cup {u}
    <3>1. u = v /\ posts[p].author = a
      BY <1>8, <2>2, <2>4
    <3>2. <<u, p>> \notin owed
      <4>1. ~Follows(u, p)
        BY <2>4 DEF Follows
      <4>2. \A o \in owed : Follows(o[1], o[2])
        BY <1>2 DEF OwedToFollowers
      <4> QED BY <4>1, <4>2
    <3>3. PICK j \in DOMAIN inFlight' : inFlight'[j] = ev
      BY <1>1, <1>2, RequestAppends
    <3>4. ev.type = "user_followed" /\ ev.follower = v /\ ev.followee = a
      BY DEF FollowEvent
    <3>5. Brings(inFlight[j], u, p)'
      BY <1>1, <3>1, <3>2, <3>3, <3>4 DEF Brings
    <3> QED BY <3>5 DEF Served, Coming
  <2> QED BY <2>3, <2>4
<1> QED
  <2> HIDE DEF ev
  <2> QED BY <1>1, <1>3, <1>5, <1>6, <1>7, <1>9, <1>10, RequestKeeps

LEMMA UnfollowKeeps ==
  ASSUME ContentInv, NEW v \in Users, NEW a \in Users, Unfollow(v, a)
  PROVE  ContentInv' /\ Grows
<1> DEFINE ev == FollowEvent("user_unfollowed", v, a)
<1>1. /\ Spend("unfollows") /\ <<v, a>> \in follows
      /\ follows' = follows \ {<<v, a>>}
      /\ owed' = {o \in owed : o[1] # v \/ posts[o[2]].author # a}
      /\ inFlight' = Append(inFlight, ev)
      /\ UNCHANGED <<stream, delivery, cache, reader, spoiled, posts, everFollowed>>
  BY DEF Unfollow, Commit
<1>2. TypeOK /\ OwedToFollowers /\ NoneMissing
  BY DEF ContentInv
<1>3. UsedOK' /\ (\A k \in Kinds : Never(k)' => Never(k)) /\ ~Never("unfollows")'
  BY <1>1, <1>2, SpendFacts DEF Kinds
<1>4. PostIds' = PostIds
  BY <1>1 DEF PostIds
<1>5. Grows
  BY <1>1, <1>2, <1>3, PostFacts, EventFacts DEF Grows
<1>6. TablesOK'
  BY <1>1, <1>2, <1>4 DEF TypeOK, TablesOK
<1>7. v # a
  BY <1>1, <1>2 DEF OwedToFollowers
<1>8. ev \in Event' /\ MakesSense(ev)'
  <2>1. ev \in FollowEvents'
    BY DEF FollowEvents, FollowEvent
  <2>2. <<v, a>> \in everFollowed'
    BY <1>1, <1>2 DEF TypeOK
  <2> QED BY <1>3, <1>7, <2>1, <2>2 DEF Event, MakesSense, FollowEvent
<1>9. \A u \in Users : GetFolloweeIDs(u)' = GetFolloweeIDs(u) \ (IF u = v THEN {a} ELSE {})
  BY <1>1 DEF GetFolloweeIDs
<1>10. OwedToFollowers'
  <2>1. \A o \in owed' : Follows(o[1], o[2])'
    <3> SUFFICES ASSUME NEW o \in owed' PROVE Follows(o[1], o[2])'
      OBVIOUS
    <3>1. /\ o \in owed /\ o[1] \in Users /\ (o[1] # v \/ posts[o[2]].author # a)
      BY <1>1, <1>2 DEF TypeOK
    <3>2. Follows(o[1], o[2])
      BY <1>2, <3>1 DEF OwedToFollowers
    <3> QED BY <1>1, <1>9, <3>1, <3>2 DEF Follows
  <2>2. \A p \in PostIds' : <<posts'[p].author, p>> \in owed'
    <3> SUFFICES ASSUME NEW p \in PostIds' PROVE <<posts'[p].author, p>> \in owed'
      OBVIOUS
    <3>1. <<posts[p].author, p>> \in owed
      BY <1>2, <1>4 DEF OwedToFollowers
    <3> QED BY <1>1, <1>7, <3>1
  <2> QED BY <1>1, <1>2, <2>1, <2>2 DEF OwedToFollowers
<1>11. NoneMissing'
  <2> SUFFICES ASSUME Calm', NEW u \in Users, NEW p \in Due(u)' PROVE Served(u, p)'
    BY NoneMissingNext
  <2>1. Calm
    BY <1>1, <1>3 DEF Calm
  <2>2. /\ p \in PostIds /\ posts[p].live /\ posts[p].author \in GetFolloweeIDs(u)' \cup {u}
        /\ (<<u, p>> \in owed' \/ Recent(p, BackfillLimit))
    BY <1>1, <1>4 DEF Due, LiveBy, Recent
  <2>3. u # v \/ posts[p].author # a
    BY <1>7, <1>9, <2>2
  <2>4. <<u, p>> \in owed' <=> <<u, p>> \in owed
    BY <1>1, <2>3
  <2>5. p \in Due(u)
    BY <1>9, <2>2, <2>4 DEF Due, LiveBy
  <2>6. Served(u, p)
    BY <1>2, <2>1, <2>5, ServedCalm
  <2>7. \A x : Brings(x, u, p) => Brings(x, u, p)'
    BY <1>1, <2>4 DEF Brings
  <2>8. UNCHANGED <<stream, settled, job, cache>> /\ spoiled \subseteq spoiled'
    BY <1>1 DEF delivery
  <2> QED BY <1>1, <1>2, <2>6, <2>7, <2>8, RequestAppends, ServedAtRest
<1> QED
  <2> HIDE DEF ev
  <2> QED BY <1>1, <1>3, <1>5, <1>6, <1>8, <1>10, <1>11, RequestKeeps
---------------------------------------------------------------------------------
(* Steps that leave Postgres alone *)

LEMMA SameTables ==
  ASSUME ContentInv, UNCHANGED db
  PROVE  /\ TablesOK' /\ OwedToFollowers'
         /\ PostIds' = PostIds /\ Ops' = Ops /\ Event' = Event /\ Read' = Read
         /\ \A u \in Users : Due(u)' = Due(u)
         /\ \A ev, u, p : Brings(ev, u, p)' = Brings(ev, u, p)
         /\ \A u, p : Allowed(u, p)' = Allowed(u, p)
         /\ Len(posts') = Len(posts)
<1>1. UNCHANGED <<posts, follows, everFollowed, owed>>
  BY DEF db
<1>2. PostIds' = PostIds
  BY <1>1 DEF PostIds
<1>3. Ops' = Ops /\ Event' = Event /\ Read' = Read
  BY <1>2 DEF Ops, Event, PostEvents, FollowEvents, Read
<1>4. TablesOK'
  BY <1>1, <1>2 DEF ContentInv, TypeOK, TablesOK
<1>5. OwedToFollowers'
  <2>1. \A o : Follows(o[1], o[2])' = Follows(o[1], o[2])
    BY <1>1 DEF Follows, GetFolloweeIDs
  <2> QED BY <1>1, <1>2, <2>1 DEF ContentInv, OwedToFollowers
<1>6. \A u \in Users : Due(u)' = Due(u)
  <2>1. \A p : Recent(p, BackfillLimit)' = Recent(p, BackfillLimit)
    BY <1>1, <1>2 DEF Recent
  <2> QED BY <1>1, <1>2, <2>1 DEF Due, LiveBy, GetFolloweeIDs
<1>7. \A ev, u, p : Brings(ev, u, p)' = Brings(ev, u, p)
  BY <1>1 DEF Brings
<1>8. \A u, p : Allowed(u, p)' = Allowed(u, p)
  BY <1>1 DEF Allowed
<1> QED BY <1>1, <1>2, <1>3, <1>4, <1>5, <1>6, <1>7, <1>8

\* Whatever is calm after a step that leaves Postgres alone was so before.
LEMMA CalmBefore ==
  ASSUME UNCHANGED db, \A k \in Kinds : Never(k)' => Never(k), Calm'
  PROVE  Calm
BY DEF Calm, db, Kinds

\* An event is published, or published and kept, or lost with its adds.
LEMMA PublishKeeps ==
  ASSUME ContentInv, UNCHANGED <<db, delivery, cache, reader>>, NEW i \in DOMAIN inFlight,
         stream' \in {stream, Append(stream, inFlight[i])},
         inFlight' \in {inFlight, RemoveAt(inFlight, i)},
         spoiled \subseteq spoiled', spoiled' \subseteq Users \X PostIds,
         \/ inFlight' = inFlight
         \/ stream' = Append(stream, inFlight[i])
         \/ AddsOf(inFlight[i]) \subseteq spoiled',
         UsedOK', \A k \in Kinds : Never(k)' => Never(k)
  PROVE  ContentInv'
<1> DEFINE ev == inFlight[i]
<1>1. TypeOK /\ NoneMissing
  BY DEF ContentInv
<1>2. UNCHANGED <<posts, follows, everFollowed, owed, job, attempted, settled, inOrder, cache, reader>>
  BY DEF db, delivery
<1>3. /\ inFlight \in Seq(Event) /\ stream \in Seq(Event) /\ ev \in Event
      /\ Len(stream) \in Nat /\ DOMAIN stream = 1 .. Len(stream)
  BY <1>1, EventFacts DEF TypeOK
<1>4. /\ inFlight' \in Seq(Event)
      /\ \A j \in DOMAIN inFlight' : \E k \in DOMAIN inFlight : inFlight'[j] = inFlight[k]
      /\ \A k \in DOMAIN inFlight \ {i} : \E j \in DOMAIN inFlight' : inFlight'[j] = inFlight[k]
  BY <1>3, RemoveAtFacts
<1>5. /\ stream' \in Seq(Event) /\ DOMAIN stream' = 1 .. Len(stream') /\ Len(stream') \in Nat
      /\ Len(stream) <= Len(stream')
      /\ \A e \in DOMAIN stream : e \in DOMAIN stream' /\ stream'[e] = stream[e]
      /\ \A e \in DOMAIN stream' : e \in DOMAIN stream \/ stream'[e] = ev
      /\ stream' = Append(stream, ev) =>
           Len(stream) + 1 \in DOMAIN stream' /\ stream'[Len(stream) + 1] = ev
  <2>1. stream' \in {stream, Append(stream, ev)}
    OBVIOUS
  <2> HIDE DEF ev
  <2>2. stream \in Seq(Event) /\ ev \in Event
    BY <1>3
  <2>3. /\ stream' \in Seq(Event) /\ DOMAIN stream' = 1 .. Len(stream') /\ Len(stream') \in Nat
        /\ Len(stream) <= Len(stream')
        /\ \A e \in DOMAIN stream : e \in DOMAIN stream' /\ stream'[e] = stream[e]
    BY <2>1, <2>2, MoreFacts
  <2>4. \A e \in DOMAIN stream' : e \in DOMAIN stream \/ stream'[e] = ev
    BY <2>1, <2>2, MoreFacts
  <2>5. stream' = Append(stream, ev) =>
          Len(stream) + 1 \in DOMAIN stream' /\ stream'[Len(stream) + 1] = ev
    BY <2>1, <2>2, MoreFacts
  <2> QED BY <2>3, <2>4, <2>5
<1>6. /\ PostIds' = PostIds /\ Ops' = Ops /\ Event' = Event /\ Read' = Read
      /\ TablesOK' /\ OwedToFollowers'
      /\ \A u \in Users : Due(u)' = Due(u)
      /\ \A x, u, p : Brings(x, u, p)' = Brings(x, u, p)
      /\ \A u, p : Allowed(u, p)' = Allowed(u, p)
  BY SameTables
<1>7. Grows
  <2>1. /\ Len(posts) <= Len(posts') /\ Len(posts') \in Nat
        /\ \A p \in PostIds : posts'[p].author = posts[p].author
        /\ everFollowed \subseteq everFollowed'
    BY <1>1, <1>2, PostFacts
  <2> QED BY <1>5, <2>1 DEF Grows
<1>8. TypeOK'
  <2>1. EventsOK'
    BY <1>4, <1>5, <1>6 DEF EventsOK
  <2>2. job' \in [Workers -> Job']
    BY <1>1, <1>2, <1>7, GrowsSets DEF TypeOK
  <2>3. attempted' \subseteq 1 .. Len(stream')
    BY <1>1, <1>2, <1>3, <1>5 DEF TypeOK
  <2>4. JobsOK'
    BY <1>1, <1>2, <2>2, <2>3 DEF TypeOK, JobsOK
  <2>5. FeedsOK' /\ ReadersOK'
    BY <1>1, <1>2, <1>6 DEF TypeOK, FeedsOK, ReadersOK
  <2> QED BY <1>6, <2>1, <2>4, <2>5, TypeParts, PTL
<1>9. EventsMakeSense'
  <2> SUFFICES ASSUME NEW x, x \in Range(inFlight') \cup Range(stream') PROVE MakesSense(x)'
    BY DEF EventsMakeSense
  <2>1. x \in Range(inFlight) \cup Range(stream)
    <3>1. \A j \in DOMAIN inFlight' : inFlight'[j] \in Range(inFlight)
      BY <1>4 DEF Range
    <3>2. \A e \in DOMAIN stream' : stream'[e] \in Range(stream) \cup {ev}
      BY <1>5 DEF Range
    <3>3. ev \in Range(inFlight)
      BY DEF Range
    <3> HIDE DEF ev
    <3> QED BY <3>1, <3>2, <3>3 DEF Range
  <2>2. x \in Event
    BY <1>1, <2>1, EventFacts DEF Range
  <2>3. MakesSense(x)
    BY <2>1 DEF ContentInv, EventsMakeSense
  <2> QED BY <1>1, <1>7, <2>2, <2>3, SenseStays
<1>10. OneHandEach'
  BY <1>2 DEF ContentInv, OneHandEach
<1>11. OpsMakeSense'
  <2>1. "deletes" \in Kinds /\ "unfollows" \in Kinds
    BY DEF Kinds
  <2> QED BY <1>2, <1>6, <2>1 DEF ContentInv, OpsMakeSense
<1>12. ReadsMakeSense' /\ OnlyFollowed'
  BY <1>2, <1>6 DEF ContentInv, ReadsMakeSense, OnlyFollowed
<1>13. NoneMissing'
  <2> SUFFICES ASSUME Calm', NEW u \in Users, NEW p \in Due(u)' PROVE Served(u, p)'
    BY NoneMissingNext
  <2>1. Served(u, p) /\ p \in PostIds
    BY <1>1, <1>6, CalmBefore, ServedCalm, DueFacts
  <2>2. CASE <<u, p>> \in spoiled
    BY <2>2 DEF Served
  <2>3. CASE Has(u, p)
    BY <1>2, <2>3 DEF Served, Has
  <2>4. ASSUME NEW e \in DOMAIN stream' \ settled', Brings(stream'[e], u, p),
               \A w \in Workers : job'[w].event = e => Op("add", u, p) \in job'[w].todo
        PROVE  Served(u, p)'
    <3>1. \A x : x = stream'[e] => Brings(x, u, p)'
      BY <1>6, <2>4
    <3>2. Brings(stream[e], u, p)'
      BY <3>1
    <3> QED BY <2>4, <3>2 DEF Served, Coming
  <2>5. ASSUME NEW k \in DOMAIN inFlight, Brings(inFlight[k], u, p) PROVE Served(u, p)'
    <3>1. ASSUME NEW j \in DOMAIN inFlight', inFlight'[j] = inFlight[k] PROVE Served(u, p)'
      <4>1. \A x : x = inFlight'[j] => Brings(x, u, p)'
        BY <1>6, <2>5, <3>1
      <4>2. Brings(inFlight[j], u, p)'
        BY <4>1
      <4> QED BY <4>2 DEF Served, Coming
    <3>2. CASE k # i \/ inFlight' = inFlight
      BY <1>4, <3>1, <3>2
    <3>3. CASE k = i /\ stream' = Append(stream, ev)
      <4>1. Len(stream) + 1 \in DOMAIN stream' /\ stream'[Len(stream) + 1] = ev
        BY <1>5, <3>3
      <4>2. Len(stream) + 1 \notin settled' /\ \A w \in Workers : job'[w].event # Len(stream) + 1
        BY <1>1, <1>2, <1>3, NextEntry
      <4> QED BY <2>4, <2>5, <3>3, <4>1, <4>2
    <3>4. CASE k = i /\ AddsOf(ev) \subseteq spoiled'
      <4>1. <<u, p>> \in AddsOf(ev)
        BY <2>1, <2>5, <3>4 DEF Brings, AddsOf
      <4> QED BY <3>4, <4>1 DEF Served
    <3> QED BY <3>2, <3>3, <3>4
  <2>6. CASE \E e \in DOMAIN stream \ settled :
               /\ Brings(stream[e], u, p)
               /\ \A w \in Workers : job[w].event = e => Op("add", u, p) \in job[w].todo
    BY <1>2, <1>5, <2>4, <2>6
  <2> QED BY <2>1, <2>2, <2>3, <2>5, <2>6 DEF Served, Coming
<1> QED BY <1>6, <1>8, <1>9, <1>10, <1>11, <1>12, <1>13 DEF ContentInv

LEMMA PublishesKeep ==
  ASSUME ContentInv, NEW i \in DOMAIN inFlight, Publish(i) \/ PublishAgain(i) \/ LosePublish(i)
  PROVE  ContentInv'
<1>1. TypeOK /\ inFlight[i] \in Event
  BY EventFacts DEF ContentInv
<1>2. CASE Publish(i)
  <2>1. UsedOK' /\ \A k \in Kinds : Never(k)' => Never(k)
    BY <1>1, <1>2, NoneSpent DEF Publish
  <2> QED BY <1>1, <1>2, <2>1, PublishKeeps DEF Publish, TypeOK
<1>3. CASE PublishAgain(i)
  <2>1. UsedOK' /\ \A k \in Kinds : Never(k)' => Never(k)
    BY <1>1, <1>3, SpendFacts DEF PublishAgain, Kinds
  <2> QED BY <1>1, <1>3, <2>1, PublishKeeps DEF PublishAgain, TypeOK
<1>4. CASE LosePublish(i)
  <2>1. UsedOK' /\ \A k \in Kinds : Never(k)' => Never(k)
    BY <1>1, <1>4, SpendFacts DEF LosePublish, Kinds
  <2>2. AddsOf(inFlight[i]) \subseteq Users \X PostIds
    BY <1>1 DEF AddsOf, Event, PostEvents, FollowEvents
  <2> QED BY <1>1, <1>4, <2>1, <2>2, PublishKeeps DEF LosePublish, Spoil, TypeOK
<1> QED BY <1>2, <1>3, <1>4
---------------------------------------------------------------------------------
(* Workers *)

LEMMA EventKinds ==
  ASSUME TypeOK, NEW ev \in Event
  PROVE  \/ /\ ev.type \in {"post_created", "post_deleted"}
            /\ ev.user \in Users /\ ev.author \in Users /\ ev.post \in PostIds
         \/ /\ ev.type \in {"user_followed", "user_unfollowed"}
            /\ ev.user \in Users /\ ev.follower \in Users /\ ev.followee \in Users
BY DEF Event, PostEvents, FollowEvents

LEMMA OpFacts ==
  ASSUME NEW k, NEW u, NEW p
  PROVE  Op(k, u, p).kind = k /\ Op(k, u, p).user = u /\ Op(k, u, p).post = p
BY DEF Op

\* Posts of one author, newest first and limited, are his.
LEMMA RecentPosts ==
  ASSUME NEW a, NEW n, NEW p \in GetRecentPostsByUser(a, n)
  PROVE  p \in PostIds /\ posts[p].author = a /\ posts[p].live
BY DEF GetRecentPostsByUser, Newest, LiveBy

\* What handlers are to do makes sense.
LEMMA HandledOps ==
  ASSUME ContentInv, NEW ev \in Event, MakesSense(ev), NEW op \in HandleEvent(ev)
  PROVE  /\ op \in Ops
         /\ op.kind = "add" => Allowed(op.user, op.post)
         /\ op.kind = "remove" => ~Never("deletes") \/ ~Never("unfollows")
<1>1. TypeOK
  BY DEF ContentInv
<1>2. CASE ev.type = "post_created"
  <2>1. ev.author \in Users /\ ev.post \in PostIds /\ ev.author = posts[ev.post].author
    BY <1>1, <1>2, EventKinds DEF MakesSense
  <2>2. PICK u \in GetFollowerIDs(ev.author) \cup {ev.author} : op = Op("add", u, ev.post)
    BY <1>2 DEF HandleEvent, handlePostCreated
  <2>3. u \in Users /\ (u = ev.author \/ <<u, ev.author>> \in everFollowed)
    BY <1>1, <2>1, <2>2 DEF GetFollowerIDs, TypeOK
  <2> QED BY <2>1, <2>2, <2>3 DEF Op, Ops, Allowed
<1>3. CASE ev.type = "post_deleted"
  <2>1. ev.author \in Users /\ ev.post \in PostIds /\ ~Never("deletes")
    BY <1>1, <1>3, EventKinds DEF MakesSense
  <2>2. PICK u \in GetFollowerIDs(ev.author) \cup {ev.author} : op = Op("remove", u, ev.post)
    BY <1>3 DEF HandleEvent, handlePostDeleted
  <2>3. u \in Users
    BY <2>1, <2>2 DEF GetFollowerIDs
  <2> QED BY <2>1, <2>2, <2>3 DEF Op, Ops
<1>4. CASE ev.type = "user_followed"
  <2>1. ev.follower \in Users /\ <<ev.follower, ev.followee>> \in everFollowed
    BY <1>1, <1>4, EventKinds DEF MakesSense
  <2>2. PICK p \in GetRecentPostsByUser(ev.followee, BackfillLimit) : op = Op("add", ev.follower, p)
    BY <1>4 DEF HandleEvent, handleUserFollowed
  <2>3. p \in PostIds /\ posts[p].author = ev.followee
    BY <2>2, RecentPosts
  <2> QED BY <2>1, <2>2, <2>3 DEF Op, Ops, Allowed
<1>5. CASE ev.type = "user_unfollowed"
  <2>1. ev.follower \in Users /\ ~Never("unfollows")
    BY <1>1, <1>5, EventKinds DEF MakesSense
  <2>2. PICK p \in GetRecentPostsByUser(ev.followee, RemoveLimit) : op = Op("remove", ev.follower, p)
    BY <1>5 DEF HandleEvent, handleUserUnfollowed
  <2>3. p \in PostIds
    BY <2>2, RecentPosts
  <2> QED BY <2>1, <2>2, <2>3 DEF Op, Ops
<1> QED BY <1>1, <1>2, <1>3, <1>4, <1>5, EventKinds

\* One of the n newest posts of its author is one of his n newest live ones.
LEMMA RecentIsFound ==
  ASSUME TypeOK, NEW p \in PostIds, posts[p].live, NEW n \in Nat, Recent(p, n)
  PROVE  p \in GetRecentPostsByUser(posts[p].author, n)
<1> DEFINE newer == {q \in PostIds : q > p /\ posts[q].author = posts[p].author}
           live == {q \in LiveBy({posts[p].author}) : q > p}
<1>1. IsFiniteSet(newer) /\ Cardinality(newer) \in Nat
  BY NewerFacts
<1>2. Cardinality(newer) < n
  BY DEF Recent
<1>3. live \in SUBSET newer
  BY DEF LiveBy
<1>4. p \in LiveBy({posts[p].author})
  BY DEF LiveBy
<1>5. Cardinality(live) < n
  <2> HIDE DEF newer, live
  <2>1. Cardinality(live) <= Cardinality(newer) /\ IsFiniteSet(live)
    BY <1>1, <1>3, FS_Subset
  <2>2. Cardinality(live) \in Nat
    BY <2>1, FS_CardinalityType
  <2> QED BY <1>1, <1>2, <2>1, <2>2
<1> QED BY <1>4, <1>5 DEF GetRecentPostsByUser, Newest

\* The handler of the event that brings a post finds it and adds it, and the
\* post is lost with the event.
LEMMA HandledAdds ==
  ASSUME ContentInv, NEW ev \in Event, MakesSense(ev), NEW u \in Users, NEW p \in Due(u),
         Brings(ev, u, p)
  PROVE  Op("add", u, p) \in HandleEvent(ev) /\ <<u, p>> \in AddsOf(ev)
<1>1. /\ p \in PostIds /\ posts[p].live /\ TypeOK
      /\ (<<u, p>> \in owed \/ Recent(p, BackfillLimit))
  BY DueFacts DEF ContentInv
<1>2. CASE <<u, p>> \in owed
  <2>1. ev.type = "post_created" /\ ev.post = p /\ ev.author = posts[p].author
    BY <1>2 DEF Brings, MakesSense
  <2>2. u = posts[p].author \/ <<u, posts[p].author>> \in follows
    BY <1>2 DEF ContentInv, OwedToFollowers, Follows, GetFolloweeIDs
  <2>3. u \in GetFollowerIDs(ev.author) \cup {ev.author}
    BY <2>1, <2>2 DEF GetFollowerIDs
  <2>4. Op("add", u, p) \in handlePostCreated(ev)
    BY <2>1, <2>3 DEF handlePostCreated
  <2> QED BY <2>1, <2>4 DEF HandleEvent, AddsOf
<1>3. CASE <<u, p>> \notin owed
  <2>1. ev.type = "user_followed" /\ ev.follower = u /\ ev.followee = posts[p].author
    BY <1>3 DEF Brings
  <2>2. p \in GetRecentPostsByUser(ev.followee, BackfillLimit)
    BY <1>1, <1>3, <2>1, RecentIsFound
  <2>3. Op("add", u, p) \in handleUserFollowed(ev)
    BY <2>1, <2>2 DEF handleUserFollowed
  <2> QED BY <1>1, <2>1, <2>3 DEF HandleEvent, AddsOf
<1> QED BY <1>2, <1>3

LEMMA AddsAreAdds ==
  ASSUME TypeOK, NEW ev \in Event
  PROVE  AddsOf(ev) \subseteq Users \X PostIds
BY EventKinds DEF AddsOf

\* What a step of a worker leaves alone.
LEMMA WorkerSame ==
  ASSUME ContentInv, UNCHANGED <<db, inFlight, stream, reader>>,
         \A k \in Kinds : Never(k)' => Never(k)
  PROVE  /\ TablesOK' /\ EventsOK' /\ ReadersOK'
         /\ EventsMakeSense' /\ ReadsMakeSense' /\ OwedToFollowers'
         /\ PostIds' = PostIds /\ Ops' = Ops /\ Job' = Job
         /\ \A u \in Users : Due(u)' = Due(u)
         /\ \A ev, u, p : Brings(ev, u, p)' = Brings(ev, u, p)
         /\ \A u, p : Allowed(u, p)' = Allowed(u, p)
         /\ Calm' => Calm
<1>1. TypeOK
  BY DEF ContentInv
<1>2. /\ TablesOK' /\ OwedToFollowers'
      /\ PostIds' = PostIds /\ Ops' = Ops /\ Event' = Event /\ Read' = Read
      /\ \A u \in Users : Due(u)' = Due(u)
      /\ \A ev, u, p : Brings(ev, u, p)' = Brings(ev, u, p)
      /\ \A u, p : Allowed(u, p)' = Allowed(u, p)
  BY SameTables
<1>3. EventsOK' /\ ReadersOK' /\ Job' = Job
  BY <1>1, <1>2 DEF TypeOK, EventsOK, ReadersOK, Job
<1>4. Grows
  <2>1. UNCHANGED <<posts, everFollowed, stream>>
    BY DEF db
  <2> QED BY <1>1, <2>1, PostFacts, EventFacts DEF Grows
<1>5. EventsMakeSense'
  <2> SUFFICES ASSUME NEW x, x \in Range(inFlight) \cup Range(stream) PROVE MakesSense(x)'
    BY DEF EventsMakeSense
  <2>1. x \in Event
    BY <1>1, EventFacts DEF Range
  <2>2. MakesSense(x)
    BY DEF ContentInv, EventsMakeSense
  <2> QED BY <1>1, <1>4, <2>1, <2>2, SenseStays
<1>6. ReadsMakeSense'
  <2>1. UNCHANGED everFollowed
    BY DEF db
  <2> QED BY <1>2, <2>1 DEF ContentInv, ReadsMakeSense
<1>7. Calm' => Calm
  BY CalmBefore
<1> QED BY <1>2, <1>3, <1>5, <1>6, <1>7

\* An event's post is still coming after a step of worker w, unless w had it in
\* its hand.
LEMMA StillComing ==
  ASSUME ContentInv, NEW w \in Workers, UNCHANGED <<db, inFlight, stream>>,
         \A v \in Workers \ {w} : job'[v] = job[v],
         NEW u, NEW p, Coming(u, p),
         \A e \in DOMAIN stream \ settled :
           /\ Brings(stream[e], u, p)
           /\ \A v \in Workers : job[v].event = e => Op("add", u, p) \in job[v].todo
           => Served(u, p)' \/ (e \notin settled' /\ (job'[w].event = e => Op("add", u, p) \in job'[w].todo))
  PROVE  Served(u, p)'
<1>1. \A ev : Brings(ev, u, p)' = Brings(ev, u, p)
  BY SameTables
<1>2. ASSUME NEW i \in DOMAIN inFlight, Brings(inFlight[i], u, p) PROVE Served(u, p)'
  <2>1. \A ev : ev = inFlight[i] => Brings(ev, u, p)'
    BY <1>1, <1>2
  <2>2. Brings(inFlight[i], u, p)'
    BY <2>1
  <2> QED BY <2>2 DEF Served, Coming
<1>3. ASSUME NEW e \in DOMAIN stream \ settled, Brings(stream[e], u, p),
             \A v \in Workers : job[v].event = e => Op("add", u, p) \in job[v].todo
      PROVE  Served(u, p)'
  <2>1. CASE e \notin settled' /\ (job'[w].event = e => Op("add", u, p) \in job'[w].todo)
    <3>1. \A ev : ev = stream[e] => Brings(ev, u, p)'
      BY <1>1, <1>3
    <3>2. Brings(stream[e], u, p)'
      BY <3>1
    <3>3. \A v \in Workers : job'[v].event = e => Op("add", u, p) \in job'[v].todo
      BY <1>3, <2>1
    <3> QED BY <2>1, <3>2, <3>3 DEF Served, Coming
  <2> QED BY <1>3, <2>1
<1> QED BY <1>2, <1>3 DEF Coming

LEMMA JobMoves ==
  ASSUME TypeOK, NEW w \in Workers, NEW r \in Job, job' = [job EXCEPT ![w] = r]
  PROVE  job' \in [Workers -> Job] /\ job'[w] = r /\ \A v \in Workers \ {w} : job'[v] = job[v]
BY DEF TypeOK

LEMMA NoJobFacts ==
  ASSUME TypeOK
  PROVE  NoJob \in Job /\ NoJob.event = 0 /\ NoJob.phase = "idle" /\ NoJob.todo = {}
BY EventFacts DEF NoJob, Job

LEMMA AttemptKeeps ==
  ASSUME ContentInv, NEW w \in Workers, NEW e \in DOMAIN stream, Attempt(w, e)
  PROVE  ContentInv'
<1> DEFINE ev == stream[e]
<1>1. TypeOK /\ ev \in Event /\ MakesSense(ev) /\ NoneMissing
  BY EventFacts DEF ContentInv, EventsMakeSense, Range
<1>2. /\ job[w] = NoJob /\ e \notin settled /\ e \notin Taken
      /\ attempted' = attempted \cup {e} /\ inOrder' = (inOrder /\ 1 .. e - 1 \subseteq settled)
      /\ UNCHANGED <<db, inFlight, stream, settled, cache, reader>>
  BY DEF Attempt, MayTake
<1>3. PICK todo \in {HandleEvent(ev), {}} :
        /\ job' = [job EXCEPT ![w] = [event |-> e, phase |-> "apply", todo |-> todo]]
        /\ \/ todo = HandleEvent(ev) /\ UNCHANGED <<spoiled, used>>
           \/ todo # HandleEvent(ev) /\ Spend("failures") /\ Spoil(AddsOf(ev))
  BY DEF Attempt, MayTake
<1>4. UsedOK' /\ \A k \in Kinds : Never(k)' => Never(k)
  <2>1. "failures" \in Kinds \ {"steps"}
    BY DEF Kinds
  <2> QED BY <1>1, <1>3, <2>1, SpendFacts, NoneSpent
<1>5. /\ TablesOK' /\ EventsOK' /\ ReadersOK'
      /\ EventsMakeSense' /\ ReadsMakeSense' /\ OwedToFollowers'
      /\ PostIds' = PostIds /\ Ops' = Ops /\ Job' = Job
      /\ \A u \in Users : Due(u)' = Due(u)
      /\ \A x, u, p : Brings(x, u, p)' = Brings(x, u, p)
      /\ \A u, p : Allowed(u, p)' = Allowed(u, p)
      /\ Calm' => Calm
  BY <1>2, <1>4, WorkerSame
<1>6. \A op \in todo : /\ op \in Ops
                       /\ op.kind = "add" => Allowed(op.user, op.post)
                       /\ op.kind = "remove" => ~Never("deletes") \/ ~Never("unfollows")
  BY <1>1, <1>3, HandledOps
<1> DEFINE r == [event |-> e, phase |-> "apply", todo |-> todo]
<1>7. r \in Job /\ r.event = e /\ r.phase = "apply" /\ r.todo = todo
  BY <1>1, <1>6, EventFacts DEF Job
<1> HIDE DEF r
<1>8. /\ job' \in [Workers -> Job] /\ job'[w].event = e /\ job'[w].phase = "apply"
      /\ job'[w].todo = todo /\ \A v \in Workers \ {w} : job'[v] = job[v]
  BY <1>1, <1>3, <1>7, JobMoves DEF r
<1>9. spoiled \subseteq spoiled' /\ spoiled' \subseteq Users \X PostIds
      /\ (todo # HandleEvent(ev) => AddsOf(ev) \subseteq spoiled')
  BY <1>1, <1>3, AddsAreAdds DEF Spoil, TypeOK
<1>10. TypeOK'
  <2>1. JobsOK'
    BY <1>1, <1>2, <1>5, <1>8, EventFacts DEF JobsOK, TypeOK
  <2>2. FeedsOK'
    BY <1>1, <1>2, <1>5, <1>9 DEF FeedsOK, TypeOK
  <2> QED BY <1>4, <1>5, <2>1, <2>2, TypeParts, PTL
<1>11. \A v \in Workers : job[v].event # e
  BY <1>2 DEF Taken
<1>12. OneHandEach'
  <2> SUFFICES ASSUME NEW v \in Workers
               PROVE  /\ job'[v].event = 0 <=> job'[v].phase = "idle"
                      /\ job'[v].phase # "apply" => job'[v].todo = {}
                      /\ job'[v].event # 0 =>
                           /\ job'[v].event \in attempted' \ settled'
                           /\ \A x \in Workers \ {v} : job'[x].event # job'[v].event
    BY DEF OneHandEach
  <2>1. e # 0
    BY <1>1, EventFacts
  <2>2. CASE v = w
    BY <1>2, <1>8, <1>11, <2>1, <2>2
  <2>3. CASE v # w
    BY <1>2, <1>8, <1>11, <2>3 DEF ContentInv, OneHandEach
  <2> QED BY <2>2, <2>3
<1>13. OpsMakeSense'
  <2> SUFFICES ASSUME NEW v \in Workers, NEW op \in job'[v].todo
               PROVE  IF op.kind = "add" THEN Allowed(op.user, op.post)'
                                         ELSE ~Never("deletes")' \/ ~Never("unfollows")'
    BY DEF OpsMakeSense
  <2>1. "deletes" \in Kinds /\ "unfollows" \in Kinds
    BY DEF Kinds
  <2>2. CASE v = w
    <3>1. op \in todo /\ op.kind \in {"add", "remove"}
      BY <1>6, <1>8, <2>2 DEF Ops
    <3> QED BY <1>4, <1>5, <1>6, <2>1, <3>1
  <2>3. CASE v # w
    BY <1>4, <1>5, <1>8, <2>1, <2>3 DEF ContentInv, OpsMakeSense
  <2> QED BY <2>2, <2>3
<1>14. OnlyFollowed'
  BY <1>2, <1>5 DEF ContentInv, OnlyFollowed
<1>15. NoneMissing'
  <2> SUFFICES ASSUME Calm', NEW u \in Users, NEW p \in Due(u)' PROVE Served(u, p)'
    BY NoneMissingNext
  <2>1. p \in Due(u) /\ Served(u, p)
    BY <1>1, <1>5, ServedCalm
  <2>2. CASE <<u, p>> \in spoiled
    BY <1>9, <2>2 DEF Served
  <2>3. CASE Has(u, p)
    BY <1>2, <2>3 DEF Served, Has
  <2>4. CASE Coming(u, p)
    <3>1. ASSUME Brings(ev, u, p)
          PROVE  Served(u, p)' \/ Op("add", u, p) \in todo
      <4>1. Op("add", u, p) \in HandleEvent(ev) /\ <<u, p>> \in AddsOf(ev)
        BY <1>1, <2>1, <3>1, HandledAdds
      <4>2. CASE todo = HandleEvent(ev)
        BY <4>1, <4>2
      <4>3. CASE todo # HandleEvent(ev)
        BY <1>9, <4>1, <4>3 DEF Served
      <4> QED BY <4>2, <4>3
    <3>2. \A x \in DOMAIN stream \ settled :
            /\ Brings(stream[x], u, p)
            /\ \A v \in Workers : job[v].event = x => Op("add", u, p) \in job[v].todo
            => Served(u, p)' \/ (x \notin settled' /\ (job'[w].event = x => Op("add", u, p) \in job'[w].todo))
      BY <1>2, <1>8, <3>1
    <3> QED BY <1>2, <1>8, <2>4, <3>2, StillComing
  <2> QED BY <2>1, <2>2, <2>3, <2>4 DEF Served
<1> QED BY <1>5, <1>10, <1>12, <1>13, <1>14, <1>15 DEF ContentInv

\* A worker is done with its event: it has nothing left to add.
LEMMA DoneKeeps ==
  ASSUME ContentInv, NEW w \in Workers, job[w].todo = {}, job'[w].todo = {},
         UNCHANGED <<db, inFlight, stream, cache, reader>>,
         job' \in [Workers -> Job], \A v \in Workers \ {w} : job'[v] = job[v],
         \/ job'[w].event = job[w].event /\ settled' = settled
         \/ job'[w].event = 0 /\ settled' \in {settled, settled \cup {job[w].event}},
         spoiled \subseteq spoiled', spoiled' \subseteq Users \X PostIds,
         UsedOK', \A k \in Kinds : Never(k)' => Never(k), JobsOK', OneHandEach'
  PROVE  ContentInv'
<1>1. TypeOK /\ NoneMissing
  BY DEF ContentInv
<1>2. /\ TablesOK' /\ EventsOK' /\ ReadersOK'
      /\ EventsMakeSense' /\ ReadsMakeSense' /\ OwedToFollowers'
      /\ PostIds' = PostIds /\ Ops' = Ops /\ Job' = Job
      /\ \A u \in Users : Due(u)' = Due(u)
      /\ \A x, u, p : Brings(x, u, p)' = Brings(x, u, p)
      /\ \A u, p : Allowed(u, p)' = Allowed(u, p)
      /\ Calm' => Calm
  BY WorkerSame
<1>3. FeedsOK'
  BY <1>1, <1>2 DEF FeedsOK, TypeOK
<1>4. TypeOK'
  BY <1>2, <1>3, TypeParts, PTL
<1>5. OpsMakeSense'
  <2>1. "deletes" \in Kinds /\ "unfollows" \in Kinds
    BY DEF Kinds
  <2>2. \A v \in Workers : job'[v].todo \subseteq job[v].todo
    OBVIOUS
  <2> QED BY <1>2, <2>1, <2>2 DEF ContentInv, OpsMakeSense
<1>6. OnlyFollowed'
  BY <1>2 DEF ContentInv, OnlyFollowed
<1>7. NoneMissing'
  <2> SUFFICES ASSUME Calm', NEW u \in Users, NEW p \in Due(u)' PROVE Served(u, p)'
    BY NoneMissingNext
  <2>1. Served(u, p)
    BY <1>1, <1>2, ServedCalm
  <2>2. CASE <<u, p>> \in spoiled
    BY <2>2 DEF Served
  <2>3. CASE Has(u, p)
    BY <2>3 DEF Served, Has
  <2>4. CASE Coming(u, p)
    <3>1. \A x \in DOMAIN stream \ settled :
            /\ Brings(stream[x], u, p)
            /\ \A v \in Workers : job[v].event = x => Op("add", u, p) \in job[v].todo
            => Served(u, p)' \/ (x \notin settled' /\ (job'[w].event = x => Op("add", u, p) \in job'[w].todo))
      <4> SUFFICES ASSUME NEW x \in DOMAIN stream \ settled,
                          \A v \in Workers : job[v].event = x => Op("add", u, p) \in job[v].todo
                   PROVE  x \notin settled' /\ job'[w].event # x
        OBVIOUS
      <4>1. job[w].event # x /\ x # 0
        BY <1>1, EventFacts
      <4> QED BY <4>1
    <3> QED BY <2>4, <3>1, StillComing
  <2> QED BY <2>1, <2>2, <2>3, <2>4 DEF Served
<1> QED BY <1>2, <1>4, <1>5, <1>6, <1>7 DEF ContentInv

LEMMA ReturnKeeps ==
  ASSUME ContentInv, NEW w \in Workers, Return(w)
  PROVE  ContentInv'
<1>1. TypeOK /\ OneHandEach
  BY DEF ContentInv
<1>2. /\ job[w].phase = "apply" /\ job[w].todo = {}
      /\ UNCHANGED <<db, inFlight, stream, attempted, settled, inOrder, cache, reader, spoiled, used>>
  BY DEF Return
<1>3. PICK r : r = [job[w] EXCEPT !.phase = "ack"]
  OBVIOUS
<1>4. r \in Job /\ r.event = job[w].event /\ r.phase = "ack" /\ r.todo = {}
  BY <1>1, <1>2, <1>3, JobFacts DEF Job
<1>5. job' = [job EXCEPT ![w] = r]
  BY <1>3 DEF Return
<1>6. job' \in [Workers -> Job] /\ job'[w] = r /\ \A v \in Workers \ {w} : job'[v] = job[v]
  BY <1>1, <1>4, <1>5, JobMoves
<1>7. UsedOK' /\ \A k \in Kinds : Never(k)' => Never(k)
  BY <1>1, <1>2, NoneSpent
<1>8. JobsOK'
  <2>1. Job' = Job
    BY <1>2 DEF Job, Ops, PostIds, db
  <2> QED BY <1>1, <1>2, <1>6, <2>1 DEF JobsOK, TypeOK
<1>9. OneHandEach'
  <2>1. \A v \in Workers : job'[v].event = job[v].event
    BY <1>4, <1>6
  <2>2. \A v \in Workers : /\ job'[v].event = 0 <=> job'[v].phase = "idle"
                           /\ job'[v].phase # "apply" => job'[v].todo = {}
    BY <1>1, <1>2, <1>4, <1>6 DEF OneHandEach
  <2> QED BY <1>1, <1>2, <2>1, <2>2 DEF OneHandEach
<1>10. spoiled \subseteq spoiled' /\ spoiled' \subseteq Users \X PostIds
  BY <1>1, <1>2 DEF TypeOK
<1> QED BY <1>2, <1>4, <1>6, <1>7, <1>8, <1>9, <1>10, DoneKeeps

LEMMA AckKeeps ==
  ASSUME ContentInv, NEW w \in Workers, Ack(w)
  PROVE  ContentInv'
<1>1. TypeOK /\ OneHandEach
  BY DEF ContentInv
<1>2. /\ job[w].phase = "ack" /\ job' = [job EXCEPT ![w] = NoJob]
      /\ settled' \in {settled, settled \cup {job[w].event}}
      /\ UNCHANGED <<db, inFlight, stream, attempted, inOrder, cache, reader, spoiled>>
  BY DEF Ack
<1>3. UsedOK' /\ \A k \in Kinds : Never(k)' => Never(k)
  <2>1. "failures" \in Kinds \ {"steps"}
    BY DEF Kinds
  <2> QED BY <1>1, <2>1, SpendFacts, NoneSpent DEF Ack
<1>4. /\ job' \in [Workers -> Job] /\ job'[w] = NoJob
      /\ \A v \in Workers \ {w} : job'[v] = job[v]
  BY <1>1, <1>2, JobMoves, NoJobFacts
<1>5. job[w].event \in attempted /\ job[w].event # 0 /\ job[w].todo = {}
  BY <1>1, <1>2 DEF OneHandEach
<1>6. JobsOK'
  <2>1. Job' = Job
    BY <1>2 DEF Job, Ops, PostIds, db
  <2> QED BY <1>1, <1>2, <1>4, <1>5, <2>1 DEF JobsOK, TypeOK
<1>7. OneHandEach'
  <2> SUFFICES ASSUME NEW v \in Workers
               PROVE  /\ job'[v].event = 0 <=> job'[v].phase = "idle"
                      /\ job'[v].phase # "apply" => job'[v].todo = {}
                      /\ job'[v].event # 0 =>
                           /\ job'[v].event \in attempted' \ settled'
                           /\ \A x \in Workers \ {v} : job'[x].event # job'[v].event
    BY DEF OneHandEach
  <2>1. CASE v = w
    BY <1>1, <1>4, <2>1, NoJobFacts
  <2>2. CASE v # w
    <3>1. job'[v] = job[v]
      BY <1>4, <2>2
    <3>2. job[v].event # job[w].event
      BY <1>1, <1>5, <2>2 DEF OneHandEach
    <3>3. job[v].event # 0 => job[v].event \in attempted' \ settled'
      BY <1>1, <1>2, <3>2 DEF OneHandEach
    <3>4. job[v].event # 0 => \A x \in Workers \ {v} : job'[x].event # job[v].event
      BY <1>1, <1>4, NoJobFacts DEF OneHandEach
    <3> QED BY <1>1, <3>1, <3>3, <3>4 DEF OneHandEach
  <2> QED BY <2>1, <2>2
<1>8. spoiled \subseteq spoiled' /\ spoiled' \subseteq Users \X PostIds
  BY <1>1, <1>2 DEF TypeOK
<1> QED BY <1>1, <1>2, <1>3, <1>4, <1>5, <1>6, <1>7, <1>8, DoneKeeps, NoJobFacts

\* Adding to a feed and trimming it puts nothing else there, and what was there
\* or is added is had.
LEMMA AddFacts ==
  ASSUME TypeOK, NEW u \in Users, NEW S \in SUBSET PostIds,
         cache' = [cache EXCEPT ![u] = Trimmed(@ \cup S)]
  PROVE  /\ cache' \in [Users -> SUBSET PostIds]
         /\ \A v \in Users : cache'[v] \subseteq cache[v] \cup (IF v = u THEN S ELSE {})
         /\ \A v \in Users, p \in PostIds : Has(v, p) => Has(v, p)'
         /\ \A p \in S : Has(u, p)'
<1> DEFINE T == cache[u] \cup S
<1>1. /\ cache[u] \subseteq T /\ T \subseteq PostIds /\ PostIds \subseteq Int
      /\ IsFiniteSet(T) /\ T \in SUBSET Int /\ cache[u] \in SUBSET Int
  <2>1. T \in SUBSET PostIds /\ cache[u] \subseteq T
    BY FeedFacts
  <2>2. PostIds \subseteq Int
    BY PostFacts
  <2> HIDE DEF T
  <2>3. IsFiniteSet(T)
    BY <2>1, PostFacts, FS_Subset
  <2> QED BY <2>1, <2>2, <2>3
<1>2. Trimmed(T) \subseteq T
  BY DEF Trimmed, Newest
<1>3. cache'[u] = Trimmed(T) /\ \A v \in Users \ {u} : cache'[v] = cache[v]
  BY DEF TypeOK
<1>4. cache' \in [Users -> SUBSET PostIds]
  <2>1. \A v \in Users : cache'[v] \in SUBSET PostIds
    BY <1>1, <1>2, <1>3 DEF TypeOK
  <2>2. cache' \in [Users -> SUBSET PostIds]
    <3>1. Trimmed(T) \in SUBSET PostIds
      BY <1>1, <1>2
    <3> HIDE DEF T
    <3>2. cache' = [cache EXCEPT ![u] = Trimmed(T)]
      BY DEF T
    <3> QED BY <3>1, <3>2 DEF TypeOK
  <2> QED BY <2>2
<1>5. \A v \in Users : cache'[v] \subseteq cache[v] \cup (IF v = u THEN S ELSE {})
  BY <1>2, <1>3
<1> HIDE DEF T
<1>6. ASSUME NEW p \in PostIds, Has(u, p) PROVE Has(u, p)'
  <2>1. p \in cache[u] \/ Cardinality({q \in cache[u] : q > p}) >= FeedCacheCap
    BY <1>6 DEF Has
  <2>2. p \in Int
    BY <1>1
  <2>3. p \in Trimmed(T) \/ Cardinality({q \in Trimmed(T) : q > p}) >= FeedCacheCap
    BY <1>1, <2>1, <2>2, TrimmedKeeps
  <2> QED BY <1>3, <2>3 DEF Has
<1>7. ASSUME NEW p \in S PROVE Has(u, p)'
  <2>1. p \in T /\ p \in Int
    BY <1>1 DEF T
  <2>2. p \in Trimmed(T) \/ Cardinality({q \in Trimmed(T) : q > p}) >= FeedCacheCap
    BY <1>1, <2>1, TrimmedKeeps
  <2> QED BY <1>3, <2>2 DEF Has
<1>8. ASSUME NEW v \in Users, NEW p \in PostIds, Has(v, p) PROVE Has(v, p)'
  <2>1. CASE v = u
    BY <1>6, <1>8, <2>1
  <2>2. CASE v # u
    BY <1>3, <1>8, <2>2 DEF Has
  <2> QED BY <2>1, <2>2
<1> QED BY <1>4, <1>5, <1>7, <1>8

LEMMA AddPostFacts ==
  ASSUME TypeOK, NEW u \in Users, NEW p \in PostIds, cache' = AddPost(cache, u, p)
  PROVE  /\ cache' \in [Users -> SUBSET PostIds]
         /\ \A v \in Users : cache'[v] \subseteq cache[v] \cup (IF v = u THEN {p} ELSE {})
         /\ \A v \in Users, q \in PostIds : Has(v, q) => Has(v, q)'
         /\ Has(u, p)'
<1>1. PICK S \in SUBSET PostIds : S = {p}
  OBVIOUS
<1>2. cache' = [cache EXCEPT ![u] = Trimmed(@ \cup S)]
  BY <1>1 DEF AddPost
<1>3. /\ cache' \in [Users -> SUBSET PostIds]
      /\ \A v \in Users : cache'[v] \subseteq cache[v] \cup (IF v = u THEN S ELSE {})
      /\ \A v \in Users, q \in PostIds : Has(v, q) => Has(v, q)'
      /\ \A q \in S : Has(u, q)'
  BY <1>2, AddFacts
<1> QED BY <1>1, <1>3

\* A feed that is not trimmed has what is in it.
LEMMA SmallFeed ==
  ASSUME TypeOK, Len(posts) <= FeedCacheCap, NEW u \in Users, NEW p \in PostIds, Has(u, p)
  PROVE  p \in cache[u]
<1> DEFINE above == {q \in cache[u] : q > p}
<1>1. above \in SUBSET (PostIds \ {p})
  BY FeedFacts, PostFacts
<1>2. IsFiniteSet(PostIds \ {p}) /\ Cardinality(PostIds \ {p}) = Len(posts) - 1
  BY PostFacts, FS_RemoveElement
<1> HIDE DEF above
<1>3. Cardinality(above) <= Len(posts) - 1
  BY <1>1, <1>2, FS_Subset
<1>4. Cardinality(above) \in Nat
  BY <1>1, <1>2, FS_Subset, FS_CardinalityType
<1>5. ~(Cardinality(above) >= FeedCacheCap)
  BY <1>3, <1>4, PostFacts
<1> QED BY <1>5 DEF Has, above

LEMMA ApplyKeeps ==
  ASSUME ContentInv, NEW w \in Workers, NEW op \in job[w].todo, Apply(w, op)
  PROVE  ContentInv'
<1>1. /\ TypeOK /\ NoneMissing /\ OneHandEach
      /\ op \in Ops /\ op.user \in Users /\ op.post \in PostIds /\ op.kind \in {"add", "remove"}
      /\ IF op.kind = "add" THEN Allowed(op.user, op.post)
                            ELSE ~Never("deletes") \/ ~Never("unfollows")
  BY JobFacts DEF ContentInv, OpsMakeSense
<1>2. /\ job[w].phase = "apply" /\ job' = [job EXCEPT ![w].todo = @ \ {op}]
      /\ UNCHANGED <<db, inFlight, stream, attempted, settled, inOrder, reader>>
  BY DEF Apply
<1>3. \/ /\ op.kind = "add" /\ cache' = AddPost(cache, op.user, op.post)
         /\ UNCHANGED <<spoiled, used>>
      \/ /\ op.kind = "remove" /\ cache' = RemovePost(cache, op.user, op.post)
         /\ spoiled' = spoiled \cup {<<op.user, op.post>>} /\ UNCHANGED used
      \/ /\ Spend("failures") /\ UNCHANGED cache
         /\ spoiled' = spoiled \cup (IF op.kind = "add" THEN {<<op.user, op.post>>} ELSE {})
  BY DEF Apply, Spoil
<1>4. UsedOK' /\ \A k \in Kinds : Never(k)' => Never(k)
  <2>1. "failures" \in Kinds \ {"steps"}
    BY DEF Kinds
  <2> QED BY <1>1, <1>3, <2>1, SpendFacts, NoneSpent
<1>5. /\ TablesOK' /\ EventsOK' /\ ReadersOK'
      /\ EventsMakeSense' /\ ReadsMakeSense' /\ OwedToFollowers'
      /\ PostIds' = PostIds /\ Ops' = Ops /\ Job' = Job
      /\ \A u \in Users : Due(u)' = Due(u)
      /\ \A x, u, p : Brings(x, u, p)' = Brings(x, u, p)
      /\ \A u, p : Allowed(u, p)' = Allowed(u, p)
      /\ Calm' => Calm
  BY <1>2, <1>4, WorkerSame
<1>6. PICK r : r = [job[w] EXCEPT !.todo = @ \ {op}]
  OBVIOUS
<1>7. r \in Job /\ r.event = job[w].event /\ r.phase = "apply" /\ r.todo = job[w].todo \ {op}
  BY <1>1, <1>2, <1>6, JobFacts DEF Job
<1>8. job' = [job EXCEPT ![w] = r]
  BY <1>2, <1>6
<1>9. job' \in [Workers -> Job] /\ job'[w] = r /\ \A v \in Workers \ {w} : job'[v] = job[v]
  BY <1>1, <1>7, <1>8, JobMoves
<1>10. spoiled \subseteq spoiled' /\ spoiled' \subseteq Users \X PostIds
  BY <1>1, <1>3 DEF TypeOK
<1>11. /\ cache' \in [Users -> SUBSET PostIds]
       /\ \A v \in Users : cache'[v] \subseteq
            cache[v] \cup (IF v = op.user /\ op.kind = "add" THEN {op.post} ELSE {})
  <2>1. CASE op.kind = "add" /\ cache' = AddPost(cache, op.user, op.post)
    BY <1>1, <2>1, AddPostFacts
  <2>2. CASE cache' = RemovePost(cache, op.user, op.post)
    <3>1. cache \in [Users -> SUBSET PostIds] /\ cache[op.user] \ {op.post} \in SUBSET PostIds
      BY <1>1 DEF TypeOK
    <3>2. cache' = [cache EXCEPT ![op.user] = cache[op.user] \ {op.post}]
      BY <2>2 DEF RemovePost
    <3> QED BY <1>1, <3>1, <3>2
  <2>3. CASE UNCHANGED cache
    BY <1>1, <2>3 DEF TypeOK
  <2> QED BY <1>3, <2>1, <2>2, <2>3
<1>12. TypeOK'
  <2>1. JobsOK'
    BY <1>1, <1>2, <1>5, <1>9 DEF JobsOK, TypeOK
  <2>2. FeedsOK'
    BY <1>5, <1>10, <1>11 DEF FeedsOK
  <2> QED BY <1>4, <1>5, <2>1, <2>2, TypeParts, PTL
<1>13. OneHandEach'
  <2>1. \A v \in Workers : job'[v].event = job[v].event /\ job'[v].phase = job[v].phase
    BY <1>2, <1>7, <1>9
  <2>2. \A v \in Workers : job'[v].todo \subseteq job[v].todo
    BY <1>7, <1>9
  <2> QED BY <1>1, <1>2, <2>1, <2>2 DEF OneHandEach
<1>14. OpsMakeSense'
  <2>1. "deletes" \in Kinds /\ "unfollows" \in Kinds
    BY DEF Kinds
  <2>2. \A v \in Workers : job'[v].todo \subseteq job[v].todo
    BY <1>7, <1>9
  <2> QED BY <1>4, <1>5, <2>1, <2>2 DEF ContentInv, OpsMakeSense
<1>15. OnlyFollowed'
  <2> SUFFICES ASSUME NEW u \in Users,
                      NEW p \in cache'[u] \cup (IF u \in Readers THEN reader[u].page ELSE {})
               PROVE  Allowed(u, p)
    BY <1>2, <1>5 DEF OnlyFollowed
  <2>1. CASE p \in cache[u] \cup (IF u \in Readers THEN reader[u].page ELSE {})
    BY <2>1 DEF ContentInv, OnlyFollowed
  <2>2. CASE p \notin cache[u] \cup (IF u \in Readers THEN reader[u].page ELSE {})
    <3>1. u = op.user /\ op.kind = "add" /\ p = op.post
      BY <1>11, <2>2
    <3> QED BY <1>1, <3>1
  <2> QED BY <2>1, <2>2
<1>16. NoneMissing'
  <2> SUFFICES ASSUME Calm', NEW u \in Users, NEW p \in Due(u)' PROVE Served(u, p)'
    BY NoneMissingNext
  <2>1. Calm /\ p \in Due(u) /\ Served(u, p) /\ p \in PostIds
    BY <1>1, <1>5, ServedCalm, DueFacts
  <2>2. CASE <<u, p>> \in spoiled
    BY <1>10, <2>2 DEF Served
  <2>3. CASE Has(u, p)
    <3>1. CASE op.kind = "add" /\ cache' = AddPost(cache, op.user, op.post)
      <4>1. Has(u, p)'
        BY <1>1, <2>1, <2>3, <3>1, AddPostFacts
      <4> QED BY <4>1 DEF Served
    <3>2. CASE /\ op.kind = "remove" /\ cache' = RemovePost(cache, op.user, op.post)
               /\ spoiled' = spoiled \cup {<<op.user, op.post>>}
      <4>1. Len(posts) <= FeedCacheCap
        BY <1>1, <2>1, <3>2 DEF Calm
      <4>2. p \in cache[u]
        BY <1>1, <2>1, <2>3, <4>1, SmallFeed
      <4>3. CASE u = op.user /\ p = op.post
        BY <3>2, <4>3 DEF Served
      <4>4. CASE u # op.user \/ p # op.post
        <5>1. p \in cache'[u]
          BY <1>1, <3>2, <4>2, <4>4 DEF RemovePost, TypeOK
        <5> QED BY <5>1 DEF Served, Has
      <4> QED BY <4>3, <4>4
    <3>3. CASE UNCHANGED cache
      BY <2>3, <3>3 DEF Served, Has
    <3> QED BY <1>3, <3>1, <3>2, <3>3
  <2>4. CASE Coming(u, p)
    <3>1. ASSUME op = Op("add", u, p) PROVE Served(u, p)'
      <4>1. op.kind = "add" /\ op.user = u /\ op.post = p
        BY <3>1, OpFacts
      <4>2. CASE cache' = AddPost(cache, op.user, op.post)
        <5>1. Has(u, p)'
          BY <1>1, <2>1, <4>1, <4>2, AddPostFacts
        <5> QED BY <5>1 DEF Served
      <4>3. CASE spoiled' = spoiled \cup {<<op.user, op.post>>}
        BY <4>1, <4>3 DEF Served
      <4> QED BY <1>3, <4>1, <4>2, <4>3
    <3>2. \A x \in DOMAIN stream \ settled :
            /\ Brings(stream[x], u, p)
            /\ \A v \in Workers : job[v].event = x => Op("add", u, p) \in job[v].todo
            => Served(u, p)' \/ (x \notin settled' /\ (job'[w].event = x => Op("add", u, p) \in job'[w].todo))
      BY <1>2, <1>7, <1>9, <3>1
    <3> QED BY <1>2, <1>9, <2>4, <3>2, StillComing
  <2> QED BY <2>1, <2>2, <2>3, <2>4 DEF Served
<1> QED BY <1>5, <1>12, <1>13, <1>14, <1>15, <1>16 DEF ContentInv
---------------------------------------------------------------------------------
(* Crashes, expiries and reads *)

\* A step that takes events from workers, feeds away or posts into them.
LEMMA OutsideKeeps ==
  ASSUME ContentInv, UNCHANGED <<db, inFlight, stream, attempted, settled, inOrder>>,
         job' \in {job, [w \in Workers |-> NoJob]},
         reader' \in [Readers -> Read],
         cache' \in [Users -> SUBSET PostIds],
         \A u \in Users : \A p \in cache'[u] : Allowed(u, p),
         \A u \in Readers :
           /\ reader'[u].authors \subseteq {u} \cup {a \in Users : <<u, a>> \in everFollowed}
           /\ \A p \in reader'[u].posts \cup reader'[u].page : Allowed(u, p),
         \A u \in Users, p \in PostIds : Has(u, p) => <<u, p>> \in spoiled' \/ Has(u, p)',
         spoiled \subseteq spoiled', spoiled' \subseteq Users \X PostIds,
         UsedOK', \A k \in Kinds : Never(k)' => Never(k)
  PROVE  ContentInv'
<1>1. TypeOK /\ NoneMissing /\ OneHandEach
  BY DEF ContentInv
<1>2. UNCHANGED <<posts, follows, everFollowed, owed, inFlight, stream, attempted, settled, inOrder>>
  BY DEF db
<1>3. /\ TablesOK' /\ OwedToFollowers'
      /\ PostIds' = PostIds /\ Ops' = Ops /\ Event' = Event /\ Read' = Read
      /\ \A u \in Users : Due(u)' = Due(u)
      /\ \A ev, u, p : Brings(ev, u, p)' = Brings(ev, u, p)
      /\ \A u, p : Allowed(u, p)' = Allowed(u, p)
  BY SameTables
<1>4. Job' = Job
  BY <1>2, <1>3 DEF Job
<1>5. /\ job' \in [Workers -> Job]
      /\ \A w \in Workers : job'[w] = job[w] \/ job'[w] = NoJob
  BY <1>1, NoJobFacts DEF TypeOK
<1>6. TypeOK'
  <2>1. EventsOK'
    BY <1>1, <1>2, <1>3 DEF EventsOK, TypeOK
  <2>2. JobsOK'
    BY <1>1, <1>2, <1>4, <1>5 DEF JobsOK, TypeOK
  <2>3. FeedsOK' /\ ReadersOK'
    BY <1>3 DEF FeedsOK, ReadersOK
  <2> QED BY <1>3, <2>1, <2>2, <2>3, TypeParts, PTL
<1>7. Grows
  BY <1>1, <1>2, PostFacts, EventFacts DEF Grows
<1>8. EventsMakeSense'
  <2> SUFFICES ASSUME NEW x, x \in Range(inFlight) \cup Range(stream) PROVE MakesSense(x)'
    BY <1>2 DEF EventsMakeSense
  <2>1. x \in Event
    BY <1>1, EventFacts DEF Range
  <2>2. MakesSense(x)
    BY DEF ContentInv, EventsMakeSense
  <2> QED BY <1>1, <1>7, <2>1, <2>2, SenseStays
<1>9. OneHandEach'
  <2>1. CASE job' = job
    BY <1>1, <1>2, <2>1 DEF OneHandEach
  <2>2. CASE job' = [w \in Workers |-> NoJob]
    BY <1>1, <2>2, NoJobFacts DEF OneHandEach
  <2> QED BY <2>1, <2>2
<1>10. OpsMakeSense'
  <2>1. "deletes" \in Kinds /\ "unfollows" \in Kinds
    BY DEF Kinds
  <2>2. \A w \in Workers : job'[w].todo \subseteq job[w].todo
    BY <1>1, <1>5, NoJobFacts
  <2> QED BY <1>3, <2>1, <2>2 DEF ContentInv, OpsMakeSense
<1>11. ReadsMakeSense' /\ OnlyFollowed'
  BY <1>2, <1>3 DEF ReadsMakeSense, OnlyFollowed
<1>12. NoneMissing'
  <2> SUFFICES ASSUME Calm', NEW u \in Users, NEW p \in Due(u)' PROVE Served(u, p)'
    BY NoneMissingNext
  <2>1. Served(u, p) /\ p \in PostIds
    BY <1>1, <1>3, CalmBefore, ServedCalm, DueFacts
  <2>2. CASE <<u, p>> \in spoiled
    BY <2>2 DEF Served
  <2>3. CASE Has(u, p)
    BY <2>1, <2>3 DEF Served
  <2>4. ASSUME NEW i \in DOMAIN inFlight, Brings(inFlight[i], u, p) PROVE Served(u, p)'
    <3>1. \A ev : ev = inFlight[i] => Brings(ev, u, p)'
      BY <1>3, <2>4
    <3>2. Brings(inFlight[i], u, p)'
      BY <1>2, <3>1
    <3> QED BY <1>2, <3>2 DEF Served, Coming
  <2>5. ASSUME NEW e \in DOMAIN stream \ settled, Brings(stream[e], u, p),
               \A w \in Workers : job[w].event = e => Op("add", u, p) \in job[w].todo
        PROVE  Served(u, p)'
    <3>1. \A ev : ev = stream[e] => Brings(ev, u, p)'
      BY <1>3, <2>5
    <3>2. Brings(stream[e], u, p)'
      BY <1>2, <3>1
    <3>3. e # 0
      BY <1>1, EventFacts
    <3>4. \A w \in Workers : job'[w].event = e => Op("add", u, p) \in job'[w].todo
      BY <1>1, <1>5, <2>5, <3>3, NoJobFacts
    <3> QED BY <1>2, <3>2, <3>4 DEF Served, Coming
  <2> QED BY <2>1, <2>2, <2>3, <2>4, <2>5 DEF Served, Coming
<1> QED BY <1>3, <1>6, <1>8, <1>9, <1>10, <1>11, <1>12 DEF ContentInv

\* What was found before.
LEMMA FoundBefore ==
  ASSUME ContentInv
  PROVE  /\ \A u \in Users : \A p \in cache[u] : Allowed(u, p)
         /\ \A u \in Readers :
              /\ reader[u].authors \subseteq {u} \cup {a \in Users : <<u, a>> \in everFollowed}
              /\ \A p \in reader[u].posts \cup reader[u].page : Allowed(u, p)
BY DEF ContentInv, OnlyFollowed, ReadsMakeSense

LEMMA NoReadFacts ==
  ASSUME TypeOK
  PROVE  NoRead \in Read /\ NoRead.authors = {} /\ NoRead.posts = {} /\ NoRead.page = {}
BY DEF NoRead, Read

LEMMA CrashKeeps ==
  ASSUME ContentInv, Crash
  PROVE  ContentInv'
<1>1. TypeOK
  BY DEF ContentInv
<1>2. UsedOK' /\ \A k \in Kinds : Never(k)' => Never(k)
  BY <1>1, SpendFacts DEF Crash, Kinds
<1>3. /\ UNCHANGED <<db, inFlight, stream, attempted, settled, inOrder, cache, reader, spoiled>>
      /\ job' = [w \in Workers |-> NoJob]
  BY DEF Crash
<1>4. \A u \in Users, p \in PostIds : Has(u, p) => Has(u, p)'
  BY <1>3 DEF Has
<1>5. reader' \in [Readers -> Read] /\ cache' \in [Users -> SUBSET PostIds]
      /\ spoiled' \subseteq Users \X PostIds
  BY <1>1, <1>3 DEF TypeOK
<1> QED BY <1>2, <1>3, <1>4, <1>5, FoundBefore, OutsideKeeps

LEMMA ExpireKeeps ==
  ASSUME ContentInv, NEW u \in Users, ExpireCache(u)
  PROVE  ContentInv'
<1>1. TypeOK
  BY DEF ContentInv
<1>2. UsedOK' /\ \A k \in Kinds : Never(k)' => Never(k)
  BY <1>1, SpendFacts DEF ExpireCache, Kinds
<1>3. /\ UNCHANGED <<db, inFlight, stream, job, attempted, settled, inOrder>>
      /\ cache' = [cache EXCEPT ![u] = {}] /\ spoiled' = spoiled \cup ({u} \X PostIds)
      /\ reader' = [v \in Readers |-> IF v = u THEN NoRead ELSE reader[v]]
  BY DEF ExpireCache, delivery, Expire, Spoil
<1>4. reader' \in [Readers -> Read] /\ cache' \in [Users -> SUBSET PostIds]
      /\ spoiled' \subseteq Users \X PostIds
  BY <1>1, <1>3, NoReadFacts DEF TypeOK
<1>5. \A v \in Users : cache'[v] \subseteq cache[v] /\ (v # u => cache'[v] = cache[v])
  BY <1>1, <1>3 DEF TypeOK
<1>6. \A v \in Users, p \in PostIds : Has(v, p) => <<v, p>> \in spoiled' \/ Has(v, p)'
  BY <1>3, <1>5 DEF Has
<1>7. \A v \in Readers : reader'[v] = reader[v] \/ reader'[v] = NoRead
  BY <1>3
<1>8. \A v \in Readers :
        /\ reader'[v].authors \subseteq {v} \cup {a \in Users : <<v, a>> \in everFollowed}
        /\ \A p \in reader'[v].posts \cup reader'[v].page : Allowed(v, p)
  BY <1>1, <1>7, FoundBefore, NoReadFacts
<1>9. \A v \in Users : \A p \in cache'[v] : Allowed(v, p)
  BY <1>5, FoundBefore
<1> QED BY <1>2, <1>3, <1>4, <1>6, <1>8, <1>9, OutsideKeeps

\* A step of a read: what it remembers is of accounts its reader follows or
\* followed, and so is what it puts into the feed.
LEMMA ReadKeeps ==
  ASSUME ContentInv, NEW u \in Readers, UNCHANGED <<db, inFlight, stream, delivery, spoiled>>,
         NEW r \in Read, reader' = [reader EXCEPT ![u] = r],
         r.authors \subseteq {u} \cup {a \in Users : <<u, a>> \in everFollowed},
         \A p \in r.posts \cup r.page : Allowed(u, p),
         cache' \in [Users -> SUBSET PostIds],
         \A v \in Users : \A p \in cache'[v] : Allowed(v, p),
         \A v \in Users, p \in PostIds : Has(v, p) => Has(v, p)',
         UsedOK', \A k \in Kinds : Never(k)' => Never(k)
  PROVE  ContentInv'
<1>1. TypeOK
  BY DEF ContentInv
<1>2. UNCHANGED <<db, inFlight, stream, job, attempted, settled, inOrder, spoiled>>
  BY DEF delivery
<1>3. reader' \in [Readers -> Read] /\ spoiled' \subseteq Users \X PostIds
  BY <1>1, <1>2 DEF TypeOK
<1>4. \A v \in Readers : reader'[v] = IF v = u THEN r ELSE reader[v]
  BY <1>1 DEF TypeOK
<1>5. \A v \in Readers :
        /\ reader'[v].authors \subseteq {v} \cup {a \in Users : <<v, a>> \in everFollowed}
        /\ \A p \in reader'[v].posts \cup reader'[v].page : Allowed(v, p)
  BY <1>4, FoundBefore
<1> QED BY <1>2, <1>3, <1>5, OutsideKeeps

\* A step of a read that touches no feed.
LEMMA ReadOnlyKeeps ==
  ASSUME ContentInv, NEW u \in Readers, NEW from, NEW r \in Read, ReaderStep(u, from, r),
         UNCHANGED cache,
         r.authors \subseteq {u} \cup {a \in Users : <<u, a>> \in everFollowed},
         \A p \in r.posts \cup r.page : Allowed(u, p),
         UsedOK', \A k \in Kinds : Never(k)' => Never(k)
  PROVE  ContentInv'
<1>1. UNCHANGED <<db, inFlight, stream, delivery, spoiled>> /\ reader' = [reader EXCEPT ![u] = r]
  BY DEF ReaderStep
<1>2. cache' \in [Users -> SUBSET PostIds]
  BY DEF ContentInv, TypeOK
<1>3. \A v \in Users : \A p \in cache'[v] : Allowed(v, p)
  BY FoundBefore
<1>4. \A v \in Users, p \in PostIds : Has(v, p) => Has(v, p)'
  BY DEF Has
<1> QED BY <1>1, <1>2, <1>3, <1>4, ReadKeeps

LEMMA ReadRecord ==
  ASSUME TypeOK, NEW u \in Readers
  PROVE  /\ reader[u] \in Read
         /\ reader[u] = [step |-> reader[u].step, authors |-> reader[u].authors,
                         posts |-> reader[u].posts, cursor |-> reader[u].cursor,
                         page |-> reader[u].page, answered |-> reader[u].answered]
BY DEF TypeOK, Read

LEMMA StartReadKeeps ==
  ASSUME ContentInv, NEW u \in Readers, StartRead(u)
  PROVE  ContentInv'
<1>1. TypeOK
  BY DEF ContentInv
<1>2. UsedOK' /\ \A k \in Kinds : Never(k)' => Never(k)
  BY <1>1, SpendFacts DEF StartRead, Kinds
<1>3. PICK cursor \in {0, reader[u].cursor} :
        ReaderStep(u, "idle", [NoRead EXCEPT !.step = "exists", !.cursor = cursor])
  BY DEF StartRead
<1>4. PICK r : r = [NoRead EXCEPT !.step = "exists", !.cursor = cursor]
  OBVIOUS
<1>5. r \in Read /\ r.authors = {} /\ r.posts = {} /\ r.page = {}
  <2>1. cursor \in Nat
    BY <1>1, ReadFacts
  <2>2. r = [step |-> "exists", authors |-> {}, posts |-> {}, cursor |-> cursor, page |-> {},
             answered |-> FALSE]
    BY <1>4 DEF NoRead
  <2> QED BY <2>1, <2>2 DEF Read
<1>6. ReaderStep(u, "idle", r) /\ UNCHANGED cache
  BY <1>3, <1>4 DEF StartRead
<1> QED BY <1>2, <1>5, <1>6, ReadOnlyKeeps

LEMMA ReadFailsKeeps ==
  ASSUME ContentInv, NEW u \in Readers, ReadFails(u)
  PROVE  ContentInv'
<1>1. TypeOK
  BY DEF ContentInv
<1>2. UsedOK' /\ (\A k \in Kinds : Never(k)' => Never(k)) /\ UNCHANGED cache
  BY <1>1, SpendFacts DEF ReadFails, Kinds
<1>3. PICK from, r :
        /\ ReaderStep(u, from, r)
        /\ \/ r = [reader[u] EXCEPT !.step = "followees"]
           \/ r = [reader[u] EXCEPT !.step = "fetch", !.authors = {}, !.posts = {}]
           \/ r = NoRead
  BY DEF ReadFails
<1>4. r \in Read /\ r.authors \subseteq reader[u].authors /\ r.posts \subseteq reader[u].posts
      /\ r.page \subseteq reader[u].page
  <2>1. CASE r = [reader[u] EXCEPT !.step = "followees"]
    BY <1>1, <2>1, ReadFacts DEF Read
  <2>2. CASE r = [reader[u] EXCEPT !.step = "fetch", !.authors = {}, !.posts = {}]
    BY <1>1, <2>2, ReadFacts DEF Read
  <2>3. CASE r = NoRead
    BY <1>1, <2>3, NoReadFacts
  <2> QED BY <1>3, <2>1, <2>2, <2>3
<1>5. /\ r.authors \subseteq {u} \cup {a \in Users : <<u, a>> \in everFollowed}
      /\ \A p \in r.posts \cup r.page : Allowed(u, p)
  BY <1>4, FoundBefore
<1> QED BY <1>2, <1>3, <1>4, <1>5, ReadOnlyKeeps

LEMMA CheckExistsKeeps ==
  ASSUME ContentInv, NEW u \in Readers, CheckExists(u)
  PROVE  ContentInv'
<1>1. TypeOK
  BY DEF ContentInv
<1>2. UsedOK' /\ \A k \in Kinds : Never(k)' => Never(k)
  BY <1>1, NoneSpent DEF CheckExists
<1>3. PICK step \in {"fetch", "followees"} :
        ReaderStep(u, "exists", [reader[u] EXCEPT !.step = step])
  BY DEF CheckExists
<1>4. PICK r : r = [reader[u] EXCEPT !.step = step]
  OBVIOUS
<1>5. r \in Read /\ r.authors = reader[u].authors /\ r.posts = reader[u].posts
      /\ r.page = reader[u].page
  BY <1>1, <1>4, ReadFacts DEF Read
<1>6. ReaderStep(u, "exists", r) /\ UNCHANGED cache
  BY <1>3, <1>4 DEF CheckExists
<1>7. /\ r.authors \subseteq {u} \cup {a \in Users : <<u, a>> \in everFollowed}
      /\ \A p \in r.posts \cup r.page : Allowed(u, p)
  BY <1>5, FoundBefore
<1> QED BY <1>2, <1>5, <1>6, <1>7, ReadOnlyKeeps

LEMMA WarmFolloweesKeeps ==
  ASSUME ContentInv, NEW u \in Readers, WarmFollowees(u)
  PROVE  ContentInv'
<1>1. TypeOK /\ u \in Users
  BY DEF ContentInv
<1>2. UsedOK' /\ \A k \in Kinds : Never(k)' => Never(k)
  BY <1>1, NoneSpent DEF WarmFollowees
<1>3. PICK r : r = [reader[u] EXCEPT !.step = "posts", !.authors = GetFolloweeIDs(u) \cup {u}]
  OBVIOUS
<1>4. r \in Read /\ r.authors = GetFolloweeIDs(u) \cup {u} /\ r.posts = reader[u].posts
      /\ r.page = reader[u].page
  <2>1. GetFolloweeIDs(u) \cup {u} \subseteq Users
    BY <1>1 DEF GetFolloweeIDs
  <2> QED BY <1>1, <1>3, <2>1, ReadFacts DEF Read
<1>5. ReaderStep(u, "followees", r) /\ UNCHANGED cache
  BY <1>3 DEF WarmFollowees
<1>6. r.authors \subseteq {u} \cup {a \in Users : <<u, a>> \in everFollowed}
  BY <1>1, <1>4 DEF GetFolloweeIDs, TypeOK
<1>7. \A p \in r.posts \cup r.page : Allowed(u, p)
  BY <1>4, FoundBefore
<1> QED BY <1>2, <1>4, <1>5, <1>6, <1>7, ReadOnlyKeeps

LEMMA WarmPostsKeeps ==
  ASSUME ContentInv, NEW u \in Readers, WarmPosts(u)
  PROVE  ContentInv'
<1>1. TypeOK /\ u \in Users
  BY DEF ContentInv
<1>2. UsedOK' /\ \A k \in Kinds : Never(k)' => Never(k)
  BY <1>1, NoneSpent DEF WarmPosts
<1>3. PICK r : r = [reader[u] EXCEPT !.step = "warm", !.authors = {},
                      !.posts = GetFeedPostIDs(reader[u].authors, CacheWarmLimit)]
  OBVIOUS
<1>4. \A p \in GetFeedPostIDs(reader[u].authors, CacheWarmLimit) :
        p \in PostIds /\ posts[p].author \in reader[u].authors
  BY DEF GetFeedPostIDs, Newest, LiveBy
<1>5. r \in Read /\ r.authors = {} /\ r.page = reader[u].page
      /\ r.posts = GetFeedPostIDs(reader[u].authors, CacheWarmLimit)
  <2>1. GetFeedPostIDs(reader[u].authors, CacheWarmLimit) \subseteq PostIds
    BY <1>4
  <2> QED BY <1>1, <1>3, <2>1, ReadFacts DEF Read
<1>6. ReaderStep(u, "posts", r) /\ UNCHANGED cache
  BY <1>3 DEF WarmPosts
<1>7. \A p \in r.posts : Allowed(u, p)
  BY <1>4, <1>5, FoundBefore DEF Allowed
<1>8. \A p \in r.posts \cup r.page : Allowed(u, p)
  BY <1>5, <1>7, FoundBefore
<1> QED BY <1>2, <1>5, <1>6, <1>8, ReadOnlyKeeps

LEMMA WarmKeeps ==
  ASSUME ContentInv, NEW u \in Readers, Warm(u)
  PROVE  ContentInv'
<1>1. TypeOK /\ u \in Users
  BY DEF ContentInv
<1>2. UsedOK' /\ \A k \in Kinds : Never(k)' => Never(k)
  BY <1>1, NoneSpent DEF Warm
<1>3. PICK r : r = [reader[u] EXCEPT !.step = "fetch", !.posts = {}]
  OBVIOUS
<1>4. r \in Read /\ r.authors = reader[u].authors /\ r.posts = {} /\ r.page = reader[u].page
  BY <1>1, <1>3, ReadFacts DEF Read
<1>5. /\ UNCHANGED <<db, inFlight, stream, delivery, spoiled>>
      /\ reader' = [reader EXCEPT ![u] = r]
      /\ cache' = WarmCache(cache, u, reader[u].posts)
  BY <1>3 DEF Warm, ReaderStep
<1>6. /\ r.authors \subseteq {u} \cup {a \in Users : <<u, a>> \in everFollowed}
      /\ \A p \in r.posts \cup r.page : Allowed(u, p)
  BY <1>4, FoundBefore
<1>7. /\ cache' \in [Users -> SUBSET PostIds]
      /\ \A v \in Users : cache'[v] \subseteq cache[v] \cup (IF v = u THEN reader[u].posts ELSE {})
      /\ \A v \in Users, p \in PostIds : Has(v, p) => Has(v, p)'
  <2>1. PICK S \in SUBSET PostIds : S = reader[u].posts
    BY <1>1, ReadFacts
  <2>2. CASE S = {}
    <3>1. cache' = cache
      BY <1>5, <2>1, <2>2 DEF WarmCache
    <3> QED BY <1>1, <3>1 DEF TypeOK, Has
  <2>3. CASE S # {}
    <3>1. cache' = [cache EXCEPT ![u] = Trimmed(@ \cup S)]
      BY <1>5, <2>1, <2>3 DEF WarmCache
    <3>2. /\ cache' \in [Users -> SUBSET PostIds]
          /\ \A v \in Users : cache'[v] \subseteq cache[v] \cup (IF v = u THEN S ELSE {})
          /\ \A v \in Users, p \in PostIds : Has(v, p) => Has(v, p)'
      BY <1>1, <3>1, AddFacts
    <3> QED BY <2>1, <3>2
  <2> QED BY <2>2, <2>3
<1>8. \A v \in Users : \A p \in cache'[v] : Allowed(v, p)
  BY <1>7, FoundBefore
<1> QED BY <1>2, <1>4, <1>5, <1>6, <1>7, <1>8, ReadKeeps

LEMMA FetchKeeps ==
  ASSUME ContentInv, NEW u \in Readers, Fetch(u)
  PROVE  ContentInv'
<1> DEFINE page == GetFeed(cache, u, reader[u].cursor, PageLimit)
<1>1. TypeOK /\ u \in Users
  BY DEF ContentInv
<1>2. UsedOK' /\ (\A k \in Kinds : Never(k)' => Never(k)) /\ UNCHANGED cache
  BY <1>1, NoneSpent DEF Fetch
<1>3. page \subseteq cache[u]
  BY DEF GetFeed, Newest
<1>4. page \subseteq PostIds /\ \A p \in page : Allowed(u, p)
  BY <1>1, <1>3, FoundBefore, FeedFacts
<1>5. PICK r : /\ ReaderStep(u, "fetch", r)
               /\ \/ r = [NoRead EXCEPT !.answered = TRUE]
                  \/ r = [reader[u] EXCEPT !.step = "hydrate", !.page = page]
  BY DEF Fetch
<1> HIDE DEF page
<1>6. CASE r = [NoRead EXCEPT !.answered = TRUE]
  <2>1. r \in Read /\ r.authors = {} /\ r.posts = {} /\ r.page = {}
    BY <1>6 DEF NoRead, Read
  <2> QED BY <1>2, <1>5, <2>1, ReadOnlyKeeps
<1>7. CASE r = [reader[u] EXCEPT !.step = "hydrate", !.page = page]
  <2>1. r \in Read /\ r.authors = reader[u].authors /\ r.posts = reader[u].posts /\ r.page = page
    BY <1>1, <1>4, <1>7, ReadFacts DEF Read
  <2>2. /\ r.authors \subseteq {u} \cup {a \in Users : <<u, a>> \in everFollowed}
        /\ \A p \in r.posts \cup r.page : Allowed(u, p)
    BY <1>4, <2>1, FoundBefore
  <2> QED BY <1>2, <1>5, <2>1, <2>2, ReadOnlyKeeps
<1> QED BY <1>5, <1>6, <1>7

LEMMA HydrateKeeps ==
  ASSUME ContentInv, NEW u \in Readers, Hydrate(u)
  PROVE  ContentInv'
<1> DEFINE shown == {p \in reader[u].page : posts[p].live}
           next == IF Cardinality(shown) = PageLimit THEN Min(reader[u].page) ELSE 0
<1>1. TypeOK /\ u \in Users
  BY DEF ContentInv
<1>2. UsedOK' /\ (\A k \in Kinds : Never(k)' => Never(k)) /\ UNCHANGED cache
  BY <1>1, NoneSpent DEF Hydrate
<1>3. reader[u].page \in SUBSET PostIds /\ shown \subseteq reader[u].page
  BY <1>1, ReadFacts
<1>4. next \in Nat
  <2>1. CASE Cardinality(shown) = PageLimit
    <3>1. Cardinality(shown) # 0
      BY <2>1
    <3>2. shown # {}
      BY <3>1, FS_EmptySet
    <3>3. reader[u].page # {} /\ IsFiniteSet(reader[u].page) /\ reader[u].page \in SUBSET Int
      <4>1. IsFiniteSet(PostIds) /\ PostIds \subseteq Int
        BY <1>1, PostFacts
      <4>2. IsFiniteSet(reader[u].page)
        BY <1>3, <4>1, FS_Subset
      <4> QED BY <1>3, <3>2, <4>1, <4>2
    <3>4. Min(reader[u].page) \in PostIds
      BY <1>3, <3>3, LeastMember
    <3> QED BY <1>1, <2>1, <3>4, PostFacts
  <2>2. CASE Cardinality(shown) # PageLimit
    BY <2>2
  <2> QED BY <2>1, <2>2
<1>5. PICK r : r = [reader[u] EXCEPT !.step = "idle", !.answered = TRUE, !.page = shown,
                                     !.cursor = next]
  OBVIOUS
<1>6. ReaderStep(u, "hydrate", r)
  BY <1>5 DEF Hydrate
<1> HIDE DEF shown, next
<1>7. r \in Read /\ r.authors = reader[u].authors /\ r.posts = reader[u].posts /\ r.page = shown
  BY <1>1, <1>3, <1>4, <1>5, ReadFacts DEF Read
<1>8. /\ r.authors \subseteq {u} \cup {a \in Users : <<u, a>> \in everFollowed}
      /\ \A p \in r.posts \cup r.page : Allowed(u, p)
  BY <1>3, <1>7, FoundBefore
<1> QED BY <1>2, <1>6, <1>7, <1>8, ReadOnlyKeeps
---------------------------------------------------------------------------------
(* The invariant *)

LEMMA InitInv == Init => ContentInv
<1> SUFFICES ASSUME Init PROVE ContentInv
  OBVIOUS
<1>1. /\ posts = <<>> /\ follows = InitFollows /\ everFollowed = InitFollows /\ owed = {}
      /\ inFlight = <<>> /\ stream = <<>>
      /\ job = [w \in Workers |-> NoJob] /\ attempted = {} /\ settled = {}
      /\ inOrder = TRUE /\ spoiled = {}
      /\ cache = [u \in Users |-> {}] /\ reader = [u \in Readers |-> NoRead]
      /\ used = [k \in Kinds |-> 0]
  BY DEF Init
<1>2. PostIds = {} /\ Len(stream) = 0
  BY <1>1, EmptySeq DEF PostIds
<1>3. posts \in Seq(Post) /\ inFlight \in Seq(Event) /\ stream \in Seq(Event)
  BY <1>1, EmptySeq
<1>4. NoJob \in Job /\ NoJob.event = 0 /\ NoJob.phase = "idle" /\ NoJob.todo = {}
  BY <1>2 DEF NoJob, Job
<1>5. NoRead \in Read /\ NoRead.authors = {} /\ NoRead.posts = {} /\ NoRead.page = {}
  BY DEF NoRead, Read
<1>6. TypeOK
  <2>1. TablesOK /\ EventsOK
    BY <1>1, <1>3 DEF TablesOK, EventsOK
  <2>2. JobsOK
    BY <1>1, <1>4 DEF JobsOK
  <2>3. FeedsOK /\ ReadersOK
    BY <1>1, <1>5 DEF FeedsOK, ReadersOK
  <2>4. UsedOK
    BY <1>1 DEF UsedOK
  <2> QED BY <2>1, <2>2, <2>3, <2>4, TypeParts
<1>7. EventsMakeSense
  BY <1>1 DEF EventsMakeSense, Range
<1>8. OneHandEach /\ OpsMakeSense
  BY <1>1, <1>4 DEF OneHandEach, OpsMakeSense
<1>9. ReadsMakeSense /\ OnlyFollowed
  BY <1>1, <1>5 DEF ReadsMakeSense, OnlyFollowed
<1>10. OwedToFollowers
  BY <1>1, <1>2 DEF OwedToFollowers
<1>11. NoneMissing
  BY <1>2 DEF NoneMissing, Due, LiveBy
<1> QED BY <1>6, <1>7, <1>8, <1>9, <1>10, <1>11 DEF ContentInv

LEMMA NextInv == ContentInv /\ [Next]_vars => ContentInv'
<1> SUFFICES ASSUME ContentInv, [Next]_vars PROVE ContentInv'
  OBVIOUS
<1>1. CASE \E a \in Users : CreatePost(a)
  BY <1>1, CreatePostKeeps
<1>2. CASE \E p \in PostIds : DeletePost(p)
  BY <1>2, DeletePostKeeps
<1>3. CASE \E u, a \in Users : Follow(u, a) \/ Unfollow(u, a)
  BY <1>3, FollowKeeps, UnfollowKeeps
<1>4. CASE \E i \in DOMAIN inFlight : Publish(i) \/ PublishAgain(i) \/ LosePublish(i)
  BY <1>4, PublishesKeep
<1>5. CASE \E w \in Workers : \/ \E e \in DOMAIN stream : Attempt(w, e)
                              \/ \E op \in job[w].todo : Apply(w, op)
                              \/ Return(w) \/ Ack(w)
  BY <1>5, AttemptKeeps, ApplyKeeps, ReturnKeeps, AckKeeps
<1>6. CASE Crash \/ \E u \in Users : ExpireCache(u)
  BY <1>6, CrashKeeps, ExpireKeeps
<1>7. CASE \E u \in Readers : \/ StartRead(u) \/ CheckExists(u)
                              \/ WarmFollowees(u) \/ WarmPosts(u) \/ Warm(u)
                              \/ Fetch(u) \/ Hydrate(u) \/ ReadFails(u)
  BY <1>7, StartReadKeeps, CheckExistsKeeps, WarmFolloweesKeeps, WarmPostsKeeps, WarmKeeps,
     FetchKeeps, HydrateKeeps, ReadFailsKeeps
<1>8. CASE UNCHANGED vars
  <2>1. /\ UNCHANGED <<db, inFlight, stream, attempted, settled, inOrder>>
        /\ UNCHANGED <<job, cache, reader, spoiled, used>>
    BY <1>8 DEF vars, db
  <2>2. TypeOK
    BY DEF ContentInv
  <2>3. UsedOK' /\ \A k \in Kinds : Never(k)' => Never(k)
    BY <2>1, <2>2, NoneSpent
  <2>4. reader' \in [Readers -> Read] /\ cache' \in [Users -> SUBSET PostIds]
        /\ spoiled' \subseteq Users \X PostIds
    BY <2>1, <2>2 DEF TypeOK
  <2>5. \A u \in Users, p \in PostIds : Has(u, p) => Has(u, p)'
    BY <2>1 DEF Has
  <2> QED BY <2>1, <2>3, <2>4, <2>5, FoundBefore, OutsideKeeps
<1> QED BY <1>1, <1>2, <1>3, <1>4, <1>5, <1>6, <1>7, <1>8 DEF Next

\* What is said of the content of the feeds holds at every step.
THEOREM ContentInvariant == Spec => []ContentInv
BY InitInv, NextInv, PTL DEF Spec

\* Every variable keeps its type.
THEOREM TypeCorrect == Spec => []TypeOK
<1>1. ContentInv => TypeOK
  BY DEF ContentInv
<1> QED BY <1>1, ContentInvariant, PTL

\* No interleaving of handlers, warm-ups and reads puts a post into a feed, or on
\* a page, of somebody its owner never followed.
THEOREM NobodyElse == Spec => []OnlyFollowed
<1>1. ContentInv => OnlyFollowed
  BY DEF ContentInv
<1> QED BY <1>1, ContentInvariant, PTL

\* When nothing is on its way, what belongs in a feed is there.
LEMMA QuietServes == ContentInv => NothingMissed
<1> SUFFICES ASSUME ContentInv, Quiet, Calm, NEW u \in Users, NEW p \in Due(u)
             PROVE  <<u, p>> \in spoiled \/ Has(u, p)
  BY DEF NothingMissed
<1>1. <<u, p>> \in spoiled \/ Has(u, p) \/ Coming(u, p)
  BY DEF ContentInv, NoneMissing
<1>2. DOMAIN inFlight = {} /\ DOMAIN stream \ settled = {}
  <2>1. inFlight = <<>> /\ settled = 1 .. Len(stream)
    BY DEF Quiet
  <2>2. DOMAIN stream = 1 .. Len(stream)
    BY EventFacts DEF ContentInv
  <2> QED BY <2>1, <2>2
<1>3. ~Coming(u, p)
  BY <1>2 DEF Coming
<1> QED BY <1>1, <1>3

\* Between the fan-out of a new post and the backfill of a new follow no post
\* falls through, whatever the order and repetition of their events and the
\* crashes of the workers; what fails costs its own adds.
THEOREM NothingFallsThrough == Spec => []NothingMissed
BY QuietServes, ContentInvariant, PTL

---------------------------------------------------------------------------------
(* The contract of the event stream *)

\* What each worker has in hand, and the workers inside a handler.
Hands == [w \in Workers |-> job[w].event]
Busy == {w \in Workers : job[w].phase = "apply"}

\* What one worker's step does to them.
LEMMA HandMoves ==
  ASSUME NEW w \in Workers, \A v \in Workers \ {w} : job'[v] = job[v]
  PROVE  /\ Hands' = [Hands EXCEPT ![w] = job'[w].event]
         /\ Busy' = IF job'[w].phase = "apply" THEN Busy \cup {w} ELSE Busy \ {w}
<1>1. Hands' = [Hands EXCEPT ![w] = job'[w].event]
  BY DEF Hands
<1>2. Busy' = IF job'[w].phase = "apply" THEN Busy \cup {w} ELSE Busy \ {w}
  BY DEF Busy
<1> QED BY <1>1, <1>2

\* A step that leaves every worker's hand, and whether it is inside a handler,
\* as it was does nothing to the contract.
LEMMA HandStays ==
  ASSUME NEW w \in Workers, \A v \in Workers \ {w} : job'[v] = job[v],
         job'[w].event = job[w].event, (job'[w].phase = "apply") <=> (job[w].phase = "apply")
  PROVE  UNCHANGED <<Hands, Busy>>
<1>1. Hands' = Hands
  BY DEF Hands
<1>2. Busy' = Busy
  BY DEF Busy
<1> QED BY <1>1, <1>2

LEMMA ContractStep == ContentInv /\ [Next]_vars => [Delivery!DNext]_(Delivery!dvars)
<1> SUFFICES ASSUME ContentInv, [Next]_vars PROVE [Delivery!DNext]_(Delivery!dvars)
  OBVIOUS
<1> USE DEF ContentInv
<1>0. ASSUME UNCHANGED <<stream, delivery>> PROVE UNCHANGED Delivery!dvars
  BY <1>0 DEF delivery, Delivery!dvars
<1>1. CASE \/ \E a \in Users : CreatePost(a)
           \/ \E p \in PostIds : DeletePost(p)
           \/ \E u, a \in Users : Follow(u, a) \/ Unfollow(u, a)
  <2>1. UNCHANGED <<stream, delivery>>
    BY <1>1 DEF CreatePost, DeletePost, Follow, Unfollow, Commit
  <2> QED BY <1>0, <2>1
<1>2. ASSUME NEW i \in DOMAIN inFlight, Publish(i) \/ PublishAgain(i) \/ LosePublish(i)
      PROVE  [Delivery!DNext]_(Delivery!dvars)
  <2>1. UNCHANGED delivery /\ stream' \in {stream, Append(stream, inFlight[i])}
    BY <1>2 DEF Publish, PublishAgain, LosePublish
  <2>2. CASE stream' = stream
    BY <1>0, <2>1, <2>2
  <2>3. CASE stream' = Append(stream, inFlight[i])
    <3>1. Len(stream') = Len(stream) + 1
      BY <2>3, EventFacts, AppendFacts DEF TypeOK
    <3>2. Delivery!Append
      BY <2>1, <3>1 DEF delivery, Delivery!Append
    <3> QED BY <3>2 DEF Delivery!DNext
  <2> QED BY <2>1, <2>2, <2>3
<1>3. ASSUME NEW w \in Workers, NEW e \in DOMAIN stream, Attempt(w, e)
      PROVE  [Delivery!DNext]_(Delivery!dvars)
  <2>1. /\ job[w] = NoJob /\ e \notin settled /\ e \notin Taken
        /\ attempted' = attempted \cup {e} /\ UNCHANGED <<stream, settled>>
    BY <1>3 DEF Attempt, MayTake
  <2>2. PICK todo : job' = [job EXCEPT ![w] = [event |-> e, phase |-> "apply", todo |-> todo]]
    BY <1>3 DEF Attempt
  <2>3. /\ job'[w].event = e /\ job'[w].phase = "apply"
        /\ \A v \in Workers \ {w} : job'[v] = job[v]
    BY <2>2 DEF TypeOK
  <2>4. Hands' = [Hands EXCEPT ![w] = e] /\ Busy' = Busy \cup {w}
    BY <2>3, HandMoves
  <2>5. Delivery!MayAttempt(w, e)
    BY <2>1 DEF NoJob, Taken, Delivery!MayAttempt
  <2>6. Delivery!Attempt(w, e) /\ e \in 1 .. Len(stream)
    BY <2>1, <2>4, <2>5, EventFacts DEF Delivery!Attempt, Hands, Busy
  <2> QED BY <2>6 DEF Delivery!DNext
<1>4. ASSUME NEW w \in Workers, NEW op \in job[w].todo, Apply(w, op)
      PROVE  [Delivery!DNext]_(Delivery!dvars)
  <2>1. /\ job[w].phase = "apply" /\ job' = [job EXCEPT ![w].todo = @ \ {op}]
        /\ UNCHANGED <<stream, attempted, settled>>
    BY <1>4 DEF Apply
  <2>2. /\ job'[w].phase = "apply" /\ job'[w].event = job[w].event
        /\ \A v \in Workers \ {w} : job'[v] = job[v]
    BY <2>1, JobFacts DEF TypeOK, Job
  <2>3. UNCHANGED <<Hands, Busy>>
    BY <2>1, <2>2, HandStays
  <2> QED BY <2>1, <2>3 DEF Delivery!dvars, Hands, Busy
<1>5. ASSUME NEW w \in Workers, Return(w) PROVE [Delivery!DNext]_(Delivery!dvars)
  <2>1. /\ job[w].phase = "apply" /\ job' = [job EXCEPT ![w].phase = "ack"]
        /\ UNCHANGED <<stream, attempted, settled>>
    BY <1>5 DEF Return
  <2>2. /\ job'[w].phase = "ack" /\ job'[w].event = job[w].event
        /\ \A v \in Workers \ {w} : job'[v] = job[v]
    BY <2>1, JobFacts DEF TypeOK, Job
  <2>3. w \in Busy /\ Busy' = Busy \ {w} /\ Hands' = Hands
    BY <2>1, <2>2, HandMoves DEF Busy, Hands
  <2>4. Delivery!Return(w)
    BY <2>1, <2>3 DEF Delivery!Return, Hands, Busy
  <2> QED BY <2>4 DEF Delivery!DNext
<1>6. ASSUME NEW w \in Workers, Ack(w) PROVE [Delivery!DNext]_(Delivery!dvars)
  <2>1. /\ job[w].phase = "ack" /\ job' = [job EXCEPT ![w] = NoJob]
        /\ settled' \in {settled, settled \cup {job[w].event}}
        /\ UNCHANGED <<stream, attempted>>
    BY <1>6 DEF Ack
  <2>2. /\ job'[w].phase = "idle" /\ job'[w].event = 0
        /\ \A v \in Workers \ {w} : job'[v] = job[v]
    BY <2>1 DEF TypeOK, NoJob
  <2>3. w \notin Busy /\ Busy' = Busy \ {w} /\ Hands' = [Hands EXCEPT ![w] = 0]
    BY <2>1, <2>2, HandMoves DEF Busy
  <2>4. Delivery!MaySettle(w)
    BY <2>1, <2>3 DEF OneHandEach, Delivery!MaySettle, Busy
  <2>5. CASE settled' = settled
    <3>1. Delivery!Leave(w)
      BY <2>1, <2>3, <2>4, <2>5 DEF Delivery!Leave, Hands, Busy
    <3> QED BY <3>1 DEF Delivery!DNext
  <2>6. CASE settled' = settled \cup {job[w].event}
    <3>1. Delivery!Settle(w)
      BY <2>1, <2>3, <2>4, <2>6 DEF Delivery!Settle, Hands, Busy
    <3> QED BY <3>1 DEF Delivery!DNext
  <2> QED BY <2>1, <2>5, <2>6
<1>7. CASE Crash
  <2>1. /\ \A w \in Workers : job'[w].phase = "idle" /\ job'[w].event = 0
        /\ UNCHANGED <<stream, attempted, settled>>
    BY <1>7 DEF Crash, NoJob
  <2>2. Hands' = Delivery!Nobody /\ Busy' = {}
    BY <2>1 DEF Hands, Busy, Delivery!Nobody
  <2>3. Delivery!AbortAll
    BY <2>1, <2>2 DEF Delivery!AbortAll, Hands, Busy
  <2> QED BY <2>3 DEF Delivery!DNext
<1>8. CASE \/ \E u \in Users : ExpireCache(u)
           \/ \E u \in Readers : \/ StartRead(u) \/ CheckExists(u)
                                 \/ WarmFollowees(u) \/ WarmPosts(u) \/ Warm(u)
                                 \/ Fetch(u) \/ Hydrate(u) \/ ReadFails(u)
  <2>1. UNCHANGED <<stream, delivery>>
    BY <1>8 DEF ExpireCache, StartRead, CheckExists, WarmFollowees, WarmPosts, Warm, Fetch,
                Hydrate, ReadFails, ReaderStep
  <2> QED BY <1>0, <2>1
<1>9. CASE UNCHANGED vars
  BY <1>0, <1>9 DEF vars, delivery
<1> QED BY <1>1, <1>2, <1>3, <1>4, <1>5, <1>6, <1>7, <1>8, <1>9 DEF Next

\* A worker with empty hands is idle, so whatever event the contract may hand it,
\* it takes: the model restricts deliveries by the contract and nothing else.
THEOREM WorkersTakeAll == Spec => []TakesWhatItMay
<1>1. ContentInv => TakesWhatItMay
  <2> SUFFICES ASSUME ContentInv, NEW w \in Workers, NEW e \in DOMAIN stream,
                      Delivery!MayAttempt(w, e)
               PROVE  MayTake(w, e)
    BY DEF TakesWhatItMay
  <2>1. /\ job[w].event = 0 /\ e \notin settled
        /\ \A v \in Workers : job[v].event # e
    BY DEF Delivery!MayAttempt
  <2>2. job[w] = NoJob
    <3>1. job[w] \in Job /\ job[w].phase = "idle" /\ job[w].todo = {}
      BY <2>1 DEF ContentInv, TypeOK, OneHandEach
    <3> QED BY <2>1, <3>1 DEF Job, NoJob
  <2> QED BY <2>1, <2>2 DEF MayTake, Taken
<1> QED BY <1>1, ContentInvariant, PTL

\* The workers of this module keep to the contract of the event stream: no
\* event is in two hands, none is settled in a hand or handed out once settled;
\* and they take whatever it may hand them.
THEOREM WorkersKeepContract == Spec => DeliveryContract
<1>1. Init => Delivery!DInit
  <2> SUFFICES ASSUME Init PROVE Delivery!DInit
    OBVIOUS
  <2>1. Len(stream) = 0 /\ attempted = {} /\ settled = {}
    BY EmptySeq DEF Init
  <2>2. Hands = Delivery!Nobody /\ Busy = {}
    BY DEF Init, Hands, Busy, NoJob, Delivery!Nobody
  <2> QED BY <2>1, <2>2 DEF Delivery!DInit, Hands, Busy
<1>2. ContentInv /\ [Next]_vars => [Delivery!DNext]_(Delivery!dvars)
  BY ContractStep
<1> QED BY ContentInvariant, WorkersTakeAll, <1>1, <1>2, PTL DEF Spec, DeliveryContract, Delivery!DSpec

---------------------------------------------------------------------------------
(* Unfollows in order *)

\* Whoever publishes an event has no other before its publication.
LEMMA OneAtATime ==
  ASSUME TypeOK, InFlight <= 1, NEW ev, Commit(ev)
  PROVE  \A i \in DOMAIN inFlight : inFlight[i].user # ev.user
<1> DEFINE his == {i \in DOMAIN inFlight : inFlight[i].user = ev.user}
<1>1. IsFiniteSet(his) /\ Cardinality(his) \in Nat
  <2>1. Len(inFlight) \in Int /\ 1 \in Int /\ DOMAIN inFlight = 1 .. Len(inFlight)
    BY EventFacts
  <2>2. IsFiniteSet(DOMAIN inFlight)
    BY <2>1, FS_Interval
  <2>3. his \in SUBSET DOMAIN inFlight
    OBVIOUS
  <2> HIDE DEF his
  <2> QED BY <2>2, <2>3, FS_Subset, FS_CardinalityType
<1>2. Cardinality(his) < InFlight
  BY DEF Commit
<1> HIDE DEF his
<1>3. his = {}
  BY <1>1, <1>2, FS_EmptySet
<1> QED BY <1>3 DEF his

LEMMA UndisturbedBefore ==
  ASSUME \A k \in Kinds : Never(k)' => Never(k), inOrder' => inOrder, Undisturbed'
  PROVE  Undisturbed
BY DEF Undisturbed, Kinds

\* The invariant for one pair of accounts.
Leaves(u, a) ==
  /\ \A i \in DOMAIN inFlight : ~IsFollow(inFlight[i], u, a)
  /\ \A e \in DOMAIN stream \ settled : IsFollow(stream[e], u, a) => UnfollowAfter(e, u, a)
  /\ \A w \in Workers : \A op \in job[w].todo :
       op.kind = "add" /\ op.user = u /\ posts[op.post].author = a
         => UnfollowAfter(job[w].event, u, a)
  /\ \A p \in cache[u] : posts[p].author = a /\ Recent(p, RemoveLimit) => Going(u, p)

InTurn == \A w \in Workers : job[w].event # 0 => 1 .. job[w].event - 1 \subseteq settled

AllLive == \A p \in PostIds : posts[p].live

NoReads == \A u \in Readers : reader[u].step = "idle"

AllLeave == \A u, a \in Users : u # a /\ <<u, a>> \notin follows => Leaves(u, a)

LEMMA InOrderParts ==
  InOrderInv <=> (Undisturbed => InTurn /\ AllLive /\ NoReads /\ AllLeave)
BY Zenon DEF InOrderInv, LeavesInOrder, Leaves, InTurn, AllLive, NoReads, AllLeave

\* Once disturbed, whatever happens.
LEMMA InOrderNext ==
  ASSUME Undisturbed' => InTurn' /\ AllLive' /\ NoReads' /\ AllLeave'
  PROVE  InOrderInv'
BY InOrderParts, PTL

\* An unfollow that is still to come stays so while nothing is acknowledged.
LEMMA AfterStays ==
  ASSUME NEW e, NEW u, NEW a, UnfollowAfter(e, u, a),
         \A i \in DOMAIN inFlight : \E j \in DOMAIN inFlight' : inFlight'[j] = inFlight[i],
         UNCHANGED <<stream, settled>>
  PROVE  UnfollowAfter(e, u, a)'
BY DEF UnfollowAfter

LEMMA GoingStays ==
  ASSUME NEW u, NEW p, Going(u, p), posts'[p].author = posts[p].author,
         \A i \in DOMAIN inFlight : \E j \in DOMAIN inFlight' : inFlight'[j] = inFlight[i],
         UNCHANGED <<stream, settled, job>>
  PROVE  Going(u, p)'
<1>1. CASE \E i \in DOMAIN inFlight : IsUnfollow(inFlight[i], u, posts[p].author)
  <2>1. PICK i \in DOMAIN inFlight : IsUnfollow(inFlight[i], u, posts[p].author)
    BY <1>1
  <2>2. PICK j \in DOMAIN inFlight' : inFlight'[j] = inFlight[i]
    OBVIOUS
  <2>3. IsUnfollow(inFlight'[j], u, posts'[p].author)
    BY <2>1, <2>2
  <2> QED BY <2>3 DEF Going
<1>2. CASE ~\E i \in DOMAIN inFlight : IsUnfollow(inFlight[i], u, posts[p].author)
  BY <1>2 DEF Going
<1> QED BY <1>1, <1>2

LEMMA RequestInOrder ==
  ASSUME ContentInv, InOrderInv, Grows, NEW ev, inFlight' = Append(inFlight, ev),
         UNCHANGED <<stream, delivery, cache, reader>>,
         AllLive => AllLive',
         \A u, a \in Users : u # a /\ <<u, a>> \notin follows' =>
           \/ <<u, a>> \notin follows /\ ~IsFollow(ev, u, a)
           \/ IsUnfollow(ev, u, a) /\ \A i \in DOMAIN inFlight : ~IsFollow(inFlight[i], u, a)
  PROVE  InOrderInv'
<1> SUFFICES ASSUME Undisturbed' PROVE InTurn' /\ AllLive' /\ NoReads' /\ AllLeave'
  BY InOrderNext
<1>1. TypeOK
  BY DEF ContentInv
<1>2. UNCHANGED <<stream, job, attempted, settled, inOrder, cache, reader>>
  BY DEF delivery
<1>3. Undisturbed
  BY <1>2, UndisturbedBefore DEF Grows
<1>4. InTurn /\ AllLive /\ NoReads /\ AllLeave
  BY <1>3, InOrderParts
<1>5. /\ \A i \in DOMAIN inFlight : \E j \in DOMAIN inFlight' : inFlight'[j] = inFlight[i]
      /\ \E j \in DOMAIN inFlight' : inFlight'[j] = ev
  BY <1>1, RequestAppends
<1>6. InTurn' /\ NoReads'
  BY <1>2, <1>4 DEF InTurn, NoReads
<1>7. ASSUME NEW u \in Users, NEW a \in Users, u # a, <<u, a>> \notin follows'
      PROVE  Leaves(u, a)'
  <2>1. \A i \in DOMAIN inFlight' : \/ inFlight'[i] = ev
                                    \/ \E j \in DOMAIN inFlight : inFlight'[i] = inFlight[j]
    <3>1. inFlight \in Seq(Event \cup {ev})
      BY <1>1, SeqMonotonic DEF TypeOK
    <3>2. /\ DOMAIN Append(inFlight, ev) = 1 .. Len(inFlight) + 1
          /\ \A i \in DOMAIN inFlight : Append(inFlight, ev)[i] = inFlight[i]
          /\ Append(inFlight, ev)[Len(inFlight) + 1] = ev
      BY <3>1, AppendFacts
    <3>3. DOMAIN inFlight = 1 .. Len(inFlight) /\ Len(inFlight) \in Nat
      BY <1>1, EventFacts
    <3>4. \A i \in DOMAIN inFlight' : i = Len(inFlight) + 1 \/ i \in DOMAIN inFlight
      BY <3>2, <3>3
    <3> QED BY <3>2, <3>4
  <2>2. CASE IsUnfollow(ev, u, a) /\ \A i \in DOMAIN inFlight : ~IsFollow(inFlight[i], u, a)
    <3>1. \A i \in DOMAIN inFlight' : ~IsFollow(inFlight'[i], u, a)
      BY <2>1, <2>2 DEF IsFollow, IsUnfollow
    <3>2. \E j \in DOMAIN inFlight' : IsUnfollow(inFlight'[j], u, a)
      BY <1>5, <2>2
    <3>3. \A e : UnfollowAfter(e, u, a)'
      BY <3>2 DEF UnfollowAfter
    <3>4. \A p : posts'[p].author = a => Going(u, p)'
      BY <3>2 DEF Going
    <3>5. \A w \in Workers : UnfollowAfter(job[w].event, u, a)'
      <4> SUFFICES ASSUME NEW w \in Workers, NEW e, e = job'[w].event PROVE UnfollowAfter(e, u, a)'
        BY <1>2
      <4> QED BY <3>3
    <3> QED BY <1>2, <3>1, <3>3, <3>4, <3>5 DEF Leaves
  <2>3. CASE <<u, a>> \notin follows /\ ~IsFollow(ev, u, a)
    <3>1. Leaves(u, a)
      BY <1>4, <1>7, <2>3 DEF AllLeave
    <3>2. \A i \in DOMAIN inFlight' : ~IsFollow(inFlight'[i], u, a)
      BY <2>1, <2>3, <3>1 DEF Leaves
    <3>3. \A e : UnfollowAfter(e, u, a) => UnfollowAfter(e, u, a)'
      BY <1>2, <1>5, AfterStays
    <3>4. \A e \in DOMAIN stream \ settled : IsFollow(stream[e], u, a) => UnfollowAfter(e, u, a)'
      BY <3>1, <3>3 DEF Leaves
    <3>5. \A w \in Workers : \A op \in job[w].todo :
            op.kind = "add" /\ op.user = u /\ posts'[op.post].author = a
              => UnfollowAfter(job[w].event, u, a)'
      <4> SUFFICES ASSUME NEW w \in Workers, NEW op \in job[w].todo, NEW e, e = job'[w].event,
                          op.kind = "add" /\ op.user = u /\ posts'[op.post].author = a
                   PROVE  UnfollowAfter(e, u, a)'
        BY <1>2
      <4>1. posts'[op.post].author = posts[op.post].author
        BY <1>1, JobFacts DEF Grows
      <4>2. UnfollowAfter(e, u, a)
        BY <1>2, <3>1, <4>1 DEF Leaves
      <4> QED BY <3>3, <4>2
    <3>6. \A p \in cache[u] : posts'[p].author = a /\ Recent(p, RemoveLimit)' => Going(u, p)'
      <4> SUFFICES ASSUME NEW p \in cache[u], posts'[p].author = a, Recent(p, RemoveLimit)'
                   PROVE  Going(u, p)'
        OBVIOUS
      <4>1. p \in PostIds
        BY <1>1, FeedFacts
      <4>2. posts'[p].author = posts[p].author
        BY <4>1 DEF Grows
      <4>3. Recent(p, RemoveLimit)
        BY <1>1, <4>1, RecentBefore
      <4>4. Going(u, p)
        BY <3>1, <4>2, <4>3 DEF Leaves
      <4> QED BY <1>2, <1>5, <4>2, <4>4, GoingStays
    <3> QED BY <1>2, <3>2, <3>4, <3>5, <3>6 DEF Leaves
  <2> QED BY <1>7, <2>2, <2>3
<1> QED BY <1>4, <1>6, <1>7 DEF AllLeave

LEMMA Disturbs ==
  ASSUME ~Undisturbed'
  PROVE  InOrderInv'
BY InOrderNext

LEMMA CreatePostInOrder ==
  ASSUME ContentInv, InOrderInv, NEW b \in Users, CreatePost(b)
  PROVE  InOrderInv'
<1>1. PICK n : n = Len(posts) + 1
  OBVIOUS
<1> DEFINE row == [author |-> b, live |-> TRUE]
           ev == PostEvent("post_created", n, b)
<1>2. /\ posts' = Append(posts, row) /\ inFlight' = Append(inFlight, ev)
      /\ UNCHANGED <<stream, delivery, cache, reader, follows>>
  BY <1>1 DEF CreatePost, InsertPost, Commit
<1>3. Grows /\ TypeOK
  BY CreatePostKeeps DEF ContentInv
<1>4. AllLive => AllLive'
  <2>1. posts \in Seq(Post) /\ row \in Post /\ row.live
    BY <1>3 DEF TypeOK, Post
  <2> HIDE DEF row
  <2>2. /\ Len(posts') = n /\ posts'[n] = row /\ \A p \in PostIds : posts'[p] = posts[p]
    BY <1>1, <1>2, <2>1, AppendProperties DEF PostIds
  <2>3. \A p \in PostIds' : p \in PostIds \/ p = n
    BY <1>1, <1>3, <2>2, PostFacts DEF PostIds
  <2> QED BY <2>1, <2>2, <2>3 DEF AllLive
<1>5. ev.type = "post_created"
  BY DEF PostEvent
<1> HIDE DEF ev
<1>6. \A u, a : ~IsFollow(ev, u, a)
  BY <1>5 DEF IsFollow
<1> QED BY <1>2, <1>3, <1>4, <1>6, RequestInOrder

LEMMA FollowInOrder ==
  ASSUME ContentInv, InOrderInv, NEW v \in Users, NEW b \in Users, Follow(v, b)
  PROVE  InOrderInv'
<1> DEFINE ev == FollowEvent("user_followed", v, b)
<1>1. /\ inFlight' = Append(inFlight, ev) /\ follows' = follows \cup {<<v, b>>}
      /\ UNCHANGED <<stream, delivery, cache, reader, posts>>
  BY DEF Follow, Commit
<1>2. Grows
  BY FollowKeeps
<1>3. AllLive => AllLive'
  BY <1>1 DEF AllLive, PostIds
<1>4. \A u, a \in Users : <<u, a>> \notin follows' => <<u, a>> \notin follows /\ ~IsFollow(ev, u, a)
  BY <1>1 DEF IsFollow, FollowEvent
<1> HIDE DEF ev
<1> QED BY <1>1, <1>2, <1>3, <1>4, RequestInOrder

LEMMA UnfollowInOrder ==
  ASSUME ContentInv, InOrderInv, Undisturbed', NEW v \in Users, NEW b \in Users, Unfollow(v, b)
  PROVE  InOrderInv'
<1> DEFINE ev == FollowEvent("user_unfollowed", v, b)
<1>1. /\ inFlight' = Append(inFlight, ev) /\ follows' = follows \ {<<v, b>>}
      /\ UNCHANGED <<stream, delivery, cache, reader, posts>>
      /\ Commit(ev)
  BY DEF Unfollow, Commit
<1>2. Grows /\ TypeOK
  BY UnfollowKeeps DEF ContentInv
<1>3. AllLive => AllLive'
  BY <1>1 DEF AllLive, PostIds
<1>4. ev.user = v /\ ev.type = "user_unfollowed" /\ ev.follower = v /\ ev.followee = b
  BY DEF FollowEvent
<1> HIDE DEF ev
<1>5. \A i \in DOMAIN inFlight : inFlight[i].user # v
  BY <1>1, <1>2, <1>4, OneAtATime DEF Undisturbed
<1>6. \A i \in DOMAIN inFlight : ~IsFollow(inFlight[i], v, b)
  <2> SUFFICES ASSUME NEW i \in DOMAIN inFlight, IsFollow(inFlight[i], v, b) PROVE FALSE
    OBVIOUS
  <2>1. MakesSense(inFlight[i])
    BY DEF ContentInv, EventsMakeSense, Range
  <2>2. inFlight[i].user = v
    BY <2>1 DEF MakesSense, IsFollow
  <2> QED BY <1>5, <2>2
<1>7. \A u, a \in Users : u # a /\ <<u, a>> \notin follows' =>
        \/ <<u, a>> \notin follows /\ ~IsFollow(ev, u, a)
        \/ IsUnfollow(ev, u, a) /\ \A i \in DOMAIN inFlight : ~IsFollow(inFlight[i], u, a)
  <2> SUFFICES ASSUME NEW u \in Users, NEW a \in Users, <<u, a>> \notin follows'
               PROVE  \/ <<u, a>> \notin follows /\ ~IsFollow(ev, u, a)
                      \/ /\ IsUnfollow(ev, u, a)
                         /\ \A i \in DOMAIN inFlight : ~IsFollow(inFlight[i], u, a)
    OBVIOUS
  <2>1. CASE u = v /\ a = b
    BY <1>4, <1>6, <2>1 DEF IsUnfollow
  <2>2. CASE ~(u = v /\ a = b)
    BY <1>1, <1>4, <2>2 DEF IsFollow
  <2> QED BY <2>1, <2>2
<1> QED BY <1>1, <1>2, <1>3, <1>7, RequestInOrder

LEMMA PublishInOrder ==
  ASSUME ContentInv, InOrderInv, NEW i \in DOMAIN inFlight, Publish(i)
  PROVE  InOrderInv'
<1> SUFFICES ASSUME Undisturbed' PROVE InTurn' /\ AllLive' /\ NoReads' /\ AllLeave'
  BY InOrderNext
<1> DEFINE ev == inFlight[i]
           n == Len(stream) + 1
<1>1. TypeOK
  BY DEF ContentInv
<1>2. /\ stream' = Append(stream, ev) /\ inFlight' = RemoveAt(inFlight, i)
      /\ UNCHANGED <<posts, follows, job, attempted, settled, inOrder, cache, reader, used>>
  BY DEF Publish, db, delivery
<1>3. InTurn /\ AllLive /\ NoReads /\ AllLeave
  <2>1. Undisturbed
    BY <1>2 DEF Undisturbed, Never
  <2> QED BY <2>1, InOrderParts
<1>4. /\ \A j \in DOMAIN inFlight' : \E k \in DOMAIN inFlight : inFlight'[j] = inFlight[k]
      /\ \A k \in DOMAIN inFlight \ {i} : \E j \in DOMAIN inFlight' : inFlight'[j] = inFlight[k]
  <2>1. inFlight \in Seq(Event)
    BY <1>1 DEF TypeOK
  <2>2. PICK rest : rest = RemoveAt(inFlight, i)
    OBVIOUS
  <2>3. /\ \A j \in DOMAIN rest : \E k \in DOMAIN inFlight : rest[j] = inFlight[k]
        /\ \A k \in DOMAIN inFlight \ {i} : \E j \in DOMAIN rest : rest[j] = inFlight[k]
    BY <2>1, <2>2, RemoveAtFacts
  <2> QED BY <1>2, <2>2, <2>3
<1>5. /\ Len(stream) \in Nat /\ DOMAIN stream = 1 .. Len(stream)
      /\ DOMAIN stream' = 1 .. Len(stream) + 1
      /\ \A e \in DOMAIN stream : stream'[e] = stream[e]
      /\ stream'[n] = ev
  <2>1. stream \in Seq(Event) /\ ev \in Event
    BY <1>1, EventFacts DEF TypeOK
  <2> HIDE DEF ev
  <2> QED BY <1>1, <1>2, <2>1, AppendFacts, EventFacts
<1>6. n \in DOMAIN stream' /\ n \notin settled /\ n \notin DOMAIN stream
      /\ \A w \in Workers : job[w].event # n /\ job[w].event < n
  BY <1>1, <1>5, NextEntry
<1> HIDE DEF n, ev
<1>7. InTurn' /\ AllLive' /\ NoReads'
  BY <1>2, <1>3 DEF InTurn, AllLive, NoReads, PostIds
<1>8. ASSUME NEW u \in Users, NEW a \in Users, u # a, <<u, a>> \notin follows'
      PROVE  Leaves(u, a)'
  <2>1. Leaves(u, a)
    BY <1>2, <1>3, <1>8 DEF AllLeave
  <2>2. ASSUME NEW k \in DOMAIN inFlight, IsUnfollow(inFlight[k], u, a)
        PROVE  (\E j \in DOMAIN inFlight' : IsUnfollow(inFlight'[j], u, a)) \/ IsUnfollow(ev, u, a)
    BY <1>4, <2>2 DEF ev
  <2>3. ASSUME NEW e, e < n, UnfollowAfter(e, u, a) PROVE UnfollowAfter(e, u, a)'
    <3>1. CASE \E k \in DOMAIN inFlight : IsUnfollow(inFlight[k], u, a)
      <4>1. CASE \E j \in DOMAIN inFlight' : IsUnfollow(inFlight'[j], u, a)
        BY <4>1 DEF UnfollowAfter
      <4>2. CASE IsUnfollow(ev, u, a)
        <5>1. n \in DOMAIN stream' \ settled' /\ n > e /\ IsUnfollow(stream'[n], u, a)
          BY <1>2, <1>5, <1>6, <2>3, <4>2
        <5> QED BY <5>1 DEF UnfollowAfter
      <4> QED BY <2>2, <3>1, <4>1, <4>2
    <3>2. CASE \E f \in DOMAIN stream \ settled : f > e /\ IsUnfollow(stream[f], u, a)
      <4>1. PICK f \in DOMAIN stream \ settled : f > e /\ IsUnfollow(stream[f], u, a)
        BY <3>2
      <4>2. f \in DOMAIN stream' \ settled' /\ IsUnfollow(stream'[f], u, a)
        BY <1>2, <1>5, <4>1
      <4> QED BY <4>1, <4>2 DEF UnfollowAfter
    <3> QED BY <2>3, <3>1, <3>2 DEF UnfollowAfter
  <2>4. \A j \in DOMAIN inFlight' : ~IsFollow(inFlight'[j], u, a)
    BY <1>4, <2>1 DEF Leaves
  <2>5. ASSUME NEW e \in DOMAIN stream' \ settled', IsFollow(stream'[e], u, a)
        PROVE  UnfollowAfter(e, u, a)'
    <3>1. ~IsFollow(ev, u, a)
      BY <2>1 DEF Leaves, ev
    <3>2. e \in DOMAIN stream \ settled /\ e < n /\ IsFollow(stream[e], u, a)
      BY <1>2, <1>5, <2>5, <3>1 DEF n
    <3>3. UnfollowAfter(e, u, a)
      BY <2>1, <3>2 DEF Leaves
    <3> QED BY <2>3, <3>2, <3>3
  <2>6. ASSUME NEW w \in Workers, NEW op \in job'[w].todo, NEW e, e = job'[w].event,
               op.kind = "add", op.user = u, posts'[op.post].author = a
        PROVE  UnfollowAfter(e, u, a)'
    <3>1. UnfollowAfter(e, u, a) /\ e < n
      BY <1>2, <1>6, <2>1, <2>6 DEF Leaves
    <3> QED BY <2>3, <3>1
  <2>7. ASSUME NEW p \in cache'[u], posts'[p].author = a, Recent(p, RemoveLimit)'
        PROVE  Going(u, p)'
    <3>1. Recent(p, RemoveLimit)
      BY <1>2, <2>7 DEF Recent, PostIds
    <3>2. Going(u, p) /\ posts[p].author = a
      BY <1>2, <2>1, <2>7, <3>1 DEF Leaves
    <3>3. CASE \E k \in DOMAIN inFlight : IsUnfollow(inFlight[k], u, a)
      <4>1. CASE \E j \in DOMAIN inFlight' : IsUnfollow(inFlight'[j], u, a)
        BY <2>7, <4>1 DEF Going
      <4>2. CASE IsUnfollow(ev, u, a)
        <5>1. /\ n \in DOMAIN stream' \ settled' /\ IsUnfollow(stream'[n], u, posts'[p].author)
              /\ \A w \in Workers : job'[w].event # n
          BY <1>2, <1>5, <1>6, <2>7, <4>2
        <5> QED BY <5>1 DEF Going
      <4> QED BY <2>2, <3>3, <4>1, <4>2
    <3>4. CASE \E e \in DOMAIN stream \ settled :
                 /\ IsUnfollow(stream[e], u, a)
                 /\ \A w \in Workers : job[w].event = e => Op("remove", u, p) \in job[w].todo
      <4>1. PICK e \in DOMAIN stream \ settled :
              /\ IsUnfollow(stream[e], u, a)
              /\ \A w \in Workers : job[w].event = e => Op("remove", u, p) \in job[w].todo
        BY <3>4
      <4>2. e \in DOMAIN stream' \ settled' /\ IsUnfollow(stream'[e], u, posts'[p].author)
        BY <1>2, <1>5, <2>7, <4>1
      <4> QED BY <1>2, <4>1, <4>2 DEF Going
    <3> QED BY <3>2, <3>3, <3>4 DEF Going
  <2>8. \A w \in Workers : \A op \in job'[w].todo :
          op.kind = "add" /\ op.user = u /\ posts'[op.post].author = a
            => UnfollowAfter(job[w].event, u, a)'
    <3> SUFFICES ASSUME NEW w \in Workers, NEW op \in job'[w].todo, NEW e, e = job'[w].event,
                        op.kind = "add" /\ op.user = u /\ posts'[op.post].author = a
                 PROVE  UnfollowAfter(e, u, a)'
      OBVIOUS
    <3> QED BY <2>6
  <2> QED BY <2>4, <2>5, <2>7, <2>8 DEF Leaves
<1> QED BY <1>7, <1>8 DEF AllLeave

LEMMA PartsBefore ==
  ASSUME InOrderInv, \A k \in Kinds : Never(k)' => Never(k), inOrder' => inOrder, Undisturbed'
  PROVE  Undisturbed /\ InTurn /\ AllLive /\ NoReads /\ AllLeave
BY UndisturbedBefore, InOrderParts

\* A step of a worker: the tables, what is in flight and the stream are as they
\* were.
LEMMA WorkerInOrder ==
  ASSUME UNCHANGED <<db, inFlight, stream, reader>>, AllLive, NoReads, AllLeave, InTurn',
         \A e \in DOMAIN stream \ settled' : e \in DOMAIN stream \ settled,
         \A u, a \in Users, e \in DOMAIN stream \ settled' :
           UnfollowAfter(e, u, a) => UnfollowAfter(e, u, a)',
         \A u, a \in Users, w \in Workers : u # a /\ <<u, a>> \notin follows =>
           \A op \in job'[w].todo, e \in {job'[w].event} :
             op.kind = "add" /\ op.user = u /\ posts[op.post].author = a => UnfollowAfter(e, u, a)',
         \A u, a \in Users : u # a /\ <<u, a>> \notin follows =>
           \A p \in cache'[u] : posts[p].author = a /\ Recent(p, RemoveLimit) => Going(u, p)'
  PROVE  InTurn' /\ AllLive' /\ NoReads' /\ AllLeave'
<1>1. UNCHANGED <<posts, follows, inFlight, stream, reader>>
  BY DEF db
<1>2. AllLive' /\ NoReads'
  BY <1>1 DEF AllLive, NoReads, PostIds
<1>3. ASSUME NEW u \in Users, NEW a \in Users, u # a, <<u, a>> \notin follows'
      PROVE  Leaves(u, a)'
  <2>1. Leaves(u, a)
    BY <1>1, <1>3 DEF AllLeave
  <2>2. \A i \in DOMAIN inFlight' : ~IsFollow(inFlight'[i], u, a)
    BY <1>1, <2>1 DEF Leaves
  <2>3. ASSUME NEW e \in DOMAIN stream' \ settled', IsFollow(stream'[e], u, a)
        PROVE  UnfollowAfter(e, u, a)'
    <3>1. e \in DOMAIN stream \ settled' /\ IsFollow(stream[e], u, a)
      BY <1>1, <2>3
    <3>2. UnfollowAfter(e, u, a)
      BY <2>1, <3>1 DEF Leaves
    <3> QED BY <3>1, <3>2
  <2>4. \A w \in Workers : \A op \in job'[w].todo :
          op.kind = "add" /\ op.user = u /\ posts'[op.post].author = a
            => UnfollowAfter(job[w].event, u, a)'
    <3> SUFFICES ASSUME NEW w \in Workers, NEW op \in job'[w].todo, NEW e, e = job'[w].event,
                        op.kind = "add" /\ op.user = u /\ posts'[op.post].author = a
                 PROVE  UnfollowAfter(e, u, a)'
      OBVIOUS
    <3> QED BY <1>1, <1>3
  <2>5. \A p \in cache'[u] : posts'[p].author = a /\ Recent(p, RemoveLimit)' => Going(u, p)'
    <3> SUFFICES ASSUME NEW p \in cache'[u], posts'[p].author = a, Recent(p, RemoveLimit)'
                 PROVE  Going(u, p)'
      OBVIOUS
    <3>1. Recent(p, RemoveLimit)
      BY <1>1 DEF Recent, PostIds
    <3> QED BY <1>1, <1>3, <3>1
  <2> QED BY <2>2, <2>3, <2>4, <2>5 DEF Leaves
<1> QED BY <1>2, <1>3 DEF AllLeave

\* What a handler adds of an account that is not followed is the backfill of
\* its follow.
LEMMA StrangersAdded ==
  ASSUME ContentInv, NEW ev \in Event, MakesSense(ev), NEW op \in HandleEvent(ev), op.kind = "add",
         NEW u \in Users, NEW a \in Users, u # a, <<u, a>> \notin follows,
         op.user = u, posts[op.post].author = a
  PROVE  IsFollow(ev, u, a)
<1>1. TypeOK
  BY DEF ContentInv
<1>2. CASE ev.type = "post_created"
  <2>1. ev.author = posts[ev.post].author
    BY <1>2 DEF MakesSense
  <2>2. PICK x \in GetFollowerIDs(ev.author) \cup {ev.author} : op = Op("add", x, ev.post)
    BY <1>2 DEF HandleEvent, handlePostCreated
  <2>3. x = u /\ ev.author = a
    BY <2>1, <2>2, OpFacts
  <2> QED BY <2>2, <2>3 DEF GetFollowerIDs
<1>3. CASE ev.type = "post_deleted"
  <2>1. PICK x \in GetFollowerIDs(ev.author) \cup {ev.author} : op = Op("remove", x, ev.post)
    BY <1>3 DEF HandleEvent, handlePostDeleted
  <2> QED BY <2>1, OpFacts
<1>4. CASE ev.type = "user_followed"
  <2>1. PICK p \in GetRecentPostsByUser(ev.followee, BackfillLimit) : op = Op("add", ev.follower, p)
    BY <1>4 DEF HandleEvent, handleUserFollowed
  <2>2. ev.follower = u /\ ev.followee = a
    BY <2>1, OpFacts, RecentPosts
  <2> QED BY <1>4, <2>2 DEF IsFollow
<1>5. CASE ev.type = "user_unfollowed"
  <2>1. PICK p \in GetRecentPostsByUser(ev.followee, RemoveLimit) : op = Op("remove", ev.follower, p)
    BY <1>5 DEF HandleEvent, handleUserUnfollowed
  <2> QED BY <2>1, OpFacts
<1> QED BY <1>1, <1>2, <1>3, <1>4, <1>5, EventKinds

LEMMA AttemptInOrder ==
  ASSUME ContentInv, InOrderInv, NEW w \in Workers, NEW e \in DOMAIN stream, Attempt(w, e)
  PROVE  InOrderInv'
<1> SUFFICES ASSUME Undisturbed' PROVE InTurn' /\ AllLive' /\ NoReads' /\ AllLeave'
  BY InOrderNext
<1>1. TypeOK /\ stream[e] \in Event /\ MakesSense(stream[e])
  BY EventFacts DEF ContentInv, EventsMakeSense, Range
<1>2. /\ job[w] = NoJob /\ e \notin settled
      /\ inOrder' = (inOrder /\ 1 .. e - 1 \subseteq settled)
      /\ UNCHANGED <<db, inFlight, stream, settled, cache, reader>>
  BY DEF Attempt, MayTake
<1>3. PICK todo \in {HandleEvent(stream[e]), {}} :
        /\ job' = [job EXCEPT ![w] = [event |-> e, phase |-> "apply", todo |-> todo]]
        /\ \/ todo = HandleEvent(stream[e]) /\ UNCHANGED <<spoiled, used>>
           \/ todo # HandleEvent(stream[e]) /\ Spend("failures") /\ Spoil(AddsOf(stream[e]))
  BY DEF Attempt, MayTake
<1>4. todo = HandleEvent(stream[e]) /\ used' = used
  <2>1. "failures" \in Kinds \ {"steps"}
    BY DEF Kinds
  <2>2. ~Spend("failures")
    BY <1>1, <2>1, SpendFacts DEF Undisturbed
  <2> QED BY <1>3, <2>2
<1>5. \A k \in Kinds : Never(k)' => Never(k)
  BY <1>1, <1>4, NoneSpent
<1>6. InTurn /\ AllLive /\ NoReads /\ AllLeave
  BY <1>2, <1>5, PartsBefore
<1>7. 1 .. e - 1 \subseteq settled
  BY <1>2 DEF Undisturbed
<1>8. /\ job'[w].event = e /\ job'[w].todo = HandleEvent(stream[e])
      /\ \A v \in Workers \ {w} : job'[v] = job[v]
  BY <1>1, <1>3, <1>4 DEF TypeOK
<1>9. InTurn'
  <2> SUFFICES ASSUME NEW v \in Workers, job'[v].event # 0
               PROVE  1 .. job'[v].event - 1 \subseteq settled'
    BY DEF InTurn
  <2>1. CASE v = w
    BY <1>2, <1>7, <1>8, <2>1
  <2>2. CASE v # w
    BY <1>2, <1>6, <1>8, <2>2 DEF InTurn
  <2> QED BY <2>1, <2>2
<1>10. \A x, u, a : UnfollowAfter(x, u, a) => UnfollowAfter(x, u, a)'
  BY <1>2 DEF UnfollowAfter
<1>11. ASSUME NEW u \in Users, NEW a \in Users, NEW v \in Workers, u # a, <<u, a>> \notin follows,
              NEW op \in job'[v].todo, NEW x, x = job'[v].event,
              op.kind = "add", op.user = u, posts[op.post].author = a
       PROVE  UnfollowAfter(x, u, a)'
  <2>1. Leaves(u, a)
    BY <1>6, <1>11 DEF AllLeave
  <2>2. CASE v = w
    <3>1. IsFollow(stream[e], u, a)
      BY <1>1, <1>8, <1>11, <2>2, StrangersAdded
    <3>2. UnfollowAfter(e, u, a)
      BY <1>2, <2>1, <3>1 DEF Leaves
    <3> QED BY <1>8, <1>10, <1>11, <2>2, <3>2
  <2>3. CASE v # w
    <3>1. job'[v] = job[v]
      BY <1>8, <2>3
    <3>2. UnfollowAfter(x, u, a)
      BY <1>11, <2>1, <3>1 DEF Leaves
    <3> QED BY <1>10, <3>2
  <2> QED BY <2>2, <2>3
<1>12. ASSUME NEW u \in Users, NEW a \in Users, u # a, <<u, a>> \notin follows,
              NEW p \in cache'[u], posts[p].author = a, Recent(p, RemoveLimit)
       PROVE  Going(u, p)'
  <2>1. Going(u, p) /\ p \in PostIds
    BY <1>1, <1>2, <1>6, <1>12, FeedFacts DEF AllLeave, Leaves
  <2>2. posts' = posts
    BY <1>2 DEF db
  <2>3. CASE \E i \in DOMAIN inFlight : IsUnfollow(inFlight[i], u, posts[p].author)
    BY <1>2, <2>2, <2>3 DEF Going
  <2>4. CASE \E f \in DOMAIN stream \ settled :
               /\ IsUnfollow(stream[f], u, posts[p].author)
               /\ \A v \in Workers : job[v].event = f => Op("remove", u, p) \in job[v].todo
    <3>1. PICK f \in DOMAIN stream \ settled :
            /\ IsUnfollow(stream[f], u, posts[p].author)
            /\ \A v \in Workers : job[v].event = f => Op("remove", u, p) \in job[v].todo
      BY <2>4
    <3>2. f = e => Op("remove", u, p) \in HandleEvent(stream[e])
      <4>1. ASSUME f = e PROVE p \in GetRecentPostsByUser(stream[e].followee, RemoveLimit)
        <5>1. stream[e].followee = posts[p].author
          BY <3>1, <4>1 DEF IsUnfollow
        <5> QED BY <1>1, <1>6, <1>12, <2>1, <5>1, RecentIsFound DEF AllLive
      <4> QED BY <3>1, <4>1 DEF HandleEvent, handleUserUnfollowed, IsUnfollow
    <3>3. \A v \in Workers : job'[v].event = f => Op("remove", u, p) \in job'[v].todo
      BY <1>8, <3>1, <3>2
    <3> QED BY <1>2, <2>2, <3>1, <3>3 DEF Going
  <2> QED BY <2>1, <2>3, <2>4 DEF Going
<1> QED BY <1>2, <1>6, <1>9, <1>10, <1>11, <1>12, WorkerInOrder

\* One operation: what is added was to be removed after its event, and the
\* event that removes it is in nobody's hands yet.
LEMMA ApplyInOrder ==
  ASSUME ContentInv, InOrderInv, NEW w \in Workers, NEW op \in job[w].todo, Apply(w, op)
  PROVE  InOrderInv'
<1> SUFFICES ASSUME Undisturbed' PROVE InTurn' /\ AllLive' /\ NoReads' /\ AllLeave'
  BY InOrderNext
<1>1. /\ TypeOK /\ OneHandEach
      /\ op \in Ops /\ op.user \in Users /\ op.post \in PostIds /\ op.kind \in {"add", "remove"}
  BY JobFacts DEF ContentInv
<1>2. /\ job[w].phase = "apply" /\ job' = [job EXCEPT ![w].todo = @ \ {op}]
      /\ UNCHANGED <<db, inFlight, stream, attempted, settled, inOrder, reader>>
  BY DEF Apply
<1>3. /\ used' = used
      /\ \/ op.kind = "add" /\ cache' = AddPost(cache, op.user, op.post)
         \/ op.kind = "remove" /\ cache' = RemovePost(cache, op.user, op.post)
  <2>1. "failures" \in Kinds \ {"steps"}
    BY DEF Kinds
  <2>2. ~Spend("failures")
    BY <1>1, <2>1, SpendFacts DEF Undisturbed
  <2> QED BY <2>2 DEF Apply
<1>4. InTurn /\ AllLive /\ NoReads /\ AllLeave
  BY <1>1, <1>2, <1>3, NoneSpent, PartsBefore
<1>5. /\ \A v \in Workers : job'[v].event = job[v].event
      /\ job'[w].todo = job[w].todo \ {op}
      /\ \A v \in Workers \ {w} : job'[v].todo = job[v].todo
  <2>1. PICK r : r = [job[w] EXCEPT !.todo = @ \ {op}]
    OBVIOUS
  <2>2. r \in Job /\ r.event = job[w].event /\ r.todo = job[w].todo \ {op}
    BY <1>1, <2>1, JobFacts DEF Job
  <2>3. job' = [job EXCEPT ![w] = r]
    BY <1>2, <2>1
  <2> QED BY <1>1, <2>2, <2>3, JobMoves
<1>6. InTurn'
  BY <1>2, <1>4, <1>5 DEF InTurn
<1>7. \A x, u, a : UnfollowAfter(x, u, a) => UnfollowAfter(x, u, a)'
  BY <1>2 DEF UnfollowAfter
<1>8. ASSUME NEW u \in Users, NEW a \in Users, NEW v \in Workers, u # a, <<u, a>> \notin follows,
             NEW o \in job'[v].todo, NEW x, x = job'[v].event,
             o.kind = "add", o.user = u, posts[o.post].author = a
      PROVE  UnfollowAfter(x, u, a)'
  <2>1. o \in job[v].todo /\ x = job[v].event
    BY <1>5, <1>8
  <2>2. UnfollowAfter(x, u, a)
    BY <1>4, <1>8, <2>1 DEF AllLeave, Leaves
  <2> QED BY <1>7, <2>2
<1>9. ASSUME NEW u \in Users, NEW a \in Users, u # a, <<u, a>> \notin follows,
             NEW p \in cache'[u], posts[p].author = a, Recent(p, RemoveLimit)
      PROVE  Going(u, p)'
  <2>1. posts' = posts /\ Leaves(u, a)
    BY <1>2, <1>4, <1>9 DEF db, AllLeave
  <2>2. CASE p \in cache[u]
    <3>1. Going(u, p)
      BY <1>9, <2>1, <2>2 DEF Leaves
    <3>2. op # Op("remove", u, p)
      <4>1. CASE op.kind = "remove"
        <5>1. cache' = [cache EXCEPT ![op.user] = cache[op.user] \ {op.post}]
          BY <1>3, <4>1 DEF RemovePost
        <5> QED BY <1>1, <1>9, <5>1, OpFacts DEF TypeOK
      <4> QED BY <1>1, <4>1, OpFacts
    <3>3. \A v \in Workers : Op("remove", u, p) \in job[v].todo => Op("remove", u, p) \in job'[v].todo
      BY <1>5, <3>2
    <3> QED BY <1>2, <1>5, <2>1, <3>1, <3>3 DEF Going
  <2>3. CASE p \notin cache[u]
    <3>1. op.kind = "add" /\ op.user = u /\ op.post = p
      <4>1. CASE op.kind = "add"
        BY <1>1, <1>3, <1>9, <2>3, <4>1, AddPostFacts
      <4>2. CASE op.kind = "remove"
        <5>1. cache' = [cache EXCEPT ![op.user] = cache[op.user] \ {op.post}]
          BY <1>3, <4>2 DEF RemovePost
        <5> QED BY <1>1, <1>9, <2>3, <5>1 DEF TypeOK
      <4> QED BY <1>1, <4>1, <4>2
    <3>2. PICK e : e = job[w].event
      OBVIOUS
    <3>3. UnfollowAfter(e, u, a)
      BY <1>9, <2>1, <3>1, <3>2 DEF Leaves
    <3>4. CASE \E i \in DOMAIN inFlight : IsUnfollow(inFlight[i], u, a)
      BY <1>2, <1>9, <2>1, <3>4 DEF Going
    <3>5. CASE \E f \in DOMAIN stream \ settled : f > e /\ IsUnfollow(stream[f], u, a)
      <4>1. PICK f \in DOMAIN stream \ settled : f > e /\ IsUnfollow(stream[f], u, a)
        BY <3>5
      <4>2. e \in DOMAIN stream \ settled
        BY <1>1, <1>2, <3>2, JobFacts DEF OneHandEach
      <4>3. e \in 1 .. f - 1 /\ f # 0
        BY <1>1, <4>1, <4>2, EventFacts
      <4>4. \A v \in Workers : job[v].event # f
        BY <1>4, <4>2, <4>3 DEF InTurn
      <4> QED BY <1>2, <1>5, <1>9, <2>1, <4>1, <4>4 DEF Going
    <3> QED BY <3>3, <3>4, <3>5 DEF UnfollowAfter
  <2> QED BY <2>2, <2>3
<1> QED BY <1>2, <1>4, <1>6, <1>7, <1>8, <1>9, WorkerInOrder

LEMMA ReturnInOrder ==
  ASSUME ContentInv, InOrderInv, NEW w \in Workers, Return(w)
  PROVE  InOrderInv'
<1> SUFFICES ASSUME Undisturbed' PROVE InTurn' /\ AllLive' /\ NoReads' /\ AllLeave'
  BY InOrderNext
<1>1. TypeOK
  BY DEF ContentInv
<1>2. /\ job' = [job EXCEPT ![w].phase = "ack"]
      /\ UNCHANGED <<db, inFlight, stream, attempted, settled, inOrder, cache, reader, used>>
  BY DEF Return
<1>3. InTurn /\ AllLive /\ NoReads /\ AllLeave
  BY <1>1, <1>2, NoneSpent, PartsBefore
<1>4. \A v \in Workers : job'[v].event = job[v].event /\ job'[v].todo = job[v].todo
  <2>1. PICK r : r = [job[w] EXCEPT !.phase = "ack"]
    OBVIOUS
  <2>2. r \in Job /\ r.event = job[w].event /\ r.todo = job[w].todo
    BY <1>1, <2>1, JobFacts DEF Job
  <2>3. job' = [job EXCEPT ![w] = r]
    BY <1>2, <2>1
  <2> QED BY <1>1, <2>2, <2>3, JobMoves
<1>5. InTurn'
  BY <1>2, <1>3, <1>4 DEF InTurn
<1>6. \A x, u, a : UnfollowAfter(x, u, a) => UnfollowAfter(x, u, a)'
  BY <1>2 DEF UnfollowAfter
<1>7. ASSUME NEW u \in Users, NEW a \in Users, NEW v \in Workers, u # a, <<u, a>> \notin follows,
             NEW o \in job'[v].todo, NEW x, x = job'[v].event,
             o.kind = "add", o.user = u, posts[o.post].author = a
      PROVE  UnfollowAfter(x, u, a)'
  <2>1. o \in job[v].todo /\ x = job[v].event
    BY <1>4, <1>7
  <2>2. UnfollowAfter(x, u, a)
    BY <1>3, <1>7, <2>1 DEF AllLeave, Leaves
  <2> QED BY <1>6, <2>2
<1>8. ASSUME NEW u \in Users, NEW a \in Users, u # a, <<u, a>> \notin follows,
             NEW p \in cache'[u], posts[p].author = a, Recent(p, RemoveLimit)
      PROVE  Going(u, p)'
  <2>1. Going(u, p) /\ posts' = posts
    BY <1>2, <1>3, <1>8 DEF AllLeave, Leaves, db
  <2> QED BY <1>2, <1>4, <2>1 DEF Going
<1> QED BY <1>2, <1>3, <1>5, <1>6, <1>7, <1>8, WorkerInOrder

\* An acknowledgement: whatever waits for the unfollow to come has an event of
\* its own that is not settled, and so is not behind the one acknowledged.
LEMMA AckInOrder ==
  ASSUME ContentInv, InOrderInv, NEW w \in Workers, Ack(w)
  PROVE  InOrderInv'
<1> SUFFICES ASSUME Undisturbed' PROVE InTurn' /\ AllLive' /\ NoReads' /\ AllLeave'
  BY InOrderNext
<1>1. TypeOK /\ OneHandEach
  BY DEF ContentInv
<1>2. PICK e : e = job[w].event
  OBVIOUS
<1>3. /\ job[w].phase = "ack" /\ job' = [job EXCEPT ![w] = NoJob]
      /\ UNCHANGED <<db, inFlight, stream, attempted, inOrder, cache, reader>>
  BY DEF Ack
<1>4. settled' = settled \cup {e} /\ used' = used
  <2>1. "failures" \in Kinds \ {"steps"}
    BY DEF Kinds
  <2>2. ~Spend("failures")
    BY <1>1, <2>1, SpendFacts DEF Undisturbed
  <2> QED BY <1>2, <2>2 DEF Ack
<1>5. InTurn /\ AllLive /\ NoReads /\ AllLeave
  BY <1>1, <1>3, <1>4, NoneSpent, PartsBefore
<1>6. job'[w] = NoJob /\ \A v \in Workers \ {w} : job'[v] = job[v]
  BY <1>1, <1>3, JobMoves, NoJobFacts
<1>7. e \in DOMAIN stream /\ e # 0 /\ 1 .. e - 1 \subseteq settled /\ job[w].todo = {}
  BY <1>1, <1>2, <1>3, <1>5, JobFacts DEF OneHandEach, InTurn
<1>8. InTurn'
  <2> SUFFICES ASSUME NEW v \in Workers, job'[v].event # 0
               PROVE  1 .. job'[v].event - 1 \subseteq settled'
    BY DEF InTurn
  <2>1. job'[v] = job[v]
    BY <1>1, <1>6, NoJobFacts
  <2> QED BY <1>4, <1>5, <2>1 DEF InTurn
<1>9. ASSUME NEW u, NEW a, NEW x \in DOMAIN stream \ settled, UnfollowAfter(x, u, a)
      PROVE  UnfollowAfter(x, u, a)'
  <2>1. CASE \E i \in DOMAIN inFlight : IsUnfollow(inFlight[i], u, a)
    BY <1>3, <2>1 DEF UnfollowAfter
  <2>2. CASE \E f \in DOMAIN stream \ settled : f > x /\ IsUnfollow(stream[f], u, a)
    <3>1. PICK f \in DOMAIN stream \ settled : f > x /\ IsUnfollow(stream[f], u, a)
      BY <2>2
    <3>2. x \notin 1 .. e - 1
      BY <1>7, <1>9
    <3>3. f # e
      BY <1>1, <1>7, <3>1, <3>2, EventFacts
    <3> QED BY <1>3, <1>4, <3>1, <3>3 DEF UnfollowAfter
  <2> QED BY <1>9, <2>1, <2>2 DEF UnfollowAfter
<1>10. ASSUME NEW u \in Users, NEW a \in Users, NEW v \in Workers, u # a, <<u, a>> \notin follows,
              NEW o \in job'[v].todo, NEW x, x = job'[v].event,
              o.kind = "add", o.user = u, posts[o.post].author = a
       PROVE  UnfollowAfter(x, u, a)'
  <2>1. job'[v] = job[v]
    BY <1>1, <1>6, <1>10, NoJobFacts
  <2>2. UnfollowAfter(x, u, a)
    BY <1>5, <1>10, <2>1 DEF AllLeave, Leaves
  <2>3. x \in DOMAIN stream \ settled
    BY <1>1, <1>10, <2>1, JobFacts DEF OneHandEach
  <2> QED BY <1>9, <2>2, <2>3
<1>11. ASSUME NEW u \in Users, NEW a \in Users, u # a, <<u, a>> \notin follows,
              NEW p \in cache'[u], posts[p].author = a, Recent(p, RemoveLimit)
       PROVE  Going(u, p)'
  <2>1. Going(u, p) /\ posts' = posts
    BY <1>3, <1>5, <1>11 DEF AllLeave, Leaves, db
  <2>2. CASE \E i \in DOMAIN inFlight : IsUnfollow(inFlight[i], u, posts[p].author)
    BY <1>3, <2>1, <2>2 DEF Going
  <2>3. CASE \E f \in DOMAIN stream \ settled :
               /\ IsUnfollow(stream[f], u, posts[p].author)
               /\ \A v \in Workers : job[v].event = f => Op("remove", u, p) \in job[v].todo
    <3>1. PICK f \in DOMAIN stream \ settled :
            /\ IsUnfollow(stream[f], u, posts[p].author)
            /\ \A v \in Workers : job[v].event = f => Op("remove", u, p) \in job[v].todo
      BY <2>3
    <3>2. f # e
      BY <1>2, <1>7, <3>1
    <3>3. \A v \in Workers : job'[v].event = f => Op("remove", u, p) \in job'[v].todo
      BY <1>1, <1>6, <3>1, NoJobFacts, EventFacts
    <3> QED BY <1>3, <1>4, <2>1, <3>1, <3>2, <3>3 DEF Going
  <2> QED BY <2>1, <2>2, <2>3 DEF Going
<1>12. \A x \in DOMAIN stream \ settled' : x \in DOMAIN stream \ settled
  BY <1>4
<1> QED BY <1>3, <1>5, <1>8, <1>9, <1>10, <1>11, <1>12, WorkerInOrder

LEMMA CrashInOrder ==
  ASSUME ContentInv, InOrderInv, Crash
  PROVE  InOrderInv'
<1> SUFFICES ASSUME Undisturbed' PROVE InTurn' /\ AllLive' /\ NoReads' /\ AllLeave'
  BY InOrderNext
<1>1. TypeOK
  BY DEF ContentInv
<1>2. UNCHANGED <<db, inFlight, stream, settled, inOrder, cache, reader>>
  BY DEF Crash
<1>3. \A v \in Workers : job'[v] = NoJob
  BY DEF Crash
<1>4. \A k \in Kinds : Never(k)' => Never(k)
  <2>1. "crashes" \in Kinds \ {"steps"}
    BY DEF Kinds
  <2> QED BY <1>1, <2>1, SpendFacts DEF Crash
<1>5. InTurn /\ AllLive /\ NoReads /\ AllLeave
  BY <1>2, <1>4, PartsBefore
<1>6. InTurn'
  BY <1>1, <1>3, NoJobFacts DEF InTurn
<1>7. \A x, u, a : UnfollowAfter(x, u, a) => UnfollowAfter(x, u, a)'
  BY <1>2 DEF UnfollowAfter
<1>8. \A v \in Workers : job'[v].todo = {} /\ job'[v].event = 0
  BY <1>1, <1>3, NoJobFacts
<1>9. ASSUME NEW u \in Users, NEW a \in Users, u # a, <<u, a>> \notin follows,
             NEW p \in cache'[u], posts[p].author = a, Recent(p, RemoveLimit)
      PROVE  Going(u, p)'
  <2>1. Going(u, p) /\ posts' = posts
    BY <1>2, <1>5, <1>9 DEF AllLeave, Leaves, db
  <2> QED BY <1>1, <1>2, <1>8, <2>1, EventFacts DEF Going
<1> QED BY <1>2, <1>5, <1>6, <1>7, <1>8, <1>9, WorkerInOrder

LEMMA ExpireInOrder ==
  ASSUME ContentInv, InOrderInv, NEW v \in Users, ExpireCache(v)
  PROVE  InOrderInv'
<1> SUFFICES ASSUME Undisturbed' PROVE InTurn' /\ AllLive' /\ NoReads' /\ AllLeave'
  BY InOrderNext
<1>1. TypeOK
  BY DEF ContentInv
<1>2. /\ UNCHANGED <<db, inFlight, stream, job, attempted, settled, inOrder>>
      /\ cache' = [cache EXCEPT ![v] = {}]
      /\ reader' = [u \in Readers |-> IF u = v THEN NoRead ELSE reader[u]]
  BY DEF ExpireCache, delivery, Expire
<1>3. \A k \in Kinds : Never(k)' => Never(k)
  <2>1. "expiries" \in Kinds \ {"steps"}
    BY DEF Kinds
  <2> QED BY <1>1, <2>1, SpendFacts DEF ExpireCache
<1>4. InTurn /\ AllLive /\ NoReads /\ AllLeave
  BY <1>2, <1>3, PartsBefore
<1>5. UNCHANGED <<posts, follows>>
  BY <1>2 DEF db
<1>6. InTurn' /\ AllLive' /\ NoReads'
  BY <1>2, <1>4, <1>5 DEF InTurn, AllLive, NoReads, NoRead, PostIds
<1>7. \A u \in Users : cache'[u] \subseteq cache[u]
  BY <1>1, <1>2 DEF TypeOK
<1>8. ASSUME NEW u \in Users, NEW a \in Users, Leaves(u, a) PROVE Leaves(u, a)'
  <2>1. \A x : UnfollowAfter(x, u, a) => UnfollowAfter(x, u, a)'
    BY <1>2 DEF UnfollowAfter
  <2>2. /\ \A i \in DOMAIN inFlight' : ~IsFollow(inFlight'[i], u, a)
        /\ \A e \in DOMAIN stream' \ settled' : IsFollow(stream'[e], u, a) => UnfollowAfter(e, u, a)'
    BY <1>2, <1>8, <2>1 DEF Leaves
  <2>3. \A w \in Workers : \A op \in job'[w].todo :
          op.kind = "add" /\ op.user = u /\ posts'[op.post].author = a
            => UnfollowAfter(job[w].event, u, a)'
    <3> SUFFICES ASSUME NEW w \in Workers, NEW op \in job'[w].todo, NEW e, e = job'[w].event,
                        op.kind = "add" /\ op.user = u /\ posts'[op.post].author = a
                 PROVE  UnfollowAfter(e, u, a)'
      OBVIOUS
    <3>1. UnfollowAfter(e, u, a)
      BY <1>2, <1>5, <1>8 DEF Leaves
    <3> QED BY <2>1, <3>1
  <2>4. \A p \in cache'[u] : posts'[p].author = a /\ Recent(p, RemoveLimit)' => Going(u, p)'
    <3> SUFFICES ASSUME NEW p \in cache'[u], posts'[p].author = a, Recent(p, RemoveLimit)'
                 PROVE  Going(u, p)'
      OBVIOUS
    <3>1. Recent(p, RemoveLimit) /\ p \in cache[u] /\ posts[p].author = a
      BY <1>5, <1>7 DEF Recent, PostIds
    <3>2. Going(u, p)
      BY <1>8, <3>1 DEF Leaves
    <3> QED BY <1>2, <1>5, <3>2 DEF Going
  <2> QED BY <2>2, <2>3, <2>4 DEF Leaves
<1>9. AllLeave'
  BY <1>4, <1>5, <1>8 DEF AllLeave
<1> QED BY <1>6, <1>9

LEMMA InitInOrder == Init => InOrderInv
<1> SUFFICES ASSUME Init PROVE InTurn /\ AllLive /\ NoReads /\ AllLeave
  BY InOrderParts
<1>1. /\ posts = <<>> /\ inFlight = <<>> /\ stream = <<>>
      /\ job = [w \in Workers |-> NoJob]
      /\ cache = [u \in Users |-> {}] /\ reader = [u \in Readers |-> NoRead]
  BY DEF Init
<1>2. PostIds = {}
  BY <1>1, EmptySeq DEF PostIds
<1>3. \A w \in Workers : job[w].event = 0 /\ job[w].todo = {}
  BY <1>1 DEF NoJob
<1>4. InTurn /\ AllLive
  BY <1>2, <1>3 DEF InTurn, AllLive
<1>5. NoReads
  BY <1>1 DEF NoReads, NoRead
<1>6. AllLeave
  BY <1>1, <1>3 DEF AllLeave, Leaves
<1> QED BY <1>4, <1>5, <1>6

LEMMA NextInOrder ==
  ASSUME ContentInv, InOrderInv, [Next]_vars
  PROVE  InOrderInv'
<1>0. TypeOK
  BY DEF ContentInv
<1>1. CASE \E a \in Users : CreatePost(a)
  BY <1>1, CreatePostInOrder
<1>2. CASE \E p \in PostIds : DeletePost(p)
  <2>1. "deletes" \in Kinds \ {"steps"}
    BY DEF Kinds
  <2>2. ~Never("deletes")'
    BY <1>0, <1>2, <2>1, SpendFacts DEF DeletePost
  <2> QED BY <2>2, Disturbs DEF Undisturbed
<1>3. CASE \E u, a \in Users : Follow(u, a) \/ Unfollow(u, a)
  BY <1>3, FollowInOrder, UnfollowInOrder, Disturbs
<1>4. CASE \E i \in DOMAIN inFlight : Publish(i)
  BY <1>4, PublishInOrder
<1>5. CASE \E i \in DOMAIN inFlight : PublishAgain(i) \/ LosePublish(i)
  <2>1. {"lost", "resent"} \subseteq Kinds \ {"steps"}
    BY DEF Kinds
  <2>2. ~Never("lost")' \/ ~Never("resent")'
    BY <1>0, <1>5, <2>1, SpendFacts DEF PublishAgain, LosePublish
  <2> QED BY <2>2, Disturbs DEF Undisturbed
<1>6. CASE \E w \in Workers : \/ \E e \in DOMAIN stream : Attempt(w, e)
                              \/ \E op \in job[w].todo : Apply(w, op)
                              \/ Return(w) \/ Ack(w)
  BY <1>6, AttemptInOrder, ApplyInOrder, ReturnInOrder, AckInOrder
<1>7. CASE Crash \/ \E u \in Users : ExpireCache(u)
  BY <1>7, CrashInOrder, ExpireInOrder
<1>8. CASE \E u \in Readers : StartRead(u) \/ ReadFails(u)
  <2>1. {"reads", "failures"} \subseteq Kinds \ {"steps"}
    BY DEF Kinds
  <2>2. ~Never("reads")' \/ ~Never("failures")'
    BY <1>0, <1>8, <2>1, SpendFacts DEF StartRead, ReadFails
  <2> QED BY <2>2, Disturbs DEF Undisturbed
<1>9. CASE \E u \in Readers : \/ CheckExists(u) \/ WarmFollowees(u) \/ WarmPosts(u) \/ Warm(u)
                              \/ Fetch(u) \/ Hydrate(u)
  <2>1. PICK u \in Readers : \/ CheckExists(u) \/ WarmFollowees(u) \/ WarmPosts(u) \/ Warm(u)
                             \/ Fetch(u) \/ Hydrate(u)
    BY <1>9
  <2>2. reader[u].step # "idle" /\ UNCHANGED <<delivery, used>>
    BY <2>1 DEF CheckExists, WarmFollowees, WarmPosts, Warm, Fetch, Hydrate, ReaderStep
  <2>3. ~Undisturbed
    BY <2>2, InOrderParts DEF NoReads
  <2>4. ~Undisturbed'
    BY <2>2, <2>3 DEF Undisturbed, Never, delivery
  <2> QED BY <2>4, Disturbs
<1>10. CASE UNCHANGED vars
  <2> SUFFICES ASSUME Undisturbed' PROVE InTurn' /\ AllLive' /\ NoReads' /\ AllLeave'
    BY InOrderNext
  <2>1. UNCHANGED <<db, inFlight, stream, settled, inOrder, job, cache, reader, used, posts>>
    BY <1>10 DEF vars, db
  <2>2. InTurn /\ AllLive /\ NoReads /\ AllLeave
    BY <1>0, <2>1, NoneSpent, PartsBefore
  <2>3. InTurn'
    BY <2>1, <2>2 DEF InTurn
  <2>4. \A x, u, a : UnfollowAfter(x, u, a) => UnfollowAfter(x, u, a)'
    BY <2>1 DEF UnfollowAfter
  <2>5. \A u, p : Going(u, p) => Going(u, p)'
    BY <2>1 DEF Going
  <2>6. \A u, a \in Users : u # a /\ <<u, a>> \notin follows =>
          \A p \in cache'[u] : posts[p].author = a /\ Recent(p, RemoveLimit) => Going(u, p)'
    BY <2>1, <2>2, <2>5 DEF AllLeave, Leaves
  <2>7. \A u, a \in Users, w \in Workers : u # a /\ <<u, a>> \notin follows =>
          \A op \in job'[w].todo, e \in {job'[w].event} :
            op.kind = "add" /\ op.user = u /\ posts[op.post].author = a => UnfollowAfter(e, u, a)'
    <3> SUFFICES ASSUME NEW u \in Users, NEW a \in Users, NEW w \in Workers,
                        u # a, <<u, a>> \notin follows,
                        NEW op \in job'[w].todo, NEW e, e = job'[w].event,
                        op.kind = "add" /\ op.user = u /\ posts[op.post].author = a
                 PROVE  UnfollowAfter(e, u, a)'
      OBVIOUS
    <3>1. UnfollowAfter(e, u, a)
      BY <2>1, <2>2 DEF AllLeave, Leaves
    <3> QED BY <2>4, <3>1
  <2> QED BY <2>1, <2>2, <2>3, <2>4, <2>6, <2>7, WorkerInOrder
<1> QED BY <1>1, <1>2, <1>3, <1>4, <1>5, <1>6, <1>7, <1>8, <1>9, <1>10 DEF Next

\* While users send one request at a time and events are handled in order,
\* the events of a user's follows and unfollows come in their order, and the
\* last of them decides what of an account is in his feed.
THEOREM LastWordCounts == Spec => []InOrderInv
<1>1. Init => InOrderInv
  BY InitInOrder
<1>2. ContentInv /\ InOrderInv /\ [Next]_vars => InOrderInv'
  BY NextInOrder
<1> QED BY <1>1, <1>2, ContentInvariant, PTL DEF Spec

\* The inductive invariant of the feed holds at every step.
THEOREM FeedInvariant == Spec => []FeedInv
BY ContentInvariant, LastWordCounts, PTL DEF FeedInv

\* When nothing is on its way, nothing is still to be removed.
LEMMA QuietClean == ContentInv /\ InOrderInv => UnfollowCleansInOrder
<1> SUFFICES ASSUME ContentInv, InOrderInv, Undisturbed, Quiet, NEW u \in Users, NEW p \in cache[u],
                    ~Follows(u, p), Recent(p, RemoveLimit)
             PROVE  FALSE
  BY DEF UnfollowCleansInOrder
<1>1. p \in PostIds /\ posts[p].author \in Users /\ AllLeave
  BY FeedFacts, PostFacts, InOrderParts DEF ContentInv
<1>2. u # posts[p].author /\ <<u, posts[p].author>> \notin follows
  BY <1>1 DEF Follows, GetFolloweeIDs
<1>3. Going(u, p)
  BY <1>1, <1>2 DEF AllLeave, Leaves
<1>4. DOMAIN inFlight = {} /\ DOMAIN stream \ settled = {}
  <2>1. inFlight = <<>> /\ settled = 1 .. Len(stream)
    BY DEF Quiet
  <2>2. DOMAIN stream = 1 .. Len(stream)
    BY EventFacts DEF ContentInv
  <2> QED BY <2>1, <2>2
<1> QED BY <1>3, <1>4 DEF Going

\* An unfollow leaves none of the posts of the size of its limit in the feed,
\* if nothing fails or is sent twice and the events are handled in order.
THEOREM NothingOfTheUnfollowed == Spec => []UnfollowCleansInOrder
BY LastWordCounts, ContentInvariant, QuietClean, PTL
=================================================================================
