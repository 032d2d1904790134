---------------------------- MODULE NotificationsProofs ---------------------------
(***************************************************************************)
(* Proofs about Notifications for every number of accounts, posts,         *)
(* workers, devices and disturbances, and every limit of a list.           *)
(***************************************************************************)
EXTENDS Notifications, FiniteSetTheorems, SequenceTheorems, TLAPS

USE NoUserAssumption, AuthorAssumption, BoundAssumption

---------------------------------------------------------------------------------
(* What the type invariant says, variable by variable. *)

TablesOK ==
  /\ status \in [Posts -> {"none", "live", "deleted"}]
  /\ likes \subseteq Users \X Posts /\ follows \subseteq Users \X Users
  /\ acts \in Seq(Act)
  /\ comments \subseteq {a \in DOMAIN acts : acts[a].type = "comment"}
  /\ inFlight \subseteq DOMAIN acts

EventsOK ==
  /\ stream \in Seq(DOMAIN acts) /\ job \in [Workers -> Job]
  /\ settled \subseteq attempted /\ attempted \subseteq DOMAIN stream

NotesOK ==
  /\ notes \subseteq Note /\ IsFiniteSet(notes) /\ lastId \in Nat
  /\ \A m, n \in notes : m.id = n.id => m = n
  /\ \A n \in notes : acts[n.act].type = "comment" => n.act \in comments

PhonesOK == pushes \subseteq Push /\ {owner, holder} \subseteq [Devices -> Users \cup {NoUser}]

ListsOK == lister \in [Users -> List]

UsedOK == used \in [Kinds -> Nat] /\ \A k \in Kinds : used[k] <= Bound[k]

LEMMA TypeParts ==
  TypeOK <=> TablesOK /\ EventsOK /\ NotesOK /\ PhonesOK /\ ListsOK /\ UsedOK
BY Zenon DEF TypeOK, TablesOK, EventsOK, NotesOK, PhonesOK, ListsOK, UsedOK

LEMMA ActFacts ==
  ASSUME TypeOK
  PROVE  /\ Len(acts) \in Nat /\ DOMAIN acts = 1 .. Len(acts)
         /\ \A a \in DOMAIN acts :
              /\ acts[a] \in Act /\ acts[a].type \in {"like", "comment", "follow"}
              /\ acts[a].actor \in Users /\ acts[a].user \in Users /\ acts[a].had \subseteq Posts
<1>1. Len(acts) \in Nat /\ DOMAIN acts = 1 .. Len(acts)
  BY LenProperties DEF TypeOK
<1>2. \A a \in DOMAIN acts : acts[a] \in Act
  BY <1>1, ElementOfSeq DEF TypeOK
<1> QED BY <1>1, <1>2 DEF Act

LEMMA StreamFacts ==
  ASSUME TypeOK
  PROVE  /\ Len(stream) \in Nat /\ DOMAIN stream = 1 .. Len(stream) /\ 0 \notin DOMAIN stream
         /\ \A e \in DOMAIN stream : stream[e] \in DOMAIN acts
         /\ \A w \in Workers : /\ job[w] \in Job /\ job[w].event \in {0} \cup DOMAIN stream
                               /\ job[w].phase \in Working \cup {"idle", "ack"}
<1>1. Len(stream) \in Nat /\ DOMAIN stream = 1 .. Len(stream)
  BY LenProperties DEF TypeOK
<1>2. \A e \in DOMAIN stream : stream[e] \in DOMAIN acts
  BY <1>1, ElementOfSeq DEF TypeOK
<1> QED BY <1>1, <1>2 DEF TypeOK, Job

LEMMA NoteFacts ==
  ASSUME TypeOK
  PROVE  \A n \in notes : n \in Note /\ n.id \in 1 .. lastId /\ n.act \in DOMAIN acts
BY DEF TypeOK, Note

LEMMA PushFacts ==
  ASSUME TypeOK
  PROVE  \A p \in pushes : /\ p \in Push /\ p.user \in Users /\ p.step \in {"read", "send"}
                           /\ p.devices \subseteq Devices /\ p.home \subseteq Devices
BY DEF TypeOK, Push

LEMMA ListFacts ==
  ASSUME TypeOK
  PROVE  \A u \in Users : /\ lister[u] \in List /\ lister[u].step \in {"idle", "aggregate"}
                          /\ lister[u].count \in Nat /\ lister[u].unread \subseteq 1 .. lastId
                          /\ lister[u].cut \in BOOLEAN
BY DEF TypeOK, List

---------------------------------------------------------------------------------
(* What a step must see to that each part of the invariant is kept. *)

\* Acts and events are only added.
Grows ==
  /\ Len(acts) <= Len(acts')
  /\ \A a \in DOMAIN acts : a \in DOMAIN acts' /\ acts'[a] = acts[a]
  /\ \A e \in DOMAIN stream : e \in DOMAIN stream' /\ stream'[e] = stream[e]
  /\ \A k \in Kinds : Never(k)' => Never(k)

\* A step that was counted has not never been taken, and forgets no other.
LEMMA SpendFacts ==
  ASSUME TypeOK, NEW k \in Kinds \ {"steps"}, Spend(k)
  PROVE  UsedOK' /\ (\A j \in Kinds : Never(j)' => Never(j)) /\ ~Never(k)'
<1> DEFINE n == used[k] + 1
           m == used["steps"] + Cost(k)
<1>1. used \in [Kinds -> Nat] /\ "steps" \in Kinds
  BY DEF TypeOK, Kinds
<1>2. used' = [[used EXCEPT ![k] = n] EXCEPT !["steps"] = m] /\ n <= Bound[k] /\ m <= Bound["steps"]
  BY <1>1 DEF Spend
<1>3. used'[k] = n /\ used'["steps"] = m /\ \A j \in Kinds \ {k, "steps"} : used'[j] = used[j]
  BY <1>1, <1>2
<1>4. \A j \in Kinds : used[j] \in Nat /\ Bound[j] \in Nat /\ used[j] <= Bound[j]
  BY DEF TypeOK
<1>5. n \in Nat \ {0} /\ m \in Nat \ {0}
  <2>1. Cost(k) \in {1, 2}
    BY DEF Cost
  <2> QED BY <1>1, <1>4, <2>1
<1> HIDE DEF n, m
<1>6. used' \in [Kinds -> Nat]
  BY <1>1, <1>2, <1>5
<1>7. \A j \in Kinds : used'[j] <= Bound[j]
  BY <1>2, <1>3, <1>4
<1>8. \A j \in Kinds : Never(j)' => Never(j)
  BY <1>3, <1>4, <1>5 DEF Never
<1>9. ~Never(k)'
  BY <1>3, <1>5 DEF Never
<1> QED BY <1>6, <1>7, <1>8, <1>9 DEF UsedOK

LEMMA NoneSpent ==
  ASSUME TypeOK, used' = used
  PROVE  UsedOK' /\ \A j \in Kinds : Never(j)' => Never(j)
BY DEF TypeOK, UsedOK, Never

LEMMA SameGrows ==
  ASSUME TypeOK, UNCHANGED <<acts, stream>>, \A k \in Kinds : Never(k)' => Never(k)
  PROVE  Grows
BY ActFacts DEF Grows

LEMMA EventsKeep ==
  ASSUME TypeOK, Grows, UNCHANGED <<stream, job, attempted, settled>>
  PROVE  EventsOK'
<1>1. \A e \in 1 .. Len(stream) : stream[e] \in DOMAIN acts'
  BY StreamFacts DEF Grows
<1>2. stream \in [1 .. Len(stream) -> DOMAIN acts']
  BY <1>1, StreamFacts, LenProperties DEF TypeOK
<1>3. stream \in Seq(DOMAIN acts')
  BY <1>2, StreamFacts, SeqDef
<1> QED BY <1>3 DEF TypeOK, EventsOK, Job

LEMMA NotesKeep ==
  ASSUME TypeOK, Grows, UNCHANGED <<notes, lastId>>,
         \A n \in notes : acts[n.act].type = "comment" => n.act \in comments'
  PROVE  NotesOK'
<1>1. notes' \subseteq Note'
  BY NoteFacts DEF Grows, Note
<1> QED BY <1>1, NoteFacts DEF TypeOK, NotesOK, Grows

LEMMA ListsKeep ==
  ASSUME TypeOK, lister' = lister, lastId' \in Nat, lastId <= lastId'
  PROVE  ListsOK'
<1>1. 1 .. lastId \subseteq 1 .. lastId'
  BY DEF TypeOK
<1>2. List \subseteq List'
  BY <1>1 DEF List
<1> QED BY <1>2 DEF TypeOK, ListsOK

LEMMA HandsKeep ==
  ASSUME TypeOK, OneHandEach, Grows, UNCHANGED <<job, attempted, settled>>
  PROVE  OneHandEach'
<1>1. \A w \in Workers : job[w].event # 0 => stream'[job[w].event] = stream[job[w].event]
                                             /\ stream[job[w].event] \in DOMAIN acts
  BY StreamFacts DEF Grows
<1>2. ASSUME NEW w \in Workers, job[w].phase = "backfill"
      PROVE  acts'[stream'[job[w].event]].type = "follow"
  <2>1. job[w].event # 0 /\ acts[stream[job[w].event]].type = "follow"
    BY <1>2 DEF OneHandEach, ActOf
  <2> QED BY <1>1, <2>1 DEF Grows
<1> QED BY <1>2 DEF OneHandEach, ActOf

LEMMA DevicesKeep ==
  ASSUME DevicesInStep, PushGoesHome, UNCHANGED <<owner, holder>>, pushes' \subseteq pushes
  PROVE  DevicesInStep' /\ PushGoesHome'
BY DEF DevicesInStep, PushGoesHome, HeldBy

LEMMA PostsKeep ==
  ASSUME TypeOK, PostsStay,
         \A p \in Posts : status[p] # "none" => status'[p] # "none",
         \A a \in DOMAIN acts' : \/ a \in DOMAIN acts /\ acts'[a] = acts[a]
                                 \/ \A p \in acts'[a].had : status'[p] # "none"
  PROVE  PostsStay'
BY ActFacts DEF PostsStay

LEMMA ForgottenKeep ==
  ASSUME TypeOK, NoneForgotten, Grows,
         \A a \in DOMAIN acts' \ DOMAIN acts : a \in inFlight',
         \A a \in inFlight : Never("lost")' /\ HasEvent(a) => a \in inFlight' \/ Appended(a)'
  PROVE  NoneForgotten'
<1> SUFFICES ASSUME Never("lost")', NEW a \in DOMAIN acts', HasEvent(a)', a \notin inFlight'
             PROVE  Appended(a)'
  BY DEF NoneForgotten
<1>1. a \in DOMAIN acts /\ acts'[a] = acts[a] /\ Never("lost")
  BY DEF Grows, Kinds
<1>2. HasEvent(a)
  BY <1>1 DEF HasEvent
<1>3. a \in inFlight \/ Appended(a)
  BY <1>1, <1>2 DEF NoneForgotten
<1>4. Appended(a) => Appended(a)'
  BY DEF Appended, Grows
<1> QED BY <1>2, <1>3, <1>4

\* A notification goes only with its comment, and no dead post comes back.
Tells ==
  /\ \A p \in Posts : status[p] # "none" /\ status'[p] = "live" => status[p] = "live"
  /\ comments' \cap DOMAIN acts \subseteq comments
  /\ \A n \in notes : \/ \E m \in notes' : m.act = n.act
                      \/ acts[n.act].type = "comment" /\ n.act \notin comments'

LEMMA ToldStays ==
  ASSUME TypeOK, PostsStay, Grows, Tells
  PROVE  \A a \in DOMAIN acts : Told(a) => Told(a)'
<1> SUFFICES ASSUME NEW a \in DOMAIN acts, Told(a),
                    acts'[a].type = "comment" => a \in comments',
                    acts'[a].type = "follow" =>
                      acts'[a].had \cap {p \in Posts : status'[p] = "live" /\ Author[p] = acts'[a].user} # {}
             PROVE  \E n \in notes' : n.act = a
  BY DEF Told, NotesOf, LiveBy
<1>1. acts'[a] = acts[a]
  BY DEF Grows
<1>2. acts[a].type = "comment" => a \in comments
  BY <1>1 DEF Tells
<1>3. acts[a].type = "follow" => acts[a].had \cap LiveBy(acts[a].user) # {}
  BY <1>1 DEF Tells, PostsStay, LiveBy
<1>4. PICK n \in notes : n.act = a
  BY <1>2, <1>3 DEF Told, NotesOf
<1> QED BY <1>1, <1>4 DEF Tells

LEMMA HandledKeeps ==
  ASSUME TypeOK, OneHandEach, PostsStay, HandledIsTold, Grows, Tells, UNCHANGED <<job, settled>>
  PROVE  HandledIsTold'
<1> SUFFICES ASSUME Never("failures")'
             PROVE  /\ \A e \in settled : Told(stream[e])'
                    /\ \A w \in Workers : job[w].phase = "ack" => Told(stream[job[w].event])'
  BY DEF HandledIsTold, ActOf
<1>1. Never("failures")
  BY DEF Grows, Kinds
<1>2. ASSUME NEW e \in DOMAIN stream, Told(stream[e]) PROVE Told(stream[e])'
  <2> SUFFICES ASSUME NEW a, a = stream[e] PROVE Told(stream[e])'
    OBVIOUS
  <2>1. stream'[e] = a /\ a \in DOMAIN acts
    BY StreamFacts DEF Grows
  <2>2. Told(a)
    BY <1>2
  <2>3. Told(a)'
    BY <2>1, <2>2, ToldStays
  <2> QED BY <2>1, <2>3 DEF Told, NotesOf, LiveBy
<1>3. settled \subseteq DOMAIN stream
  BY DEF TypeOK
<1>4. ASSUME NEW w \in Workers, job[w].phase = "ack"
      PROVE  job[w].event \in DOMAIN stream /\ Told(stream[job[w].event])
  BY <1>1, <1>4, StreamFacts DEF OneHandEach, HandledIsTold, ActOf
<1> QED BY <1>1, <1>2, <1>3, <1>4 DEF HandledIsTold

LEMMA EventsEachKeep ==
  ASSUME TypeOK, OneEventEach, stream' = stream, Never("resent")' => Never("resent"),
         \A a \in inFlight' : a \in inFlight \/ a \notin DOMAIN acts
  PROVE  OneEventEach'
BY StreamFacts DEF OneEventEach

\* Notifications of today were there yesterday, with their ids, or are new.
KeepIds == \A n \in notes' : n.id \in 1 .. lastId => \E m \in notes : m.id = n.id /\ m.act = n.act

LEMMA HandlersKeep ==
  ASSUME TypeOK, NotesHaveHandlers, Grows, UNCHANGED <<job, attempted, settled>>,
         KeepIds, NotesOK', lastId' = lastId
  PROVE  NotesHaveHandlers'
<1> SUFFICES ASSUME Never("crashes"), Never("failures"), Never("resent")
             PROVE  /\ \A e \in attempted \ settled : e \in Taken
                    /\ \A n \in notes' : \E e \in attempted :
                         /\ stream'[e] = n.act
                         /\ \A w \in Workers : job[w].event = e => job[w].phase = "ack"
                    /\ \A m, n \in notes' : m.act = n.act => m = n
  BY DEF NotesHaveHandlers, Grows, Kinds, Taken
<1>1. \A e \in attempted : stream'[e] = stream[e]
  BY DEF TypeOK, Grows
<1>2. \A n \in notes' : \E m \in notes : m.id = n.id /\ m.act = n.act
  BY DEF KeepIds, NotesOK, Note
<1>3. \A m, n \in notes' : m.act = n.act => m = n
  BY <1>2 DEF NotesHaveHandlers, NotesOK
<1> QED BY <1>1, <1>2, <1>3 DEF NotesHaveHandlers

LEMMA FollowIdsFinite ==
  ASSUME TypeOK, NEW u \in Users
  PROVE  IsFiniteSet({i \in lister[u].unread : i \in Ids(FollowNotes(u))})
<1>1. IsFiniteSet(1 .. lastId)
  BY FS_Interval DEF TypeOK
<1>2. {i \in lister[u].unread : i \in Ids(FollowNotes(u))} \subseteq 1 .. lastId
  BY ListFacts
<1> QED BY <1>1, <1>2, FS_Subset

LEMMA CountsKeep ==
  ASSUME TypeOK, FollowsCounted, Grows, KeepIds, lister' = lister
  PROVE  FollowsCounted'
<1> SUFFICES ASSUME NEW u \in Users, lister[u].step = "aggregate", ~lister[u].cut
             PROVE  Cardinality({i \in lister[u].unread : i \in Ids(FollowNotes(u))'})
                      <= lister[u].count
  BY DEF FollowsCounted
<1> DEFINE F == {i \in lister[u].unread : i \in Ids(FollowNotes(u))}
           G == {i \in lister[u].unread : i \in Ids(FollowNotes(u))'}
<1>1. G \subseteq F
  <2> SUFFICES ASSUME NEW n \in notes', n.id \in lister[u].unread,
                      acts'[n.act].user = u, acts'[n.act].type = "follow"
               PROVE  n.id \in Ids(FollowNotes(u))
    BY DEF Ids, FollowNotes, OfUser
  <2>1. PICK m \in notes : m.id = n.id /\ m.act = n.act
    BY ListFacts DEF KeepIds
  <2>2. acts'[n.act] = acts[m.act]
    BY <2>1, NoteFacts DEF Grows
  <2> QED BY <2>1, <2>2 DEF Ids, FollowNotes, OfUser
<1>2. IsFiniteSet(F) /\ Cardinality(F) <= lister[u].count
  BY FollowIdsFinite DEF FollowsCounted
<1>3. IsFiniteSet(G) /\ Cardinality(G) <= Cardinality(F)
  BY <1>1, <1>2, FS_Subset
<1>4. Cardinality(F) \in Nat /\ Cardinality(G) \in Nat /\ lister[u].count \in Nat
  BY <1>2, <1>3, FS_CardinalityType, ListFacts
<1> QED BY <1>2, <1>3, <1>4

LEMMA UnreadKeep ==
  ASSUME UnreadNotUnderstated, lister' = lister
  PROVE  UnreadNotUnderstated'
BY DEF UnreadNotUnderstated

\* The parts of the invariant that a step keeps if it leaves the workers, the
\* devices and the lists alone.
LEMMA RequestKeeps ==
  ASSUME NotificationsInv, Grows, Tells, KeepIds,
         UNCHANGED <<job, attempted, settled, owner, holder, pushes, lister, lastId>>,
         TablesOK', EventsOK', NotesOK', UsedOK',
         PostsStay', NoneForgotten', OneEventEach'
  PROVE  NotificationsInv'
<1> USE DEF NotificationsInv
<1>1. OneHandEach' /\ DevicesInStep' /\ PushGoesHome' /\ HandledIsTold'
  BY HandsKeep, DevicesKeep, HandledKeeps
<1>2. NotesHaveHandlers' /\ FollowsCounted' /\ UnreadNotUnderstated'
  BY HandlersKeep, CountsKeep, UnreadKeep
<1>3. PhonesOK' /\ ListsOK'
  BY TypeParts, ListsKeep DEF PhonesOK, ListsOK, List, Push
<1>4. TypeOK'
  BY <1>3, TypeParts, PTL
<1> QED BY <1>1, <1>2, <1>4

LEMMA SameNotes ==
  ASSUME notes' = notes
  PROVE  KeepIds
BY DEF KeepIds

---------------------------------------------------------------------------------
(* Requests *)

LEMMA CommitInv ==
  ASSUME NotificationsInv, NEW type \in {"like", "comment", "follow"}, NEW actor \in Users,
         NEW user \in Users, NEW post \in Posts \cup {0}, Commit(type, actor, user, post),
         likes' \subseteq Users \X Posts, follows' \subseteq Users \X Users,
         comments \subseteq comments', comments' \subseteq comments \cup {Len(acts) + 1},
         Len(acts) + 1 \in comments' => type = "comment"
  PROVE  NotificationsInv'
<1> USE DEF NotificationsInv
<1> DEFINE a == [type |-> type, actor |-> actor, user |-> user, post |-> post, had |-> LiveBy(user)]
           k == Len(acts) + 1
<1>1. /\ Spend("acts") /\ acts' = Append(acts, a) /\ inFlight' = inFlight \cup {k}
      /\ UNCHANGED <<status, delivery, notes, lastId, pushes, phone, lister>>
  BY DEF Commit
<1>2. a \in Act /\ a.had = LiveBy(user) /\ a.type = type
  BY DEF Act, LiveBy
<1> HIDE DEF a
<1>3. /\ acts' \in Seq(Act) /\ Len(acts') = k /\ k \notin DOMAIN acts /\ acts'[k] = a
      /\ DOMAIN acts' = DOMAIN acts \cup {k}
      /\ \A i \in DOMAIN acts : acts'[i] = acts[i]
  <2>1. acts' \in Seq(Act) /\ Len(acts') = k /\ \A i \in 1 .. Len(acts) : acts'[i] = acts[i]
    BY <1>1, <1>2, AppendProperties DEF TypeOK
  <2>2. DOMAIN acts' = 1 .. Len(acts') /\ acts'[k] = a
    BY <1>1, <1>2, <2>1, AppendProperties, LenProperties DEF TypeOK
  <2>3. Len(acts) \in Nat /\ DOMAIN acts = 1 .. Len(acts)
    BY ActFacts
  <2> QED BY <2>1, <2>2, <2>3
<1>4. UsedOK' /\ \A j \in Kinds : Never(j)' => Never(j)
  BY <1>1, SpendFacts DEF Kinds
<1>5. UNCHANGED <<stream, job, attempted, settled, owner, holder>>
  BY <1>1 DEF delivery, phone
<1>6. Grows
  <2>1. Len(acts) <= Len(acts')
    BY <1>3, ActFacts
  <2> QED BY <1>3, <1>4, <1>5, <2>1 DEF Grows
<1>7. KeepIds /\ Tells
  BY <1>1, <1>3 DEF KeepIds, Tells
<1>8. TablesOK'
  <2>1. comments' \subseteq {i \in DOMAIN acts' : acts'[i].type = "comment"}
    BY <1>2, <1>3 DEF TypeOK
  <2>2. inFlight' \subseteq DOMAIN acts'
    BY <1>1, <1>3 DEF TypeOK
  <2> QED BY <1>1, <1>3, <2>1, <2>2 DEF TypeOK, TablesOK
<1>9. EventsOK' /\ NotesOK'
  <2>1. \A n \in notes : acts[n.act].type = "comment" => n.act \in comments'
    BY DEF TypeOK
  <2> QED BY <1>1, <1>5, <1>6, <2>1, EventsKeep, NotesKeep
<1>10. PostsStay'
  <2>1. \A p \in acts'[k].had : status'[p] # "none"
    BY <1>1, <1>2, <1>3 DEF LiveBy
  <2> QED BY <1>1, <1>3, <2>1, PostsKeep
<1>11. NoneForgotten'
  BY <1>1, <1>3, <1>6, ForgottenKeep
<1>12. OneEventEach'
  <2>1. "resent" \in Kinds
    BY DEF Kinds
  <2> QED BY <1>1, <1>3, <1>4, <1>5, <2>1, EventsEachKeep
<1> QED BY <1>1, <1>4, <1>5, <1>6, <1>7, <1>8, <1>9, <1>10, <1>11, <1>12, RequestKeeps

LEMMA ActInv ==
  ASSUME NotificationsInv, NEW u \in Users,
         \/ \E p \in Posts : Like(u, p) \/ Comment(u, p)
         \/ \E a \in Users : Follow(u, a)
  PROVE  NotificationsInv'
<1>1. /\ likes \subseteq Users \X Posts /\ follows \subseteq Users \X Users
      /\ comments \subseteq DOMAIN acts /\ Len(acts) + 1 \notin DOMAIN acts
  BY ActFacts DEF NotificationsInv, TypeOK
<1>2. ASSUME NEW p \in Posts, Like(u, p) PROVE NotificationsInv'
  <2>1. Commit("like", u, Author[p], p) /\ Author[p] \in Users /\ likes' = likes \cup {<<u, p>>}
        /\ UNCHANGED <<follows, comments>>
    BY <1>2 DEF Like
  <2> QED BY <1>1, <2>1, CommitInv
<1>3. ASSUME NEW p \in Posts, Comment(u, p) PROVE NotificationsInv'
  <2>1. Commit("comment", u, Author[p], p) /\ Author[p] \in Users
        /\ comments' = comments \cup {Len(acts) + 1} /\ UNCHANGED <<likes, follows>>
    BY <1>3 DEF Comment
  <2> QED BY <1>1, <2>1, CommitInv
<1>4. ASSUME NEW a \in Users, Follow(u, a) PROVE NotificationsInv'
  <2>1. Commit("follow", u, a, 0) /\ follows' = follows \cup {<<u, a>>}
        /\ UNCHANGED <<likes, comments>>
    BY <1>4 DEF Follow
  <2> QED BY <1>1, <2>1, CommitInv
<1> QED BY <1>2, <1>3, <1>4

\* A step that leaves acts, events, workers, devices and lists alone.
LEMMA TablesInv ==
  ASSUME NotificationsInv, UNCHANGED <<acts, inFlight, delivery, lastId, pushes, phone, lister>>,
         UsedOK', \A j \in Kinds : Never(j)' => Never(j),
         Tells, KeepIds, NotesOK', TablesOK',
         \A p \in Posts : status[p] # "none" => status'[p] # "none"
  PROVE  NotificationsInv'
<1> USE DEF NotificationsInv
<1>1. UNCHANGED <<stream, job, attempted, settled, owner, holder>>
  BY DEF delivery, phone
<1>2. Grows
  BY <1>1, SameGrows
<1>3. EventsOK'
  BY <1>1, <1>2, EventsKeep
<1>4. PostsStay'
  BY PostsKeep
<1>5. NoneForgotten'
  BY <1>2, ForgottenKeep
<1>6. OneEventEach'
  <2>1. "resent" \in Kinds
    BY DEF Kinds
  <2> QED BY <1>1, <2>1, EventsEachKeep
<1> QED BY <1>1, <1>2, <1>3, <1>4, <1>5, <1>6, RequestKeeps

LEMMA UndoInv ==
  ASSUME NotificationsInv, Undo
  PROVE  NotificationsInv'
<1> USE DEF NotificationsInv
<1>1. /\ Spend("undos") /\ likes' \subseteq likes /\ follows' \subseteq follows
      /\ UNCHANGED <<status, comments, acts, inFlight, delivery, notes, lastId, pushes, phone, lister>>
  BY DEF Undo
<1>2. UsedOK' /\ \A j \in Kinds : Never(j)' => Never(j)
  BY <1>1, SpendFacts DEF Kinds
<1>3. Tells /\ KeepIds
  BY <1>1, SameNotes DEF Tells
<1>4. NotesOK' /\ TablesOK'
  BY <1>1 DEF TypeOK, NotesOK, TablesOK, Note
<1> QED BY <1>1, <1>2, <1>3, <1>4, TablesInv

LEMMA DeleteCommentsInv ==
  ASSUME NotificationsInv, NEW T \in SUBSET comments, DeleteComments(T)
  PROVE  NotificationsInv'
<1> USE DEF NotificationsInv
<1>1. /\ Spend("deletes") /\ comments' = comments \ T /\ notes' = {n \in notes : n.act \notin T}
      /\ UNCHANGED <<status, likes, follows, acts, inFlight, delivery, lastId, pushes, phone, lister>>
  BY DEF DeleteComments
<1>2. UsedOK' /\ \A j \in Kinds : Never(j)' => Never(j)
  BY <1>1, SpendFacts DEF Kinds
<1>3. Tells /\ KeepIds
  BY <1>1 DEF TypeOK, Tells, KeepIds
<1>4. NotesOK' /\ TablesOK'
  <2>1. IsFiniteSet(notes')
    BY <1>1, FS_Subset DEF TypeOK
  <2> QED BY <1>1, <2>1 DEF TypeOK, NotesOK, TablesOK, Note
<1> QED BY <1>1, <1>2, <1>3, <1>4, TablesInv

LEMMA PostInv ==
  ASSUME NotificationsInv, NEW p \in Posts, CreatePost(p) \/ DeletePost(p)
  PROVE  NotificationsInv'
<1> USE DEF NotificationsInv
<1>1. /\ UsedOK' /\ \A j \in Kinds : Never(j)' => Never(j)
  BY SpendFacts DEF CreatePost, DeletePost, Kinds
<1>2. /\ \/ status[p] = "none" /\ status' = [status EXCEPT ![p] = "live"]
         \/ status[p] = "live" /\ status' = [status EXCEPT ![p] = "deleted"]
      /\ UNCHANGED <<likes, follows, comments, acts, inFlight, delivery, notes, lastId, pushes,
                     phone, lister>>
  BY DEF CreatePost, DeletePost
<1>3. Tells /\ KeepIds
  BY <1>2, SameNotes DEF TypeOK, Tells
<1>4. NotesOK' /\ TablesOK'
  BY <1>2 DEF TypeOK, NotesOK, TablesOK, Note
<1>5. \A q \in Posts : status[q] # "none" => status'[q] # "none"
  BY <1>2 DEF TypeOK
<1> QED BY <1>1, <1>2, <1>3, <1>4, <1>5, TablesInv

\* An event is appended, once only unless it is sent again.
LEMMA PublishInv ==
  ASSUME NotificationsInv, NEW a \in inFlight, Publish(a) \/ PublishAgain(a) \/ LosePublish(a)
  PROVE  NotificationsInv'
<1> USE DEF NotificationsInv
<1>1. UsedOK' /\ \A j \in Kinds : Never(j)' => Never(j)
  BY SpendFacts, NoneSpent DEF Publish, PublishAgain, LosePublish, Kinds
<1>2. /\ UNCHANGED <<tables, job, attempted, settled, notes, lastId, pushes, phone, lister>>
      /\ inFlight' \in {inFlight, inFlight \ {a}}
      /\ stream' \in {stream, Append(stream, a)}
  BY DEF Publish, PublishAgain, LosePublish, delivery
<1>3. UNCHANGED <<status, likes, follows, comments, acts, owner, holder>>
  BY <1>2 DEF tables, phone
<1>4. a \in DOMAIN acts
  BY DEF TypeOK
<1>5. /\ stream' \in Seq(DOMAIN acts)
      /\ \A e \in DOMAIN stream : e \in DOMAIN stream' /\ stream'[e] = stream[e]
      /\ \A e \in DOMAIN stream' : e \in DOMAIN stream \/ stream'[e] = a
      /\ stream' # stream => \E e \in DOMAIN stream' : stream'[e] = a
      /\ stream' # stream => \A e, f \in DOMAIN stream' \ DOMAIN stream : e = f
  <2>1. CASE stream' = stream
    BY <2>1 DEF TypeOK
  <2>2. CASE stream' = Append(stream, a)
    <3>1. /\ stream' \in Seq(DOMAIN acts) /\ Len(stream') = Len(stream) + 1
          /\ \A i \in 1 .. Len(stream) : stream'[i] = stream[i]
          /\ stream'[Len(stream) + 1] = a
      BY <1>4, <2>2, AppendProperties DEF TypeOK
    <3>2. DOMAIN stream' = 1 .. Len(stream) + 1
      BY <3>1, LenProperties
    <3> QED BY <3>1, <3>2, StreamFacts
  <2> QED BY <1>2, <2>1, <2>2
<1>6. Grows
  BY <1>1, <1>3, <1>5, ActFacts DEF Grows
<1>7. Tells /\ KeepIds
  BY <1>2, <1>3, SameNotes DEF Tells
<1>8. TablesOK' /\ NotesOK'
  BY <1>2, <1>3 DEF TypeOK, TablesOK, NotesOK, Note
<1>9. EventsOK'
  <2>1. Job \subseteq Job'
    BY <1>5 DEF Job
  <2> QED BY <1>2, <1>3, <1>5, <2>1 DEF TypeOK, EventsOK
<1>10. PostsStay'
  BY <1>3, PostsKeep
<1>11. NoneForgotten'
  <2>1. ASSUME Never("lost")', HasEvent(a) PROVE a \in inFlight' \/ Appended(a)'
    <3>1. CASE Publish(a)
      <4>1. stream' = Append(stream, a)
        BY <2>1, <3>1 DEF Publish
      <4>2. stream'[Len(stream) + 1] = a /\ Len(stream) + 1 \in DOMAIN stream'
        BY <1>4, <4>1, AppendProperties, LenProperties, StreamFacts DEF TypeOK
      <4> QED BY <4>2 DEF Appended
    <3>2. CASE PublishAgain(a)
      BY <3>2 DEF PublishAgain
    <3>3. CASE LosePublish(a)
      BY <2>1, <3>3, SpendFacts DEF LosePublish, Kinds
    <3> QED BY <3>1, <3>2, <3>3
  <2>2. \A b \in inFlight : Never("lost")' /\ HasEvent(b) => b \in inFlight' \/ Appended(b)'
    BY <1>2, <2>1
  <2> QED BY <1>3, <1>6, <2>2, ForgottenKeep
<1>12. OneEventEach'
  <2> SUFFICES ASSUME Never("resent")'
               PROVE  /\ \A e \in DOMAIN stream' : stream'[e] \notin inFlight'
                      /\ \A e, f \in DOMAIN stream' : stream'[e] = stream'[f] => e = f
    BY DEF OneEventEach
  <2>0. "resent" \in Kinds \ {"steps"}
    BY DEF Kinds
  <2>1. Never("resent") /\ ~PublishAgain(a)
    <3>1. Never("resent")
      BY <1>1, <2>0
    <3>2. ~Spend("resent")
      BY <2>0, SpendFacts
    <3> QED BY <3>1, <3>2 DEF PublishAgain
  <2>2. inFlight' = inFlight \ {a}
    BY <2>1 DEF Publish, LosePublish
  <2>3. /\ \A e \in DOMAIN stream : stream[e] \notin inFlight /\ stream[e] # a
        /\ \A e, f \in DOMAIN stream : stream[e] = stream[f] => e = f
    BY <1>1, <2>1 DEF OneEventEach
  <2>4. CASE stream' = stream
    BY <2>2, <2>3, <2>4
  <2>5. CASE stream' # stream
    BY <1>5, <2>2, <2>3, <2>5
  <2> QED BY <2>4, <2>5
<1> QED BY <1>1, <1>2, <1>3, <1>6, <1>7, <1>8, <1>9, <1>10, <1>11, <1>12, RequestKeeps
---------------------------------------------------------------------------------
(* Workers *)

\* The parts of the invariant that a step keeps if it leaves the tables, the
\* acts and the events alone.
LEMMA SameTables ==
  ASSUME NotificationsInv, UNCHANGED <<tables, inFlight, stream>>,
         UsedOK', \A j \in Kinds : Never(j)' => Never(j),
         EventsOK', NotesOK', PhonesOK', ListsOK',
         OneHandEach', DevicesInStep', PushGoesHome', HandledIsTold', NotesHaveHandlers',
         FollowsCounted', UnreadNotUnderstated'
  PROVE  NotificationsInv'
<1> USE DEF NotificationsInv
<1>1. UNCHANGED <<status, likes, follows, comments, acts>>
  BY DEF tables
<1>2. Grows
  BY <1>1, SameGrows
<1>3. TablesOK'
  BY <1>1 DEF TypeOK, TablesOK, Act
<1>4. PostsStay'
  BY <1>1, PostsKeep
<1>5. NoneForgotten'
  BY <1>1, <1>2, ForgottenKeep
<1>6. OneEventEach'
  <2>1. "resent" \in Kinds
    BY DEF Kinds
  <2> QED BY <1>1, <2>1, EventsEachKeep
<1>7. TypeOK'
  BY <1>3, TypeParts, PTL
<1> QED BY <1>4, <1>5, <1>6, <1>7

\* A step of a worker leaves the lists alone as well.
LEMMA WorkerKeeps ==
  ASSUME NotificationsInv, UNCHANGED <<tables, inFlight, stream, lister>>,
         UsedOK', \A j \in Kinds : Never(j)' => Never(j),
         EventsOK', NotesOK', KeepIds, lastId <= lastId', PhonesOK',
         OneHandEach', DevicesInStep', PushGoesHome', HandledIsTold', NotesHaveHandlers'
  PROVE  NotificationsInv'
<1> USE DEF NotificationsInv
<1>1. Grows
  BY SameGrows DEF tables
<1>2. lastId' \in Nat
  BY DEF NotesOK
<1>3. ListsOK' /\ FollowsCounted' /\ UnreadNotUnderstated'
  BY <1>1, <1>2, ListsKeep, CountsKeep, UnreadKeep
<1> QED BY <1>3, SameTables

\* A worker whose step makes no notification.
LEMMA QuietWorker ==
  ASSUME NotificationsInv,
         UNCHANGED <<tables, inFlight, stream, notes, lastId, pushes, phone, lister>>,
         UsedOK', \A j \in Kinds : Never(j)' => Never(j),
         EventsOK', OneHandEach', HandledIsTold', NotesHaveHandlers'
  PROVE  NotificationsInv'
<1> USE DEF NotificationsInv
<1>1. UNCHANGED <<acts, comments, owner, holder>>
  BY DEF tables, phone
<1>2. Grows
  BY <1>1, SameGrows
<1>3. NotesOK'
  BY <1>1 DEF TypeOK, NotesOK, Note
<1>4. PhonesOK' /\ DevicesInStep' /\ PushGoesHome'
  BY <1>1, DevicesKeep DEF TypeOK, PhonesOK, Push
<1>5. lastId <= lastId' /\ KeepIds
  BY SameNotes DEF TypeOK
<1> QED BY <1>3, <1>4, <1>5, WorkerKeeps

LEMMA HandledNext ==
  ASSUME Never("failures")' =>
           \A a : \/ \E e \in settled' : stream'[e] = a
                  \/ \E w \in Workers : job'[w].phase = "ack" /\ stream'[job'[w].event] = a
                  => Told(a)'
  PROVE  HandledIsTold'
<1> SUFFICES ASSUME Never("failures")'
             PROVE  /\ \A e \in settled' : Told(stream[e])'
                    /\ \A w \in Workers : job'[w].phase = "ack" => Told(ActOf(w))'
  BY DEF HandledIsTold
<1>1. ASSUME NEW e \in settled' PROVE Told(stream[e])'
  <2> SUFFICES ASSUME NEW a, a = stream'[e] PROVE Told(stream[e])'
    OBVIOUS
  <2> QED BY DEF Told, NotesOf, LiveBy
<1>2. ASSUME NEW w \in Workers, job'[w].phase = "ack" PROVE Told(ActOf(w))'
  <2> SUFFICES ASSUME NEW a, a = stream'[job'[w].event] PROVE Told(ActOf(w))'
    OBVIOUS
  <2> QED BY <1>2 DEF Told, ActOf, NotesOf, LiveBy
<1> QED BY <1>1, <1>2

\* What a step that takes no notification away leaves told.
LEMMA StillTold ==
  ASSUME NotificationsInv, UNCHANGED <<tables, stream>>, notes \subseteq notes',
         \A j \in Kinds : Never(j)' => Never(j), Never("failures")'
  PROVE  /\ Never("failures")
         /\ \A a \in DOMAIN acts : Told(a) => Told(a)'
         /\ \A e \in settled : \A a : stream[e] = a => Told(a)'
         /\ \A w \in Workers : \A a : job[w].phase = "ack" /\ stream[job[w].event] = a => Told(a)'
<1> USE DEF NotificationsInv
<1>1. UNCHANGED <<status, comments, acts>>
  BY DEF tables
<1>2. Grows /\ Tells
  BY <1>1, SameGrows DEF Tells
<1>3. \A a \in DOMAIN acts : Told(a) => Told(a)'
  BY <1>2, ToldStays
<1>5. Never("failures")
  BY DEF Kinds
<1>6. \A e \in settled : stream[e] \in DOMAIN acts /\ Told(stream[e])
  BY <1>5, StreamFacts DEF HandledIsTold, TypeOK
<1>7. \A w \in Workers : job[w].phase = "ack" =>
        stream[job[w].event] \in DOMAIN acts /\ Told(stream[job[w].event])
  BY <1>5, StreamFacts DEF HandledIsTold, OneHandEach, ActOf
<1> QED BY <1>3, <1>5, <1>6, <1>7

LEMMA AttemptInv ==
  ASSUME NotificationsInv, NEW w \in Workers, NEW e \in DOMAIN stream, Attempt(w, e)
  PROVE  NotificationsInv'
<1> USE DEF NotificationsInv
<1> DEFINE ph == IF acts[stream[e]].type = "follow" THEN "backfill" ELSE "notify"
           j == [event |-> e, phase |-> ph]
<1>1. /\ job[w] = NoJob /\ e \notin settled /\ e \notin Taken
      /\ job' = [job EXCEPT ![w] = j] /\ attempted' = attempted \cup {e}
      /\ UNCHANGED <<tables, inFlight, stream, settled, notes, lastId, pushes, phone, lister, used>>
  BY DEF Attempt, MayTake
<1>2. /\ j.event = e /\ j.phase \in Working /\ j \in Job
      /\ j.phase = "backfill" => acts[stream[e]].type = "follow"
  BY DEF Job, Working
<1> HIDE DEF ph, j
<1>3. /\ job'[w] = j /\ \A v \in Workers \ {w} : job'[v] = job[v]
      /\ job' \in [Workers -> Job]
  BY <1>1, <1>2 DEF TypeOK
<1>4. /\ job[w].event = 0 /\ e # 0 /\ \A v \in Workers : job[v].event # e
      /\ acts' = acts /\ stream' = stream /\ settled' = settled /\ attempted' = attempted \cup {e}
      /\ notes' = notes
  BY <1>1, StreamFacts DEF NoJob, Taken, tables
<1>5. UsedOK' /\ \A i \in Kinds : Never(i)' => Never(i)
  BY <1>1, NoneSpent
<1>6. EventsOK'
  <2>1. Job' = Job
    BY <1>4 DEF Job
  <2> QED BY <1>3, <1>4, <2>1 DEF TypeOK, EventsOK
<1>7. OneHandEach'
  <2> SUFFICES ASSUME NEW v \in Workers
               PROVE  /\ job'[v].event = 0 <=> job'[v].phase = "idle"
                      /\ job'[v].phase = "backfill" => acts[stream[job'[v].event]].type = "follow"
                      /\ job'[v].event # 0 =>
                           /\ job'[v].event \in attempted' \ settled
                           /\ \A x \in Workers \ {v} : job'[x].event # job'[v].event
    BY <1>4 DEF OneHandEach, ActOf
  <2>1. CASE v = w
    BY <1>1, <1>2, <1>3, <1>4, <2>1 DEF Working
  <2>2. CASE v # w
    BY <1>2, <1>3, <1>4, <2>2 DEF OneHandEach, ActOf
  <2> QED BY <2>1, <2>2
<1>8. HandledIsTold'
  <2>1. \A v \in Workers : job'[v].phase = "ack" => job'[v] = job[v]
    BY <1>2, <1>3 DEF Working
  <2>2. Never("failures")' =>
          /\ \A f \in settled : \A a : stream[f] = a => Told(a)'
          /\ \A v \in Workers : \A a : job[v].phase = "ack" /\ stream[job[v].event] = a => Told(a)'
    BY <1>1, <1>5, StillTold
  <2> QED BY <1>4, <2>1, <2>2, HandledNext
<1>9. NotesHaveHandlers'
  <2> SUFFICES ASSUME Never("crashes"), Never("failures"), Never("resent")
               PROVE  /\ \A f \in attempted' \ settled : \E v \in Workers : job'[v].event = f
                      /\ \A n \in notes : \E f \in attempted' :
                           /\ stream[f] = n.act
                           /\ \A v \in Workers : job'[v].event = f => job'[v].phase = "ack"
                      /\ \A m, n \in notes : m.act = n.act => m = n
    <3>1. {"crashes", "failures", "resent"} \subseteq Kinds
      BY DEF Kinds
    <3> QED BY <1>4, <1>5, <3>1 DEF NotesHaveHandlers, Taken
  <2>1. e \notin attempted
    BY <1>1 DEF NotesHaveHandlers
  <2>2. ASSUME NEW f \in attempted' \ settled PROVE \E v \in Workers : job'[v].event = f
    <3>1. CASE f = e
      BY <1>2, <1>3, <3>1
    <3>2. CASE f # e
      <4>1. PICK v \in Workers : job[v].event = f
        BY <1>4, <3>2, <2>2 DEF NotesHaveHandlers, Taken
      <4>2. v # w
        BY <1>4, <4>1, <2>2, StreamFacts, <3>2 DEF TypeOK
      <4> QED BY <1>3, <4>1, <4>2
    <3> QED BY <3>1, <3>2
  <2>3. ASSUME NEW n \in notes
        PROVE  \E f \in attempted' :
                 /\ stream[f] = n.act
                 /\ \A v \in Workers : job'[v].event = f => job'[v].phase = "ack"
    <3>1. PICK f \in attempted : stream[f] = n.act /\ \A v \in Workers : job[v].event = f => job[v].phase = "ack"
      BY DEF NotesHaveHandlers
    <3>2. f # e
      BY <2>1
    <3> QED BY <1>2, <1>3, <1>4, <3>1, <3>2
  <2> QED BY <2>2, <2>3 DEF NotesHaveHandlers
<1> QED BY <1>1, <1>5, <1>6, <1>7, <1>8, <1>9, QuietWorker

\* A worker that goes on to the next phase keeps the event in its hand.
LEMMA PhaseMoves ==
  ASSUME NotificationsInv, NEW w \in Workers, NEW ph \in {"notify", "ack"},
         job[w].phase \in Working, job' = [job EXCEPT ![w].phase = ph],
         UNCHANGED <<acts, stream, attempted, settled>>
  PROVE  /\ EventsOK' /\ OneHandEach'
         /\ job'[w].phase = ph /\ \A v \in Workers \ {w} : job'[v] = job[v]
         /\ \A v \in Workers : job'[v].event = job[v].event
         /\ job[w].event \in attempted /\ job[w].event \in DOMAIN stream
         /\ ActOf(w) \in DOMAIN acts
<1> USE DEF NotificationsInv
<1>1. /\ job[w] \in Job /\ job \in [Workers -> Job]
      /\ job[w].event \in DOMAIN stream /\ job[w].event # 0 /\ job[w].event \in attempted
  BY StreamFacts DEF OneHandEach, Working, TypeOK
<1>2. /\ [job[w] EXCEPT !.phase = ph] \in Job /\ [job[w] EXCEPT !.phase = ph].phase = ph
      /\ [job[w] EXCEPT !.phase = ph].event = job[w].event
  <2> SUFFICES ASSUME NEW j \in Job
               PROVE  /\ [j EXCEPT !.phase = ph] \in Job /\ [j EXCEPT !.phase = ph].phase = ph
                      /\ [j EXCEPT !.phase = ph].event = j.event
    BY <1>1
  <2>1. ph \in Working \cup {"idle", "ack"}
    BY DEF Working
  <2> QED BY <2>1 DEF Job
<1>3. job' = [job EXCEPT ![w] = [job[w] EXCEPT !.phase = ph]]
  OBVIOUS
<1>4. /\ job' \in [Workers -> Job] /\ job'[w].phase = ph /\ job'[w].event = job[w].event
      /\ \A v \in Workers \ {w} : job'[v] = job[v]
  BY <1>1, <1>2, <1>3
<1>5. \A v \in Workers : job'[v].event = job[v].event
  BY <1>4
<1>6. EventsOK'
  BY <1>4 DEF EventsOK, TypeOK, Job
<1>7. OneHandEach'
  <2> SUFFICES ASSUME NEW v \in Workers
               PROVE  /\ job'[v].event = 0 <=> job'[v].phase = "idle"
                      /\ job'[v].phase = "backfill" => acts[stream[job'[v].event]].type = "follow"
                      /\ job'[v].event # 0 =>
                           /\ job'[v].event \in attempted \ settled
                           /\ \A x \in Workers \ {v} : job'[x].event # job'[v].event
    BY DEF OneHandEach, ActOf
  <2>1. \A x \in Workers \ {v} : job'[v].event # 0 => job'[x].event # job'[v].event
    BY <1>5 DEF OneHandEach
  <2>2. CASE v = w
    <3>1. job'[v].event = job[w].event /\ job'[v].phase = ph /\ job[w].event \in attempted \ settled
      BY <1>1, <1>4, <2>2 DEF OneHandEach
    <3>2. job'[v].event # 0 /\ ph # "idle" /\ ph # "backfill"
      BY <1>1, <3>1
    <3> QED BY <2>1, <3>1, <3>2
  <2>3. CASE v # w
    BY <1>4, <1>5, <2>1, <2>3 DEF OneHandEach, ActOf
  <2> QED BY <2>2, <2>3
<1>8. ActOf(w) \in DOMAIN acts
  BY <1>1, StreamFacts DEF ActOf
<1> QED BY <1>1, <1>4, <1>5, <1>6, <1>7, <1>8

\* Phases that move on and notes that stay leave every note its handler.
LEMMA PhasesKeepHandlers ==
  ASSUME NotificationsInv, NEW w \in Workers,
         job[w].phase # "ack",
         \A v \in Workers \ {w} : job'[v] = job[v],
         job'[w].event = job[w].event,
         UNCHANGED <<stream, attempted, settled, notes>>,
         \A j \in Kinds : Never(j)' => Never(j)
  PROVE  NotesHaveHandlers'
<1> USE DEF NotificationsInv
<1> SUFFICES ASSUME Never("crashes"), Never("failures"), Never("resent")
             PROVE  /\ \A f \in attempted \ settled : \E v \in Workers : job'[v].event = f
                    /\ \A n \in notes : \E f \in attempted :
                         /\ stream[f] = n.act
                         /\ \A v \in Workers : job'[v].event = f => job'[v].phase = "ack"
                    /\ \A m, n \in notes : m.act = n.act => m = n
  <2>1. {"crashes", "failures", "resent"} \subseteq Kinds
    BY DEF Kinds
  <2> QED BY <2>1 DEF NotesHaveHandlers, Taken
<1>1. \A f \in attempted \ settled : \E v \in Workers : job'[v].event = f
  <2> SUFFICES ASSUME NEW f \in attempted \ settled PROVE \E v \in Workers : job'[v].event = f
    OBVIOUS
  <2>1. PICK v \in Workers : job[v].event = f
    BY DEF NotesHaveHandlers, Taken
  <2> QED BY <2>1
<1>2. ASSUME NEW n \in notes
      PROVE  \E f \in attempted : /\ stream[f] = n.act
                                  /\ \A v \in Workers : job'[v].event = f => job'[v].phase = "ack"
  <2>1. PICK f \in attempted : stream[f] = n.act /\ \A v \in Workers : job[v].event = f => job[v].phase = "ack"
    BY DEF NotesHaveHandlers
  <2>2. job[w].event # f
    BY <2>1
  <2> QED BY <2>1, <2>2
<1> QED BY <1>1, <1>2 DEF NotesHaveHandlers

\* A follow whose followee has no post is due no notification.
LEMMA BackfillInv ==
  ASSUME NotificationsInv, NEW w \in Workers, Backfill(w)
  PROVE  NotificationsInv'
<1> USE DEF NotificationsInv
<1>1. /\ job[w].phase = "backfill"
      /\ UNCHANGED <<tables, inFlight, stream, attempted, settled, notes, lastId, pushes, phone, lister>>
  BY DEF Backfill
<1>2. UNCHANGED <<acts, status, comments>> /\ job[w].phase \in Working /\ job[w].phase # "ack"
  BY <1>1 DEF tables, Working
<1>3. UsedOK' /\ \A i \in Kinds : Never(i)' => Never(i)
  BY SpendFacts, NoneSpent DEF Backfill, Kinds
<1>4. PICK ph \in {"notify", "ack"} :
        /\ job' = [job EXCEPT ![w].phase = ph]
        /\ ph = "ack" /\ Never("failures")' => LiveBy(acts[ActOf(w)].user) = {}
  <2>1. CASE Spend("failures")
    <3>1. ~Never("failures")'
      BY <2>1, SpendFacts DEF Kinds
    <3>2. \E ph \in {"notify", "ack"} : job' = [job EXCEPT ![w].phase = ph]
      BY DEF Backfill
    <3> QED BY <3>1, <3>2
  <2>2. CASE ~Spend("failures")
    BY <2>2 DEF Backfill
  <2> QED BY <2>1, <2>2
<1>5. /\ EventsOK' /\ OneHandEach'
      /\ job'[w].phase = ph /\ \A v \in Workers \ {w} : job'[v] = job[v]
      /\ \A v \in Workers : job'[v].event = job[v].event
      /\ ActOf(w) \in DOMAIN acts
  BY <1>1, <1>2, <1>4, PhaseMoves
<1>6. HandledIsTold'
  <2>1. ASSUME Never("failures")', ph = "ack" PROVE Told(ActOf(w))
    <3>1. acts[ActOf(w)].type = "follow"
      BY <1>1 DEF OneHandEach
    <3> QED BY <1>4, <2>1, <3>1 DEF Told
  <2> SUFFICES ASSUME Never("failures")', NEW a,
                      \/ \E e \in settled' : stream'[e] = a
                      \/ \E v \in Workers : job'[v].phase = "ack" /\ stream'[job'[v].event] = a
               PROVE  Told(a)'
    BY HandledNext
  <2>2. /\ \A b \in DOMAIN acts : Told(b) => Told(b)'
        /\ \A e \in settled : \A b : stream[e] = b => Told(b)'
        /\ \A v \in Workers : \A b : job[v].phase = "ack" /\ stream[job[v].event] = b => Told(b)'
    BY <1>1, <1>3, StillTold
  <2>3. CASE \E e \in settled' : stream'[e] = a
    BY <1>1, <2>2, <2>3
  <2>4. ASSUME NEW v \in Workers, job'[v].phase = "ack", stream'[job'[v].event] = a
        PROVE  Told(a)'
    <3>1. CASE v = w
      <4>1. a = ActOf(w) /\ ph = "ack"
        BY <1>1, <1>5, <2>4, <3>1 DEF ActOf
      <4>2. Told(a) /\ a \in DOMAIN acts
        BY <1>5, <2>1, <4>1
      <4> QED BY <2>2, <4>2
    <3>2. CASE v # w
      BY <1>1, <1>5, <2>2, <2>4, <3>2
    <3> QED BY <3>1, <3>2
  <2> QED BY <2>3, <2>4
<1>7. NotesHaveHandlers'
  BY <1>1, <1>2, <1>3, <1>5, PhasesKeepHandlers
<1> QED BY <1>1, <1>3, <1>5, <1>6, <1>7, QuietWorker

\* An inserted notification has an id of its own and, if it is a comment's,
\* its comment.
LEMMA InsertFacts ==
  ASSUME NotificationsInv, NEW a \in DOMAIN acts, Insertable(a), Insert(a), UNCHANGED tables
  PROVE  /\ NotesOK' /\ KeepIds /\ lastId <= lastId' /\ notes \subseteq notes'
         /\ \E n \in notes' : /\ n.act = a /\ notes' = notes \cup {n}
<1> USE DEF NotificationsInv
<1> DEFINE n == [id |-> lastId + 1, act |-> a, read |-> FALSE]
<1>1. lastId' = lastId + 1 /\ notes' = notes \cup {n} /\ UNCHANGED <<acts, comments>>
  BY DEF Insert, tables
<1>2. n.id = lastId + 1 /\ n.act = a /\ n.read \in BOOLEAN /\ lastId \in Nat
  BY DEF TypeOK
<1>3. n \in Note'
  BY <1>1, <1>2 DEF Note
<1> HIDE DEF n
<1>4. notes \subseteq Note'
  BY <1>1, <1>2, NoteFacts DEF Note
<1>5. IsFiniteSet(notes')
  BY <1>1, FS_AddElement DEF TypeOK
<1>6. \A m \in notes : m.id # n.id
  BY <1>2, NoteFacts
<1>7. \A l, m \in notes' : l.id = m.id => l = m
  BY <1>1, <1>6 DEF TypeOK
<1>8. \A m \in notes' : acts'[m.act].type = "comment" => m.act \in comments'
  BY <1>1, <1>2 DEF TypeOK, Insertable
<1>9. NotesOK'
  BY <1>1, <1>2, <1>3, <1>4, <1>5, <1>7, <1>8 DEF NotesOK
<1>10. KeepIds
  BY <1>1, <1>2 DEF KeepIds
<1> QED BY <1>1, <1>2, <1>9, <1>10

\* The event that a worker is notified of is in no other hand, so that nobody
\* has made its notification yet; then the handler has told, and returns.
LEMMA NotifyFacts ==
  ASSUME NotificationsInv, NEW w \in Workers, job[w].phase = "notify",
         job' = [job EXCEPT ![w].phase = "ack"],
         UNCHANGED <<tables, inFlight, stream, attempted, settled>>,
         \A j \in Kinds : Never(j)' => Never(j),
         \/ notes' = notes /\ ~Insertable(ActOf(w))
         \/ /\ \E n \in notes' : n.act = ActOf(w) /\ notes' = notes \cup {n}
  PROVE  HandledIsTold' /\ NotesHaveHandlers'
<1> USE DEF NotificationsInv
<1>1. /\ EventsOK' /\ OneHandEach'
      /\ job'[w].phase = "ack" /\ \A v \in Workers \ {w} : job'[v] = job[v]
      /\ \A v \in Workers : job'[v].event = job[v].event
      /\ job[w].event \in attempted /\ job[w].event \in DOMAIN stream
      /\ ActOf(w) \in DOMAIN acts
  BY PhaseMoves DEF tables, Working
<1>2. Told(ActOf(w))'
  <2> SUFFICES ASSUME NEW a \in DOMAIN acts, a = ActOf(w) PROVE Told(ActOf(w))'
    BY <1>1
  <2>1. acts' = acts /\ comments' = comments
    BY DEF tables
  <2>2. ActOf(w)' = a
    BY <1>1 DEF ActOf
  <2>3. CASE notes' = notes /\ ~Insertable(ActOf(w))
    BY <2>1, <2>2, <2>3 DEF Insertable, Told
  <2>4. CASE \E n \in notes' : n.act = ActOf(w)
    BY <2>2, <2>4 DEF Told, NotesOf
  <2> QED BY <2>3, <2>4
<1>3. HandledIsTold'
  <2> SUFFICES ASSUME Never("failures")', NEW a,
                      \/ \E e \in settled' : stream'[e] = a
                      \/ \E v \in Workers : job'[v].phase = "ack" /\ stream'[job'[v].event] = a
               PROVE  Told(a)'
    BY HandledNext
  <2>1. notes \subseteq notes' /\ UNCHANGED stream
    OBVIOUS
  <2>2. /\ \A e \in settled : \A b : stream[e] = b => Told(b)'
        /\ \A v \in Workers : \A b : job[v].phase = "ack" /\ stream[job[v].event] = b => Told(b)'
    BY <2>1, StillTold
  <2>3. CASE \E e \in settled' : stream'[e] = a
    BY <2>2, <2>3
  <2>4. ASSUME NEW v \in Workers, job'[v].phase = "ack", stream'[job'[v].event] = a
        PROVE  Told(a)'
    <3>1. CASE v = w
      <4>1. a = ActOf(w)'
        BY <2>4, <3>1 DEF ActOf
      <4> QED BY <1>2, <4>1 DEF Told, NotesOf, LiveBy
    <3>2. CASE v # w
      BY <1>1, <2>2, <2>4, <3>2
    <3> QED BY <3>1, <3>2
  <2> QED BY <2>3, <2>4
<1>4. NotesHaveHandlers'
  <2>1. CASE notes' = notes
    BY <1>1, <2>1, PhasesKeepHandlers
  <2>2. ASSUME NEW n \in notes', n.act = ActOf(w), notes' = notes \cup {n}
        PROVE  NotesHaveHandlers'
    <3> SUFFICES ASSUME Never("crashes"), Never("failures"), Never("resent")
                 PROVE  /\ \A f \in attempted \ settled : \E v \in Workers : job'[v].event = f
                        /\ \A m \in notes' : \E f \in attempted :
                             /\ stream[f] = m.act
                             /\ \A v \in Workers : job'[v].event = f => job'[v].phase = "ack"
                        /\ \A l, m \in notes' : l.act = m.act => l = m
      <4>1. {"crashes", "failures", "resent"} \subseteq Kinds
        BY DEF Kinds
      <4> QED BY <4>1 DEF NotesHaveHandlers, Taken
    <3>1. \A f \in attempted \ settled : \E v \in Workers : job'[v].event = f
      <4> SUFFICES ASSUME NEW f \in attempted \ settled PROVE \E v \in Workers : job'[v].event = f
        OBVIOUS
      <4>1. PICK v \in Workers : job[v].event = f
        BY DEF NotesHaveHandlers, Taken
      <4> QED BY <1>1, <4>1
    <3>2. ASSUME NEW m \in notes
          PROVE  /\ m.act # ActOf(w)
                 /\ \E f \in attempted :
                      /\ stream[f] = m.act
                      /\ \A v \in Workers : job'[v].event = f => job'[v].phase = "ack"
      <4>1. PICK f \in attempted : /\ stream[f] = m.act
                                   /\ \A v \in Workers : job[v].event = f => job[v].phase = "ack"
        BY DEF NotesHaveHandlers
      <4>2. job[w].event # f
        BY <4>1
      <4>3. f \in DOMAIN stream
        BY DEF TypeOK
      <4>4. stream[f] # stream[job[w].event]
        BY <1>1, <4>2, <4>3 DEF OneEventEach
      <4> QED BY <1>1, <4>1, <4>2, <4>4 DEF ActOf
    <3>3. \E f \in attempted : /\ stream[f] = n.act
                               /\ \A v \in Workers : job'[v].event = f => job'[v].phase = "ack"
      <4>1. \A v \in Workers : job'[v].event = job[w].event => v = w
        BY <1>1, StreamFacts DEF OneHandEach
      <4> QED BY <1>1, <2>2, <4>1 DEF ActOf
    <3>4. \A l, m \in notes' : l.act = m.act => l = m
      BY <2>2, <3>2 DEF NotesHaveHandlers
    <3> QED BY <2>2, <3>1, <3>2, <3>3, <3>4
  <2> QED BY <2>1, <2>2
<1> QED BY <1>3, <1>4

LEMMA CreateNotificationInv ==
  ASSUME NotificationsInv, NEW w \in Workers, CreateNotification(w)
  PROVE  NotificationsInv'
<1> USE DEF NotificationsInv
<1>1. /\ job[w].phase = "notify" /\ job' = [job EXCEPT ![w].phase = "ack"]
      /\ UNCHANGED <<tables, inFlight, stream, attempted, settled, phone, lister, used>>
      /\ \/ Insertable(ActOf(w)) /\ Insert(ActOf(w)) /\ StartPush(ActOf(w))
         \/ ~Insertable(ActOf(w)) /\ UNCHANGED <<notes, lastId, pushes>>
  BY DEF CreateNotification
<1>2. UNCHANGED <<acts, comments, owner, holder>>
  BY <1>1 DEF tables, phone
<1>3. EventsOK' /\ OneHandEach' /\ ActOf(w) \in DOMAIN acts
  BY <1>1, <1>2, PhaseMoves DEF Working
<1>4. UsedOK' /\ \A i \in Kinds : Never(i)' => Never(i)
  BY <1>1, NoneSpent
<1>5. /\ NotesOK' /\ KeepIds /\ lastId <= lastId'
      /\ \/ notes' = notes /\ ~Insertable(ActOf(w))
         \/ \E n \in notes' : n.act = ActOf(w) /\ notes' = notes \cup {n}
  <2>1. CASE Insertable(ActOf(w)) /\ Insert(ActOf(w))
    BY <1>1, <1>3, <2>1, InsertFacts
  <2>2. CASE ~Insertable(ActOf(w)) /\ UNCHANGED <<notes, lastId>>
    BY <1>2, <2>2, SameNotes DEF TypeOK, NotesOK, Note
  <2> QED BY <1>1, <2>1, <2>2
<1>6. HandledIsTold' /\ NotesHaveHandlers'
  BY <1>1, <1>4, <1>5, NotifyFacts
<1>7. PhonesOK' /\ DevicesInStep' /\ PushGoesHome'
  <2>1. CASE pushes' = pushes
    BY <1>2, <2>1, DevicesKeep DEF TypeOK, PhonesOK, Push
  <2>2. CASE StartPush(ActOf(w))
    <3> DEFINE p == [note |-> lastId + 1, user |-> acts[ActOf(w)].user, step |-> "read",
                     devices |-> {}, home |-> HeldBy(acts[ActOf(w)].user)]
    <3>1. pushes' = pushes \cup {p}
      BY <2>2 DEF StartPush
    <3>2. p \in Push /\ p.devices = {} /\ p.home = HeldBy(p.user)
      BY <1>3, ActFacts DEF TypeOK, Push, HeldBy
    <3> HIDE DEF p
    <3>3. PhonesOK'
      BY <1>2, <3>1, <3>2 DEF TypeOK, PhonesOK, Push
    <3>4. DevicesInStep' /\ PushGoesHome'
      BY <1>2, <3>1, <3>2 DEF DevicesInStep, PushGoesHome, HeldBy
    <3> QED BY <3>3, <3>4
  <2> QED BY <1>1, <2>1, <2>2
<1> QED BY <1>1, <1>3, <1>4, <1>5, <1>6, <1>7, WorkerKeeps

LEMMA CreateNotificationFailsInv ==
  ASSUME NotificationsInv, NEW w \in Workers, CreateNotificationFails(w)
  PROVE  NotificationsInv'
<1> USE DEF NotificationsInv
<1>1. /\ Spend("failures") /\ job[w].phase = "notify" /\ job' = [job EXCEPT ![w].phase = "ack"]
      /\ UNCHANGED <<tables, inFlight, stream, attempted, settled, pushes, phone, lister>>
      /\ \/ Insertable(ActOf(w)) /\ Insert(ActOf(w))
         \/ UNCHANGED <<notes, lastId>>
  BY DEF CreateNotificationFails
<1>2. UNCHANGED <<acts, comments, owner, holder>>
  BY <1>1 DEF tables, phone
<1>3. EventsOK' /\ OneHandEach' /\ ActOf(w) \in DOMAIN acts
  BY <1>1, <1>2, PhaseMoves DEF Working
<1>4. UsedOK' /\ (\A i \in Kinds : Never(i)' => Never(i)) /\ ~Never("failures")'
  BY <1>1, SpendFacts DEF Kinds
<1>5. NotesOK' /\ KeepIds /\ lastId <= lastId'
  <2>1. CASE Insertable(ActOf(w)) /\ Insert(ActOf(w))
    BY <1>1, <1>3, <2>1, InsertFacts
  <2>2. CASE UNCHANGED <<notes, lastId>>
    BY <1>2, <2>2, SameNotes DEF TypeOK, NotesOK, Note
  <2> QED BY <1>1, <2>1, <2>2
<1>6. HandledIsTold' /\ NotesHaveHandlers'
  BY <1>4 DEF HandledIsTold, NotesHaveHandlers
<1>7. PhonesOK' /\ DevicesInStep' /\ PushGoesHome'
  BY <1>1, <1>2, DevicesKeep DEF TypeOK, PhonesOK, Push
<1> QED BY <1>1, <1>3, <1>4, <1>5, <1>6, <1>7, WorkerKeeps

\* What is settled was told; without failures it leaves its hand for good.
LEMMA AckInv ==
  ASSUME NotificationsInv, NEW w \in Workers, Ack(w)
  PROVE  NotificationsInv'
<1> USE DEF NotificationsInv
<1> DEFINE e == job[w].event
<1>1. /\ job[w].phase = "ack" /\ job' = [job EXCEPT ![w] = NoJob]
      /\ \/ settled' = settled \cup {e} /\ used' = used
         \/ Spend("failures") /\ settled' = settled
      /\ UNCHANGED <<tables, inFlight, stream, attempted, notes, lastId, pushes, phone, lister>>
  BY DEF Ack
<1>2. /\ e # 0 /\ e \in attempted \ settled /\ e \in DOMAIN stream
      /\ \A v \in Workers \ {w} : job[v].event # e
  BY <1>1, StreamFacts DEF OneHandEach, TypeOK
<1>3. NoJob \in Job /\ NoJob.event = 0 /\ NoJob.phase = "idle"
  BY DEF NoJob, Job
<1>4. /\ job' \in [Workers -> Job] /\ job'[w] = NoJob /\ \A v \in Workers \ {w} : job'[v] = job[v]
  BY <1>1, <1>3 DEF TypeOK
<1> HIDE DEF e
<1>5. /\ acts' = acts /\ stream' = stream /\ attempted' = attempted /\ notes' = notes
      /\ settled' \in {settled, settled \cup {e}}
  BY <1>1 DEF tables
<1>6. /\ UsedOK' /\ \A i \in Kinds : Never(i)' => Never(i)
      /\ Never("failures")' => settled' = settled \cup {e}
  BY <1>1, SpendFacts, NoneSpent DEF Kinds
<1>7. EventsOK'
  BY <1>2, <1>4, <1>5 DEF TypeOK, EventsOK, Job
<1>8. OneHandEach'
  <2> SUFFICES ASSUME NEW v \in Workers
               PROVE  /\ job'[v].event = 0 <=> job'[v].phase = "idle"
                      /\ job'[v].phase = "backfill" => acts[stream[job'[v].event]].type = "follow"
                      /\ job'[v].event # 0 =>
                           /\ job'[v].event \in attempted \ settled'
                           /\ \A x \in Workers \ {v} : job'[x].event # job'[v].event
    BY <1>5 DEF OneHandEach, ActOf
  <2>1. CASE v = w
    BY <1>3, <1>4, <2>1
  <2>2. CASE v # w
    <3>1. job'[v] = job[v] /\ job[v].event # e
      BY <1>2, <1>4, <2>2
    <3>2. job[v].event # 0 => /\ job[v].event \in attempted \ settled'
                              /\ \A x \in Workers \ {v} : job'[x].event # job[v].event
      BY <1>3, <1>4, <1>5, <3>1 DEF OneHandEach
    <3> QED BY <3>1, <3>2 DEF OneHandEach, ActOf
  <2> QED BY <2>1, <2>2
<1>9. HandledIsTold'
  <2>1. \A v \in Workers : job'[v].phase = "ack" => job'[v] = job[v]
    BY <1>3, <1>4
  <2>2. Never("failures")' =>
          /\ \A f \in settled : \A a : stream[f] = a => Told(a)'
          /\ \A v \in Workers : \A a : job[v].phase = "ack" /\ stream[job[v].event] = a => Told(a)'
    BY <1>1, <1>6, StillTold
  <2>3. Never("failures")' => \A a : stream[e] = a => Told(a)'
    BY <1>1, <2>2 DEF e
  <2> QED BY <1>5, <2>1, <2>2, <2>3, HandledNext
<1>10. NotesHaveHandlers'
  <2> SUFFICES ASSUME Never("crashes"), Never("failures"), Never("failures")', Never("resent")
               PROVE  /\ \A f \in attempted \ settled' : \E v \in Workers : job'[v].event = f
                      /\ \A n \in notes : \E f \in attempted :
                           /\ stream[f] = n.act
                           /\ \A v \in Workers : job'[v].event = f => job'[v].phase = "ack"
                      /\ \A m, n \in notes : m.act = n.act => m = n
    <3>1. {"crashes", "failures", "resent"} \subseteq Kinds
      BY DEF Kinds
    <3> QED BY <1>5, <1>6, <3>1 DEF NotesHaveHandlers, Taken
  <2>1. ASSUME NEW f \in attempted \ settled' PROVE \E v \in Workers : job'[v].event = f
    <3>1. f \in attempted \ settled /\ f # e
      BY <1>6, <2>1
    <3>2. PICK v \in Workers : job[v].event = f
      BY <3>1 DEF NotesHaveHandlers, Taken
    <3> QED BY <1>4, <3>1, <3>2 DEF e
  <2>2. ASSUME NEW n \in notes
        PROVE  \E f \in attempted : /\ stream[f] = n.act
                                    /\ \A v \in Workers : job'[v].event = f => job'[v].phase = "ack"
    <3>1. PICK f \in attempted : stream[f] = n.act /\ \A v \in Workers : job[v].event = f => job[v].phase = "ack"
      BY DEF NotesHaveHandlers
    <3>2. f # 0
      BY StreamFacts DEF TypeOK
    <3> QED BY <1>3, <1>4, <3>1, <3>2
  <2> QED BY <2>1, <2>2 DEF NotesHaveHandlers
<1> QED BY <1>1, <1>6, <1>7, <1>8, <1>9, <1>10, QuietWorker

LEMMA CrashInv ==
  ASSUME NotificationsInv, Crash
  PROVE  NotificationsInv'
<1> USE DEF NotificationsInv
<1>1. /\ Spend("crashes") /\ job' = [w \in Workers |-> NoJob] /\ pushes' = {}
      /\ lister' = [u \in Users |-> IF lister[u].step = "idle" THEN lister[u] ELSE NoList]
      /\ UNCHANGED <<tables, inFlight, stream, attempted, settled, notes, lastId, phone>>
  BY DEF Crash
<1>2. UNCHANGED <<acts, comments, owner, holder>>
  BY <1>1 DEF tables, phone
<1>3. UsedOK' /\ (\A i \in Kinds : Never(i)' => Never(i)) /\ ~Never("crashes")'
  BY <1>1, SpendFacts DEF Kinds
<1>4. NoJob \in Job /\ NoJob.event = 0 /\ NoJob.phase = "idle"
  BY DEF NoJob, Job
<1>5. \A w \in Workers : job'[w] = NoJob
  BY <1>1
<1>6. EventsOK' /\ NotesOK' /\ PhonesOK'
  <2>1. EventsOK'
    BY <1>1, <1>2, <1>4 DEF TypeOK, EventsOK, Job
  <2>2. NotesOK' /\ PhonesOK'
    BY <1>1, <1>2 DEF TypeOK, NotesOK, Note, PhonesOK
  <2> QED BY <2>1, <2>2
<1>7. OneHandEach' /\ NotesHaveHandlers'
  BY <1>3, <1>4, <1>5 DEF OneHandEach, NotesHaveHandlers
<1>8. HandledIsTold'
  <2>1. Never("failures")' => \A f \in settled : \A a : stream[f] = a => Told(a)'
    BY <1>1, <1>3, StillTold
  <2> QED BY <1>1, <1>4, <1>5, <2>1, HandledNext
<1>9. DevicesInStep' /\ PushGoesHome'
  BY <1>1, <1>2, DevicesKeep
<1>10. NoList \in List /\ NoList.step = "idle" /\ NoList.unread = {} /\ NoList.count = 0
  BY DEF NoList, List
<1>11. \A u \in Users : lister'[u].step = "idle" /\ lister'[u] \in {lister[u], NoList}
                        /\ (lister'[u] = lister[u] => lister[u].step = "idle")
  BY <1>1, <1>10
<1>12. ListsOK'
  BY <1>1, <1>10 DEF TypeOK, ListsOK, List
<1>13. FollowsCounted' /\ UnreadNotUnderstated'
  <2>1. FollowsCounted'
    BY <1>11 DEF FollowsCounted
  <2>2. ASSUME NEW u \in Users, ~lister'[u].cut
        PROVE  Cardinality(lister'[u].unread) <= lister'[u].count
    <3>1. CASE lister'[u] = lister[u]
      BY <1>11, <2>2, <3>1 DEF UnreadNotUnderstated
    <3>2. CASE lister'[u] = NoList
      <4>1. Cardinality({}) = 0
        BY FS_EmptySet
      <4> QED BY <1>10, <3>2, <4>1
    <3> QED BY <1>11, <3>1, <3>2
  <2> QED BY <2>1, <2>2 DEF UnreadNotUnderstated
<1> QED BY <1>1, <1>3, <1>6, <1>7, <1>8, <1>9, <1>12, <1>13, SameTables
---------------------------------------------------------------------------------
(* Pushes and devices *)

\* A step that leaves everything up to the notifications table alone.
LEMMA SameWork ==
  ASSUME NotificationsInv, UNCHANGED <<tables, inFlight, delivery, notes, lastId>>,
         UsedOK', \A j \in Kinds : Never(j)' => Never(j),
         PhonesOK', ListsOK', DevicesInStep', PushGoesHome',
         FollowsCounted', UnreadNotUnderstated'
  PROVE  NotificationsInv'
<1> USE DEF NotificationsInv
<1>1. UNCHANGED <<status, likes, follows, comments, acts, stream, job, attempted, settled>>
  BY DEF tables, delivery
<1>2. Grows /\ Tells
  BY <1>1, SameGrows DEF Tells
<1>3. NotesOK'
  BY <1>1 DEF TypeOK, NotesOK, Note
<1>4. EventsOK' /\ OneHandEach' /\ HandledIsTold'
  BY <1>1, <1>2, EventsKeep, HandsKeep, HandledKeeps
<1>5. NotesHaveHandlers'
  BY <1>1, <1>2, <1>3, SameNotes, HandlersKeep
<1> QED BY <1>1, <1>3, <1>4, <1>5, SameTables

\* A step of a push or of a device.
LEMMA PhoneKeeps ==
  ASSUME NotificationsInv, UNCHANGED <<tables, inFlight, delivery, notes, lastId, lister>>,
         UsedOK', \A j \in Kinds : Never(j)' => Never(j),
         PhonesOK', DevicesInStep', PushGoesHome'
  PROVE  NotificationsInv'
<1> USE DEF NotificationsInv
<1>1. Grows
  BY SameGrows DEF tables, delivery
<1>2. ListsOK' /\ FollowsCounted' /\ UnreadNotUnderstated'
  BY <1>1, SameNotes, ListsKeep, CountsKeep, UnreadKeep DEF TypeOK
<1> QED BY <1>2, SameWork

\* The devices that a push reads are those its recipient holds.
LEMMA ReadDevicesInv ==
  ASSUME NotificationsInv, NEW p \in pushes, ReadDevices(p)
  PROVE  NotificationsInv'
<1> USE DEF NotificationsInv
<1>1. UNCHANGED <<tables, inFlight, delivery, notes, lastId, phone, lister, used>>
  BY DEF ReadDevices
<1>2. UNCHANGED <<owner, holder>>
  BY <1>1 DEF phone
<1> DEFINE q == [p EXCEPT !.step = "send", !.devices = GetByUserID(p.user)]
<1>3. pushes' \subseteq pushes \cup {q}
  BY DEF ReadDevices
<1>4. /\ q \in Push /\ q.user = p.user /\ q.home = p.home /\ q.devices = HeldBy(p.user)
  <2>1. GetByUserID(p.user) = HeldBy(p.user) /\ HeldBy(p.user) \subseteq Devices
    BY DEF GetByUserID, HeldBy, DevicesInStep
  <2>2. p \in Push
    BY PushFacts
  <2> QED BY <2>1, <2>2 DEF Push
<1> HIDE DEF q
<1>5. PhonesOK'
  BY <1>2, <1>3, <1>4 DEF TypeOK, PhonesOK, Push
<1>6. DevicesInStep' /\ PushGoesHome'
  BY <1>2, <1>3, <1>4 DEF DevicesInStep, PushGoesHome, HeldBy
<1> QED BY <1>1, <1>5, <1>6, NoneSpent, PhoneKeeps

LEMMA PushEndsInv ==
  ASSUME NotificationsInv, NEW p \in pushes, Send(p) \/ PushFails(p)
  PROVE  NotificationsInv'
<1> USE DEF NotificationsInv
<1>1. /\ UNCHANGED <<tables, inFlight, delivery, notes, lastId, phone, lister>>
      /\ pushes' \subseteq pushes
  BY DEF Send, PushFails
<1>2. UNCHANGED <<owner, holder>>
  BY <1>1 DEF phone
<1>3. UsedOK' /\ \A j \in Kinds : Never(j)' => Never(j)
  BY SpendFacts, NoneSpent DEF Send, PushFails, Kinds
<1>4. PhonesOK' /\ DevicesInStep' /\ PushGoesHome'
  BY <1>1, <1>2, DevicesKeep DEF TypeOK, PhonesOK, Push
<1> QED BY <1>1, <1>3, <1>4, PhoneKeeps

\* A device changes hands in the table as it does in the world.
LEMMA DeviceMoves ==
  ASSUME NotificationsInv, NEW u \in Users \cup {NoUser}, NEW d \in Devices,
         Spend("devices"), owner' = [owner EXCEPT ![d] = u], Holds(u, d),
         UNCHANGED <<tables, inFlight, delivery, notes, lastId, lister>>
  PROVE  NotificationsInv'
<1> USE DEF NotificationsInv
<1> DEFINE Known(p) == IF p.user = u THEN [p EXCEPT !.home = @ \cup {d}] ELSE p
<1>1. /\ holder' = [holder EXCEPT ![d] = u] /\ owner' = [owner EXCEPT ![d] = u]
      /\ pushes' = {Known(p) : p \in pushes}
  BY DEF Holds
<1>2. UsedOK' /\ \A j \in Kinds : Never(j)' => Never(j)
  BY SpendFacts DEF Kinds
<1>3. \A p \in pushes : /\ Known(p) \in Push /\ Known(p).user = p.user
                        /\ Known(p).devices = p.devices
                        /\ p.home \subseteq Known(p).home
                        /\ p.user = u => d \in Known(p).home
  <2> SUFFICES ASSUME NEW p \in Push
               PROVE  /\ Known(p) \in Push /\ Known(p).user = p.user
                      /\ Known(p).devices = p.devices
                      /\ p.home \subseteq Known(p).home
                      /\ p.user = u => d \in Known(p).home
    BY PushFacts
  <2> QED BY DEF Push
<1> HIDE DEF Known
<1>4. \A q \in pushes' : \E p \in pushes : q = Known(p)
  BY <1>1
<1>5. PhonesOK'
  <2>1. pushes' \subseteq Push /\ Push' = Push
    BY <1>3, <1>4 DEF Push
  <2> QED BY <1>1, <2>1 DEF TypeOK, PhonesOK
<1>6. /\ \A v : HeldBy(v)' \subseteq HeldBy(v) \cup (IF v = u THEN {d} ELSE {})
      /\ owner' = holder'
  BY <1>1 DEF HeldBy, DevicesInStep, TypeOK
<1>7. DevicesInStep' /\ PushGoesHome'
  <2> SUFFICES ASSUME NEW q \in pushes' PROVE HeldBy(q.user)' \subseteq q.home /\ q.devices \subseteq q.home
    BY <1>6 DEF DevicesInStep, PushGoesHome, HeldBy
  <2>1. PICK p \in pushes : /\ q.user = p.user /\ q.devices = p.devices /\ p.home \subseteq q.home
                            /\ (p.user = u => d \in q.home)
    BY <1>3, <1>4
  <2>2. HeldBy(p.user) \subseteq p.home /\ p.devices \subseteq p.home
    BY DEF DevicesInStep, PushGoesHome
  <2> SUFFICES ASSUME NEW c \in Devices, holder'[c] = q.user PROVE c \in q.home
    BY <2>1, <2>2 DEF HeldBy
  <2>3. CASE c = d
    BY <1>1, <2>1, <2>3 DEF TypeOK
  <2>4. CASE c # d
    BY <1>1, <2>1, <2>2, <2>4 DEF TypeOK, HeldBy
  <2> QED BY <2>3, <2>4
<1> QED BY <1>2, <1>5, <1>7, PhoneKeeps

LEMMA DeviceInv ==
  ASSUME NotificationsInv, NEW d \in Devices,
         RemoveDeviceToken(d) \/ \E u \in Users : RegisterDeviceToken(u, d)
  PROVE  NotificationsInv'
<1>1. CASE RemoveDeviceToken(d)
  BY <1>1, DeviceMoves DEF RemoveDeviceToken, Delete
<1>2. ASSUME NEW u \in Users, RegisterDeviceToken(u, d) PROVE NotificationsInv'
  BY <1>2, DeviceMoves DEF RegisterDeviceToken, Upsert
<1> QED BY <1>1, <1>2
---------------------------------------------------------------------------------
(* Lists and marks *)

LEMMA ListKeeps ==
  ASSUME NotificationsInv, NEW u \in Users, NEW l \in List, lister' = [lister EXCEPT ![u] = l],
         UNCHANGED <<tables, inFlight, delivery, notes, lastId, pushes, phone>>,
         UsedOK', \A j \in Kinds : Never(j)' => Never(j),
         l.step = "aggregate" /\ ~l.cut =>
           Cardinality({i \in l.unread : i \in Ids(FollowNotes(u))}) <= l.count,
         l.step = "idle" /\ ~l.cut => Cardinality(l.unread) <= l.count
  PROVE  NotificationsInv'
<1> USE DEF NotificationsInv
<1>1. UNCHANGED <<acts, owner, holder>>
  BY DEF tables, phone
<1>2. /\ lister' \in [Users -> List] /\ lister'[u] = l
      /\ \A v \in Users \ {u} : lister'[v] = lister[v]
  BY DEF TypeOK
<1>3. ListsOK' /\ PhonesOK'
  BY <1>1, <1>2 DEF ListsOK, List, TypeOK, PhonesOK, Push
<1>4. DevicesInStep' /\ PushGoesHome'
  BY <1>1, DevicesKeep
<1>5. UnreadNotUnderstated'
  BY <1>2 DEF UnreadNotUnderstated
<1>6. FollowsCounted'
  <2> SUFFICES ASSUME NEW v \in Users, lister'[v].step = "aggregate", ~lister'[v].cut
               PROVE  Cardinality({i \in lister'[v].unread : i \in Ids(FollowNotes(v))'}) <= lister'[v].count
    BY DEF FollowsCounted
  <2>1. Ids(FollowNotes(v))' = Ids(FollowNotes(v))
    BY <1>1 DEF Ids, FollowNotes, OfUser
  <2>2. CASE v = u
    BY <1>2, <2>1, <2>2
  <2>3. CASE v # u
    BY <1>2, <2>1, <2>3 DEF FollowsCounted
  <2> QED BY <2>2, <2>3
<1> QED BY <1>3, <1>4, <1>5, <1>6, SameWork

\* There are at most as many ids as notifications.
LEMMA IdsBounded ==
  ASSUME TypeOK, NEW N \in SUBSET notes
  PROVE  /\ IsFiniteSet(N) /\ Cardinality(N) \in Nat
         /\ IsFiniteSet(Ids(N)) /\ Cardinality(Ids(N)) \in Nat
         /\ Cardinality(Ids(N)) <= Cardinality(N)
<1>1. IsFiniteSet(N)
  BY FS_Subset DEF TypeOK
<1> DEFINE f == [n \in N |-> n.id]
<1>2. f \in Surjection(N, Ids(N))
  BY DEF Surjection, Ids
<1> HIDE DEF f
<1>3. IsFiniteSet(Ids(N)) /\ Cardinality(Ids(N)) <= Cardinality(N)
  BY <1>1, <1>2, FS_Surjection
<1> QED BY <1>1, <1>3, FS_CardinalityType

LEMMA ListFollowsInv ==
  ASSUME NotificationsInv, NEW u \in Users, ListFollows(u)
  PROVE  NotificationsInv'
<1> USE DEF NotificationsInv
<1> DEFINE F == FollowNotes(u)
           l == [step |-> "aggregate", count |-> Cardinality(Unread(Listed(F))),
                 unread |-> Ids(Unread(OfUser(u))), cut |-> Listed(F) # F]
<1>1. /\ Spend("lists") /\ lister' = [lister EXCEPT ![u] = l]
      /\ UNCHANGED <<tables, inFlight, delivery, notes, lastId, pushes, phone>>
  BY DEF ListFollows
<1>2. /\ Unread(Listed(F)) \subseteq notes /\ Unread(F) \subseteq notes
      /\ Unread(OfUser(u)) \subseteq notes
  BY DEF Unread, Listed, FollowNotes, OfUser
<1>3. Cardinality(Unread(Listed(F))) \in Nat
  BY <1>2, IdsBounded
<1>4. Ids(Unread(OfUser(u))) \subseteq 1 .. lastId
  BY <1>2, NoteFacts DEF Ids
<1>5. l \in List /\ l.step = "aggregate"
  BY <1>3, <1>4 DEF List
<1>6. ASSUME ~l.cut
      PROVE  Cardinality({i \in l.unread : i \in Ids(F)}) <= l.count
  <2>1. l.count = Cardinality(Unread(F))
    BY <1>6
  <2>2. {i \in l.unread : i \in Ids(F)} \subseteq Ids(Unread(F))
    <3> SUFFICES ASSUME NEW n \in Unread(OfUser(u)), NEW m \in F, n.id = m.id
                 PROVE  n.id \in Ids(Unread(F))
      BY DEF Ids
    <3>1. n \in notes /\ m \in notes
      BY DEF Unread, OfUser, FollowNotes
    <3>2. n = m
      BY <3>1 DEF TypeOK
    <3> QED BY <3>2 DEF Unread, Ids
  <2> DEFINE I == {i \in l.unread : i \in Ids(F)}
  <2>3. /\ IsFiniteSet(Ids(Unread(F))) /\ Cardinality(Ids(Unread(F))) \in Nat
        /\ Cardinality(Unread(F)) \in Nat /\ Cardinality(Ids(Unread(F))) <= Cardinality(Unread(F))
    BY <1>2, IdsBounded
  <2>4. I \in SUBSET Ids(Unread(F))
    BY <2>2
  <2> HIDE DEF I, F, l
  <2>5. IsFiniteSet(I) /\ Cardinality(I) <= Cardinality(Ids(Unread(F)))
    BY <2>3, <2>4, FS_Subset
  <2>6. Cardinality(I) \in Nat
    BY <2>5, FS_CardinalityType
  <2>7. Cardinality(I) <= l.count
    BY <2>1, <2>3, <2>5, <2>6
  <2> QED BY <2>7 DEF I
<1>7. UsedOK' /\ \A j \in Kinds : Never(j)' => Never(j)
  BY <1>1, SpendFacts DEF Kinds
<1> HIDE DEF l
<1> QED BY <1>1, <1>5, <1>6, <1>7, ListKeeps

\* What is still unread is a follow, counted before, or in an unread group.
LEMMA ListAggregatedInv ==
  ASSUME NotificationsInv, NEW u \in Users, ListAggregated(u)
  PROVE  NotificationsInv'
<1> USE DEF NotificationsInv
<1> DEFINE o == lister[u]
           U == UNION {G \in ListedGroups(u) : Unread(G) # {}}
           l == [step |-> "idle", count |-> o.count + AggregatedUnread(u),
                 unread |-> o.unread \cap Ids(Unread(OfUser(u))),
                 cut |-> o.cut \/ ListedGroups(u) # Groups(u)]
<1>1. /\ o.step = "aggregate" /\ lister' = [lister EXCEPT ![u] = l]
      /\ UNCHANGED <<tables, inFlight, delivery, notes, lastId, pushes, phone, used>>
  BY DEF ListAggregated
<1>2. o.count \in Nat /\ o.unread \subseteq 1 .. lastId /\ o.cut \in BOOLEAN
  BY ListFacts
<1>3. U \subseteq notes /\ AggregatedUnread(u) = Cardinality(U)
  BY DEF AggregatedUnread, ListedGroups, Groups, OfUser
<1>4. /\ Cardinality(U) \in Nat /\ IsFiniteSet(Ids(U)) /\ Cardinality(Ids(U)) \in Nat
      /\ Cardinality(Ids(U)) <= Cardinality(U)
  BY <1>3, IdsBounded
<1>5. l \in List /\ l.step = "idle"
  BY <1>2, <1>3, <1>4 DEF List
<1>6. ASSUME ~l.cut
      PROVE  Cardinality(l.unread) <= l.count
  <2> DEFINE A == {i \in o.unread : i \in Ids(FollowNotes(u))}
             I == o.unread \cap Ids(Unread(OfUser(u)))
  <2>1. ~o.cut /\ ListedGroups(u) = Groups(u)
    BY <1>6
  <2>2. IsFiniteSet(A) /\ Cardinality(A) <= o.count
    BY <1>1, <2>1, FollowIdsFinite DEF FollowsCounted
  <2>3. I \subseteq A \cup Ids(U)
    <3> SUFFICES ASSUME NEW n \in Unread(OfUser(u)), n.id \in o.unread, n \notin FollowNotes(u)
                 PROVE  n \in U
      BY DEF Ids
    <3> DEFINE G == {m \in OfUser(u) \ FollowNotes(u) : Similar(m.act, n.act)}
    <3>1. n \in OfUser(u) \ FollowNotes(u) /\ ~n.read
      BY DEF Unread
    <3>2. n \in G /\ G \in Groups(u) /\ n \in Unread(G)
      BY <3>1 DEF Groups, Similar, Unread
    <3> QED BY <2>1, <3>2
  <2> HIDE DEF A, I, U, o
  <2>4. /\ IsFiniteSet(A \cup Ids(U)) /\ Cardinality(A) \in Nat
        /\ Cardinality(A \cup Ids(U)) <= Cardinality(A) + Cardinality(Ids(U))
    <3>1. IsFiniteSet(A \cap Ids(U))
      BY <2>2, FS_Subset
    <3>2. Cardinality(A \cap Ids(U)) \in Nat /\ Cardinality(A) \in Nat
      BY <2>2, <3>1, FS_CardinalityType
    <3>3. /\ IsFiniteSet(A \cup Ids(U))
          /\ Cardinality(A \cup Ids(U)) = Cardinality(A) + Cardinality(Ids(U)) - Cardinality(A \cap Ids(U))
      BY <1>4, <2>2, FS_Union
    <3> QED BY <1>4, <3>2, <3>3
  <2>5. IsFiniteSet(I) /\ Cardinality(I) <= Cardinality(A \cup Ids(U))
    BY <2>3, <2>4, FS_Subset
  <2>6. Cardinality(I) \in Nat /\ Cardinality(A \cup Ids(U)) \in Nat
    BY <2>4, <2>5, FS_CardinalityType
  <2>7. Cardinality(I) <= o.count + Cardinality(U)
    BY <1>2, <1>4, <2>2, <2>4, <2>5, <2>6
  <2>8. l.unread = I /\ l.count = o.count + Cardinality(U)
    BY <1>3 DEF I, o
  <2> QED BY <2>7, <2>8
<1> HIDE DEF l
<1> QED BY <1>1, <1>5, <1>6, NoneSpent, ListKeeps

LEMMA ListFailsInv ==
  ASSUME NotificationsInv, NEW u \in Users, ListFails(u)
  PROVE  NotificationsInv'
<1> USE DEF NotificationsInv
<1>1. /\ Spend("failures") /\ lister' = [lister EXCEPT ![u] = NoList]
      /\ UNCHANGED <<tables, inFlight, delivery, notes, lastId, pushes, phone>>
  BY DEF ListFails
<1>2. NoList \in List /\ NoList.step = "idle" /\ NoList.unread = {} /\ NoList.count = 0
  BY DEF NoList, List
<1>3. Cardinality(NoList.unread) <= NoList.count /\ NoList.step # "aggregate"
  BY <1>2, FS_EmptySet
<1>4. UsedOK' /\ \A j \in Kinds : Never(j)' => Never(j)
  BY <1>1, SpendFacts DEF Kinds
<1> QED BY <1>1, <1>2, <1>3, <1>4, ListKeeps

\* A mark takes away no notification and changes neither its id nor its act.
LEMMA MarkReadInv ==
  ASSUME NotificationsInv, NEW N \in SUBSET notes, MarkRead(N)
  PROVE  NotificationsInv'
<1> USE DEF NotificationsInv
<1> DEFINE Marked(n) == IF n \in N THEN [n EXCEPT !.read = TRUE] ELSE n
<1>1. /\ Spend("marks") /\ notes' = {Marked(n) : n \in notes}
      /\ UNCHANGED <<tables, inFlight, delivery, lastId, pushes, phone, lister>>
  BY DEF MarkRead
<1>2. UNCHANGED <<status, likes, follows, comments, acts>>
  BY <1>1 DEF tables
<1>3. UsedOK' /\ \A j \in Kinds : Never(j)' => Never(j)
  BY <1>1, SpendFacts DEF Kinds
<1>4. \A n \in notes : Marked(n) \in Note /\ Marked(n).id = n.id /\ Marked(n).act = n.act
  <2> SUFFICES ASSUME NEW n \in Note
               PROVE  Marked(n) \in Note /\ Marked(n).id = n.id /\ Marked(n).act = n.act
    BY NoteFacts
  <2> QED BY DEF Note
<1>5. IsFiniteSet(notes')
  <2> DEFINE f == [n \in notes |-> Marked(n)]
  <2>1. f \in Surjection(notes, notes')
    BY <1>1 DEF Surjection
  <2> HIDE DEF f
  <2> QED BY <2>1, FS_Surjection DEF TypeOK
<1> HIDE DEF Marked
<1>6. NotesOK'
  <2>1. notes' \subseteq Note'
    BY <1>1, <1>2, <1>4 DEF Note
  <2>2. \A m, n \in notes' : m.id = n.id => m = n
    BY <1>1, <1>4 DEF TypeOK
  <2>3. \A n \in notes' : acts'[n.act].type = "comment" => n.act \in comments'
    BY <1>1, <1>2, <1>4 DEF TypeOK
  <2> QED BY <1>1, <1>5, <2>1, <2>2, <2>3 DEF TypeOK, NotesOK
<1>7. Tells /\ KeepIds
  BY <1>1, <1>2, <1>4 DEF Tells, KeepIds
<1>8. TablesOK'
  BY <1>1, <1>2 DEF TypeOK, TablesOK, Act
<1> QED BY <1>1, <1>2, <1>3, <1>6, <1>7, <1>8, TablesInv
---------------------------------------------------------------------------------
(* The invariant *)

LEMMA InitInv == Init => NotificationsInv
<1> SUFFICES ASSUME Init PROVE NotificationsInv
  OBVIOUS
<1>1. /\ status = [p \in Posts |-> IF p \in InitPosts THEN "live" ELSE "none"]
      /\ likes = {} /\ follows = {} /\ comments = {} /\ acts = <<>>
      /\ inFlight = {} /\ stream = <<>>
      /\ job = [w \in Workers |-> NoJob] /\ attempted = {} /\ settled = {}
      /\ notes = {} /\ lastId = 0 /\ pushes = {}
      /\ owner = [d \in Devices |-> NoUser] /\ holder = owner
      /\ lister = [u \in Users |-> NoList]
      /\ used = [k \in Kinds |-> 0]
  BY DEF Init
<1>2. DOMAIN acts = {} /\ DOMAIN stream = {} /\ acts \in Seq(Act) /\ stream \in Seq(DOMAIN acts)
  BY <1>1, EmptySeq
<1>3. NoJob \in Job /\ NoJob.event = 0 /\ NoJob.phase = "idle"
  BY DEF NoJob, Job
<1>4. NoList \in List /\ NoList.step = "idle" /\ NoList.unread = {} /\ NoList.count = 0
  BY DEF NoList, List
<1>5. Cardinality({}) = 0 /\ IsFiniteSet({})
  BY FS_EmptySet
<1>6. (\A w \in Workers : job[w] = NoJob) /\ \A u \in Users : lister[u] = NoList
  BY <1>1
<1>7. TypeOK
  <2>1. TablesOK
    BY <1>1, <1>2 DEF TablesOK
  <2>2. EventsOK
    BY <1>1, <1>2, <1>3 DEF EventsOK
  <2>3. NotesOK /\ PhonesOK
    BY <1>1, <1>5 DEF NotesOK, PhonesOK
  <2>4. ListsOK /\ UsedOK
    BY <1>1, <1>4 DEF ListsOK, UsedOK
  <2> QED BY <2>1, <2>2, <2>3, <2>4, TypeParts
<1>8. OneHandEach /\ DevicesInStep /\ PushGoesHome /\ PostsStay
  BY <1>1, <1>2, <1>3, <1>6 DEF OneHandEach, DevicesInStep, PushGoesHome, PostsStay
<1>9. NoneForgotten /\ HandledIsTold /\ OneEventEach /\ NotesHaveHandlers
  BY <1>1, <1>2, <1>3, <1>6 DEF NoneForgotten, HandledIsTold, OneEventEach, NotesHaveHandlers
<1>10. FollowsCounted /\ UnreadNotUnderstated
  BY <1>4, <1>5, <1>6 DEF FollowsCounted, UnreadNotUnderstated
<1> QED BY <1>7, <1>8, <1>9, <1>10 DEF NotificationsInv

LEMMA StutterInv ==
  ASSUME NotificationsInv, UNCHANGED vars
  PROVE  NotificationsInv'
<1> USE DEF NotificationsInv
<1>1. /\ UNCHANGED <<tables, inFlight, delivery, notes, lastId, pushes, phone, lister, used>>
      /\ UNCHANGED <<owner, holder>>
  BY DEF vars, phone
<1>2. PhonesOK' /\ DevicesInStep' /\ PushGoesHome'
  BY <1>1, DevicesKeep DEF TypeOK, PhonesOK, Push
<1> QED BY <1>1, <1>2, NoneSpent, PhoneKeeps

LEMMA NextInv ==
  ASSUME NotificationsInv, [Next]_vars
  PROVE  NotificationsInv'
<1>1. CASE \E u \in Users : \/ \E p \in Posts : Like(u, p) \/ Comment(u, p)
                            \/ \E a \in Users : Follow(u, a)
  BY <1>1, ActInv
<1>2. CASE Undo
  BY <1>2, UndoInv
<1>3. CASE \E T \in SUBSET comments \ {{}} : DeleteComments(T)
  BY <1>3, DeleteCommentsInv
<1>4. CASE \E p \in Posts : CreatePost(p) \/ DeletePost(p)
  BY <1>4, PostInv
<1>5. CASE \E a \in inFlight : Publish(a) \/ PublishAgain(a) \/ LosePublish(a)
  BY <1>5, PublishInv
<1>6. CASE \E w \in Workers : \/ \E e \in DOMAIN stream : Attempt(w, e)
                              \/ Backfill(w) \/ CreateNotification(w)
                              \/ CreateNotificationFails(w) \/ Ack(w)
  BY <1>6, AttemptInv, BackfillInv, CreateNotificationInv, CreateNotificationFailsInv, AckInv
<1>7. CASE Crash
  BY <1>7, CrashInv
<1>8. CASE \E p \in pushes : ReadDevices(p) \/ Send(p) \/ PushFails(p)
  BY <1>8, ReadDevicesInv, PushEndsInv
<1>9. CASE \E d \in Devices : RemoveDeviceToken(d) \/ \E u \in Users : RegisterDeviceToken(u, d)
  BY <1>9, DeviceInv
<1>10. CASE \E u \in Users : \/ ListFollows(u) \/ ListAggregated(u) \/ ListFails(u)
                             \/ MarkAllAsRead(u)
                             \/ \E ids \in SUBSET Ids(notes) \ {{}} : MarkAsRead(u, ids)
  <2> PICK u \in Users : \/ ListFollows(u) \/ ListAggregated(u) \/ ListFails(u)
                         \/ MarkAllAsRead(u)
                         \/ \E ids \in SUBSET Ids(notes) \ {{}} : MarkAsRead(u, ids)
    BY <1>10
  <2>1. CASE ListFollows(u) \/ ListAggregated(u) \/ ListFails(u)
    BY <2>1, ListFollowsInv, ListAggregatedInv, ListFailsInv
  <2>2. CASE MarkAllAsRead(u)
    <3>1. Unread(OfUser(u)) \in SUBSET notes /\ MarkRead(Unread(OfUser(u)))
      BY <2>2 DEF MarkAllAsRead, Unread, OfUser
    <3> QED BY <3>1, MarkReadInv
  <2>3. ASSUME NEW ids, MarkAsRead(u, ids) PROVE NotificationsInv'
    <3>1. /\ {n \in OfUser(u) : n.id \in ids} \in SUBSET notes
          /\ MarkRead({n \in OfUser(u) : n.id \in ids})
      BY <2>3 DEF MarkAsRead, OfUser
    <3> QED BY <3>1, MarkReadInv
  <2> QED BY <2>1, <2>2, <2>3
<1>11. CASE UNCHANGED vars
  BY <1>11, StutterInv
<1> QED BY <1>1, <1>2, <1>3, <1>4, <1>5, <1>6, <1>7, <1>8, <1>9, <1>10, <1>11 DEF Next

\* The inductive invariant holds in every reachable state.
THEOREM NotificationsInvariant == Spec => []NotificationsInv
BY InitInv, NextInv, PTL DEF Spec

\* Every variable keeps its type, notifications their ids and their comments.
THEOREM TypeCorrect == Spec => []TypeOK
<1>1. NotificationsInv => TypeOK
  BY DEF NotificationsInv
<1> QED BY <1>1, NotificationsInvariant, PTL

\* When every event was handled every act that is due a notification has one,
\* unless an event was lost or a call failed: whatever crashed, was handed out
\* again, deleted or taken back meanwhile.
THEOREM ActsNotified == Spec => []EveryActNotified
<1>1. NotificationsInv => EveryActNotified
  <2> SUFFICES ASSUME NotificationsInv, inFlight = {}, settled = DOMAIN stream,
                      Never("failures"), Never("lost"), NEW a \in DOMAIN acts, HasEvent(a),
                      acts[a].type = "comment" => a \in comments,
                      acts[a].type = "follow" => acts[a].had \cap LiveBy(acts[a].user) # {}
               PROVE  NotesOf(a) # {}
    BY DEF EveryActNotified
  <2>1. PICK e \in DOMAIN stream : stream[e] = a
    BY DEF NotificationsInv, NoneForgotten, Appended
  <2>2. Told(stream[e])
    BY DEF NotificationsInv, HandledIsTold
  <2> QED BY <2>1, <2>2 DEF Told
<1> QED BY <1>1, NotificationsInvariant, PTL

\* Without crashes, failures and events sent twice no act is notified twice,
\* however many workers run.
THEOREM ActsNotifiedOnce == Spec => []NotifiedOnce
<1>1. NotificationsInv => NotifiedOnce
  <2> SUFFICES ASSUME NotificationsInv, Never("crashes"), Never("failures"), Never("resent"), NEW a
               PROVE  Cardinality(NotesOf(a)) <= 1
    BY DEF NotifiedOnce
  <2>1. \A m, n \in NotesOf(a) : m = n
    BY DEF NotificationsInv, NotesHaveHandlers, NotesOf
  <2>2. CASE NotesOf(a) = {}
    BY <2>2, FS_EmptySet
  <2>3. CASE NotesOf(a) # {}
    <3>1. PICK n \in NotesOf(a) : TRUE
      BY <2>3
    <3>2. NotesOf(a) = {n}
      BY <2>1, <3>1
    <3>3. Cardinality(NotesOf(a)) = 1
      BY <3>2, FS_Singleton
    <3> QED BY <3>3
  <2> QED BY <2>2, <2>3
<1> QED BY <1>1, NotificationsInvariant, PTL

\* A push reaches only devices that its recipient used since the notification
\* was made, however tokens are registered and removed while it is sent.
THEOREM PushesGoHome == Spec => []PushGoesHome
<1>1. NotificationsInv => PushGoesHome
  BY DEF NotificationsInv
<1> QED BY <1>1, NotificationsInvariant, PTL

\* The unread count is at least what was unread all the time, whatever is
\* inserted, marked or deleted between the two queries of a list.
THEOREM UnreadCounted == Spec => []UnreadNotUnderstated
<1>1. NotificationsInv => UnreadNotUnderstated
  BY DEF NotificationsInv
<1> QED BY <1>1, NotificationsInvariant, PTL
---------------------------------------------------------------------------------
(* The workers keep to EventDelivery *)

\* What each worker has in hand, and the workers inside a handler.
Hands == [w \in Workers |-> job[w].event]
Busy == {w \in Workers : job[w].phase \in Working}

\* What one worker's step does to them.
LEMMA HandMoves ==
  ASSUME NEW w \in Workers, \A v \in Workers \ {w} : job'[v] = job[v]
  PROVE  /\ Hands' = [Hands EXCEPT ![w] = job'[w].event]
         /\ Busy' = IF job'[w].phase \in Working THEN Busy \cup {w} ELSE Busy \ {w}
<1>1. Hands' = [Hands EXCEPT ![w] = job'[w].event]
  BY DEF Hands
<1>2. Busy' = IF job'[w].phase \in Working THEN Busy \cup {w} ELSE Busy \ {w}
  BY DEF Busy
<1> QED BY <1>1, <1>2

\* A step that leaves every worker's hand, and whether it is inside a handler,
\* as it was does nothing to the contract.
LEMMA HandStays ==
  ASSUME NEW w \in Workers, \A v \in Workers \ {w} : job'[v] = job[v],
         job'[w].event = job[w].event, (job'[w].phase \in Working) <=> (job[w].phase \in Working)
  PROVE  UNCHANGED <<Hands, Busy>>
<1>1. Hands' = Hands
  BY DEF Hands
<1>2. Busy' = Busy
  BY DEF Busy
<1> QED BY <1>1, <1>2

LEMMA ContractStep == NotificationsInv /\ [Next]_vars => [Delivery!DNext]_(Delivery!dvars)
<1> SUFFICES ASSUME NotificationsInv, [Next]_vars PROVE [Delivery!DNext]_(Delivery!dvars)
  OBVIOUS
<1> USE DEF NotificationsInv
<1>0. ASSUME UNCHANGED delivery PROVE UNCHANGED Delivery!dvars
  BY <1>0 DEF delivery, Delivery!dvars
<1>1. CASE \E u \in Users : \/ \E p \in Posts : Like(u, p) \/ Comment(u, p)
                            \/ \E a \in Users : Follow(u, a)
  BY <1>0, <1>1 DEF Like, Comment, Follow, Commit
<1>2. CASE \/ Undo \/ \E T \in SUBSET comments \ {{}} : DeleteComments(T)
           \/ \E p \in Posts : CreatePost(p) \/ DeletePost(p)
  BY <1>0, <1>2 DEF Undo, DeleteComments, CreatePost, DeletePost
<1>3. ASSUME NEW a \in inFlight, Publish(a) \/ PublishAgain(a) \/ LosePublish(a)
      PROVE  [Delivery!DNext]_(Delivery!dvars)
  <2>1. UNCHANGED <<job, attempted, settled>> /\ stream' \in {stream, Append(stream, a)}
    BY <1>3 DEF Publish, PublishAgain, LosePublish, delivery
  <2>2. CASE stream' = stream
    BY <1>0, <2>1, <2>2 DEF delivery
  <2>3. CASE stream' = Append(stream, a)
    <3>1. Len(stream') = Len(stream) + 1
      BY <2>3, AppendProperties DEF TypeOK
    <3>2. Delivery!Append
      BY <2>1, <3>1 DEF Delivery!Append
    <3> QED BY <3>2 DEF Delivery!DNext
  <2> QED BY <2>1, <2>2, <2>3
<1>4. ASSUME NEW w \in Workers, NEW e \in DOMAIN stream, Attempt(w, e)
      PROVE  [Delivery!DNext]_(Delivery!dvars)
  <2> DEFINE ph == IF acts[stream[e]].type = "follow" THEN "backfill" ELSE "notify"
  <2>1. /\ job[w] = NoJob /\ e \notin settled /\ e \notin Taken
        /\ job' = [job EXCEPT ![w] = [event |-> e, phase |-> ph]]
        /\ attempted' = attempted \cup {e} /\ UNCHANGED <<stream, settled>>
    BY <1>4 DEF Attempt, MayTake
  <2>2. ph \in Working
    BY DEF Working
  <2> HIDE DEF ph
  <2>3. /\ job'[w].event = e /\ job'[w].phase \in Working
        /\ \A v \in Workers \ {w} : job'[v] = job[v]
    BY <2>1, <2>2 DEF TypeOK
  <2>4. Hands' = [Hands EXCEPT ![w] = e] /\ Busy' = Busy \cup {w}
    BY <2>3, HandMoves
  <2>5. Delivery!MayAttempt(w, e)
    BY <2>1 DEF NoJob, Taken, Delivery!MayAttempt
  <2>6. Delivery!Attempt(w, e) /\ e \in 1 .. Len(stream)
    BY <2>1, <2>4, <2>5, StreamFacts DEF Delivery!Attempt, Hands, Busy
  <2> QED BY <2>6 DEF Delivery!DNext
<1>5. ASSUME NEW w \in Workers, Backfill(w) \/ CreateNotification(w) \/ CreateNotificationFails(w)
      PROVE  [Delivery!DNext]_(Delivery!dvars)
  <2>1. /\ job[w].phase \in Working /\ UNCHANGED <<tables, stream, attempted, settled>>
        /\ \E ph \in {"notify", "ack"} : job' = [job EXCEPT ![w].phase = ph]
    BY <1>5 DEF Backfill, CreateNotification, CreateNotificationFails, Working
  <2>2. PICK ph \in {"notify", "ack"} : job' = [job EXCEPT ![w].phase = ph]
    BY <2>1
  <2>3. /\ job'[w].phase = ph /\ job'[w].event = job[w].event
        /\ \A v \in Workers \ {w} : job'[v] = job[v]
        /\ job[w].event \in DOMAIN stream
    BY <2>1, <2>2, PhaseMoves DEF tables
  <2>4. CASE ph = "notify"
    <3>1. UNCHANGED <<Hands, Busy>>
      BY <2>1, <2>3, <2>4, HandStays DEF Working
    <3> QED BY <2>1, <3>1 DEF Delivery!dvars, Hands, Busy
  <2>5. CASE ph = "ack"
    <3>1. w \in Busy /\ Busy' = Busy \ {w} /\ Hands' = Hands
      BY <2>1, <2>3, <2>5, HandMoves DEF Busy, Hands, Working
    <3>2. Delivery!Return(w)
      BY <2>1, <3>1 DEF Delivery!Return, Hands, Busy
    <3> QED BY <3>2 DEF Delivery!DNext
  <2> QED BY <2>4, <2>5
<1>6. ASSUME NEW w \in Workers, Ack(w) PROVE [Delivery!DNext]_(Delivery!dvars)
  <2>1. /\ job[w].phase = "ack" /\ job' = [job EXCEPT ![w] = NoJob]
        /\ settled' \in {settled, settled \cup {job[w].event}}
        /\ UNCHANGED <<stream, attempted>>
    BY <1>6 DEF Ack
  <2>2. /\ job'[w].phase = "idle" /\ job'[w].event = 0
        /\ \A v \in Workers \ {w} : job'[v] = job[v]
    BY <2>1 DEF TypeOK, NoJob
  <2>3. w \notin Busy /\ Busy' = Busy \ {w} /\ Hands' = [Hands EXCEPT ![w] = 0]
    BY <2>1, <2>2, HandMoves DEF Busy, Working
  <2>4. Delivery!MaySettle(w)
    BY <2>1, <2>3 DEF OneHandEach, Delivery!MaySettle, Busy
  <2>5. CASE settled' = settled
    <3>1. Delivery!Leave(w)
      BY <2>1, <2>3, <2>4, <2>5 DEF Delivery!Leave, Hands, Busy
    <3> QED BY <3>1 DEF Delivery!DNext
  <2>6. CASE settled' = settled \cup {job[w].event}
    <3>1. Delivery!Settle(w)
      BY <2>1, <2>3, <2>4, <2>6 DEF Delivery!Settle, Hands, Busy
    <3> QED BY <3>1 DEF Delivery!DNext
  <2> QED BY <2>1, <2>5, <2>6
<1>7. CASE Crash
  <2>1. /\ \A w \in Workers : job'[w].phase = "idle" /\ job'[w].event = 0
        /\ UNCHANGED <<stream, attempted, settled>>
    BY <1>7 DEF Crash, NoJob
  <2>2. Hands' = Delivery!Nobody /\ Busy' = {}
    BY <2>1 DEF Hands, Busy, Delivery!Nobody, Working
  <2>3. Delivery!AbortAll
    BY <2>1, <2>2 DEF Delivery!AbortAll, Hands, Busy
  <2> QED BY <2>3 DEF Delivery!DNext
<1>8. CASE \/ \E p \in pushes : ReadDevices(p) \/ Send(p) \/ PushFails(p)
           \/ \E d \in Devices : RemoveDeviceToken(d) \/ \E u \in Users : RegisterDeviceToken(u, d)
  BY <1>0, <1>8 DEF ReadDevices, Send, PushFails, RemoveDeviceToken, RegisterDeviceToken
<1>9. CASE \E u \in Users : \/ ListFollows(u) \/ ListAggregated(u) \/ ListFails(u)
                            \/ MarkAllAsRead(u)
                            \/ \E ids \in SUBSET Ids(notes) \ {{}} : MarkAsRead(u, ids)
  BY <1>0, <1>9 DEF ListFollows, ListAggregated, ListFails, MarkAllAsRead, MarkAsRead, MarkRead
<1>10. CASE UNCHANGED vars
  BY <1>0, <1>10 DEF vars
<1> QED BY <1>1, <1>2, <1>3, <1>4, <1>5, <1>6, <1>7, <1>8, <1>9, <1>10 DEF Next

\* A worker with empty hands is idle, so whatever event the contract may hand it,
\* it takes: the model restricts deliveries by the contract and nothing else.
THEOREM WorkersTakeAll == Spec => []TakesWhatItMay
<1>1. NotificationsInv => TakesWhatItMay
  <2> SUFFICES ASSUME NotificationsInv, NEW w \in Workers, NEW e \in DOMAIN stream,
                      Delivery!MayAttempt(w, e)
               PROVE  MayTake(w, e)
    BY DEF TakesWhatItMay
  <2>1. /\ job[w].event = 0 /\ e \notin settled
        /\ \A v \in Workers : job[v].event # e
    BY DEF Delivery!MayAttempt
  <2>2. job[w] = NoJob
    <3>1. job[w] \in Job /\ job[w].event = 0 /\ job[w].phase = "idle"
      BY <2>1 DEF NotificationsInv, TypeOK, OneHandEach
    <3> QED BY <3>1 DEF Job, NoJob
  <2> QED BY <2>1, <2>2 DEF MayTake, Taken
<1> QED BY <1>1, NotificationsInvariant, PTL

\* The workers of this module keep to the contract of the event stream: no
\* event is in two hands, none is settled in a hand or handed out once settled;
\* and they take whatever it may hand them.
THEOREM WorkersKeepContract == Spec => DeliveryContract
<1>1. Init => Delivery!DInit
  <2> SUFFICES ASSUME Init PROVE Delivery!DInit
    OBVIOUS
  <2>1. Len(stream) = 0 /\ attempted = {} /\ settled = {}
    BY EmptySeq DEF Init
  <2>2. Hands = Delivery!Nobody /\ Busy = {}
    BY DEF Init, Hands, Busy, NoJob, Working, Delivery!Nobody
  <2> QED BY <2>1, <2>2 DEF Delivery!DInit, Hands, Busy
<1>2. NotificationsInv /\ [Next]_vars => [Delivery!DNext]_(Delivery!dvars)
  BY ContractStep
<1> QED BY NotificationsInvariant, WorkersTakeAll, <1>1, <1>2, PTL DEF Spec, DeliveryContract, Delivery!DSpec
=================================================================================
