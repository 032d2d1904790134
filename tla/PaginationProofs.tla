----------------------------- MODULE PaginationProofs -----------------------------
(***************************************************************************)
(* Proofs about Pagination for every number of items, seconds, fractions,  *)
(* limits and changes: what a client that follows the cursors of any list  *)
(* may miss and may see twice.                                             *)
(***************************************************************************)
EXTENDS Pagination, FiniteSetTheorems, TLAPS

USE ItemCountAssumption, TimesAssumption, LimitsAssumption, MaxChangesAssumption

\* Times are compared by three numbers.
LEMMA Numbers ==
  ASSUME NEW row \in Rows
  PROVE  row.s \in Nat /\ row.f \in Nat /\ row.id \in Nat
<1>1. row.s \in 0 .. LastSecond + 1 /\ row.f \in Fractions /\ row.id \in Nat
  BY DEF Rows
<1>2. \A n \in 0 .. LastSecond + 1 : n \in Nat
  OBVIOUS
<1> QED BY <1>1, <1>2

\* Times are ordered: Less is transitive, and so is being not above.
LEMMA LessTransitive ==
  ASSUME NEW a \in Rows, NEW b \in Rows, NEW c \in Rows
  PROVE  /\ Less(a, b) /\ Less(b, c) => Less(a, c)
         /\ Less(a, b) /\ ~Less(c, b) => Less(a, c)
         /\ ~Less(b, a) /\ Less(b, c) => Less(a, c)
         /\ ~Less(b, a) /\ ~Less(c, b) => ~Less(c, a)
         /\ ~Less(a, a)
<1>1. /\ a.s \in Int /\ a.f \in Int /\ a.id \in Int
      /\ b.s \in Int /\ b.f \in Int /\ b.id \in Int
      /\ c.s \in Int /\ c.f \in Int /\ c.id \in Int
  BY Numbers
<1> QED BY <1>1 DEF Less

\* What a cursor keeps of a time is not above it and of the same second.
LEMMA CursorFacts ==
  ASSUME NEW row \in Rows
  PROVE  /\ FollowCursor(row) \in Rows /\ FollowCursor(row).s = row.s
         /\ ~Less(row, FollowCursor(row))
         /\ formatCursor(row) \in Rows /\ formatCursor(row).s = row.s
         /\ ~Less(row, formatCursor(row))
         /\ formatCommentCursor(row) = formatCursor(row)
         /\ formatFeedCursor(row) = FollowCursor(row)
<1> USE DEF FollowCursor, formatCursor, formatCommentCursor, formatFeedCursor, At
<1>1. row.s \in Int /\ row.f \in Nat /\ row.id \in Nat
  BY Numbers
<1>2. FollowCursor(row) \in Rows /\ formatCursor(row) \in Rows
  BY DEF Rows
<1>3. ~Less(row, FollowCursor(row)) /\ ~Less(row, formatCursor(row))
  BY <1>1 DEF Less
<1> QED BY <1>2, <1>3

\* The cursor of a query that failed is below every row.
LEMMA ZeroTimeFacts ==
  /\ formatCursor(ZeroTime) \in Rows
  /\ \A row \in Rows : ~Less(row, formatCursor(ZeroTime))
<1>1. formatCursor(ZeroTime) = At(0, 0, 0) /\ At(0, 0, 0) \in Rows
  BY DEF formatCursor, ZeroTime, At, Rows
<1>2. ASSUME NEW row \in Rows PROVE ~Less(row, At(0, 0, 0))
  BY Numbers DEF At, Less
<1> QED BY <1>1, <1>2

\* Keys are times, of the second of their row, and as long as neither the
\* row nor the list changes, nor does the key.
LEMMA KeyFacts ==
  ASSUME TypeOK, NEW i \in Items
  PROVE  /\ Key(i) \in Rows /\ Key(i).s = rows[i].s
         /\ FollowCursor(rows[i]) = FollowCursor(Key(i))
         /\ list \notin FollowLists \cup {"feed"} => Key(i) = rows[i]
BY DEF TypeOK, Key, Rows, FollowCursor, At

\* Constants that occur as times.
LEMMA TimeFacts == NoCursor \in Rows /\ Absent \in Rows
BY DEF NoCursor, Absent, At, Rows

\* The invariant holds before the first request.
LEMMA InitInv == Init => PagesInv
<1> SUFFICES ASSUME Init PROVE PagesInv
  OBVIOUS
<1>1. rows \in [Items -> Rows]
  <2>1. PICK at \in [Items -> {<<>>} \cup Times(list)] :
          rows = [i \in Items |-> IF at[i] = <<>> THEN Absent ELSE At(at[i][1], at[i][2], i)]
    BY DEF Init
  <2>2. ASSUME NEW i \in Items PROVE rows[i] \in Rows
    <3>1. CASE at[i] = <<>>
      BY <2>1, <3>1, TimeFacts
    <3>2. CASE at[i] # <<>>
      <4>1. at[i] \in (1 .. LastSecond) \X Fractions
        BY <3>2 DEF Times
      <4> QED BY <2>1, <3>2, <4>1 DEF At, Rows, Items
    <3> QED BY <3>1, <3>2
  <2> QED BY <2>1, <2>2
<1>2. TypeOK
  <2>1. client \in [step : {"ask", "cursor", "hydrate", "done"}, cursor : Rows,
                    got : [page : SUBSET Items, size : Nat, last : Items \cup {0}, end : Rows]]
    BY TimeFacts DEF Init, InitClient, NoPage
  <2>2. walk \in [seen : SUBSET Items, twice : SUBSET Items, ends : SUBSET Rows,
                  stayed : SUBSET Present, slipped : BOOLEAN, cut : BOOLEAN]
    BY DEF Init, InitWalk
  <2>3. lastId \in Nat /\ changes \in 0 .. MaxChanges
    BY DEF Init
  <2> QED BY <1>1, <2>1, <2>2, <2>3 DEF Init, TypeOK
<1>3. ASSUME NEW i \in Present PROVE Less(Key(i), client.cursor)
  <2>1. PICK at \in [Items -> {<<>>} \cup Times(list)] :
          rows = [j \in Items |-> IF at[j] = <<>> THEN Absent ELSE At(at[j][1], at[j][2], j)]
    BY DEF Init
  <2>2. i \in Items /\ at[i] # <<>> /\ at[i] \in (1 .. LastSecond) \X Fractions
    BY <2>1 DEF Present, Times
  <2>3. rows[i].s \in 1 .. LastSecond
    BY <2>1, <2>2 DEF At
  <2>4. Key(i).s = rows[i].s
    BY <1>2, <2>2, KeyFacts
  <2> QED BY <2>3, <2>4 DEF Init, InitClient, NoCursor, At, Less
<1> QED BY <1>2, <1>3 DEF Init, InitClient, InitWalk, PagesInv, ShownOnce, MissedOnlyAtPageEnds

---------------------------------------------------------------------------------
(* Others *)

\* A step of others leaves the client alone, and the rows that stay.
LEMMA OthersKeep ==
  ASSUME PagesInv, TypeOK', client' = client, list' = list,
         walk' = [walk EXCEPT !.stayed = walk'.stayed],
         walk'.stayed \subseteq walk.stayed, walk'.stayed \cap hidden' = {},
         \A i \in walk'.stayed : rows'[i] = rows[i]
  PROVE  PagesInv'
<1>1. /\ walk'.seen = walk.seen /\ walk'.twice = walk.twice /\ walk'.ends = walk.ends
      /\ walk'.slipped = walk.slipped /\ walk'.cut = walk.cut
  BY DEF PagesInv, TypeOK
<1>2. \A i \in walk'.stayed : Key(i)' = Key(i)
  BY DEF Key
<1>3. \A i \in walk'.stayed : SameSecond(i) => SameSecond(i)'
  BY <1>1, <1>2 DEF SameSecond
<1>4. HeldPage(client.got) => HeldPage(client.got)'
  <2> SUFFICES ASSUME HeldPage(client.got) PROVE HeldPage(client.got)'
    OBVIOUS
  <2>1. Less(client.got.end, client.cursor)' /\ client'.got = client.got
    BY DEF HeldPage, Less
  <2>2. \A i \in walk'.stayed : i \in client.got.page =>
          (Less(Key(i), client.cursor) /\ ~Less(Key(i), client.got.end))'
    BY <1>2 DEF HeldPage, Less
  <2>3. ASSUME ~walk'.slipped, ~walk'.cut, NEW i \in walk'.stayed \ walk'.seen
        PROVE  (\/ i \in client.got.page \/ SameSecond(i)
                \/ ~Less(client.got.end, Key(i)) /\ Cardinality(client.got.page) = client.got.size)'
    BY <1>1, <1>2, <1>3, <2>3 DEF HeldPage, Less
  <2> QED BY <2>1, <2>2, <2>3 DEF HeldPage
<1>5. ShownOnce' /\ MissedOnlyAtPageEnds'
  BY <1>1, <1>3 DEF PagesInv, ShownOnce, MissedOnlyAtPageEnds
<1>6. \A i \in walk'.stayed : (Less(Key(i), client.cursor))' <=> Less(Key(i), client.cursor)
  BY <1>2 DEF Less
<1> QED BY <1>1, <1>3, <1>4, <1>5, <1>6 DEF PagesInv

\* Others keep the invariant.
LEMMA OthersInv == PagesInv /\ Others => PagesInv'
<1> SUFFICES ASSUME PagesInv, Others PROVE PagesInv'
  OBVIOUS
<1> USE DEF Disturb, Moved
<1>0. TypeOK /\ walk.stayed \cap hidden = {}
  BY DEF PagesInv
<1>1. CASE DeletePost
  <2>1. TypeOK' /\ walk' = walk
    BY <1>0, <1>1 DEF DeletePost, TypeOK, Present
  <2> QED BY <1>0, <1>1, <2>1, OthersKeep DEF DeletePost, TypeOK
<1>2. ASSUME NEW i \in Items, Add(i) PROVE PagesInv'
  <2>1. PICK t \in Times(list) :
          rows' = [rows EXCEPT ![i] = At(t[1], t[2], IF list = "likers" THEN lastId' ELSE i)]
    BY <1>2 DEF Add
  <2>2. /\ lastId' \in Nat /\ t[1] \in 1 .. LastSecond /\ t[2] \in Fractions
    BY <1>0, <1>2 DEF Add, TypeOK, Times
  <2>3. At(t[1], t[2], IF list = "likers" THEN lastId' ELSE i) \in Rows
    BY <2>2 DEF At, Rows, Items
  <2>4. At(t[1], t[2], IF list = "likers" THEN lastId' ELSE i) # Absent
    BY <2>2 DEF At, Absent
  <2>5. rows' \in [Items -> Rows] /\ Present' = Present \cup {i}
    BY <1>0, <2>1, <2>3, <2>4 DEF Present, TypeOK
  <2>6. TypeOK'
    BY <1>0, <1>2, <2>2, <2>5 DEF Add, TypeOK
  <2>7. \A j \in walk.stayed : rows'[j] = rows[j]
    BY <1>0, <1>2, <2>1 DEF Add, TypeOK, Present
  <2> QED BY <1>0, <1>2, <2>6, <2>7, OthersKeep DEF Add, TypeOK
<1>3. ASSUME NEW i \in Items, Remove(i) PROVE PagesInv'
  <2>1. rows' \in [Items -> Rows] /\ Present' = Present \ {i}
    BY <1>0, <1>3, TimeFacts DEF Remove, Present, TypeOK
  <2>2. walk'.stayed = walk.stayed \ {i} /\ walk' = [walk EXCEPT !.stayed = walk'.stayed]
    BY <1>0, <1>3 DEF Remove, TypeOK
  <2>3. TypeOK'
    BY <1>0, <1>3, <2>1, <2>2 DEF Remove, TypeOK
  <2>4. \A j \in walk'.stayed : rows'[j] = rows[j]
    BY <1>0, <1>3, <2>2 DEF Remove, TypeOK
  <2> QED BY <1>0, <1>3, <2>2, <2>3, <2>4, OthersKeep DEF Remove
<1>4. ASSUME NEW i \in Items, Hide(i) PROVE PagesInv'
  <2>1. walk'.stayed = walk.stayed \ {i} /\ walk' = [walk EXCEPT !.stayed = walk'.stayed]
    BY <1>0, <1>4 DEF Hide, TypeOK
  <2>2. TypeOK'
    BY <1>0, <1>4, <2>1 DEF Hide, TypeOK, Present
  <2> QED BY <1>0, <1>4, <2>1, <2>2, OthersKeep DEF Hide
<1>5. ASSUME NEW i \in Items, Rescore(i) PROVE PagesInv'
  <2>1. PICK s \in 1 .. LastSecond : rows' = [rows EXCEPT ![i].s = s]
    BY <1>5 DEF Rescore
  <2>2. rows' \in [Items -> Rows] /\ rows'[i].s # 0
    BY <1>0, <2>1 DEF TypeOK, Rows
  <2>3. Present' = Present
    BY <1>0, <1>5, <2>1, <2>2 DEF Rescore, Present, Absent, At, TypeOK
  <2>4. walk'.stayed = walk.stayed \ {i} /\ walk' = [walk EXCEPT !.stayed = walk'.stayed]
    BY <1>0, <1>5 DEF Rescore, TypeOK
  <2>5. TypeOK'
    BY <1>0, <1>5, <2>2, <2>3, <2>4 DEF Rescore, TypeOK
  <2>6. \A j \in walk'.stayed : rows'[j] = rows[j]
    BY <1>0, <2>1, <2>4 DEF TypeOK
  <2> QED BY <1>0, <1>5, <2>4, <2>5, <2>6, OthersKeep DEF Rescore
<1> QED BY <1>1, <1>2, <1>3, <1>4, <1>5 DEF Others

---------------------------------------------------------------------------------
(* The client *)

\* What is known of a page that was read: its rows are below the cursor and
\* not below end, the other rows that stayed are not above end.
PageRead(S, end) ==
  /\ S \subseteq Items /\ end \in Rows
  /\ Less(end, client.cursor)
  /\ \A i \in S \cap walk.stayed : Less(Key(i), client.cursor) /\ ~Less(Key(i), end)
  /\ ~walk.slipped /\ ~walk.cut =>
       \A i \in walk.stayed \ walk.seen : i \in S \/ SameSecond(i) \/ ~Less(end, Key(i))

\* A walk that differs at most in being marked as slipped or cut.
MarkedWalk(w) ==
  /\ w \in [seen : SUBSET Items, twice : SUBSET Items, ends : SUBSET Rows,
            stayed : SUBSET Present, slipped : BOOLEAN, cut : BOOLEAN]
  /\ w.seen = walk.seen /\ w.twice = walk.twice /\ w.ends = walk.ends
  /\ w.stayed = walk.stayed
  /\ (walk.slipped => w.slipped) /\ (walk.cut => w.cut)

\* The tables and with them the keys are as they were.
LEMMA SameTable ==
  ASSUME UNCHANGED table
  PROVE  /\ \A i : Key(i)' = Key(i) /\ rows'[i] = rows[i]
         /\ Present' = Present /\ hidden' = hidden /\ list' = list
         /\ fresh' = fresh /\ lastId' = lastId /\ deleted' = deleted
BY DEF table, Key, Present

\* Showing a page below the cursor shows no row twice that stayed.
LEMMA ShownFacts ==
  ASSUME PagesInv, client.step # "done", NEW S, S \subseteq Items,
         NEW w, MarkedWalk(w), ~w.slipped,
         \A i \in S \cap walk.stayed : Less(Key(i), client.cursor)
  PROVE  Shown(w, S).twice \cap walk.stayed = {}
<1>1. walk.twice \cap walk.stayed = {} /\ ~walk.slipped
  BY DEF PagesInv, ShownOnce, MarkedWalk
<1>2. \A i \in walk.stayed \cap walk.seen : ~Less(Key(i), client.cursor)
  BY <1>1 DEF PagesInv
<1>3. Shown(w, S).twice = walk.twice \cup (S \cap walk.seen)
  BY DEF Shown, MarkedWalk
<1> QED BY <1>1, <1>2, <1>3

\* An answer with has_more keeps the invariant if its cursor is not above the
\* page's last row and, unless it was marked, is of the same second.
LEMMA ContinueInv ==
  ASSUME PagesInv, client.step # "done", UNCHANGED table, changes' \in 0 .. MaxChanges,
         NEW S, NEW end, NEW shown, NEW cursor, NEW w,
         PageRead(S, end), MarkedWalk(w), Continue(w, shown, end, cursor),
         shown \subseteq S, S \cap walk.stayed \subseteq shown,
         cursor \in Rows,
         ~w.slipped => ~Less(end, cursor),
         ~w.slipped /\ ~w.cut => cursor.s = end.s
  PROVE  PagesInv'
<1> USE DEF MarkedWalk
<1>1. /\ client' = [InitClient EXCEPT !.cursor = cursor]
      /\ walk' = [Shown(w, shown) EXCEPT !.ends = @ \cup {end}]
  BY DEF Continue
<1>2. /\ walk'.seen = walk.seen \cup shown /\ walk'.ends = walk.ends \cup {end}
      /\ walk'.twice = Shown(w, shown).twice
      /\ walk'.twice = walk.twice \cup (shown \cap walk.seen)
      /\ walk'.stayed = walk.stayed /\ walk'.slipped = w.slipped /\ walk'.cut = w.cut
  BY <1>1 DEF Shown
<1>3. client'.step = "ask" /\ client'.cursor = cursor /\ client'.got = NoPage
  BY <1>1 DEF InitClient
<1>4. TypeOK'
  <2>1. walk' \in [seen : SUBSET Items, twice : SUBSET Items, ends : SUBSET Rows,
                   stayed : SUBSET Present, slipped : BOOLEAN, cut : BOOLEAN]
    BY <1>1 DEF PageRead, Shown
  <2>2. client' \in [step : {"ask", "cursor", "hydrate", "done"}, cursor : Rows,
                     got : [page : SUBSET Items, size : Nat, last : Items \cup {0}, end : Rows]]
    BY <1>1, TimeFacts DEF InitClient, NoPage
  <2> QED BY <2>1, <2>2, SameTable DEF PagesInv, TypeOK, table
<1>5. ASSUME NEW i \in walk.stayed PROVE i \in Items /\ Key(i) \in Rows /\ Key(i).s = rows[i].s
  BY <1>5, KeyFacts DEF PagesInv, TypeOK, Present
<1>6. client.cursor \in Rows
  BY DEF PagesInv, TypeOK
<1>7. ShownOnce'
  BY <1>2, ShownFacts DEF ShownOnce, PageRead
<1>8. ASSUME ~w.slipped, NEW i \in walk.stayed \cap walk'.seen
      PROVE  ~Less(Key(i), cursor)
  <2>1. CASE i \in walk.seen
    <3>1. ~Less(Key(i), client.cursor)
      BY <1>8, <2>1 DEF PagesInv
    <3>2. Less(end, client.cursor) /\ ~Less(end, cursor) /\ end \in Rows
      BY <1>8 DEF PageRead
    <3>3. Key(i) \in Rows
      BY <1>5
    <3>4. Less(end, Key(i))
      BY <1>6, <3>1, <3>2, <3>3, LessTransitive
    <3> QED BY <3>2, <3>3, <3>4, LessTransitive
  <2>2. CASE i \in shown
    <3>1. ~Less(Key(i), end) /\ ~Less(end, cursor) /\ end \in Rows
      BY <1>8, <2>2 DEF PageRead
    <3>2. Key(i) \in Rows
      BY <1>5
    <3> QED BY <3>1, <3>2, LessTransitive
  <2> QED BY <1>2, <1>8, <2>1, <2>2
<1>9. ASSUME ~w.slipped, ~w.cut, NEW i \in walk.stayed \ walk'.seen
      PROVE  Less(Key(i), cursor) \/ SameSecond(i)'
  <2>1. i \notin S
    BY <1>2, <1>9
  <2>2. CASE SameSecond(i)
    BY <1>2, <2>2, SameTable DEF SameSecond, Less
  <2>3. CASE ~Less(end, Key(i)) /\ ~Less(Key(i), cursor)
    <3>1. Key(i) \in Rows /\ end \in Rows /\ cursor.s = end.s /\ Key(i).s = rows[i].s
      BY <1>5, <1>9 DEF PageRead
    <3>2. Key(i).s \in Nat /\ end.s \in Nat
      BY <3>1, Numbers
    <3>3. Key(i).s = end.s
      BY <2>3, <3>1, <3>2 DEF Less
    <3>4. end \in walk'.ends /\ rows'[i].s = end.s
      BY <1>2, <3>1, <3>3, SameTable
    <3>5. (~Less(end, Key(i)))'
      BY <2>3, SameTable DEF Less
    <3> QED BY <3>4, <3>5 DEF SameSecond
  <2> QED BY <1>2, <1>9, <2>1, <2>2, <2>3 DEF PageRead
<1>10. MissedOnlyAtPageEnds'
  BY <1>3 DEF MissedOnlyAtPageEnds
<1>11. \A i : (Less(Key(i), client.cursor))' <=> Less(Key(i), cursor)
  BY <1>3, SameTable DEF Less
<1> QED BY <1>2, <1>3, <1>4, <1>7, <1>8, <1>9, <1>10, <1>11, SameTable DEF PagesInv

\* An answer without has_more keeps the invariant if, unless it was marked,
\* its page is all that was left.
LEMMA StopInv ==
  ASSUME PagesInv, client.step # "done", UNCHANGED table, changes' \in 0 .. MaxChanges,
         NEW shown, NEW w, MarkedWalk(w), Stop(w, shown), shown \subseteq Items,
         \A i \in shown \cap walk.stayed : Less(Key(i), client.cursor),
         ~w.slipped /\ ~w.cut =>
           \A i \in walk.stayed \ walk.seen : i \in shown \/ SameSecond(i)
  PROVE  PagesInv'
<1> USE DEF MarkedWalk
<1>1. client' = [InitClient EXCEPT !.step = "done"] /\ walk' = Shown(w, shown)
  BY DEF Stop
<1>2. /\ walk'.seen = walk.seen \cup shown /\ walk'.ends = walk.ends
      /\ walk'.stayed = walk.stayed /\ walk'.slipped = w.slipped /\ walk'.cut = w.cut
  BY <1>1 DEF Shown
<1>3. client'.step = "done"
  BY <1>1 DEF InitClient
<1>4. TypeOK'
  <2>1. walk' \in [seen : SUBSET Items, twice : SUBSET Items, ends : SUBSET Rows,
                   stayed : SUBSET Present, slipped : BOOLEAN, cut : BOOLEAN]
    BY <1>1 DEF Shown
  <2>2. client' \in [step : {"ask", "cursor", "hydrate", "done"}, cursor : Rows,
                     got : [page : SUBSET Items, size : Nat, last : Items \cup {0}, end : Rows]]
    BY <1>1, TimeFacts DEF InitClient, NoPage
  <2> QED BY <2>1, <2>2, SameTable DEF PagesInv, TypeOK, table
<1>5. ShownOnce'
  BY <1>1, <1>2, ShownFacts DEF ShownOnce
<1>6. \A i : SameSecond(i) => SameSecond(i)'
  BY <1>2, SameTable DEF SameSecond, Less
<1>7. MissedOnlyAtPageEnds'
  BY <1>2, <1>6 DEF MissedOnlyAtPageEnds
<1> QED BY <1>2, <1>3, <1>4, <1>5, <1>7, SameTable DEF PagesInv

---------------------------------------------------------------------------------
(* Requests *)

\* The pages that LIMIT n may return are read below the cursor, and a page
\* without more behind is all that is there.
LEMMA FetchFacts ==
  ASSUME PagesInv, client.step = "ask", NEW n, NEW S \in Pages(n)
  PROVE  /\ \A e \in LastOf(S) : e \in Items /\ PageRead(S, Key(e))
         /\ More(n) => Cardinality(S) = n
         /\ ~More(n) /\ ~walk.slipped /\ ~walk.cut =>
              \A i \in walk.stayed \ walk.seen : i \in S \/ SameSecond(i)
         /\ S \subseteq Items
         /\ \A i \in S : Less(Key(i), client.cursor)
<1>1. /\ S \subseteq Below(client.cursor)
      /\ \A i \in S, j \in Below(client.cursor) \ S : ~Less(Key(i), Key(j))
      /\ More(n) => Cardinality(S) = n
      /\ ~More(n) => S = Below(client.cursor)
  BY DEF Pages
<1>2. S \subseteq Items /\ \A i \in S : Less(Key(i), client.cursor)
  BY <1>1 DEF Below, Present
<1>3. ASSUME ~walk.slipped, ~walk.cut, NEW i \in walk.stayed \ walk.seen
      PROVE  i \in Below(client.cursor) \/ SameSecond(i)
  BY <1>3 DEF PagesInv, TypeOK, Below
<1>4. ASSUME NEW e \in LastOf(S) PROVE e \in Items /\ PageRead(S, Key(e))
  <2>1. e \in S /\ \A i \in S : ~Less(Key(i), Key(e))
    BY DEF LastOf
  <2>2. Key(e) \in Rows
    BY <1>2, <2>1, KeyFacts DEF PagesInv
  <2>3. ASSUME ~walk.slipped, ~walk.cut, NEW i \in walk.stayed \ walk.seen
        PROVE  i \in S \/ SameSecond(i) \/ ~Less(Key(e), Key(i))
    BY <1>1, <1>3, <2>1, <2>3
  <2> QED BY <1>2, <2>1, <2>2, <2>3 DEF PageRead
<1> QED BY <1>1, <1>2, <1>3, <1>4

\* The walk itself is a walk that differs in nothing.
LEMMA WalkItself == PagesInv => MarkedWalk(walk)
BY DEF PagesInv, TypeOK, MarkedWalk

\* A page with the cursor at hand keeps the invariant.
LEMMA AnswerInv ==
  ASSUME PagesInv, client.step = "ask", UNCHANGED <<table, changes>>,
         NEW n, NEW S \in Pages(n),
         IF More(n) THEN \E e \in LastOf(S), c \in Rows :
                           /\ Continue(walk, S, Key(e), c)
                           /\ ~Less(Key(e), c) /\ c.s = Key(e).s
                    ELSE Stop(walk, S)
  PROVE  PagesInv'
<1>1. changes' \in 0 .. MaxChanges /\ UNCHANGED table
  BY DEF PagesInv, TypeOK
<1>2. CASE More(n)
  <2>1. PICK e \in LastOf(S), c \in Rows :
          Continue(walk, S, Key(e), c) /\ ~Less(Key(e), c) /\ c.s = Key(e).s
    BY <1>2
  <2>2. e \in Items /\ PageRead(S, Key(e))
    BY FetchFacts
  <2> QED BY <1>1, <2>1, <2>2, ContinueInv, WalkItself
<1>3. CASE ~More(n)
  BY <1>1, <1>3, FetchFacts, StopInv, WalkItself
<1> QED BY <1>2, <1>3

\* A page that is held until its cursor is known keeps the invariant.
LEMMA HoldInv ==
  ASSUME PagesInv, client.step = "ask", UNCHANGED <<table, changes>>,
         NEW step \in {"cursor", "hydrate"}, NEW n \in Nat,
         NEW S \in Pages(n), NEW e \in LastOf(S), Hold(step, S, n, e)
  PROVE  PagesInv'
<1>1. /\ client' = [client EXCEPT !.step = step,
                      !.got = [page |-> S, size |-> n, last |-> e, end |-> Key(e)]]
      /\ walk' = walk
  BY DEF Hold
<1>2. /\ client'.step = step /\ client'.cursor = client.cursor
      /\ client'.got = [page |-> S, size |-> n, last |-> e, end |-> Key(e)]
  BY <1>1 DEF PagesInv, TypeOK
<1>3. e \in Items /\ PageRead(S, Key(e)) /\ S \subseteq Items
  BY FetchFacts
<1>4. TypeOK'
  <2>1. client' \in [step : {"ask", "cursor", "hydrate", "done"}, cursor : Rows,
                     got : [page : SUBSET Items, size : Nat, last : Items \cup {0}, end : Rows]]
    BY <1>1, <1>3 DEF PagesInv, TypeOK, PageRead
  <2> QED BY <1>1, <2>1, SameTable DEF PagesInv, TypeOK, table
<1>5. HeldPage(client.got)'
  <2>1. Less(Key(e), client.cursor)
    BY <1>3 DEF PageRead
  <2>2. \A i \in S \cap walk.stayed : Less(Key(i), client.cursor) /\ ~Less(Key(i), Key(e))
    BY <1>3 DEF PageRead
  <2>3. ASSUME ~walk.slipped, ~walk.cut, NEW i \in walk.stayed \ walk.seen
        PROVE  \/ i \in S \/ SameSecond(i)
               \/ ~Less(Key(e), Key(i)) /\ Cardinality(S) = n
    BY <1>3, <2>3, FetchFacts DEF PageRead
  <2>4. \A i : SameSecond(i)' <=> SameSecond(i)
    BY <1>1, SameTable DEF SameSecond, Less
  <2> QED BY <1>1, <1>2, <1>3, <2>1, <2>2, <2>3, <2>4, SameTable DEF HeldPage, Less
<1>6. ShownOnce' /\ MissedOnlyAtPageEnds'
  BY <1>1, <1>2 DEF PagesInv, ShownOnce, MissedOnlyAtPageEnds
<1>7. \A i : (Less(Key(i), client.cursor))' <=> Less(Key(i), client.cursor)
  BY <1>2, SameTable DEF Less
<1> QED BY <1>1, <1>2, <1>4, <1>5, <1>6, <1>7, SameTable DEF PagesInv

\* The limits of requests are positive.
LEMMA LimitFacts ==
  \A asked \in Requests :
    FollowLimit(asked) \subseteq Nat \ {0} /\ ClampedLimit(asked) \subseteq Nat \ {0}
BY DEF Requests, FollowLimit, ClampedLimit

\* The requests of a page keep the invariant.
LEMMA PageInv ==
  ASSUME PagesInv, NEW n \in Nat \ {0},
         \/ GetFollowers(n) \/ GetFollowing(n) \/ GetByPostID(n)
         \/ GetUserThumbnails(n) \/ GetPostLikers(n) \/ GetFeed(n)
  PROVE  PagesInv'
<1>1. client.step = "ask" /\ UNCHANGED <<table, changes>>
  BY DEF GetFollowers, GetFollowing, GetByPostID, GetUserThumbnails, GetPostLikers, GetFeed
<1>2. ASSUME NEW S \in Pages(n), NEW e \in LastOf(S)
      PROVE  /\ Key(e) \in Rows
             /\ FollowCursor(rows[e]) = FollowCursor(Key(e))
             /\ list \notin FollowLists \cup {"feed"} => Key(e) = rows[e]
  BY <1>1, <1>2, FetchFacts, KeyFacts DEF PagesInv
<1>3. CASE GetFollowers(n) \/ GetFollowing(n)
  <2>1. PICK S \in Pages(n) :
          IF More(n) THEN \E e \in LastOf(S) : Continue(walk, S, Key(e), FollowCursor(rows[e]))
                     ELSE Stop(walk, S)
    BY <1>3 DEF GetFollowers, GetFollowing, Answer
  <2> QED BY <1>1, <1>2, <2>1, AnswerInv, CursorFacts
<1>4. CASE GetByPostID(n)
  <2>1. PICK S \in Pages(n) :
          IF More(n) THEN \E e \in LastOf(S) :
                            Continue(walk, S, Key(e), formatCommentCursor(rows[e]))
                     ELSE Stop(walk, S)
    BY <1>4 DEF GetByPostID, Answer
  <2>2. \A e \in LastOf(S) : Key(e) = rows[e] /\ Key(e) \in Rows
    BY <1>2, <1>4 DEF GetByPostID, FollowLists
  <2> QED BY <1>1, <2>1, <2>2, AnswerInv, CursorFacts
<1>5. CASE GetUserThumbnails(n) \/ GetPostLikers(n)
  <2>1. PICK S \in Pages(n) :
          IF More(n) THEN \E e \in LastOf(S) : Hold("cursor", S, n, e) ELSE Stop(walk, S)
    BY <1>5 DEF GetUserThumbnails, GetPostLikers, AnswerOrHold
  <2>2. CASE ~More(n)
    BY <1>1, <2>1, <2>2, AnswerInv
  <2>3. CASE More(n)
    BY <1>1, <2>1, <2>3, HoldInv
  <2> QED BY <2>2, <2>3
<1>6. CASE GetFeed(n)
  <2>1. PICK S \in Pages(n) :
          IF S = {} THEN Stop(walk, {}) ELSE \E e \in LastOf(S) : Hold("hydrate", S, n, e)
    BY <1>6 DEF GetFeed
  <2>2. CASE S # {}
    BY <1>1, <2>1, <2>2, HoldInv
  <2>3. CASE S = {}
    <3>1. Cardinality(S) = 0
      BY <2>3, FS_EmptySet
    <3>2. ~More(n) /\ Stop(walk, S)
      BY <1>1, <2>1, <2>3, <3>1, FetchFacts
    <3> QED BY <1>1, <3>2, AnswerInv
  <2> QED BY <2>2, <2>3
<1> QED BY <1>3, <1>4, <1>5, <1>6

\* The second query of a page and the hydration keep the invariant.
LEMMA CursorInv == PagesInv /\ (PostCursor \/ LikerCursor) => PagesInv'
<1> SUFFICES ASSUME PagesInv, PostCursor \/ LikerCursor PROVE PagesInv'
  OBVIOUS
<1> DEFINE S == client.got.page
           end == client.got.end
           cutWalk == [walk EXCEPT !.cut = TRUE]
<1>1. /\ client.step = "cursor" /\ UNCHANGED table /\ changes' \in 0 .. MaxChanges
      /\ list \notin FollowLists \cup {"feed"}
  BY DEF PostCursor, LikerCursor, Disturb, PagesInv, TypeOK, FollowLists
<1>2. S \subseteq Items /\ end \in Rows
  BY DEF PagesInv, TypeOK
<1>3. HeldPage(client.got)
  BY <1>1 DEF PagesInv
<1>4. PageRead(S, end)
  BY <1>2, <1>3 DEF HeldPage, PageRead
<1>5. MarkedWalk(walk) /\ MarkedWalk(cutWalk) /\ cutWalk.cut
  BY DEF PagesInv, TypeOK, MarkedWalk
<1>6. \A i \in S \cap walk.stayed : Less(Key(i), client.cursor)
  BY <1>3 DEF HeldPage
<1>7. CASE PostCursor
  <2>1. CASE Continue(walk, S, end, formatCursor(end))
    BY <1>1, <1>2, <1>4, <1>5, <2>1, CursorFacts, ContinueInv
  <2>2. CASE Continue(cutWalk, S, end, formatCursor(ZeroTime))
    BY <1>1, <1>2, <1>4, <1>5, <2>2, ZeroTimeFacts, ContinueInv
  <2> QED BY <1>7, <2>1, <2>2 DEF PostCursor
<1>8. CASE LikerCursor
  <2> DEFINE e == client.got.last
             other == [walk EXCEPT !.slipped = @ \/ rows[e] # client.got.end]
  <2>1. CASE Stop(cutWalk, S)
    BY <1>1, <1>2, <1>5, <1>6, <2>1, StopInv
  <2>2. CASE rows[e] # Absent /\ Continue(other, S, end, formatCursor(rows[e]))
    <3>1. MarkedWalk(other) /\ (~other.slipped => rows[e] = end)
      BY DEF PagesInv, TypeOK, MarkedWalk
    <3>2. rows[e] \in Rows
      BY <1>3 DEF HeldPage, PagesInv, TypeOK
    <3> QED BY <1>1, <1>2, <1>4, <2>2, <3>1, <3>2, CursorFacts, ContinueInv
  <2> QED BY <1>8, <2>1, <2>2 DEF LikerCursor
<1> QED BY <1>7, <1>8

\* Hydration keeps the invariant.
LEMMA HydrateInv == PagesInv /\ Hydrate => PagesInv'
<1> SUFFICES ASSUME PagesInv, Hydrate PROVE PagesInv'
  OBVIOUS
<1> DEFINE S == client.got.page
           end == client.got.end
           shown == S \ hidden
           w == [walk EXCEPT !.cut = @ \/ shown # client.got.page]
<1>1. client.step = "hydrate" /\ UNCHANGED table /\ changes' \in 0 .. MaxChanges
  BY DEF Hydrate, Disturb, PagesInv, TypeOK
<1>2. S \subseteq Items /\ end \in Rows
  BY DEF PagesInv, TypeOK
<1>3. HeldPage(client.got)
  BY <1>1 DEF PagesInv
<1>4. PageRead(S, end)
  BY <1>2, <1>3 DEF HeldPage, PageRead
<1>5. shown \subseteq S /\ S \cap walk.stayed \subseteq shown
  BY DEF PagesInv
<1>6. CASE Cardinality(shown) = client.got.size
           /\ Continue(walk, shown, end, formatFeedCursor(end))
  BY <1>1, <1>2, <1>4, <1>5, <1>6, CursorFacts, ContinueInv, WalkItself
<1>7. CASE Cardinality(shown) # client.got.size /\ Stop(w, shown)
  <2>1. MarkedWalk(w)
    BY DEF PagesInv, TypeOK, MarkedWalk
  <2>2. \A i \in shown \cap walk.stayed : Less(Key(i), client.cursor)
    BY <1>3 DEF HeldPage
  <2>3. ASSUME ~w.slipped, ~w.cut, NEW i \in walk.stayed \ walk.seen
        PROVE  i \in shown \/ SameSecond(i)
    <3>1. ~walk.slipped /\ ~walk.cut /\ shown = S
      BY <2>3 DEF PagesInv, TypeOK
    <3> QED BY <1>3, <1>7, <2>3, <3>1 DEF HeldPage
  <2> QED BY <1>1, <1>2, <1>7, <2>1, <2>2, <2>3, StopInv
<1>8. CASE client' = [client EXCEPT !.step = "ask", !.got = NoPage] /\ UNCHANGED walk
  <2>1. /\ client'.step = "ask" /\ client'.cursor = client.cursor
        /\ client' \in [step : {"ask", "cursor", "hydrate", "done"}, cursor : Rows,
                        got : [page : SUBSET Items, size : Nat, last : Items \cup {0}, end : Rows]]
    BY <1>8, TimeFacts DEF PagesInv, TypeOK, NoPage
  <2>2. TypeOK'
    BY <1>1, <1>8, <2>1, SameTable DEF PagesInv, TypeOK, table
  <2>3. \A i : /\ (Less(Key(i), client.cursor))' <=> Less(Key(i), client.cursor)
               /\ SameSecond(i)' <=> SameSecond(i)
    BY <1>1, <1>8, <2>1, SameTable DEF Less, SameSecond
  <2>4. ASSUME ~walk.slipped, ~walk.cut, NEW i \in walk.stayed \ walk.seen
        PROVE  Less(Key(i), client.cursor) \/ SameSecond(i)
    <3>1. CASE i \in S
      BY <1>3, <2>4, <3>1 DEF HeldPage
    <3>2. CASE ~Less(end, Key(i))
      <4>1. Key(i) \in Rows /\ client.cursor \in Rows
        BY <2>4, KeyFacts DEF PagesInv, TypeOK, Present
      <4> QED BY <1>2, <1>3, <3>2, <4>1, LessTransitive DEF HeldPage
    <3> QED BY <1>3, <2>4, <3>1, <3>2 DEF HeldPage
  <2>5. ShownOnce' /\ MissedOnlyAtPageEnds'
    BY <1>8, <2>1 DEF PagesInv, ShownOnce, MissedOnlyAtPageEnds
  <2> QED BY <1>1, <1>8, <2>1, <2>2, <2>3, <2>4, <2>5, SameTable DEF PagesInv
<1> QED BY <1>6, <1>7, <1>8 DEF Hydrate

\* A request for what belongs to a deleted post keeps the invariant.
LEMMA NotFoundInv == PagesInv /\ NotFound => PagesInv'
<1> SUFFICES ASSUME PagesInv, NotFound PROVE PagesInv'
  OBVIOUS
<1> DEFINE w == [walk EXCEPT !.cut = TRUE]
<1>1. /\ client.step = "ask" /\ Stop(w, {}) /\ UNCHANGED table
      /\ changes' \in 0 .. MaxChanges
  BY DEF NotFound, PagesInv, TypeOK
<1>2. MarkedWalk(w) /\ w.cut
  BY DEF PagesInv, TypeOK, MarkedWalk
<1> HIDE DEF w
<1>3. {} \subseteq Items /\ \A i \in {} \cap walk.stayed : Less(Key(i), client.cursor)
  OBVIOUS
<1> QED BY <1>1, <1>2, <1>3, StopInv

\* Every step keeps the invariant.
LEMMA NextInv == PagesInv /\ [Next]_vars => PagesInv'
<1> SUFFICES ASSUME PagesInv, [Next]_vars PROVE PagesInv'
  OBVIOUS
<1>1. CASE Walk
  <2>1. ASSUME NEW asked \in Requests, NEW n \in FollowLimit(asked),
               GetFollowers(n) \/ GetFollowing(n)
        PROVE  PagesInv'
    BY <2>1, LimitFacts, PageInv
  <2>2. ASSUME NEW asked \in Requests, NEW n \in ClampedLimit(asked),
               GetUserThumbnails(n) \/ GetPostLikers(n) \/ GetByPostID(n) \/ GetFeed(n)
        PROVE  PagesInv'
    BY <2>2, LimitFacts, PageInv
  <2> QED BY <1>1, <2>1, <2>2, CursorInv, HydrateInv, NotFoundInv DEF Walk
<1>2. CASE Others
  BY <1>2, OthersInv
<1>3. CASE UNCHANGED vars
  <2>1. UNCHANGED table /\ UNCHANGED <<client, walk, changes>>
    BY <1>3 DEF vars, table
  <2>2. TypeOK'
    BY <2>1, SameTable DEF PagesInv, TypeOK, table
  <2>3. walk' = [walk EXCEPT !.stayed = walk'.stayed]
    BY <2>1 DEF PagesInv, TypeOK
  <2> QED BY <2>1, <2>2, <2>3, OthersKeep, SameTable DEF PagesInv
<1> QED BY <1>1, <1>2, <1>3 DEF Next

\* What is known of the cursor and the rows that stayed holds in every state.
THEOREM PagesInvariant == Spec => []PagesInv
BY InitInv, NextInv, PTL DEF Spec

\* Every variable keeps its type.
THEOREM TypeCorrect == Spec => []TypeOK
<1>1. PagesInv => TypeOK
  BY DEF PagesInv
<1> QED BY <1>1, PagesInvariant, PTL

\* Whatever others change, a client misses only rows that share their second
\* with the end of a page.
THEOREM Missed == Spec => []MissedOnlyAtPageEnds
<1>1. PagesInv => MissedOnlyAtPageEnds
  BY DEF PagesInv
<1> QED BY <1>1, PagesInvariant, PTL

\* Whatever others change, no row that stays is shown twice.
THEOREM Once == Spec => []ShownOnce
<1>1. PagesInv => ShownOnce
  BY DEF PagesInv
<1> QED BY <1>1, PagesInvariant, PTL

---------------------------------------------------------------------------------
(* Every traversal gets on *)

\* What TraversalGetsOn says of a step of the traversal.
GetsOn ==
  \/ client'.step # "ask" \/ changes' # changes
  \/ Less(client'.cursor, client.cursor)
  \/ list = "likers" /\ rows[client.got.last] # client.got.end

\* The last answer ends the list.
LEMMA StopEnds ==
  ASSUME NEW w, NEW S, Stop(w, S)
  PROVE  client'.step = "done"
BY DEF Stop, InitClient

\* A page that is read and held is not answered yet.
LEMMA HoldWaits ==
  ASSUME PagesInv, NEW step, NEW S, NEW n, NEW e, Hold(step, S, n, e)
  PROVE  client'.step = step
BY DEF Hold, PagesInv, TypeOK

\* A cursor that is not above the last row of a page read below the old cursor
\* is below the old cursor.
LEMMA ContinueDescends ==
  ASSUME PagesInv, NEW w, NEW S, NEW end \in Rows, NEW cursor \in Rows,
         Less(end, client.cursor), ~Less(end, cursor), Continue(w, S, end, cursor)
  PROVE  Less(client'.cursor, client.cursor)
<1>1. client'.cursor = cursor
  BY DEF Continue, InitClient
<1>2. client.cursor \in Rows
  BY DEF PagesInv, TypeOK
<1> QED BY <1>1, <1>2, LessTransitive

\* A request for a page.
LEMMA PageGetsOn ==
  ASSUME PagesInv, NEW n \in Nat \ {0},
         \/ GetFollowers(n) \/ GetFollowing(n) \/ GetByPostID(n)
         \/ GetUserThumbnails(n) \/ GetPostLikers(n) \/ GetFeed(n)
  PROVE  GetsOn
<1>1. client.step = "ask"
  BY DEF GetFollowers, GetFollowing, GetByPostID, GetUserThumbnails, GetPostLikers, GetFeed
<1>2. ASSUME NEW S \in Pages(n), NEW e \in LastOf(S)
      PROVE  /\ Key(e) \in Rows /\ Less(Key(e), client.cursor)
             /\ FollowCursor(rows[e]) = FollowCursor(Key(e))
             /\ list \notin FollowLists \cup {"feed"} => Key(e) = rows[e]
  BY <1>1, <1>2, FetchFacts, KeyFacts DEF PagesInv, LastOf
<1>3. CASE GetFollowers(n) \/ GetFollowing(n)
  <2>1. PICK S \in Pages(n) :
          \/ \E e \in LastOf(S) : Continue(walk, S, Key(e), FollowCursor(rows[e]))
          \/ Stop(walk, S)
    BY <1>3 DEF GetFollowers, GetFollowing, Answer
  <2>2. ASSUME NEW e \in LastOf(S), Continue(walk, S, Key(e), FollowCursor(rows[e]))
        PROVE  Less(client'.cursor, client.cursor)
    BY <1>2, <2>2, CursorFacts, ContinueDescends
  <2> QED BY <2>1, <2>2, StopEnds DEF GetsOn
<1>4. CASE GetByPostID(n)
  <2>1. PICK S \in Pages(n) :
          \/ \E e \in LastOf(S) : Continue(walk, S, Key(e), formatCommentCursor(rows[e]))
          \/ Stop(walk, S)
    BY <1>4 DEF GetByPostID, Answer
  <2>2. \A e \in LastOf(S) : Key(e) = rows[e] /\ Key(e) \in Rows
    BY <1>2, <1>4 DEF GetByPostID, FollowLists
  <2>3. ASSUME NEW e \in LastOf(S), Continue(walk, S, Key(e), formatCommentCursor(rows[e]))
        PROVE  Less(client'.cursor, client.cursor)
    BY <1>2, <2>2, <2>3, CursorFacts, ContinueDescends
  <2> QED BY <2>1, <2>3, StopEnds DEF GetsOn
<1>5. CASE GetUserThumbnails(n) \/ GetPostLikers(n)
  <2>1. PICK S \in Pages(n) :
          (\E e \in LastOf(S) : Hold("cursor", S, n, e)) \/ Stop(walk, S)
    BY <1>5 DEF GetUserThumbnails, GetPostLikers, AnswerOrHold
  <2> QED BY <2>1, HoldWaits, StopEnds DEF GetsOn
<1>6. CASE GetFeed(n)
  <2>1. PICK S \in Pages(n) :
          (\E e \in LastOf(S) : Hold("hydrate", S, n, e)) \/ Stop(walk, {})
    BY <1>6 DEF GetFeed
  <2> QED BY <2>1, HoldWaits, StopEnds DEF GetsOn
<1> QED BY <1>3, <1>4, <1>5, <1>6

\* The cursor's query, hydration, and a post that is gone.
LEMMA AnswerGetsOn ==
  ASSUME PagesInv, PostCursor \/ LikerCursor \/ Hydrate \/ NotFound
  PROVE  GetsOn
<1> DEFINE end == client.got.end
<1>1. end \in Rows /\ (client.step \in {"cursor", "hydrate"} => Less(end, client.cursor))
  BY DEF PagesInv, TypeOK, HeldPage
<1>2. CASE PostCursor
  <2>1. client.step = "cursor"
    BY <1>2 DEF PostCursor
  <2>2. CASE Continue(walk, client.got.page, end, formatCursor(end))
    BY <1>1, <2>1, <2>2, CursorFacts, ContinueDescends DEF GetsOn
  <2>3. CASE Disturb
    BY <2>3 DEF Disturb, GetsOn, PagesInv, TypeOK
  <2> QED BY <1>2, <2>2, <2>3 DEF PostCursor
<1>3. CASE LikerCursor
  <2> DEFINE e == client.got.last
             other == [walk EXCEPT !.slipped = @ \/ rows[e] # client.got.end]
  <2>1. client.step = "cursor" /\ list = "likers"
    BY <1>3 DEF LikerCursor
  <2>2. CASE rows[e] # end
    BY <2>1, <2>2 DEF GetsOn
  <2>3. CASE rows[e] = end /\ Continue(other, client.got.page, end, formatCursor(rows[e]))
    <3> HIDE DEF other
    <3>1. Less(client'.cursor, client.cursor)
      BY <1>1, <2>1, <2>3, CursorFacts, ContinueDescends
    <3> QED BY <3>1 DEF GetsOn
  <2>4. CASE Stop([walk EXCEPT !.cut = TRUE], client.got.page)
    BY <2>4, StopEnds DEF GetsOn
  <2> QED BY <1>3, <2>2, <2>3, <2>4 DEF LikerCursor
<1>4. CASE Hydrate
  <2> DEFINE shown == client.got.page \ hidden
  <2>1. client.step = "hydrate"
    BY <1>4 DEF Hydrate
  <2>2. CASE Continue(walk, shown, end, formatFeedCursor(end))
    <3> HIDE DEF shown
    <3>1. Less(client'.cursor, client.cursor)
      BY <1>1, <2>1, <2>2, CursorFacts, ContinueDescends
    <3> QED BY <3>1 DEF GetsOn
  <2>3. CASE Stop([walk EXCEPT !.cut = @ \/ shown # client.got.page], shown)
    BY <2>3, StopEnds DEF GetsOn
  <2>4. CASE Disturb
    BY <2>4 DEF Disturb, GetsOn, PagesInv, TypeOK
  <2> QED BY <1>4, <2>2, <2>3, <2>4 DEF Hydrate
<1>5. CASE NotFound
  BY <1>5, StopEnds DEF NotFound, GetsOn
<1> QED BY <1>2, <1>3, <1>4, <1>5

\* No cursor leads in a circle: every answer ends the list or its cursor is
\* below the one before, in every list and whatever others do, but for failing
\* queries and likes that are repeated between their page and its cursor.
THEOREM CursorsDescend == Spec => TraversalGetsOn
<1>1. PagesInv /\ [Next]_vars =>
        [Walk => \/ client'.step # "ask" \/ changes' # changes
                 \/ Less(client'.cursor, client.cursor)
                 \/ list = "likers" /\ rows[client.got.last] # client.got.end]_vars
  <2> SUFFICES ASSUME PagesInv, Walk PROVE GetsOn
    BY DEF GetsOn
  <2>1. ASSUME NEW asked \in Requests, NEW n \in FollowLimit(asked),
               GetFollowers(n) \/ GetFollowing(n)
        PROVE  GetsOn
    BY <2>1, LimitFacts, PageGetsOn
  <2>2. ASSUME NEW asked \in Requests, NEW n \in ClampedLimit(asked),
               GetUserThumbnails(n) \/ GetPostLikers(n) \/ GetByPostID(n) \/ GetFeed(n)
        PROVE  GetsOn
    BY <2>2, LimitFacts, PageGetsOn
  <2> QED BY <2>1, <2>2, AnswerGetsOn DEF Walk
<1> QED BY PagesInvariant, <1>1, PTL DEF Spec, TraversalGetsOn
=================================================================================
