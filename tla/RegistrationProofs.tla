---------------------------- MODULE RegistrationProofs ----------------------------
(***************************************************************************)
(* Proofs about Registration for every number of people, names, requests   *)
(* and failures.                                                           *)
(***************************************************************************)
EXTENDS Registration, FiniteSetTheorems, TLAPS

USE BoundsAssumption DEF Requests, DefaultKey

\* The invariant holds when nobody has registered.
LEMMA InitInv == Init => RegistrationInv
BY DEF Init, RegistrationInv, RequestsInOrder, OneAtATime, TypeOK, RowsHaveRequests, AnswersHold, AvatarsWhole, Taken, Running,
       NoRow, NoRequest, Row, Request, Steps, Answers

\* A request changes, the rows do not: what is asked of it to keep the
\* invariant. Its client and name are settled, it gets one answer, and nothing
\* but its upload adds its image to the bucket.
LEMMA RequestKeeps ==
  ASSUME RegistrationInv, config' = config, users' = users,
         failures' \in 0 .. MaxFailures,
         NEW r \in Requests, bucket' \in {bucket, bucket \cup {r}}, NEW q \in Request, Running(r),
         req' = [req EXCEPT ![r] = q],
         q.client = req[r].client, q.name = req[r].name, q.step # "none",
         q.step # "ended" => q.told = "none",
         q.waiting => q.step # "ended" /\ req[r].waiting,
         q.step = "upload" => r \notin bucket',
         q.step \in {"check", "insert"} =>
           /\ q.key = IF r \in bucket' THEN r ELSE 0
           /\ q.avatar = IF r \in bucket' THEN {"url", "key"} ELSE config
           /\ q.avatar \in {{}, {"url", "key"}},
         q.told \in {"none", "500", "409"},
         q.told = "409" => Taken(q.name) /\ req[r].waiting
  PROVE  RegistrationInv'
<1> USE DEF RegistrationInv
<1>1. req \in [Requests -> Request] /\ req'[r] = q /\ \A s \in Requests : s # r => req'[s] = req[s]
  BY DEF TypeOK
<1>2. TypeOK'
  BY <1>1 DEF TypeOK, Running
<1>3. \A n \in Names : Taken(n) => users[n].by # r
  BY DEF RowsHaveRequests, Running
<1>4. RowsHaveRequests'
  BY <1>1, <1>3 DEF RowsHaveRequests, Taken
<1>5. RequestsInOrder'
  BY <1>1 DEF RequestsInOrder, Running
<1>6. OneAtATime'
  <2> SUFFICES ASSUME NEW s \in Requests, NEW t \in Requests, s # t,
                      req'[s].client = req'[t].client, req'[s].waiting
               PROVE  ~req'[t].waiting /\ req'[t].told # "201"
    BY DEF OneAtATime
  <2>1. req[s].client = req[t].client /\ req[s].waiting
    BY <1>1
  <2>2. ~req[t].waiting /\ req[t].told # "201"
    BY <2>1 DEF OneAtATime
  <2> QED BY <1>1, <2>2
<1>7. AnswersHold'
  <2> SUFFICES ASSUME NEW s \in Requests
               PROVE  LET n == req'[s].name
                      IN /\ req'[s].told = "201" => users[n].by = s
                         /\ req'[s].told = "409" =>
                              /\ Taken(n)
                              /\ req'[users[n].by].client = req'[s].client =>
                                   req'[users[n].by].told \in {"none", "500"}
                         /\ req'[s].told \in {"400", "409"} => \A m \in Names : users[m].by # s
    BY DEF AnswersHold, Owner, Taken
  <2>1. CASE s # r
    <3>1. req'[s] = req[s] /\ req[s] \in Request
      BY <1>1, <2>1
    <3>2. ASSUME req[s].told = "409"
          PROVE  /\ Taken(req[s].name) /\ users[req[s].name].by \in Requests
                 /\ users[req[s].name].by # r
      <4>1. req[s].name \in Names
        BY <3>2 DEF TypeOK, RequestsInOrder
      <4>2. Taken(req[s].name)
        BY <3>2 DEF AnswersHold
      <4> QED BY <1>3, <4>1, <4>2 DEF RowsHaveRequests
    <3> QED BY <1>1, <3>1, <3>2 DEF AnswersHold, Owner
  <2>2. CASE s = r
    <3>1. ASSUME q.told = "409"
          PROVE  /\ Taken(q.name)
                 /\ req'[users[q.name].by].client = q.client =>
                      req'[users[q.name].by].told \in {"none", "500"}
      <4>1. q.name \in Names /\ Taken(q.name) /\ req[r].waiting
        BY <3>1 DEF TypeOK, Running
      <4> DEFINE b == users[q.name].by
      <4>2. b \in Requests /\ b # r /\ req[b].told \in {"none", "500", "201"}
        BY <1>3, <4>1 DEF RowsHaveRequests
      <4>3. req[b].client = req[r].client => req[b].told # "201"
        BY <4>1, <4>2 DEF OneAtATime
      <4> QED BY <1>1, <4>1, <4>2, <4>3
    <3> QED BY <1>1, <1>3, <2>2, <3>1 DEF Taken
  <2> QED BY <2>1, <2>2
<1>8. AvatarsWhole'
  BY <1>3 DEF AvatarsWhole, Taken
<1> QED BY <1>2, <1>4, <1>5, <1>6, <1>7, <1>8

\* A request ends: what its client hears depends on whether it still waits.
LEMMA EndedFacts ==
  ASSUME NEW q \in Request, NEW code \in Answers
  PROVE  /\ Ended(q, code) \in Request
         /\ Ended(q, code).client = q.client /\ Ended(q, code).name = q.name
         /\ Ended(q, code).step = "ended" /\ ~Ended(q, code).waiting
         /\ Ended(q, code).told \in {"none", code}
         /\ Ended(q, code).told = code /\ code # "none" => q.waiting
BY DEF Ended, Request, Steps, Answers

\* A new request keeps the invariant.
LEMMA RegisterInv ==
  ASSUME RegistrationInv, NEW r \in Requests, Register(r)
  PROVE  RegistrationInv'
<1> USE DEF RegistrationInv
<1>1. PICK c \in Clients, n \in Names, image \in Images :
        /\ req[r] = NoRequest
        /\ \A s \in Requests : req[s].client = c => ~req[s].waiting /\ req[s].told # "201"
        /\ req' = [req EXCEPT ![r] = Received([NoRequest EXCEPT !.client = c, !.name = n,
                                                                !.waiting = TRUE], image)]
  BY DEF Register
<1> DEFINE new == [NoRequest EXCEPT !.client = c, !.name = n, !.waiting = TRUE]
           q == Received(new, image)
<1>2. UNCHANGED <<config, users, bucket, failures>>
  BY DEF Register
<1>3. new \in Request /\ new.client = c /\ new.name = n /\ new.step = "none" /\ new.waiting
      /\ new.told = "none"
  BY DEF NoRequest, Request, Steps, Answers
<1>4. /\ q \in Request /\ q.client = c /\ q.name = n /\ q.step \in {"upload", "check", "ended"}
      /\ q.told \in {"none", "400", "500"}
      /\ q.step # "ended" => q.told = "none"
      /\ q.waiting => q.step # "ended"
      /\ q.step = "check" => q.avatar \in {{}, {"url", "key"}} /\ q.avatar = config /\ q.key = 0
  <2> HIDE DEF new
  <2>1. CASE image = "good"
    BY <1>3, <2>1 DEF Received, Request, Steps
  <2>2. CASE image \in {"unsuitable", "broken"}
    <3>1. q \in {Ended(new, "400"), Ended(new, "500")}
      BY <2>2 DEF Received
    <3> QED BY <1>3, <3>1, EndedFacts DEF Answers
  <2>3. CASE image = "none" /\ Cardinality(config) = 1
    <3>1. q = Ended(new, "500")
      BY <2>3 DEF Received
    <3> QED BY <1>3, <3>1, EndedFacts DEF Answers
  <2>4. CASE image = "none" /\ Cardinality(config) # 1
    <3>1. q = [new EXCEPT !.step = "check", !.avatar = config]
      BY <2>4 DEF Received
    <3>2. new.key = 0
      BY DEF new, NoRequest
    <3>3. config # {"url"} /\ config # {"key"}
      BY <2>4, FS_Singleton
    <3>4. config \in {{}, {"url", "key"}}
      BY <3>3 DEF TypeOK
    <3> QED BY <1>3, <3>1, <3>2, <3>4 DEF Request, Steps, TypeOK
  <2> QED BY <2>1, <2>2, <2>3, <2>4 DEF Images
<1> HIDE DEF new, q
<1>5. req'[r] = q /\ \A s \in Requests : s # r => req'[s] = req[s]
  BY <1>1 DEF q, new, TypeOK
<1>6. TypeOK'
  BY <1>1, <1>2, <1>4, <1>5 DEF TypeOK, q, new
<1>7. \A m \in Names : Taken(m) => users[m].by # r
  BY <1>1 DEF RowsHaveRequests, NoRequest
<1>8. RowsHaveRequests'
  BY <1>2, <1>5, <1>7 DEF RowsHaveRequests, Taken
<1>9. RequestsInOrder'
  <2>1. r \notin bucket'
    BY <1>1, <1>2 DEF RequestsInOrder, NoRequest
  <2> QED BY <1>2, <1>4, <1>5, <2>1 DEF RequestsInOrder, Running
<1>10. OneAtATime'
  BY <1>1, <1>4, <1>5 DEF OneAtATime
<1>11. AnswersHold'
  <2> SUFFICES ASSUME NEW s \in Requests
               PROVE  LET m == req'[s].name
                      IN /\ req'[s].told = "201" => users[m].by = s
                         /\ req'[s].told = "409" =>
                              /\ Taken(m)
                              /\ req'[users[m].by].client = req'[s].client =>
                                   req'[users[m].by].told \in {"none", "500"}
                         /\ req'[s].told \in {"400", "409"} => \A k \in Names : users[k].by # s
    BY <1>2 DEF AnswersHold, Owner, Taken
  <2>1. CASE s # r
    <3>1. req'[s] = req[s]
      BY <1>5, <2>1
    <3>2. ASSUME req[s].told = "409"
          PROVE  /\ Taken(req[s].name) /\ users[req[s].name].by \in Requests
                 /\ users[req[s].name].by # r
      <4>1. req[s].name \in Names
        BY <3>2 DEF TypeOK, RequestsInOrder
      <4>2. Taken(req[s].name)
        BY <3>2 DEF AnswersHold
      <4> QED BY <1>7, <4>1, <4>2 DEF RowsHaveRequests
    <3> QED BY <1>5, <3>1, <3>2 DEF AnswersHold, Owner
  <2>2. CASE s = r
    BY <1>4, <1>5, <1>7, <2>2 DEF Taken
  <2> QED BY <2>1, <2>2
<1>12. AvatarsWhole'
  BY <1>2 DEF AvatarsWhole, Taken
<1> QED BY <1>6, <1>8, <1>9, <1>10, <1>11, <1>12

\* The row of a new account keeps the invariant, whatever its client hears.
LEMMA InsertInv ==
  ASSUME RegistrationInv, NEW r \in Requests, req[r].step = "insert",
         ~Refused(r), NEW code \in {"201", "500"},
         users' = [users EXCEPT ![req[r].name] = RowOf(r)],
         Answer(r, code), failures' \in 0 .. MaxFailures, UNCHANGED <<config, bucket>>
  PROVE  RegistrationInv'
<1> USE DEF RegistrationInv
<1> DEFINE n == req[r].name
           q == Ended(req[r], code)
<1>1. n \in Names /\ req[r] \in Request /\ ~Taken(n)
  BY DEF TypeOK, Refused
<1>2. /\ q \in Request /\ q.client = req[r].client /\ q.name = n
      /\ q.step = "ended" /\ ~q.waiting /\ q.told \in {"none", code}
  BY <1>1, EndedFacts DEF Answers
<1>3. q.told = "201" => req[r].waiting
  BY <1>1, EndedFacts DEF Answers
<1> HIDE DEF q
<1>4. req'[r] = q /\ \A s \in Requests : s # r => req'[s] = req[s]
  BY DEF Answer, TypeOK, q
<1>5. users'[n] = RowOf(r) /\ \A m \in Names : m # n => users'[m] = users[m]
  BY <1>1 DEF TypeOK
<1>6. RowOf(r) \in Row /\ RowOf(r).by = r /\ RowOf(r).key = req[r].key
  BY <1>1 DEF RowOf, Row, Request
<1>7. TypeOK'
  <2>1. req' = [req EXCEPT ![r] = q]
    BY DEF Answer, q
  <2>2. req' \in [Requests -> Request] /\ users' \in [Names -> Row]
    BY <1>2, <1>6, <2>1 DEF TypeOK
  <2> QED BY <1>2, <1>4, <2>2 DEF TypeOK
<1>8. RowsHaveRequests'
  <2> SUFFICES ASSUME NEW m \in Names, users'[m].by # 0
               PROVE  /\ users'[m].by \in Requests /\ req'[users'[m].by].name = m
                      /\ req'[users'[m].by].step = "ended"
                      /\ req'[users'[m].by].told \in {"none", "500", "201"}
    BY DEF RowsHaveRequests, Taken
  <2>1. CASE m = n
    BY <1>2, <1>4, <1>5, <1>6, <2>1
  <2>2. CASE m # n
    BY <1>4, <1>5, <2>2 DEF RowsHaveRequests, Taken
  <2> QED BY <2>1, <2>2
<1>9. RequestsInOrder'
  BY <1>2, <1>4 DEF RequestsInOrder, Running
<1>10. OneAtATime'
  <2> SUFFICES ASSUME NEW s \in Requests, NEW t \in Requests, s # t,
                      req'[s].client = req'[t].client, req'[s].waiting
               PROVE  ~req'[t].waiting /\ req'[t].told # "201"
    BY DEF OneAtATime
  <2>1. s # r /\ req[s].client = req[t].client /\ req[s].waiting
    BY <1>2, <1>4
  <2>2. ~req[t].waiting /\ req[t].told # "201"
    BY <2>1 DEF OneAtATime
  <2> QED BY <1>2, <1>3, <1>4, <2>2
<1>11. AnswersHold'
  <2> SUFFICES ASSUME NEW s \in Requests
               PROVE  LET m == req'[s].name
                      IN /\ req'[s].told = "201" => users'[m].by = s
                         /\ req'[s].told = "409" =>
                              /\ users'[m].by # 0
                              /\ req'[users'[m].by].client = req'[s].client =>
                                   req'[users'[m].by].told \in {"none", "500"}
                         /\ req'[s].told \in {"400", "409"} => \A k \in Names : users'[k].by # s
    BY DEF AnswersHold, Owner, Taken
  <2>1. CASE s = r
    BY <1>2, <1>4, <1>5, <1>6, <2>1
  <2>2. CASE s # r
    <3>1. req'[s] = req[s] /\ req[s].told \in {"201", "409"} => req[s].name \in Names
      BY <1>4, <2>2 DEF TypeOK, RequestsInOrder
    <3>2. req[s].told \in {"201", "409"} => req[s].name # n /\ Taken(req[s].name)
      BY <1>1 DEF AnswersHold, Taken
    <3>3. req[s].told \in {"201", "409"} =>
            /\ users'[req[s].name] = users[req[s].name]
            /\ users[req[s].name].by \in Requests /\ users[req[s].name].by # r
      BY <1>4, <1>5, <2>2, <3>1, <3>2 DEF RowsHaveRequests
    <3>4. req[s].told \in {"400", "409"} => \A k \in Names : users'[k].by # s
      BY <1>5, <1>6, <2>2 DEF AnswersHold
    <3> QED BY <1>4, <2>2, <3>1, <3>2, <3>3, <3>4 DEF AnswersHold, Owner, Taken
  <2> QED BY <2>1, <2>2
<1>12. AvatarsWhole'
  <2> SUFFICES ASSUME NEW m \in Names, users'[m].by # 0
               PROVE  /\ users'[m].key = IF users'[m].by \in bucket THEN users'[m].by ELSE 0
                      /\ users'[m].key = 0 => config = {"url", "key"}
    BY DEF AvatarsWhole, Taken
  <2>1. CASE m = n
    <3>1. /\ req[r].key = IF r \in bucket THEN r ELSE 0
          /\ req[r].avatar = IF r \in bucket THEN {"url", "key"} ELSE config
          /\ req[r].avatar = {"url", "key"}
      BY DEF RequestsInOrder, Refused
    <3> QED BY <1>5, <1>6, <2>1, <3>1
  <2>2. CASE m # n
    BY <1>5, <2>2 DEF AvatarsWhole, Taken
  <2> QED BY <2>1, <2>2
<1> QED BY <1>7, <1>8, <1>9, <1>10, <1>11, <1>12

\* A call that fails stays within the bound.
LEMMA CallFailsBounded ==
  ASSUME RegistrationInv, NEW r \in Requests, CallFails(r)
  PROVE  failures' \in 0 .. MaxFailures
BY DEF RegistrationInv, TypeOK, CallFails

\* A running request that ends without a row keeps the invariant; 409 asks for
\* a row of its name.
LEMMA EndsWithoutRow ==
  ASSUME RegistrationInv, NEW r \in Requests, Running(r),
         NEW code \in {"500", "409"}, Answer(r, code),
         code = "409" => Taken(req[r].name),
         failures' \in 0 .. MaxFailures, config' = config, users' = users,
         bucket' \in {bucket, bucket \cup {r}}
  PROVE  RegistrationInv'
<1> DEFINE q == Ended(req[r], code)
<1>1. req[r] \in Request
  BY DEF RegistrationInv, TypeOK
<1>2. /\ q \in Request /\ q.client = req[r].client /\ q.name = req[r].name
      /\ q.step = "ended" /\ ~q.waiting /\ q.told \in {"none", code}
      /\ q.told = code => req[r].waiting
  BY <1>1, EndedFacts DEF Answers
<1>3. req' = [req EXCEPT ![r] = q]
  BY DEF Answer
<1> HIDE DEF q
<1> QED BY <1>2, <1>3, RequestKeeps

\* The upload keeps the invariant.
LEMMA UploadInv ==
  ASSUME RegistrationInv, NEW r \in Requests, UploadAvatar(r)
  PROVE  RegistrationInv'
<1>1. Running(r) /\ req[r].step = "upload"
  BY DEF UploadAvatar, Running
<1>2. config' = config /\ users' = users
  BY DEF UploadAvatar
<1>3. req[r] \in Request /\ bucket \subseteq Requests /\ failures \in 0 .. MaxFailures
  BY DEF RegistrationInv, TypeOK
<1>4. req[r].told = "none"
  BY <1>1 DEF RegistrationInv, RequestsInOrder
<1>5. CASE /\ bucket' = bucket \cup {r}
           /\ req' = [req EXCEPT ![r].step = "check", ![r].avatar = {"url", "key"}, ![r].key = r]
           /\ UNCHANGED failures
  <2> DEFINE q == [req[r] EXCEPT !.step = "check", !.avatar = {"url", "key"}, !.key = r]
  <2>1. /\ q \in Request /\ q.client = req[r].client /\ q.name = req[r].name
        /\ q.step = "check" /\ q.told = "none" /\ q.waiting = req[r].waiting
        /\ q.avatar = {"url", "key"} /\ q.key = r
    BY <1>3, <1>4 DEF Request, Steps
  <2>2. req' = [req EXCEPT ![r] = q]
    BY <1>5
  <2> HIDE DEF q
  <2> QED BY <1>1, <1>2, <1>3, <1>5, <2>1, <2>2, RequestKeeps
<1>6. CASE CallFails(r) /\ bucket' \in {bucket, bucket \cup {r}} /\ Answer(r, "500")
  BY <1>1, <1>2, <1>3, <1>6, CallFailsBounded, EndsWithoutRow
<1> QED BY <1>5, <1>6 DEF UploadAvatar

\* Looking the name up keeps the invariant.
LEMMA ExistsInv ==
  ASSUME RegistrationInv, NEW r \in Requests, ExistsByUsername(r)
  PROVE  RegistrationInv'
<1>1. Running(r) /\ req[r].step = "check"
  BY DEF ExistsByUsername, Running
<1>2. config' = config /\ users' = users /\ bucket' = bucket
  BY DEF ExistsByUsername
<1>3. req[r] \in Request /\ bucket \subseteq Requests /\ failures \in 0 .. MaxFailures
  BY DEF RegistrationInv, TypeOK
<1>4. CASE Taken(req[r].name) /\ Answer(r, "409") /\ UNCHANGED failures
  BY <1>1, <1>2, <1>3, <1>4, EndsWithoutRow
<1>5. CASE Proceed(r, "insert") /\ UNCHANGED failures
  <2> DEFINE q == [req[r] EXCEPT !.step = "insert"]
  <2>1. /\ q \in Request /\ q.client = req[r].client /\ q.name = req[r].name
        /\ q.step = "insert" /\ q.told = req[r].told /\ q.waiting = req[r].waiting
        /\ q.avatar = req[r].avatar /\ q.key = req[r].key
    BY <1>3 DEF Request, Steps
  <2>2. req' = [req EXCEPT ![r] = q]
    BY <1>5 DEF Proceed
  <2>3. /\ q.told = "none" /\ q.avatar \in {{}, {"url", "key"}}
        /\ q.key = IF r \in bucket' THEN r ELSE 0
        /\ q.avatar = IF r \in bucket' THEN {"url", "key"} ELSE config
    BY <1>1, <1>2, <2>1 DEF RegistrationInv, RequestsInOrder
  <2> HIDE DEF q
  <2> QED BY <1>1, <1>2, <1>3, <1>5, <2>1, <2>2, <2>3, RequestKeeps
<1>6. CASE CallFails(r) /\ Answer(r, "500")
  BY <1>1, <1>2, <1>3, <1>6, CallFailsBounded, EndsWithoutRow
<1> QED BY <1>4, <1>5, <1>6 DEF ExistsByUsername

\* The INSERT keeps the invariant, also when it loses the race for the name.
LEMMA CreateInv ==
  ASSUME RegistrationInv, NEW r \in Requests, Create(r)
  PROVE  RegistrationInv'
<1>1. Running(r) /\ req[r].step = "insert"
  BY DEF Create, Running
<1>2. config' = config /\ bucket' = bucket
  BY DEF Create
<1>3. req[r] \in Request /\ bucket \subseteq Requests /\ failures \in 0 .. MaxFailures
  BY DEF RegistrationInv, TypeOK
<1>4. CASE /\ ~Refused(r)
           /\ users' = [users EXCEPT ![req[r].name] = RowOf(r)]
           /\ \/ Answer(r, "201") /\ UNCHANGED failures
              \/ Answer(r, "500") /\ CallFails(r)
  BY <1>1, <1>2, <1>3, <1>4, CallFailsBounded, InsertInv
<1>5. CASE /\ Refused(r) /\ UNCHANGED <<users, failures>>
           /\ Answer(r, "500")
  BY <1>1, <1>2, <1>3, <1>5, EndsWithoutRow
<1>6. CASE CallFails(r) /\ UNCHANGED users /\ Answer(r, "500")
  BY <1>1, <1>2, <1>3, <1>6, CallFailsBounded, EndsWithoutRow
<1> QED BY <1>4, <1>5, <1>6 DEF Create

\* A client that stops waiting keeps the invariant.
LEMMA GiveUpInv ==
  ASSUME RegistrationInv, NEW r \in Requests, GiveUp(r)
  PROVE  RegistrationInv'
<1> DEFINE q == [req[r] EXCEPT !.waiting = FALSE]
<1>1. req[r] \in Request /\ bucket \subseteq Requests /\ failures \in 0 .. MaxFailures
  BY DEF RegistrationInv, TypeOK
<1>2. Running(r) /\ req' = [req EXCEPT ![r] = q]
  BY DEF GiveUp
<1>3. UNCHANGED <<config, users, bucket, failures>>
  BY DEF GiveUp
<1>4. /\ q \in Request /\ q.client = req[r].client /\ q.name = req[r].name
      /\ q.step = req[r].step /\ q.told = req[r].told /\ ~q.waiting
      /\ q.avatar = req[r].avatar /\ q.key = req[r].key
  BY <1>1 DEF Request
<1>5. /\ req[r].step \notin {"none", "ended"} /\ req[r].told = "none"
      /\ req[r].step \in {"check", "insert"} =>
           /\ req[r].key = IF r \in bucket THEN r ELSE 0
           /\ req[r].avatar = IF r \in bucket THEN {"url", "key"} ELSE config
           /\ req[r].avatar \in {{}, {"url", "key"}}
      /\ req[r].step = "upload" => r \notin bucket
  BY <1>2 DEF RegistrationInv, RequestsInOrder, Running
<1> HIDE DEF q
<1> QED BY <1>1, <1>2, <1>3, <1>4, <1>5, RequestKeeps

\* A crash ends every request in progress and keeps the invariant.
LEMMA CrashInv ==
  ASSUME RegistrationInv, Crash
  PROVE  RegistrationInv'
<1> USE DEF RegistrationInv
<1> DEFINE q(r) == Ended([req[r] EXCEPT !.waiting = FALSE], "none")
<1>1. UNCHANGED <<config, users, bucket>> /\ failures' \in 0 .. MaxFailures
  BY DEF Crash, TypeOK
<1>2. \A r \in Requests : req[r] \in Request /\ req'[r] = IF Running(r) THEN q(r) ELSE req[r]
  BY DEF Crash, TypeOK
<1>3. \A r \in Requests :
        /\ q(r) \in Request /\ q(r).client = req[r].client /\ q(r).name = req[r].name
        /\ q(r).step = "ended" /\ ~q(r).waiting /\ q(r).told = "none"
  <2> SUFFICES ASSUME NEW r \in Requests
               PROVE  /\ q(r) \in Request /\ q(r).client = req[r].client
                      /\ q(r).name = req[r].name
                      /\ q(r).step = "ended" /\ ~q(r).waiting /\ q(r).told = "none"
    OBVIOUS
  <2> DEFINE gone == [req[r] EXCEPT !.waiting = FALSE]
  <2>1. req[r] \in Request
    BY <1>2
  <2>2. gone \in Request /\ gone.client = req[r].client /\ gone.name = req[r].name
    BY <2>1 DEF Request
  <2>3. q(r) = Ended(gone, "none")
    OBVIOUS
  <2> HIDE DEF gone, q
  <2> QED BY <2>2, <2>3, EndedFacts DEF Answers
<1>4. \A r \in Requests : Running(r) => req[r].told = "none"
  BY DEF RequestsInOrder, Running
<1> HIDE DEF q
<1>5. \A r \in Requests :
        /\ req'[r] \in Request /\ req'[r].client = req[r].client /\ req'[r].name = req[r].name
        /\ req'[r].step \in {"none", "ended"} /\ ~req'[r].waiting /\ req'[r].told = req[r].told
        /\ req[r].step = "ended" => req'[r].step = "ended"
        /\ req'[r].step = "none" => req'[r] = req[r]
  BY <1>2, <1>3, <1>4 DEF RequestsInOrder, Running
<1>6. TypeOK'
  <2>1. req' \in [Requests -> Request]
    BY <1>5 DEF Crash
  <2>2. \A r \in Requests :
          req'[r].step # "none" => req'[r].name \in Names /\ req'[r].client \in Clients
    BY <1>2, <1>3, <1>5 DEF TypeOK, Running
  <2> QED BY <1>1, <2>1, <2>2 DEF TypeOK
<1>7. RowsHaveRequests'
  BY <1>1, <1>5 DEF RowsHaveRequests, Taken
<1>8. RequestsInOrder'
  BY <1>1, <1>5 DEF RequestsInOrder, Running
<1>9. OneAtATime'
  BY <1>5 DEF OneAtATime
<1>10. AnswersHold'
  <2> SUFFICES ASSUME NEW s \in Requests
               PROVE  LET n == req[s].name
                      IN /\ req[s].told = "201" => users[n].by = s
                         /\ req[s].told = "409" =>
                              /\ Taken(n)
                              /\ req'[users[n].by].client = req[s].client =>
                                   req'[users[n].by].told \in {"none", "500"}
                         /\ req[s].told \in {"400", "409"} => \A m \in Names : users[m].by # s
    BY <1>1, <1>5 DEF AnswersHold, Owner, Taken
  <2>1. req[s].told = "409" => req[s].name \in Names /\ Taken(req[s].name)
    BY DEF TypeOK, RequestsInOrder, AnswersHold
  <2>2. req[s].told = "409" => users[req[s].name].by \in Requests
    BY <2>1 DEF RowsHaveRequests
  <2> QED BY <1>5, <2>2 DEF AnswersHold, Owner
<1>11. AvatarsWhole'
  BY <1>1 DEF AvatarsWhole, Taken
<1> QED BY <1>6, <1>7, <1>8, <1>9, <1>10, <1>11

\* The end of the onboarding keeps the invariant.
LEMMA OnboardingInv ==
  ASSUME RegistrationInv, NEW n \in Names, CompleteOnboarding(n)
  PROVE  RegistrationInv'
<1> USE DEF RegistrationInv
<1>1. UNCHANGED <<config, bucket, req, failures>>
  BY DEF CompleteOnboarding
<1>2. \A m \in Names : /\ users[m] \in Row /\ users'[m] \in Row /\ users'[m].by = users[m].by
                       /\ users'[m].key = users[m].key
  BY DEF CompleteOnboarding, TypeOK, Row
<1>3. TypeOK'
  <2>1. users' \in [Names -> Row]
    BY <1>2 DEF CompleteOnboarding, TypeOK
  <2> QED BY <1>1, <2>1 DEF TypeOK
<1>4. RowsHaveRequests'
  BY <1>1, <1>2 DEF RowsHaveRequests, Taken
<1>5. RequestsInOrder' /\ OneAtATime'
  BY <1>1 DEF RequestsInOrder, OneAtATime, Running
<1>6. AnswersHold'
  <2> SUFFICES ASSUME NEW s \in Requests
               PROVE  LET m == req[s].name
                      IN /\ req[s].told = "201" => users'[m].by = s
                         /\ req[s].told = "409" =>
                              /\ users'[m].by # 0
                              /\ req[users'[m].by].client = req[s].client =>
                                   req[users'[m].by].told \in {"none", "500"}
                         /\ req[s].told \in {"400", "409"} => \A k \in Names : users'[k].by # s
    BY <1>1 DEF AnswersHold, Owner, Taken
  <2>1. req[s].told # "none" => req[s].name \in Names
    BY DEF TypeOK, RequestsInOrder
  <2> QED BY <1>2, <2>1 DEF AnswersHold, Owner, Taken
<1>7. AvatarsWhole'
  BY <1>1, <1>2 DEF AvatarsWhole, Taken
<1> QED BY <1>3, <1>4, <1>5, <1>6, <1>7

\* Every step keeps the invariant.
LEMMA NextInv == RegistrationInv /\ [Next]_vars => RegistrationInv'
<1> SUFFICES ASSUME RegistrationInv, [Next]_vars PROVE RegistrationInv'
  OBVIOUS
<1>1. ASSUME NEW r \in Requests, Register(r) PROVE RegistrationInv'
  BY <1>1, RegisterInv
<1>2. ASSUME NEW r \in Requests, Step(r) PROVE RegistrationInv'
  BY <1>2, UploadInv, ExistsInv, CreateInv DEF Step
<1>3. ASSUME NEW r \in Requests, GiveUp(r) PROVE RegistrationInv'
  BY <1>3, GiveUpInv
<1>4. CASE Crash
  BY <1>4, CrashInv
<1>5. ASSUME NEW n \in Names, CompleteOnboarding(n) PROVE RegistrationInv'
  BY <1>5, OnboardingInv
<1>6. CASE UNCHANGED vars
  BY <1>6 DEF vars, RegistrationInv, TypeOK, RowsHaveRequests, RequestsInOrder, OneAtATime,
               AnswersHold, AvatarsWhole, Owner, Taken, Running
<1> QED BY <1>1, <1>2, <1>3, <1>4, <1>5, <1>6 DEF Next

\* The inductive invariant holds in every state, whoever registers which name
\* at the same time and whichever calls fail.
THEOREM RegistrationInvariant == Spec => []RegistrationInv
BY InitInv, NextInv, PTL DEF Spec

\* What a client was told of a name stays true: an account that was promised is
\* the client's for good, and a name is refused only if it is somebody else's.
THEOREM AnswersHoldForGood == Spec => []AnswersHold
<1>1. RegistrationInv => AnswersHold
  BY DEF RegistrationInv
<1> QED BY <1>1, RegistrationInvariant, PTL

\* Every account has the avatar that its own registration stored, or the default
\* one, with URL and key: none has half of one, one that was never stored, or
\* none at all, although the upload and the INSERT are separate steps of which
\* either may fail.
THEOREM NoBrokenAvatar == Spec => []AvatarsWhole
<1>1. RegistrationInv => AvatarsWhole
  BY DEF RegistrationInv
<1> QED BY <1>1, RegistrationInvariant, PTL
=================================================================================
