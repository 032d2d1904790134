------------------------------ MODULE SessionsProofs ------------------------------
(***************************************************************************)
(* Proofs about Sessions for every number of accounts, devices, requests   *)
(* and disturbances.                                                       *)
(***************************************************************************)
EXTENDS Sessions, SequenceTheorems, TLAPS

USE UserOfAssumption, BoundAssumption

\* What the type invariant says of the table.
LEMMA TokenFacts ==
  ASSUME TypeOK
  PROVE  /\ Len(tokens) \in Nat /\ TokenIds = 1 .. Len(tokens)
         /\ \A i \in TokenIds : /\ tokens[i] \in Token
                                /\ tokens[i].root \in TokenIds /\ tokens[i].root <= i
                                /\ tokens[i].replacedBy \in 0 .. Len(tokens)
         /\ \A c \in Conns : /\ req[c] \in Req
                             /\ req[c].token \in 0 .. Len(tokens)
                             /\ req[c].new \in 0 .. Len(tokens)
         /\ \A d \in Devices : stored[d] \in 0 .. Len(tokens)
         /\ \A u \in Users : allRevoked[u] \in 0 .. Len(tokens)
<1>1. Len(tokens) \in Nat /\ TokenIds = 1 .. Len(tokens)
  BY LenProperties DEF TypeOK, TokenIds
<1>2. \A i \in TokenIds : tokens[i] \in Token
  BY <1>1, ElementOfSeq DEF TypeOK
<1> HIDE DEF TokenIds
<1>3. \A i \in TokenIds : tokens[i].root \in Nat \ {0} /\ tokens[i].replacedBy \in Nat
  BY <1>2 DEF Token
<1>4. \A c \in Conns : req[c] \in Req /\ req[c].token \in Nat /\ req[c].new \in Nat
  BY DEF TypeOK, Req
<1> QED BY <1>1, <1>2, <1>3, <1>4 DEF TypeOK

---------------------------------------------------------------------------------
(* The parts of the invariant that speak of requests, of one of them or of two. *)

Fits(r) ==
  r # NoReq =>
    /\ r.device \in Devices
    /\ \/ r.op = "login" /\ r.token = 0 /\ r.step \in {"insert", "reply"}
       \/ r.op = "refresh" /\ r.token # 0
          /\ r.step \in {"find", "insert", "link", "revoke", "family", "reply"}
       \/ r.op = "logout" /\ r.token # 0 /\ r.step \in {"find", "revoke", "reply"}
       \/ r.op = "all" /\ r.token # 0 /\ r.step \in {"revokeAll", "reply"}
    /\ r.op = "refresh" /\ r.step \in {"link", "revoke"} => r.new # 0
    /\ r.new # 0 => r.op \in {"login", "refresh"} /\ r.step \in {"link", "revoke", "reply"}
    /\ r.answer = "pair" <=> r.new # 0
    /\ r.step = "reply" => r.answer # "none"
    /\ r.next \in {0, r.new}

Owned(r) == \A i \in {r.token, r.new} : i # 0 => tokens[i].user = UserOf[r.device]

InFlight(r) ==
  r.new # 0 =>
    /\ r.op = "refresh" => r.new > r.token /\ Root(r.new) = Root(r.token)
    /\ r.step \in {"link", "revoke"} => \A i \in TokenIds : tokens[i].replacedBy # r.new

InTime(r) ==
  r.op = "refresh" /\ r.step = "insert"
  /\ Root(r.token) <= allRevoked[UserOf[r.device]] => Root(r.token) \in caught[UserOf[r.device]]

Awaited(r) ==
  r # NoReq =>
    /\ r.waiting /\ r.token = stored[r.device] /\ r.answer # "error"
    /\ r.step = "family" => ~tokens[r.token].live
    /\ r.step = "reply" /\ r.op # "login" => ~tokens[r.token].live \/ tokens[r.token].expired

Harmless(r) ==
  /\ r.op # "all" /\ r.step # "family" /\ r.answer # "reused"
  /\ r.new # 0 => tokens[r.new].live

\* The table grows, its tokens lose their worth at most, and devices keep what
\* they have.
Grows ==
  /\ Len(tokens) <= Len(tokens')
  /\ \A i \in TokenIds : /\ tokens'[i].user = tokens[i].user /\ tokens'[i].root = tokens[i].root
                         /\ tokens'[i].live => tokens[i].live
                         /\ tokens[i].expired => tokens'[i].expired
  /\ \A k \in Kinds : Never(k)' => Never(k)
  /\ stored' = stored

\* At most the request on c changes.
Only(c) == \A d \in Conns : d # c => req'[d] = req[d]

\* A step that was counted has not never been taken, and forgets no other.
LEMMA SpendFacts ==
  ASSUME TypeOK, NEW k \in Kinds \ {"steps"}, Spend(k)
  PROVE  /\ used' \in [Kinds -> Nat] /\ \A j \in Kinds : used'[j] <= Bound[j]
         /\ \A j \in Kinds : Never(j)' => Never(j)
         /\ ~Never(k)'
<1> DEFINE n == used[k] + 1
           m == used["steps"] + 1
<1>1. used \in [Kinds -> Nat] /\ "steps" \in Kinds
  BY DEF TypeOK, Kinds
<1>2. used' = [[used EXCEPT ![k] = n] EXCEPT !["steps"] = m] /\ n <= Bound[k] /\ m <= Bound["steps"]
  BY <1>1 DEF Spend
<1>3. used'[k] = n /\ used'["steps"] = m /\ \A j \in Kinds \ {k, "steps"} : used'[j] = used[j]
  BY <1>1, <1>2
<1>4. \A j \in Kinds : used[j] \in Nat /\ Bound[j] \in Nat /\ used[j] <= Bound[j]
  BY DEF TypeOK
<1>5. used' \in [Kinds -> Nat]
  BY <1>1, <1>2, <1>4
<1>6. \A j \in Kinds : used'[j] <= Bound[j]
  BY <1>2, <1>3, <1>4
<1> HIDE DEF n, m
<1>7. \A j \in Kinds : Never(j)' => Never(j)
  BY <1>3, <1>4 DEF n, m, Never
<1>8. ~Never(k)'
  BY <1>3, <1>4 DEF n, Never
<1> QED BY <1>5, <1>6, <1>7, <1>8

LEMMA NoneSpent ==
  ASSUME TypeOK, used' = used
  PROVE  /\ used' \in [Kinds -> Nat] /\ \A j \in Kinds : used'[j] <= Bound[j]
         /\ \A j \in Kinds : Never(j)' => Never(j)
BY DEF TypeOK, Never

---------------------------------------------------------------------------------
(* What a step must see to that each part of the invariant is kept, if it
   changes one request and the devices keep what they have. *)

LEMMA TypeKeeps ==
  ASSUME TypeOK, NEW c, Only(c), stored' = stored,
         tokens' \in Seq(Token), Len(tokens) <= Len(tokens'),
         \A i \in TokenIds' : tokens'[i].root <= i /\ tokens'[i].replacedBy <= Len(tokens'),
         req' \in [Conns -> Req],
         c \in Conns => req'[c].token <= Len(tokens') /\ req'[c].new <= Len(tokens'),
         allRevoked' \in [Users -> 0 .. Len(tokens')], caught' \in [Users -> SUBSET TokenIds'],
         used' \in [Kinds -> Nat], \A k \in Kinds : used'[k] <= Bound[k]
  PROVE  TypeOK'
<1>1. Len(tokens') \in Nat
  BY LenProperties
<1>2. stored' \in [Devices -> 0 .. Len(tokens')]
  BY <1>1, TokenFacts DEF TypeOK
<1>3. \A d \in Conns : req'[d].token <= Len(tokens') /\ req'[d].new <= Len(tokens')
  BY <1>1, TokenFacts DEF Only
<1> QED BY <1>2, <1>3 DEF TypeOK

LEMMA SenseKeeps ==
  ASSUME RequestsMakeSense, NEW c, Only(c), c \in Conns => Fits(req[c])'
  PROVE  RequestsMakeSense'
BY DEF RequestsMakeSense, Fits, Only

LEMMA OwnersKeep ==
  ASSUME TypeOK, TokensHaveOwners, Grows, NEW c, Only(c), c \in Conns => Owned(req[c])'
  PROVE  TokensHaveOwners'
<1>1. \A d \in Devices : stored'[d] # 0 => tokens'[stored'[d]].user = UserOf[d]
  BY TokenFacts DEF TokensHaveOwners, Grows
<1>2. ASSUME NEW d \in Conns, NEW i \in {req'[d].token, req'[d].new}, i # 0
      PROVE  tokens'[i].user = UserOf[req'[d].device]
  <2>1. CASE d = c
    BY <1>2, <2>1 DEF Owned
  <2>2. CASE d # c
    BY <1>2, <2>2, TokenFacts DEF TokensHaveOwners, Grows, Only, User
  <2> QED BY <2>1, <2>2
<1> QED BY <1>1, <1>2 DEF TokensHaveOwners, User

\* The new token on the way is the one that was, or one that nobody has.
LEMMA KeeperKeeps ==
  ASSUME TypeOK, OneKeeper, Grows, NEW c, Only(c),
         c \in Conns => req'[c].new \in Nat /\ (req'[c].new \in {0, req[c].new} \/ req'[c].new > Len(tokens))
  PROVE  OneKeeper'
BY TokenFacts DEF OneKeeper, Grows, Only

\* No token is replaced.
LEMMA ChainsKeep ==
  ASSUME TypeOK, TypeOK', RequestsMakeSense, SuccessorsInFlight, ChainsAreDisjoint, Grows, NEW c, Only(c),
         \A i \in TokenIds' :
           tokens'[i].replacedBy = IF i \in TokenIds THEN tokens[i].replacedBy ELSE 0,
         c \in Conns => InFlight(req[c])'
  PROVE  SuccessorsInFlight' /\ ChainsAreDisjoint'
<1>1. /\ Len(tokens) \in Nat /\ TokenIds = 1 .. Len(tokens)
      /\ Len(tokens') \in Nat /\ TokenIds' = 1 .. Len(tokens')
  <2>1. (Len(tokens) \in Nat /\ TokenIds = 1 .. Len(tokens))'
    BY LenProperties DEF TypeOK, TokenIds
  <2> QED BY <2>1, TokenFacts
<1>2. TokenIds \subseteq TokenIds' /\ \A i \in TokenIds : Root(i)' = Root(i)
  BY <1>1 DEF Grows, Root
<1>3. ASSUME NEW d \in Conns PROVE InFlight(req[d])'
  <2>1. CASE d # c /\ req[d].new # 0
    <3>1. InFlight(req[d]) /\ req'[d] = req[d] /\ req[d].new \in TokenIds
      BY <1>1, <2>1, TokenFacts DEF SuccessorsInFlight, InFlight, Only
    <3>2. ASSUME req[d].op = "refresh"
          PROVE  req[d].new > req[d].token /\ Root(req[d].new)' = Root(req[d].token)'
      <4>1. req[d].new > req[d].token /\ Root(req[d].new) = Root(req[d].token)
        BY <2>1, <3>1, <3>2 DEF InFlight
      <4>2. req[d].token \in TokenIds
        BY <1>1, <2>1, <3>2, TokenFacts DEF RequestsMakeSense, NoReq
      <4> QED BY <1>2, <3>1, <4>1, <4>2
    <3>3. ASSUME req[d].step \in {"link", "revoke"}
          PROVE  \A i \in TokenIds' : tokens'[i].replacedBy # req[d].new
      BY <2>1, <3>1, <3>3 DEF InFlight
    <3> QED BY <3>1, <3>2, <3>3 DEF InFlight
  <2>2. CASE d # c /\ req[d].new = 0
    BY <2>2 DEF InFlight, Only
  <2> QED BY <2>1, <2>2
<1>4. SuccessorsInFlight'
  BY <1>3 DEF SuccessorsInFlight, InFlight
<1>5. ChainsAreDisjoint'
  <2> SUFFICES ASSUME NEW i \in TokenIds', tokens'[i].replacedBy # 0
               PROVE  LET n == tokens'[i].replacedBy
                      IN /\ n > i /\ tokens'[n].root = tokens'[i].root
                         /\ \A j \in TokenIds' \ {i} : tokens'[j].replacedBy # n
    BY DEF ChainsAreDisjoint, Root
  <2>1. i \in TokenIds /\ tokens'[i].replacedBy = tokens[i].replacedBy
        /\ tokens[i].replacedBy \in TokenIds
    BY <1>1, TokenFacts
  <2> QED BY <1>1, <1>2, <2>1 DEF ChainsAreDisjoint, Root
<1> QED BY <1>4, <1>5

\* No revocation of all of a user's tokens.
LEMMA LogoutKeeps ==
  ASSUME TypeOK, CaughtInTime, LogoutAllReachesAll, Grows, NEW c, Only(c),
         UNCHANGED <<allRevoked, caught>>,
         \A i \in TokenIds' \ TokenIds :
           tokens'[i].root <= allRevoked[tokens'[i].user] =>
             tokens'[i].root \in caught[tokens'[i].user],
         c \in Conns => InTime(req[c])',
         \A d \in Conns : req[d].op = "refresh" => req[d].token # 0
  PROVE  CaughtInTime' /\ LogoutAllReachesAll'
<1>1. \A i \in TokenIds : Root(i)' = Root(i) /\ tokens'[i].user = tokens[i].user
  BY DEF Grows, Root
<1>2. ASSUME NEW d \in Conns PROVE InTime(req[d])'
  BY <1>1, TokenFacts DEF CaughtInTime, InTime, Only, User
<1>3. LogoutAllReachesAll'
  BY <1>1 DEF LogoutAllReachesAll, Grows, Root
<1> QED BY <1>2, <1>3 DEF CaughtInTime, InTime, User

\* The request still waits for its answer, and no other of its device does.
LEMMA AwaitedKeeps ==
  ASSUME TypeOK, RequestsMakeSense, AnswersAwaited, Grows, NEW c, Only(c),
         Heard' /\ c \in Conns =>
           /\ Awaited(req[c])'
           /\ req'[c] # NoReq =>
                \A d \in Conns \ {c} : req[d] # NoReq => req[d].device # req'[c].device
  PROVE  AnswersAwaited'
<1> SUFFICES ASSUME Heard'
             PROVE  /\ \A d \in Conns : Awaited(req[d])'
                    /\ \A d, e \in Conns : d # e /\ req'[d] # NoReq /\ req'[e] # NoReq =>
                         req'[d].device # req'[e].device
  BY DEF AnswersAwaited, Awaited
<1>1. Heard
  BY DEF Heard, Grows, Kinds
<1>2. ASSUME NEW d \in Conns, d # c, req[d] # NoReq PROVE Awaited(req[d])'
  <2>1. Awaited(req[d]) /\ req'[d] = req[d]
    BY <1>1, <1>2 DEF AnswersAwaited, Awaited, Only
  <2>2. req[d].step = "family" \/ (req[d].step = "reply" /\ req[d].op # "login") =>
          req[d].token \in TokenIds
    BY <1>2, TokenFacts DEF RequestsMakeSense
  <2>3. stored' = stored
    BY DEF Grows
  <2>4. ASSUME req[d].step = "family" PROVE ~tokens'[req[d].token].live
    BY <1>2, <2>1, <2>2, <2>4 DEF Awaited, Grows
  <2>5. ASSUME req[d].step = "reply", req[d].op # "login"
        PROVE  ~tokens'[req[d].token].live \/ tokens'[req[d].token].expired
    BY <1>2, <2>1, <2>2, <2>5 DEF Awaited, Grows
  <2> QED BY <1>2, <2>1, <2>3, <2>4, <2>5 DEF Awaited
<1>3. ASSUME NEW d \in Conns PROVE Awaited(req[d])'
  <2>1. CASE d # c /\ req[d] = NoReq
    BY <2>1 DEF Awaited, Only
  <2> QED BY <1>2, <2>1
<1>4. ASSUME NEW d \in Conns, NEW e \in Conns, d # e, req'[d] # NoReq, req'[e] # NoReq
      PROVE  req'[d].device # req'[e].device
  BY <1>1, <1>4 DEF AnswersAwaited, Only
<1> QED BY <1>3, <1>4

\* What is new is on its way.
LEMMA NoneLeftKeeps ==
  ASSUME TypeOK, NoTokenLeftBehind, Grows, NEW c, Only(c),
         Heard' /\ c \in Conns => req'[c].new = req[c].new \/ req[c].new = 0,
         Heard' => \A i \in TokenIds' \ TokenIds : c \in Conns /\ req'[c].new = i
  PROVE  NoTokenLeftBehind'
<1> SUFFICES ASSUME Heard', NEW i \in TokenIds', tokens'[i].live, ~tokens'[i].expired
             PROVE  (\E d \in Devices : stored'[d] = i) \/ (\E d \in Conns : req'[d].new = i)
  BY DEF NoTokenLeftBehind, Heard
<1>1. CASE i \in TokenIds
  <2>1. (\E d \in Devices : stored[d] = i) \/ (\E d \in Conns : req[d].new = i)
    BY <1>1 DEF NoTokenLeftBehind, Heard, Grows, Kinds
  <2>2. i # 0
    BY <1>1, TokenFacts
  <2> QED BY <2>1, <2>2 DEF Grows, Only
<1>2. CASE i \notin TokenIds
  BY <1>2
<1> QED BY <1>1, <1>2

\* The request revokes at most the token that its device keeps, and has been
\* answered when it has.
LEMMA OwnerKeeps ==
  ASSUME TypeOK, OneKeeper, RevokedByOwner, Grows, NEW c, Only(c),
         Heard' /\ Never("alls")' =>
           /\ c \in Conns => /\ Harmless(req[c])'
                             /\ req[c].step = "reply" =>
                                  req'[c].step = "reply" /\ req'[c].device = req[c].device
           /\ \A i \in TokenIds : tokens[i].live /\ ~tokens'[i].live =>
                /\ c \in Conns /\ req'[c].step = "reply"
                /\ req'[c].device \in Devices /\ i = stored[req'[c].device]
  PROVE  RevokedByOwner'
<1> SUFFICES ASSUME Heard', Never("alls")'
             PROVE  /\ \A d \in Conns : Harmless(req[d])'
                    /\ \A d \in Devices : stored'[d] # 0 =>
                         \/ tokens'[stored'[d]].live
                         \/ \E e \in Conns : req'[e].device = d /\ req'[e].step = "reply"
  BY DEF RevokedByOwner, Harmless
<1>1. Heard /\ Never("alls")
  BY DEF Heard, Grows, Kinds
<1>2. ASSUME NEW d \in Conns, d # c PROVE Harmless(req[d])'
  <2>1. Harmless(req[d])
    <3>1. \A e \in Conns : Harmless(req[e])
      BY <1>1, Zenon DEF RevokedByOwner, Harmless
    <3> QED BY <3>1
  <2>0. req'[d] = req[d]
    BY <1>2 DEF Only
  <2>2. ASSUME req[d].new # 0 PROVE tokens'[req[d].new].live
    <3>1. req[d].new \in TokenIds /\ tokens[req[d].new].live
      BY <2>1, <2>2, TokenFacts DEF Harmless
    <3>2. \A e \in Devices : req[d].new # stored[e]
      BY <2>2 DEF OneKeeper
    <3> QED BY <3>1, <3>2
  <2> QED BY <2>0, <2>1, <2>2 DEF Harmless
<1>3. ASSUME NEW d \in Devices, stored'[d] # 0, ~tokens'[stored'[d]].live
      PROVE  \E e \in Conns : req'[e].device = d /\ req'[e].step = "reply"
  <2>1. stored'[d] = stored[d] /\ stored[d] \in TokenIds
    BY <1>3, TokenFacts DEF Grows
  <2>2. CASE tokens[stored[d]].live
    <3>1. c \in Conns /\ req'[c].step = "reply" /\ req'[c].device \in Devices
          /\ stored[d] = stored[req'[c].device]
      BY <1>3, <2>1, <2>2
    <3>2. req'[c].device = d
      BY <1>3, <2>1, <3>1 DEF OneKeeper
    <3> QED BY <3>1, <3>2
  <2>3. CASE ~tokens[stored[d]].live
    <3>1. PICK e \in Conns : req[e].device = d /\ req[e].step = "reply"
      BY <1>1, <1>3, <2>1, <2>3 DEF RevokedByOwner
    <3> QED BY <3>1 DEF Only
  <2> QED BY <2>2, <2>3
<1> QED BY <1>2, <1>3

LEMMA NoReqFacts ==
  /\ NoReq \in Req /\ NoReq.op = "none" /\ NoReq.step = "idle" /\ NoReq.device = "none"
  /\ ~NoReq.waiting /\ NoReq.token = 0 /\ NoReq.new = 0 /\ NoReq.next = 0 /\ NoReq.answer = "none"
BY DEF NoReq, Req, Steps, Answers

\* The same request at another step.
Same(r, s) ==
  /\ r.op = s.op /\ r.device = s.device /\ r.waiting = s.waiting
  /\ r.token = s.token /\ r.new = s.new

LEMMA GoFacts ==
  ASSUME TypeOK, NEW c \in Conns, NEW step \in Steps, Go(c, step)
  PROVE  \E r \in Req : /\ req' = [req EXCEPT ![c] = r] /\ Same(r, req[c])
                        /\ r.step = step /\ r.next = req[c].next /\ r.answer = req[c].answer
<1>1. req[c] \in Req
  BY DEF TypeOK
<1> DEFINE r == [req[c] EXCEPT !.step = step]
<1>2. /\ r \in Req /\ Same(r, req[c]) /\ r.step = step /\ r.next = req[c].next
      /\ r.answer = req[c].answer
  BY <1>1 DEF Req, Same
<1>3. req' = [req EXCEPT ![c] = r]
  BY DEF Go
<1> QED BY <1>2, <1>3

LEMMA AnswerFacts ==
  ASSUME TypeOK, NEW c \in Conns, NEW a \in Answers, Answer(c, a)
  PROVE  \E r \in Req : /\ req' = [req EXCEPT ![c] = r] /\ Same(r, req[c])
                        /\ r.step = "reply" /\ r.next = req[c].next /\ r.answer = a
<1>1. req[c] \in Req
  BY DEF TypeOK
<1> DEFINE r == [req[c] EXCEPT !.step = "reply", !.answer = a]
<1>2. /\ r \in Req /\ Same(r, req[c]) /\ r.step = "reply" /\ r.next = req[c].next
      /\ r.answer = a
  BY <1>1 DEF Req, Same, Steps
<1>3. req' = [req EXCEPT ![c] = r]
  BY DEF Answer
<1> QED BY <1>2, <1>3

---------------------------------------------------------------------------------
(* The steps *)

\* A step that changes one request and nothing else keeps the invariant, if
\* what the request becomes fits.
LEMMA RequestKeeps ==
  ASSUME SessionsInv, UNCHANGED <<tokens, stored, allRevoked, caught>>,
         used' \in [Kinds -> Nat], \A k \in Kinds : used'[k] <= Bound[k],
         \A k \in Kinds : Never(k)' => Never(k),
         NEW c \in Conns, NEW r \in Req, req' = [req EXCEPT ![c] = r],
         r.token <= Len(tokens), r.new = req[c].new,
         Fits(r), Owned(r), InFlight(r), InTime(r),
         Heard' => /\ Awaited(r) /\ req[c].step # "reply"
                   /\ \A d \in Conns \ {c} : req[d] # NoReq => req[d].device # r.device,
         Heard' /\ Never("alls")' => Harmless(r)
  PROVE  SessionsInv'
<1> USE DEF SessionsInv
<1>1. req'[c] = r /\ Only(c)
  BY DEF TypeOK, Only
<1>2. Grows
  BY TokenFacts DEF Grows
<1>3. TokenIds' = TokenIds
  BY DEF TokenIds
<1>4. TypeOK'
  <2>1. req' \in [Conns -> Req] /\ tokens' \in Seq(Token)
    BY DEF TypeOK
  <2> QED BY <1>1, <1>3, <2>1, TypeKeeps, TokenFacts DEF TypeOK
<1>5. RequestsMakeSense'
  BY <1>1, SenseKeeps
<1>6. TokensHaveOwners'
  <2>1. Owned(req[c])'
    BY <1>1 DEF Owned
  <2> QED BY <1>1, <1>2, <2>1, OwnersKeep
<1>7. OneKeeper'
  BY <1>1, <1>2, KeeperKeeps, TokenFacts
<1>8. SuccessorsInFlight' /\ ChainsAreDisjoint'
  <2>1. InFlight(req[c])'
    BY <1>1 DEF InFlight, TokenIds, Root
  <2> QED BY <1>1, <1>2, <1>3, <1>4, <2>1, ChainsKeep
<1>9. CaughtInTime' /\ LogoutAllReachesAll'
  <2>1. InTime(req[c])'
    BY <1>1 DEF InTime, Root
  <2>2. \A d \in Conns : req[d].op = "refresh" => req[d].token # 0
    BY NoReqFacts DEF RequestsMakeSense
  <2> QED BY <1>1, <1>2, <1>3, <2>1, <2>2, LogoutKeeps
<1>10. AnswersAwaited'
  <2>1. Heard' => Awaited(req[c])'
    BY <1>1 DEF Awaited
  <2> QED BY <1>1, <1>2, <2>1, AwaitedKeeps
<1>11. NoTokenLeftBehind'
  BY <1>1, <1>2, <1>3, NoneLeftKeeps
<1>12. RevokedByOwner'
  <2>1. Heard' /\ Never("alls")' => Harmless(req[c])'
    BY <1>1 DEF Harmless
  <2> QED BY <1>1, <1>2, <2>1, OwnerKeeps
<1> QED BY <1>4, <1>5, <1>6, <1>7, <1>8, <1>9, <1>10, <1>11, <1>12

LEMMA RequestInv ==
  ASSUME SessionsInv, NEW c \in Conns, NEW d \in Devices, NEW op, NEW step,
         Request(c, d, op, step),
         \/ op = "login" /\ step = "insert" /\ stored[d] = 0
         \/ op \in {"refresh", "logout"} /\ step = "find" /\ stored[d] # 0
         \/ op = "all" /\ step = "revokeAll" /\ stored[d] # 0 /\ ~Never("alls")',
         used' \in [Kinds -> Nat], \A k \in Kinds : used'[k] <= Bound[k],
         \A k \in Kinds : Never(k)' => Never(k)
  PROVE  SessionsInv'
<1> USE DEF SessionsInv
<1>1. /\ req[c] = NoReq /\ ~Waiting(d)
      /\ req' = [req EXCEPT ![c] = [NoReq EXCEPT !.op = op, !.step = step, !.device = d,
                                                 !.waiting = TRUE, !.token = stored[d]]]
      /\ UNCHANGED <<tokens, stored, allRevoked, caught>>
  BY DEF Request
<1>2. /\ stored[d] \in Nat /\ stored[d] <= Len(tokens) /\ Len(tokens) \in Nat
      /\ op \in {"none", "login", "refresh", "logout", "all"} /\ step \in Steps
  BY TokenFacts DEF Steps
<1> DEFINE r == [NoReq EXCEPT !.op = op, !.step = step, !.device = d,
                              !.waiting = TRUE, !.token = stored[d]]
<1>3. /\ r \in Req /\ r.op = op /\ r.step = step /\ r.device = d /\ r.waiting
      /\ r.token = stored[d] /\ r.new = 0 /\ r.next = 0 /\ r.answer = "none"
  BY <1>2, NoReqFacts DEF Req, NoReq
<1>4. req' = [req EXCEPT ![c] = r]
  BY <1>1
<1> HIDE DEF r
<1>5. Fits(r)
  BY <1>3 DEF Fits
<1>6. Owned(r)
  BY <1>3 DEF Owned, TokensHaveOwners
<1>7. InFlight(r) /\ InTime(r)
  BY <1>3 DEF InFlight, InTime
<1>8. Heard' => Awaited(r)
  BY <1>3 DEF Awaited
<1>9. ASSUME Heard', NEW e \in Conns \ {c}, req[e] # NoReq
      PROVE  req[e].device # r.device
  <2>1. Heard
    BY <1>9 DEF Heard, Kinds
  <2>2. req[e].waiting
    BY <1>9, <2>1 DEF AnswersAwaited
  <2> QED BY <1>1, <1>3, <1>9, <2>2 DEF Waiting
<1>10. Never("alls")' => Harmless(r)
  BY <1>3 DEF Harmless
<1>11. r.token <= Len(tokens) /\ r.new = req[c].new /\ req[c].step # "reply"
  BY <1>1, <1>2, <1>3, NoReqFacts
<1> QED BY <1>1, <1>3, <1>4, <1>5, <1>6, <1>7, <1>8, <1>9, <1>10, <1>11, RequestKeeps

\* A device begins a request of each kind.
LEMMA BeginInv ==
  ASSUME SessionsInv, NEW c \in Conns, NEW d \in Devices,
         Login(c, d) \/ Refresh(c, d) \/ Logout(c, d) \/ LogoutAll(c, d)
  PROVE  SessionsInv'
<1>1. TypeOK
  BY DEF SessionsInv
<1>2. CASE Login(c, d)
  <2>1. Spend("logins") /\ stored[d] = 0 /\ Request(c, d, "login", "insert")
    BY <1>2 DEF Login
  <2> QED BY <1>1, <2>1, RequestInv, SpendFacts DEF Kinds
<1>3. CASE Refresh(c, d)
  <2>1. Spend("refreshes") /\ stored[d] # 0 /\ Request(c, d, "refresh", "find")
    BY <1>3 DEF Refresh
  <2> QED BY <1>1, <2>1, RequestInv, SpendFacts DEF Kinds
<1>4. CASE Logout(c, d)
  <2>1. Spend("logouts") /\ stored[d] # 0 /\ Request(c, d, "logout", "find")
    BY <1>4 DEF Logout
  <2> QED BY <1>1, <2>1, RequestInv, SpendFacts DEF Kinds
<1>5. CASE LogoutAll(c, d)
  <2>1. Spend("alls") /\ stored[d] # 0 /\ Request(c, d, "all", "revokeAll")
    BY <1>5 DEF LogoutAll
  <2> QED BY <1>1, <2>1, RequestInv, SpendFacts DEF Kinds
<1> QED BY <1>2, <1>3, <1>4, <1>5

\* The app is killed: from now on not every answer is heard.
LEMMA KillAppInv ==
  ASSUME SessionsInv, NEW d \in Devices, KillApp(d)
  PROVE  SessionsInv'
<1> USE DEF SessionsInv
<1>1. PICK c \in Conns : /\ req[c].device = d /\ req[c].waiting
                         /\ req' = [req EXCEPT ![c].waiting = FALSE]
  BY DEF KillApp
<1>2. Spend("kills") /\ UNCHANGED <<tokens, stored, allRevoked, caught>>
  BY DEF KillApp
<1>3. req[c] \in Req /\ req[c] # NoReq
  BY <1>1, NoReqFacts DEF TypeOK
<1> DEFINE r == [req[c] EXCEPT !.waiting = FALSE]
<1>4. /\ r \in Req /\ r.op = req[c].op /\ r.step = req[c].step /\ r.device = req[c].device
      /\ r.token = req[c].token /\ r.new = req[c].new /\ r.next = req[c].next
      /\ r.answer = req[c].answer
  BY <1>3 DEF Req
<1>5. req' = [req EXCEPT ![c] = r]
  BY <1>1
<1> HIDE DEF r
<1>6. Fits(r)
  BY <1>3, <1>4 DEF Fits, RequestsMakeSense
<1>7. Owned(r) /\ InFlight(r) /\ InTime(r)
  BY <1>4 DEF Owned, TokensHaveOwners, InFlight, SuccessorsInFlight, InTime, CaughtInTime, User
<1>8. ~Heard'
  BY <1>2, SpendFacts DEF Heard, Kinds
<1>9. r.token <= Len(tokens)
  BY <1>4 DEF TypeOK
<1>10. /\ used' \in [Kinds -> Nat] /\ \A k \in Kinds : used'[k] <= Bound[k]
       /\ \A k \in Kinds : Never(k)' => Never(k)
  BY <1>2, SpendFacts DEF Kinds
<1> QED BY <1>2, <1>4, <1>5, <1>6, <1>7, <1>8, <1>9, <1>10, RequestKeeps

\* A request goes on to another step.
LEMMA StatementKeeps ==
  ASSUME SessionsInv, UNCHANGED <<tokens, stored, allRevoked, caught>>,
         used' \in [Kinds -> Nat], \A k \in Kinds : used'[k] <= Bound[k],
         \A k \in Kinds : Never(k)' => Never(k),
         NEW c \in Conns, req[c] # NoReq, req[c].step # "reply",
         NEW r \in Req, req' = [req EXCEPT ![c] = r], Same(r, req[c]), Fits(r), r # NoReq,
         r.op = "refresh" /\ r.step = "insert" => tokens[r.token].live,
         r.step \in {"link", "revoke"} /\ r.new # 0 => req[c].step \in {"link", "revoke"},
         Heard' => /\ r.answer # "error"
                   /\ r.step = "family" => ~tokens[r.token].live
                   /\ r.step = "reply" /\ r.op # "login" =>
                        ~tokens[r.token].live \/ tokens[r.token].expired,
         Heard' /\ Never("alls")' => r.step # "family" /\ r.answer # "reused"
  PROVE  SessionsInv'
<1> USE DEF SessionsInv
<1>1. /\ r.op = req[c].op /\ r.device = req[c].device /\ r.token = req[c].token
      /\ r.new = req[c].new /\ r.waiting = req[c].waiting
  BY DEF Same
<1>2. Owned(r)
  BY <1>1 DEF Owned, TokensHaveOwners, User
<1>3. InFlight(r)
  BY <1>1 DEF InFlight, SuccessorsInFlight
<1>4. InTime(r)
  <2> SUFFICES ASSUME r.op = "refresh", r.step = "insert",
                      Root(r.token) <= allRevoked[UserOf[r.device]]
               PROVE  Root(r.token) \in caught[UserOf[r.device]]
    BY DEF InTime
  <2>1. r.token # 0 /\ r.token \in TokenIds
    BY <1>1, TokenFacts DEF Fits
  <2>2. tokens[r.token].user = UserOf[r.device]
    BY <1>2, <2>1 DEF Owned
  <2> QED BY <2>1, <2>2 DEF LogoutAllReachesAll
<1>5. Heard' => Heard
  BY DEF Heard, Kinds
<1>6. Heard' => Awaited(r)
  BY <1>1, <1>5 DEF Awaited, AnswersAwaited
<1>7. Heard' => \A d \in Conns \ {c} : req[d] # NoReq => req[d].device # r.device
  BY <1>1, <1>5 DEF AnswersAwaited
<1>8. Heard' /\ Never("alls")' => Harmless(r)
  <2>1. Heard' /\ Never("alls")' => Heard /\ Never("alls")
    BY <1>5 DEF Kinds
  <2> QED BY <1>1, <2>1 DEF Harmless, RevokedByOwner
<1>9. r.token <= Len(tokens)
  BY <1>1 DEF TypeOK
<1> QED BY <1>1, <1>2, <1>3, <1>4, <1>6, <1>7, <1>8, <1>9, RequestKeeps

\* While every answer is heard, the token a request presents is as good as it
\* was when the device got it.
LEMMA PresentedIsLive ==
  ASSUME SessionsInv, Heard, Never("alls"), NEW c \in Conns, req[c] # NoReq,
         req[c].token # 0, req[c].step # "reply"
  PROVE  tokens[req[c].token].live
<1> USE DEF SessionsInv
<1> DEFINE d == req[c].device
<1>1. d \in Devices /\ req[c].token = stored[d]
  BY DEF RequestsMakeSense, AnswersAwaited
<1>2. ASSUME NEW e \in Conns, req[e].device = d, req[e].step = "reply"
      PROVE  FALSE
  BY <1>2, NoReqFacts DEF AnswersAwaited
<1> QED BY <1>1, <1>2 DEF RevokedByOwner

LEMMA FindInv ==
  ASSUME SessionsInv, NEW c \in Conns, Find(c)
  PROVE  SessionsInv'
<1> USE DEF SessionsInv
<1>1. req[c].step = "find" /\ req[c] # NoReq /\ req[c] \in Req
  BY NoReqFacts DEF Find, TypeOK
<1>2. /\ req[c].op \in {"refresh", "logout"} /\ req[c].token # 0 /\ req[c].new = 0
      /\ req[c].next = 0 /\ req[c].answer # "pair" /\ req[c].device \in Devices
  BY <1>1 DEF RequestsMakeSense
<1>3. /\ UNCHANGED <<tokens, stored, allRevoked, caught>> /\ used' = used
      /\ used' \in [Kinds -> Nat] /\ \A k \in Kinds : used'[k] <= Bound[k]
      /\ \A k \in Kinds : Never(k)' => Never(k)
  <2>1. UNCHANGED <<tokens, stored, allRevoked, caught>> /\ used' = used
    BY Zenon DEF Find
  <2> QED BY <2>1, NoneSpent
<1>4. /\ Heard' => Heard /\ req[c].answer \notin {"error"}
      /\ Heard' /\ Never("alls")' => Heard /\ Never("alls") /\ req[c].answer # "reused"
  <2>1. (Heard' => Heard) /\ (Never("alls")' => Never("alls"))
    BY <1>3 DEF Heard, Kinds
  <2> QED BY <1>1, <2>1 DEF AnswersAwaited, RevokedByOwner
<1> DEFINE t == tokens[req[c].token]
<1>5. \/ req[c].op = "logout" /\ Go(c, "revoke")
      \/ req[c].op = "refresh" /\ ~t.live /\ Go(c, "family")
      \/ req[c].op = "refresh" /\ t.live /\ t.expired /\ Answer(c, "out")
      \/ req[c].op = "refresh" /\ t.live /\ Go(c, "insert")
  <2>1. t.live \in BOOLEAN /\ t.expired \in BOOLEAN
    BY <1>1, <1>2, TokenFacts DEF Token
  <2> QED BY <1>2, <2>1 DEF Find
<1>6. CASE req[c].op = "logout" /\ Go(c, "revoke")
  <2>1. PICK r \in Req : /\ req' = [req EXCEPT ![c] = r] /\ Same(r, req[c]) /\ r.step = "revoke"
                         /\ r.next = req[c].next /\ r.answer = req[c].answer
    BY <1>6, GoFacts DEF Steps
  <2>2. Fits(r) /\ r # NoReq
    BY <1>2, <1>6, <2>1, NoReqFacts DEF Fits, Same
  <2> QED BY <1>1, <1>2, <1>3, <1>4, <2>1, <2>2, StatementKeeps DEF Same
<1>7. CASE req[c].op = "refresh" /\ ~t.live /\ Go(c, "family")
  <2>1. PICK r \in Req : /\ req' = [req EXCEPT ![c] = r] /\ Same(r, req[c]) /\ r.step = "family"
                         /\ r.next = req[c].next /\ r.answer = req[c].answer
    BY <1>7, GoFacts DEF Steps
  <2>2. Fits(r) /\ r # NoReq
    BY <1>2, <1>7, <2>1, NoReqFacts DEF Fits, Same
  <2>3. ~(Heard' /\ Never("alls")')
    BY <1>1, <1>2, <1>4, <1>7, PresentedIsLive
  <2> QED BY <1>1, <1>2, <1>3, <1>4, <1>7, <2>1, <2>2, <2>3, StatementKeeps DEF Same
<1>8. CASE req[c].op = "refresh" /\ t.live /\ t.expired /\ Answer(c, "out")
  <2>1. PICK r \in Req : /\ req' = [req EXCEPT ![c] = r] /\ Same(r, req[c]) /\ r.step = "reply"
                         /\ r.next = req[c].next /\ r.answer = "out"
    BY <1>8, AnswerFacts DEF Answers
  <2>2. Fits(r) /\ r # NoReq
    BY <1>2, <1>8, <2>1, NoReqFacts DEF Fits, Same
  <2> QED BY <1>1, <1>2, <1>3, <1>4, <1>8, <2>1, <2>2, StatementKeeps DEF Same
<1>9. CASE req[c].op = "refresh" /\ t.live /\ Go(c, "insert")
  <2>1. PICK r \in Req : /\ req' = [req EXCEPT ![c] = r] /\ Same(r, req[c]) /\ r.step = "insert"
                         /\ r.next = req[c].next /\ r.answer = req[c].answer
    BY <1>9, GoFacts DEF Steps
  <2>2. Fits(r) /\ r # NoReq
    BY <1>2, <1>9, <2>1, NoReqFacts DEF Fits, Same
  <2> QED BY <1>1, <1>2, <1>3, <1>4, <1>9, <2>1, <2>2, StatementKeeps DEF Same
<1> QED BY <1>5, <1>6, <1>7, <1>8, <1>9

\* INSERT: the new token continues the login's chain or begins one, and nobody
\* has its id.
LEMMA InsertKeeps ==
  ASSUME SessionsInv, UNCHANGED <<stored, allRevoked, caught>>,
         used' \in [Kinds -> Nat], \A k \in Kinds : used'[k] <= Bound[k],
         \A k \in Kinds : Never(k)' => Never(k),
         NEW c \in Conns, req[c].step = "insert", tokens' = Append(tokens, NewToken(c)),
         NEW r \in Req, req' = [req EXCEPT ![c] = r], Fits(r), r # NoReq,
         r.op = req[c].op, r.device = req[c].device, r.waiting = req[c].waiting,
         r.token = req[c].token, r.new \in {0, Len(tokens) + 1}, r.step \in {"link", "reply"},
         Heard' => /\ r.new = Len(tokens) + 1 /\ r.answer = "pair"
                   /\ r.step = "reply" => r.op = "login"
  PROVE  SessionsInv'
<1> USE DEF SessionsInv
<1>1. req'[c] = r /\ Only(c)
  BY DEF TypeOK, Only
<1>2. /\ req[c] # NoReq /\ req[c].new = 0 /\ req[c].op \in {"login", "refresh"}
      /\ req[c].device \in Devices
      /\ req[c].op = "refresh" => req[c].token \in TokenIds
  <2>1. req[c] # NoReq
    BY NoReqFacts
  <2> QED BY <2>1, TokenFacts DEF RequestsMakeSense
<1> DEFINE n == Len(tokens) + 1
           t == NewToken(c)
<1>3. /\ t \in Token /\ t.user = User(c) /\ t.live /\ t.replacedBy = 0
      /\ t.root = IF req[c].op = "login" THEN n ELSE Root(req[c].token)
      /\ t.root <= n
  <2>1. User(c) \in Users
    BY <1>2 DEF User
  <2>2. req[c].op # "login" => Root(req[c].token) \in Nat \ {0} /\ Root(req[c].token) <= n
    BY <1>2, TokenFacts DEF Root
  <2>3. n \in Nat \ {0}
    BY TokenFacts
  <2> QED BY <2>1, <2>2, <2>3 DEF NewToken, Token
<1> HIDE DEF t
<1>4. /\ tokens' \in Seq(Token) /\ Len(tokens') = n /\ tokens'[n] = t
      /\ \A i \in TokenIds : tokens'[i] = tokens[i]
  BY <1>3, TokenFacts DEF TypeOK, t
<1>5. TokenIds' = TokenIds \cup {n} /\ n \notin TokenIds /\ Len(tokens) \in Nat
  <2>1. TokenIds' = 1 .. Len(tokens')
    BY <1>4, LenProperties DEF TokenIds
  <2> QED BY <1>4, <2>1, TokenFacts
<1>6. Grows
  <2>1. Len(tokens) <= Len(tokens')
    BY <1>4, <1>5
  <2>2. \A i \in TokenIds : tokens'[i] = tokens[i]
    BY <1>4
  <2> QED BY <2>1, <2>2 DEF Grows
<1>7. r.token <= n /\ r.new <= n /\ r.token # n
  BY TokenFacts
<1>8. TypeOK'
  <2>1. req' \in [Conns -> Req]
    BY DEF TypeOK
  <2>2. \A i \in TokenIds' : tokens'[i].root <= i /\ tokens'[i].replacedBy <= n
    BY <1>3, <1>4, <1>5, TokenFacts
  <2>3. allRevoked' \in [Users -> 0 .. n] /\ caught' \in [Users -> SUBSET TokenIds']
    BY <1>5, TokenFacts DEF TypeOK
  <2>4. TypeOK
    OBVIOUS
  <2> HIDE DEF SessionsInv, n
  <2>5. Len(tokens) <= Len(tokens')
    BY <1>6 DEF Grows
  <2> QED BY <1>1, <1>4, <1>7, <2>1, <2>2, <2>3, <2>4, <2>5, TypeKeeps
<1>9. RequestsMakeSense'
  BY <1>1, SenseKeeps
<1>10. TokensHaveOwners'
  <2>1. Owned(req[c])'
    <3>1. ASSUME r.token # 0 PROVE tokens'[r.token].user = UserOf[r.device]
      BY <1>4, <3>1, TokenFacts DEF TokensHaveOwners, User
    <3>2. ASSUME r.new # 0 PROVE tokens'[r.new].user = UserOf[r.device]
      BY <1>3, <1>4, <3>2 DEF User
    <3> QED BY <1>1, <3>1, <3>2 DEF Owned
  <2> QED BY <1>1, <1>6, <2>1, OwnersKeep
<1>11. OneKeeper'
  BY <1>1, <1>5, <1>6, KeeperKeeps
<1>12. SuccessorsInFlight' /\ ChainsAreDisjoint'
  <2>1. InFlight(req[c])'
    <3> SUFFICES ASSUME r.new # 0
                 PROVE  /\ r.op = "refresh" => r.new > r.token /\ tokens'[r.new].root = tokens'[r.token].root
                        /\ \A i \in TokenIds' : tokens'[i].replacedBy # r.new
      BY <1>1 DEF InFlight, Root
    <3>1. r.new = n
      OBVIOUS
    <3>2. r.op = "refresh" => n > r.token /\ tokens'[n].root = tokens'[r.token].root
      BY <1>2, <1>3, <1>4, <1>5, <1>7, TokenFacts DEF Root
    <3>3. \A i \in TokenIds' : tokens'[i].replacedBy # n
      BY <1>3, <1>4, <1>5, TokenFacts
    <3> QED BY <3>1, <3>2, <3>3
  <2>2. \A i \in TokenIds' :
           tokens'[i].replacedBy = IF i \in TokenIds THEN tokens[i].replacedBy ELSE 0
    BY <1>3, <1>4, <1>5
  <2> QED BY <1>1, <1>6, <1>8, <2>1, <2>2, ChainsKeep
<1>13. CaughtInTime' /\ LogoutAllReachesAll'
  <2>1. InTime(req[c])'
    BY <1>1 DEF InTime
  <2>2. \A d \in Conns : req[d].op = "refresh" => req[d].token # 0
    BY NoReqFacts DEF RequestsMakeSense
  <2>3. ASSUME NEW i \in TokenIds' \ TokenIds, tokens'[i].root <= allRevoked[tokens'[i].user]
        PROVE  tokens'[i].root \in caught[tokens'[i].user]
    <3>1. t.root <= allRevoked[User(c)] /\ tokens'[i] = t
      BY <1>3, <1>4, <1>5, <2>3
    <3>2. allRevoked[User(c)] <= Len(tokens) /\ allRevoked[User(c)] \in Nat
      BY <1>2, TokenFacts DEF User
    <3>3. req[c].op = "refresh"
      BY <1>2, <1>3, <1>5, <3>1, <3>2
    <3> QED BY <1>3, <3>1, <3>3 DEF CaughtInTime
  <2> QED BY <1>1, <1>6, <2>1, <2>2, <2>3, LogoutKeeps
<1>14. AnswersAwaited'
  <2>1. Heard' => Heard
    BY DEF Heard, Kinds
  <2>2. Heard' => Awaited(req[c])'
    BY <1>1, <1>2, <2>1 DEF Awaited, AnswersAwaited
  <2>3. Heard' => \A d \in Conns \ {c} : req[d] # NoReq => req[d].device # req'[c].device
    BY <1>1, <1>2, <2>1 DEF AnswersAwaited
  <2> QED BY <1>1, <1>6, <2>2, <2>3, AwaitedKeeps
<1>15. NoTokenLeftBehind'
  BY <1>1, <1>2, <1>5, <1>6, NoneLeftKeeps
<1>16. RevokedByOwner'
  <2>1. Heard' /\ Never("alls")' => Heard /\ Never("alls")
    BY DEF Heard, Kinds
  <2>2. Heard' /\ Never("alls")' => Harmless(req[c])'
    BY <1>1, <1>3, <1>4, <2>1 DEF Harmless, RevokedByOwner
  <2> QED BY <1>1, <1>4, <1>6, <2>2, OwnerKeeps
<1> QED BY <1>8, <1>9, <1>10, <1>11, <1>12, <1>13, <1>14, <1>15, <1>16

LEMMA InsertInv ==
  ASSUME SessionsInv, NEW c \in Conns, Insert(c)
  PROVE  SessionsInv'
<1> USE DEF SessionsInv
<1>1. /\ req[c].step = "insert" /\ tokens' = Append(tokens, NewToken(c))
      /\ req' = [req EXCEPT ![c] = [@ EXCEPT !.new = Len(tokens) + 1, !.answer = "pair",
                                            !.step = IF req[c].op = "login" THEN "reply" ELSE "link"]]
      /\ UNCHANGED <<stored, allRevoked, caught>> /\ used' = used
  BY DEF Insert
<1>2. req[c] \in Req /\ req[c] # NoReq /\ Len(tokens) + 1 \in Nat /\ Len(tokens) + 1 # 0
  BY <1>1, NoReqFacts, TokenFacts
<1>3. /\ req[c].op \in {"login", "refresh"} /\ req[c].device \in Devices /\ req[c].new = 0
      /\ req[c].next = 0
      /\ req[c].op = "login" => req[c].token = 0
      /\ req[c].op = "refresh" => req[c].token # 0
  BY <1>1, <1>2 DEF RequestsMakeSense
<1> DEFINE r == [req[c] EXCEPT !.new = Len(tokens) + 1, !.answer = "pair",
                               !.step = IF req[c].op = "login" THEN "reply" ELSE "link"]
<1>4. /\ r \in Req /\ r.op = req[c].op /\ r.device = req[c].device /\ r.waiting = req[c].waiting
      /\ r.token = req[c].token /\ r.next = req[c].next /\ r.new = Len(tokens) + 1
      /\ r.answer = "pair" /\ r.step = IF req[c].op = "login" THEN "reply" ELSE "link"
  BY <1>2 DEF Req, Steps, Answers
<1>5. req' = [req EXCEPT ![c] = r]
  BY <1>1
<1> HIDE DEF r
<1>6. Fits(r) /\ r # NoReq
  BY <1>2, <1>3, <1>4, NoReqFacts DEF Fits
<1>7. /\ used' \in [Kinds -> Nat] /\ \A k \in Kinds : used'[k] <= Bound[k]
      /\ \A k \in Kinds : Never(k)' => Never(k)
  BY <1>1, NoneSpent
<1> QED BY <1>1, <1>2, <1>3, <1>4, <1>5, <1>6, <1>7, InsertKeeps

LEMMA FindNewInv ==
  ASSUME SessionsInv, NEW c \in Conns, FindNew(c)
  PROVE  SessionsInv'
<1> USE DEF SessionsInv
<1>1. /\ req[c].step = "link"
      /\ req' = [req EXCEPT ![c] = [@ EXCEPT !.step = "revoke", !.next = req[c].new]]
      /\ UNCHANGED <<tokens, stored, allRevoked, caught>> /\ used' = used
  BY DEF FindNew
<1>2. req[c] \in Req /\ req[c] # NoReq
  BY <1>1, NoReqFacts, TokenFacts
<1>3. /\ req[c].op = "refresh" /\ req[c].token # 0 /\ req[c].device \in Devices
      /\ req[c].new # 0 /\ req[c].answer = "pair"
  BY <1>1, <1>2 DEF RequestsMakeSense
<1> DEFINE r == [req[c] EXCEPT !.step = "revoke", !.next = req[c].new]
<1>4. /\ r \in Req /\ Same(r, req[c]) /\ r.step = "revoke" /\ r.next = req[c].new
      /\ r.answer = req[c].answer
  BY <1>2 DEF Req, Steps, Same
<1>5. req' = [req EXCEPT ![c] = r]
  BY <1>1
<1> HIDE DEF r
<1>6. Fits(r) /\ r # NoReq
  BY <1>3, <1>4, NoReqFacts DEF Fits, Same
<1>7. /\ used' \in [Kinds -> Nat] /\ \A k \in Kinds : used'[k] <= Bound[k]
      /\ \A k \in Kinds : Never(k)' => Never(k)
  BY <1>1, NoneSpent
<1> QED BY <1>1, <1>2, <1>3, <1>4, <1>5, <1>6, <1>7, StatementKeeps

\* A request that revokes its token is answered.
LEMMA AfterRevokeFacts ==
  ASSUME SessionsInv, NEW c \in Conns, req[c].step = "revoke", AfterRevoke(c)
  PROVE  /\ req[c] # NoReq /\ req[c].device \in Devices /\ req[c].token \in TokenIds
         /\ req[c].op \in {"refresh", "logout"} /\ req[c].next \in {0, req[c].new}
         /\ \E r \in Req : /\ req' = [req EXCEPT ![c] = r] /\ Same(r, req[c]) /\ r.step = "reply"
                           /\ r.answer = IF req[c].op = "logout" THEN "out" ELSE "pair"
                           /\ Fits(r) /\ r # NoReq
<1> USE DEF SessionsInv
<1>1. req[c] # NoReq
  BY NoReqFacts
<1>2. /\ req[c].op \in {"refresh", "logout"} /\ req[c].device \in Devices
      /\ req[c].token \in TokenIds /\ req[c].token # 0 /\ req[c].next \in {0, req[c].new}
      /\ req[c].op = "refresh" => req[c].new # 0 /\ req[c].answer = "pair"
      /\ req[c].op = "logout" => req[c].new = 0
  BY <1>1, TokenFacts DEF RequestsMakeSense
<1>3. CASE req[c].op = "logout"
  <2>1. PICK r \in Req : /\ req' = [req EXCEPT ![c] = r] /\ Same(r, req[c]) /\ r.step = "reply"
                         /\ r.next = req[c].next /\ r.answer = "out"
    BY <1>3, AnswerFacts DEF Answers, AfterRevoke
  <2>2. Fits(r) /\ r # NoReq
    BY <1>2, <1>3, <2>1, NoReqFacts DEF Fits, Same
  <2> QED BY <1>1, <1>2, <1>3, <2>1, <2>2
<1>4. CASE req[c].op = "refresh"
  <2>1. PICK r \in Req : /\ req' = [req EXCEPT ![c] = r] /\ Same(r, req[c]) /\ r.step = "reply"
                         /\ r.next = req[c].next /\ r.answer = req[c].answer
    BY <1>4, GoFacts DEF Steps, AfterRevoke
  <2>2. Fits(r) /\ r # NoReq
    BY <1>2, <1>4, <2>1, NoReqFacts DEF Fits, Same
  <2> QED BY <1>1, <1>2, <1>4, <2>1, <2>2
<1> QED BY <1>2, <1>3, <1>4

\* A live token is revoked, and replaced by the one the refresh has issued.
LEMMA RevokeLiveInv ==
  ASSUME SessionsInv, NEW c \in Conns, Revoke(c), tokens[req[c].token].live
  PROVE  SessionsInv'
<1> USE DEF SessionsInv
<1> DEFINE i == req[c].token
<1>1. /\ req[c].step = "revoke" /\ AfterRevoke(c)
      /\ tokens' = [tokens EXCEPT ![i] = [@ EXCEPT !.live = FALSE, !.replacedBy = req[c].next]]
      /\ UNCHANGED <<stored, allRevoked, caught>> /\ used' = used
  BY DEF Revoke
<1>2. /\ req[c] # NoReq /\ req[c].device \in Devices /\ i \in TokenIds
      /\ req[c].op \in {"refresh", "logout"} /\ req[c].next \in {0, req[c].new}
  BY <1>1, AfterRevokeFacts
<1>3. PICK r \in Req : /\ req' = [req EXCEPT ![c] = r] /\ Same(r, req[c]) /\ r.step = "reply"
                       /\ r.answer = IF req[c].op = "logout" THEN "out" ELSE "pair"
                       /\ Fits(r) /\ r # NoReq
  BY <1>1, AfterRevokeFacts
<1>4. req'[c] = r /\ Only(c) /\ req' \in [Conns -> Req]
  BY <1>3 DEF TypeOK, Only
<1>5. tokens[i] \in Token /\ req[c].next \in Nat /\ req[c].next <= Len(tokens)
      /\ req[c].new \in Nat /\ req[c].new <= Len(tokens) /\ i \in 1 .. Len(tokens)
  BY <1>2, TokenFacts
<1> DEFINE t == [tokens[i] EXCEPT !.live = FALSE, !.replacedBy = req[c].next]
<1>6. /\ t \in Token /\ t.user = tokens[i].user /\ t.root = tokens[i].root /\ ~t.live
      /\ t.expired = tokens[i].expired /\ t.replacedBy = req[c].next
  BY <1>5 DEF Token
<1>7. tokens' = [tokens EXCEPT ![i] = t]
  BY <1>1
<1> HIDE DEF t
<1>8. /\ tokens' \in Seq(Token) /\ Len(tokens') = Len(tokens) /\ TokenIds' = TokenIds
      /\ tokens'[i] = t
      /\ \A j \in TokenIds : j # i => tokens'[j] = tokens[j]
  <2>1. /\ tokens' \in Seq(Token) /\ Len(tokens') = Len(tokens)
        /\ \A j \in 1 .. Len(tokens) : tokens'[j] = IF j = i THEN t ELSE tokens[j]
    BY <1>5, <1>6, <1>7, ExceptSeq DEF TypeOK
  <2>2. TokenIds' = 1 .. Len(tokens')
    BY <2>1, LenProperties DEF TokenIds
  <2> QED BY <1>2, <2>1, <2>2, TokenFacts
<1>9. \A j \in TokenIds : tokens'[j].user = tokens[j].user /\ tokens'[j].root = tokens[j].root
  BY <1>6, <1>8
<1>10. /\ used' \in [Kinds -> Nat] /\ \A k \in Kinds : used'[k] <= Bound[k]
       /\ \A k \in Kinds : Never(k)' => Never(k)
  BY <1>1, NoneSpent
<1>11. Grows
  <2>1. \A j \in TokenIds : /\ tokens'[j].live => tokens[j].live
                            /\ tokens[j].expired => tokens'[j].expired
    BY <1>6, <1>8
  <2> QED BY <1>1, <1>8, <1>9, <1>10, <2>1, TokenFacts DEF Grows
<1>12. r.token = i /\ r.new = req[c].new /\ r.op = req[c].op /\ r.device = req[c].device
       /\ r.waiting = req[c].waiting
  BY <1>3 DEF Same
<1>13. TypeOK'
  <2>1. \A j \in TokenIds' : tokens'[j].root <= j /\ tokens'[j].replacedBy <= Len(tokens')
    BY <1>5, <1>6, <1>8, TokenFacts
  <2>2. r.token <= Len(tokens') /\ r.new <= Len(tokens') /\ Len(tokens) <= Len(tokens')
    BY <1>5, <1>8, <1>12, TokenFacts
  <2>3. allRevoked' \in [Users -> 0 .. Len(tokens')] /\ caught' \in [Users -> SUBSET TokenIds']
    BY <1>1, <1>8 DEF TypeOK
  <2> QED BY <1>1, <1>4, <1>8, <1>10, <2>1, <2>2, <2>3, TypeKeeps
<1>14. RequestsMakeSense'
  BY <1>3, <1>4, SenseKeeps
<1>15. TokensHaveOwners'
  <2>1. Owned(req[c])'
    BY <1>4, <1>8, <1>9, <1>12, TokenFacts DEF Owned, TokensHaveOwners, User
  <2> QED BY <1>4, <1>11, <2>1, OwnersKeep
<1>16. OneKeeper'
  BY <1>4, <1>5, <1>11, <1>12, KeeperKeeps
<1>17. req[c].new # 0 => /\ req[c].new > i /\ Root(req[c].new) = Root(i)
                         /\ \A j \in TokenIds : tokens[j].replacedBy # req[c].new
  <2>1. req[c].new # 0 => req[c].op = "refresh"
    BY <1>2 DEF RequestsMakeSense
  <2> QED BY <1>1, <2>1 DEF SuccessorsInFlight
<1>18. SuccessorsInFlight'
  <2> SUFFICES ASSUME NEW d \in Conns PROVE InFlight(req[d])'
    BY DEF SuccessorsInFlight, InFlight
  <2>1. CASE d = c
    <3>1. req[c].new # 0 => tokens'[req[c].new].root = tokens'[i].root
      BY <1>5, <1>8, <1>9, <1>17, TokenFacts DEF Root
    <3> QED BY <1>3, <1>4, <1>12, <1>17, <2>1, <3>1 DEF InFlight, Root
  <2>2. CASE d # c
    <3> SUFFICES ASSUME req[d].new # 0 PROVE InFlight(req[d])'
      BY <1>4, <2>2 DEF InFlight, Only
    <3>1. req'[d] = req[d] /\ req[d].new \in TokenIds /\ InFlight(req[d])
      BY <1>4, <2>2, TokenFacts DEF Only, SuccessorsInFlight, InFlight
    <3>2. req[d].op = "refresh" => /\ req[d].new > req[d].token
                                   /\ tokens'[req[d].new].root = tokens'[req[d].token].root
      <4>1. req[d].op = "refresh" => req[d].token \in TokenIds
        BY NoReqFacts, TokenFacts DEF RequestsMakeSense
      <4> QED BY <1>9, <3>1, <4>1 DEF InFlight, Root
    <3>3. req[d].step \in {"link", "revoke"} =>
            \A j \in TokenIds' : tokens'[j].replacedBy # req[d].new
      <4>1. req[c].next # req[d].new
        BY <1>2, <2>2 DEF OneKeeper
      <4> QED BY <1>6, <1>8, <3>1, <4>1 DEF InFlight
    <3> QED BY <3>1, <3>2, <3>3 DEF InFlight, Root
  <2> QED BY <2>1, <2>2
<1>19. ChainsAreDisjoint'
  <2> SUFFICES ASSUME NEW j \in TokenIds, tokens'[j].replacedBy # 0
               PROVE  /\ tokens'[j].replacedBy > j
                      /\ tokens'[tokens'[j].replacedBy].root = tokens'[j].root
                      /\ \A k \in TokenIds \ {j} : tokens'[k].replacedBy # tokens'[j].replacedBy
    BY <1>8 DEF ChainsAreDisjoint, Root
  <2>1. CASE j = i
    <3>1. tokens'[j].replacedBy = req[c].new /\ req[c].new # 0 /\ req[c].new \in TokenIds
      BY <1>2, <1>5, <1>6, <1>8, <2>1, TokenFacts
    <3>2. \A k \in TokenIds \ {j} : tokens'[k].replacedBy # req[c].new
      BY <1>8, <1>17, <2>1, <3>1
    <3>3. req[c].new > j /\ tokens'[req[c].new].root = tokens'[j].root
      BY <1>9, <1>17, <2>1, <3>1 DEF Root
    <3> QED BY <3>1, <3>2, <3>3
  <2>2. CASE j # i
    <3> DEFINE n == tokens[j].replacedBy
    <3>1. tokens'[j] = tokens[j] /\ n # 0 /\ n \in TokenIds
      BY <1>8, <2>2, TokenFacts
    <3>2. n > j /\ tokens[n].root = tokens[j].root /\ \A k \in TokenIds \ {j} : tokens[k].replacedBy # n
      BY <3>1 DEF ChainsAreDisjoint, Root
    <3>3. req[c].next # n
      BY <1>2, <1>17, <3>1
    <3>4. \A k \in TokenIds \ {j} : tokens'[k].replacedBy # n
      BY <1>6, <1>8, <3>2, <3>3
    <3>5. tokens'[n].root = tokens'[j].root
      BY <1>9, <3>1, <3>2
    <3> QED BY <3>1, <3>2, <3>4, <3>5
  <2> QED BY <2>1, <2>2
<1>20. CaughtInTime' /\ LogoutAllReachesAll'
  <2>1. InTime(req[c])'
    BY <1>3, <1>4 DEF InTime
  <2>2. \A d \in Conns : req[d].op = "refresh" => req[d].token # 0
    BY NoReqFacts DEF RequestsMakeSense
  <2> QED BY <1>1, <1>4, <1>8, <1>11, <2>1, <2>2, LogoutKeeps
<1>21. Heard' => /\ Heard /\ r.waiting /\ i = stored[r.device]
                 /\ \A d \in Conns \ {c} : req[d] # NoReq => req[d].device # r.device
  <2>1. Heard' => Heard
    BY <1>10 DEF Heard, Kinds
  <2> QED BY <1>2, <1>12, <2>1 DEF AnswersAwaited
<1>22. AnswersAwaited'
  <2>1. Heard' => Awaited(req[c])'
    BY <1>1, <1>3, <1>4, <1>6, <1>8, <1>12, <1>21 DEF Awaited
  <2> QED BY <1>4, <1>11, <1>21, <2>1, AwaitedKeeps
<1>23. NoTokenLeftBehind'
  BY <1>4, <1>8, <1>11, <1>12, NoneLeftKeeps
<1>24. RevokedByOwner'
  <2>1. Heard' /\ Never("alls")' => Heard /\ Never("alls")
    BY <1>10, <1>21 DEF Kinds
  <2>2. Heard' /\ Never("alls")' => Harmless(req[c])'
    <3>1. Heard' /\ Never("alls")' /\ r.new # 0 => tokens'[r.new].live
      <4>1. Heard' /\ r.new # 0 => r.new # i /\ r.new \in TokenIds
        BY <1>5, <1>12, <1>17, TokenFacts
      <4> QED BY <1>8, <1>12, <2>1, <4>1 DEF RevokedByOwner
    <3> QED BY <1>2, <1>3, <1>4, <1>12, <3>1 DEF Harmless
  <2>3. Heard' => \A j \in TokenIds : tokens[j].live /\ ~tokens'[j].live => j = stored[r.device]
    BY <1>8, <1>21
  <2> QED BY <1>2, <1>3, <1>4, <1>11, <1>12, <2>2, <2>3, OwnerKeeps
<1> QED BY <1>13, <1>14, <1>15, <1>16, <1>18, <1>19, <1>20, <1>22, <1>23, <1>24

LEMMA RevokeInv ==
  ASSUME SessionsInv, NEW c \in Conns, Revoke(c)
  PROVE  SessionsInv'
<1> USE DEF SessionsInv
<1>1. CASE tokens[req[c].token].live
  BY <1>1, RevokeLiveInv
<1>2. CASE ~tokens[req[c].token].live
  <2>1. /\ req[c].step = "revoke" /\ AfterRevoke(c) /\ used' = used
        /\ UNCHANGED <<tokens, stored, allRevoked, caught>>
    BY <1>2 DEF Revoke
  <2>2. /\ req[c] # NoReq /\ req[c].op \in {"refresh", "logout"}
        /\ \E r \in Req : /\ req' = [req EXCEPT ![c] = r] /\ Same(r, req[c]) /\ r.step = "reply"
                          /\ r.answer = IF req[c].op = "logout" THEN "out" ELSE "pair"
                          /\ Fits(r) /\ r # NoReq
    BY <2>1, AfterRevokeFacts
  <2>3. /\ used' \in [Kinds -> Nat] /\ \A k \in Kinds : used'[k] <= Bound[k]
        /\ \A k \in Kinds : Never(k)' => Never(k)
    BY <2>1, NoneSpent
  <2> QED BY <1>2, <2>1, <2>2, <2>3, StatementKeeps DEF Same
<1> QED BY <1>1, <1>2

\* All of the user's tokens are revoked: those of a refresh about to insert are
\* caught.
LEMMA RevokeAllForUserInv ==
  ASSUME SessionsInv, NEW c \in Conns, RevokeAllForUser(c)
  PROVE  SessionsInv'
<1> USE DEF SessionsInv
<1> DEFINE u == User(c)
           ids == {i \in TokenIds : tokens[i].user = u}
<1>1. /\ req[c].step \in {"family", "revokeAll"}
      /\ Answer(c, IF req[c].step = "family" THEN "reused" ELSE "out")
      /\ tokens' = [i \in TokenIds |-> IF i \in ids THEN [tokens[i] EXCEPT !.live = FALSE]
                                                  ELSE tokens[i]]
      /\ allRevoked' = [allRevoked EXCEPT ![u] = Len(tokens)]
      /\ caught' = [caught EXCEPT ![u] = {Root(req[d].token) : d \in AboutToInsert(u)}]
      /\ UNCHANGED <<stored, used>>
  BY DEF RevokeAllForUser, RevokeAll
<1>2. /\ req[c] # NoReq /\ req[c].device \in Devices /\ req[c].token \in TokenIds
      /\ req[c].token # 0 /\ req[c].op \in {"refresh", "all"} /\ req[c].new = 0
      /\ req[c].next = 0
      /\ req[c].step = "revokeAll" => req[c].op = "all"
  <2>1. req[c] # NoReq
    BY <1>1, NoReqFacts
  <2> QED BY <1>1, <2>1, TokenFacts DEF RequestsMakeSense
<1>3. PICK r \in Req : /\ req' = [req EXCEPT ![c] = r] /\ Same(r, req[c]) /\ r.step = "reply"
                       /\ r.next = req[c].next /\ r.answer \in {"reused", "out"}
  BY <1>1, AnswerFacts DEF Answers
<1>4. Fits(r) /\ r # NoReq
  BY <1>2, <1>3, NoReqFacts DEF Fits, Same
<1>5. req'[c] = r /\ Only(c) /\ req' \in [Conns -> Req]
  BY <1>3 DEF TypeOK, Only
<1>6. r.token = req[c].token /\ r.new = 0 /\ r.op = req[c].op /\ r.device = req[c].device
      /\ r.waiting = req[c].waiting
  BY <1>2, <1>3 DEF Same
<1>7. u \in Users /\ tokens[req[c].token].user = u
  BY <1>2 DEF User, TokensHaveOwners
<1>8. \A i \in TokenIds :
        /\ tokens'[i] \in Token
        /\ tokens'[i].user = tokens[i].user /\ tokens'[i].root = tokens[i].root
        /\ tokens'[i].replacedBy = tokens[i].replacedBy /\ tokens'[i].expired = tokens[i].expired
        /\ tokens'[i].live <=> tokens[i].live /\ tokens[i].user # u
  <2> SUFFICES ASSUME NEW i \in TokenIds
               PROVE  /\ tokens'[i] \in Token
                      /\ tokens'[i].user = tokens[i].user /\ tokens'[i].root = tokens[i].root
                      /\ tokens'[i].replacedBy = tokens[i].replacedBy
                      /\ tokens'[i].expired = tokens[i].expired
                      /\ tokens'[i].live <=> tokens[i].live /\ tokens[i].user # u
    OBVIOUS
  <2>1. tokens[i] \in Token
    BY TokenFacts
  <2> DEFINE t == [tokens[i] EXCEPT !.live = FALSE]
  <2>2. /\ t \in Token /\ t.user = tokens[i].user /\ t.root = tokens[i].root /\ ~t.live
        /\ t.replacedBy = tokens[i].replacedBy /\ t.expired = tokens[i].expired
    BY <2>1 DEF Token
  <2>3. tokens'[i] = IF tokens[i].user = u THEN t ELSE tokens[i]
    BY <1>1
  <2> HIDE DEF t
  <2> QED BY <2>1, <2>2, <2>3
<1>9. tokens' \in Seq(Token) /\ Len(tokens') = Len(tokens) /\ TokenIds' = TokenIds
  <2>1. tokens' \in [1 .. Len(tokens) -> Token]
    BY <1>1, <1>8, TokenFacts
  <2>2. tokens' \in Seq(Token)
    BY <2>1, SeqDef, TokenFacts
  <2>3. DOMAIN tokens' = 1 .. Len(tokens) /\ Len(tokens') \in Nat /\ DOMAIN tokens' = 1 .. Len(tokens')
    BY <2>1, <2>2, LenProperties
  <2>4. Len(tokens') = Len(tokens)
    BY <2>3, TokenFacts
  <2> QED BY <2>2, <2>3, <2>4, TokenFacts DEF TokenIds
<1> HIDE DEF ids, u
<1>10. /\ used' \in [Kinds -> Nat] /\ \A k \in Kinds : used'[k] <= Bound[k]
       /\ \A k \in Kinds : Never(k)' => Never(k)
  BY <1>1, NoneSpent
<1>11. Grows
  BY <1>1, <1>8, <1>9, <1>10, TokenFacts DEF Grows
<1>12. TypeOK'
  <2>1. \A j \in TokenIds' : tokens'[j].root <= j /\ tokens'[j].replacedBy <= Len(tokens')
    BY <1>8, <1>9, TokenFacts
  <2>2. r.token <= Len(tokens') /\ r.new <= Len(tokens') /\ Len(tokens) <= Len(tokens')
    BY <1>6, <1>9, TokenFacts
  <2>3. allRevoked' \in [Users -> 0 .. Len(tokens')]
    <3>1. allRevoked \in [Users -> 0 .. Len(tokens)] /\ Len(tokens) \in Nat
      BY TokenFacts DEF TypeOK
    <3>2. allRevoked' = [allRevoked EXCEPT ![u] = Len(tokens)]
      BY <1>1
    <3> QED BY <1>7, <1>9, <3>1, <3>2
  <2>4. caught' \in [Users -> SUBSET TokenIds']
    <3>1. \A d \in AboutToInsert(u) : Root(req[d].token) \in TokenIds
      BY NoReqFacts, TokenFacts DEF AboutToInsert, RequestsMakeSense, Root
    <3> QED BY <1>1, <1>9, <3>1 DEF TypeOK
  <2> QED BY <1>5, <1>1, <1>9, <1>10, <2>1, <2>2, <2>3, <2>4, TypeKeeps
<1>13. RequestsMakeSense'
  BY <1>4, <1>5, SenseKeeps
<1>14. TokensHaveOwners'
  <2>1. Owned(req[c])'
    BY <1>2, <1>5, <1>6, <1>7, <1>8 DEF Owned, User, u
  <2> QED BY <1>5, <1>11, <2>1, OwnersKeep
<1>15. OneKeeper'
  BY <1>5, <1>6, <1>11, KeeperKeeps
<1>16. SuccessorsInFlight' /\ ChainsAreDisjoint'
  <2>1. InFlight(req[c])'
    BY <1>5, <1>6 DEF InFlight
  <2> QED BY <1>5, <1>8, <1>9, <1>11, <1>12, <2>1, ChainsKeep
<1>17. LogoutAllReachesAll'
  <2> SUFFICES ASSUME NEW i \in TokenIds, tokens'[i].live,
                      tokens'[i].root <= allRevoked'[tokens'[i].user]
               PROVE  tokens'[i].root \in caught'[tokens'[i].user]
    BY <1>9 DEF LogoutAllReachesAll, Root
  <2>1. tokens[i].live /\ tokens[i].user # u /\ tokens[i].user \in Users
    BY <1>8, TokenFacts DEF Token
  <2>2. allRevoked'[tokens'[i].user] = allRevoked[tokens[i].user]
    BY <1>1, <1>8, <2>1 DEF TypeOK
  <2>3. tokens[i].root \in caught[tokens[i].user]
    BY <1>8, <2>1, <2>2 DEF LogoutAllReachesAll, Root
  <2>4. caught'[tokens[i].user] = caught[tokens[i].user]
    BY <1>1, <2>1 DEF TypeOK
  <2> QED BY <1>8, <2>3, <2>4
<1>18. CaughtInTime'
  <2> SUFFICES ASSUME NEW d \in Conns PROVE InTime(req[d])'
    BY DEF CaughtInTime, InTime, User
  <2>1. CASE d = c
    BY <1>3, <1>5, <2>1 DEF InTime
  <2>2. CASE d # c
    <3> SUFFICES ASSUME req[d].op = "refresh", req[d].step = "insert",
                        tokens'[req[d].token].root <= allRevoked'[User(d)]
                 PROVE  tokens'[req[d].token].root \in caught'[User(d)]
      BY <1>5, <2>2 DEF InTime, Only, Root, User
    <3>1. req[d].token \in TokenIds /\ User(d) \in Users
      BY NoReqFacts, TokenFacts DEF RequestsMakeSense, User
    <3>2. tokens'[req[d].token].root = Root(req[d].token)
      BY <1>8, <3>1 DEF Root
    <3>3. CASE User(d) = u
      <4>1. d \in AboutToInsert(u)
        BY <3>3 DEF AboutToInsert
      <4>2. caught'[u] = {Root(req[e].token) : e \in AboutToInsert(u)}
        BY <1>1, <1>7 DEF TypeOK
      <4> QED BY <3>2, <3>3, <4>1, <4>2
    <3>4. CASE User(d) # u
      <4>1. allRevoked'[User(d)] = allRevoked[User(d)]
        BY <1>1, <3>1, <3>4 DEF TypeOK
      <4>2. caught'[User(d)] = caught[User(d)]
        BY <1>1, <3>1, <3>4 DEF TypeOK
      <4> QED BY <3>2, <4>1, <4>2 DEF CaughtInTime
    <3> QED BY <3>3, <3>4
  <2> QED BY <2>1, <2>2
<1>19. AnswersAwaited'
  <2>1. Heard' => Heard
    BY <1>10 DEF Heard, Kinds
  <2>2. Heard' => Awaited(req[c])'
    <3>1. stored' = stored /\ r.answer # "error"
      BY <1>1, <1>3
    <3>2. ~tokens'[r.token].live
      BY <1>2, <1>6, <1>7, <1>8
    <3>3. Heard => req[c].waiting /\ req[c].token = stored[req[c].device]
      BY <1>2 DEF AnswersAwaited
    <3> QED BY <1>3, <1>5, <1>6, <2>1, <3>1, <3>2, <3>3 DEF Awaited
  <2>3. Heard' => \A d \in Conns \ {c} : req[d] # NoReq => req[d].device # r.device
    BY <1>2, <1>6, <2>1 DEF AnswersAwaited
  <2> QED BY <1>5, <1>11, <2>2, <2>3, AwaitedKeeps
<1>20. NoTokenLeftBehind'
  BY <1>2, <1>5, <1>9, <1>11, NoneLeftKeeps
<1>21. RevokedByOwner'
  <2>1. ~(Heard' /\ Never("alls")')
    <3>1. Heard' /\ Never("alls")' => Heard /\ Never("alls")
      BY <1>10 DEF Heard, Kinds
    <3>2. Heard /\ Never("alls") => req[c].op # "all" /\ req[c].step # "family"
      BY DEF RevokedByOwner
    <3> QED BY <1>1, <1>2, <3>1, <3>2
  <2> QED BY <2>1 DEF RevokedByOwner, Heard
<1> QED BY <1>12, <1>13, <1>14, <1>15, <1>16, <1>17, <1>18, <1>19, <1>20, <1>21

\* A statement fails: from now on not all of them succeed.
LEMMA FailsInv ==
  ASSUME SessionsInv, NEW c \in Conns, Fails(c)
  PROVE  SessionsInv'
<1> USE DEF SessionsInv
<1>1. /\ Spend("failures") /\ UNCHANGED <<stored, allRevoked, caught>>
      /\ \/ req[c].step = "find" /\ Answer(c, IF req[c].op = "refresh" THEN "out" ELSE "error")
         \/ req[c].step = "family" /\ Answer(c, "reused")
         \/ req[c].step \in {"insert", "revokeAll"} /\ Answer(c, "error")
         \/ req[c].step = "link" /\ Go(c, "revoke")
         \/ req[c].step = "revoke" /\ req[c].op = "logout" /\ Answer(c, "error")
         \/ req[c].step = "revoke" /\ req[c].op # "logout" /\ Go(c, "reply")
      /\ \/ tokens' = tokens
         \/ req[c].step = "insert" /\ tokens' = Append(tokens, NewToken(c))
  BY Zenon DEF Fails
<1>2. /\ used' \in [Kinds -> Nat] /\ \A k \in Kinds : used'[k] <= Bound[k]
      /\ \A k \in Kinds : Never(k)' => Never(k)
      /\ ~Heard'
  BY <1>1, SpendFacts DEF Kinds, Heard
<1>3. req[c] # NoReq /\ req[c].step # "reply"
  BY <1>1, NoReqFacts
<1>4. /\ req[c].device \in Devices
      /\ req[c].op \in {"login", "refresh", "logout", "all"}
      /\ req[c].op = "login" => req[c].token = 0
      /\ req[c].op # "login" => req[c].token # 0
      /\ req[c].op = "all" => req[c].step = "revokeAll"
      /\ req[c].op = "logout" => req[c].step \in {"find", "revoke"}
      /\ req[c].step = "find" => req[c].op \in {"refresh", "logout"}
      /\ req[c].step = "link" => req[c].op = "refresh" /\ req[c].new # 0
      /\ req[c].step \notin {"link", "revoke"} => req[c].new = 0
      /\ req[c].op = "logout" => req[c].new = 0
      /\ req[c].answer = "pair" <=> req[c].new # 0
      /\ req[c].next \in {0, req[c].new}
  BY <1>3 DEF RequestsMakeSense
<1>5. PICK r \in Req : /\ req' = [req EXCEPT ![c] = r] /\ Same(r, req[c]) /\ Fits(r) /\ r # NoReq
                       /\ r.step \in {"revoke", "reply"}
                       /\ r.step = "revoke" => req[c].step = "link"
                       /\ req[c].step = "insert" => r.step = "reply"
  <2>1. CASE \/ req[c].step \in {"find", "family", "insert", "revokeAll"}
             \/ req[c].step = "revoke" /\ req[c].op = "logout"
    <3>1. PICK a \in {"out", "error", "reused"} : Answer(c, a)
      BY <1>1, <2>1
    <3>2. PICK r \in Req : /\ req' = [req EXCEPT ![c] = r] /\ Same(r, req[c]) /\ r.step = "reply"
                           /\ r.next = req[c].next /\ r.answer = a
      BY <3>1, AnswerFacts DEF Answers
    <3>3. Fits(r) /\ r # NoReq
      BY <1>3, <1>4, <2>1, <3>2, NoReqFacts DEF Fits, Same
    <3> QED BY <3>2, <3>3
  <2>2. CASE req[c].step = "link"
    <3>1. PICK r \in Req : /\ req' = [req EXCEPT ![c] = r] /\ Same(r, req[c]) /\ r.step = "revoke"
                           /\ r.next = req[c].next /\ r.answer = req[c].answer
      BY <1>1, <2>2, GoFacts DEF Steps
    <3>2. Fits(r) /\ r # NoReq
      BY <1>3, <1>4, <2>2, <3>1, NoReqFacts DEF Fits, Same
    <3> QED BY <2>2, <3>1, <3>2
  <2>3. CASE req[c].step = "revoke" /\ req[c].op # "logout"
    <3>1. AfterRevoke(c)
      BY <1>1, <2>3 DEF AfterRevoke
    <3> QED BY <2>3, <3>1, AfterRevokeFacts
  <2> QED BY <1>1, <2>1, <2>2, <2>3
<1>6. CASE tokens' = tokens
  BY <1>1, <1>2, <1>3, <1>5, <1>6, StatementKeeps
<1>7. CASE req[c].step = "insert" /\ tokens' = Append(tokens, NewToken(c))
  <2>1. /\ r.op = req[c].op /\ r.device = req[c].device /\ r.waiting = req[c].waiting
        /\ r.token = req[c].token /\ r.new = 0 /\ r.step = "reply"
    BY <1>4, <1>5, <1>7 DEF Same
  <2> QED BY <1>1, <1>2, <1>5, <1>7, <2>1, InsertKeeps
<1> QED BY <1>1, <1>6, <1>7

\* A token expires: no request changes.
LEMMA ExpireInv ==
  ASSUME SessionsInv, NEW i \in TokenIds, Expire(i)
  PROVE  SessionsInv'
<1> USE DEF SessionsInv
<1>1. /\ Spend("expiries") /\ tokens' = [tokens EXCEPT ![i].expired = TRUE]
      /\ UNCHANGED <<req, stored, allRevoked, caught>>
  BY DEF Expire
<1>2. PICK c : c \notin Conns
  <2> DEFINE R == {d \in Conns : d \notin d}
  <2>1. R \notin Conns
    OBVIOUS
  <2> QED BY <2>1
<1>3. Only(c)
  BY <1>1 DEF Only
<1>4. tokens[i] \in Token /\ i \in 1 .. Len(tokens)
  BY TokenFacts
<1> DEFINE t == [tokens[i] EXCEPT !.expired = TRUE]
<1>5. /\ t \in Token /\ t.user = tokens[i].user /\ t.root = tokens[i].root
      /\ t.live = tokens[i].live /\ t.expired /\ t.replacedBy = tokens[i].replacedBy
  BY <1>4 DEF Token
<1>6. tokens' = [tokens EXCEPT ![i] = t]
  BY <1>1
<1> HIDE DEF t
<1>7. /\ tokens' \in Seq(Token) /\ Len(tokens') = Len(tokens) /\ TokenIds' = TokenIds
      /\ tokens'[i] = t
      /\ \A j \in TokenIds : j # i => tokens'[j] = tokens[j]
  <2>1. /\ tokens' \in Seq(Token) /\ Len(tokens') = Len(tokens)
        /\ \A j \in 1 .. Len(tokens) : tokens'[j] = IF j = i THEN t ELSE tokens[j]
    BY <1>4, <1>5, <1>6, ExceptSeq DEF TypeOK
  <2>2. TokenIds' = 1 .. Len(tokens')
    BY <2>1, LenProperties DEF TokenIds
  <2> QED BY <2>1, <2>2, TokenFacts
<1>8. \A j \in TokenIds :
        /\ tokens'[j].user = tokens[j].user /\ tokens'[j].root = tokens[j].root
        /\ tokens'[j].live = tokens[j].live /\ tokens'[j].replacedBy = tokens[j].replacedBy
        /\ tokens[j].expired => tokens'[j].expired
  BY <1>5, <1>7
<1>9. /\ used' \in [Kinds -> Nat] /\ \A k \in Kinds : used'[k] <= Bound[k]
      /\ \A k \in Kinds : Never(k)' => Never(k)
  BY <1>1, SpendFacts DEF Kinds
<1>10. Grows
  BY <1>1, <1>7, <1>8, <1>9, TokenFacts DEF Grows
<1>11. TypeOK'
  <2>1. \A j \in TokenIds' : tokens'[j].root <= j /\ tokens'[j].replacedBy <= Len(tokens')
    BY <1>7, <1>8, TokenFacts
  <2>2. allRevoked' \in [Users -> 0 .. Len(tokens')] /\ caught' \in [Users -> SUBSET TokenIds']
        /\ req' \in [Conns -> Req] /\ Len(tokens) <= Len(tokens') /\ stored' = stored
    BY <1>1, <1>7, TokenFacts DEF TypeOK
  <2> QED BY <1>2, <1>3, <1>7, <1>9, <2>1, <2>2, TypeKeeps
<1>12. RequestsMakeSense'
  BY <1>2, <1>3, SenseKeeps
<1>13. TokensHaveOwners'
  BY <1>2, <1>3, <1>10, OwnersKeep
<1>14. OneKeeper'
  BY <1>2, <1>3, <1>10, KeeperKeeps
<1>15. SuccessorsInFlight' /\ ChainsAreDisjoint'
  BY <1>2, <1>3, <1>7, <1>8, <1>10, <1>11, ChainsKeep
<1>16. CaughtInTime' /\ LogoutAllReachesAll'
  <2>1. \A d \in Conns : req[d].op = "refresh" => req[d].token # 0
    BY NoReqFacts DEF RequestsMakeSense
  <2> QED BY <1>1, <1>2, <1>3, <1>7, <1>10, <2>1, LogoutKeeps
<1>17. AnswersAwaited'
  BY <1>2, <1>3, <1>10, AwaitedKeeps
<1>18. NoTokenLeftBehind'
  BY <1>2, <1>3, <1>7, <1>10, NoneLeftKeeps
<1>19. RevokedByOwner'
  BY <1>2, <1>3, <1>8, <1>10, OwnerKeeps
<1> QED BY <1>11, <1>12, <1>13, <1>14, <1>15, <1>16, <1>17, <1>18, <1>19

\* A request is over. If its device waited, it keeps t: the new token, nothing,
\* or, where it need not hear every answer, what it kept before.
LEMMA EndKeeps ==
  ASSUME SessionsInv, UNCHANGED <<tokens, allRevoked, caught>>,
         used' \in [Kinds -> Nat], \A k \in Kinds : used'[k] <= Bound[k],
         \A k \in Kinds : Never(k)' => Never(k),
         NEW c \in Conns, req[c] # NoReq, req' = [req EXCEPT ![c] = NoReq],
         NEW t \in {0, req[c].new, stored[req[c].device]},
         stored' = [stored EXCEPT ![req[c].device] = t],
         Heard' => /\ t \in {0, req[c].new} /\ req[c].step = "reply"
                   /\ req[c].new # 0 => t = req[c].new
  PROVE  SessionsInv'
<1> USE DEF SessionsInv
<1> DEFINE d0 == req[c].device
<1>1. req'[c] = NoReq /\ \A d \in Conns : d # c => req'[d] = req[d]
  BY DEF TypeOK
<1>2. d0 \in Devices
  BY DEF RequestsMakeSense
<1>3. stored'[d0] = t /\ \A d \in Devices : d # d0 => stored'[d] = stored[d]
  BY <1>2 DEF TypeOK
<1>4. TokenIds' = TokenIds /\ \A k : Root(k)' = Root(k)
  BY DEF TokenIds, Root
<1>5. TypeOK'
  <2>1. t \in 0 .. Len(tokens)
    BY <1>2, TokenFacts
  <2>2. stored' \in [Devices -> 0 .. Len(tokens)]
    BY <1>2, <2>1 DEF TypeOK
  <2>3. req' \in [Conns -> Req]
    BY NoReqFacts DEF TypeOK
  <2>4. \A d \in Conns : req'[d].token <= Len(tokens) /\ req'[d].new <= Len(tokens)
    BY <1>1, NoReqFacts, TokenFacts
  <2> QED BY <1>4, <2>2, <2>3, <2>4 DEF TypeOK
<1>6. RequestsMakeSense'
  BY <1>1 DEF RequestsMakeSense
<1>7. TokensHaveOwners'
  <2>1. t # 0 => tokens[t].user = UserOf[d0]
    BY <1>2 DEF TokensHaveOwners, User
  <2>2. \A d \in Devices : stored'[d] # 0 => tokens[stored'[d]].user = UserOf[d]
    BY <1>3, <2>1 DEF TokensHaveOwners
  <2>3. \A d \in Conns : \A i \in {req'[d].token, req'[d].new} :
          i # 0 => tokens[i].user = UserOf[req'[d].device]
    BY <1>1, NoReqFacts DEF TokensHaveOwners, User
  <2> QED BY <2>2, <2>3 DEF TokensHaveOwners, User
<1>8. SuccessorsInFlight'
  <2> SUFFICES ASSUME NEW d \in Conns PROVE InFlight(req[d])'
    BY DEF SuccessorsInFlight, InFlight
  <2>1. CASE d = c
    BY <1>1, <2>1, NoReqFacts DEF InFlight
  <2>2. CASE d # c
    BY <1>1, <1>4, <2>2 DEF InFlight, SuccessorsInFlight, Root
  <2> QED BY <2>1, <2>2
<1>9. ChainsAreDisjoint' /\ LogoutAllReachesAll'
  BY DEF ChainsAreDisjoint, LogoutAllReachesAll, TokenIds, Root
<1>10. OneKeeper'
  <2>1. \A d, e \in Conns : d # e /\ req'[d].new # 0 => req'[d].new # req'[e].new
    BY <1>1, NoReqFacts DEF OneKeeper
  <2>2. \A d \in Devices : d # d0 /\ t # 0 => t # stored[d]
    BY <1>2 DEF OneKeeper
  <2>3. \A d, e \in Devices : d # e /\ stored'[d] # 0 => stored'[d] # stored'[e]
    BY <1>3, <2>2 DEF OneKeeper
  <2>4. \A d \in Conns : d # c /\ req[d].new # 0 => req[d].new # t
    BY <1>2 DEF OneKeeper
  <2>5. \A d \in Conns, e \in Devices : req'[d].new # 0 => req'[d].new # stored'[e]
    BY <1>1, <1>3, <2>4, NoReqFacts DEF OneKeeper
  <2> QED BY <2>1, <2>3, <2>5 DEF OneKeeper
<1>11. CaughtInTime'
  BY <1>1, NoReqFacts DEF CaughtInTime, Root, User
<1>12. Heard' => Heard
  BY DEF Heard, Kinds
<1>13. Heard' => \A d \in Conns : d # c /\ req[d] # NoReq => req[d].device # d0
  BY <1>12 DEF AnswersAwaited
<1>14. AnswersAwaited'
  <2> SUFFICES ASSUME Heard'
               PROVE  /\ \A d \in Conns : Awaited(req[d])'
                      /\ \A d, e \in Conns : d # e /\ req'[d] # NoReq /\ req'[e] # NoReq =>
                           req'[d].device # req'[e].device
    BY DEF AnswersAwaited, Awaited
  <2>1. ASSUME NEW d \in Conns, d # c, req[d] # NoReq PROVE Awaited(req[d])'
    <3>1. Awaited(req[d])
      BY <1>12, <2>1 DEF AnswersAwaited, Awaited
    <3>2. stored'[req[d].device] = stored[req[d].device]
      BY <1>3, <1>13, <2>1 DEF RequestsMakeSense
    <3> QED BY <1>1, <2>1, <3>1, <3>2 DEF Awaited
  <2>2. \A d \in Conns : Awaited(req[d])'
    BY <1>1, <2>1 DEF Awaited
  <2>3. \A d, e \in Conns : d # e /\ req'[d] # NoReq /\ req'[e] # NoReq =>
          req'[d].device # req'[e].device
    BY <1>1, <1>12 DEF AnswersAwaited
  <2> QED BY <2>2, <2>3
<1>15. NoTokenLeftBehind'
  <2> SUFFICES ASSUME Heard', NEW i \in TokenIds, tokens[i].live, ~tokens[i].expired
               PROVE  (\E d \in Devices : stored'[d] = i) \/ (\E d \in Conns : req'[d].new = i)
    BY <1>4 DEF NoTokenLeftBehind, Heard
  <2>1. (\E d \in Devices : stored[d] = i) \/ (\E d \in Conns : req[d].new = i)
    BY <1>12 DEF NoTokenLeftBehind, Heard
  <2>2. i # 0
    BY TokenFacts
  <2>3. CASE \E d \in Conns : req[d].new = i
    BY <1>1, <1>2, <1>3, <2>2, <2>3
  <2>4. CASE \E d \in Devices : stored[d] = i
    <3>1. stored[d0] # i
      <4>1. req[c].token = stored[d0] /\ req[c].step = "reply"
        BY <1>12 DEF AnswersAwaited
      <4>2. CASE req[c].op = "login"
        BY <2>2, <4>1, <4>2 DEF RequestsMakeSense
      <4>3. CASE req[c].op # "login"
        BY <1>12, <4>1, <4>3 DEF AnswersAwaited
      <4> QED BY <4>2, <4>3
    <3> QED BY <1>3, <2>4, <3>1
  <2> QED BY <2>1, <2>3, <2>4
<1>16. RevokedByOwner'
  <2> SUFFICES ASSUME Heard', Never("alls")'
               PROVE  /\ \A d \in Conns : Harmless(req[d])'
                      /\ \A d \in Devices : stored'[d] # 0 =>
                           \/ tokens[stored'[d]].live
                           \/ \E e \in Conns : req'[e].device = d /\ req'[e].step = "reply"
    BY DEF RevokedByOwner, Harmless
  <2>1. Heard /\ Never("alls")
    BY <1>12 DEF Kinds
  <2>2. \A d \in Conns : Harmless(req[d])
    BY <2>1, Zenon DEF RevokedByOwner, Harmless
  <2>3. \A d \in Conns : Harmless(req[d])'
    BY <1>1, <2>2, NoReqFacts DEF Harmless
  <2>4. ASSUME NEW d \in Devices, stored'[d] # 0, ~tokens[stored'[d]].live
        PROVE  \E e \in Conns : req'[e].device = d /\ req'[e].step = "reply"
    <3>1. CASE d = d0
      BY <1>3, <2>2, <2>4, <3>1 DEF Harmless
    <3>2. CASE d # d0
      BY <1>1, <1>3, <2>1, <2>4, <3>2 DEF RevokedByOwner
    <3> QED BY <3>1, <3>2
  <2> QED BY <2>3, <2>4
<1> QED BY <1>5, <1>6, <1>7, <1>8, <1>9, <1>10, <1>11, <1>14, <1>15, <1>16

LEMMA EndFacts ==
  ASSUME TypeOK, NEW c \in Conns, NEW a, End(c, a), req[c].device \in Devices
  PROVE  /\ req' = [req EXCEPT ![c] = NoReq] /\ UNCHANGED <<tokens, allRevoked, caught>>
         /\ \E t : /\ stored' = [stored EXCEPT ![req[c].device] = t]
                   /\ IF req[c].waiting THEN t \in Kept(c, a) ELSE t = stored[req[c].device]
<1>1. CASE req[c].waiting
  BY <1>1 DEF End
<1>2. CASE ~req[c].waiting
  <2>1. stored' = stored
    BY <1>2 DEF End
  <2>2. stored = [stored EXCEPT ![req[c].device] = stored[req[c].device]]
    BY DEF TypeOK
  <2> QED BY <1>2, <2>1, <2>2 DEF End
<1> QED BY <1>1, <1>2

\* What a device keeps after each answer.
LEMMA KeptFacts ==
  ASSUME NEW c \in Conns, NEW a \in Answers
  PROVE  /\ a = "pair" /\ req[c].op # "logout" => Kept(c, a) = {req[c].new}
         /\ a # "pair" /\ (a \in {"out", "reused"} \/ req[c].op = "logout") => Kept(c, a) = {0}
         /\ a # "pair" => Kept(c, a) \subseteq {stored[req[c].device], 0}
<1>1. CASE a = "pair" /\ req[c].op # "logout"
  BY <1>1 DEF Kept
<1>2. CASE a = "pair" /\ req[c].op = "logout"
  BY <1>2
<1>3. CASE a # "pair" /\ (a \in {"out", "reused"} \/ req[c].op = "logout")
  <2>1. Kept(c, a) = {0}
    BY <1>3 DEF Kept
  <2> QED BY <1>3, <2>1
<1>4. CASE a # "pair" /\ ~(a \in {"out", "reused"} \/ req[c].op = "logout")
  <2>1. Kept(c, a) = {stored[req[c].device], 0}
    BY <1>4 DEF Kept
  <2> QED BY <1>4, <2>1
<1> QED BY <1>1, <1>2, <1>3, <1>4

LEMMA ReplyInv ==
  ASSUME SessionsInv, NEW c \in Conns, Reply(c)
  PROVE  SessionsInv'
<1> USE DEF SessionsInv
<1> DEFINE a == req[c].answer
<1>1. req[c].step = "reply" /\ End(c, a) /\ used' = used
  BY DEF Reply
<1>2. req[c] # NoReq /\ req[c] \in Req
  BY <1>1, NoReqFacts, TokenFacts
<1>3. /\ req[c].device \in Devices /\ a \in Answers \ {"none"}
      /\ a = "pair" <=> req[c].new # 0
      /\ a = "pair" => req[c].op # "logout"
  BY <1>1, <1>2 DEF RequestsMakeSense, Req, Answers
<1>4. /\ req' = [req EXCEPT ![c] = NoReq] /\ UNCHANGED <<tokens, allRevoked, caught>>
      /\ \E t : /\ stored' = [stored EXCEPT ![req[c].device] = t]
                /\ IF req[c].waiting THEN t \in Kept(c, a) ELSE t = stored[req[c].device]
  BY <1>1, <1>3, EndFacts
<1>5. PICK t : /\ stored' = [stored EXCEPT ![req[c].device] = t]
               /\ IF req[c].waiting THEN t \in Kept(c, a) ELSE t = stored[req[c].device]
  BY <1>4
<1>6. /\ a = "pair" => Kept(c, a) = {req[c].new}
      /\ a \in {"out", "reused"} => Kept(c, a) = {0}
      /\ a # "pair" => Kept(c, a) \subseteq {stored[req[c].device], 0}
  BY <1>3, KeptFacts
<1>7. t \in {0, req[c].new, stored[req[c].device]}
  BY <1>3, <1>5, <1>6 DEF Answers
<1>8. /\ used' \in [Kinds -> Nat] /\ \A k \in Kinds : used'[k] <= Bound[k]
      /\ \A k \in Kinds : Never(k)' => Never(k)
  BY <1>1, NoneSpent
<1>9. Heard' => t \in {0, req[c].new} /\ (req[c].new # 0 => t = req[c].new)
  <2>1. Heard' => req[c].waiting /\ a # "error"
    BY <1>2, <1>8 DEF Heard, Kinds, AnswersAwaited
  <2> QED BY <1>3, <1>5, <1>6, <2>1 DEF Answers
<1> QED BY <1>1, <1>2, <1>4, <1>5, <1>7, <1>8, <1>9, EndKeeps

LEMMA AbortInv ==
  ASSUME SessionsInv, NEW c \in Conns, Abort(c)
  PROVE  SessionsInv'
<1> USE DEF SessionsInv
<1>1. Spend("aborts") /\ req[c] # NoReq /\ End(c, "error")
  BY DEF Abort
<1>2. req[c].device \in Devices
  BY <1>1 DEF RequestsMakeSense
<1>3. /\ req' = [req EXCEPT ![c] = NoReq] /\ UNCHANGED <<tokens, allRevoked, caught>>
      /\ \E t : /\ stored' = [stored EXCEPT ![req[c].device] = t]
                /\ IF req[c].waiting THEN t \in Kept(c, "error") ELSE t = stored[req[c].device]
  BY <1>1, <1>2, EndFacts
<1>4. Kept(c, "error") \subseteq {0, stored[req[c].device]}
  <2>1. ASSUME NEW a, a = "error"
        PROVE  /\ req[c].op = "logout" => Kept(c, a) = {0}
               /\ req[c].op # "logout" => Kept(c, a) = {stored[req[c].device], 0}
    BY <2>1 DEF Kept
  <2> QED BY <2>1
<1>5. /\ used' \in [Kinds -> Nat] /\ \A k \in Kinds : used'[k] <= Bound[k]
      /\ \A k \in Kinds : Never(k)' => Never(k)
      /\ ~Heard'
  BY <1>1, SpendFacts DEF Kinds, Heard
<1> QED BY <1>1, <1>3, <1>4, <1>5, EndKeeps

---------------------------------------------------------------------------------
(* The theorems *)

LEMMA InitInv == Init => SessionsInv
<1> SUFFICES ASSUME Init PROVE SessionsInv
  OBVIOUS
<1>1. /\ tokens = <<>> /\ req = [c \in Conns |-> NoReq] /\ stored = [d \in Devices |-> 0]
      /\ allRevoked = [u \in Users |-> 0] /\ caught = [u \in Users |-> {}]
      /\ used = [k \in Kinds |-> 0]
  BY DEF Init
<1>2. tokens \in Seq(Token) /\ Len(tokens) = 0 /\ TokenIds = {}
  BY <1>1, EmptySeq DEF TokenIds
<1>3. \A c \in Conns : req[c] = NoReq
  BY <1>1
<1>4. TypeOK
  <2>1. req \in [Conns -> Req] /\ stored \in [Devices -> 0 .. 0] /\ allRevoked \in [Users -> 0 .. 0]
    BY <1>1, NoReqFacts
  <2>2. used \in [Kinds -> Nat] /\ \A k \in Kinds : used[k] <= Bound[k]
    BY <1>1
  <2> QED BY <1>1, <1>2, <1>3, <2>1, <2>2, NoReqFacts DEF TypeOK
<1>5. RequestsMakeSense /\ TokensHaveOwners /\ SuccessorsInFlight /\ OneKeeper /\ CaughtInTime
  BY <1>1, <1>3, NoReqFacts
     DEF RequestsMakeSense, TokensHaveOwners, SuccessorsInFlight, OneKeeper, CaughtInTime
<1>6. ChainsAreDisjoint /\ LogoutAllReachesAll /\ NoTokenLeftBehind
  BY <1>2 DEF ChainsAreDisjoint, LogoutAllReachesAll, NoTokenLeftBehind
<1>7. AnswersAwaited /\ RevokedByOwner
  BY <1>1, <1>3, NoReqFacts DEF AnswersAwaited, RevokedByOwner
<1> QED BY <1>4, <1>5, <1>6, <1>7 DEF SessionsInv

LEMMA NextInv ==
  ASSUME SessionsInv, [Next]_vars
  PROVE  SessionsInv'
<1>1. CASE \E c \in Conns, d \in Devices :
             Login(c, d) \/ Refresh(c, d) \/ Logout(c, d) \/ LogoutAll(c, d)
  BY <1>1, BeginInv
<1>2. CASE \E c \in Conns : Find(c)
  BY <1>2, FindInv
<1>3. CASE \E c \in Conns : Insert(c)
  BY <1>3, InsertInv
<1>4. CASE \E c \in Conns : FindNew(c)
  BY <1>4, FindNewInv
<1>5. CASE \E c \in Conns : Revoke(c)
  BY <1>5, RevokeInv
<1>6. CASE \E c \in Conns : RevokeAllForUser(c)
  BY <1>6, RevokeAllForUserInv
<1>7. CASE \E c \in Conns : Fails(c)
  BY <1>7, FailsInv
<1>8. CASE \E c \in Conns : Reply(c)
  BY <1>8, ReplyInv
<1>9. CASE \E c \in Conns : Abort(c)
  BY <1>9, AbortInv
<1>10. CASE \E d \in Devices : KillApp(d)
  BY <1>10, KillAppInv
<1>11. CASE \E i \in TokenIds : Expire(i)
  BY <1>11, ExpireInv
<1>12. CASE UNCHANGED vars
  BY <1>12 DEF vars, SessionsInv, TypeOK, RequestsMakeSense, TokensHaveOwners, SuccessorsInFlight,
       ChainsAreDisjoint, OneKeeper, CaughtInTime, LogoutAllReachesAll, AnswersAwaited,
       NoTokenLeftBehind, RevokedByOwner, TokenIds, Root, User, Heard, Never
<1> QED BY <1>1, <1>2, <1>3, <1>4, <1>5, <1>6, <1>7, <1>8, <1>9, <1>10, <1>11, <1>12
        DEF Next, Statement

\* The inductive invariant of refresh, rotation and logout (service/auth.go)
\* holds in every reachable state.
THEOREM SessionsInvariant == Spec => []SessionsInv
BY InitInv, NextInv, PTL DEF Spec

\* Every variable keeps its type, and ids are of tokens that exist.
THEOREM TypeCorrect == Spec => []TypeOK
<1>1. SessionsInv => TypeOK
  BY DEF SessionsInv
<1> QED BY <1>1, SessionsInvariant, PTL

\* replaced_by is the chain of one session, also when a user's devices refresh,
\* log out and lose answers at the same time.
THEOREM Chains == Spec => []ChainsAreDisjoint
<1>1. SessionsInv => ChainsAreDisjoint
  BY DEF SessionsInv
<1> QED BY <1>1, SessionsInvariant, PTL

\* A logout of all devices leaves no good token to earlier logins, but where a
\* refresh had found its token good and inserts the new one afterwards.
THEOREM LogoutReaches == Spec => []LogoutAllReachesAll
<1>1. SessionsInv => LogoutAllReachesAll
  BY DEF SessionsInv
<1> QED BY <1>1, SessionsInvariant, PTL

\* While devices hear every answer and no statement fails, a token that could
\* still be used is kept by a device or on its way.
THEOREM NoneLeft == Spec => []NoTokenLeftBehind
<1>1. SessionsInv => NoTokenLeftBehind
  BY DEF SessionsInv
<1> QED BY <1>1, SessionsInvariant, PTL

\* Then, and without a logout of all devices, whatever a user's other devices do
\* a device keeps a good token, and none is told that its token was reused.
THEOREM SessionsKept == Spec => []KeepsItsSession
<1>1. SessionsInv => KeepsItsSession
  <2> SUFFICES ASSUME SessionsInv, Heard, Never("alls")
               PROVE  /\ \A c \in Conns : req[c].answer # "reused"
                      /\ \A d \in Devices :
                           stored[d] # 0 /\ ~Waiting(d) => tokens[stored[d]].live
    BY DEF KeepsItsSession, Heard
  <2>1. \A c \in Conns : Harmless(req[c])
    BY Zenon DEF SessionsInv, RevokedByOwner, Harmless
  <2>2. ASSUME NEW d \in Devices, stored[d] # 0, ~tokens[stored[d]].live
        PROVE  Waiting(d)
    <3>1. PICK c \in Conns : req[c].device = d /\ req[c].step = "reply"
      BY <2>2 DEF SessionsInv, RevokedByOwner
    <3>2. req[c].waiting
      BY <3>1, NoReqFacts DEF SessionsInv, AnswersAwaited
    <3> QED BY <3>1, <3>2 DEF Waiting
  <2> QED BY <2>1, <2>2 DEF Harmless
<1> QED BY <1>1, SessionsInvariant, PTL

---------------------------------------------------------------------------------
(* What is over is over. *)

\* A token loses its worth at most, and once revoked gets no successor: "AND
\* revoked_at IS NULL" of Revoke, and no statement clears revoked_at.
OnlyLoses(i) ==
  /\ tokens'[i].root = tokens[i].root
  /\ ~tokens[i].live => ~tokens'[i].live /\ tokens'[i].replacedBy = tokens[i].replacedBy
  /\ tokens[i].expired => tokens'[i].expired

\* A step takes no worth back, and adds at most the token of a request about to
\* insert it.
LEMMA TableMoves ==
  ASSUME TypeOK, Next
  PROVE  /\ \A i \in TokenIds : OnlyLoses(i)
         /\ \/ TokenIds' = TokenIds
            \/ \E c \in Conns : req[c].step = "insert" /\ tokens' = Append(tokens, NewToken(c))
<1>1. \A i \in TokenIds : tokens[i] \in Token /\ i \in 1 .. Len(tokens)
  BY TokenFacts
<1>2. CASE tokens' = tokens
  BY <1>2 DEF OnlyLoses, TokenIds
<1>3. CASE \E c \in Conns : req[c].step = "insert" /\ tokens' = Append(tokens, NewToken(c))
  <2>1. ASSUME NEW i \in TokenIds
        PROVE  tokens'[i] = tokens[i]
    BY <1>1, <1>3 DEF TypeOK
  <2> QED BY <1>3, <2>1 DEF OnlyLoses
<1>4. ASSUME NEW k \in TokenIds, NEW t, tokens' = [tokens EXCEPT ![k] = t],
             t.root = tokens[k].root,
             ~tokens[k].live => ~t.live /\ t.replacedBy = tokens[k].replacedBy,
             tokens[k].expired => t.expired
      PROVE  (\A i \in TokenIds : OnlyLoses(i)) /\ TokenIds' = TokenIds
  <2>1. ASSUME NEW i \in TokenIds
        PROVE  tokens'[i] = IF i = k THEN t ELSE tokens[i]
    BY <1>4 DEF TokenIds
  <2>2. TokenIds' = TokenIds
    BY <1>4 DEF TokenIds
  <2> QED BY <1>4, <2>1, <2>2 DEF OnlyLoses
<1>5. ASSUME NEW c \in Conns, Revoke(c), tokens' # tokens
      PROVE  (\A i \in TokenIds : OnlyLoses(i)) /\ TokenIds' = TokenIds
  <2> DEFINE k == req[c].token
             t == [tokens[k] EXCEPT !.live = FALSE, !.replacedBy = req[c].next]
  <2>1. tokens[k].live /\ tokens' = [tokens EXCEPT ![k] = t]
    BY <1>5 DEF Revoke
  <2>2. k \in TokenIds
    <3>1. SUFFICES ASSUME k \notin DOMAIN tokens
                   PROVE  tokens' = tokens
      BY <1>5 DEF TokenIds
    <3> HIDE DEF k, t
    <3> QED BY <2>1, <3>1 DEF TypeOK
  <2>3. t.root = tokens[k].root /\ t.expired = tokens[k].expired
    BY <1>1, <2>2 DEF Token
  <2> HIDE DEF t
  <2> QED BY <1>4, <2>1, <2>2, <2>3
<1>6. ASSUME NEW c \in Conns, RevokeAllForUser(c)
      PROVE  (\A i \in TokenIds : OnlyLoses(i)) /\ TokenIds' = TokenIds
  <2>1. ASSUME NEW i \in TokenIds
        PROVE  OnlyLoses(i)
    <3> DEFINE t == [tokens[i] EXCEPT !.live = FALSE]
    <3>1. /\ t.live = FALSE /\ t.root = tokens[i].root /\ t.expired = tokens[i].expired
          /\ t.replacedBy = tokens[i].replacedBy
      BY <1>1 DEF Token
    <3>2. tokens'[i] \in {t, tokens[i]}
      BY <1>6 DEF RevokeAllForUser, RevokeAll
    <3> HIDE DEF t
    <3> QED BY <3>1, <3>2 DEF OnlyLoses
  <2>2. TokenIds' = TokenIds
    BY <1>6 DEF RevokeAllForUser, RevokeAll, TokenIds
  <2> QED BY <2>1, <2>2
<1>7. ASSUME NEW i \in TokenIds, Expire(i)
      PROVE  (\A j \in TokenIds : OnlyLoses(j)) /\ TokenIds' = TokenIds
  <2> DEFINE t == [tokens[i] EXCEPT !.expired = TRUE]
  <2>1. /\ t.live = tokens[i].live /\ t.root = tokens[i].root /\ t.expired
        /\ t.replacedBy = tokens[i].replacedBy
    BY <1>1 DEF Token
  <2>2. tokens' = [tokens EXCEPT ![i] = t]
    BY <1>7 DEF Expire
  <2> HIDE DEF t
  <2> QED BY <1>4, <2>1, <2>2
<1>8. ASSUME NEW c \in Conns, Fails(c)
      PROVE  \/ tokens' = tokens
             \/ req[c].step = "insert" /\ tokens' = Append(tokens, NewToken(c))
  BY <1>8 DEF Fails
<1>9. ASSUME NEW c \in Conns, Find(c) \/ FindNew(c) \/ Reply(c) \/ Abort(c)
      PROVE  tokens' = tokens
  BY <1>9 DEF Find, FindNew, Reply, Abort, End
<1>10. ASSUME NEW c \in Conns, NEW d \in Devices,
              Login(c, d) \/ Refresh(c, d) \/ Logout(c, d) \/ LogoutAll(c, d)
       PROVE  tokens' = tokens
  BY <1>10 DEF Login, Refresh, Logout, LogoutAll, Request
<1>11. ASSUME NEW c \in Conns, Insert(c)
       PROVE  req[c].step = "insert" /\ tokens' = Append(tokens, NewToken(c))
  BY <1>11 DEF Insert
<1>12. ASSUME NEW d \in Devices, KillApp(d)
       PROVE  tokens' = tokens
  BY <1>12 DEF KillApp
<1> QED BY <1>2, <1>3, <1>5, <1>6, <1>7, <1>8, <1>9, <1>10, <1>11, <1>12, Zenon
        DEF Next, Statement

\* A refresh about to insert the successor of its token.
Renews(r) == r.op = "refresh" /\ r.step = "insert"

\* A step changes one request at most, and one that is then about to insert was
\* so before or has found its token good.
Proceeds(c) ==
  \E r : /\ req' = [req EXCEPT ![c] = r]
         /\ Renews(r) => /\ r.token = req[c].token
                         /\ \/ Renews(req[c])
                            \/ /\ r.token \in TokenIds
                               /\ tokens[r.token].live /\ ~tokens[r.token].expired

LEMMA RequestMoves ==
  ASSUME SessionsInv, Next
  PROVE  req' = req \/ \E c \in Conns : Proceeds(c)
<1> USE DEF SessionsInv
<1>1. ASSUME NEW c \in Conns, NEW step \in Steps \ {"insert"}, Go(c, step)
      PROVE  Proceeds(c)
  BY <1>1, GoFacts DEF Proceeds, Renews
<1>2. ASSUME NEW c \in Conns, NEW a \in Answers, Answer(c, a)
      PROVE  Proceeds(c)
  BY <1>2, AnswerFacts DEF Proceeds, Renews
<1>3. ASSUME NEW c \in Conns, NEW d \in Devices,
             Login(c, d) \/ Refresh(c, d) \/ Logout(c, d) \/ LogoutAll(c, d)
      PROVE  Proceeds(c)
  <2>1. PICK op \in {"login", "refresh", "logout", "all"}, step \in {"find", "insert", "revokeAll"} :
          Request(c, d, op, step) /\ (op = "refresh" => step = "find")
    BY <1>3 DEF Login, Refresh, Logout, LogoutAll
  <2> DEFINE r == [NoReq EXCEPT !.op = op, !.step = step, !.device = d, !.waiting = TRUE,
                                !.token = stored[d]]
  <2>2. req' = [req EXCEPT ![c] = r] /\ r.op = op /\ r.step = step
    BY <2>1 DEF Request, NoReq
  <2> HIDE DEF r
  <2> QED BY <2>1, <2>2 DEF Proceeds, Renews
<1>4. ASSUME NEW c \in Conns, Find(c)
      PROVE  Proceeds(c)
  <2> DEFINE t == tokens[req[c].token]
  <2>1. req[c].op \in {"refresh", "logout"} /\ req[c].token \in TokenIds
    BY <1>4, NoReqFacts, TokenFacts DEF Find, RequestsMakeSense
  <2>2. t.live \in BOOLEAN /\ t.expired \in BOOLEAN
    BY <2>1, TokenFacts DEF Token
  <2>3. \/ Go(c, "revoke") \/ Go(c, "family") \/ Answer(c, "out")
        \/ Go(c, "insert") /\ t.live /\ ~t.expired
    BY <1>4, <2>1, <2>2 DEF Find
  <2>4. CASE Go(c, "insert") /\ t.live /\ ~t.expired
    <3>1. PICK r \in Req : req' = [req EXCEPT ![c] = r] /\ Same(r, req[c])
      BY <2>4, GoFacts DEF Steps
    <3> QED BY <2>1, <2>4, <3>1 DEF Proceeds, Same
  <2> QED BY <1>1, <1>2, <2>3, <2>4 DEF Steps, Answers
<1>5. ASSUME NEW c \in Conns, Insert(c)
      PROVE  Proceeds(c)
  <2> DEFINE r == [req[c] EXCEPT !.new = Len(tokens) + 1, !.answer = "pair",
                                 !.step = IF req[c].op = "login" THEN "reply" ELSE "link"]
  <2>1. req' = [req EXCEPT ![c] = r]
    BY <1>5 DEF Insert
  <2>2. r.step # "insert"
    BY DEF TypeOK, Req
  <2> HIDE DEF r
  <2> QED BY <2>1, <2>2 DEF Proceeds, Renews
<1>6. ASSUME NEW c \in Conns, FindNew(c)
      PROVE  Proceeds(c)
  <2> DEFINE r == [req[c] EXCEPT !.step = "revoke", !.next = req[c].new]
  <2>1. req' = [req EXCEPT ![c] = r]
    BY <1>6 DEF FindNew
  <2>2. r.step # "insert"
    BY DEF TypeOK, Req
  <2> HIDE DEF r
  <2> QED BY <2>1, <2>2 DEF Proceeds, Renews
<1>7. ASSUME NEW c \in Conns, AfterRevoke(c)
      PROVE  Proceeds(c)
  BY <1>1, <1>2, <1>7 DEF AfterRevoke, Steps, Answers
<1>8. ASSUME NEW c \in Conns, Revoke(c)
      PROVE  Proceeds(c)
  BY <1>7, <1>8 DEF Revoke
<1>9. ASSUME NEW c \in Conns, RevokeAllForUser(c)
      PROVE  Proceeds(c)
  BY <1>2, <1>9 DEF RevokeAllForUser, RevokeAll, Answers
<1>10. ASSUME NEW c \in Conns, Fails(c)
       PROVE  Proceeds(c)
  <2>1. \/ \E a \in {"out", "error", "reused"} : Answer(c, a)
        \/ Go(c, "revoke") \/ Go(c, "reply")
    BY <1>10, Zenon DEF Fails
  <2> QED BY <1>1, <1>2, <2>1 DEF Steps, Answers
<1>11. ASSUME NEW c \in Conns, Reply(c) \/ Abort(c)
       PROVE  Proceeds(c)
  <2>1. req' = [req EXCEPT ![c] = NoReq]
    BY <1>11 DEF Reply, Abort, End
  <2> QED BY <2>1, NoReqFacts DEF Proceeds, Renews
<1>12. ASSUME NEW d \in Devices, KillApp(d)
       PROVE  \E c \in Conns : Proceeds(c)
  <2>1. PICK c \in Conns : req' = [req EXCEPT ![c].waiting = FALSE]
    BY <1>12 DEF KillApp
  <2> DEFINE r == [req[c] EXCEPT !.waiting = FALSE]
  <2>2. req' = [req EXCEPT ![c] = r]
    BY <2>1
  <2>3. r.op = req[c].op /\ r.step = req[c].step /\ r.token = req[c].token
    BY DEF TypeOK, Req
  <2> HIDE DEF r
  <2>4. Renews(r) => r.token = req[c].token /\ Renews(req[c])
    BY <2>3 DEF Renews
  <2> QED BY <2>2, <2>4 DEF Proceeds
<1>13. ASSUME NEW i \in TokenIds, Expire(i)
       PROVE  req' = req
  BY <1>13 DEF Expire
<1> QED BY <1>3, <1>4, <1>5, <1>6, <1>8, <1>9, <1>10, <1>11, <1>12, <1>13, Zenon
        DEF Next, Statement

\* A session that is over is not opened by the step: a new token of it comes from
\* a refresh about to insert, and that one had found a token of it good.
LEMMA StaysOver ==
  ASSUME SessionsInv, Next, NEW r \in TokenIds, Open(r)'
  PROVE  Open(r)
<1> USE DEF SessionsInv
<1>1. \A i \in TokenIds : OnlyLoses(i)
  BY TableMoves
<1>2. ASSUME NEW c \in Conns, Renews(req[c])
      PROVE  req[c].token \in TokenIds
  BY <1>2, NoReqFacts, TokenFacts DEF Renews, RequestsMakeSense
<1>3. ASSUME NEW c \in Conns, Renews(req[c]), Root(req[c].token) = r
      PROVE  Open(r)
  BY <1>3 DEF Open, Renewing, Renews
<1>4. CASE Usable(r)'
  <2>1. PICK i \in TokenIds' : tokens'[i].root = r /\ tokens'[i].live /\ ~tokens'[i].expired
    BY <1>4 DEF Usable, Root
  <2>2. CASE i \in TokenIds
    BY <1>1, <2>1, <2>2 DEF OnlyLoses, Open, Usable, Root
  <2>3. CASE i \notin TokenIds
    <3>1. PICK c \in Conns : req[c].step = "insert" /\ tokens' = Append(tokens, NewToken(c))
      BY <2>3, TableMoves
    <3>2. i = Len(tokens) + 1 /\ tokens'[i] = NewToken(c)
      BY <2>3, <3>1, TokenFacts DEF TypeOK, TokenIds
    <3>3. req[c].op \in {"login", "refresh"}
      BY <3>1, NoReqFacts DEF RequestsMakeSense
    <3>4. req[c].op # "login"
      BY <2>1, <3>2, TokenFacts DEF NewToken
    <3>5. Root(req[c].token) = r
      BY <2>1, <3>2, <3>4 DEF NewToken
    <3> QED BY <1>3, <3>1, <3>3, <3>4, <3>5 DEF Renews
  <2> QED BY <2>2, <2>3
<1>5. CASE Renewing(r)'
  <2>1. PICK c \in Conns : Renews(req'[c]) /\ tokens'[req'[c].token].root = r
    BY <1>5 DEF Renewing, Renews, Root
  <2>2. CASE req'[c] = req[c]
    BY <1>1, <1>2, <1>3, <2>1, <2>2 DEF OnlyLoses, Root
  <2>3. CASE req'[c] # req[c]
    <3>1. Proceeds(c) /\ req'[c].token = req[c].token
      BY <2>1, <2>3, RequestMoves DEF Proceeds, TypeOK
    <3>2. \/ Renews(req[c])
          \/ /\ req[c].token \in TokenIds
             /\ tokens[req[c].token].live /\ ~tokens[req[c].token].expired
      BY <2>1, <3>1 DEF Proceeds, TypeOK
    <3>3. req[c].token \in TokenIds
      BY <1>2, <3>2
    <3> QED BY <1>1, <1>3, <2>1, <3>1, <3>2, <3>3 DEF OnlyLoses, Open, Usable, Root
  <2> QED BY <2>2, <2>3
<1> QED BY <1>4, <1>5 DEF Open

\* What has revoked a token is final: it has no successor that it did not have
\* and is never good again. And a session that is over, because its tokens are
\* revoked or expired and no refresh has found one good before, is never open
\* again, whatever requests, retries and failures follow.
THEOREM RevokedOnce == Spec => RevokedForGood
<1>1. SessionsInv /\ [Next]_vars
      => [/\ \A i \in TokenIds :
               ~tokens[i].live => /\ ~tokens'[i].live
                                  /\ tokens'[i].replacedBy = tokens[i].replacedBy
          /\ \A r \in TokenIds : Open(r)' => Open(r)]_vars
  <2>1. SessionsInv => TypeOK
    BY DEF SessionsInv
  <2> QED BY <2>1, TableMoves, StaysOver, Zenon DEF OnlyLoses
<1> QED BY <1>1, SessionsInvariant, PTL DEF Spec, RevokedForGood
=================================================================================
