-------------------------------- MODULE Sessions ---------------------------------
(***************************************************************************)
(* Sessions: refresh tokens are issued by a login, exchanged for new ones  *)
(* by a refresh (rotation) and revoked by a logout, by a logout of all     *)
(* devices, and when a revoked one is presented (service/auth.go,          *)
(* repository/refresh_token.go, handler/auth.go).                          *)
(*                                                                         *)
(* No request is a transaction: each statement is a step of its own. A     *)
(* device keeps one token and has one request under way at a time, unless  *)
(* the app is killed: then the server may still be at work on the old      *)
(* request when the app is back with the next.                             *)
(***************************************************************************)
EXTENDS Integers, Sequences

CONSTANTS
  Users,    \* the accounts
  Devices,  \* the devices
  UserOf,   \* the account each device logs in to
  Conns,    \* requests the server works on at a time
  Bound     \* bounds: how often each kind of step is taken

Kinds == {"logins", "refreshes", "logouts", "alls", "kills", "aborts", "failures", "expiries",
          "steps"}  \* steps: all of them

ASSUME UserOfAssumption == UserOf \in [Devices -> Users]
ASSUME BoundAssumption == Bound \in [Kinds -> Nat]

VARIABLES
  tokens,     \* the refresh_tokens table, by id
  req,        \* the request on each connection
  stored,     \* the token each device keeps, 0 if none
  allRevoked, \* history: of each user, the tokens before the last revocation of all
  caught,     \* history: of each user, the logins with a refresh about to insert then
  used        \* steps of each kind taken so far

vars == <<tokens, req, stored, allRevoked, caught, used>>

\* token: the token presented. new: the token issued. waiting: the device
\* still waits for the answer.
NoReq == [op |-> "none", step |-> "idle", device |-> "none", waiting |-> FALSE,
          token |-> 0, new |-> 0, next |-> 0, answer |-> "none"]

Init ==
  /\ tokens = <<>>
  /\ req = [c \in Conns |-> NoReq]
  /\ stored = [d \in Devices |-> 0]
  /\ allRevoked = [u \in Users |-> 0] /\ caught = [u \in Users |-> {}]
  /\ used = [k \in Kinds |-> 0]

Spend(k) ==
  /\ used[k] < Bound[k] /\ used["steps"] < Bound["steps"]
  /\ used' = [used EXCEPT ![k] = @ + 1, !["steps"] = @ + 1]
Never(k) == used[k] = 0

TokenIds == DOMAIN tokens
User(c) == UserOf[req[c].device]
Waiting(d) == \E c \in Conns : req[c].device = d /\ req[c].waiting

---------------------------------------------------------------------------------
(* The devices *)

\* A device sends a request, starting with step.
Request(c, d, op, step) ==
  /\ req[c] = NoReq /\ ~Waiting(d)
  /\ req' = [req EXCEPT ![c] = [NoReq EXCEPT !.op = op, !.step = step, !.device = d,
                                             !.waiting = TRUE, !.token = stored[d]]]
  /\ UNCHANGED <<tokens, stored, allRevoked, caught>>

\* The password is checked without changing anything.
Login(c, d) == Spend("logins") /\ stored[d] = 0 /\ Request(c, d, "login", "insert")
Refresh(c, d) == Spend("refreshes") /\ stored[d] # 0 /\ Request(c, d, "refresh", "find")
Logout(c, d) == Spend("logouts") /\ stored[d] # 0 /\ Request(c, d, "logout", "find")
LogoutAll(c, d) == Spend("alls") /\ stored[d] # 0 /\ Request(c, d, "all", "revokeAll")

\* What the device may keep after answer a: the new token, nothing if it was
\* told that its token is worth nothing or has logged out, and after an error
\* its token or nothing.
Kept(c, a) ==
  CASE a = "pair" -> {req[c].new}
    [] a \in {"out", "reused"} \/ req[c].op = "logout" -> {0}
    [] OTHER -> {stored[req[c].device], 0}

\* The request is over; the device hears a, if it still waits.
End(c, a) ==
  /\ req' = [req EXCEPT ![c] = NoReq]
  /\ IF req[c].waiting
     THEN \E t \in Kept(c, a) : stored' = [stored EXCEPT ![req[c].device] = t]
     ELSE UNCHANGED stored
  /\ UNCHANGED <<tokens, allRevoked, caught>>

Reply(c) == req[c].step = "reply" /\ End(c, req[c].answer) /\ UNCHANGED used

\* The app is killed while it waits; the server does not know.
KillApp(d) ==
  /\ Spend("kills")
  /\ \E c \in Conns : /\ req[c].device = d /\ req[c].waiting
                      /\ req' = [req EXCEPT ![c].waiting = FALSE]
  /\ UNCHANGED <<tokens, stored, allRevoked, caught>>

\* The server dies or the connection is lost: the request ends between two
\* statements, and the device sees an error.
Abort(c) == Spend("aborts") /\ req[c] # NoReq /\ End(c, "error")

---------------------------------------------------------------------------------
(* The server, one statement at a time *)

Go(c, step) == req' = [req EXCEPT ![c] = [@ EXCEPT !.step = step]]
Answer(c, a) == req' = [req EXCEPT ![c] = [@ EXCEPT !.step = "reply", !.answer = a]]

\* Mutant: a logout is a logout of all devices.
FindLogoutAll(c) ==
  LET t == tokens[req[c].token] IN
  /\ req[c].step = "find"
  /\ CASE req[c].op = "logout" -> Go(c, "revokeAll")
       [] req[c].op = "refresh" /\ ~t.live -> Go(c, "family")
       [] req[c].op = "refresh" /\ t.live /\ t.expired -> Answer(c, "out")
       [] OTHER -> Go(c, "insert")
  /\ UNCHANGED <<tokens, stored, allRevoked, caught, used>>

\* FindByTokenHash, then what to do: a revoked token is a reuse, an expired
\* one must be replaced by a login.
Find(c) ==
  LET t == tokens[req[c].token] IN
  /\ req[c].step = "find"
  /\ CASE req[c].op = "logout" -> Go(c, "revoke")
       [] req[c].op = "refresh" /\ ~t.live -> Go(c, "family")
       [] req[c].op = "refresh" /\ t.live /\ t.expired -> Answer(c, "out")
       [] OTHER -> Go(c, "insert")
  /\ UNCHANGED <<tokens, stored, allRevoked, caught, used>>

\* The refresh tokens a login began with.
Root(t) == tokens[t].root

NewToken(c) ==
  [user |-> User(c), live |-> TRUE, replacedBy |-> 0, expired |-> FALSE,
   root |-> IF req[c].op = "login" THEN Len(tokens) + 1 ELSE Root(req[c].token)]

\* Mutant: a login goes on to revoke a token as a refresh does.
InsertThenLink(c) ==
  /\ req[c].step = "insert"
  /\ tokens' = Append(tokens, NewToken(c))
  /\ req' = [req EXCEPT ![c] = [@ EXCEPT !.new = Len(tokens) + 1, !.answer = "pair",
                                         !.step = "link"]]
  /\ UNCHANGED <<stored, allRevoked, caught, used>>

\* GenerateTokenPair: INSERT INTO refresh_tokens.
Insert(c) ==
  /\ req[c].step = "insert"
  /\ tokens' = Append(tokens, NewToken(c))
  /\ req' = [req EXCEPT ![c] = [@ EXCEPT !.new = Len(tokens) + 1, !.answer = "pair",
                                         !.step = IF req[c].op = "login" THEN "reply" ELSE "link"]]
  /\ UNCHANGED <<stored, allRevoked, caught, used>>

\* Mutant: the user's newest token is taken for the one just issued.
FindNewest(c) ==
  /\ req[c].step = "link"
  /\ req' = [req EXCEPT ![c].step = "revoke",
               ![c].next = CHOOSE i \in TokenIds :
                             /\ tokens[i].user = User(c)
                             /\ \A j \in TokenIds : tokens[j].user = User(c) => j <= i]
  /\ UNCHANGED <<tokens, stored, allRevoked, caught, used>>

\* FindByTokenHash of the new token, for its id.
FindNew(c) ==
  /\ req[c].step = "link"
  /\ req' = [req EXCEPT ![c] = [@ EXCEPT !.step = "revoke", !.next = req[c].new]]
  /\ UNCHANGED <<tokens, stored, allRevoked, caught, used>>

AfterRevoke(c) == IF req[c].op = "logout" THEN Answer(c, "out") ELSE Go(c, "reply")

\* Mutant: no "revoked_at IS NULL".
RevokeAgain(c) ==
  /\ req[c].step = "revoke"
  /\ AfterRevoke(c)
  /\ tokens' = [tokens EXCEPT ![req[c].token].live = FALSE,
                              ![req[c].token].replacedBy = req[c].next]
  /\ UNCHANGED <<stored, allRevoked, caught, used>>

\* Mutant: a logout leaves the token alone.
RevokeReplacedOnly(c) ==
  /\ req[c].step = "revoke"
  /\ AfterRevoke(c)
  /\ tokens' = IF tokens[req[c].token].live /\ req[c].next # 0
               THEN [tokens EXCEPT ![req[c].token].live = FALSE,
                                   ![req[c].token].replacedBy = req[c].next]
               ELSE tokens
  /\ UNCHANGED <<stored, allRevoked, caught, used>>

\* Revoke: UPDATE ... WHERE id = $1 AND revoked_at IS NULL.
Revoke(c) ==
  /\ req[c].step = "revoke"
  /\ AfterRevoke(c)
  /\ tokens' = IF tokens[req[c].token].live
               THEN [tokens EXCEPT ![req[c].token] = [@ EXCEPT !.live = FALSE,
                                                               !.replacedBy = req[c].next]]
               ELSE tokens
  /\ UNCHANGED <<stored, allRevoked, caught, used>>

\* A refresh of u's that found its token and has not inserted the new one.
AboutToInsert(u) ==
  {d \in Conns : req[d].op = "refresh" /\ req[d].step = "insert" /\ User(d) = u}

RevokeAll(c, ids) ==
  LET u == User(c) IN
  /\ req[c].step \in {"family", "revokeAll"}
  /\ Answer(c, IF req[c].step = "family" THEN "reused" ELSE "out")
  /\ tokens' = [i \in TokenIds |-> IF i \in ids THEN [tokens[i] EXCEPT !.live = FALSE]
                                              ELSE tokens[i]]
  /\ allRevoked' = [allRevoked EXCEPT ![u] = Len(tokens)]
  /\ caught' = [caught EXCEPT ![u] = {Root(req[d].token) : d \in AboutToInsert(u)}]
  /\ UNCHANGED <<stored, used>>

\* Mutant: only the tokens that descend from the same login.
RevokeChain(c) ==
  RevokeAll(c, {i \in TokenIds : req[c].token # 0 /\ Root(i) = Root(req[c].token)})

\* RevokeAllForUser, of a logout of all devices or of revokeTokenFamily.
RevokeAllForUser(c) == RevokeAll(c, {i \in TokenIds : tokens[i].user = User(c)})

\* A statement fails. Any error of the first query is ErrRefreshTokenNotFound
\* to a refresh; an error of INSERT fails the request (the row may be there all
\* the same), as does one of a logout's UPDATE; a refresh drops errors after its
\* INSERT.
Fails(c) ==
  /\ Spend("failures")
  /\ CASE req[c].step = "find" -> Answer(c, IF req[c].op = "refresh" THEN "out" ELSE "error")
       [] req[c].step = "family" -> Answer(c, "reused")
       [] req[c].step \in {"insert", "revokeAll"} -> Answer(c, "error")
       [] req[c].step = "link" -> Go(c, "revoke")
       [] req[c].step = "revoke" ->
            IF req[c].op = "logout" THEN Answer(c, "error") ELSE Go(c, "reply")
       [] OTHER -> FALSE
  /\ tokens' \in {tokens} \cup
       (IF req[c].step = "insert" THEN {Append(tokens, NewToken(c))} ELSE {})
  /\ UNCHANGED <<stored, allRevoked, caught>>

\* expires_at passes.
Expire(i) ==
  /\ Spend("expiries")
  /\ tokens' = [tokens EXCEPT ![i].expired = TRUE]
  /\ UNCHANGED <<req, stored, allRevoked, caught>>

---------------------------------------------------------------------------------

Statement(c) ==
  Find(c) \/ Insert(c) \/ FindNew(c) \/ Revoke(c) \/ RevokeAllForUser(c)

Next ==
  \/ \E c \in Conns : \/ \E d \in Devices : \/ Login(c, d) \/ Refresh(c, d)
                                            \/ Logout(c, d) \/ LogoutAll(c, d)
                      \/ Statement(c) \/ Fails(c) \/ Reply(c) \/ Abort(c)
  \/ \E d \in Devices : KillApp(d)
  \/ \E i \in TokenIds : Expire(i)

Spec == Init /\ [][Next]_vars

---------------------------------------------------------------------------------
(* Properties *)

Token == [user : Users, live : BOOLEAN, replacedBy : Nat, expired : BOOLEAN, root : Nat \ {0}]
Steps == {"idle", "find", "insert", "link", "revoke", "family", "revokeAll", "reply"}
Answers == {"none", "pair", "out", "reused", "error"}
Req == [op : {"none", "login", "refresh", "logout", "all"}, step : Steps,
        device : Devices \cup {"none"}, waiting : BOOLEAN,
        token : Nat, new : Nat, next : Nat, answer : Answers]

\* Every variable keeps its type, and ids are of tokens that exist.
TypeOK ==
  /\ tokens \in Seq(Token)
  /\ \A i \in TokenIds : tokens[i].root <= i /\ tokens[i].replacedBy <= Len(tokens)
  /\ req \in [Conns -> Req]
  /\ \A c \in Conns : req[c].token <= Len(tokens) /\ req[c].new <= Len(tokens)
  /\ stored \in [Devices -> 0 .. Len(tokens)]
  /\ allRevoked \in [Users -> 0 .. Len(tokens)]
  /\ caught \in [Users -> SUBSET TokenIds]
  /\ used \in [Kinds -> Nat] /\ \A k \in Kinds : used[k] <= Bound[k]

\* docs/AUTHENTICATION_FLOW.md, "Moi device co 1 refresh token rieng": whatever
\* the user's other devices do, the token a device keeps is good and no device
\* is told that its token was reused. That takes devices that hear every
\* answer, no failing statement, and no logout of all devices: afterwards the
\* devices that did not hear of it still keep a revoked token.
KeepsItsSession ==
  /\ Never("kills") /\ Never("aborts") /\ Never("failures") /\ Never("alls")
  => /\ \A c \in Conns : req[c].answer # "reused"
     /\ \A d \in Devices : stored[d] # 0 /\ ~Waiting(d) => tokens[stored[d]].live

\* Under the same conditions, logouts of all devices included, no token is left
\* behind: one that could still be used is kept by a device or on its way.
NoTokenLeftBehind ==
  /\ Never("kills") /\ Never("aborts") /\ Never("failures")
  => \A i \in TokenIds :
       tokens[i].live /\ ~tokens[i].expired =>
         \/ \E d \in Devices : stored[d] = i
         \/ \E c \in Conns : req[c].new = i

\* The session that login r began is open while one of its tokens can be used
\* or a refresh that found one is about to insert its successor.
Usable(r) == \E i \in TokenIds : Root(i) = r /\ tokens[i].live /\ ~tokens[i].expired
Renewing(r) ==
  \E c \in Conns : req[c].op = "refresh" /\ req[c].step = "insert" /\ Root(req[c].token) = r
Open(r) == Usable(r) \/ Renewing(r)

\* A token is revoked once: what a logout or another refresh has revoked is not
\* given a successor afterwards, and no token becomes good again. Nor does a
\* session: one that is over is never open again, whatever retries, lost
\* answers and failing statements follow.
RevokedForGood ==
  [][/\ \A i \in TokenIds :
          ~tokens[i].live => /\ ~tokens'[i].live
                             /\ tokens'[i].replacedBy = tokens[i].replacedBy
     /\ \A r \in TokenIds : Open(r)' => Open(r)]_vars

\* replaced_by is the chain of one session: it leads to a later token of the
\* same login, and no two tokens have the same successor, also when a user's
\* devices refresh at the same time.
ChainsAreDisjoint ==
  \A i \in TokenIds : LET n == tokens[i].replacedBy IN
    n # 0 => /\ n > i /\ Root(n) = Root(i)
             /\ \A j \in TokenIds \ {i} : tokens[j].replacedBy # n

\* docs/AUTHENTICATION_FLOW.md, "Khi logout all devices, tat ca refresh tokens
\* deu bi revoke": after it the sessions of earlier logins have no good token.
\* The one exception is a session one of whose refreshes had found its token good
\* when the user's last logout of all devices came, and inserts the new one
\* afterwards: the next logout of all devices reaches that one too.
LogoutAllReachesAll ==
  \A i \in TokenIds :
    tokens[i].live /\ Root(i) <= allRevoked[tokens[i].user] => Root(i) \in caught[tokens[i].user]

(* The inductive invariant. *)

\* A request takes the steps of its kind, and answers with a pair if and only
\* if it has issued a token. What it names as the successor is that token.
RequestsMakeSense ==
  \A c \in Conns : LET r == req[c] IN
    r # NoReq =>
      /\ r.device \in Devices
      /\ \/ r.op = "login" /\ r.token = 0 /\ r.step \in {"insert", "reply"}
         \/ r.op = "refresh" /\ r.token # 0
            /\ r.step \in {"find", "insert", "link", "revoke", "family", "reply"}
         \/ r.op = "logout" /\ r.token # 0 /\ r.step \in {"find", "revoke", "reply"}
         \/ r.op = "all" /\ r.token # 0 /\ r.step \in {"revokeAll", "reply"}
      /\ r.op = "refresh" /\ r.step \in {"link", "revoke"} => r.new # 0
      /\ r.new # 0 => r.op \in {"login", "refresh"} /\ r.step \in {"link", "revoke", "reply"}
      /\ r.answer = "pair" <=> r.new # 0
      /\ r.step = "reply" => r.answer # "none"
      /\ r.next \in {0, r.new}

\* Devices keep, present and are issued tokens of their own account.
TokensHaveOwners ==
  /\ \A d \in Devices : stored[d] # 0 => tokens[stored[d]].user = UserOf[d]
  /\ \A c \in Conns : \A i \in {req[c].token, req[c].new} : i # 0 => tokens[i].user = User(c)

\* What a refresh has issued continues the chain of what it presented, and has
\* no predecessor until it revokes that.
SuccessorsInFlight ==
  \A c \in Conns : req[c].new # 0 =>
    /\ req[c].op = "refresh" =>
         req[c].new > req[c].token /\ Root(req[c].new) = Root(req[c].token)
    /\ req[c].step \in {"link", "revoke"} =>
         \A i \in TokenIds : tokens[i].replacedBy # req[c].new

\* A token is kept by one device or is on its way to one.
OneKeeper ==
  /\ \A c, d \in Conns : c # d /\ req[c].new # 0 => req[c].new # req[d].new
  /\ \A d, e \in Devices : d # e /\ stored[d] # 0 => stored[d] # stored[e]
  /\ \A c \in Conns, d \in Devices : req[c].new # 0 => req[c].new # stored[d]

\* A refresh about to insert found its token good: if its session is older than
\* the user's last revocation of all tokens, that came later and caught it, or
\* had missed the session already.
CaughtInTime ==
  \A c \in Conns :
    req[c].op = "refresh" /\ req[c].step = "insert"
    /\ Root(req[c].token) <= allRevoked[User(c)] => Root(req[c].token) \in caught[User(c)]

\* Every device hears every answer, and no statement fails.
Heard == Never("kills") /\ Never("aborts") /\ Never("failures")

\* Then a device has one request under way, which presents the token it keeps;
\* when it has been answered the token is worth nothing.
AnswersAwaited ==
  Heard =>
    /\ \A c \in Conns : req[c] # NoReq =>
         /\ req[c].waiting /\ req[c].token = stored[req[c].device] /\ req[c].answer # "error"
         /\ req[c].step = "family" => ~tokens[req[c].token].live
         /\ req[c].step = "reply" /\ req[c].op # "login" =>
              ~tokens[req[c].token].live \/ tokens[req[c].token].expired
    /\ \A c, d \in Conns :
         c # d /\ req[c] # NoReq /\ req[d] # NoReq => req[c].device # req[d].device

\* Then, and without a logout of all devices, nothing but the answered request
\* of a device has revoked the token that it keeps.
RevokedByOwner ==
  Heard /\ Never("alls") =>
    /\ \A c \in Conns : /\ req[c].op # "all" /\ req[c].step # "family" /\ req[c].answer # "reused"
                        /\ req[c].new # 0 => tokens[req[c].new].live
    /\ \A d \in Devices :
         stored[d] # 0 => \/ tokens[stored[d]].live
                          \/ \E c \in Conns : req[c].device = d /\ req[c].step = "reply"

SessionsInv ==
  /\ TypeOK /\ RequestsMakeSense /\ TokensHaveOwners
  /\ SuccessorsInFlight /\ ChainsAreDisjoint /\ OneKeeper
  /\ CaughtInTime /\ LogoutAllReachesAll
  /\ AnswersAwaited /\ NoTokenLeftBehind /\ RevokedByOwner
=================================================================================
