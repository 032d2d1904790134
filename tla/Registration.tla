------------------------------- MODULE Registration -------------------------------
(***************************************************************************)
(* Registering an account (handler/auth.go, service/user.go,               *)
(* service/media.go, repository/user.go): the avatar goes to the object    *)
(* store, the username is looked up, the password is hashed and the row is *)
(* inserted, with everybody else in between. Nothing spans these steps: a  *)
(* name that was free may be taken at the INSERT, and what was uploaded    *)
(* stays when the registration fails.                                      *)
(*                                                                         *)
(* A client whose answer does not come repeats its request. The object of  *)
(* a request has the request's number for its key.                         *)
(***************************************************************************)
EXTENDS Integers, FiniteSets

CONSTANTS
  Clients,      \* people
  Names,        \* usernames
  MaxRequests,  \* bound: requests ever made
  MaxFailures   \* bound: failing calls and crashes

ASSUME BoundsAssumption == MaxRequests \in Nat /\ MaxFailures \in Nat

VARIABLES
  config,   \* which of DEFAULT_AVATAR_URL and DEFAULT_AVATAR_KEY are set
  users,    \* the users table: the row of each name
  bucket,   \* keys of the stored avatars
  req,      \* the requests
  failures  \* failing calls and crashes so far

vars == <<config, users, bucket, req, failures>>

Requests == 1 .. MaxRequests
DefaultKey == 0
Steps == {"none", "upload", "check", "insert", "ended"}
Answers == {"none", "201", "400", "409", "500"}

\* by: the request that inserted the row, 0 for none. key: whose avatar_url and
\* avatar_key it has, both being NOT NULL.
NoRow == [by |-> 0, key |-> DefaultKey, isNew |-> FALSE]

\* avatar: which of avatar_url and avatar_key the INSERT will be given.
\* told: the answer its client heard. waiting: the client is still there.
NoRequest == [step |-> "none", client |-> "none", name |-> "none", avatar |-> {},
              key |-> DefaultKey, waiting |-> FALSE, told |-> "none"]

Taken(n) == users[n].by # 0
Running(r) == req[r].step \notin {"none", "ended"}

Init ==
  /\ config \in SUBSET {"url", "key"}
  /\ users = [n \in Names |-> NoRow]
  /\ bucket = {}
  /\ req = [r \in Requests |-> NoRequest]
  /\ failures = 0

---------------------------------------------------------------------------------

Ended(q, code) ==
  [q EXCEPT !.step = "ended", !.waiting = FALSE,
            !.told = IF q.waiting THEN code ELSE "none"]

Answer(r, code) == req' = [req EXCEPT ![r] = Ended(@, code)]

Proceed(r, step) == req' = [req EXCEPT ![r].step = step]

\* A call fails: by itself, or because its client is gone, which cancels the
\* request's context. A call that writes may have done so all the same.
CallFails(r) ==
  IF req[r].waiting THEN failures < MaxFailures /\ failures' = failures + 1
                    ELSE UNCHANGED failures

Images == {"none", "good", "unsuitable", "broken"}

\* Mutant: half a default avatar is taken as it is.
ReceivedHalf(q, image) ==
  CASE image = "good" -> [q EXCEPT !.step = "upload"]
    [] image = "unsuitable" -> Ended(q, "400")
    [] image = "broken" -> Ended(q, "500")
    [] image = "none" -> [q EXCEPT !.step = "check", !.avatar = config]

\* What the handler does with the form: an image is uploaded, one of a wrong
\* type or size refused, and one that cannot be decoded is an error. Without one
\* the default avatar is taken as far as it is configured, and the service
\* refuses half of it.
Received(q, image) ==
  CASE image = "good" -> [q EXCEPT !.step = "upload"]
    [] image = "unsuitable" -> Ended(q, "400")
    [] image = "broken" -> Ended(q, "500")
    [] image = "none" /\ Cardinality(config) = 1 -> Ended(q, "500")
    [] OTHER -> [q EXCEPT !.step = "check", !.avatar = config]

\* POST /auth/register. A client makes one request at a time, and none when
\* it was told that it has its account.
Register(r) ==
  \E c \in Clients, n \in Names, image \in Images :
    /\ req[r] = NoRequest /\ \A s \in 1 .. r - 1 : req[s] # NoRequest
    /\ \A s \in Requests : req[s].client = c => ~req[s].waiting /\ req[s].told # "201"
    /\ req' = [req EXCEPT ![r] = Received([NoRequest EXCEPT !.client = c, !.name = n,
                                                            !.waiting = TRUE], image)]
    /\ UNCHANGED <<config, users, bucket, failures>>

\* Mutant: a failed upload is only logged.
UploadAvatarAnyway(r) ==
  /\ req[r].step = "upload"
  /\ req' = [req EXCEPT ![r].step = "check", ![r].avatar = {"url", "key"}, ![r].key = r]
  /\ \/ bucket' = bucket \cup {r} /\ UNCHANGED failures
     \/ CallFails(r) /\ UNCHANGED bucket
  /\ UNCHANGED <<config, users>>

\* MediaService.UploadAvatar: a PUT under a new key.
UploadAvatar(r) ==
  /\ req[r].step = "upload"
  /\ \/ /\ bucket' = bucket \cup {r}
        /\ req' = [req EXCEPT ![r].step = "check", ![r].avatar = {"url", "key"}, ![r].key = r]
        /\ UNCHANGED failures
     \/ /\ CallFails(r)
        /\ bucket' \in {bucket, bucket \cup {r}}
        /\ Answer(r, "500")
  /\ UNCHANGED <<config, users>>

\* UserService.Register: is the name taken? Then the password is hashed, which
\* fails if it is too long.
ExistsByUsername(r) ==
  /\ req[r].step = "check"
  /\ \/ Taken(req[r].name) /\ Answer(r, "409") /\ UNCHANGED failures
     \/ ~Taken(req[r].name) /\ Proceed(r, "insert") /\ UNCHANGED failures
     \/ CallFails(r) /\ Answer(r, "500")
  /\ UNCHANGED <<config, users, bucket>>

RowOf(r) == [by |-> r, key |-> req[r].key, isNew |-> TRUE]

\* Mutant: without a unique index the name is as free as it was.
CreateUnchecked(r) ==
  /\ req[r].step = "insert"
  /\ users' = [users EXCEPT ![req[r].name] = RowOf(r)]
  /\ Answer(r, "201")
  /\ UNCHANGED <<config, bucket, failures>>

\* The table refuses a row whose name is taken (unique index) or whose avatar is
\* missing (migrations/000005: avatar_url and avatar_key are NOT NULL, and a nil
\* pointer is inserted as NULL).
Refused(r) == Taken(req[r].name) \/ req[r].avatar # {"url", "key"}

\* userRepository.Create: the table decides. Its error is told as an internal
\* one.
Create(r) ==
  LET n == req[r].name
  IN /\ req[r].step = "insert"
     /\ \/ /\ ~Refused(r)
           /\ users' = [users EXCEPT ![n] = RowOf(r)]
           /\ \/ Answer(r, "201") /\ UNCHANGED failures
              \/ Answer(r, "500") /\ CallFails(r)
        \/ /\ Refused(r) /\ UNCHANGED <<users, failures>>
           /\ Answer(r, "500")
        \/ /\ CallFails(r) /\ UNCHANGED users
           /\ Answer(r, "500")
     /\ UNCHANGED <<config, bucket>>

\* The client stops waiting: a timeout, a lost connection, a closed app.
GiveUp(r) ==
  /\ Running(r) /\ req[r].waiting
  /\ req' = [req EXCEPT ![r].waiting = FALSE]
  /\ UNCHANGED <<config, users, bucket, failures>>

\* The process dies: no request is answered.
Crash ==
  /\ \E r \in Requests : Running(r)
  /\ failures < MaxFailures /\ failures' = failures + 1
  /\ req' = [r \in Requests |->
               IF Running(r) THEN Ended([req[r] EXCEPT !.waiting = FALSE], "none") ELSE req[r]]
  /\ UNCHANGED <<config, users, bucket>>

\* UserService.CompleteOnboarding, for an account that exists.
CompleteOnboarding(n) ==
  /\ Taken(n) /\ users[n].isNew
  /\ users' = [users EXCEPT ![n].isNew = FALSE]
  /\ UNCHANGED <<config, bucket, req, failures>>

Step(r) == UploadAvatar(r) \/ ExistsByUsername(r) \/ Create(r)

Next ==
  \/ \E r \in Requests : Register(r) \/ Step(r) \/ GiveUp(r)
  \/ Crash
  \/ \E n \in Names : CompleteOnboarding(n)

Spec == Init /\ [][Next]_vars

---------------------------------------------------------------------------------
(* Properties *)

Request == [step : Steps, client : Clients \cup {"none"}, name : Names \cup {"none"},
            avatar : SUBSET {"url", "key"}, key : Requests \cup {DefaultKey},
            waiting : BOOLEAN, told : Answers]

Row == [by : Requests \cup {0}, key : Requests \cup {DefaultKey}, isNew : BOOLEAN]

\* Every variable keeps its type, and a request in progress has a name.
TypeOK ==
  /\ config \subseteq {"url", "key"}
  /\ users \in [Names -> Row] /\ bucket \subseteq Requests
  /\ req \in [Requests -> Request] /\ failures \in 0 .. MaxFailures
  /\ \A r \in Requests : req[r].step # "none" => req[r].name \in Names /\ req[r].client \in Clients

Owner(n) == req[users[n].by].client

\* What clients were told of a name stays true, whoever else asked for it at
\* the same time and whatever failed in between: 201, and the account is the
\* client's; 409, and it is somebody else's, or the client's own from a request
\* whose success it did not hear; 400 and 409, and nothing came of the request.
AnswersHold ==
  \A r \in Requests :
    LET n == req[r].name
    IN /\ req[r].told = "201" => users[n].by = r
       /\ req[r].told = "409" =>
            /\ Taken(n)
            /\ Owner(n) = req[r].client => req[users[n].by].told \in {"none", "500"}
       /\ req[r].told \in {"400", "409"} => \A m \in Names : users[m].by # r

\* An account has the image its client sent with the request that made it, and
\* the bucket has that image; without one it has the default avatar, of which
\* then URL and key are configured. No account is made without an avatar or with
\* the image of a retry, although the upload and the row are two steps of which
\* either may fail.
AvatarsWhole ==
  \A n \in Names : Taken(n) =>
    LET r == users[n].by
    IN /\ users[n].key = IF r \in bucket THEN r ELSE DefaultKey
       /\ users[n].key = DefaultKey => config = {"url", "key"}

\* A row was inserted by a request for its name that has ended and was not
\* refused.
RowsHaveRequests ==
  \A n \in Names : Taken(n) =>
    /\ users[n].by \in Requests /\ req[users[n].by].name = n
    /\ req[users[n].by].step = "ended" /\ req[users[n].by].told \in {"none", "500", "201"}

\* A request that is past its upload names what it has in the bucket, and
\* otherwise the default avatar as far as it is configured.
RequestsInOrder ==
  \A r \in Requests :
    /\ req[r].step # "ended" => req[r].told = "none"
    /\ req[r].waiting => Running(r)
    /\ req[r].step \in {"none", "upload"} => r \notin bucket
    /\ req[r].step \in {"check", "insert"} =>
         /\ req[r].key = IF r \in bucket THEN r ELSE DefaultKey
         /\ req[r].avatar = IF r \in bucket THEN {"url", "key"} ELSE config
         /\ req[r].avatar \in {{}, {"url", "key"}}

\* A client who waits for an answer does so once and was told of no success.
OneAtATime ==
  \A r, s \in Requests :
    r # s /\ req[r].client = req[s].client /\ req[r].waiting =>
      ~req[s].waiting /\ req[s].told # "201"

\* What carries AnswersHold and AvatarsWhole from step to step.
RegistrationInv ==
  /\ TypeOK /\ RowsHaveRequests /\ RequestsInOrder /\ OneAtATime
  /\ AnswersHold /\ AvatarsWhole
=================================================================================
