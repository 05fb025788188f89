----------------------------- MODULE AuthService -----------------------------
(***************************************************************************)
(* The user module: requests handled concurrently, each by a goroutine     *)
(* that runs one command handler over the users and user_sessions tables.  *)
(* A handler is a sequence of steps, one database statement in each; what  *)
(* it computes between two statements belongs to the step of the earlier   *)
(* one.  Steps of different requests, the clock, the operator's SQL and    *)
(* failures interleave freely.                                             *)
(***************************************************************************)
EXTENDS Tokens, ErrorMapping, FiniteSets

CONSTANTS
  Routes,        \* the routes clients call, a subset of AllRoutes
  Spellings,     \* email addresses as clients write them
  Lower,         \* an address, lower-cased and trimmed
  Unparsable,    \* those the validator lets through and mail.ParseAddress refuses
  Passwords,     \* passwords as clients write them
  First72,       \* the first 72 bytes of a password, all that bcrypt looks at
  InitUsers,     \* the users table at the start
  SessionStore,  \* how FindByJTIHash answers: "postgres" or "contract", see there
  SevenDays,     \* 7*24h, the expiry RefreshToken gives a session
  MaxTime,       \* the bound on the clock
  Faults,        \* whether statements and processes may fail
  Deleted        \* marks the id of a deleted user: no id is handed out twice

AllRoutes == {"register", "login", "refresh", "logout", "verify", "me"}
Requests == Jtis
Lowered == {Lower[e] : e \in Spellings}
LongPasswords == {p \in Passwords : First72[p] # p}
User == [email : Lowered, password : Passwords, verified : BOOLEAN]

ServiceAssumption ==
  /\ Routes \subseteq AllRoutes
  /\ Lower \in [Spellings -> Spellings] /\ \A e \in Spellings : Lower[Lower[e]] = Lower[e]
  /\ First72 \in [Passwords -> Passwords] /\ \A p \in Passwords : First72[First72[p]] = First72[p]
  /\ SessionStore \in {"postgres", "contract"}
  /\ SevenDays \in Nat /\ MaxTime \in Nat /\ Faults \in BOOLEAN
  /\ None \notin User /\ Deleted \notin User /\ None # Deleted
  /\ None \notin AllRoutes /\ None \notin Spellings /\ None \notin Passwords
ASSUME ServiceAssumption

InitUsersAssumption ==
  /\ InitUsers \in [Users -> User \cup {None}]
  /\ \A u, v \in Users : u # v /\ InitUsers[u] # None /\ InitUsers[v] # None
                         => InitUsers[u].email # InitUsers[v].email
ASSUME InitUsersAssumption

(* The first 32 of the 36 characters of the JWT header {"alg":"HS256",     *)
(* "typ":"JWT"}, with which every token of this server begins.             *)
HeaderPrefix == "eyJhbGciOiJIUzI1NiIsInR5cCI6IkpX"

Session == [user : Users, hash : {HeaderPrefix}, expires : Int, revoked : BOOLEAN]
SessionAssumption == None \notin Session
ASSUME SessionAssumption

VARIABLES
  users,     \* table users: a row, None (id not used yet) or Deleted
  sessions,  \* table user_sessions: the row the request saved, or None
  held,      \* the tokens some client has been given
  now,       \* the clock
  pc,        \* the next step of the request's handler
  req,       \* what the client sent, with the caller the middleware found
  uid,       \* local user.ID
  until,     \* local expiry: session.ExpiredAt, then tokenPair.RefreshExpiresAt
  pair,      \* local tokenPair
  reply      \* "none", "ok", the error returned, or "lost": the client never hears

vars == <<users, sessions, held, now, pc, req, uid, until, pair, reply>>
locals == <<uid, until, pair>>

NoRequest == [route |-> None, email |-> None, password |-> None, token |-> None, caller |-> None]

Init ==
  /\ users = InitUsers
  /\ sessions = [r \in Requests |-> None]
  /\ held = {}
  /\ now = 0
  /\ pc = [r \in Requests |-> "idle"]
  /\ req = [r \in Requests |-> NoRequest]
  /\ uid = [r \in Requests |-> None]
  /\ until = [r \in Requests |-> 0]
  /\ pair = [r \in Requests |-> None]
  /\ reply = [r \in Requests |-> "none"]

-----------------------------------------------------------------------------
(* The tables.  The deleted_at column is left out: nothing writes it, and  *)
(* FindByEmail and FindByID, which read into domain.User, ignore it.       *)

Live(u) == u \in Users /\ users[u] \notin {None, Deleted}

FindByEmail(email) ==
  IF \E u \in Users : Live(u) /\ users[u].email = email
    THEN CHOOSE u \in Users : Live(u) /\ users[u].email = email
    ELSE None

FindByID(id) == IF Live(id) THEN id ELSE None

(* The UNIQUE constraint on the email column.                              *)
\* Mutation of EmailFree: the column has no such constraint.
EmailFreeAlways(email) == TRUE
EmailFree(email) == \A u \in Users : Live(u) => users[u].email # email

FreshId == CHOOSE u \in Users : users[u] = None

(* token[:min(32, len(token))], the same for every token.                  *)
hashJTI(token) == HeaderPrefix

\* Mutation of AfterSave: a refresh writes to the row of the session it replaces.
AfterSaveInPlace(r, expires) ==
  [sessions EXCEPT ![IF req[r].route = "refresh" THEN req[r].token.jti ELSE r] =
     [user |-> uid[r], hash |-> hashJTI(pair[r].refresh), expires |-> expires, revoked |-> FALSE]]
AfterSave(r, expires) ==
  [sessions EXCEPT ![r] = [user |-> uid[r], hash |-> hashJTI(pair[r].refresh),
                           expires |-> expires, revoked |-> FALSE]]

(* Revoke: every row with the hash, whoever's and whatever its state.      *)
\* Mutation of AfterRevoke: expired rows are skipped.
AfterRevokeUnexpired(hash) ==
  [q \in Requests |->
     IF sessions[q] # None /\ sessions[q].hash = hash /\ sessions[q].expires > now
       THEN [sessions[q] EXCEPT !.revoked = TRUE] ELSE sessions[q]]
AfterRevoke(hash) ==
  [q \in Requests |->
     IF sessions[q] # None /\ sessions[q].hash = hash
       THEN [sessions[q] EXCEPT !.revoked = TRUE] ELSE sessions[q]]

(* "postgres" is the query of user_session_repository.go on the migrated  *)
(* schema: it names a column, expired_at, that the table does not have, so *)
(* it always fails (and Save leaves a zero time in revoked_at, for which   *)
(* IS NULL would match no row).  "contract" is what the handlers rely on   *)
(* IUserSessionRepository to do: any row with the hash, live at this time. *)
FindByJTIHash(hash) ==
  IF SessionStore = "postgres" THEN {}
  ELSE {q \in Requests : /\ sessions[q] # None /\ sessions[q].hash = hash
                         /\ ~sessions[q].revoked /\ sessions[q].expires > now}

-----------------------------------------------------------------------------
(* How a step ends: on to the next step, or with an answer.                *)

Goto(r, label) == pc' = [pc EXCEPT ![r] = label] /\ UNCHANGED reply
Answer(r, err) == pc' = [pc EXCEPT ![r] = "done"] /\ reply' = [reply EXCEPT ![r] = err]
Step(r, verdict, label) == IF verdict = "ok" THEN Goto(r, label) ELSE Answer(r, verdict)

(* A request comes in: what is checked before the first statement.         *)
Arrive(r, route, request, verdict, label) ==
  /\ pc[r] = "idle" /\ route \in Routes
  /\ req' = [req EXCEPT ![r] = request]
  /\ Step(r, verdict, label)
  /\ UNCHANGED <<users, sessions, held, now, locals>>

(* RequireAuthMiddleware.                                                  *)
RequireAuth(bearer) ==
  IF bearer = None THEN "Unauthenticated"
  ELSE IF ValidateAccessToken(bearer, now) = "SecTokenExpired" THEN "AuthExpired"
  ELSE IF ValidateAccessToken(bearer, now) # "ok" THEN "Unauthenticated"
  ELSE "ok"

(* What clients can send as a token, and in the Authorization header.      *)
Presentable == held \cup {Malformed}
Bearers == Presentable \cup {None}

(* Decode refuses the body, and nothing of it is kept; on a protected route*)
(* the middleware runs first.                                              *)
RejectBody(r) ==
  \E route \in Routes \ {"me"}, err \in {"BadFormat", "BadFields"} :
    /\ route = "logout" => \E bearer \in Bearers : RequireAuth(bearer) = "ok"
    /\ Arrive(r, route, NoRequest, err, "done")

-----------------------------------------------------------------------------
(* POST /v1/auth/register                                                  *)

\* Mutation of NewUser: the address is stored as it was written.
NewUserAsWritten(email) == email
NewUser(email) == Lower[email]
NewUserVerdict(email) == IF email \in Unparsable THEN "EmailInvalid" ELSE "ok"

ArriveRegister(r) ==
  \E email \in Spellings, password \in Passwords :
    Arrive(r, "register",
           [NoRequest EXCEPT !.route = "register", !.email = email, !.password = password],
           NewUserVerdict(email), "register_find")

RegisterVerdict(r) ==
  IF FindByEmail(NewUser(req[r].email)) # None THEN "EmailAlreadyUsed"
  ELSE IF req[r].password \in LongPasswords THEN "PasswordTooLong"
  ELSE "ok"

RegisterFind(r) ==
  /\ pc[r] = "register_find"
  /\ Step(r, RegisterVerdict(r), "register_create")
  /\ UNCHANGED <<users, sessions, held, now, req, locals>>

AfterCreate(r) ==
  [users EXCEPT ![FreshId] = [email |-> NewUser(req[r].email),
                              password |-> First72[req[r].password], verified |-> FALSE]]

\* Mutation of RegisterCreate: on a conflict the insert takes the row over (an upsert).
RegisterUpsert(r) ==
  /\ pc[r] = "register_create" /\ \E u \in Users : users[u] = None
  /\ LET u == IF EmailFree(NewUser(req[r].email)) THEN FreshId
              ELSE FindByEmail(NewUser(req[r].email)) IN
     /\ users' = [users EXCEPT ![u] = [email |-> NewUser(req[r].email),
                     password |-> First72[req[r].password], verified |-> FALSE]]
     /\ uid' = [uid EXCEPT ![r] = u]
  /\ Answer(r, "ok")
  /\ UNCHANGED <<sessions, held, now, req, until, pair>>
\* Mutation of RegisterCreate: on a conflict the insert is tried again.
RegisterRetries(r) ==
  /\ pc[r] = "register_create" /\ \E u \in Users : users[u] = None
  /\ EmailFree(NewUser(req[r].email))
  /\ users' = AfterCreate(r) /\ uid' = [uid EXCEPT ![r] = FreshId] /\ Answer(r, "ok")
  /\ UNCHANGED <<sessions, held, now, req, until, pair>>
\* Mutation of RegisterCreate: on a conflict the handler starts over.
RegisterStartsOver(r) ==
  /\ pc[r] = "register_create" /\ \E u \in Users : users[u] = None
  /\ IF EmailFree(NewUser(req[r].email))
       THEN users' = AfterCreate(r) /\ uid' = [uid EXCEPT ![r] = FreshId] /\ Answer(r, "ok")
       ELSE Goto(r, "register_find") /\ UNCHANGED <<users, uid>>
  /\ UNCHANGED <<sessions, held, now, req, until, pair>>
(* Create: one INSERT, decided by the UNIQUE constraint at that moment.    *)
(* The ids of Users bound the registrations that can succeed.              *)
RegisterCreate(r) ==
  /\ pc[r] = "register_create" /\ \E u \in Users : users[u] = None
  /\ IF EmailFree(NewUser(req[r].email))
       THEN users' = AfterCreate(r) /\ uid' = [uid EXCEPT ![r] = FreshId] /\ Answer(r, "ok")
       ELSE Answer(r, "UniqueViolation") /\ UNCHANGED <<users, uid>>
  /\ UNCHANGED <<sessions, held, now, req, until, pair>>

-----------------------------------------------------------------------------
(* POST /v1/auth/login                                                     *)

ArriveLogin(r) ==
  \E email \in Spellings, password \in Passwords :
    Arrive(r, "login",
           [NoRequest EXCEPT !.route = "login", !.email = email, !.password = password],
           "ok", "login_find")

\* Mutation of LoginVerdict: the verified check comes before the password's.
LoginVerdictSwapped(user, password) ==
  IF user = None THEN "InvalidCredentials"
  ELSE IF ~users[user].verified THEN "EmailNotVerified"
  ELSE IF users[user].password # First72[password] THEN "InvalidCredentials"
  ELSE "ok"
\* Mutation of LoginVerdict: nobody asks whether the address is verified.
LoginVerdictUnverified(user, password) ==
  IF user = None THEN "InvalidCredentials"
  ELSE IF users[user].password # First72[password] THEN "InvalidCredentials"
  ELSE "ok"
LoginVerdict(user, password) ==
  IF user = None THEN "InvalidCredentials"
  ELSE IF users[user].password # First72[password] THEN "InvalidCredentials"
  ELSE IF ~users[user].verified THEN "EmailNotVerified"
  ELSE "ok"

(* The address is looked up as it was written.  On success the handler     *)
(* enters Issue, which first reads the clock for RefreshExpiresAt.         *)
LoginFind(r) ==
  /\ pc[r] = "login_find"
  /\ LET user == FindByEmail(req[r].email)
         verdict == LoginVerdict(user, req[r].password)
     IN  /\ Step(r, verdict, "login_issue")
         /\ uid' = [uid EXCEPT ![r] = user]
         /\ until' = IF verdict = "ok" THEN [until EXCEPT ![r] = now + RefreshTTL] ELSE until
  /\ UNCHANGED <<users, sessions, held, now, req, pair>>

(* The rest of Issue, which reads the clock again to sign; refresh too.    *)
IssuePair(r) ==
  /\ \/ pc[r] = "login_issue" /\ Goto(r, "login_save")
     \/ pc[r] = "refresh_issue" /\ Goto(r, "refresh_save")
  /\ pair' = [pair EXCEPT ![r] = Issue(uid[r], r, now)]
  /\ UNCHANGED <<users, sessions, held, now, req, uid, until>>

\* Mutation of SaveAccepted: user_sessions.user_id is no foreign key.
SaveAcceptedAlways(r) == uid[r] \in Users
SaveAccepted(r) == Live(uid[r])

(* Save, then the pair goes to the client.                                 *)
SaveSession(r, expires) ==
  /\ IF SaveAccepted(r)
       THEN /\ sessions' = AfterSave(r, expires)
            /\ held' = held \cup {pair[r].access, pair[r].refresh}
            /\ Answer(r, "ok")
       ELSE Answer(r, "ForeignKeyViolation") /\ UNCHANGED <<sessions, held>>
  /\ UNCHANGED <<users, now, req, locals>>

\* Mutation of LoginSave: the expiry is computed from the clock at the save.
LoginSaveLate(r) == pc[r] = "login_save" /\ SaveSession(r, now + RefreshTTL)
LoginSave(r) == pc[r] = "login_save" /\ SaveSession(r, until[r])

-----------------------------------------------------------------------------
(* POST /v1/auth/refresh                                                   *)

RefreshAdmission(token) ==
  IF ValidateRefreshToken(token, now) = "SecTokenExpired" THEN "TokenExpired"
  ELSE IF ValidateRefreshToken(token, now) # "ok" THEN "TokenInvalid"
  ELSE "ok"

ArriveRefresh(r) ==
  \E token \in Presentable :
    Arrive(r, "refresh", [NoRequest EXCEPT !.route = "refresh", !.token = token],
           RefreshAdmission(token), "refresh_find")

(* Any error of the query, no row included, is reported as TokenInvalid.   *)
(* First takes the lowest id: the model lets it be any match.              *)
RefreshFind(r) ==
  /\ pc[r] = "refresh_find"
  /\ LET found == FindByJTIHash(hashJTI(req[r].token)) IN
     IF found = {}
       THEN Answer(r, "TokenInvalid") /\ UNCHANGED until
       ELSE /\ Goto(r, "refresh_user")
            /\ \E q \in found : until' = [until EXCEPT ![r] = sessions[q].expires]
  /\ UNCHANGED <<users, sessions, held, now, req, uid, pair>>

(* The session row was not revoked when it was read, so only its expiry is *)
(* looked at again; the row's user is never compared with the token's.     *)
RefreshVerdict(r) ==
  IF until[r] < now THEN "TokenExpired"
  ELSE IF FindByID(req[r].token.user) = None THEN "TokenInvalid"
  ELSE IF ~users[req[r].token.user].verified THEN "EmailNotVerified"
  ELSE "ok"

\* Mutation of RefreshUser: the user is the session row's, not the token's.
RefreshUserOfRow(r) ==
  /\ pc[r] = "refresh_user"
  /\ Step(r, RefreshVerdict(r), "refresh_revoke")
  /\ \E q \in FindByJTIHash(hashJTI(req[r].token)) : uid' = [uid EXCEPT ![r] = sessions[q].user]
  /\ UNCHANGED <<users, sessions, held, now, req, until, pair>>
RefreshUser(r) ==
  /\ pc[r] = "refresh_user"
  /\ Step(r, RefreshVerdict(r), "refresh_revoke")
  /\ uid' = [uid EXCEPT ![r] = req[r].token.user]
  /\ UNCHANGED <<users, sessions, held, now, req, until, pair>>

\* Mutation of RefreshRevoke: the old session stays open beside the new one.
RefreshKeepsOld(r) ==
  /\ pc[r] = "refresh_revoke" /\ Goto(r, "refresh_issue")
  /\ UNCHANGED <<users, sessions, held, now, req, locals>>
RefreshRevoke(r) ==
  /\ pc[r] = "refresh_revoke"
  /\ sessions' = AfterRevoke(hashJTI(req[r].token))
  /\ Goto(r, "refresh_issue")
  /\ UNCHANGED <<users, held, now, req, locals>>

RefreshSave(r) == pc[r] = "refresh_save" /\ SaveSession(r, now + SevenDays)

-----------------------------------------------------------------------------
(* POST /v1/auth/logout                                                    *)

\* Mutation of LogoutVerdict: the token may belong to somebody else.
LogoutVerdictAnyones(caller, token) == ValidateRefreshToken(token, now)
LogoutVerdict(caller, token) ==
  IF ValidateRefreshToken(token, now) # "ok" THEN ValidateRefreshToken(token, now)
  ELSE IF token.user # caller THEN "Unauthorized"
  ELSE "ok"

ArriveLogout(r) ==
  \E token \in Presentable, bearer \in Bearers :
    IF RequireAuth(bearer) # "ok"
      THEN Arrive(r, "logout", NoRequest, RequireAuth(bearer), "done")
      ELSE Arrive(r, "logout",
                  [NoRequest EXCEPT !.route = "logout", !.token = token, !.caller = bearer.user],
                  LogoutVerdict(bearer.user, token), "logout_revoke")

LogoutRevoke(r) ==
  /\ pc[r] = "logout_revoke"
  /\ sessions' = AfterRevoke(hashJTI(req[r].token))
  /\ Answer(r, "ok")
  /\ UNCHANGED <<users, held, now, req, locals>>

-----------------------------------------------------------------------------
(* POST /v1/auth/verify-email: the handler first accepts access tokens     *)
(* only, then refuses every token that is not a verify_email one.  What    *)
(* follows in the code (FindByID, MarkVerified) is never reached; that the *)
(* verdict is never "ok" is a theorem of AuthServiceProofs.                *)

VerifyVerdict(token) ==
  IF ValidateAccessToken(token, now) = "SecTokenExpired" THEN "TokenExpired"
  ELSE IF ValidateAccessToken(token, now) # "ok" THEN "TokenInvalid"
  ELSE IF token.typ # "verify_email" THEN "TokenInvalid"
  ELSE "ok"

ArriveVerify(r) ==
  \E token \in Presentable :
    Arrive(r, "verify", [NoRequest EXCEPT !.route = "verify", !.token = token],
           VerifyVerdict(token), "done")

(* GET /v1/auth/me                                                         *)

ArriveMe(r) ==
  \E bearer \in Bearers :
    IF RequireAuth(bearer) # "ok"
      THEN Arrive(r, "me", NoRequest, RequireAuth(bearer), "done")
      ELSE Arrive(r, "me", [NoRequest EXCEPT !.route = "me", !.caller = bearer.user],
                  "ok", "me_find")

MeFind(r) ==
  /\ pc[r] = "me_find"
  /\ Answer(r, IF FindByID(req[r].caller) = None THEN "UserNotFound" ELSE "ok")
  /\ UNCHANGED <<users, sessions, held, now, req, locals>>

-----------------------------------------------------------------------------
(* What goes wrong.  A statement under way fails, having taken effect or   *)
(* not, or Issue does (a TTL does not parse, there is no secret), and the  *)
(* handler returns the error; or the process dies, or the client is gone,  *)
(* and no answer arrives.  Nothing lives in memory between requests, so a  *)
(* restart is the loss of the requests under way.                          *)

FailureReply(r) == IF pc[r] = "refresh_find" THEN "TokenInvalid" ELSE "Database"

UsersAfter(r) ==
  IF pc[r] = "register_create" /\ EmailFree(NewUser(req[r].email)) THEN AfterCreate(r) ELSE users

SessionsAfter(r) ==
  CASE pc[r] \in {"logout_revoke", "refresh_revoke"} -> AfterRevoke(hashJTI(req[r].token))
    [] pc[r] = "login_save" /\ SaveAccepted(r) -> AfterSave(r, until[r])
    [] pc[r] = "refresh_save" /\ SaveAccepted(r) -> AfterSave(r, now + SevenDays)
    [] OTHER -> sessions

Interrupted(r) ==
  /\ Faults /\ pc[r] \notin {"idle", "done"}
  /\ \E err \in {"lost", FailureReply(r)} : Answer(r, err)
  /\ \/ UNCHANGED <<users, sessions>>
     \/ /\ pc[r] = "register_create" => \E u \in Users : users[u] = None
        /\ users' = UsersAfter(r) /\ sessions' = SessionsAfter(r)
  /\ UNCHANGED <<held, now, req, locals>>

-----------------------------------------------------------------------------
(* Outside the process: the clock, the operator's SQL, the mail.           *)

Tick == now < MaxTime /\ now' = now + 1
        /\ UNCHANGED <<users, sessions, held, pc, req, locals, reply>>

(* An address is verified by hand, as no handler can do it.                *)
OperatorVerifies(u) ==
  /\ Live(u) /\ ~users[u].verified
  /\ users' = [users EXCEPT ![u].verified = TRUE]
  /\ UNCHANGED <<sessions, held, now, pc, req, locals, reply>>

(* A user's row is deleted, its sessions with it (ON DELETE CASCADE).      *)
OperatorDeletes(u) ==
  /\ Live(u)
  /\ users' = [users EXCEPT ![u] = Deleted]
  /\ sessions' = [q \in Requests |->
                    IF sessions[q] # None /\ sessions[q].user = u THEN None ELSE sessions[q]]
  /\ UNCHANGED <<held, now, pc, req, locals, reply>>

(* The verification mail: src mints the token, nothing in src sends it.    *)
(* Left out where no client would present it, to bound held.               *)
SendVerification(u) ==
  /\ "verify" \in Routes /\ Live(u) /\ ~users[u].verified
  /\ held' = held \cup {GenerateVerifyEmailToken(u, now)}
  /\ UNCHANGED <<users, sessions, now, pc, req, locals, reply>>

(* Every request has been answered: the server idles.                      *)
Idle == (\A r \in Requests : pc[r] = "done") /\ UNCHANGED vars

-----------------------------------------------------------------------------
Client(r) ==
  \/ RejectBody(r) \/ ArriveRegister(r) \/ ArriveLogin(r) \/ ArriveRefresh(r)
  \/ ArriveLogout(r) \/ ArriveVerify(r) \/ ArriveMe(r)

Server(r) ==
  \/ RegisterFind(r) \/ RegisterCreate(r)
  \/ LoginFind(r) \/ IssuePair(r) \/ LoginSave(r)
  \/ RefreshFind(r) \/ RefreshUser(r) \/ RefreshRevoke(r) \/ RefreshSave(r)
  \/ LogoutRevoke(r) \/ MeFind(r)

Outside(u) == OperatorVerifies(u) \/ OperatorDeletes(u) \/ SendVerification(u)

Next ==
  \/ \E r \in Requests : Client(r) \/ Server(r) \/ Interrupted(r)
  \/ \E u \in Users : Outside(u)
  \/ Tick \/ Idle

Spec == Init /\ [][Next]_vars

(* A goroutine whose statement has returned goes on, and statements return:*)
(* net/http gives each request its own goroutine and no handler blocks.    *)
(* Nothing is promised of clients, of failures or of the operator.         *)
FairSpec == Spec /\ \A r \in Requests : WF_vars(Server(r))
=============================================================================
