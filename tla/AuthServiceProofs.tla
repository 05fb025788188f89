------------------------- MODULE AuthServiceProofs -------------------------
(***************************************************************************)
(* The type invariant of the user module, for every number of requests,    *)
(* users and addresses, with what a handler holds at each of its steps.    *)
(***************************************************************************)
EXTENDS AuthProperties, TLAPS

Verdicts == Errors \cup {"ok"}

RegisterLabels == {"register_find", "register_create"}
LoginLabels == {"login_find", "login_issue", "login_save"}
RefreshLabels == {"refresh_find", "refresh_user", "refresh_revoke", "refresh_issue", "refresh_save"}

(* What the checks made on arrival leave a handler that stands at label.   *)
Ready(label, q) ==
  /\ label \in RegisterLabels =>
       q.route = "register" /\ q.email \in Spellings /\ q.password \in Passwords
  /\ label \in LoginLabels =>
       q.route = "login" /\ q.email \in Spellings /\ q.password \in Passwords
  /\ label \in RefreshLabels =>
       q.route = "refresh" /\ q.token \in held /\ q.token.typ = "refresh"
  /\ label = "logout_revoke" =>
       /\ q.route = "logout" /\ q.token \in held /\ q.token.typ = "refresh"
       /\ q.token.user = q.caller
  /\ label = "me_find" => q.route = "me" /\ q.caller \in Users

(* A request that came in and was let through, or was refused at the door. *)
ArrivesReady(r) ==
  /\ pc[r] = "idle"
  /\ \E q \in Request, verdict \in Verdicts, label \in Labels \ {"idle"} :
       /\ req' = [req EXCEPT ![r] = q]
       /\ Step(r, verdict, label)
       /\ verdict = "ok" => label # "done" /\ Ready(label, q)
                            /\ label \in {"register_find", "login_find", "refresh_find",
                                          "logout_revoke", "me_find"}
       /\ q.route = "login" => verdict = "ok"
  /\ UNCHANGED <<users, sessions, held, now, locals>>

(* A handler past Issue holds a pair for its user, with a refresh token     *)
(* that carries the request's own jti.                                     *)
IssueLabels == {"login_issue", "refresh_revoke", "refresh_issue"}
SaveLabels == {"login_save", "refresh_save"}
PairReady(r) ==
  /\ pair[r] \in TokenPair
  /\ pair[r].access.typ = "access" /\ pair[r].access.user = uid[r]
  /\ pair[r].refresh.typ = "refresh" /\ pair[r].refresh.user = uid[r]
  /\ pair[r].refresh.jti = r

Handlers ==
  /\ \A r \in Requests : Ready(pc[r], req[r])
  /\ \A r \in Requests : pc[r] \in IssueLabels \cup SaveLabels => uid[r] \in Users
  /\ \A r \in Requests : pc[r] \in SaveLabels => PairReady(r)

(* TypeOK is not inductive: what the handlers' locals hold is needed.      *)
TypeInv == TypeOK /\ Handlers

-----------------------------------------------------------------------------
LEMMA ErrorNames ==
  /\ {"BadFormat", "BadFields", "Unauthenticated", "AuthExpired"} \subseteq Errors
  /\ {"SecTokenExpired", "SecTokenInvalid", "InvalidCredentials", "EmailAlreadyUsed",
      "EmailNotVerified", "EmailInvalid", "TokenExpired", "TokenInvalid", "UserNotFound",
      "Unauthorized"} \subseteq Errors
  /\ {"Database", "UniqueViolation", "ForeignKeyViolation", "PasswordTooLong"} \subseteq Errors
  /\ {"none", "ok", "lost"} \cap Errors = {}
BY DEF Errors, AppErrors, Registry, Unregistered

(* The exp of a token is less than a second before the time it is made of. *)
LEMMA Truncation ==
  ASSUME NEW t \in Int
  PROVE  /\ Truncated(t) \in Int /\ Truncated(t) <= t /\ t < Truncated(t) + Second
<1>1. Second \in Int /\ Second > 0
  BY SecondAssumption DEF SecondAssumption
<1>2. t % Second \in Int /\ 0 <= t % Second /\ t % Second < Second
  BY <1>1
<1> QED BY <1>1, <1>2 DEF Truncated

LEMMA IssueTypes ==
  ASSUME NEW u \in Users, NEW r \in Requests, NEW at \in Int
  PROVE  /\ Issue(u, r, at) \in TokenPair
         /\ Issue(u, r, at).access.typ = "access" /\ Issue(u, r, at).access.user = u
         /\ Issue(u, r, at).refresh.typ = "refresh" /\ Issue(u, r, at).refresh.user = u
         /\ Issue(u, r, at).refresh.jti = r /\ Issue(u, r, at).refresh.exp = Truncated(at + RefreshTTL)
<1> DEFINE access == [typ |-> "access", user |-> u, exp |-> Truncated(at + AccessTTL), jti |-> None]
           refresh == [typ |-> "refresh", user |-> u, exp |-> Truncated(at + RefreshTTL), jti |-> r]
<1>1. Issue(u, r, at) = [access |-> access, refresh |-> refresh]
  BY DEF Issue, GenerateToken, GenerateRefreshToken, sign
<1>a. Truncated(at + AccessTTL) \in Int /\ Truncated(at + RefreshTTL) \in Int
  BY TTLAssumption, Truncation DEF TTLAssumption
<1>2. access \in Token
  <2>1. \A e \in Int : [typ |-> "access", user |-> u, exp |-> e, jti |-> None] \in Token
    BY DEF Token, TokenTypes
  <2> QED BY <2>1, <1>a
<1>3. refresh \in Token
  <2>1. \A e \in Int : [typ |-> "refresh", user |-> u, exp |-> e, jti |-> r] \in Token
    BY DEF Token, TokenTypes, Requests
  <2> QED BY <2>1, <1>a
<1>4. access.typ = "access" /\ access.user = u
  OBVIOUS
<1>5. refresh.typ = "refresh" /\ refresh.user = u /\ refresh.jti = r
      /\ refresh.exp = Truncated(at + RefreshTTL)
  OBVIOUS
<1> HIDE DEF access, refresh
<1> QED BY <1>1, <1>2, <1>3, <1>4, <1>5 DEF TokenPair

(* The verification route refuses every token: what it accepts first is an *)
(* access token, and then it refuses whatever is not a verification token  *)
(* (verify_email.go 32-42).                                                *)
THEOREM VerifyNeverAccepts == \A token : VerifyVerdict(token) # "ok"
BY DEF VerifyVerdict, ValidateAccessToken, validateTyped, ValidateToken

LEMMA VerdictTypes ==
  ASSUME NEW token, NEW caller
  PROVE  /\ VerifyVerdict(token) \in Verdicts
         /\ RequireAuth(token) \in Verdicts
         /\ RefreshAdmission(token) \in Verdicts
         /\ LogoutVerdict(caller, token) \in Verdicts
BY ErrorNames
DEF Verdicts, VerifyVerdict, RequireAuth, RefreshAdmission, LogoutVerdict,
    ValidateAccessToken, ValidateRefreshToken, validateTyped, ValidateToken

LEMMA RefreshAccepts ==
  ASSUME NEW token, ValidateRefreshToken(token, now) = "ok"
  PROVE  token # Malformed /\ token.typ = "refresh"
BY DEF ValidateRefreshToken, validateTyped, ValidateToken

LEMMA BearerAccepts ==
  ASSUME TypeOK, NEW bearer \in Bearers, RequireAuth(bearer) = "ok"
  PROVE  bearer \in held /\ bearer.user \in Users
BY DEF Bearers, Presentable, RequireAuth, ValidateAccessToken, validateTyped, ValidateToken,
       TypeOK, Token

LEMMA NoRequestTypes == NoRequest \in Request /\ NoRequest.route # "login"
BY ServiceAssumption DEF NoRequest, Request, ServiceAssumption, AllRoutes

(* Every route's arrival is of the one shape the invariants look at.       *)
LEMMA ArrivalShape ==
  ASSUME TypeOK, NEW r \in Requests, Client(r)
  PROVE  ArrivesReady(r)
<1> USE DEF Arrive
<1>1. CASE RejectBody(r)
  <2>1. PICK route \in Routes, err \in {"BadFormat", "BadFields"} :
              Arrive(r, route, NoRequest, err, "done")
    BY <1>1 DEF RejectBody
  <2>2. /\ NoRequest \in Request /\ NoRequest.route # "login"
        /\ err \in Verdicts /\ err # "ok"
    BY ErrorNames, NoRequestTypes DEF Verdicts
  <2> QED BY <2>1, <2>2 DEF ArrivesReady, Labels
<1>2. CASE ArriveRegister(r)
  <2>1. PICK email \in Spellings, password \in Passwords :
              Arrive(r, "register",
                [NoRequest EXCEPT !.route = "register", !.email = email, !.password = password],
                NewUserVerdict(email), "register_find")
    BY <1>2 DEF ArriveRegister
  <2> DEFINE q == [NoRequest EXCEPT !.route = "register", !.email = email, !.password = password]
  <2>2. q \in Request /\ q.route = "register" /\ Ready("register_find", q)
    BY <2>1 DEF NoRequest, Request, Ready, RegisterLabels, LoginLabels, RefreshLabels
  <2>3. NewUserVerdict(email) \in Verdicts
    BY ErrorNames DEF NewUserVerdict, Verdicts
  <2> HIDE DEF q
  <2> QED BY <2>1, <2>2, <2>3 DEF ArrivesReady, Labels, q
<1>3. CASE ArriveLogin(r)
  <2>1. PICK email \in Spellings, password \in Passwords :
              Arrive(r, "login",
                [NoRequest EXCEPT !.route = "login", !.email = email, !.password = password],
                "ok", "login_find")
    BY <1>3 DEF ArriveLogin
  <2> DEFINE q == [NoRequest EXCEPT !.route = "login", !.email = email, !.password = password]
  <2>2. q \in Request /\ Ready("login_find", q)
    BY <2>1 DEF NoRequest, Request, Ready, RegisterLabels, LoginLabels, RefreshLabels
  <2> QED BY <2>1, <2>2 DEF ArrivesReady, Labels, Verdicts
<1>4. CASE ArriveRefresh(r)
  <2>1. PICK token \in Presentable :
              Arrive(r, "refresh", [NoRequest EXCEPT !.route = "refresh", !.token = token],
                     RefreshAdmission(token), "refresh_find")
    BY <1>4 DEF ArriveRefresh
  <2> DEFINE q == [NoRequest EXCEPT !.route = "refresh", !.token = token]
  <2>2. q \in Request /\ q.route = "refresh"
    BY <2>1 DEF NoRequest, Request, Presentable, TypeOK
  <2>3. ASSUME RefreshAdmission(token) = "ok" PROVE Ready("refresh_find", q)
    <3>1. token \in held /\ token.typ = "refresh"
      BY <2>1, <2>3, RefreshAccepts DEF RefreshAdmission, Presentable
    <3> QED BY <3>1 DEF NoRequest, Ready, RegisterLabels, LoginLabels, RefreshLabels
  <2> HIDE DEF q
  <2> QED BY <2>1, <2>2, <2>3, VerdictTypes DEF ArrivesReady, Labels, q
<1>5. CASE ArriveLogout(r)
  <2>1. PICK token \in Presentable, bearer \in Bearers :
          IF RequireAuth(bearer) # "ok"
            THEN Arrive(r, "logout", NoRequest, RequireAuth(bearer), "done")
            ELSE Arrive(r, "logout",
                   [NoRequest EXCEPT !.route = "logout", !.token = token, !.caller = bearer.user],
                   LogoutVerdict(bearer.user, token), "logout_revoke")
    BY <1>5 DEF ArriveLogout
  <2>2. CASE RequireAuth(bearer) # "ok"
    BY <2>1, <2>2, VerdictTypes, NoRequestTypes DEF ArrivesReady, Labels
  <2>3. CASE RequireAuth(bearer) = "ok"
    <3> DEFINE q == [NoRequest EXCEPT !.route = "logout", !.token = token, !.caller = bearer.user]
    <3>1. bearer.user \in Users
      BY <2>1, <2>3, BearerAccepts
    <3>2. q \in Request /\ q.route = "logout"
      BY <2>1, <2>3, <3>1, VerdictTypes DEF NoRequest, Request, Presentable, TypeOK
    <3>3. ASSUME LogoutVerdict(bearer.user, token) = "ok" PROVE Ready("logout_revoke", q)
      <4>1. token \in held /\ token.typ = "refresh" /\ token.user = bearer.user
        BY <2>1, <3>3, RefreshAccepts DEF LogoutVerdict, Presentable
      <4> QED BY <4>1 DEF NoRequest, Ready, RegisterLabels, LoginLabels, RefreshLabels
    <3> HIDE DEF q
    <3> QED BY <2>1, <2>3, <3>2, <3>3, VerdictTypes DEF ArrivesReady, Labels, q
  <2> QED BY <2>2, <2>3
<1>6. CASE ArriveVerify(r)
  <2>1. PICK token \in Presentable :
              Arrive(r, "verify", [NoRequest EXCEPT !.route = "verify", !.token = token],
                     VerifyVerdict(token), "done")
    BY <1>6 DEF ArriveVerify
  <2> DEFINE q == [NoRequest EXCEPT !.route = "verify", !.token = token]
  <2>2. q \in Request /\ q.route = "verify"
    BY <2>1 DEF NoRequest, Request, Presentable, TypeOK
  <2> HIDE DEF q
  <2> QED BY <2>1, <2>2, VerdictTypes, VerifyNeverAccepts DEF q, ArrivesReady, Labels
<1>7. CASE ArriveMe(r)
  <2>1. PICK bearer \in Bearers :
          IF RequireAuth(bearer) # "ok"
            THEN Arrive(r, "me", NoRequest, RequireAuth(bearer), "done")
            ELSE Arrive(r, "me", [NoRequest EXCEPT !.route = "me", !.caller = bearer.user],
                        "ok", "me_find")
    BY <1>7 DEF ArriveMe
  <2>2. CASE RequireAuth(bearer) # "ok"
    BY <2>1, <2>2, VerdictTypes, NoRequestTypes DEF ArrivesReady, Labels
  <2>3. CASE RequireAuth(bearer) = "ok"
    <3> DEFINE q == [NoRequest EXCEPT !.route = "me", !.caller = bearer.user]
    <3>1. bearer.user \in Users
      BY <2>1, <2>3, BearerAccepts
    <3>2. q \in Request /\ Ready("me_find", q)
      BY <2>1, <2>3, <3>1 DEF NoRequest, Request, Ready, RegisterLabels, LoginLabels, RefreshLabels
    <3> QED BY <2>1, <2>3, <3>2 DEF ArrivesReady, Labels, Verdicts
  <2> QED BY <2>2, <2>3
<1> QED BY <1>1, <1>2, <1>3, <1>4, <1>5, <1>6, <1>7 DEF Client

-----------------------------------------------------------------------------
(* Type correctness.                                                       *)

LEMMA StepTypes ==
  ASSUME TypeOK, NEW r \in Requests, NEW verdict \in Verdicts, NEW label \in Labels,
         Step(r, verdict, label)
  PROVE  /\ pc' \in [Requests -> Labels]
         /\ reply' \in [Requests -> Errors \cup {"none", "ok", "lost"}]
         /\ pc' = [pc EXCEPT ![r] = IF verdict = "ok" THEN label ELSE "done"]
BY DEF TypeOK, Step, Goto, Answer, Verdicts, Labels

LEMMA AnswerTypes ==
  ASSUME TypeOK, NEW r \in Requests, NEW err \in Errors \cup {"ok", "lost"}, Answer(r, err)
  PROVE  /\ pc' \in [Requests -> Labels]
         /\ reply' \in [Requests -> Errors \cup {"none", "ok", "lost"}]
         /\ pc' = [pc EXCEPT ![r] = "done"]
BY DEF TypeOK, Answer, Labels

LEMMA GotoTypes ==
  ASSUME TypeOK, NEW r \in Requests, NEW label \in Labels, Goto(r, label)
  PROVE  /\ pc' \in [Requests -> Labels]
         /\ reply' \in [Requests -> Errors \cup {"none", "ok", "lost"}]
         /\ pc' = [pc EXCEPT ![r] = label]
BY DEF TypeOK, Goto

LEMMA FindByEmailTypes ==
  ASSUME NEW email
  PROVE  /\ FindByEmail(email) \in Users \cup {None}
         /\ FindByEmail(email) # None =>
              Live(FindByEmail(email)) /\ users[FindByEmail(email)].email = email
BY DEF FindByEmail, Live

LEMMA AfterCreateTypes ==
  ASSUME TypeOK, NEW r \in Requests, req[r].email \in Spellings, req[r].password \in Passwords
  PROVE  AfterCreate(r) \in [Users -> User \cup {None, Deleted}]
<1>1. NewUser(req[r].email) \in Lowered
  BY DEF NewUser, Lowered
<1>2. First72[req[r].password] \in Passwords
  BY ServiceAssumption DEF ServiceAssumption
<1> DEFINE row == [email |-> NewUser(req[r].email), password |-> First72[req[r].password],
                   verified |-> FALSE]
<1>3. row \in User
  BY <1>1, <1>2 DEF User
<1> HIDE DEF row
<1>4. [users EXCEPT ![FreshId] = row] \in [Users -> User \cup {None, Deleted}]
  BY <1>3 DEF TypeOK
<1> QED BY <1>4 DEF AfterCreate, row

LEMMA AfterRevokeTypes ==
  ASSUME TypeOK, NEW hash
  PROVE  AfterRevoke(hash) \in [Requests -> Session \cup {None}]
BY DEF TypeOK, AfterRevoke, Session

LEMMA AfterSaveTypes ==
  ASSUME TypeOK, NEW r \in Requests, uid[r] \in Users, NEW expires \in Int
  PROVE  AfterSave(r, expires) \in [Requests -> Session \cup {None}]
<1>1. hashJTI(pair[r].refresh) \in {HeaderPrefix}
  BY DEF hashJTI
<1>2. \A h \in {HeaderPrefix} :
        [user |-> uid[r], hash |-> h, expires |-> expires, revoked |-> FALSE] \in Session
  BY DEF Session
<1> QED BY <1>1, <1>2 DEF TypeOK, AfterSave

LEMMA PairTypes ==
  ASSUME NEW r \in Requests, PairReady(r)
  PROVE  {pair[r].access, pair[r].refresh} \subseteq Token
BY DEF PairReady, TokenPair

(* A handler that moves on leaves the others as ready as they were.        *)
LEMMA ReadyKept ==
  ASSUME TypeInv, NEW r \in Requests, NEW label, pc' = [pc EXCEPT ![r] = label],
         req' = req, held \subseteq held',
         Ready(label, req[r])
  PROVE  \A q \in Requests : Ready(pc[q], req[q])'
BY DEF TypeInv, TypeOK, Handlers, Ready

LEMMA ReadyNext ==
  ASSUME TypeInv, NEW r \in Requests
  PROVE  /\ Ready("done", req[r])
         /\ pc[r] = "register_find" => Ready("register_create", req[r])
         /\ pc[r] \in LoginLabels => \A l \in LoginLabels : Ready(l, req[r])
         /\ pc[r] \in RefreshLabels => \A l \in RefreshLabels : Ready(l, req[r])
BY DEF TypeInv, Handlers, Ready, RegisterLabels, LoginLabels, RefreshLabels

LEMMA TypeInvInit == Init => TypeInv
<1> SUFFICES ASSUME Init PROVE TypeInv
  OBVIOUS
<1>1. TypeOK
  BY NoRequestTypes, InitUsersAssumption DEF Init, TypeOK, Labels, InitUsersAssumption
<1>2. Handlers
  BY DEF Init, Handlers, Ready, IssueLabels, SaveLabels, RegisterLabels, LoginLabels, RefreshLabels
<1> QED BY <1>1, <1>2 DEF TypeInv

(* Save's outcome, for login and refresh alike.                            *)
LEMMA SaveTypes ==
  ASSUME TypeInv, NEW r \in Requests, pc[r] \in SaveLabels, NEW expires \in Int,
         SaveSession(r, expires)
  PROVE  TypeInv'
<1> USE DEF TypeInv
<1>1. PairReady(r) /\ uid[r] \in Users
  BY DEF Handlers
<1>2. /\ sessions' \in [Requests -> Session \cup {None}]
      /\ held' \in SUBSET Token /\ held \subseteq held'
      /\ \E err \in Errors \cup {"ok", "lost"} : Answer(r, err)
  BY <1>1, AfterSaveTypes, PairTypes, ErrorNames DEF SaveSession, TypeOK
<1>3. /\ pc' \in [Requests -> Labels] /\ pc' = [pc EXCEPT ![r] = "done"]
      /\ reply' \in [Requests -> Errors \cup {"none", "ok", "lost"}]
  BY <1>2, AnswerTypes
<1>4. TypeOK'
  BY <1>2, <1>3 DEF SaveSession, TypeOK, locals
<1>5. \A q \in Requests : Ready(pc[q], req[q])'
  BY <1>2, <1>3, ReadyKept, ReadyNext DEF SaveSession
<1>6. Handlers'
  BY <1>3, <1>5 DEF SaveSession, Handlers, PairReady, IssueLabels, SaveLabels, locals, TypeOK
<1> QED BY <1>4, <1>6

LEMMA TypeInvClient ==
  ASSUME TypeInv, NEW r \in Requests, Client(r)
  PROVE  TypeInv'
<1> USE DEF TypeInv
<1>1. ArrivesReady(r)
  BY ArrivalShape
<1>2. PICK q \in Request, verdict \in Verdicts, label \in Labels :
        /\ req' = [req EXCEPT ![r] = q] /\ Step(r, verdict, label)
        /\ verdict = "ok" => Ready(label, q) /\ label \notin IssueLabels \cup SaveLabels
  BY <1>1 DEF ArrivesReady, IssueLabels, SaveLabels
<1>3. /\ pc' \in [Requests -> Labels]
      /\ reply' \in [Requests -> Errors \cup {"none", "ok", "lost"}]
      /\ pc' = [pc EXCEPT ![r] = IF verdict = "ok" THEN label ELSE "done"]
  BY <1>2, StepTypes
<1>4. TypeOK'
  BY <1>1, <1>2, <1>3 DEF ArrivesReady, TypeOK, locals
<1>5. Ready(pc'[r], q)
  BY <1>2, <1>3 DEF TypeOK, Ready, RegisterLabels, LoginLabels, RefreshLabels
<1>6. \A p \in Requests : Ready(pc[p], req[p])'
  BY <1>1, <1>2, <1>3, <1>5 DEF ArrivesReady, Handlers, TypeOK, Ready
<1>7. pc'[r] \notin IssueLabels \cup SaveLabels
  BY <1>2, <1>3 DEF TypeOK, IssueLabels, SaveLabels
<1>8. Handlers'
  BY <1>1, <1>3, <1>6, <1>7 DEF ArrivesReady, Handlers, PairReady, TypeOK, locals
<1> QED BY <1>4, <1>8

LEMMA TypeInvServer ==
  ASSUME TypeInv, NEW r \in Requests, Server(r)
  PROVE  TypeInv'
<1> USE DEF TypeInv
<1>1. CASE RegisterFind(r)
  <2>1. RegisterVerdict(r) \in Verdicts
    BY ErrorNames DEF RegisterVerdict, Verdicts
  <2>2. /\ pc' \in [Requests -> Labels]
        /\ reply' \in [Requests -> Errors \cup {"none", "ok", "lost"}]
        /\ \E l \in {"done", "register_create"} : pc' = [pc EXCEPT ![r] = l]
    BY <1>1, <2>1, StepTypes DEF RegisterFind, Labels
  <2>3. TypeOK'
    BY <1>1, <2>2 DEF RegisterFind, TypeOK, locals
  <2>4. \A q \in Requests : Ready(pc[q], req[q])'
    BY <1>1, <2>2, ReadyKept, ReadyNext DEF RegisterFind
  <2>5. Handlers'
    BY <1>1, <2>2, <2>4
    DEF RegisterFind, Handlers, PairReady, IssueLabels, SaveLabels, TypeOK, locals
  <2> QED BY <2>3, <2>5
<1>2. CASE RegisterCreate(r)
  <2>1. req[r].email \in Spellings /\ req[r].password \in Passwords
    BY <1>2 DEF RegisterCreate, Handlers, Ready, RegisterLabels
  <2>2. /\ pc' \in [Requests -> Labels]
        /\ reply' \in [Requests -> Errors \cup {"none", "ok", "lost"}]
        /\ pc' = [pc EXCEPT ![r] = "done"]
    BY <1>2, AnswerTypes, ErrorNames DEF RegisterCreate
  <2>3. FreshId \in Users
    BY <1>2 DEF RegisterCreate, FreshId
  <2>4. users' \in [Users -> User \cup {None, Deleted}] /\ uid' \in [Requests -> Users \cup {None}]
    BY <1>2, <2>1, <2>3, AfterCreateTypes DEF RegisterCreate, TypeOK
  <2>5. TypeOK'
    BY <1>2, <2>2, <2>4 DEF RegisterCreate, TypeOK
  <2>6. \A q \in Requests : Ready(pc[q], req[q])'
    BY <1>2, <2>2, ReadyKept, ReadyNext DEF RegisterCreate
  <2>7. \A q \in Requests : q # r => uid'[q] = uid[q]
    BY <1>2 DEF RegisterCreate, TypeOK
  <2>8. Handlers'
    BY <1>2, <2>2, <2>6, <2>7
    DEF RegisterCreate, Handlers, PairReady, IssueLabels, SaveLabels, TypeOK
  <2> QED BY <2>5, <2>8
<1>3. CASE LoginFind(r)
  <2> DEFINE user == FindByEmail(req[r].email)
  <2>1. LoginVerdict(user, req[r].password) \in Verdicts
    BY ErrorNames DEF LoginVerdict, Verdicts
  <2>2. user \in Users \cup {None} /\ (LoginVerdict(user, req[r].password) = "ok" => user \in Users)
    BY FindByEmailTypes DEF LoginVerdict
  <2> HIDE DEF user
  <2>3. /\ pc' \in [Requests -> Labels]
        /\ reply' \in [Requests -> Errors \cup {"none", "ok", "lost"}]
        /\ pc' = [pc EXCEPT ![r] = IF LoginVerdict(user, req[r].password) = "ok"
                                    THEN "login_issue" ELSE "done"]
    BY <1>3, <2>1, StepTypes DEF LoginFind, Labels, user
  <2>4. uid' = [uid EXCEPT ![r] = user]
    BY <1>3 DEF LoginFind, user
  <2>5. TypeOK'
    <3>1. now + RefreshTTL \in Int
      BY TTLAssumption DEF TTLAssumption, TypeOK
    <3>2. until' \in [Requests -> Int]
      BY <1>3, <3>1 DEF LoginFind, TypeOK
    <3> QED BY <1>3, <2>2, <2>3, <2>4, <3>2 DEF LoginFind, TypeOK
  <2>6. \A q \in Requests : Ready(pc[q], req[q])'
    BY <1>3, <2>3, ReadyKept, ReadyNext DEF LoginFind, LoginLabels
  <2>7. \A q \in Requests : pc'[q] \in IssueLabels \cup SaveLabels => uid'[q] \in Users
    BY <1>3, <2>2, <2>3, <2>4 DEF Handlers, TypeOK, IssueLabels, SaveLabels
  <2>8. \A q \in Requests : pc'[q] \in SaveLabels => PairReady(q)'
    BY <1>3, <2>3, <2>4 DEF LoginFind, Handlers, PairReady, SaveLabels, TypeOK
  <2> QED BY <2>5, <2>6, <2>7, <2>8 DEF Handlers
<1>4. CASE IssuePair(r)
  <2>1. uid[r] \in Users /\ pc[r] \in {"login_issue", "refresh_issue"}
    BY <1>4 DEF IssuePair, Handlers, IssueLabels
  <2>2. now \in Int
    BY DEF TypeOK
  <2>3. /\ pair' = [pair EXCEPT ![r] = Issue(uid[r], r, now)]
        /\ pair' \in [Requests -> TokenPair \cup {None}]
    BY <1>4, <2>1, <2>2, IssueTypes DEF IssuePair, TypeOK
  <2>4. PICK l \in SaveLabels : /\ pc' = [pc EXCEPT ![r] = l] /\ pc' \in [Requests -> Labels]
                                /\ reply' \in [Requests -> Errors \cup {"none", "ok", "lost"}]
                                /\ pc[r] \in LoginLabels => l \in LoginLabels
                                /\ pc[r] \in RefreshLabels => l \in RefreshLabels
    BY <1>4, GotoTypes DEF IssuePair, SaveLabels, Labels, LoginLabels, RefreshLabels
  <2>5. TypeOK'
    BY <1>4, <2>3, <2>4 DEF IssuePair, TypeOK
  <2>6. Ready(l, req[r])
    BY <2>1, <2>4, ReadyNext DEF LoginLabels, RefreshLabels
  <2>7. \A q \in Requests : Ready(pc[q], req[q])'
    BY <1>4, <2>4, <2>6, ReadyKept DEF IssuePair
  <2>8. \A q \in Requests : pc'[q] \in SaveLabels => PairReady(q)'
    BY <1>4, <2>1, <2>2, <2>3, <2>4, IssueTypes DEF IssuePair, Handlers, PairReady, TypeOK
  <2>9. \A q \in Requests : pc'[q] \in IssueLabels \cup SaveLabels => uid'[q] \in Users
    BY <1>4, <2>1, <2>4 DEF IssuePair, Handlers, TypeOK
  <2> QED BY <2>5, <2>7, <2>8, <2>9 DEF Handlers
<1>5. CASE LoginSave(r)
  BY <1>5, SaveTypes DEF LoginSave, SaveLabels, TypeOK
<1>6. CASE RefreshFind(r)
  <2>1. /\ pc' \in [Requests -> Labels]
        /\ reply' \in [Requests -> Errors \cup {"none", "ok", "lost"}]
        /\ \E l \in {"done", "refresh_user"} : pc' = [pc EXCEPT ![r] = l]
    BY <1>6, AnswerTypes, GotoTypes, ErrorNames DEF RefreshFind, Labels
  <2>2. until' \in [Requests -> Int]
    BY <1>6 DEF RefreshFind, FindByJTIHash, TypeOK, Session
  <2>3. TypeOK'
    BY <1>6, <2>1, <2>2 DEF RefreshFind, TypeOK
  <2>4. \A q \in Requests : Ready(pc[q], req[q])'
    BY <1>6, <2>1, ReadyKept, ReadyNext DEF RefreshFind, RefreshLabels
  <2>5. Handlers'
    BY <1>6, <2>1, <2>4 DEF RefreshFind, Handlers, PairReady, IssueLabels, SaveLabels, TypeOK
  <2> QED BY <2>3, <2>5
<1>7. CASE RefreshUser(r)
  <2>1. req[r].token.user \in Users
    BY <1>7 DEF RefreshUser, Handlers, Ready, RefreshLabels, TypeOK, Token
  <2>2. RefreshVerdict(r) \in Verdicts
    BY ErrorNames DEF RefreshVerdict, Verdicts
  <2>3. /\ pc' \in [Requests -> Labels]
        /\ reply' \in [Requests -> Errors \cup {"none", "ok", "lost"}]
        /\ \E l \in {"done", "refresh_revoke"} : pc' = [pc EXCEPT ![r] = l]
    BY <1>7, <2>2, StepTypes DEF RefreshUser, Labels
  <2>4. TypeOK'
    BY <1>7, <2>1, <2>3 DEF RefreshUser, TypeOK
  <2>5. \A q \in Requests : Ready(pc[q], req[q])'
    BY <1>7, <2>3, ReadyKept, ReadyNext DEF RefreshUser, RefreshLabels
  <2>6. Handlers'
    BY <1>7, <2>1, <2>3, <2>5
    DEF RefreshUser, Handlers, PairReady, IssueLabels, SaveLabels, TypeOK
  <2> QED BY <2>4, <2>6
<1>8. CASE RefreshRevoke(r)
  <2>1. /\ pc' \in [Requests -> Labels]
        /\ reply' \in [Requests -> Errors \cup {"none", "ok", "lost"}]
        /\ pc' = [pc EXCEPT ![r] = "refresh_issue"]
    BY <1>8, GotoTypes DEF RefreshRevoke, Labels
  <2>2. TypeOK'
    BY <1>8, <2>1, AfterRevokeTypes DEF RefreshRevoke, TypeOK, locals
  <2>3. \A q \in Requests : Ready(pc[q], req[q])'
    BY <1>8, <2>1, ReadyKept, ReadyNext DEF RefreshRevoke, RefreshLabels
  <2>4. Handlers'
    BY <1>8, <2>1, <2>3
    DEF RefreshRevoke, Handlers, PairReady, IssueLabels, SaveLabels, TypeOK, locals
  <2> QED BY <2>2, <2>4
<1>9. CASE RefreshSave(r)
  BY <1>9, SaveTypes, ServiceAssumption DEF RefreshSave, SaveLabels, TypeOK, ServiceAssumption
<1>10. CASE LogoutRevoke(r) \/ MeFind(r)
  <2>1. /\ pc' \in [Requests -> Labels]
        /\ reply' \in [Requests -> Errors \cup {"none", "ok", "lost"}]
        /\ pc' = [pc EXCEPT ![r] = "done"]
    BY <1>10, AnswerTypes, ErrorNames DEF LogoutRevoke, MeFind
  <2>2. TypeOK'
    BY <1>10, <2>1, AfterRevokeTypes DEF LogoutRevoke, MeFind, TypeOK, locals
  <2>3. \A q \in Requests : Ready(pc[q], req[q])'
    BY <1>10, <2>1, ReadyKept, ReadyNext DEF LogoutRevoke, MeFind
  <2>4. Handlers'
    BY <1>10, <2>1, <2>3
    DEF LogoutRevoke, MeFind, Handlers, PairReady, IssueLabels, SaveLabels, TypeOK, locals
  <2> QED BY <2>2, <2>4
<1> QED BY <1>1, <1>2, <1>3, <1>4, <1>5, <1>6, <1>7, <1>8, <1>9, <1>10 DEF Server

LEMMA InterruptedTypes ==
  ASSUME TypeInv, NEW r \in Requests, Interrupted(r)
  PROVE  TypeInv'
<1> USE DEF TypeInv
<1>1. PICK err \in Errors \cup {"ok", "lost"} : Answer(r, err)
  BY ErrorNames DEF Interrupted, FailureReply
<1>2. /\ pc' \in [Requests -> Labels]
      /\ reply' \in [Requests -> Errors \cup {"none", "ok", "lost"}]
      /\ pc' = [pc EXCEPT ![r] = "done"]
  BY <1>1, AnswerTypes
<1>3. UsersAfter(r) \in [Users -> User \cup {None, Deleted}]
  <2>1. CASE pc[r] = "register_create"
    <3>1. req[r].email \in Spellings /\ req[r].password \in Passwords
      BY <2>1 DEF Handlers, Ready, RegisterLabels
    <3> QED BY <3>1, AfterCreateTypes DEF UsersAfter, TypeOK
  <2> QED BY <2>1 DEF UsersAfter, TypeOK
<1>4. SessionsAfter(r) \in [Requests -> Session \cup {None}]
  <2>1. CASE pc[r] \in {"logout_revoke", "refresh_revoke"}
    BY <2>1, AfterRevokeTypes DEF SessionsAfter
  <2>2. CASE pc[r] \in SaveLabels
    <3>1. uid[r] \in Users /\ until[r] \in Int /\ now + SevenDays \in Int
      BY <2>2, ServiceAssumption DEF Handlers, TypeOK, ServiceAssumption
    <3>2. AfterSave(r, until[r]) \in [Requests -> Session \cup {None}]
      BY <3>1, AfterSaveTypes
    <3>3. AfterSave(r, now + SevenDays) \in [Requests -> Session \cup {None}]
      BY <3>1, AfterSaveTypes
    <3> QED BY <2>2, <3>2, <3>3 DEF SessionsAfter, SaveLabels, TypeOK
  <2>3. CASE pc[r] \notin {"logout_revoke", "refresh_revoke"} \cup SaveLabels
    BY <2>3 DEF SessionsAfter, SaveLabels, TypeOK
  <2> QED BY <2>1, <2>2, <2>3
<1>5. TypeOK'
  <2>1. /\ users' \in [Users -> User \cup {None, Deleted}]
        /\ sessions' \in [Requests -> Session \cup {None}]
    BY <1>3, <1>4 DEF Interrupted, TypeOK
  <2> QED BY <1>2, <2>1 DEF Interrupted, TypeOK, locals
<1>6. \A q \in Requests : Ready(pc[q], req[q])'
  BY <1>2, ReadyKept, ReadyNext DEF Interrupted
<1>7. Handlers'
  BY <1>2, <1>6 DEF Interrupted, Handlers, PairReady, IssueLabels, SaveLabels, TypeOK, locals
<1> QED BY <1>5, <1>7

LEMMA OutsideTypes ==
  ASSUME TypeInv, \/ \E u \in Users : Outside(u)
                  \/ Tick
                  \/ UNCHANGED vars
  PROVE  TypeInv'
<1> USE DEF TypeInv
<1>1. held \subseteq held' /\ UNCHANGED <<pc, req, locals, reply>>
  BY DEF Outside, OperatorVerifies, OperatorDeletes, SendVerification, Tick, vars, locals
<1>2. Handlers'
  BY <1>1 DEF Handlers, Ready, PairReady, locals
<1>3. TypeOK'
  <2>1. CASE \E u \in Users : OperatorVerifies(u)
    <3>1. PICK u \in Users : OperatorVerifies(u)
      BY <2>1
    <3>2. users[u] \in User
      BY <3>1 DEF OperatorVerifies, TypeOK, Live
    <3>3. [users[u] EXCEPT !.verified = TRUE] \in User
      BY <3>2 DEF User
    <3>4. users' = [users EXCEPT ![u] = [users[u] EXCEPT !.verified = TRUE]]
      BY <3>1 DEF OperatorVerifies
    <3> QED BY <3>1, <3>3, <3>4 DEF OperatorVerifies, TypeOK, locals
  <2>2. CASE \E u \in Users : OperatorDeletes(u)
    BY <2>2 DEF OperatorDeletes, TypeOK, locals
  <2>3. CASE \E u \in Users : SendVerification(u)
    <3>1. PICK u \in Users : SendVerification(u)
      BY <2>3
    <3>2. Truncated(now + AccessTTL) \in Int
      BY TTLAssumption, Truncation DEF TTLAssumption, TypeOK
    <3>3. \A e \in Int : [typ |-> "verify_email", user |-> u, exp |-> e, jti |-> None] \in Token
      BY DEF Token, TokenTypes
    <3>4. GenerateVerifyEmailToken(u, now) \in Token
      BY <3>2, <3>3 DEF GenerateVerifyEmailToken, sign
    <3> QED BY <3>1, <3>4 DEF SendVerification, TypeOK, locals
  <2>4. CASE Tick
    BY <2>4 DEF Tick, TypeOK, locals
  <2>5. CASE UNCHANGED vars
    BY <2>5 DEF vars, TypeOK
  <2> QED BY <2>1, <2>2, <2>3, <2>4, <2>5 DEF Outside
<1> QED BY <1>2, <1>3

LEMMA TypeInvNext == TypeInv /\ [Next]_vars => TypeInv'
BY TypeInvClient, TypeInvServer, InterruptedTypes, OutsideTypes DEF Next, Idle

LEMMA TypeInvAlways == Spec => []TypeInv
BY TypeInvInit, TypeInvNext, PTL DEF Spec

(* Every reachable state is well typed, for every number of requests,      *)
(* users, addresses and passwords and every pair of TTLs.                  *)
THEOREM TypeCorrect == Spec => []TypeOK
BY TypeInvAlways, PTL DEF TypeInv
=============================================================================
