--------------------------- MODULE AuthProperties ---------------------------
(***************************************************************************)
(* What the user module must guarantee, and what its documentation says of *)
(* it that it does not do.                                                 *)
(***************************************************************************)
EXTENDS AuthService

Labels ==
  {"idle", "done", "register_find", "register_create", "login_find", "login_issue", "login_save",
   "refresh_find", "refresh_user", "refresh_revoke", "refresh_issue", "refresh_save",
   "logout_revoke", "me_find"}

Request == [route : Routes \cup {None}, email : Spellings \cup {None},
            password : Passwords \cup {None}, token : Token \cup {Malformed, None},
            caller : Users \cup {None}]

(* Every variable has its type; in particular the users table holds        *)
(* lower-cased addresses only, and held holds signed tokens only.          *)
TypeOK ==
  /\ users \in [Users -> User \cup {None, Deleted}]
  /\ sessions \in [Requests -> Session \cup {None}]
  /\ held \in SUBSET Token
  /\ now \in Nat
  /\ pc \in [Requests -> Labels]
  /\ req \in [Requests -> Request]
  /\ uid \in [Requests -> Users \cup {None}]
  /\ until \in [Requests -> Int]
  /\ pair \in [Requests -> TokenPair \cup {None}]
  /\ reply \in [Requests -> Errors \cup {"none", "ok", "lost"}]

(* A check-then-insert race between registrations never leaves two         *)
(* accounts with one address (register.go FindByEmail, then Create).       *)
UniqueEmail ==
  \A u, v \in Users : Live(u) /\ Live(v) /\ users[u].email = users[v].email => u = v

(* Whoever was told that a registration succeeded owns the account: until  *)
(* it is deleted it keeps that address and that password, whatever other   *)
(* registrations for the address do meanwhile.                             *)
RegisteredAccountStands ==
  \A r \in Requests : req[r].route = "register" /\ reply[r] = "ok" =>
    \/ users[uid[r]] = Deleted
    \/ /\ Live(uid[r])
       /\ users[uid[r]].email = Lower[req[r].email]
       /\ users[uid[r]].password = First72[req[r].password]

(* Login tells more than InvalidCredentials (that the address waits to be  *)
(* verified, say) only to a client that sent that account's password       *)
(* (the order of the checks in login.go).                                  *)
VerdictNeedsPassword ==
  \A r \in Requests :
    req[r].route = "login" /\ reply[r] \in {"ok", "EmailNotVerified", "ForeignKeyViolation"} =>
      \/ users[uid[r]] = Deleted
      \/ /\ Live(uid[r])
         /\ users[uid[r]].email = req[r].email
         /\ users[uid[r]].password = First72[req[r].password]

(* Nobody holds a session token of an account whose address was not        *)
(* verified, though login and refresh read the account before they issue   *)
(* and anything may happen to it in between.                               *)
VerifiedBeforeTokens ==
  \A t \in held : t.typ \in {"access", "refresh"} /\ users[t.user] # Deleted =>
    Live(t.user) /\ users[t.user].verified

(* A refresh is never told that the address is not verified: the check in  *)
(* refresh_token.go 63-65 has nothing to find, as only verified accounts   *)
(* get tokens (login.go 51) and nothing takes a verification back.         *)
RefreshMeetsVerified ==
  \A r \in Requests : req[r].route = "refresh" => reply[r] # "EmailNotVerified"

(* A refresh token a client holds has its session row, of the same user    *)
(* and under its hash, unless the account is gone.  A row saved by login   *)
(* outlives its token by less than a second, the fraction that exp loses   *)
(* (Issue reads the clock for the row first and signs then); one saved by  *)
(* refresh, if the seven days it is given are no less than the configured  *)
(* TTL, lives as long.                                                     *)
SessionBacksToken ==
  \A t \in held : t.typ = "refresh" /\ users[t.user] # Deleted =>
    LET row == sessions[t.jti] IN
    /\ row # None /\ row.user = t.user /\ row.hash = hashJTI(t)
    /\ req[t.jti].route = "login" => row.expires < t.exp + Second
    /\ req[t.jti].route = "refresh" /\ RefreshTTL <= SevenDays => row.expires >= t.exp

(* No session row outlives its account, whatever the order in which a      *)
(* deletion and a login's or a refresh's save come.                        *)
NoOrphanSession ==
  \A q \in Requests : sessions[q] # None => Live(sessions[q].user)

(* Once a logout has been answered with success, or a refresh has got past *)
(* Revoke, also if the foreign key then refuses its new session, the one of*)
(* the token that was presented is revoked (or gone with its account), and *)
(* stays so.                                                               *)
Spent(r) ==
  \/ req[r].route = "logout" /\ reply[r] = "ok"
  \/ req[r].route = "refresh" /\ pc[r] \in {"refresh_issue", "refresh_save"}
  \/ req[r].route = "refresh" /\ reply[r] \in {"ok", "ForeignKeyViolation"}
SpentTokenIsRevoked ==
  \A r \in Requests : Spent(r) =>
    LET row == sessions[req[r].token.jti] IN row # None => row.revoked

(* A session is revoked only because some request passed its checks: a     *)
(* logout whose caller presented a refresh token of their own, or a        *)
(* refresh.  Another user's token logs nobody out.                         *)
MayHaveRevoked(r) ==
  \/ /\ req[r].route = "logout" /\ pc[r] = "done" /\ reply[r] \in {"ok", "Database", "lost"}
     /\ req[r].token \in held /\ req[r].token.typ = "refresh"
     /\ req[r].token.user = req[r].caller
  \/ /\ req[r].route = "refresh"
     /\ \/ pc[r] \in {"refresh_issue", "refresh_save"}
        \/ pc[r] = "done" /\ reply[r] \in {"ok", "ForeignKeyViolation", "Database", "lost"}
     /\ req[r].token \in held /\ req[r].token.typ = "refresh"
RevocationHasCause ==
  \A q \in Requests : sessions[q] # None /\ sessions[q].revoked =>
    \E r \in Requests : MayHaveRevoked(r)

(* Every request that came in is answered, or its client is gone: no       *)
(* handler waits on another, loops or gets stuck on a conflict.            *)
EveryRequestAnswered == \A r \in Requests : pc[r] # "idle" ~> pc[r] = "done"

(* The statements a handler has still to make at most, and its arrival.    *)
StepsLeft ==
  [label \in Labels |->
     CASE label = "done" -> 0
       [] label \in {"register_create", "login_save", "refresh_save", "logout_revoke", "me_find"} -> 1
       [] label \in {"register_find", "login_issue", "refresh_issue"} -> 2
       [] label \in {"login_find", "refresh_revoke"} -> 3
       [] label = "refresh_user" -> 4
       [] label = "refresh_find" -> 5
       [] label = "idle" -> 6]

(* What a request has done only changes by a step of its own, and each of  *)
(* those brings it nearer to its answer: no handler starts over after a    *)
(* conflict, and nothing happens to a request that was answered.           *)
StateOf(r) == <<pc[r], req[r], uid[r], until[r], pair[r], reply[r]>>
HandlersAdvance ==
  [][\A r \in Requests : StateOf(r)' = StateOf(r) \/ StepsLeft[pc'[r]] < StepsLeft[pc[r]]]_vars

-----------------------------------------------------------------------------
(* The abstract state behind the tables and the handlers: a session is open *)
(* until its row is revoked; the handlers' steps, tokens, hashes, expiries *)
(* and the clock are hidden.                                               *)
ViewAssumption == None \notin [user : Users, open : BOOLEAN]
ASSUME ViewAssumption

SessionOf(row) == IF row = None THEN None ELSE [user |-> row.user, open |-> ~row.revoked]
CallOf(q) ==
  [kind |-> q.route, email |-> q.email, password |-> q.password,
   session |-> IF q.token \in {None, Malformed} THEN None ELSE q.token.jti, caller |-> q.caller]
OutcomeOf(answer) ==
  CASE answer = "none" -> "pending"
    [] answer = "ok" -> "ok"
    [] answer \in {"lost", "Database", "ForeignKeyViolation"} -> "unknown"
    [] OTHER -> "refused"
HalfDone == {"refresh_issue", "refresh_save"}
Outcome(r) == IF pc[r] \in HalfDone THEN "half" ELSE OutcomeOf(reply[r])

D == INSTANCE Directory WITH
  Ids <- Users, Calls <- Requests, Emails <- Spellings, Address <- Lower, Secret <- First72,
  Initial <- InitUsers, accounts <- users,
  sessions <- [r \in Requests |-> SessionOf(sessions[r])],
  calls <- [r \in Requests |-> CallOf(req[r])],
  outcome <- [r \in Requests |-> Outcome(r)]

(* The handlers, however their statements interleave and fail, look to     *)
(* clients as Directory promises: each takes effect in one moment (refresh *)
(* in two) at which it is justified, sessions never reopen or change hands,*)
(* and what clients are told is true.                                      *)
ImplementsDirectory == D!Spec

(* Every session goes back to a login with its account's address and       *)
(* password, over refreshes of that account's own sessions, each closed    *)
(* before the next was opened (refresh reads the user from the token and   *)
(* the session from its hash, and never compares the two).                 *)
SessionsRooted == D!SessionsRooted

(* Every account comes from a registration with its address and password,  *)
(* if it was not there before; also when the answer to that one was lost.  *)
AccountsHaveCause == D!AccountsHaveCause

(* A session that was revoked never reopens, nor does its row come back or *)
(* pass to somebody else.                                                  *)
SessionsOnlyEnd == D!SessionsOnlyEnd

-----------------------------------------------------------------------------
(* What documentation says and the code does not do.                       *)

(* handler.go: logout "Revokes the authenticated user's refresh token,     *)
(* invalidating the session", hence nobody else's.                         *)
LogoutTouchesOnlyCaller ==
  [][\A r, q \in Requests :
       /\ pc[r] = "logout_revoke" /\ pc'[r] = "done"
       /\ sessions[q] # None /\ sessions[q].user # req[r].caller
       => sessions'[q] = sessions[q]]_vars

(* handler.go: refresh "Exchanges a valid refresh token for a new access   *)
(* and refresh token pair", so a token with a live session is not refused  *)
(* as invalid.                                                             *)
RefreshFindsLiveSession ==
  [][\A r \in Requests :
       /\ pc[r] = "refresh_find" /\ pc'[r] # "refresh_find"
       /\ LET row == sessions[req[r].token.jti] IN
          row # None /\ ~row.revoked /\ row.expires > now
       => pc'[r] = "refresh_user"]_vars

(* handler.go: verify-email "Verifies user's email address using the token *)
(* sent via email", so a verification token that is still valid is not     *)
(* refused.                                                                *)
VerifyAcceptsMailedToken ==
  [][\A r \in Requests : \A t \in held :
       /\ pc[r] = "idle" /\ req'[r].route = "verify" /\ req'[r].token = t
       /\ ValidateVerifyEmailToken(t, now) = "ok"
       => reply'[r] = "ok"]_vars

(* handler.go: registration answers 201, 400 or 409, the last when the     *)
(* address is taken.                                                       *)
RegisterAnswersAsDocumented ==
  \A r \in Requests : req[r].route = "register" /\ pc[r] = "done" /\ reply[r] # "ok" =>
    Response(reply[r]).status \in {400, 409}
=============================================================================
