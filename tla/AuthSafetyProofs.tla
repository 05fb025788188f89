------------------------- MODULE AuthSafetyProofs -------------------------
(***************************************************************************)
(* The safety properties of the user module, from its type invariant: what *)
(* a step may change comes first, then an invariant for the accounts and   *)
(* one for the sessions.                                                   *)
(***************************************************************************)
EXTENDS AuthServiceProofs

Own(r) == Client(r) \/ Server(r) \/ Interrupted(r)

(* r's own part of the state.                                              *)
Untouched(r) ==
  /\ pc'[r] = pc[r] /\ reply'[r] = reply[r] /\ req'[r] = req[r]
  /\ uid'[r] = uid[r] /\ until'[r] = until[r] /\ pair'[r] = pair[r]

LEMMA OwnStepsOnly ==
  ASSUME TypeInv, NEW q \in Requests, NEW r \in Requests, q # r, Own(q)
  PROVE  Untouched(r)
<1> USE DEF TypeInv, TypeOK, Untouched, locals
<1>1. CASE Client(q)
  <2>1. ArrivesReady(q)
    BY <1>1, ArrivalShape
  <2> QED BY <2>1 DEF ArrivesReady, Step, Goto, Answer
<1>2. CASE Server(q)
  <2>1. CASE RegisterFind(q) \/ RegisterCreate(q)
    BY <2>1 DEF RegisterFind, RegisterCreate, Step, Goto, Answer
  <2>2. CASE LoginFind(q) \/ IssuePair(q)
    BY <2>2 DEF LoginFind, IssuePair, Step, Goto, Answer
  <2>3. CASE LoginSave(q) \/ RefreshSave(q)
    BY <2>3 DEF LoginSave, RefreshSave, SaveSession, Answer
  <2>4. CASE RefreshFind(q) \/ RefreshUser(q)
    BY <2>4 DEF RefreshFind, RefreshUser, Step, Goto, Answer
  <2>5. CASE RefreshRevoke(q) \/ LogoutRevoke(q) \/ MeFind(q)
    BY <2>5 DEF RefreshRevoke, LogoutRevoke, MeFind, Goto, Answer
  <2> QED BY <1>2, <2>1, <2>2, <2>3, <2>4, <2>5 DEF Server
<1>3. CASE Interrupted(q)
  BY <1>3 DEF Interrupted, Answer
<1> QED BY <1>1, <1>2, <1>3 DEF Own

(* What is r's changes only in r's own steps.                              *)
LEMMA Locality ==
  ASSUME TypeInv, [Next]_vars, NEW r \in Requests
  PROVE  Own(r) \/ Untouched(r)
<1>1. CASE \E q \in Requests : Own(q)
  BY <1>1, OwnStepsOnly
<1>2. CASE (\E u \in Users : Outside(u)) \/ Tick \/ UNCHANGED vars
  BY <1>2 DEF Outside, OperatorVerifies, OperatorDeletes, SendVerification, Tick, vars, locals,
              Untouched
<1> QED BY <1>1, <1>2 DEF Next, Own, Idle

(* Before it is answered a request has no reply; afterwards nothing of it  *)
(* changes; and what clients hold they keep.                               *)
ReplyInv == \A r \in Requests : pc[r] = "done" <=> reply[r] # "none"

LEMMA ArrivalFrame ==
  ASSUME TypeInv, NEW r \in Requests, Client(r)
  PROVE  /\ pc[r] = "idle" /\ pc'[r] # "idle"
         /\ UNCHANGED <<users, sessions, held, now, locals>>
         /\ \/ pc'[r] # "done" /\ reply'[r] = reply[r]
            \/ pc'[r] = "done" /\ reply'[r] \in Errors
         /\ req'[r].route = "login" => reply'[r] = reply[r]
         /\ pc'[r] \notin IssueLabels \cup SaveLabels
<1>1. ArrivesReady(r)
  BY ArrivalShape DEF TypeInv
<1> QED BY <1>1 DEF ArrivesReady, Step, Goto, Answer, TypeInv, TypeOK, Verdicts, Labels,
                    IssueLabels, SaveLabels

LEMMA ServerFrame ==
  ASSUME TypeInv, NEW r \in Requests, Server(r)
  PROVE  /\ pc[r] \notin {"idle", "done"} /\ pc'[r] # "idle" /\ req' = req /\ now' = now
         /\ \/ pc'[r] # "done" /\ reply'[r] = reply[r]
            \/ pc'[r] = "done" /\ reply'[r] # "none"
<1> USE DEF TypeInv, TypeOK
<1>1. CASE RegisterFind(r) \/ RegisterCreate(r)
  BY <1>1 DEF RegisterFind, RegisterCreate, Step, Goto, Answer, RegisterVerdict
<1>2. CASE LoginFind(r) \/ IssuePair(r)
  BY <1>2 DEF LoginFind, IssuePair, Step, Goto, Answer, LoginVerdict
<1>3. CASE LoginSave(r) \/ RefreshSave(r)
  BY <1>3 DEF LoginSave, RefreshSave, SaveSession, Answer
<1>4. CASE RefreshFind(r) \/ RefreshUser(r)
  BY <1>4 DEF RefreshFind, RefreshUser, Step, Goto, Answer, RefreshVerdict
<1>5. CASE RefreshRevoke(r) \/ LogoutRevoke(r) \/ MeFind(r)
  BY <1>5 DEF RefreshRevoke, LogoutRevoke, MeFind, Goto, Answer
<1> QED BY <1>1, <1>2, <1>3, <1>4, <1>5 DEF Server

LEMMA InterruptedFrame ==
  ASSUME TypeInv, NEW r \in Requests, Interrupted(r)
  PROVE  /\ pc[r] \notin {"idle", "done"} /\ pc'[r] = "done"
         /\ reply'[r] \in {"lost", "Database", "TokenInvalid"}
         /\ UNCHANGED <<held, now, req, locals>>
BY DEF Interrupted, Answer, FailureReply, TypeInv, TypeOK

LEMMA HeldGrows ==
  ASSUME [Next]_vars
  PROVE  held \subseteq held'
<1>1. ASSUME NEW r \in Requests, Client(r) PROVE held' = held
  BY <1>1 DEF Client, RejectBody, ArriveRegister, ArriveLogin, ArriveRefresh, ArriveLogout,
              ArriveVerify, ArriveMe, Arrive
<1>2. ASSUME NEW r \in Requests, Server(r) PROVE held \subseteq held'
  BY <1>2 DEF Server, RegisterFind, RegisterCreate, LoginFind, IssuePair, LoginSave, RefreshFind,
              RefreshUser, RefreshRevoke, RefreshSave, LogoutRevoke, MeFind, SaveSession
<1>3. ASSUME NEW u \in Users, Outside(u) PROVE held \subseteq held'
  BY <1>3 DEF Outside, OperatorVerifies, OperatorDeletes, SendVerification
<1> QED BY <1>1, <1>2, <1>3 DEF Next, Interrupted, Tick, Idle, vars

LEMMA Frame ==
  ASSUME TypeInv, ReplyInv, [Next]_vars, NEW r \in Requests
  PROVE  /\ ReplyInv'
         /\ pc[r] # "idle" => req'[r] = req[r] /\ pc'[r] # "idle"
         /\ pc[r] = "done" => Untouched(r)
<1>1. ASSUME NEW q \in Requests
      PROVE  /\ pc'[q] = "done" <=> reply'[q] # "none"
             /\ pc[q] # "idle" => req'[q] = req[q] /\ pc'[q] # "idle"
             /\ pc[q] = "done" => Untouched(q)
  <2>1. CASE Untouched(q)
    BY <2>1 DEF Untouched, ReplyInv
  <2>2. CASE Client(q)
    BY <2>2, ArrivalFrame, ErrorNames DEF ReplyInv
  <2>3. CASE Server(q)
    BY <2>3, ServerFrame DEF ReplyInv
  <2>4. CASE Interrupted(q)
    BY <2>4, InterruptedFrame DEF ReplyInv
  <2> QED BY <2>1, <2>2, <2>3, <2>4, Locality DEF Own
<1> QED BY <1>1 DEF ReplyInv

-----------------------------------------------------------------------------
(* Accounts.                                                               *)

(* An account keeps its address and password, and once verified stays so,  *)
(* until it is deleted; a deleted one stays deleted.                       *)
Kept(u) ==
  /\ users[u] = Deleted => users'[u] = Deleted
  /\ Live(u) => \/ users'[u] = Deleted
                \/ /\ Live(u)'
                   /\ users'[u].email = users[u].email
                   /\ users'[u].password = users[u].password
                   /\ users[u].verified => users'[u].verified

(* The only row a step adds is that of a registration whose address was    *)
(* free when it was inserted.                                              *)
Created(r) ==
  /\ pc[r] = "register_create" /\ EmailFree(NewUser(req[r].email))
  /\ FreshId \in Users /\ users[FreshId] = None
  /\ users' = AfterCreate(r)

LEMMA UsersStep ==
  ASSUME TypeInv, [Next]_vars
  PROVE  \/ users' = users
         \/ \E r \in Requests : Created(r)
         \/ \E u \in Users : OperatorVerifies(u) \/ OperatorDeletes(u)
<1>1. ASSUME NEW r \in Requests, Client(r) PROVE users' = users
  BY <1>1, ArrivalFrame
<1>2. ASSUME NEW r \in Requests, Server(r) PROVE users' = users \/ Created(r)
  <2>1. CASE RegisterCreate(r)
    BY <2>1 DEF RegisterCreate, Created, FreshId
  <2>2. CASE ~RegisterCreate(r)
    BY <1>2, <2>2 DEF Server, RegisterFind, LoginFind, IssuePair, LoginSave, RefreshFind,
                      RefreshUser, RefreshRevoke, RefreshSave, LogoutRevoke, MeFind, SaveSession
  <2> QED BY <2>1, <2>2
<1>3. ASSUME NEW r \in Requests, Interrupted(r) PROVE users' = users \/ Created(r)
  BY <1>3 DEF Interrupted, UsersAfter, Created, FreshId
<1>4. CASE (\E u \in Users : SendVerification(u)) \/ Tick \/ UNCHANGED vars
  BY <1>4 DEF SendVerification, Tick, vars
<1> QED BY <1>1, <1>2, <1>3, <1>4 DEF Next, Outside, Idle

LEMMA AccountsKept ==
  ASSUME TypeInv, [Next]_vars, NEW u \in Users
  PROVE  Kept(u)
<1> USE ServiceAssumption DEF TypeInv, TypeOK, ServiceAssumption, Kept, Live
<1>1. CASE users' = users
  BY <1>1
<1>2. CASE \E r \in Requests : Created(r)
  BY <1>2 DEF Created, AfterCreate
<1>3. CASE \E v \in Users : OperatorVerifies(v)
  <2>1. PICK v \in Users : OperatorVerifies(v)
    BY <1>3
  <2>2. users[v] \in User /\ users' = [users EXCEPT ![v] = [users[v] EXCEPT !.verified = TRUE]]
    BY <2>1 DEF OperatorVerifies
  <2>3. [users[v] EXCEPT !.verified = TRUE] \in User
    BY <2>2 DEF User
  <2>4. /\ [users[v] EXCEPT !.verified = TRUE].email = users[v].email
        /\ [users[v] EXCEPT !.verified = TRUE].password = users[v].password
        /\ [users[v] EXCEPT !.verified = TRUE].verified
    BY <2>2 DEF User
  <2> QED BY <2>1, <2>2, <2>3, <2>4
<1>4. CASE \E v \in Users : OperatorDeletes(v)
  BY <1>4 DEF OperatorDeletes
<1> QED BY <1>1, <1>2, <1>3, <1>4, UsersStep

(* The account a request found or made: deleted since, or still with the   *)
(* address and the password the request came with.                         *)
Owns(r, email) ==
  /\ uid[r] \in Users
  /\ \/ users[uid[r]] = Deleted
     \/ /\ Live(uid[r])
        /\ users[uid[r]].email = email
        /\ users[uid[r]].password = First72[req[r].password]

Cleared(u) == users[u] = Deleted \/ (Live(u) /\ users[u].verified)

AccountInv ==
  /\ ReplyInv
  /\ UniqueEmail
  /\ \A r \in Requests : req[r].route = "register" /\ reply[r] = "ok" => Owns(r, Lower[req[r].email])
  /\ \A r \in Requests : pc[r] \in {"login_issue", "login_save"} => Owns(r, req[r].email)
  /\ \A r \in Requests :
       req[r].route = "login" /\ reply[r] \in {"ok", "EmailNotVerified", "ForeignKeyViolation"}
         => Owns(r, req[r].email)
  /\ \A r \in Requests : pc[r] \in IssueLabels \cup SaveLabels => Cleared(uid[r])
  /\ \A t \in held : t.typ \in {"access", "refresh"} => Cleared(t.user)

LEMMA AccountInvInit == Init => AccountInv
BY InitUsersAssumption, ServiceAssumption
DEF Init, AccountInv, ReplyInv, UniqueEmail, Live, InitUsersAssumption, ServiceAssumption,
    IssueLabels, SaveLabels

LEMMA ClearedKept ==
  ASSUME TypeInv, [Next]_vars, NEW u \in Users, Cleared(u)
  PROVE  Cleared(u)'
<1>1. Kept(u)
  BY AccountsKept
<1>2. CASE users[u] = Deleted
  BY <1>1, <1>2 DEF Kept, Cleared
<1>3. CASE Live(u) /\ users[u].verified
  BY <1>1, <1>3 DEF Kept, Cleared
<1> QED BY <1>2, <1>3 DEF Cleared

LEMMA OwnsKept ==
  ASSUME TypeInv, [Next]_vars, NEW r \in Requests, NEW email, Owns(r, email),
         uid'[r] = uid[r], req'[r] = req[r]
  PROVE  /\ uid'[r] \in Users
         /\ \/ users'[uid'[r]] = Deleted
            \/ /\ users'[uid'[r]] \notin {None, Deleted}
               /\ users'[uid'[r]].email = email
               /\ users'[uid'[r]].password = First72[req'[r].password]
BY AccountsKept DEF Owns, Kept, Live

(* The UNIQUE constraint decides, not the lookup that came before.         *)
LEMMA UniqueEmailStep ==
  ASSUME TypeInv, UniqueEmail, [Next]_vars
  PROVE  UniqueEmail'
<1> USE DEF TypeInv, TypeOK, UniqueEmail, Live
<1>1. CASE users' = users
  BY <1>1
<1>2. CASE \E r \in Requests : Created(r)
  <2>1. PICK r \in Requests : Created(r)
    BY <1>2
  <2>2. /\ \A u \in Users : u # FreshId => users'[u] = users[u]
        /\ users'[FreshId].email = NewUser(req[r].email)
    BY <2>1 DEF Created, AfterCreate
  <2>3. \A u \in Users : Live(u) => users[u].email # NewUser(req[r].email)
    BY <2>1 DEF Created, EmailFree
  <2> QED BY <2>1, <2>2, <2>3
<1>3. ASSUME NEW v \in Users, OperatorVerifies(v) PROVE UniqueEmail'
  <2>1. users' = [users EXCEPT ![v] = [users[v] EXCEPT !.verified = TRUE]] /\ users[v] \in User
    BY <1>3 DEF OperatorVerifies
  <2>2. [users[v] EXCEPT !.verified = TRUE].email = users[v].email
    BY <2>1 DEF User
  <2>3. \A u \in Users : users'[u].email = users[u].email /\ (Live(u)' => Live(u))
    BY <1>3, <2>1, <2>2 DEF OperatorVerifies
  <2> QED BY <2>3
<1>4. ASSUME NEW v \in Users, OperatorDeletes(v) PROVE UniqueEmail'
  BY <1>4 DEF OperatorDeletes
<1> QED BY <1>1, <1>2, <1>3, <1>4, UsersStep

(* A registration is told "ok" by its own insert only.                     *)
LEMMA RegisterOk ==
  ASSUME TypeInv, AccountInv, [Next]_vars, NEW r \in Requests,
         req'[r].route = "register", reply'[r] = "ok"
  PROVE  Owns(r, Lower[req[r].email])'
<1> USE DEF TypeInv
<1>1. CASE Untouched(r)
  <2>1. Owns(r, Lower[req[r].email]) /\ uid'[r] = uid[r] /\ req'[r] = req[r]
    BY <1>1 DEF Untouched, AccountInv
  <2> QED BY <2>1, OwnsKept DEF Owns, Live
<1>2. CASE Client(r)
  BY <1>2, ArrivalFrame, ErrorNames DEF AccountInv, ReplyInv
<1>3. CASE Interrupted(r)
  BY <1>3, InterruptedFrame
<1>4. CASE Server(r)
  <2>1. req'[r] = req[r]
    BY <1>4, ServerFrame
  <2>2. RegisterCreate(r) \/ RegisterFind(r)
    BY <1>4, <2>1 DEF Server, RegisterCreate, LoginFind, IssuePair, LoginSave, RefreshFind,
         RefreshUser, RefreshRevoke, RefreshSave, LogoutRevoke, MeFind, Handlers, Ready,
         LoginLabels, RefreshLabels
  <2>3. CASE RegisterFind(r)
    BY <2>3 DEF RegisterFind, RegisterVerdict, Step, Goto, Answer, TypeOK, AccountInv, ReplyInv
  <2>4. CASE RegisterCreate(r)
    <3>1. /\ FreshId \in Users /\ uid'[r] = FreshId
          /\ users' = AfterCreate(r)
      BY <2>4 DEF RegisterCreate, FreshId, Answer, TypeOK
    <3>2. /\ users'[FreshId].email = Lower[req[r].email]
          /\ users'[FreshId].password = First72[req[r].password]
          /\ users'[FreshId] = [email |-> NewUser(req[r].email),
                    password |-> First72[req[r].password], verified |-> FALSE]
      BY <3>1 DEF AfterCreate, NewUser, TypeOK
    <3>3. users'[FreshId] \in User
      <4>1. req[r].email \in Spellings /\ req[r].password \in Passwords
        BY <2>4 DEF RegisterCreate, Handlers, Ready, RegisterLabels
      <4>2. NewUser(req[r].email) \in Lowered
        BY <4>1 DEF NewUser, Lowered
      <4>3. First72[req[r].password] \in Passwords
        BY <4>1, ServiceAssumption DEF ServiceAssumption
      <4> QED BY <3>2, <4>2, <4>3 DEF User
    <3>4. users'[FreshId] \notin {None, Deleted}
      BY <3>3, ServiceAssumption DEF ServiceAssumption
    <3> QED BY <2>1, <3>1, <3>2, <3>4 DEF Owns, Live
  <2> QED BY <2>2, <2>3, <2>4
<1> QED BY <1>1, <1>2, <1>3, <1>4, Locality DEF Own

(* Login: from the lookup on, the account is the one the client named.     *)
LEMMA LoginVerdictOwns ==
  ASSUME TypeInv, NEW r \in Requests, LoginFind(r),
         LoginVerdict(FindByEmail(req[r].email), req[r].password) \in {"ok", "EmailNotVerified"}
  PROVE  /\ Owns(r, req[r].email)'
         /\ LoginVerdict(FindByEmail(req[r].email), req[r].password) = "ok" => Cleared(uid[r])'
<1> DEFINE user == FindByEmail(req[r].email)
<1>1. /\ user \in Users /\ Live(user) /\ users[user].email = req[r].email
      /\ users[user].password = First72[req[r].password]
  BY FindByEmailTypes DEF LoginVerdict, Live
<1>2. LoginVerdict(user, req[r].password) = "ok" => users[user].verified
  BY DEF LoginVerdict
<1>3. uid'[r] = user /\ UNCHANGED <<users, req>>
  BY DEF LoginFind, TypeInv, TypeOK
<1> HIDE DEF user
<1>4. Owns(r, req[r].email)'
  BY <1>1, <1>3 DEF Owns, Live
<1>5. LoginVerdict(user, req[r].password) = "ok" => Cleared(uid[r])'
  BY <1>1, <1>2, <1>3 DEF Cleared, Live
<1> QED BY <1>4, <1>5 DEF user

Disclosed(r) ==
  \/ pc[r] \in {"login_issue", "login_save"}
  \/ req[r].route = "login" /\ reply[r] \in {"ok", "EmailNotVerified", "ForeignKeyViolation"}

LEMMA DisclosedStep ==
  ASSUME TypeInv, AccountInv, [Next]_vars, NEW r \in Requests, Disclosed(r)'
  PROVE  Owns(r, req[r].email)'
<1> USE DEF TypeInv
<1>1. ASSUME Owns(r, req[r].email), uid'[r] = uid[r], req'[r] = req[r]
      PROVE  Owns(r, req[r].email)'
  BY <1>1, OwnsKept DEF Owns, Live
<1>2. Disclosed(r) => Owns(r, req[r].email)
  BY DEF Disclosed, AccountInv
<1>3. CASE Untouched(r)
  <2>1. Disclosed(r)
    BY <1>3 DEF Disclosed, Untouched
  <2> QED BY <1>1, <1>2, <1>3, <2>1 DEF Untouched
<1>4. CASE Client(r)
  BY <1>4, ArrivalFrame DEF Disclosed, AccountInv, ReplyInv, IssueLabels, SaveLabels
<1>5. CASE Interrupted(r)
  BY <1>5, InterruptedFrame DEF Disclosed
<1>6. CASE Server(r)
  <2>1. CASE LoginFind(r)
    <3> DEFINE verdict == LoginVerdict(FindByEmail(req[r].email), req[r].password)
    <3>1. verdict \in {"ok", "EmailNotVerified", "InvalidCredentials"}
      BY DEF LoginVerdict
    <3>2. verdict # "InvalidCredentials"
      BY <2>1 DEF LoginFind, Step, Answer, TypeOK, Disclosed
    <3> QED BY <2>1, <3>1, <3>2, LoginVerdictOwns
  <2>2. CASE IssuePair(r) \/ LoginSave(r)
    <3>1. uid'[r] = uid[r] /\ req'[r] = req[r]
      BY <2>2 DEF IssuePair, LoginSave, SaveSession, locals
    <3>2. pc[r] \in {"login_issue", "login_save"}
      BY <2>2, <3>1
      DEF IssuePair, LoginSave, Disclosed, Goto, TypeOK, Handlers, Ready, RefreshLabels
    <3> QED BY <1>1, <1>2, <3>1, <3>2 DEF Disclosed
  <2>3. CASE ~(LoginFind(r) \/ IssuePair(r) \/ LoginSave(r))
    <3>1. req[r].route # "login" /\ req' = req
      BY <1>6, <2>3, ServerFrame
      DEF Server, RegisterFind, RegisterCreate, RefreshFind, RefreshUser, RefreshRevoke,
          RefreshSave, LogoutRevoke, MeFind, Handlers, Ready, RegisterLabels, RefreshLabels
    <3>2. pc'[r] \notin {"login_issue", "login_save"}
      BY <1>6, <2>3
      DEF Server, RegisterFind, RegisterCreate, RefreshFind, RefreshUser, RefreshRevoke,
          RefreshSave, SaveSession, LogoutRevoke, MeFind, Step, Goto, Answer, TypeOK
    <3> QED BY <3>1, <3>2 DEF Disclosed
  <2> QED BY <2>1, <2>2, <2>3
<1> QED BY <1>3, <1>4, <1>5, <1>6, Locality DEF Own

(* The verified check is made before Issue, and what was verified stays so.*)
LEMMA IssueCleared ==
  ASSUME TypeInv, AccountInv, [Next]_vars, NEW r \in Requests,
         pc'[r] \in IssueLabels \cup SaveLabels
  PROVE  Cleared(uid[r])'
<1> USE DEF TypeInv
<1>1. ASSUME pc[r] \in IssueLabels \cup SaveLabels, uid'[r] = uid[r]
      PROVE  Cleared(uid[r])'
  <2>1. uid[r] \in Users /\ Cleared(uid[r])
    BY <1>1 DEF Handlers, AccountInv
  <2> QED BY <1>1, <2>1, AccountsKept DEF Cleared, Kept, Live
<1>2. CASE Untouched(r)
  BY <1>1, <1>2 DEF Untouched
<1>3. CASE Client(r) \/ Interrupted(r)
  BY <1>3, ArrivalFrame, InterruptedFrame DEF IssueLabels, SaveLabels
<1>4. CASE Server(r)
  <2>1. CASE LoginFind(r)
    <3> DEFINE verdict == LoginVerdict(FindByEmail(req[r].email), req[r].password)
    <3>1. verdict = "ok"
      BY <2>1 DEF LoginFind, Step, Answer, TypeOK, IssueLabels, SaveLabels
    <3> QED BY <2>1, <3>1, LoginVerdictOwns
  <2>2. CASE RefreshUser(r)
    <3>1. RefreshVerdict(r) = "ok"
      BY <2>2 DEF RefreshUser, Step, Answer, TypeOK, IssueLabels, SaveLabels
    <3>2. Live(req[r].token.user) /\ users[req[r].token.user].verified
      BY <3>1, ServiceAssumption, SentinelAssumption
      DEF RefreshVerdict, FindByID, Live, SentinelAssumption
    <3>3. uid'[r] = req[r].token.user /\ users' = users
      BY <2>2 DEF RefreshUser, TypeOK
    <3> QED BY <3>2, <3>3 DEF Cleared, Live
  <2>3. CASE IssuePair(r) \/ RefreshRevoke(r)
    BY <1>1, <2>3 DEF IssuePair, RefreshRevoke, IssueLabels, locals
  <2>4. CASE ~(LoginFind(r) \/ RefreshUser(r) \/ IssuePair(r) \/ RefreshRevoke(r))
    BY <1>4, <2>4
    DEF Server, RegisterFind, RegisterCreate, RefreshFind, LoginSave, RefreshSave, SaveSession,
        LogoutRevoke, MeFind, Step, Goto, Answer, TypeOK, IssueLabels, SaveLabels
  <2> QED BY <2>1, <2>2, <2>3, <2>4
<1> QED BY <1>2, <1>3, <1>4, Locality DEF Own

(* A session token reaches a client by a save that was accepted.           *)
Saved(r) ==
  /\ pc[r] \in SaveLabels /\ SaveAccepted(r) /\ PairReady(r)
  /\ LoginSave(r) \/ RefreshSave(r)
  /\ held' = held \cup {pair[r].access, pair[r].refresh}
  /\ pc'[r] = "done" /\ uid' = uid /\ users' = users /\ req' = req

LEMMA NewTokens ==
  ASSUME TypeInv, [Next]_vars, NEW t \in held', t \notin held
  PROVE  \/ t.typ = "verify_email"
         \/ \E r \in Requests : Saved(r) /\ t \in {pair[r].access, pair[r].refresh}
<1> USE DEF TypeInv
<1>1. ASSUME NEW r \in Requests, Client(r) PROVE FALSE
  BY <1>1, ArrivalFrame
<1>2. ASSUME NEW r \in Requests, Server(r)
      PROVE  Saved(r) /\ t \in {pair[r].access, pair[r].refresh}
  <2>1. LoginSave(r) \/ RefreshSave(r)
    BY <1>2 DEF Server, RegisterFind, RegisterCreate, LoginFind, IssuePair, RefreshFind,
                RefreshUser, RefreshRevoke, LogoutRevoke, MeFind
  <2>2. pc[r] \in SaveLabels /\ PairReady(r)
    BY <2>1 DEF LoginSave, RefreshSave, SaveLabels, Handlers
  <2>3. SaveAccepted(r) /\ held' = held \cup {pair[r].access, pair[r].refresh}
    BY <2>1 DEF LoginSave, RefreshSave, SaveSession
  <2>4. pc'[r] = "done" /\ uid' = uid /\ users' = users /\ req' = req
    BY <2>1 DEF LoginSave, RefreshSave, SaveSession, Answer, locals, TypeOK
  <2> QED BY <2>1, <2>2, <2>3, <2>4 DEF Saved
<1>3. ASSUME NEW u \in Users, Outside(u) PROVE t.typ = "verify_email"
  BY <1>3 DEF Outside, OperatorVerifies, OperatorDeletes, SendVerification,
              GenerateVerifyEmailToken, sign
<1>4. CASE (\E r \in Requests : Interrupted(r)) \/ Tick \/ UNCHANGED vars
  BY <1>4 DEF Interrupted, Tick, vars
<1> QED BY <1>1, <1>2, <1>3, <1>4 DEF Next, Idle

LEMMA HeldCleared ==
  ASSUME TypeInv, AccountInv, [Next]_vars,
         NEW t \in held', t.typ \in {"access", "refresh"}
  PROVE  Cleared(t.user)'
<1> USE DEF TypeInv
<1>1. CASE t \in held
  <2>1. t.user \in Users /\ Cleared(t.user)
    BY <1>1 DEF AccountInv, TypeOK, Token
  <2> QED BY <2>1, ClearedKept
<1>2. CASE t \notin held
  <2>1. PICK r \in Requests : Saved(r) /\ t \in {pair[r].access, pair[r].refresh}
    BY <1>2, NewTokens
  <2>2. t.user = uid[r] /\ Cleared(uid[r]) /\ users' = users
    BY <2>1 DEF Saved, PairReady, AccountInv
  <2> QED BY <2>2 DEF Cleared, Live
<1> QED BY <1>1, <1>2

LEMMA AccountInvNext == TypeInv /\ AccountInv /\ [Next]_vars => AccountInv'
<1> SUFFICES ASSUME TypeInv, AccountInv, [Next]_vars PROVE AccountInv'
  OBVIOUS
<1>1. ReplyInv'
  <2>1. CASE Requests = {}
    BY <2>1 DEF ReplyInv
  <2>2. CASE \E r \in Requests : TRUE
    BY <2>2, Frame DEF AccountInv
  <2> QED BY <2>1, <2>2
<1>2. UniqueEmail'
  BY UniqueEmailStep DEF AccountInv
<1>3. \A r \in Requests :
        req'[r].route = "register" /\ reply'[r] = "ok" => Owns(r, Lower[req[r].email])'
  BY RegisterOk
<1>4. \A r \in Requests : Disclosed(r)' => Owns(r, req[r].email)'
  BY DisclosedStep
<1>5. \A r \in Requests : pc'[r] \in IssueLabels \cup SaveLabels => Cleared(uid[r])'
  BY IssueCleared
<1>6. \A t \in held' : t.typ \in {"access", "refresh"} => Cleared(t.user)'
  BY HeldCleared
<1> QED BY <1>1, <1>2, <1>3, <1>4, <1>5, <1>6 DEF AccountInv, Disclosed

LEMMA AccountInvAlways == Spec => [](TypeInv /\ AccountInv)
<1>1. Init => TypeInv /\ AccountInv
  BY TypeInvInit, AccountInvInit
<1>2. TypeInv /\ AccountInv /\ [Next]_vars => TypeInv' /\ AccountInv'
  BY TypeInvNext, AccountInvNext
<1> QED BY <1>1, <1>2, PTL DEF Spec

(* However registrations interleave, no two live accounts share an address.*)
THEOREM EmailsAreUnique == Spec => []UniqueEmail
<1>1. AccountInv => UniqueEmail
  BY DEF AccountInv
<1> QED BY <1>1, AccountInvAlways, PTL

(* Whoever was told "ok" by register has the account they asked for.       *)
THEOREM RegisteredAccountsStand == Spec => []RegisteredAccountStands
<1>1. AccountInv => RegisteredAccountStands
  BY DEF AccountInv, RegisteredAccountStands, Owns
<1> QED BY <1>1, AccountInvAlways, PTL

(* Login discloses an account's state to its password only.                *)
THEOREM VerdictsNeedPassword == Spec => []VerdictNeedsPassword
<1>1. AccountInv => VerdictNeedsPassword
  BY DEF AccountInv, VerdictNeedsPassword, Owns
<1> QED BY <1>1, AccountInvAlways, PTL

(* Session tokens are held for verified (or deleted) accounts only.        *)
THEOREM TokensNeedVerification == Spec => []VerifiedBeforeTokens
<1>1. AccountInv => VerifiedBeforeTokens
  BY DEF AccountInv, VerifiedBeforeTokens, Cleared
<1> QED BY <1>1, AccountInvAlways, PTL

-----------------------------------------------------------------------------
(* Sessions.                                                               *)

Revokes(r) ==
  /\ pc[r] \in {"logout_revoke", "refresh_revoke"}
  /\ sessions' = AfterRevoke(hashJTI(req[r].token)) /\ users' = users /\ req' = req
  /\ \/ pc[r] = "refresh_revoke" /\ pc'[r] = "refresh_issue"
     \/ pc[r] = "logout_revoke" /\ pc'[r] = "done" /\ reply'[r] = "ok"
     \/ pc'[r] = "done" /\ reply'[r] \in {"Database", "lost"}

Saves(r, expires) ==
  /\ pc[r] \in SaveLabels /\ SaveAccepted(r) /\ pc'[r] = "done"
  /\ sessions' = AfterSave(r, expires) /\ users' = users
  /\ expires = IF pc[r] = "login_save" THEN until[r] ELSE now + SevenDays

LEMMA SessionsStep ==
  ASSUME TypeInv, [Next]_vars
  PROVE  \/ sessions' = sessions
         \/ \E r \in Requests : Revokes(r)
         \/ \E r \in Requests, expires \in Int : Saves(r, expires)
         \/ \E u \in Users : OperatorDeletes(u)
<1> USE DEF TypeInv
<1>1. ASSUME NEW r \in Requests, Client(r) PROVE sessions' = sessions
  BY <1>1, ArrivalFrame
<1>2. ASSUME NEW r \in Requests, pc[r] \in SaveLabels
      PROVE  until[r] \in Int /\ now + SevenDays \in Int
  BY ServiceAssumption DEF TypeOK, ServiceAssumption
<1>3. ASSUME NEW r \in Requests, Server(r)
      PROVE  sessions' = sessions \/ Revokes(r) \/ \E expires \in Int : Saves(r, expires)
  <2>1. CASE LogoutRevoke(r) \/ RefreshRevoke(r)
    BY <2>1 DEF LogoutRevoke, RefreshRevoke, Revokes, Answer, Goto, TypeOK
  <2>2. CASE LoginSave(r)
    BY <1>2, <2>2 DEF LoginSave, SaveSession, Saves, SaveLabels, Answer, TypeOK
  <2>3. CASE RefreshSave(r)
    BY <1>2, <2>3 DEF RefreshSave, SaveSession, Saves, SaveLabels, Answer, TypeOK
  <2>4. CASE ~(LogoutRevoke(r) \/ RefreshRevoke(r) \/ LoginSave(r) \/ RefreshSave(r))
    BY <1>3, <2>4 DEF Server, RegisterFind, RegisterCreate, LoginFind, IssuePair, RefreshFind,
                      RefreshUser, MeFind
  <2> QED BY <2>1, <2>2, <2>3, <2>4
<1>4. ASSUME NEW r \in Requests, Interrupted(r)
      PROVE  sessions' = sessions \/ Revokes(r) \/ \E expires \in Int : Saves(r, expires)
  <2>1. sessions' = sessions \/ (sessions' = SessionsAfter(r) /\ users' = UsersAfter(r))
    BY <1>4 DEF Interrupted
  <2>2. pc'[r] = "done" /\ req' = req
    BY <1>4, InterruptedFrame
  <2>3. CASE pc[r] \in {"logout_revoke", "refresh_revoke"}
    <3>1. reply'[r] \in {"Database", "lost"}
      BY <1>4, <2>3 DEF Interrupted, Answer, FailureReply, TypeOK
    <3> QED BY <2>1, <2>2, <2>3, <3>1 DEF SessionsAfter, UsersAfter, Revokes
  <2>4. CASE pc[r] \in SaveLabels
    <3>1. users' = users
      BY <1>4, <2>4 DEF Interrupted, UsersAfter, SaveLabels
    <3>2. CASE pc[r] = "login_save"
      BY <1>2, <2>1, <2>2, <2>4, <3>1, <3>2 DEF SessionsAfter, Saves
    <3>3. CASE pc[r] = "refresh_save"
      BY <1>2, <2>1, <2>2, <2>4, <3>1, <3>3 DEF SessionsAfter, Saves
    <3> QED BY <2>4, <3>2, <3>3 DEF SaveLabels
  <2>5. CASE pc[r] \notin {"logout_revoke", "refresh_revoke"} \cup SaveLabels
    BY <2>1, <2>5 DEF SessionsAfter, SaveLabels
  <2> QED BY <2>3, <2>4, <2>5
<1>5. CASE (\E u \in Users : OperatorVerifies(u) \/ SendVerification(u)) \/ Tick \/ UNCHANGED vars
  BY <1>5 DEF OperatorVerifies, SendVerification, Tick, vars
<1> QED BY <1>1, <1>3, <1>4, <1>5 DEF Next, Outside, Idle

(* What a step can do to one row.                                          *)
RowKept(q) == sessions'[q] = sessions[q]
RowGone(q) == sessions[q] # None /\ sessions'[q] = None /\ users'[sessions[q].user] = Deleted
RowRevoked(q) ==
  /\ sessions[q] # None /\ sessions'[q] = [sessions[q] EXCEPT !.revoked = TRUE]
  /\ users' = users
RowSaved(q, expires) ==
  /\ pc[q] \in SaveLabels /\ Live(uid[q]) /\ users' = users
  /\ sessions'[q] = [user |-> uid[q], hash |-> HeaderPrefix, expires |-> expires, revoked |-> FALSE]

LEMMA RowStep ==
  ASSUME TypeInv, [Next]_vars, NEW q \in Requests
  PROVE  RowKept(q) \/ RowGone(q) \/ RowRevoked(q) \/ \E expires \in Int : RowSaved(q, expires)
<1> USE DEF TypeInv, TypeOK
<1>1. CASE sessions' = sessions
  BY <1>1 DEF RowKept
<1>2. CASE \E r \in Requests : Revokes(r)
  BY <1>2 DEF Revokes, AfterRevoke, RowKept, RowRevoked
<1>3. CASE \E r \in Requests, expires \in Int : Saves(r, expires)
  BY <1>3 DEF Saves, AfterSave, SaveAccepted, hashJTI, RowKept, RowSaved
<1>4. CASE \E u \in Users : OperatorDeletes(u)
  BY <1>4 DEF OperatorDeletes, RowKept, RowGone
<1> QED BY <1>1, <1>2, <1>3, <1>4, SessionsStep

LEMMA CreatedLive ==
  ASSUME TypeInv, NEW r \in Requests, Created(r), NEW u \in Users, Live(u)
  PROVE  users'[u] = users[u]
BY DEF TypeInv, TypeOK, Created, AfterCreate, Live

LEMMA VerifiesLive ==
  ASSUME TypeInv, NEW v \in Users, OperatorVerifies(v), NEW u \in Users, Live(u)
  PROVE  users'[u] # Deleted
<1>1. users[v] \in User /\ users' = [users EXCEPT ![v] = [users[v] EXCEPT !.verified = TRUE]]
  BY DEF OperatorVerifies, TypeInv, TypeOK, Live
<1>2. [users[v] EXCEPT !.verified = TRUE] \in User
  BY <1>1 DEF User
<1> QED BY <1>1, <1>2, ServiceAssumption DEF ServiceAssumption, TypeInv, TypeOK, Live

(* Deletion cascades, and a save after it is refused by the foreign key.   *)
LEMMA NoOrphanStep ==
  ASSUME TypeInv, NoOrphanSession, [Next]_vars
  PROVE  NoOrphanSession'
<1> USE DEF TypeInv, TypeOK
<1>1. ASSUME NEW q \in Requests, sessions'[q] # None
      PROVE  Live(sessions[q].user)'
  <2>1. CASE RowKept(q)
    <3>1. sessions[q] # None /\ Live(sessions[q].user) /\ sessions'[q] = sessions[q]
      BY <1>1, <2>1 DEF RowKept, NoOrphanSession
    <3>2. PICK u \in Users : u = sessions[q].user
      BY <3>1 DEF Live
    <3>3. Live(u) /\ Kept(u)
      BY <3>1, <3>2, AccountsKept
    <3>4. CASE users'[u] # Deleted
      BY <3>1, <3>2, <3>3, <3>4 DEF Kept, Live
    <3>5. CASE users'[u] = Deleted
      <4>1. users' # users
        BY <3>3, <3>5 DEF Live
      <4>2. ASSUME NEW r \in Requests, Created(r) PROVE FALSE
        BY <3>3, <3>5, <4>2, CreatedLive DEF Live
      <4>3. ASSUME NEW v \in Users, OperatorVerifies(v) PROVE FALSE
        BY <3>3, <3>5, <4>3, VerifiesLive
      <4>4. PICK v \in Users : OperatorDeletes(v)
        BY <4>1, <4>2, <4>3, UsersStep
      <4>5. v = u
        BY <3>3, <3>5, <4>4 DEF OperatorDeletes, Live
      <4> QED BY <1>1, <3>1, <3>2, <4>4, <4>5 DEF OperatorDeletes
    <3> QED BY <3>4, <3>5
  <2>2. CASE RowRevoked(q)
    <3>1. sessions[q] \in Session /\ Live(sessions[q].user) /\ users' = users
      BY <2>2 DEF RowRevoked, NoOrphanSession
    <3>2. sessions'[q].user = sessions[q].user
      BY <2>2, <3>1 DEF RowRevoked, Session
    <3> QED BY <3>1, <3>2 DEF Live
  <2>3. CASE \E expires \in Int : RowSaved(q, expires)
    BY <2>3 DEF RowSaved, Live
  <2> QED BY <1>1, <2>1, <2>2, <2>3, RowStep DEF RowGone
<1> QED BY <1>1 DEF NoOrphanSession

(* The row behind a refresh token, as SessionBacksToken wants it.          *)
Backed(t) ==
  LET row == sessions[t.jti] IN
  /\ row # None /\ row.user = t.user /\ row.hash = HeaderPrefix
  /\ req[t.jti].route = "login" => row.expires < t.exp + Second
  /\ req[t.jti].route = "refresh" /\ RefreshTTL <= SevenDays => row.expires >= t.exp

(* The times a handler carries: Issue stamps a pair before it signs it,    *)
(* the clock never goes back, and exp loses less than a second.            *)
TimesInv ==
  \A r \in Requests :
    /\ pc[r] = "login_issue" => until[r] <= now + RefreshTTL
    /\ pc[r] = "login_save" => until[r] < pair[r].refresh.exp + Second
    /\ pc[r] = "refresh_save" => pair[r].refresh.exp <= now + RefreshTTL

BackedInv ==
  \A t \in held : t.typ = "refresh" =>
    /\ t.jti \in Requests /\ pc[t.jti] = "done"
    /\ users[t.user] # Deleted => Backed(t)

SessionInv == NoOrphanSession /\ TimesInv /\ BackedInv

LEMMA SessionInvInit == Init => SessionInv
BY DEF Init, SessionInv, NoOrphanSession, TimesInv, BackedInv

LEMMA TimesStep ==
  ASSUME TypeInv, TimesInv, [Next]_vars
  PROVE  TimesInv'
<1> USE DEF TypeInv
<1>1. now' \in Nat /\ now \in Nat /\ now <= now'
  <2>1. ASSUME NEW r \in Requests, Own(r) PROVE now' = now
    BY <2>1, ArrivalFrame, ServerFrame, InterruptedFrame DEF Own
  <2>2. CASE (\E u \in Users : Outside(u)) \/ UNCHANGED vars
    BY <2>2 DEF Outside, OperatorVerifies, OperatorDeletes, SendVerification, vars, TypeOK
  <2>3. CASE Tick
    BY <2>3 DEF Tick, TypeOK
  <2> QED BY <2>1, <2>2, <2>3 DEF Next, Own, Idle, TypeOK
<1>2. ASSUME NEW r \in Requests
      PROVE  /\ pc'[r] = "login_issue" => until'[r] <= now' + RefreshTTL
             /\ pc'[r] = "login_save" => until'[r] < pair'[r].refresh.exp + Second
             /\ pc'[r] = "refresh_save" => pair'[r].refresh.exp <= now' + RefreshTTL
  <2>1. CASE Untouched(r)
    <3>1. until[r] \in Int /\ (pc[r] \in SaveLabels => pair[r].refresh.exp \in Int)
      BY DEF TypeOK, Handlers, PairReady, TokenPair, Token
    <3> QED BY <1>1, <2>1, <3>1, TTLAssumption DEF Untouched, TimesInv, TTLAssumption, SaveLabels
  <2>2. CASE Client(r) \/ Interrupted(r)
    BY <2>2, ArrivalFrame, InterruptedFrame DEF IssueLabels, SaveLabels
  <2>3. CASE LoginFind(r)
    <3>1. until' = until \/ until'[r] = now + RefreshTTL
      BY <2>3 DEF LoginFind, TypeOK
    <3>2. pc'[r] = "login_issue" => until'[r] = now + RefreshTTL
      BY <2>3 DEF LoginFind, Step, Answer, TypeOK
    <3>3. pc'[r] \in {"login_issue", "done"} /\ now' = now
      BY <2>3 DEF LoginFind, Step, Goto, Answer, TypeOK
    <3> QED BY <1>1, <3>2, <3>3, TTLAssumption DEF TTLAssumption
  <2>4. CASE IssuePair(r)
    <3>1. uid[r] \in Users
      BY <2>4 DEF IssuePair, Handlers, IssueLabels
    <3>2. /\ pair'[r].refresh.exp = Truncated(now + RefreshTTL)
          /\ until'[r] = until[r] /\ until[r] \in Int /\ now' = now
      BY <1>1, <2>4, <3>1, IssueTypes DEF IssuePair, TypeOK
    <3>4. /\ pair'[r].refresh.exp \in Int /\ pair'[r].refresh.exp <= now + RefreshTTL
          /\ now + RefreshTTL < pair'[r].refresh.exp + Second
      BY <1>1, <3>2, TTLAssumption, Truncation DEF TTLAssumption
    <3>3. \/ pc[r] = "login_issue" /\ pc'[r] = "login_save"
          \/ pc[r] = "refresh_issue" /\ pc'[r] = "refresh_save"
      BY <2>4 DEF IssuePair, Goto, TypeOK
    <3> QED BY <1>1, <3>2, <3>3, <3>4, TTLAssumption, SecondAssumption
            DEF TimesInv, TTLAssumption, SecondAssumption
  <2>5. CASE Server(r) /\ ~LoginFind(r) /\ ~IssuePair(r)
    BY <2>5 DEF Server, RegisterFind, RegisterCreate, LoginSave, RefreshFind, RefreshUser,
         RefreshRevoke, RefreshSave, SaveSession, LogoutRevoke, MeFind, Step, Goto, Answer, TypeOK
  <2> QED BY <2>1, <2>2, <2>3, <2>4, <2>5, Locality DEF Own
<1> QED BY <1>2 DEF TimesInv

(* A token the step hands out has its row from the same statement.         *)
LEMMA BackedNew ==
  ASSUME TypeInv, AccountInv, TimesInv, [Next]_vars,
         NEW t \in held', t \notin held, t.typ = "refresh"
  PROVE  t.jti \in Requests /\ pc'[t.jti] = "done" /\ Backed(t)'
<1> USE DEF TypeInv
<1>1. PICK r \in Requests : Saved(r) /\ t \in {pair[r].access, pair[r].refresh}
  BY NewTokens
<1>2. /\ t = pair[r].refresh /\ t.jti = r /\ t.user = uid[r]
      /\ t.exp \in Int /\ pc'[r] = "done" /\ req'[r] = req[r]
  BY <1>1 DEF Saved, PairReady, TokenPair, Token
<1>3. CASE LoginSave(r)
  <2>1. /\ sessions'[r].user = uid[r] /\ sessions'[r].hash = HeaderPrefix
        /\ sessions'[r].expires = until[r] /\ sessions'[r] # None
    <3>1. sessions' = AfterSave(r, until[r])
      BY <1>1, <1>3 DEF LoginSave, SaveSession, Saved
    <3>2. AfterSave(r, until[r])[r] \in Session
      <4>1. until[r] \in Int /\ uid[r] \in Users
        BY <1>1 DEF Saved, Handlers, TypeOK
      <4>2. \A h \in {HeaderPrefix} :
              [user |-> uid[r], hash |-> h, expires |-> until[r], revoked |-> FALSE] \in Session
        BY <4>1 DEF Session
      <4> QED BY <4>2 DEF AfterSave, hashJTI, TypeOK
    <3> QED BY <3>1, <3>2, SessionAssumption DEF AfterSave, hashJTI, TypeOK, SessionAssumption
  <2>2. req[r].route = "login" /\ until[r] < t.exp + Second
    BY <1>1, <1>2, <1>3 DEF LoginSave, Handlers, Ready, LoginLabels, TimesInv
  <2> QED BY <1>2, <2>1, <2>2 DEF Backed
<1>4. CASE RefreshSave(r)
  <2>1. /\ sessions'[r].user = uid[r] /\ sessions'[r].hash = HeaderPrefix
        /\ sessions'[r].expires = now + SevenDays /\ sessions'[r] # None
    <3>1. sessions' = AfterSave(r, now + SevenDays)
      BY <1>1, <1>4 DEF RefreshSave, SaveSession, Saved
    <3>2. AfterSave(r, now + SevenDays)[r] \in Session
      <4>1. now + SevenDays \in Int /\ uid[r] \in Users
        BY <1>1, ServiceAssumption DEF Saved, Handlers, TypeOK, ServiceAssumption
      <4>2. \A h \in {HeaderPrefix}, e \in Int :
              [user |-> uid[r], hash |-> h, expires |-> e, revoked |-> FALSE] \in Session
        BY <4>1 DEF Session
      <4> QED BY <4>1, <4>2 DEF AfterSave, hashJTI, TypeOK
    <3> QED BY <3>1, <3>2, SessionAssumption DEF AfterSave, hashJTI, TypeOK, SessionAssumption
  <2>2. req[r].route = "refresh" /\ t.exp <= now + RefreshTTL
    BY <1>1, <1>2, <1>4 DEF RefreshSave, Handlers, Ready, RefreshLabels, TimesInv
  <2>3. RefreshTTL <= SevenDays => now + SevenDays >= t.exp
    BY <1>2, <2>2, TTLAssumption, ServiceAssumption DEF TTLAssumption, ServiceAssumption, TypeOK
  <2> QED BY <1>2, <2>1, <2>2, <2>3 DEF Backed
<1> QED BY <1>1, <1>2, <1>3, <1>4 DEF Saved

(* Once its request is answered, nothing but a revocation or the deletion  *)
(* of the account touches the row.                                         *)
LEMMA BackedKept ==
  ASSUME TypeInv, ReplyInv, [Next]_vars, NEW t \in held, t.jti \in Requests,
         pc[t.jti] = "done", users'[t.user] # Deleted,
         users[t.user] # Deleted => Backed(t)
  PROVE  Backed(t)'
<1> USE DEF TypeInv
<1>1. t.user \in Users /\ t.exp \in Int
  BY DEF TypeOK, Token
<1>2. PICK q \in Requests : q = t.jti
  OBVIOUS
<1>3. users[t.user] # Deleted
  <2>1. Kept(t.user)
    BY <1>1, AccountsKept
  <2> QED BY <2>1 DEF Kept
<1>4. Backed(t) /\ req'[q] = req[q] /\ pc[q] = "done"
  BY <1>2, <1>3, Frame
<1>5. CASE RowKept(q)
  BY <1>2, <1>4, <1>5 DEF RowKept, Backed
<1>6. CASE RowGone(q)
  BY <1>2, <1>4, <1>6 DEF RowGone, Backed
<1>7. CASE RowRevoked(q)
  <2>1. sessions[q] \in Session /\ sessions'[q] = [sessions[q] EXCEPT !.revoked = TRUE]
    BY <1>7 DEF RowRevoked, TypeOK
  <2>2. /\ sessions'[q].user = sessions[q].user /\ sessions'[q].hash = sessions[q].hash
        /\ sessions'[q].expires = sessions[q].expires /\ sessions'[q] \in Session
    BY <2>1 DEF Session
  <2> QED BY <1>2, <1>4, <2>2, SessionAssumption DEF Backed, SessionAssumption
<1>8. CASE \E expires \in Int : RowSaved(q, expires)
  BY <1>4, <1>8 DEF RowSaved, SaveLabels
<1> QED BY <1>5, <1>6, <1>7, <1>8, RowStep

LEMMA BackedInvStep ==
  ASSUME TypeInv, AccountInv, SessionInv, [Next]_vars
  PROVE  BackedInv'
<1>1. ASSUME NEW t \in held', t.typ = "refresh"
      PROVE  t.jti \in Requests /\ pc'[t.jti] = "done" /\ (users'[t.user] # Deleted => Backed(t)')
  <2>1. CASE t \in held
    <3>1. /\ t.jti \in Requests /\ pc[t.jti] = "done"
          /\ users[t.user] # Deleted => Backed(t)
      BY <1>1, <2>1 DEF SessionInv, BackedInv
    <3>2. ReplyInv
      BY DEF AccountInv
    <3>3. pc'[t.jti] = "done"
      BY <3>1, <3>2, Frame DEF Untouched
    <3> QED BY <2>1, <3>1, <3>2, <3>3, BackedKept
  <2>2. CASE t \notin held
    BY <1>1, <2>2, BackedNew DEF SessionInv
  <2> QED BY <2>1, <2>2
<1> QED BY <1>1 DEF BackedInv

LEMMA SessionInvAlways == Spec => [](TypeInv /\ AccountInv /\ SessionInv)
<1>1. TypeInv /\ AccountInv /\ SessionInv /\ [Next]_vars => SessionInv'
  <2> SUFFICES ASSUME TypeInv, AccountInv, SessionInv, [Next]_vars PROVE SessionInv'
    OBVIOUS
  <2>1. NoOrphanSession'
    BY NoOrphanStep DEF SessionInv
  <2>2. TimesInv'
    BY TimesStep DEF SessionInv
  <2>3. BackedInv'
    BY BackedInvStep
  <2> QED BY <2>1, <2>2, <2>3 DEF SessionInv
<1>2. Init => SessionInv
  BY SessionInvInit
<1> QED BY <1>1, <1>2, AccountInvAlways, PTL DEF Spec

(* A deletion and a save in any order leave no session without account.    *)
THEOREM NoSessionOutlivesItsAccount == Spec => []NoOrphanSession
<1>1. SessionInv => NoOrphanSession
  BY DEF SessionInv
<1> QED BY <1>1, SessionInvAlways, PTL

(* Every refresh token a client holds has its session row.                 *)
THEOREM SessionsBackTokens == Spec => []SessionBacksToken
<1>1. SessionInv => SessionBacksToken
  BY DEF SessionInv, BackedInv, Backed, SessionBacksToken, hashJTI
<1> QED BY <1>1, SessionInvAlways, PTL

-----------------------------------------------------------------------------
(* Revocation.                                                             *)

(* The statement revokes every row, as all rows share one hash.            *)
LEMMA RevokesAll ==
  ASSUME TypeInv, NEW r \in Requests, Revokes(r), NEW q \in Requests, sessions'[q] # None
  PROVE  sessions'[q].revoked
<1>1. sessions[q] # None /\ sessions[q] \in Session
  BY DEF Revokes, AfterRevoke, TypeInv, TypeOK
<1>2. sessions[q].hash = HeaderPrefix
  BY <1>1 DEF Session
<1>3. sessions'[q] = [sessions[q] EXCEPT !.revoked = TRUE]
  BY <1>1, <1>2 DEF Revokes, AfterRevoke, hashJTI
<1> QED BY <1>1, <1>3 DEF Session

SpentInv ==
  \A r \in Requests : Spent(r) =>
    /\ req[r].token \in held /\ req[r].token.typ = "refresh"
    /\ sessions[req[r].token.jti] # None => sessions[req[r].token.jti].revoked

StatementErrors == {"Database", "ForeignKeyViolation"}

(* No statement runs before a request is let in, so none can have failed.  *)
LEMMA DoorVerdicts ==
  ASSUME TypeInv, ReplyInv, NEW r \in Requests, Client(r)
  PROVE  reply'[r] \notin StatementErrors
<1>1. reply[r] \notin StatementErrors
  BY ArrivalFrame DEF ReplyInv, StatementErrors
<1>a. \A err \in {"BadFormat", "BadFields", "ok"} : err \notin StatementErrors
  BY DEF StatementErrors
<1>2. ASSUME NEW route, NEW q, NEW verdict, NEW label, verdict \notin StatementErrors,
             Arrive(r, route, q, verdict, label)
      PROVE  reply'[r] \notin StatementErrors
  BY <1>1, <1>2 DEF Arrive, Step, Goto, Answer, TypeInv, TypeOK
<1>3. \A caller, token :
        /\ VerifyVerdict(token) \notin StatementErrors
        /\ RequireAuth(token) \notin StatementErrors
        /\ RefreshAdmission(token) \notin StatementErrors
        /\ LogoutVerdict(caller, token) \notin StatementErrors
        /\ NewUserVerdict(token) \notin StatementErrors
  BY DEF VerifyVerdict, RequireAuth, RefreshAdmission, LogoutVerdict, NewUserVerdict,
         ValidateAccessToken, ValidateRefreshToken, validateTyped, ValidateToken,
         StatementErrors
<1>4. CASE RejectBody(r)
  BY <1>2, <1>4, <1>a DEF RejectBody
<1>5. CASE ArriveRegister(r) \/ ArriveLogin(r)
  BY <1>2, <1>3, <1>5, <1>a DEF ArriveRegister, ArriveLogin
<1>6. CASE ArriveRefresh(r) \/ ArriveVerify(r)
  BY <1>2, <1>3, <1>6 DEF ArriveRefresh, ArriveVerify
<1>7. CASE ArriveLogout(r)
  <2>1. PICK token \in Presentable, bearer \in Bearers :
          \/ Arrive(r, "logout", NoRequest, RequireAuth(bearer), "done")
          \/ Arrive(r, "logout",
                    [NoRequest EXCEPT !.route = "logout", !.token = token, !.caller = bearer.user],
                    LogoutVerdict(bearer.user, token), "logout_revoke")
    BY <1>7 DEF ArriveLogout
  <2> QED BY <1>2, <1>3, <2>1
<1>8. CASE ArriveMe(r)
  <2>1. PICK bearer \in Bearers :
          \/ Arrive(r, "me", NoRequest, RequireAuth(bearer), "done")
          \/ Arrive(r, "me", [NoRequest EXCEPT !.route = "me", !.caller = bearer.user],
                    "ok", "me_find")
    BY <1>8 DEF ArriveMe
  <2> QED BY <1>2, <1>3, <1>a, <2>1
<1> QED BY <1>4, <1>5, <1>6, <1>7, <1>8 DEF Client

LEMMA SpentStep ==
  ASSUME TypeInv, AccountInv, [Next]_vars, NEW r \in Requests, Spent(r)'
  PROVE  /\ req'[r] = req[r]
         /\ \/ Spent(r)
            \/ Revokes(r) /\ req[r].token \in held /\ req[r].token.typ = "refresh"
<1> USE DEF TypeInv
<1>1. CASE Untouched(r)
  BY <1>1 DEF Untouched, Spent
<1>2. CASE Client(r)
  BY <1>2, ArrivalFrame, DoorVerdicts, ErrorNames
     DEF Spent, AccountInv, ReplyInv, IssueLabels, SaveLabels, StatementErrors
<1>3. CASE Interrupted(r)
  <2>1. reply'[r] \in {"lost", "Database", "TokenInvalid"}
    BY <1>3 DEF Interrupted, Answer, FailureReply, TypeOK
  <2> QED BY <1>3, <2>1, InterruptedFrame DEF Spent
<1>4. CASE Server(r)
  <2>1. req'[r] = req[r]
    BY <1>4, ServerFrame
  <2>2. CASE LogoutRevoke(r) \/ RefreshRevoke(r)
    BY <2>1, <2>2 DEF LogoutRevoke, RefreshRevoke, Revokes, Handlers, Ready, RefreshLabels,
                      Goto, Answer, TypeOK
  <2>3. CASE IssuePair(r) \/ RefreshSave(r)
    <3>1. pc[r] \in {"login_issue", "refresh_issue", "refresh_save"}
      BY <2>3 DEF IssuePair, RefreshSave
    <3>2. pc[r] = "login_issue" => req[r].route = "login"
      BY DEF Handlers, Ready, LoginLabels
    <3>3. pc[r] \in {"refresh_issue", "refresh_save"} => req[r].route = "refresh"
      BY DEF Handlers, Ready, RefreshLabels
    <3> QED BY <2>1, <3>1, <3>2, <3>3 DEF Spent
  <2>4. CASE ~(LogoutRevoke(r) \/ RefreshRevoke(r) \/ IssuePair(r) \/ RefreshSave(r))
    <3>1. pc'[r] \notin {"refresh_issue", "refresh_save"}
      BY <1>4, <2>4
      DEF Server, RegisterFind, RegisterCreate, LoginFind, LoginSave, RefreshFind, RefreshUser,
          SaveSession, MeFind, Step, Goto, Answer, TypeOK
    <3>2. CASE RefreshFind(r) \/ RefreshUser(r)
      <4>1. reply'[r] \notin {"ok", "ForeignKeyViolation"}
        BY <3>2 DEF RefreshFind, RefreshUser, RefreshVerdict, Step, Goto, Answer, TypeOK,
                    AccountInv, ReplyInv
      <4> QED BY <3>1, <4>1 DEF Spent
    <3>3. CASE ~(RefreshFind(r) \/ RefreshUser(r))
      <4>1. req[r].route \notin {"refresh", "logout"}
        BY <1>4, <2>4, <3>3
        DEF Server, RegisterFind, RegisterCreate, LoginFind, LoginSave, MeFind, Handlers, Ready,
            RegisterLabels, LoginLabels
      <4> QED BY <2>1, <4>1 DEF Spent
    <3> QED BY <3>2, <3>3
  <2> QED BY <2>2, <2>3, <2>4
<1> QED BY <1>1, <1>2, <1>3, <1>4, Locality DEF Own

LEMMA SpentInvStep ==
  ASSUME TypeInv, AccountInv, SessionInv, SpentInv, [Next]_vars
  PROVE  SpentInv'
<1> USE DEF TypeInv
<1>1. ASSUME NEW r \in Requests, Spent(r)'
      PROVE  /\ req'[r].token \in held' /\ req'[r].token.typ = "refresh"
             /\ sessions'[req'[r].token.jti] # None => sessions'[req'[r].token.jti].revoked
  <2>1. /\ req'[r] = req[r]
        /\ req[r].token \in held /\ req[r].token.typ = "refresh"
        /\ Spent(r) \/ Revokes(r)
    BY <1>1, SpentStep DEF SpentInv
  <2>2. PICK q \in Requests : q = req[r].token.jti /\ pc[q] = "done"
    BY <2>1 DEF SessionInv, BackedInv
  <2>3. req'[r].token \in held' /\ req'[r].token.typ = "refresh"
    BY <2>1, HeldGrows
  <2>4. ASSUME sessions'[q] # None PROVE sessions'[q].revoked
    <3>1. CASE Revokes(r)
      BY <2>4, <3>1, RevokesAll
    <3>2. CASE Spent(r)
      <4>1. sessions[q] # None => sessions[q].revoked
        BY <2>2, <3>2 DEF SpentInv
      <4>2. CASE RowKept(q)
        BY <2>4, <4>1, <4>2 DEF RowKept
      <4>3. CASE RowRevoked(q)
        <5>1. sessions[q] \in Session
          BY <4>3 DEF RowRevoked, TypeOK
        <5> QED BY <4>3, <5>1 DEF RowRevoked, Session
      <4> QED BY <2>2, <2>4, <4>2, <4>3, RowStep DEF RowGone, RowSaved, SaveLabels
    <3> QED BY <2>1, <3>1, <3>2
  <2> QED BY <2>1, <2>2, <2>3, <2>4
<1> QED BY <1>1 DEF SpentInv

LEMMA SpentInvInit == Init => SpentInv
BY ServiceAssumption DEF Init, SpentInv, Spent

LEMMA CauseKept ==
  ASSUME TypeInv, AccountInv, [Next]_vars, NEW r \in Requests, MayHaveRevoked(r)
  PROVE  MayHaveRevoked(r)'
<1> USE DEF TypeInv
<1>1. req'[r] = req[r] /\ held \subseteq held'
  BY Frame, HeldGrows DEF MayHaveRevoked, AccountInv
<1>2. CASE Untouched(r)
  BY <1>1, <1>2 DEF Untouched, MayHaveRevoked
<1>3. CASE pc[r] = "done"
  BY <1>1, <1>2, <1>3, Frame DEF AccountInv
<1>4. CASE pc[r] \in {"refresh_issue", "refresh_save"} /\ Own(r)
  <2>1. req[r].route = "refresh" /\ req[r].token \in held /\ req[r].token.typ = "refresh"
    BY <1>4 DEF Handlers, Ready, RefreshLabels
  <2>2. CASE Interrupted(r)
    <3>1. pc'[r] = "done" /\ reply'[r] \in {"Database", "lost"}
      BY <1>4, <2>2 DEF Interrupted, Answer, FailureReply, TypeOK
    <3> QED BY <1>1, <2>1, <3>1 DEF MayHaveRevoked
  <2>3. CASE Server(r)
    <3>1. IssuePair(r) \/ RefreshSave(r)
      BY <1>4, <2>3
      DEF Server, RegisterFind, RegisterCreate, LoginFind, LoginSave, RefreshFind, RefreshUser,
          RefreshRevoke, LogoutRevoke, MeFind
    <3>2. \/ pc'[r] = "refresh_save"
          \/ pc'[r] = "done" /\ reply'[r] \in {"ok", "ForeignKeyViolation"}
      BY <1>4, <3>1 DEF IssuePair, RefreshSave, SaveSession, Goto, Answer, TypeOK
    <3> QED BY <1>1, <2>1, <3>2 DEF MayHaveRevoked
  <2>4. CASE Client(r)
    BY <1>4, <2>4, ArrivalFrame
  <2> QED BY <1>4, <2>2, <2>3, <2>4 DEF Own
<1> QED BY <1>2, <1>3, <1>4, Locality DEF MayHaveRevoked

LEMMA CauseStep ==
  ASSUME TypeInv, AccountInv, RevocationHasCause, [Next]_vars
  PROVE  RevocationHasCause'
<1> USE DEF TypeInv
<1>1. ASSUME NEW q \in Requests, sessions'[q] # None, sessions'[q].revoked
      PROVE  \E r \in Requests : MayHaveRevoked(r)'
  <2>1. CASE \E r \in Requests : Revokes(r)
    <3>1. PICK r \in Requests : Revokes(r)
      BY <2>1
    <3>2. /\ req[r].token \in held /\ req[r].token.typ = "refresh"
          /\ pc[r] = "logout_revoke" =>
               req[r].route = "logout" /\ req[r].token.user = req[r].caller
          /\ pc[r] = "refresh_revoke" => req[r].route = "refresh"
      BY <3>1 DEF Revokes, Handlers, Ready, RefreshLabels
    <3>3. held \subseteq held'
      BY HeldGrows
    <3>4. MayHaveRevoked(r)'
      BY <3>1, <3>2, <3>3 DEF Revokes, MayHaveRevoked
    <3> QED BY <3>4
  <2>2. CASE sessions[q] # None /\ sessions[q].revoked
    BY <2>2, CauseKept DEF RevocationHasCause
  <2>3. CASE /\ ~\E r \in Requests : Revokes(r)
             /\ ~(sessions[q] # None /\ sessions[q].revoked)
    <3>1. sessions' # sessions
      BY <1>1, <2>3
    <3>2. CASE \E r \in Requests, expires \in Int : Saves(r, expires)
      BY <1>1, <2>3, <3>2 DEF Saves, AfterSave, TypeOK
    <3>3. CASE \E u \in Users : OperatorDeletes(u)
      BY <1>1, <2>3, <3>3 DEF OperatorDeletes, TypeOK
    <3> QED BY <2>3, <3>1, <3>2, <3>3, SessionsStep
  <2> QED BY <2>1, <2>2, <2>3
<1> QED BY <1>1 DEF RevocationHasCause

LEMMA RevocationInvAlways == Spec => [](SpentInv /\ RevocationHasCause)
<1>1. TypeInv /\ AccountInv /\ SessionInv /\ SpentInv /\ [Next]_vars => SpentInv'
  BY SpentInvStep
<1>2. TypeInv /\ AccountInv /\ RevocationHasCause /\ [Next]_vars => RevocationHasCause'
  BY CauseStep
<1>3. Init => SpentInv /\ RevocationHasCause
  <2>1. Init => RevocationHasCause
    BY DEF Init, RevocationHasCause
  <2> QED BY <2>1, SpentInvInit
<1> QED BY <1>1, <1>2, <1>3, SessionInvAlways, PTL DEF Spec

(* What logout and refresh promise of the token they were given: after the *)
(* answer its session never comes back.                                    *)
THEOREM SpentTokensAreRevoked == Spec => []SpentTokenIsRevoked
<1>1. SpentInv => SpentTokenIsRevoked
  BY DEF SpentInv, SpentTokenIsRevoked
<1> QED BY <1>1, RevocationInvAlways, PTL

(* No session is revoked without a caller who was entitled to revoke one.  *)
THEOREM RevocationsHaveCause == Spec => []RevocationHasCause
BY RevocationInvAlways, PTL

-----------------------------------------------------------------------------
(* Answers that refresh never gives.                                       *)

LEMMA RefreshArrival ==
  ASSUME TypeInv, NEW r \in Requests, Client(r), req'[r].route = "refresh"
  PROVE  /\ pc'[r] \in {"refresh_find", "done"}
         /\ reply'[r] \in {reply[r], "TokenExpired", "TokenInvalid"}
<1> USE DEF TypeInv, TypeOK, Arrive
<1>1. NoRequest.route # "refresh"
  BY ServiceAssumption DEF NoRequest, ServiceAssumption, AllRoutes
<1>2. ~RejectBody(r) /\ ~ArriveRegister(r) /\ ~ArriveLogin(r) /\ ~ArriveVerify(r)
  BY <1>1 DEF RejectBody, ArriveRegister, ArriveLogin, ArriveVerify, NoRequest
<1>3. ~ArriveLogout(r) /\ ~ArriveMe(r)
  <2>1. ASSUME ArriveLogout(r) PROVE FALSE
    <3>1. PICK token \in Presentable, bearer \in Bearers :
            \/ req'[r] = NoRequest
            \/ req'[r] = [NoRequest EXCEPT !.route = "logout", !.token = token,
                                          !.caller = bearer.user]
      BY <2>1 DEF ArriveLogout
    <3>2. CASE req'[r] = NoRequest
      BY <1>1, <3>2
    <3>3. CASE req'[r] = [NoRequest EXCEPT !.route = "logout", !.token = token,
                                        !.caller = bearer.user]
      BY <3>3 DEF NoRequest
    <3> QED BY <3>1, <3>2, <3>3
  <2>2. ASSUME ArriveMe(r) PROVE FALSE
    <3>1. PICK bearer \in Bearers :
            \/ req'[r] = NoRequest
            \/ req'[r] = [NoRequest EXCEPT !.route = "me", !.caller = bearer.user]
      BY <2>2 DEF ArriveMe
    <3>2. CASE req'[r] = NoRequest
      BY <1>1, <3>2
    <3>3. CASE req'[r] = [NoRequest EXCEPT !.route = "me", !.caller = bearer.user]
      BY <3>3 DEF NoRequest
    <3> QED BY <3>1, <3>2, <3>3
  <2> QED BY <2>1, <2>2
<1>4. PICK token \in Presentable :
        Arrive(r, "refresh", [NoRequest EXCEPT !.route = "refresh", !.token = token],
               RefreshAdmission(token), "refresh_find")
  BY <1>2, <1>3 DEF Client, ArriveRefresh
<1>5. RefreshAdmission(token) \in {"ok", "TokenExpired", "TokenInvalid"}
  BY DEF RefreshAdmission
<1> QED BY <1>4, <1>5 DEF Step, Goto, Answer

LEMMA RefreshMeetsVerifiedStep ==
  ASSUME TypeInv, AccountInv, RefreshMeetsVerified, [Next]_vars
  PROVE  RefreshMeetsVerified'
<1> USE DEF TypeInv, TypeOK
<1>1. ASSUME NEW r \in Requests, req'[r].route = "refresh" PROVE reply'[r] # "EmailNotVerified"
  <2>1. CASE Untouched(r)
    BY <1>1, <2>1 DEF Untouched, RefreshMeetsVerified
  <2>2. CASE Client(r)
    <3>1. reply[r] = "none"
      BY <2>2, ArrivalFrame DEF AccountInv, ReplyInv
    <3> QED BY <1>1, <2>2, <3>1, RefreshArrival
  <2>3. CASE Server(r)
    <3>1. req[r].route = "refresh" /\ pc[r] # "done"
      BY <1>1, <2>3, ServerFrame
    <3>2. reply[r] = "none" /\ pc[r] \in RefreshLabels
      <4>1. pc[r] \in RefreshLabels
        BY <2>3, <3>1, ServerFrame
        DEF Handlers, Ready, RegisterLabels, LoginLabels, RefreshLabels, Labels
      <4> QED BY <3>1, <4>1 DEF AccountInv, ReplyInv
    <3>3. CASE RefreshUser(r)
      <4>1. req[r].token \in held /\ req[r].token.typ = "refresh"
        BY <3>2 DEF Handlers, Ready
      <4>2. Cleared(req[r].token.user)
        BY <4>1 DEF AccountInv
      <4>3. RefreshVerdict(r) # "EmailNotVerified"
        BY <4>2 DEF RefreshVerdict, FindByID, Cleared, Live
      <4> QED BY <3>2, <3>3, <4>3 DEF RefreshUser, Step, Goto, Answer
    <3>4. CASE ~RefreshUser(r)
      BY <2>3, <3>2, <3>4
      DEF Server, RegisterFind, RegisterCreate, LoginFind, IssuePair, LoginSave, RefreshFind,
          RefreshRevoke, RefreshSave, SaveSession, LogoutRevoke, MeFind, Goto, Answer,
          RefreshLabels
    <3> QED BY <3>3, <3>4
  <2>4. CASE Interrupted(r)
    BY <2>4, InterruptedFrame
  <2> QED BY <2>1, <2>2, <2>3, <2>4, Locality DEF Own
<1> QED BY <1>1 DEF RefreshMeetsVerified

(* Only verified accounts get tokens, at any distance from the check, and  *)
(* so refresh's own check of the address never refuses anybody.            *)
THEOREM RefreshesMeetVerified == Spec => []RefreshMeetsVerified
<1>1. Init => RefreshMeetsVerified
  BY DEF Init, RefreshMeetsVerified
<1> QED BY <1>1, RefreshMeetsVerifiedStep, AccountInvAlways, PTL DEF Spec

(* With the query as it stands (user_session_repository.go 33-52, on the   *)
(* migrated schema) a refresh ends where it looks its session up.          *)
EndsAtLookup ==
  \A r \in Requests : req[r].route = "refresh" =>
    pc[r] \in {"refresh_find", "done"} /\ reply[r] # "ok"

LEMMA EndsAtLookupStep ==
  ASSUME SessionStore = "postgres", TypeInv, ReplyInv, EndsAtLookup, [Next]_vars
  PROVE  EndsAtLookup'
<1> USE DEF TypeInv, TypeOK
<1>1. ASSUME NEW r \in Requests, req'[r].route = "refresh"
      PROVE  pc'[r] \in {"refresh_find", "done"} /\ reply'[r] # "ok"
  <2>1. CASE Untouched(r)
    BY <1>1, <2>1 DEF Untouched, EndsAtLookup
  <2>2. CASE Client(r)
    <3>1. reply[r] = "none"
      BY <2>2, ArrivalFrame DEF ReplyInv
    <3> QED BY <1>1, <2>2, <3>1, RefreshArrival
  <2>3. CASE Server(r)
    <3>1. pc[r] = "refresh_find" /\ reply[r] = "none"
      BY <1>1, <2>3, ServerFrame DEF EndsAtLookup, ReplyInv
    <3>2. RefreshFind(r) /\ FindByJTIHash(hashJTI(req[r].token)) = {}
      BY <2>3, <3>1
      DEF Server, RegisterFind, RegisterCreate, LoginFind, IssuePair, LoginSave, RefreshUser,
          RefreshRevoke, RefreshSave, LogoutRevoke, MeFind, FindByJTIHash
    <3> QED BY <3>2 DEF RefreshFind, Answer
  <2>4. CASE Interrupted(r)
    BY <2>4, InterruptedFrame
  <2> QED BY <2>1, <2>2, <2>3, <2>4, Locality DEF Own
<1> QED BY <1>1 DEF EndsAtLookup

(* No sequence of calls whatever ends in a successful refresh: the finding *)
(* of the run refresh_refused for every schedule and every token.          *)
THEOREM PostgresRefusesRefresh ==
  ASSUME SessionStore = "postgres"
  PROVE  Spec => []EndsAtLookup
<1>1. Init => EndsAtLookup
  BY ServiceAssumption DEF Init, EndsAtLookup, NoRequest, ServiceAssumption, AllRoutes
<1>2. AccountInv => ReplyInv
  BY DEF AccountInv
<1>3. TypeInv /\ ReplyInv /\ EndsAtLookup /\ [Next]_vars => EndsAtLookup'
  BY EndsAtLookupStep
<1> QED BY <1>1, <1>2, <1>3, AccountInvAlways, PTL DEF Spec

-----------------------------------------------------------------------------
(* Progress, as far as single steps show it.                               *)

LEMMA StepsLeftOf ==
  /\ StepsLeft["done"] = 0 /\ StepsLeft["idle"] = 6
  /\ \A label \in Labels \ {"done"} : StepsLeft[label] \in 1..6
  /\ \A label \in Labels \ {"idle"} : StepsLeft[label] \in 0..5
  /\ StepsLeft["register_find"] = 2 /\ StepsLeft["register_create"] = 1
  /\ StepsLeft["login_find"] = 3 /\ StepsLeft["login_issue"] = 2 /\ StepsLeft["login_save"] = 1
  /\ StepsLeft["refresh_find"] = 5 /\ StepsLeft["refresh_user"] = 4
  /\ StepsLeft["refresh_revoke"] = 3 /\ StepsLeft["refresh_issue"] = 2
  /\ StepsLeft["refresh_save"] = 1
BY DEF StepsLeft, Labels

(* A handler's step goes to a later statement or to the answer.            *)
LEMMA ServerAdvances ==
  ASSUME TypeInv, NEW r \in Requests, Server(r)
  PROVE  StepsLeft[pc'[r]] < StepsLeft[pc[r]]
<1> USE StepsLeftOf DEF TypeInv, TypeOK
<1>1. CASE pc'[r] = "done"
  <2>1. pc[r] \in Labels \ {"done"}
    BY ServerFrame
  <2> QED BY <1>1, <2>1
<1>2. CASE pc'[r] # "done"
  <2>1. \/ pc[r] = "register_find" /\ pc'[r] = "register_create"
        \/ pc[r] = "login_find" /\ pc'[r] = "login_issue"
        \/ pc[r] = "login_issue" /\ pc'[r] = "login_save"
        \/ pc[r] = "refresh_issue" /\ pc'[r] = "refresh_save"
        \/ pc[r] = "refresh_find" /\ pc'[r] = "refresh_user"
        \/ pc[r] = "refresh_user" /\ pc'[r] = "refresh_revoke"
        \/ pc[r] = "refresh_revoke" /\ pc'[r] = "refresh_issue"
    BY <1>2
    DEF Server, RegisterFind, RegisterCreate, LoginFind, IssuePair, LoginSave, RefreshFind,
        RefreshUser, RefreshRevoke, RefreshSave, SaveSession, LogoutRevoke, MeFind,
        Step, Goto, Answer
  <2> QED BY <2>1
<1> QED BY <1>1, <1>2

LEMMA RequestAdvances ==
  ASSUME TypeInv, [Next]_vars, NEW r \in Requests
  PROVE  StateOf(r)' = StateOf(r) \/ StepsLeft[pc'[r]] < StepsLeft[pc[r]]
<1> USE DEF TypeInv, TypeOK
<1>1. CASE Untouched(r)
  BY <1>1 DEF Untouched, StateOf
<1>2. CASE Client(r)
  <2>1. pc[r] = "idle" /\ pc'[r] \in Labels \ {"idle"}
    <3>1. pc'[r] \in Labels
      BY <1>2, ArrivalShape DEF ArrivesReady, Step, Goto, Answer, Labels
    <3> QED BY <1>2, <3>1, ArrivalFrame
  <2> QED BY <2>1, StepsLeftOf
<1>3. CASE Server(r)
  BY <1>3, ServerAdvances
<1>4. CASE Interrupted(r)
  <2>1. pc[r] \in Labels \ {"done"} /\ pc'[r] = "done"
    BY <1>4, InterruptedFrame
  <2> QED BY <2>1, StepsLeftOf
<1> QED BY <1>1, <1>2, <1>3, <1>4, Locality DEF Own

(* Every step of a request, a failure included, brings it nearer to its    *)
(* answer; what others do never sends it back.                             *)
THEOREM HandlersOnlyAdvance == Spec => HandlersAdvance
<1>1. TypeInv /\ [Next]_vars =>
        [\A r \in Requests : StateOf(r)' = StateOf(r) \/ StepsLeft[pc'[r]] < StepsLeft[pc[r]]]_vars
  BY RequestAdvances
<1> QED BY <1>1, TypeInvAlways, PTL DEF Spec, HandlersAdvance
=============================================================================
