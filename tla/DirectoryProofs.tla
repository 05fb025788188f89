-------------------------- MODULE DirectoryProofs --------------------------
(***************************************************************************)
(* The handlers implement Directory: every step of the user module is a    *)
(* step of the abstract specification or changes nothing that it knows of. *)
(***************************************************************************)
EXTENDS AuthSafetyProofs

(* A row appears with its request's answer, a request that has not come in *)
(* is blank, and a refresh opens its session for the user of the token.    *)
RefreshHolds == {"refresh_revoke", "refresh_issue", "refresh_save"}
RefInv ==
  /\ \A r \in Requests : pc[r] # "done" => sessions[r] = None
  /\ \A r \in Requests : pc[r] = "idle" => req[r] = NoRequest
  /\ \A r \in Requests : pc[r] \in RefreshHolds => uid[r] = req[r].token.user

LEMMA RefInvInit == Init => RefInv
BY DEF Init, RefInv, RefreshHolds

LEMMA SavedIsRow ==
  ASSUME TypeInv, NEW r \in Requests, NEW expires \in Int, RowSaved(r, expires)
  PROVE  sessions'[r] \in Session /\ sessions'[r] # None
<1>1. uid[r] \in Users
  BY DEF RowSaved, Live
<1>2. \A u \in Users, h \in {HeaderPrefix}, e \in Int :
        [user |-> u, hash |-> h, expires |-> e, revoked |-> FALSE] \in Session
  BY DEF Session
<1>3. sessions'[r] \in Session
  BY <1>1, <1>2 DEF RowSaved
<1> QED BY <1>3, SessionAssumption DEF SessionAssumption

LEMMA RefreshUserKept ==
  ASSUME TypeInv, RefInv, [Next]_vars, NEW r \in Requests, pc'[r] \in RefreshHolds
  PROVE  uid'[r] = req'[r].token.user
<1> USE DEF TypeInv
<1>1. CASE Untouched(r)
  BY <1>1 DEF Untouched, RefInv
<1>2. CASE Client(r)
  <2>1. ArrivesReady(r)
    BY <1>2, ArrivalShape
  <2> QED BY <2>1 DEF ArrivesReady, Step, Goto, Answer, TypeOK, RefreshHolds
<1>3. CASE Interrupted(r)
  BY <1>3, InterruptedFrame DEF RefreshHolds
<1>4. CASE Server(r)
  <2>1. CASE RefreshUser(r)
    BY <2>1 DEF RefreshUser, TypeOK
  <2>2. CASE IssuePair(r)
    BY <2>2 DEF IssuePair, Goto, TypeOK, RefreshHolds, RefInv
  <2>3. CASE RefreshRevoke(r)
    BY <2>3 DEF RefreshRevoke, locals, RefreshHolds, RefInv
  <2>4. CASE ~(RefreshUser(r) \/ IssuePair(r) \/ RefreshRevoke(r))
    BY <1>4, <2>4
    DEF Server, RegisterFind, RegisterCreate, LoginFind, LoginSave, RefreshFind, RefreshSave,
        SaveSession, LogoutRevoke, MeFind, Step, Goto, Answer, TypeOK, RefreshHolds
  <2> QED BY <2>1, <2>2, <2>3, <2>4
<1> QED BY <1>1, <1>2, <1>3, <1>4, Locality DEF Own

LEMMA RefInvStep ==
  ASSUME TypeInv, AccountInv, RefInv, [Next]_vars
  PROVE  RefInv'
<1>1. ASSUME NEW r \in Requests, pc'[r] # "done" PROVE sessions'[r] = None
  <2>1. pc[r] # "done"
    BY <1>1, Frame DEF AccountInv, Untouched
  <2>2. sessions[r] = None
    BY <2>1 DEF RefInv
  <2>3. ASSUME NEW expires \in Int, RowSaved(r, expires) PROVE FALSE
    <3>1. \E q \in Requests, e \in Int : Saves(q, e)
      <4>1. sessions' # sessions
        BY <2>2, <2>3, SavedIsRow
      <4>2. ASSUME NEW u \in Users, OperatorDeletes(u) PROVE FALSE
        BY <2>3, <4>2, SavedIsRow, ServiceAssumption
        DEF RowSaved, OperatorDeletes, ServiceAssumption, Live, TypeInv, TypeOK
      <4>3. ASSUME NEW q \in Requests, Revokes(q) PROVE FALSE
        BY <2>2, <2>3, <4>3, SavedIsRow DEF Revokes, AfterRevoke
      <4> QED BY <4>1, <4>2, <4>3, SessionsStep
    <3>2. PICK q \in Requests, e \in Int : Saves(q, e)
      BY <3>1
    <3>3. q # r
      BY <1>1, <3>2 DEF Saves
    <3>4. sessions'[r] = sessions[r]
      BY <3>2, <3>3 DEF Saves, AfterSave, TypeInv, TypeOK
    <3> QED BY <2>2, <2>3, <3>4, SavedIsRow
  <2> QED BY <2>2, <2>3, RowStep DEF RowKept, RowGone, RowRevoked
<1>2. ASSUME NEW r \in Requests, pc'[r] = "idle" PROVE req'[r] = NoRequest
  <2>1. pc[r] = "idle"
    BY <1>2, Frame DEF AccountInv
  <2>2. Untouched(r)
    BY <1>2, ArrivalFrame, ServerFrame, InterruptedFrame, Locality DEF Own
  <2> QED BY <2>1, <2>2 DEF Untouched, RefInv
<1>3. ASSUME NEW r \in Requests, pc'[r] \in RefreshHolds PROVE uid'[r] = req'[r].token.user
  BY <1>3, RefreshUserKept
<1> QED BY <1>1, <1>2, <1>3 DEF RefInv

-----------------------------------------------------------------------------
(* How the mapped variables follow the handlers' own.                      *)

LEMMA Outcomes ==
  /\ OutcomeOf("none") = "pending" /\ OutcomeOf("ok") = "ok"
  /\ OutcomeOf("lost") = "unknown"
  /\ \A err \in StatementErrors : OutcomeOf(err) = "unknown"
  /\ \A err \in Errors : OutcomeOf(err) \in {"refused", "unknown"}
  /\ \A err \in Errors \ StatementErrors : OutcomeOf(err) = "refused"
BY ErrorNames DEF OutcomeOf, StatementErrors

LEMMA OkOrUnknown ==
  /\ \A a \in {"ok", "Database", "lost"} : OutcomeOf(a) \in {"ok", "unknown"}
  /\ \A a \in {"Database", "lost"} : OutcomeOf(a) = "unknown"
BY Outcomes DEF StatementErrors

(* An answer tells the client, anything else leaves the call under way.    *)
Ends(r, a) == pc' = [pc EXCEPT ![r] = "done"] /\ reply' = [reply EXCEPT ![r] = a]

LEMMA ToldByAnswer ==
  ASSUME TypeInv, NEW r \in Requests, NEW a, Ends(r, a),
         NEW answers, OutcomeOf(a) \in answers
  PROVE  D!Told(r, answers)
<1>1. Outcome(r)' = OutcomeOf(a)
  BY DEF Ends, Outcome, HalfDone, TypeInv, TypeOK
<1>2. \A q \in Requests \ {r} : Outcome(q)' = Outcome(q)
  BY DEF Ends, Outcome, TypeInv, TypeOK
<1> QED BY <1>1, <1>2 DEF D!Told

LEMMA PendingCall ==
  ASSUME ReplyInv, NEW r \in Requests, pc[r] # "done", pc[r] \notin HalfDone,
         NEW kinds, req[r].route \in kinds
  PROVE  D!Pending(r, kinds) /\ Outcome(r) = "pending"
BY Outcomes DEF D!Pending, ReplyInv, CallOf, Outcome

(* Once half of its effect is there a call can only end as unknown.        *)
LEMMA FailStep ==
  ASSUME TypeInv, ReplyInv, NEW r \in Requests, pc[r] # "done",
         NEW a, Ends(r, a), OutcomeOf(a) \in {"refused", "unknown"},
         pc[r] \in HalfDone => OutcomeOf(a) = "unknown",
         UNCHANGED <<users, sessions, req>>
  PROVE  D!Fail(r)
<1>1. CASE pc[r] \in HalfDone
  <2>1. D!Told(r, {"unknown"})
    BY <1>1, ToldByAnswer
  <2>2. [q \in Requests |-> Outcome(q)][r] = "half"
    BY <1>1 DEF Outcome
  <2> QED BY <2>1, <2>2 DEF D!Fail
<1>2. CASE pc[r] \notin HalfDone
  <2>1. D!Told(r, {"refused", "unknown"})
    BY ToldByAnswer
  <2>2. [q \in Requests |-> Outcome(q)][r] = "pending"
    BY <1>2, Outcomes DEF ReplyInv, Outcome
  <2> QED BY <2>1, <2>2 DEF D!Fail
<1> QED BY <1>1, <1>2

LEMMA StutterStep ==
  ASSUME UNCHANGED <<users, sessions, req, reply>>,
         \A q \in Requests : pc'[q] \in HalfDone <=> pc[q] \in HalfDone
  PROVE  UNCHANGED D!vars
<1>1. \A q \in Requests : Outcome(q)' = Outcome(q)
  BY DEF Outcome
<1> QED BY <1>1 DEF D!vars

(* A handler that goes on has not told anything, unless it is half done.   *)
LEMMA GoneOn ==
  ASSUME TypeInv, NEW r \in Requests, NEW label, Goto(r, label),
         label \in HalfDone <=> pc[r] \in HalfDone, UNCHANGED <<users, sessions, req>>
  PROVE  UNCHANGED D!vars
BY StutterStep DEF Goto, TypeInv, TypeOK

LEMMA CallTypes ==
  ASSUME NEW q \in Request
  PROVE  CallOf(q) \in D!Call
<1>1. q.route \in {"register", "login", "refresh", "logout", "verify", "me", None}
  BY ServiceAssumption DEF Request, ServiceAssumption, AllRoutes
<1>2. (IF q.token \in {None, Malformed} THEN None ELSE q.token.jti) \in Requests \cup {None}
  BY DEF Request, Token, Requests
<1>3. /\ q.email \in Spellings \cup {None} /\ q.password \in Passwords \cup {None}
      /\ q.caller \in Users \cup {None}
  BY DEF Request
<1> QED BY <1>1, <1>2, <1>3 DEF CallOf, D!Call

LEMMA NoCallMaps == CallOf(NoRequest) = D!NoCall
BY DEF CallOf, NoRequest, D!NoCall

(* A request that comes in is a call that is made.                         *)
LEMMA MakeStep ==
  ASSUME TypeInv, ReplyInv, RefInv, NEW r \in Requests, Client(r)
  PROVE  D!Make(r)
<1>1. PICK q \in Request, verdict \in Verdicts, label \in Labels \ {"idle"} :
        pc[r] = "idle" /\ req' = [req EXCEPT ![r] = q] /\ Step(r, verdict, label)
  BY ArrivalShape DEF ArrivesReady, TypeInv
<1>2. UNCHANGED <<users, sessions>>
  BY ArrivalFrame
<1>3. [p \in Requests |-> CallOf(req[p])][r] = D!NoCall
  BY <1>1, NoCallMaps DEF RefInv
<1>4. [p \in Requests |-> Outcome(p)][r] = "pending"
  BY <1>1, Outcomes DEF ReplyInv, Outcome, HalfDone
<1>5. [p \in Requests |-> CallOf(req'[p])]
        = [[p \in Requests |-> CallOf(req[p])] EXCEPT ![r] = CallOf(q)]
  BY <1>1 DEF TypeInv, TypeOK
<1>6. D!Told(r, {"pending", "refused"})
  <2>1. CASE Goto(r, label)
    <3>1. label \notin HalfDone
      BY <2>1, ArrivalFrame DEF Goto, HalfDone, IssueLabels, SaveLabels, TypeInv, TypeOK
    <3>2. \A p \in Requests : Outcome(p)' = Outcome(p)
      BY <1>1, <2>1, <3>1 DEF Goto, Outcome, HalfDone, TypeInv, TypeOK
    <3> QED BY <1>4, <3>2 DEF D!Told
  <2>2. CASE Ends(r, verdict) /\ verdict \in Errors \ StatementErrors
    <3>1. OutcomeOf(verdict) \in {"pending", "refused"}
      BY <2>2, Outcomes
    <3> QED BY <2>2, <3>1, ToldByAnswer
  <2>3. verdict # "ok" => verdict \notin StatementErrors
    BY <1>1, DoorVerdicts DEF Step, Answer, TypeInv, TypeOK
  <2> QED BY <1>1, <2>1, <2>2, <2>3 DEF Step, Answer, Ends, Verdicts
<1> QED BY <1>2, <1>3, <1>4, <1>5, <1>6, CallTypes DEF D!Make

-----------------------------------------------------------------------------
(* The effects.                                                            *)

(* An account appears while its address is free.                           *)
LEMMA RegisterStep ==
  ASSUME TypeInv, ReplyInv, NEW r \in Requests, Created(r), NEW a \in {"ok", "Database", "lost"},
         Ends(r, a), UNCHANGED <<sessions, req>>
  PROVE  D!Register(r)
<1>0. OutcomeOf(a) \in {"ok", "unknown"}
  BY OkOrUnknown
<1>1. D!Told(r, {"ok", "unknown"})
  BY <1>0, ToldByAnswer
<1>2. /\ req[r].route = "register" /\ pc[r] # "done" /\ pc[r] \notin HalfDone
      /\ req[r].email \in Spellings /\ req[r].password \in Passwords
  BY DEF Created, TypeInv, Handlers, Ready, RegisterLabels, HalfDone
<1>3. D!Pending(r, {"register"})
  BY <1>2, PendingCall
<1>4. /\ [q \in Requests |-> CallOf(req[q])][r].email = req[r].email
      /\ [q \in Requests |-> CallOf(req[q])][r].password = req[r].password
  BY DEF CallOf
<1>5. \A v \in Users : D!Exists(v) => users[v].email # Lower[req[r].email]
  BY DEF Created, EmailFree, NewUser, Live, D!Exists
<1>6. /\ FreshId \in Users /\ users[FreshId] = None
      /\ users' = [users EXCEPT ![FreshId] =
           [email |-> Lower[req[r].email], password |-> First72[req[r].password],
            verified |-> FALSE]]
  BY DEF Created, AfterCreate, NewUser
<1> QED BY <1>1, <1>2, <1>3, <1>4, <1>5, <1>6 DEF D!Register

(* The row a save adds is an open session.                                 *)
LEMMA OpensStep ==
  ASSUME TypeInv, AccountInv, RefInv, NEW r \in Requests, NEW expires \in Int, Saves(r, expires),
         NEW a \in {"ok", "Database", "lost"}, Ends(r, a), req' = req
  PROVE  D!Opens(r, uid[r])
<1>0. OutcomeOf(a) \in {"ok", "unknown"}
  BY OkOrUnknown
<1>1. D!Told(r, {"ok", "unknown"})
  BY <1>0, ToldByAnswer
<1>2. uid[r] \in Users /\ Live(uid[r]) /\ users[uid[r]].verified
  BY DEF Saves, SaveAccepted, AccountInv, Cleared, Live
<1>3. pc[r] # "done"
  BY DEF Saves, SaveLabels
<1>4. [q \in Requests |-> SessionOf(sessions[q])][r] = None
  BY <1>3 DEF RefInv, SessionOf
<1>5. sessions' = [sessions EXCEPT ![r] =
        [user |-> uid[r], hash |-> HeaderPrefix, expires |-> expires, revoked |-> FALSE]]
  BY DEF Saves, AfterSave, hashJTI
<1>6. SessionOf([user |-> uid[r], hash |-> HeaderPrefix, expires |-> expires, revoked |-> FALSE])
        = [user |-> uid[r], open |-> TRUE]
  <2>1. \A u \in Users, h \in {HeaderPrefix}, e \in Int :
          [user |-> u, hash |-> h, expires |-> e, revoked |-> FALSE] \in Session
    BY DEF Session
  <2>2. [user |-> uid[r], hash |-> HeaderPrefix, expires |-> expires, revoked |-> FALSE] # None
    BY <1>2, <2>1, SessionAssumption DEF SessionAssumption
  <2> QED BY <2>2 DEF SessionOf
<1>7. [q \in Requests |-> SessionOf(sessions'[q])]
        = [[q \in Requests |-> SessionOf(sessions[q])] EXCEPT ![r] = [user |-> uid[r], open |-> TRUE]]
  BY <1>5, <1>6 DEF TypeInv, TypeOK
<1>8. users' = users
  BY DEF Saves
<1> QED BY <1>1, <1>2, <1>4, <1>7, <1>8 DEF D!Opens, D!Exists, Live

LEMMA LoginStep ==
  ASSUME TypeInv, AccountInv, RefInv, NEW r \in Requests, NEW expires \in Int, Saves(r, expires),
         pc[r] = "login_save",
         NEW a \in {"ok", "Database", "lost"}, Ends(r, a), req' = req
  PROVE  D!Login(r)
<1>1. D!Opens(r, uid[r])
  BY OpensStep
<1>2. req[r].route = "login"
  BY DEF TypeInv, Handlers, Ready, LoginLabels
<1>3. D!Pending(r, {"login"})
  BY <1>2, PendingCall DEF AccountInv, HalfDone
<1>4. /\ Live(uid[r]) /\ Owns(r, req[r].email)
  BY DEF AccountInv, Saves, SaveAccepted
<1>5. /\ uid[r] \in Users /\ users[uid[r]].email = req[r].email
      /\ users[uid[r]].password = First72[req[r].password]
  BY <1>4 DEF Owns, Live
<1>6. Lower[req[r].email] = req[r].email
  <2>1. users[uid[r]] \in User
    BY <1>4, <1>5 DEF TypeInv, TypeOK, Live
  <2>2. req[r].email \in Lowered
    BY <1>5, <2>1 DEF User
  <2> QED BY <2>2, ServiceAssumption DEF Lowered, ServiceAssumption
<1>7. /\ [q \in Requests |-> CallOf(req[q])][r].email = req[r].email
      /\ [q \in Requests |-> CallOf(req[q])][r].password = req[r].password
  BY DEF CallOf
<1> QED BY <1>1, <1>3, <1>5, <1>6, <1>7 DEF D!Login

(* The session a refresh presented is closed, and the account's own.       *)
LEMMA ExchangeStep ==
  ASSUME TypeInv, AccountInv, SessionInv, SpentInv, RefInv,
         NEW r \in Requests, NEW expires \in Int, Saves(r, expires), pc[r] = "refresh_save",
         NEW a \in {"ok", "Database", "lost"}, Ends(r, a), req' = req
  PROVE  D!Exchange(r)
<1>1. D!Opens(r, uid[r])
  BY OpensStep
<1>2. req[r].route = "refresh" /\ req[r].token \in held /\ req[r].token.typ = "refresh"
  BY DEF TypeInv, Handlers, Ready, RefreshLabels
<1>3. /\ [p \in Requests |-> CallOf(req[p])][r].kind = "refresh"
      /\ [p \in Requests |-> Outcome(p)][r] = "half"
  BY <1>2 DEF CallOf, Outcome, HalfDone
<1>4. PICK q \in Requests : q = req[r].token.jti
  BY <1>2 DEF SessionInv, BackedInv
<1>5. Live(uid[r]) /\ uid[r] = req[r].token.user
  BY DEF RefInv, RefreshHolds, Saves, SaveAccepted
<1>6. sessions[q] # None /\ sessions[q].user = uid[r]
  BY <1>2, <1>4, <1>5 DEF SessionInv, BackedInv, Backed, Live
<1>7. sessions[q].revoked
  BY <1>2, <1>4, <1>6 DEF SpentInv, Spent
<1>8. SessionOf(sessions[q]) = [user |-> uid[r], open |-> FALSE]
  BY <1>6, <1>7 DEF SessionOf
<1>9. [p \in Requests |-> CallOf(req[p])][r].session = q
  BY <1>2, <1>4, SentinelAssumption DEF CallOf, TypeInv, TypeOK, SentinelAssumption
<1> QED BY <1>1, <1>3, <1>5, <1>8, <1>9 DEF D!Exchange, Live

LEMMA ViewOfRow ==
  ASSUME NEW row \in Session
  PROVE  /\ row # None
         /\ SessionOf(row) = [user |-> row.user, open |-> ~row.revoked]
         /\ SessionOf(row) # None
<1>1. row # None
  BY SessionAssumption DEF SessionAssumption
<1>2. row.user \in Users /\ (~row.revoked) \in BOOLEAN
  BY DEF Session
<1>3. \A u \in Users, b \in BOOLEAN : [user |-> u, open |-> b] \in [user : Users, open : BOOLEAN]
  OBVIOUS
<1>4. [user |-> row.user, open |-> ~row.revoked] \in [user : Users, open : BOOLEAN]
  BY <1>2, <1>3, Zenon
<1> QED BY <1>1, <1>4, ViewAssumption DEF ViewAssumption, SessionOf

(* Revoke closes the session that was presented, and with it all others.   *)
LEMMA CloseStep ==
  ASSUME TypeInv, AccountInv, SessionInv, NEW r \in Requests, Revokes(r), NEW a,
         \/ Ends(r, a) /\ a \in {"Database", "lost"}
         \/ Ends(r, a) /\ pc[r] = "logout_revoke" /\ a = "ok"
         \/ Goto(r, "refresh_issue") /\ pc[r] = "refresh_revoke"
  PROVE  D!Close(r)
<1>1. /\ req[r].token \in held /\ req[r].token.typ = "refresh"
      /\ pc[r] = "logout_revoke" => req[r].route = "logout" /\ req[r].token.user = req[r].caller
      /\ pc[r] = "refresh_revoke" => req[r].route = "refresh"
      /\ pc[r] \in {"logout_revoke", "refresh_revoke"}
  BY DEF Revokes, TypeInv, Handlers, Ready, RefreshLabels
<1>2. D!Pending(r, {"logout", "refresh"})
  BY <1>1, PendingCall DEF AccountInv, HalfDone
<1>3. PICK q \in Requests : q = req[r].token.jti
  BY <1>1 DEF SessionInv, BackedInv
<1>4. /\ [p \in Requests |-> CallOf(req[p])][r].session = q
      /\ [p \in Requests |-> CallOf(req[p])][r].kind = req[r].route
      /\ [p \in Requests |-> CallOf(req[p])][r].caller = req[r].caller
  BY <1>1, <1>3, SentinelAssumption DEF CallOf, TypeInv, TypeOK, SentinelAssumption
<1>5. ASSUME req[r].route = "logout", D!Exists(req[r].caller)
      PROVE  /\ SessionOf(sessions[q]) # None
             /\ SessionOf(sessions[q]).user = req[r].caller
  <2>1. req[r].token.user = req[r].caller /\ users[req[r].caller] # Deleted
    BY <1>1, <1>5 DEF D!Exists
  <2>2. sessions[q] # None /\ sessions[q].user = req[r].caller
    BY <1>1, <1>3, <2>1 DEF SessionInv, BackedInv, Backed
  <2>3. sessions[q] \in Session
    BY <2>2 DEF TypeInv, TypeOK
  <2> QED BY <2>2, <2>3, ViewOfRow
<1>6. [p \in Requests |-> SessionOf(sessions'[p])]
        = [s \in Requests |->
             IF s \in Requests /\ SessionOf(sessions[s]) # None
               THEN [user |-> SessionOf(sessions[s]).user, open |-> FALSE]
               ELSE SessionOf(sessions[s])]
  <2>1. ASSUME NEW s \in Requests
        PROVE  SessionOf(sessions'[s]) =
                 IF SessionOf(sessions[s]) # None
                   THEN [user |-> SessionOf(sessions[s]).user, open |-> FALSE]
                   ELSE SessionOf(sessions[s])
    <3>1. CASE sessions[s] = None
      BY <3>1 DEF Revokes, AfterRevoke, SessionOf
    <3>2. CASE sessions[s] # None
      <4>1. sessions[s] \in Session /\ sessions[s].hash = HeaderPrefix
        BY <3>2 DEF TypeInv, TypeOK, Session
      <4>2. sessions'[s] = [sessions[s] EXCEPT !.revoked = TRUE]
        BY <3>2, <4>1 DEF Revokes, AfterRevoke, hashJTI
      <4>3. /\ sessions'[s] \in Session /\ sessions'[s].revoked
            /\ sessions'[s].user = sessions[s].user
        BY <4>1, <4>2 DEF Session
      <4>4. /\ SessionOf(sessions[s]) # None
            /\ SessionOf(sessions[s]).user = sessions[s].user
        BY <4>1, ViewOfRow
      <4>5. SessionOf(sessions'[s]) = [user |-> sessions[s].user, open |-> FALSE]
        BY <4>3, ViewOfRow
      <4> QED BY <4>4, <4>5
    <3> QED BY <3>1, <3>2
  <2> QED BY <2>1
<1>7. D!Told(r, IF req[r].route = "logout" THEN {"ok", "unknown"} ELSE {"half", "unknown"})
  <2>1. CASE Ends(r, a) /\ a \in {"Database", "lost"}
    <3>1. OutcomeOf(a) = "unknown"
      BY <2>1, OkOrUnknown
    <3> QED BY <2>1, <3>1, ToldByAnswer
  <2>2. CASE Ends(r, a) /\ pc[r] = "logout_revoke" /\ a = "ok"
    <3>1. OutcomeOf(a) = "ok"
      BY <2>2, Outcomes
    <3> QED BY <1>1, <2>2, <3>1, ToldByAnswer
  <2>3. CASE Goto(r, "refresh_issue") /\ pc[r] = "refresh_revoke"
    <3>1. Outcome(r)' = "half"
      BY <2>3 DEF Goto, Outcome, HalfDone, TypeInv, TypeOK
    <3>2. \A p \in Requests \ {r} : Outcome(p)' = Outcome(p)
      BY <2>3 DEF Goto, Outcome, TypeInv, TypeOK
    <3>3. D!Told(r, {"half", "unknown"})
      BY <3>1, <3>2 DEF D!Told
    <3> QED BY <1>1, <2>3, <3>3
  <2> QED BY <2>1, <2>2, <2>3
<1>8. users' = users /\ req' = req
  BY DEF Revokes
<1> QED BY <1>2, <1>3, <1>4, <1>5, <1>6, <1>7, <1>8 DEF D!Close

-----------------------------------------------------------------------------
(* Every step is a step of Directory.                                      *)

AllInv == TypeInv /\ AccountInv /\ SessionInv /\ SpentInv /\ RefInv

(* A verdict that is no failure of a statement refuses.                    *)
LEMMA RefusalStep ==
  ASSUME AllInv, NEW r \in Requests, pc[r] # "done", NEW err \in Errors, Answer(r, err),
         pc[r] \in HalfDone => err \in StatementErrors,
         UNCHANGED <<users, sessions, req>>
  PROVE  D!Fail(r)
<1>1. /\ OutcomeOf(err) \in {"refused", "unknown"}
      /\ pc[r] \in HalfDone => OutcomeOf(err) = "unknown"
  BY Outcomes
<1>2. ReplyInv
  BY DEF AllInv, AccountInv
<1> QED BY <1>1, <1>2, FailStep DEF AllInv, Answer, Ends

LEMMA SaveSteps ==
  ASSUME AllInv, NEW r \in Requests, LoginSave(r) \/ RefreshSave(r)
  PROVE  D!Login(r) \/ D!Exchange(r) \/ D!Fail(r)
<1> USE DEF AllInv
<1>1. PICK expires \in Int :
        /\ expires = IF pc[r] = "login_save" THEN until[r] ELSE now + SevenDays
        /\ SaveSession(r, expires) /\ pc[r] \in SaveLabels
  <2>1. until[r] \in Int /\ now + SevenDays \in Int
    BY ServiceAssumption DEF ServiceAssumption, TypeInv, TypeOK
  <2> QED BY <2>1 DEF LoginSave, RefreshSave, SaveLabels
<1>2. req' = req /\ users' = users
  BY <1>1 DEF SaveSession
<1>3. CASE ~SaveAccepted(r)
  <2>1. Answer(r, "ForeignKeyViolation") /\ sessions' = sessions
    BY <1>1, <1>3 DEF SaveSession
  <2> QED BY <1>1, <1>2, <2>1, RefusalStep, ErrorNames DEF SaveLabels, StatementErrors
<1>4. CASE SaveAccepted(r)
  <2>1. Answer(r, "ok") /\ sessions' = AfterSave(r, expires)
    BY <1>1, <1>4 DEF SaveSession
  <2>2. Ends(r, "ok") /\ pc'[r] = "done"
    BY <2>1 DEF Answer, Ends, TypeInv, TypeOK
  <2>3. Saves(r, expires)
    BY <1>1, <1>2, <1>4, <2>1, <2>2 DEF Saves
  <2>4. CASE pc[r] = "login_save"
    BY <1>2, <2>2, <2>3, <2>4, LoginStep
  <2>5. CASE pc[r] = "refresh_save"
    BY <1>2, <2>2, <2>3, <2>5, ExchangeStep
  <2> QED BY <1>1, <2>4, <2>5 DEF SaveLabels
<1> QED BY <1>3, <1>4

LEMMA ServerMaps ==
  ASSUME AllInv, NEW r \in Requests, Server(r)
  PROVE  D!Next \/ UNCHANGED D!vars
<1> USE DEF AllInv
<1>1. ASSUME NEW verdict \in Verdicts, NEW label, Step(r, verdict, label), pc[r] # "done",
             pc[r] \notin HalfDone, label \notin HalfDone, UNCHANGED <<users, sessions, req>>
      PROVE  D!Fail(r) \/ UNCHANGED D!vars
  <2>1. CASE verdict = "ok"
    BY <1>1, <2>1, GoneOn DEF Step
  <2>2. CASE verdict # "ok"
    BY <1>1, <2>2, RefusalStep DEF Step, Verdicts
  <2> QED BY <2>1, <2>2
<1>2. CASE RegisterFind(r)
  <2>1. RegisterVerdict(r) \in Verdicts
    BY ErrorNames DEF RegisterVerdict, Verdicts
  <2> QED BY <1>1, <1>2, <2>1 DEF RegisterFind, HalfDone, D!Next
<1>3. CASE RegisterCreate(r)
  <2>1. CASE EmailFree(NewUser(req[r].email))
    <3>1. Created(r) /\ Ends(r, "ok") /\ UNCHANGED <<sessions, req>>
      BY <1>3, <2>1 DEF RegisterCreate, Created, FreshId, Answer, Ends
    <3>2. D!Register(r)
      BY <3>1, RegisterStep DEF AccountInv
    <3> QED BY <3>2 DEF D!Next
  <2>2. CASE ~EmailFree(NewUser(req[r].email))
    <3>1. D!Fail(r)
      BY <1>3, <2>2, RefusalStep, ErrorNames DEF RegisterCreate, HalfDone
    <3> QED BY <3>1 DEF D!Next
  <2> QED BY <2>1, <2>2
<1>4. CASE LoginFind(r)
  <2>1. LoginVerdict(FindByEmail(req[r].email), req[r].password) \in Verdicts
    BY ErrorNames DEF LoginVerdict, Verdicts
  <2> QED BY <1>1, <1>4, <2>1 DEF LoginFind, HalfDone, D!Next
<1>5. CASE IssuePair(r)
  BY <1>5, GoneOn DEF IssuePair, HalfDone
<1>6. CASE LoginSave(r) \/ RefreshSave(r)
  BY <1>6, SaveSteps DEF D!Next
<1>7. CASE RefreshFind(r)
  <2>1. /\ pc[r] = "refresh_find"
        /\ Answer(r, "TokenInvalid") \/ Goto(r, "refresh_user")
    BY <1>7 DEF RefreshFind
  <2>2. UNCHANGED <<users, sessions, req>>
    BY <1>7 DEF RefreshFind
  <2>3. CASE Goto(r, "refresh_user")
    BY <2>1, <2>2, <2>3, GoneOn DEF HalfDone
  <2>4. CASE Answer(r, "TokenInvalid")
    BY <2>1, <2>2, <2>4, RefusalStep, ErrorNames DEF HalfDone, D!Next
  <2> QED BY <2>1, <2>3, <2>4
<1>8. CASE RefreshUser(r)
  <2>1. RefreshVerdict(r) \in Verdicts
    BY ErrorNames DEF RefreshVerdict, Verdicts
  <2> QED BY <1>1, <1>8, <2>1 DEF RefreshUser, HalfDone, D!Next
<1>9. CASE RefreshRevoke(r)
  <2>1. Revokes(r) /\ Goto(r, "refresh_issue")
    BY <1>9 DEF RefreshRevoke, Revokes, Goto, TypeInv, TypeOK, AccountInv, ReplyInv
  <2>2. D!Close(r)
    BY <1>9, <2>1, CloseStep DEF RefreshRevoke
  <2> QED BY <2>2 DEF D!Next
<1>10. CASE LogoutRevoke(r)
  <2>1. Revokes(r) /\ Ends(r, "ok")
    BY <1>10 DEF LogoutRevoke, Revokes, Answer, Ends, TypeInv, TypeOK
  <2>2. D!Close(r)
    BY <1>10, <2>1, CloseStep DEF LogoutRevoke
  <2> QED BY <2>2 DEF D!Next
<1>11. CASE MeFind(r)
  <2>1. pc[r] = "me_find" /\ req[r].route = "me" /\ req[r].caller \in Users
    BY <1>11 DEF MeFind, TypeInv, Handlers, Ready
  <2>2. CASE FindByID(req[r].caller) = None
    BY <1>11, <2>1, <2>2, RefusalStep, ErrorNames DEF MeFind, HalfDone, D!Next
  <2>3. CASE FindByID(req[r].caller) # None
    <3>1. Live(req[r].caller) /\ Ends(r, "ok")
      BY <1>11, <2>3 DEF MeFind, FindByID, Answer, Ends
    <3>2. D!Pending(r, {"me"})
      BY <2>1, PendingCall DEF AccountInv, HalfDone
    <3>3. OutcomeOf("ok") \in {"ok"}
      BY Outcomes
    <3>4. D!Told(r, {"ok"})
      BY <3>1, <3>3, ToldByAnswer
    <3>5. [q \in Requests |-> CallOf(req[q])][r].caller = req[r].caller
      BY DEF CallOf
    <3>6. D!Profile(r)
      BY <1>11, <3>1, <3>2, <3>4, <3>5 DEF MeFind, D!Profile, D!Exists, Live
    <3> QED BY <3>6 DEF D!Next
  <2> QED BY <2>2, <2>3
<1> QED BY <1>2, <1>3, <1>4, <1>5, <1>6, <1>7, <1>8, <1>9, <1>10, <1>11 DEF Server

(* A failure is a call that ends without its effect, or with it untold.    *)
LEMMA InterruptedMaps ==
  ASSUME AllInv, NEW r \in Requests, Interrupted(r)
  PROVE  D!Next
<1> USE DEF AllInv
<1>1. PICK a \in {"lost", "Database", "TokenInvalid"} :
        /\ Ends(r, a)
        /\ pc[r] # "refresh_find" => a # "TokenInvalid"
  BY DEF Interrupted, Answer, FailureReply, Ends
<1>2. req' = req /\ pc[r] # "done" /\ pc'[r] = "done"
  BY InterruptedFrame
<1>3. CASE UNCHANGED <<users, sessions>>
  <2>1. /\ OutcomeOf(a) \in {"refused", "unknown"}
        /\ pc[r] \in HalfDone => OutcomeOf(a) = "unknown"
    BY <1>1, Outcomes, OkOrUnknown, ErrorNames DEF HalfDone
  <2>2. D!Fail(r)
    BY <1>1, <1>2, <1>3, <2>1, FailStep DEF AccountInv
  <2> QED BY <2>2 DEF D!Next
<1>4. CASE /\ ~UNCHANGED <<users, sessions>>
           /\ pc[r] = "register_create" => \E u \in Users : users[u] = None
           /\ users' = UsersAfter(r) /\ sessions' = SessionsAfter(r)
  <2>1. pc[r] \in {"register_create", "logout_revoke", "refresh_revoke"} \cup SaveLabels
    BY <1>4 DEF UsersAfter, SessionsAfter, SaveLabels
  <2>2. a \in {"Database", "lost"}
    BY <1>1, <2>1 DEF SaveLabels
  <2>3. CASE pc[r] = "register_create"
    <3>1. sessions' = sessions /\ Created(r)
      BY <1>4, <2>3 DEF UsersAfter, SessionsAfter, Created, FreshId
    <3>2. D!Register(r)
      BY <1>1, <1>2, <2>2, <3>1, RegisterStep DEF AccountInv
    <3> QED BY <3>2 DEF D!Next
  <2>4. CASE pc[r] \in {"logout_revoke", "refresh_revoke"}
    <3>1. Revokes(r)
      BY <1>1, <1>2, <1>4, <2>2, <2>4
        DEF Revokes, Ends, UsersAfter, SessionsAfter, TypeInv, TypeOK
    <3>2. D!Close(r)
      BY <1>1, <2>2, <2>4, <3>1, CloseStep
    <3> QED BY <3>2 DEF D!Next
  <2>5. CASE pc[r] \in SaveLabels
    <3>1. until[r] \in Int /\ now + SevenDays \in Int
      BY ServiceAssumption DEF ServiceAssumption, TypeInv, TypeOK
    <3>2. PICK expires \in Int : Saves(r, expires)
      <4>1. users' = users
        BY <1>4, <2>5 DEF UsersAfter, SaveLabels
      <4>2. CASE pc[r] = "login_save"
        BY <1>2, <1>4, <3>1, <4>1, <4>2 DEF SessionsAfter, Saves, SaveLabels
      <4>3. CASE pc[r] = "refresh_save"
        BY <1>2, <1>4, <3>1, <4>1, <4>3 DEF SessionsAfter, Saves, SaveLabels
      <4> QED BY <2>5, <4>2, <4>3 DEF SaveLabels
    <3>3. D!Login(r) \/ D!Exchange(r)
      BY <1>1, <1>2, <2>2, <2>5, <3>2, LoginStep, ExchangeStep DEF SaveLabels
    <3> QED BY <3>3 DEF D!Next
  <2> QED BY <2>1, <2>3, <2>4, <2>5
<1> QED BY <1>3, <1>4 DEF Interrupted

LEMMA OutsideMaps ==
  ASSUME AllInv, NEW u \in Users, Outside(u)
  PROVE  D!Next \/ UNCHANGED D!vars
<1> USE DEF AllInv
<1>1. CASE OperatorVerifies(u)
  <2>1. D!Verify(u)
    BY <1>1 DEF OperatorVerifies, D!Verify, D!Exists, Live, Outcome
  <2> QED BY <2>1 DEF D!Next
<1>2. CASE OperatorDeletes(u)
  <2>1. /\ users' = [users EXCEPT ![u] = Deleted] /\ Live(u)
        /\ UNCHANGED <<req, reply, pc>>
    BY <1>2 DEF OperatorDeletes
  <2>2. ASSUME NEW q \in Requests
        PROVE  SessionOf(sessions'[q]) =
                 IF SessionOf(sessions[q]) # None /\ SessionOf(sessions[q]).user = u
                   THEN None ELSE SessionOf(sessions[q])
    <3>1. CASE sessions[q] = None
      BY <1>2, <3>1 DEF OperatorDeletes, SessionOf
    <3>2. CASE sessions[q] # None
      <4>1. sessions[q] \in Session
        BY <3>2 DEF TypeInv, TypeOK
      <4>2. SessionOf(sessions[q]) # None /\ SessionOf(sessions[q]).user = sessions[q].user
        BY <4>1, ViewOfRow
      <4>3. sessions'[q] = IF sessions[q].user = u THEN None ELSE sessions[q]
        BY <1>2, <3>2 DEF OperatorDeletes
      <4>4. SessionOf(None) = None
        BY DEF SessionOf
      <4> QED BY <4>2, <4>3, <4>4
    <3> QED BY <3>1, <3>2
  <2>3. D!Delete(u)
    BY <2>1, <2>2 DEF D!Delete, D!Exists, Live, Outcome
  <2> QED BY <2>3 DEF D!Next
<1>3. CASE SendVerification(u)
  BY <1>3, StutterStep DEF SendVerification
<1> QED BY <1>1, <1>2, <1>3 DEF Outside

LEMMA StepMaps ==
  ASSUME AllInv, [Next]_vars
  PROVE  [D!Next]_(D!vars)
<1>1. ASSUME NEW r \in Requests, Client(r) PROVE D!Next
  BY <1>1, MakeStep DEF AllInv, AccountInv, D!Next
<1>2. CASE Tick \/ UNCHANGED vars
  BY <1>2, StutterStep DEF Tick, vars
<1> QED BY <1>1, <1>2, ServerMaps, InterruptedMaps, OutsideMaps DEF Next, Idle

LEMMA InitMaps == Init => D!Init
BY Outcomes, NoCallMaps DEF Init, D!Init, SessionOf, Outcome, HalfDone

LEMMA AllInvAlways == Spec => []AllInv
<1>1. Init => RefInv
  BY RefInvInit
<1>2. TypeInv /\ AccountInv /\ RefInv /\ [Next]_vars => RefInv'
  BY RefInvStep
<1>3. Spec => [](TypeInv /\ AccountInv /\ RefInv)
  BY <1>1, <1>2, AccountInvAlways, PTL DEF Spec
<1> QED BY <1>3, SessionInvAlways, RevocationInvAlways, PTL DEF AllInv

(* The handlers implement what Directory promises, for any number of       *)
(* requests and accounts, with failures and lost answers.                  *)
THEOREM HandlersImplementDirectory == Spec => ImplementsDirectory
<1>1. Init => D!Init
  BY InitMaps
<1>2. AllInv /\ [Next]_vars => [D!Next]_(D!vars)
  BY StepMaps
<1> QED BY <1>1, <1>2, AllInvAlways, PTL DEF Spec, ImplementsDirectory, D!Spec

-----------------------------------------------------------------------------
(* What follows from Directory holds of the handlers.                      *)

F == INSTANCE DirectoryFacts WITH
  Ids <- Users, Calls <- Requests, Emails <- Spellings, Address <- Lower, Secret <- First72,
  Initial <- InitUsers, accounts <- users,
  sessions <- [r \in Requests |-> SessionOf(sessions[r])],
  calls <- [r \in Requests |-> CallOf(req[r])],
  outcome <- [r \in Requests |-> Outcome(r)]

(* The service is a Directory of the kind the facts are about.             *)
LEMMA DirectoryAssumed == F!DirectoryAssumption
<1>1. F!Account = User
  BY DEF F!Account, F!Stored, User, Lowered
<1> QED BY <1>1, ServiceAssumption, InitUsersAssumption, ViewAssumption
        DEF F!DirectoryAssumption, ServiceAssumption, InitUsersAssumption, ViewAssumption

(* It is the same Directory by either name.                                *)
LEMMA SameDirectory ==
  /\ D!Init <=> F!Init
  /\ [D!Next]_(D!vars) <=> [F!Next]_(F!vars)
<1>1. D!Init <=> F!Init
  BY DEF D!Init, F!Init, D!NoCall, F!NoCall
<1>2. ASSUME NEW r \in Requests
      PROVE  /\ D!Make(r) <=> F!Make(r)
             /\ D!Fail(r) <=> F!Fail(r)
             /\ D!Register(r) <=> F!Register(r)
             /\ D!Login(r) <=> F!Login(r)
             /\ D!Exchange(r) <=> F!Exchange(r)
             /\ D!Close(r) <=> F!Close(r)
             /\ D!Profile(r) <=> F!Profile(r)
  <2> USE DEF D!Told, F!Told, D!Pending, F!Pending, D!Exists, F!Exists, D!Opens, F!Opens
  <2>1. D!Make(r) <=> F!Make(r)
    BY DEF D!Make, F!Make, D!NoCall, F!NoCall, D!Call, F!Call
  <2>2. D!Fail(r) <=> F!Fail(r)
    BY DEF D!Fail, F!Fail
  <2>3. D!Register(r) <=> F!Register(r)
    BY DEF D!Register, F!Register
  <2>4. D!Login(r) <=> F!Login(r)
    BY DEF D!Login, F!Login
  <2>5. D!Exchange(r) <=> F!Exchange(r)
    BY DEF D!Exchange, F!Exchange
  <2>6. D!Close(r) <=> F!Close(r)
    BY DEF D!Close, F!Close
  <2>7. D!Profile(r) <=> F!Profile(r)
    BY DEF D!Profile, F!Profile
  <2> QED BY <2>1, <2>2, <2>3, <2>4, <2>5, <2>6, <2>7
<1>3. ASSUME NEW u \in Users
      PROVE  (D!Verify(u) <=> F!Verify(u)) /\ (D!Delete(u) <=> F!Delete(u))
  BY DEF D!Exists, F!Exists, D!Verify, F!Verify, D!Delete, F!Delete
<1>4. D!Next <=> F!Next
  BY <1>2, <1>3 DEF D!Next, F!Next
<1>5. UNCHANGED D!vars <=> UNCHANGED F!vars
  BY DEF D!vars, F!vars
<1> QED BY <1>1, <1>4, <1>5

LEMMA HandlersAreDirectory == Spec => F!Spec
<1>1. Spec => D!Spec
  BY HandlersImplementDirectory DEF ImplementsDirectory
<1> QED BY <1>1, SameDirectory, PTL DEF D!Spec, F!Spec

(* No chain of refreshes, however its statements interleave with logouts,  *)
(* deletions and failures, leads to an account nobody logged in to.        *)
THEOREM SessionsGoBackToLogins == Spec => []SessionsRooted
<1>1. F!SessionsRooted => SessionsRooted
  BY DEF F!SessionsRooted, SessionsRooted, D!SessionsRooted, D!Started, F!Started, D!Exists,
         F!Exists, D!LoggedIn, F!LoggedIn, D!Renewed, F!Renewed, D!Of, F!Of
<1> QED BY <1>1, F!EverySessionRooted, DirectoryAssumed, HandlersAreDirectory, PTL

(* No account that was not there before but by a registration with its     *)
(* address and password, one that was not refused.                         *)
THEOREM AccountsHaveCauses == Spec => []AccountsHaveCause
<1>1. F!AccountsHaveCause => AccountsHaveCause
  BY DEF F!AccountsHaveCause, AccountsHaveCause, D!AccountsHaveCause, D!Exists, F!Exists, D!Of, F!Of
<1> QED BY <1>1, F!EveryAccountHasCause, DirectoryAssumed, HandlersAreDirectory, PTL

(* A session that was answered for is never reopened, by any step of any   *)
(* request.                                                                *)
THEOREM SessionsNeverReopen == Spec => SessionsOnlyEnd
<1>1. F!Spec => F!SessionsOnlyEnd
  BY F!NoSessionReopens, DirectoryAssumed
<1>2. F!SessionsOnlyEnd => SessionsOnlyEnd
  BY SameDirectory, PTL DEF F!SessionsOnlyEnd, SessionsOnlyEnd, D!SessionsOnlyEnd, F!vars, D!vars,
                        D!Underway, F!Underway
<1> QED BY <1>1, <1>2, HandlersAreDirectory, PTL
=============================================================================
