---------------------------- MODULE ClientProofs -----------------------------
(***************************************************************************)
(* ClientFlow's safety for any number of devices and faults.               *)
(***************************************************************************)
EXTENDS ClientFlow, TLAPS

(* Whoever is at the login form has a reason to be there, and so has, while*)
(* still away from it, a device whose row is gone before its token: the    *)
(* form is where the next refresh may send it.  Excepted is the device     *)
(* whose own refresh has just revoked the row and is about to save another.*)
Reason(d) ==
  /\ SessionStore = "contract" /\ view[d] = "login" => excused[d]
  /\ ~backed[d] /\ ~over[d] => excused[d] \/ step[d] = "revoked"
  /\ backed[d] => open
  /\ step[d] # "none" => view[d] = "refreshing"
Reasons == \A d \in Devices : Reason(d)
IInv == TypeOK /\ Reasons

-----------------------------------------------------------------------------
(* The hints of the errors a device meets here.                            *)
LEMMA Hints ==
  /\ Hint("AuthExpired") = "refresh_token" /\ Hint("TokenExpired") = "refresh_token"
  /\ Hint("SecTokenExpired") = "refresh_token"
  /\ Hint("TokenInvalid") = "login" /\ Hint("Database") = "retry_later"
<1>1. "AuthExpired" \in DOMAIN AppErrors /\ AppErrors["AuthExpired"].details.action = "refresh_token"
  BY DEF AppErrors, AppError, ActionDetails
<1>2. "TokenExpired" \notin DOMAIN AppErrors /\ "TokenInvalid" \notin DOMAIN AppErrors
      /\ "Database" \notin DOMAIN AppErrors /\ "SecTokenExpired" \notin DOMAIN AppErrors
  BY DEF AppErrors
<1>3. "TokenExpired" \in DOMAIN Registry /\ Registry["TokenExpired"].details.action = "refresh_token"
  BY DEF Registry, AppError, ActionDetails
<1>4. "SecTokenExpired" \in DOMAIN Registry /\ Registry["SecTokenExpired"].details.action = "refresh_token"
  BY DEF Registry, AppError, ActionDetails
<1>5. "TokenInvalid" \in DOMAIN Registry /\ Registry["TokenInvalid"].details.action = "login"
  BY DEF Registry, AppError, ActionDetails
<1>6. "Database" \notin DOMAIN Registry
  BY DEF Registry
<1>7. AppError(500, "INTERNAL_ERROR", ActionDetails("retry_later")).details.action = "retry_later"
  BY DEF AppError, ActionDetails
<1> QED
  BY <1>1, <1>2, <1>3, <1>4, <1>5, <1>6, <1>7 DEF Hint, Response

Met == {"AuthExpired", "SecTokenExpired", "TokenExpired", "TokenInvalid", "Database"}

(* Following a hint leads to the form or into the flow, or nowhere.        *)
LEMMA Following ==
  ASSUME TypeOK, NEW d \in Devices, NEW err \in Met, Follow(d, err)
  PROVE  /\ view' \in [Devices -> {"app", "refreshing", "login"}]
         /\ hint' \in [Devices -> {"none", "login", "refresh_token", "retry_later"}]
         /\ access' = access /\ over' = over
         /\ \A e \in Devices \ {d} : view'[e] = view[e]
         /\ err = "TokenInvalid" => view'[d] = "login"
         /\ err = "Database" => view'[d] = view[d]
         /\ err \notin {"TokenInvalid", "Database"} => view'[d] = "refreshing"
<1>1. CASE err = "TokenInvalid"
  BY <1>1, Hints DEF Follow, TypeOK
<1>2. CASE err = "Database"
  BY <1>2, Hints DEF Follow, TypeOK
<1>3. CASE err \in {"AuthExpired", "SecTokenExpired", "TokenExpired"}
  BY <1>3, Hints DEF Follow, TypeOK
<1> QED
  BY <1>1, <1>2, <1>3 DEF Met

LEMMA Faulting ==
  ASSUME TypeOK, Fault
  PROVE  faults' \in 0 .. MaxFaults
BY ClientAssumption DEF Fault, TypeOK

LEMMA Initially == Init => IInv
<1> SUFFICES ASSUME Init PROVE IInv
  OBVIOUS
<1>1. TypeOK
  <2>1. faults \in 0 .. MaxFaults
    BY ClientAssumption DEF Init
  <2>2. open \in BOOLEAN
    BY DEF Init
  <2> QED
    BY <2>1, <2>2 DEF Init, TypeOK
<1>2. Reasons
  BY DEF Init, Reasons, Reason
<1> QED
  BY <1>1, <1>2 DEF IInv

-----------------------------------------------------------------------------
(* A row saved and a pair of tokens taken: by a login, and by the end of a *)
(* refresh.                                                                *)
LEMMA LoginStep ==
  ASSUME IInv, NEW d \in Devices, Login(d)
  PROVE  IInv'
BY DEF Login, Save, Take, IInv, TypeOK, Reasons, Reason

LEMMA SaveStep ==
  ASSUME IInv, NEW d \in Devices, RefreshSave(d)
  PROVE  IInv'
BY DEF RefreshSave, Save, Take, IInv, TypeOK, Reasons, Reason

LEMMA MeStep ==
  ASSUME IInv, NEW d \in Devices, Me(d)
  PROVE  IInv'
<1>1. UNCHANGED <<step, table, excused, faults>> /\ Follow(d, "AuthExpired") /\ step[d] = "none"
  BY DEF Me, IInv, Reasons, Reason
<1>2. "AuthExpired" \in Met
  BY DEF Met
<1> QED
  BY <1>1, <1>2, Following DEF table, IInv, TypeOK, Reasons, Reason

(* Whoever closes the rows excuses those who lose them.                    *)
LEMMA LogoutStep ==
  ASSUME IInv, NEW d \in Devices, Logout(d)
  PROVE  IInv'
<1>1. UNCHANGED <<step, faults>> /\ step[d] = "none"
  BY DEF Logout, IInv, Reasons, Reason
<1>2. CASE Follow(d, "SecTokenExpired") /\ UNCHANGED <<table, excused>>
  <2>1. "SecTokenExpired" \in Met
    BY DEF Met
  <2> QED
    BY <1>1, <1>2, <2>1, Following DEF table, IInv, TypeOK, Reasons, Reason
<1>3. CASE /\ Close /\ Excuse(Devices)
           /\ view' = [view EXCEPT ![d] = "login"] /\ UNCHANGED <<hint, access, over>>
  BY <1>1, <1>3 DEF Close, Excuse, IInv, TypeOK, Reasons, Reason
<1> QED
  BY <1>2, <1>3 DEF Logout

LEMMA LogoutFailsStep ==
  ASSUME IInv, NEW d \in Devices, LogoutFails(d)
  PROVE  IInv'
<1>1. step' = step /\ faults' \in 0 .. MaxFaults
  BY Faulting DEF LogoutFails, IInv
<1>2. /\ view' = view /\ access' = access /\ over' = over
      /\ hint' \in [Devices -> {"none", "login", "refresh_token", "retry_later"}]
  <2>1. CASE Follow(d, "Database")
    BY <2>1, Hints DEF Follow, IInv, TypeOK
  <2>2. CASE UNCHANGED device
    BY <2>2 DEF device, IInv, TypeOK
  <2> QED
    BY <2>1, <2>2 DEF LogoutFails
<1>3. CASE Close /\ Excuse(Devices)
  BY <1>1, <1>2, <1>3 DEF Close, Excuse, IInv, TypeOK, Reasons, Reason
<1>4. CASE UNCHANGED table /\ Excuse({d})
  BY <1>1, <1>2, <1>4 DEF table, Excuse, IInv, TypeOK, Reasons, Reason
<1> QED
  BY <1>3, <1>4 DEF LogoutFails

(* A refusal leads to the form only for want of an open row, and for that  *)
(* there is a reason already.                                              *)
LEMMA RefusedStep ==
  ASSUME IInv, NEW d \in Devices, RefreshRefused(d)
  PROVE  IInv'
<1>1. UNCHANGED <<step, table, excused, faults>> /\ step[d] = "none"
  BY DEF RefreshRefused
<1>2. PICK err \in {"TokenExpired", "TokenInvalid"} :
        Follow(d, err) /\ (err = "TokenInvalid" => ~over[d] /\ (~open \/ SessionStore = "postgres"))
  BY DEF RefreshRefused
<1>3. err \in Met
  BY DEF Met
<1>4. err = "TokenInvalid" /\ SessionStore = "contract" => excused[d]
  BY <1>1, <1>2 DEF IInv, Reasons, Reason
<1> QED
  BY <1>1, <1>2, <1>3, <1>4, Following DEF table, IInv, TypeOK, Reasons, Reason

LEMMA FindStep ==
  ASSUME IInv, NEW d \in Devices, RefreshFind(d)
  PROVE  IInv'
BY DEF RefreshFind, device, table, IInv, TypeOK, Reasons, Reason

LEMMA RevokeStep ==
  ASSUME IInv, NEW d \in Devices, RefreshRevoke(d)
  PROVE  IInv'
BY DEF RefreshRevoke, Close, Excuse, device, IInv, TypeOK, Reasons, Reason

(* What a refresh that is cut short leaves, whatever its device is told.   *)
LEMMA CutStep ==
  ASSUME IInv, NEW d \in Devices, Cut(d), access' = access, over' = over,
         view' \in [Devices -> {"app", "refreshing", "login"}],
         hint' \in [Devices -> {"none", "login", "refresh_token", "retry_later"}],
         \A e \in Devices \ {d} : view'[e] = view[e]
  PROVE  IInv'
<1>1. faults' \in 0 .. MaxFaults /\ step' = [step EXCEPT ![d] = "none"]
  BY Faulting DEF Cut, IInv
<1>2. CASE UNCHANGED table /\ Excuse({d})
  BY <1>1, <1>2 DEF table, Excuse, IInv, TypeOK, Reasons, Reason
<1>3. CASE Close /\ Excuse(Devices)
  BY <1>1, <1>3 DEF Close, Excuse, IInv, TypeOK, Reasons, Reason
<1>4. CASE open' = TRUE /\ UNCHANGED backed /\ Excuse({d})
  BY <1>1, <1>4 DEF Excuse, IInv, TypeOK, Reasons, Reason
<1> QED
  BY <1>2, <1>3, <1>4 DEF Cut

LEMMA LostStep ==
  ASSUME IInv, NEW d \in Devices, RefreshLost(d)
  PROVE  IInv'
<1>1. Cut(d) /\ view' = view /\ hint' = hint /\ access' = access /\ over' = over
  BY DEF RefreshLost, device
<1> QED
  BY <1>1, CutStep DEF IInv, TypeOK

LEMMA FailsStep ==
  ASSUME IInv, NEW d \in Devices, RefreshFails(d)
  PROVE  IInv'
<1>1. PICK err \in {"TokenInvalid", "TokenExpired", "Database"} : Cut(d) /\ Follow(d, err)
  BY DEF RefreshFails
<1>2. err \in Met
  BY DEF Met
<1> QED
  BY <1>1, <1>2, Following, CutStep DEF IInv

LEMMA TimeStep ==
  ASSUME IInv, (\E d \in Devices : AccessExpires(d) \/ RefreshExpires(d)) \/ SessionsExpire
  PROVE  IInv'
<1>1. ASSUME NEW d \in Devices, AccessExpires(d) \/ RefreshExpires(d) PROVE IInv'
  BY <1>1 DEF AccessExpires, RefreshExpires, table, IInv, TypeOK, Reasons, Reason
<1>2. CASE SessionsExpire
  BY <1>2 DEF SessionsExpire, Close, Excuse, device, IInv, TypeOK, Reasons, Reason
<1> QED
  BY <1>1, <1>2

LEMMA Preserved == IInv /\ [Next]_vars => IInv'
<1> SUFFICES ASSUME IInv, [Next]_vars PROVE IInv'
  OBVIOUS
<1>1. CASE UNCHANGED vars
  BY <1>1 DEF vars, device, table, IInv, TypeOK, Reasons, Reason
<1>2. ASSUME NEW d \in Devices, Login(d) \/ Me(d) \/ Logout(d) \/ LogoutFails(d) PROVE IInv'
  BY <1>2, LoginStep, MeStep, LogoutStep, LogoutFailsStep
<1>3. ASSUME NEW d \in Devices, Flow(d) PROVE IInv'
  BY <1>3, RefusedStep, FindStep, RevokeStep, SaveStep, LostStep, FailsStep DEF Flow
<1> QED
  BY <1>1, <1>2, <1>3, TimeStep DEF Next

LEMMA Invariant == Spec => []IInv
BY Initially, Preserved, PTL DEF Spec

-----------------------------------------------------------------------------
(* The types, and that a device in the flow only ever gets hints the flow  *)
(* knows.                                                                  *)
THEOREM ClientTypes == Spec => []TypeOK
<1>1. IInv => TypeOK
  BY DEF IInv
<1> QED
  BY <1>1, Invariant, PTL

(* If the lookup works, whoever is sent to the login form lost an answer  *)
(* or a statement of its own, or its row to a logout, to the refresh of    *)
(* another device (hashJTI, and Revoke in refresh_token.go and logout.go)  *)
(* or to an early expiry, never to a refresh of its own that worked.       *)
THEOREM LoginsHaveCause == Spec => []LoginHasCause
<1>1. IInv => LoginHasCause
  BY DEF IInv, Reasons, Reason, LoginHasCause
<1> QED
  BY <1>1, Invariant, PTL

(* The step behind FlowEnds: whatever the refresh flow does or is answered *)
(* without a fault, and before the refresh token expires, leads on.        *)
THEOREM FlowOnlyAdvances == Spec => FlowAdvances
<1>1. ASSUME IInv, NEW d \in Devices, Flow(d), view'[d] = "refreshing"
      PROVE  over[d] \/ faults' = faults + 1 \/ Left[step'[d]] < Left[step[d]]
  <2>1. CASE RefreshRefused(d) /\ ~over[d]
    <3>1. Follow(d, "TokenInvalid") /\ "TokenInvalid" \in Met
      BY <2>1 DEF RefreshRefused, Met
    <3>2. view'[d] = "login"
      BY <1>1, <3>1, Following DEF IInv
    <3> QED
      BY <1>1, <3>2
  <2>2. CASE RefreshFind(d) \/ RefreshRevoke(d)
    <3>1. (step[d] = "none" /\ step'[d] = "found") \/ (step[d] = "found" /\ step'[d] = "revoked")
      BY <1>1, <2>2 DEF RefreshFind, RefreshRevoke, IInv, TypeOK
    <3> QED
      BY <3>1 DEF Left
  <2>3. CASE RefreshSave(d)
    BY <1>1, <2>3 DEF RefreshSave, Take, IInv, TypeOK
  <2>4. CASE RefreshLost(d) \/ RefreshFails(d)
    BY <2>4 DEF RefreshLost, RefreshFails, Cut, Fault
  <2> QED
    BY <1>1, <2>1, <2>2, <2>3, <2>4 DEF Flow
<1>2. IInv /\ [Next]_vars =>
        [\A d \in Devices :
           Flow(d) /\ view'[d] = "refreshing" =>
             over[d] \/ faults' = faults + 1 \/ Left[step'[d]] < Left[step[d]]]_vars
  BY <1>1
<1> QED
  BY <1>2, Invariant, PTL DEF Spec, FlowAdvances
=============================================================================
