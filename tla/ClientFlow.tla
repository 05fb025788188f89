----------------------------- MODULE ClientFlow ------------------------------
(***************************************************************************)
(* Devices, of one user or of several, that do what the hint in an error's *)
(* details tells them: the other side of the hint protocol of              *)
(* shared/errors/actions.go.  hashJTI gives all refresh tokens one hash,   *)
(* so the lookup finds the session of any of them and Revoke hits all: of  *)
(* user_sessions only whether a live row is there counts.  A refresh takes *)
(* its lookup, its Revoke and its Save in turn; statements may fail and    *)
(* answers be lost.  Every account is there and verified.                  *)
(***************************************************************************)
EXTENDS ErrorMapping

CONSTANTS
  Devices,      \* the devices
  MaxFaults,    \* bound on the faults
  SessionStore  \* as in AuthService: "postgres" (no column expired_at) or "contract"

ASSUME ClientAssumption == MaxFaults \in Nat /\ SessionStore \in {"postgres", "contract"}

VARIABLES
  view,     \* what a device does: "app" (uses the API), "refreshing", "login" (the form)
  hint,     \* the last hint it was given, or "none"
  access,   \* its access token has not expired
  over,     \* its refresh token has expired
  step,     \* what its refresh has done: "none", "found" or "revoked"
  open,     \* user_sessions has a row neither revoked nor expired
  backed,   \* the row saved with the device's refresh token is such a row
  excused,  \* since its last pair of tokens: a fault of its own, somebody's
            \* logout, the Revoke of another device's refresh, or a row
            \* that expired before its token
  faults    \* lost answers, failed statements, rows expired since the lookup

device == <<view, hint, access, over>>
table == <<open, backed>>
vars == <<device, step, table, excused, faults>>

Init ==
  /\ view = [d \in Devices |-> "login"] /\ hint = [d \in Devices |-> "none"]
  /\ access = [d \in Devices |-> FALSE] /\ over = [d \in Devices |-> TRUE]
  /\ step = [d \in Devices |-> "none"]
  /\ open = FALSE /\ backed = [d \in Devices |-> FALSE]
  /\ excused = [d \in Devices |-> TRUE] /\ faults = 0

(* The hint an error is answered with, and where it leads a device.        *)
\* Mutation of Hint: an invalid refresh token asks for the refresh flow.
HintRefresh(err) == IF err = "TokenInvalid" THEN "refresh_token" ELSE Response(err).details.action
\* Mutation of Hint: an invalid refresh token is a faulty request.
HintFix(err) == IF err = "TokenInvalid" THEN "fix_request" ELSE Response(err).details.action
Hint(err) == Response(err).details.action

Follow(d, err) ==
  /\ hint' = [hint EXCEPT ![d] = Hint(err)]
  /\ view' = [view EXCEPT ![d] = CASE Hint(err) = "login" -> "login"
                                   [] Hint(err) = "refresh_token" -> "refreshing"
                                   [] OTHER -> @]
  /\ UNCHANGED <<access, over>>

(* A row is saved, and its pair of tokens reaches the device.              *)
Save(d) == open' = TRUE /\ backed' = [backed EXCEPT ![d] = TRUE]
Take(d) ==
  /\ view' = [view EXCEPT ![d] = "app"] /\ hint' = [hint EXCEPT ![d] = "none"]
  /\ access' = [access EXCEPT ![d] = TRUE] /\ over' = [over EXCEPT ![d] = FALSE]
  /\ excused' = [excused EXCEPT ![d] = FALSE]

(* Revoke, and the expiry of all rows.                                     *)
Close == open' = FALSE /\ backed' = [d \in Devices |-> FALSE]

Excuse(who) == excused' = [d \in Devices |-> excused[d] \/ d \in who]
Fault == faults < MaxFaults /\ faults' = faults + 1

-----------------------------------------------------------------------------
Login(d) == view[d] = "login" /\ Save(d) /\ Take(d) /\ UNCHANGED <<step, faults>>

(* Any protected call: RequireAuthMiddleware lets an access token pass     *)
(* until it expires.                                                       *)
Me(d) ==
  /\ view[d] = "app" /\ ~access[d] /\ Follow(d, "AuthExpired")
  /\ UNCHANGED <<step, table, excused, faults>>

(* Logout refuses an expired refresh token; otherwise it revokes.          *)
Logout(d) ==
  /\ view[d] = "app" /\ access[d]
  /\ \/ over[d] /\ Follow(d, "SecTokenExpired") /\ UNCHANGED <<table, excused>>
     \/ /\ ~over[d] /\ Close /\ Excuse(Devices)
        /\ view' = [view EXCEPT ![d] = "login"] /\ UNCHANGED <<hint, access, over>>
  /\ UNCHANGED <<step, faults>>

(* Its Revoke fails, or the answer is lost; the rows may be revoked.       *)
LogoutFails(d) ==
  /\ view[d] = "app" /\ access[d] /\ ~over[d] /\ Fault
  /\ Follow(d, "Database") \/ UNCHANGED device
  /\ (Close /\ Excuse(Devices)) \/ (UNCHANGED table /\ Excuse({d}))
  /\ UNCHANGED step

-----------------------------------------------------------------------------
(* RefreshToken, statement by statement.  It is refused when the token has *)
(* expired, or when the lookup finds nothing.                              *)
RefreshRefused(d) ==
  /\ view[d] = "refreshing" /\ step[d] = "none"
  /\ \/ over[d] /\ Follow(d, "TokenExpired")
     \/ ~over[d] /\ (~open \/ SessionStore = "postgres") /\ Follow(d, "TokenInvalid")
  /\ UNCHANGED <<step, table, excused, faults>>

RefreshFind(d) ==
  /\ view[d] = "refreshing" /\ step[d] = "none" /\ ~over[d]
  /\ open /\ SessionStore = "contract"
  /\ step' = [step EXCEPT ![d] = "found"]
  /\ UNCHANGED <<device, table, excused, faults>>

RefreshRevoke(d) ==
  /\ step[d] = "found" /\ step' = [step EXCEPT ![d] = "revoked"]
  /\ Close /\ Excuse(Devices \ {d})
  /\ UNCHANGED <<device, faults>>

\* Mutation of RefreshSave: the old session is revoked only now, after the new one is saved.
RefreshSaveFirst(d) ==
  /\ step[d] = "revoked" /\ step' = [step EXCEPT ![d] = "none"]
  /\ Close /\ Take(d)
  /\ UNCHANGED faults
RefreshSave(d) ==
  /\ step[d] = "revoked" /\ step' = [step EXCEPT ![d] = "none"]
  /\ Save(d) /\ Take(d)
  /\ UNCHANGED faults

(* A refresh ends early, before its next statement or after it.            *)
Cut(d) ==
  /\ view[d] = "refreshing" /\ Fault /\ step' = [step EXCEPT ![d] = "none"]
  /\ \/ UNCHANGED table /\ Excuse({d})
     \/ step[d] = "found" /\ Close /\ Excuse(Devices)
     \/ step[d] = "revoked" /\ open' = TRUE /\ UNCHANGED backed /\ Excuse({d})

(* The answer is lost: the device still holds the old token.               *)
RefreshLost(d) == Cut(d) /\ UNCHANGED device

(* FindByJTIHash fails, all of whose errors mean "invalid"; or the row it  *)
(* found expires before it is looked at; or a later statement fails.       *)
RefreshFails(d) ==
  /\ Cut(d)
  /\ \/ step[d] = "none" /\ Follow(d, "TokenInvalid")
     \/ step[d] = "found" /\ table' = table /\ Follow(d, "TokenExpired")
     \/ step[d] # "none" /\ Follow(d, "Database")

-----------------------------------------------------------------------------
(* Time.  A row may expire before the refresh token it was saved with:     *)
(* login stamps it before the token is signed, and refresh gives it seven  *)
(* days whatever the token has.                                            *)
AccessExpires(d) ==
  /\ access[d] /\ access' = [access EXCEPT ![d] = FALSE]
  /\ UNCHANGED <<view, hint, over, step, table, excused, faults>>
RefreshExpires(d) ==
  /\ ~over[d] /\ over' = [over EXCEPT ![d] = TRUE]
  /\ UNCHANGED <<view, hint, access, step, table, excused, faults>>
SessionsExpire ==
  /\ open /\ Close /\ Excuse({d \in Devices : backed[d] /\ ~over[d]})
  /\ UNCHANGED <<device, step, faults>>

-----------------------------------------------------------------------------
Flow(d) ==
  \/ RefreshRefused(d) \/ RefreshFind(d) \/ RefreshRevoke(d) \/ RefreshSave(d)
  \/ RefreshLost(d) \/ RefreshFails(d)

Next ==
  \/ \E d \in Devices : \/ Login(d) \/ Me(d) \/ Logout(d) \/ LogoutFails(d) \/ Flow(d)
                        \/ AccessExpires(d) \/ RefreshExpires(d)
  \/ SessionsExpire

Spec == Init /\ [][Next]_vars

(* A device in the refresh flow keeps at it, and its request is served.    *)
FairSpec == Spec /\ \A d \in Devices : WF_vars(Flow(d))

-----------------------------------------------------------------------------
(* The types; only hints the flow has an answer to are ever given in it.   *)
TypeOK ==
  /\ view \in [Devices -> {"app", "refreshing", "login"}]
  /\ hint \in [Devices -> {"none", "login", "refresh_token", "retry_later"}]
  /\ access \in [Devices -> BOOLEAN] /\ over \in [Devices -> BOOLEAN]
  /\ step \in [Devices -> {"none", "found", "revoked"}]
  /\ open \in BOOLEAN /\ backed \in [Devices -> BOOLEAN]
  /\ excused \in [Devices -> BOOLEAN] /\ faults \in 0 .. MaxFaults

(* If the lookup worked as it is written to, whoever is at the login form  *)
(* would be there for a reason: since it last got tokens somebody logged   *)
(* out, another device's refresh revoked the rows they all share, its row  *)
(* expired before its token, or an answer or a statement of its own went   *)
(* astray.  A refresh of its own that worked is no such reason.            *)
LoginHasCause ==
  SessionStore = "contract" => \A d \in Devices : view[d] = "login" => excused[d]

(* No answer keeps a device in the refresh flow: its request goes on, or   *)
(* it leaves with the first answer, unless the refresh token has expired   *)
(* (TOKEN_EXPIRED tells it to refresh again) or the answer was a fault.    *)
Left == [none |-> 2, found |-> 1, revoked |-> 0]
FlowAdvances ==
  [][\A d \in Devices :
       Flow(d) /\ view'[d] = "refreshing" =>
         over[d] \/ faults' = faults + 1 \/ Left[step'[d]] < Left[step[d]]]_vars

(* A device that follows the hints leaves the refresh flow, for the app or *)
(* for the login form, also when the answer was lost after the sessions    *)
(* were revoked; unless its refresh token expired, for then TOKEN_EXPIRED  *)
(* tells it to refresh again, and again.                                   *)
FlowEnds == \A d \in Devices : view[d] = "refreshing" ~> (view[d] # "refreshing" \/ over[d])
=============================================================================
