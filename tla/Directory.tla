------------------------------ MODULE Directory ------------------------------
(***************************************************************************)
(* What the user module promises its clients, with nothing of how it does  *)
(* it: no statements, tokens, hashes, expiries or clock.  A call takes     *)
(* effect in one moment, at which what it asks for is justified; a refresh *)
(* takes two, one that closes the old session and one that opens the new.  *)
(* What a client is told is true: "ok" comes with the effect, "refused"    *)
(* without any, and "unknown" (no answer, or an error on the way) leaves it*)
(* open.  A refresh that has closed the old session can not be refused.    *)
(***************************************************************************)
CONSTANTS
  Ids,        \* of accounts
  Calls,      \* the calls clients make; a session is named by the call that opened it
  Emails,     \* addresses and passwords as clients write them,
  Passwords,
  Address,    \* and what an account stores of them
  Secret,
  Initial,    \* the accounts at the start
  None, Deleted

VARIABLES
  accounts,   \* an account, None or Deleted
  sessions,   \* the session a call opened: whose, and whether it is still open
  calls,      \* what each call asks for
  outcome     \* what its client was told: "ok", "refused", "unknown" or, so far, nothing

vars == <<accounts, sessions, calls, outcome>>

NoCall == [kind |-> None, email |-> None, password |-> None, session |-> None, caller |-> None]
Call == [kind : {"register", "login", "refresh", "logout", "verify", "me", None},
         email : Emails \cup {None}, password : Passwords \cup {None},
         session : Calls \cup {None}, caller : Ids \cup {None}]

(* A call that was not answered: it had no effect yet, or one of two.      *)
Underway == {"pending", "half"}

Init ==
  /\ accounts = Initial
  /\ sessions = [c \in Calls |-> None]
  /\ calls = [c \in Calls |-> NoCall]
  /\ outcome = [c \in Calls |-> "pending"]

Exists(u) == u \in Ids /\ accounts[u] \notin {None, Deleted}
Pending(c, kinds) == calls[c].kind \in kinds /\ outcome[c] = "pending"
Told(c, answers) == \E a \in answers : outcome' = [outcome EXCEPT ![c] = a]

(* A client calls, and may be refused at the door.                         *)
Make(c) ==
  /\ calls[c] = NoCall /\ outcome[c] = "pending"
  /\ \E call \in Call : calls' = [calls EXCEPT ![c] = call]
  /\ Told(c, {"pending", "refused"})
  /\ UNCHANGED <<accounts, sessions>>

(* A call ends without an effect, or without its second one.               *)
Fail(c) ==
  /\ \/ outcome[c] = "pending" /\ Told(c, {"refused", "unknown"})
     \/ outcome[c] = "half" /\ Told(c, {"unknown"})
  /\ UNCHANGED <<accounts, sessions, calls>>

(* The address is free at the moment the account appears.                  *)
Register(c) ==
  /\ Pending(c, {"register"})
  /\ calls[c].email \in Emails /\ calls[c].password \in Passwords
  /\ \A v \in Ids : Exists(v) => accounts[v].email # Address[calls[c].email]
  /\ \E u \in Ids :
       /\ accounts[u] = None
       /\ accounts' = [accounts EXCEPT ![u] =
            [email |-> Address[calls[c].email], password |-> Secret[calls[c].password],
             verified |-> FALSE]]
  /\ Told(c, {"ok", "unknown"})
  /\ UNCHANGED <<sessions, calls>>

(* A session opens once, for an account that exists and is verified.       *)
Opens(c, u) ==
  /\ Exists(u) /\ accounts[u].verified
  /\ sessions[c] = None
  /\ sessions' = [sessions EXCEPT ![c] = [user |-> u, open |-> TRUE]]
  /\ Told(c, {"ok", "unknown"})
  /\ UNCHANGED <<accounts, calls>>

(* Login: for the account of that address and password.                    *)
Login(c) ==
  /\ Pending(c, {"login"})
  /\ \E u \in Ids :
       /\ Opens(c, u)
       /\ accounts[u].email = Address[calls[c].email]
       /\ accounts[u].password = Secret[calls[c].password]

(* Refresh: in exchange for a session of the same account, which it closed.*)
Exchange(c) ==
  /\ calls[c].kind = "refresh" /\ outcome[c] = "half" /\ calls[c].session \in Calls
  /\ \E u \in Ids : Opens(c, u) /\ sessions[calls[c].session] = [user |-> u, open |-> FALSE]

(* Logout and refresh close the session that was presented, which for a    *)
(* logout is one of the caller's; which others go with it is left open.    *)
Close(c) ==
  /\ Pending(c, {"logout", "refresh"})
  /\ calls[c].session \in Calls
  /\ calls[c].kind = "logout" /\ Exists(calls[c].caller) =>
       /\ sessions[calls[c].session] # None
       /\ sessions[calls[c].session].user = calls[c].caller
  /\ \E S \in SUBSET Calls :
       /\ calls[c].session \in S
       /\ sessions' = [s \in Calls |-> IF s \in S /\ sessions[s] # None
                                         THEN [user |-> sessions[s].user, open |-> FALSE]
                                         ELSE sessions[s]]
  /\ Told(c, IF calls[c].kind = "logout" THEN {"ok", "unknown"} ELSE {"half", "unknown"})
  /\ UNCHANGED <<accounts, calls>>

(* The profile of an account that exists.                                  *)
Profile(c) ==
  /\ Pending(c, {"me"}) /\ Exists(calls[c].caller) /\ Told(c, {"ok"})
  /\ UNCHANGED <<accounts, sessions, calls>>

(* An account is verified or deleted by the operator; its sessions go too. *)
Verify(u) ==
  /\ Exists(u) /\ accounts' = [accounts EXCEPT ![u].verified = TRUE]
  /\ UNCHANGED <<sessions, calls, outcome>>
Delete(u) ==
  /\ Exists(u) /\ accounts' = [accounts EXCEPT ![u] = Deleted]
  /\ sessions' = [s \in Calls |-> IF sessions[s] # None /\ sessions[s].user = u
                                    THEN None ELSE sessions[s]]
  /\ UNCHANGED <<calls, outcome>>

Next ==
  \/ \E c \in Calls : Make(c) \/ Fail(c) \/ Register(c) \/ Login(c) \/ Exchange(c)
                      \/ Close(c) \/ Profile(c)
  \/ \E u \in Ids : Verify(u) \/ Delete(u)

Spec == Init /\ [][Next]_vars

-----------------------------------------------------------------------------
(* What follows, whatever implements it.                                   *)

Stored == {Address[e] : e \in Emails}
Account == [email : Stored, password : Passwords, verified : BOOLEAN]
DirectoryAssumption ==
  /\ Secret \in [Passwords -> Passwords]
  /\ Initial \in [Ids -> Account \cup {None}]
  /\ None \notin Account /\ Deleted \notin Account /\ None # Deleted
  /\ None \notin [user : Ids, open : BOOLEAN]

(* Where a session comes from: a login with its account's address and      *)
(* password, or another session of the account that it replaced.           *)
Of(c, a) == a.email = Address[calls[c].email] /\ a.password = Secret[calls[c].password]
LoggedIn(c) == calls[c].kind = "login" /\ Of(c, accounts[sessions[c].user])
Renewed(c) ==
  /\ calls[c].kind = "refresh" /\ calls[c].session \in Calls
  /\ sessions[calls[c].session] = [user |-> sessions[c].user, open |-> FALSE]
Started == {c \in Calls : sessions[c] # None}

(* Every session is of a verified account, and goes back to a login with   *)
(* that account's address and password: no chain of refreshes crosses from *)
(* one account to another, or ends in itself.                              *)
SessionsRooted ==
  /\ \A c \in Started : /\ Exists(sessions[c].user) /\ accounts[sessions[c].user].verified
                        /\ LoggedIn(c) \/ Renewed(c)
  /\ \A S \in SUBSET Started : S # {} => \E c \in S : LoggedIn(c) \/ calls[c].session \notin S

(* Every account was there at the start or comes from a registration with  *)
(* its address and password, which was not refused.                        *)
AccountsHaveCause ==
  \A u \in Ids : Exists(u) =>
    \/ /\ Initial[u] # None
       /\ accounts[u].email = Initial[u].email /\ accounts[u].password = Initial[u].password
    \/ \E c \in Calls : /\ calls[c].kind = "register" /\ outcome[c] \in {"ok", "unknown"}
                        /\ Of(c, accounts[u])

(* Once a call has been answered its session can only end: it is closed or *)
(* goes with its account, and never reopens, changes hands or comes back.  *)
SessionsOnlyEnd ==
  [][\A c \in Calls : outcome[c] \notin Underway =>
       \/ sessions'[c] \in {sessions[c], None}
       \/ sessions[c] # None /\ sessions'[c] = [user |-> sessions[c].user, open |-> FALSE]]_vars
=============================================================================
