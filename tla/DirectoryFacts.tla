--------------------------- MODULE DirectoryFacts ---------------------------
(***************************************************************************)
(* What follows from Directory, proved on the abstract specification and   *)
(* hence true of whatever implements it.                                   *)
(***************************************************************************)
EXTENDS Directory, TLAPS

SessionType == [user : Ids, open : BOOLEAN]

(* A session's call has been answered, so no other opens under its name.   *)
TypeOK ==
  /\ accounts \in [Ids -> Account \cup {None, Deleted}]
  /\ sessions \in [Calls -> SessionType \cup {None}]
  /\ DOMAIN calls = Calls /\ DOMAIN outcome = Calls
Answered == \A c \in Started : outcome[c] \notin Underway

DInv == TypeOK /\ Answered /\ SessionsRooted /\ AccountsHaveCause

LEMMA SessionIsSome ==
  ASSUME DirectoryAssumption, NEW u \in Ids, NEW b \in BOOLEAN
  PROVE  [user |-> u, open |-> b] \in SessionType /\ [user |-> u, open |-> b] # None
<1>1. [user |-> u, open |-> b] \in SessionType
  BY DEF SessionType
<1> QED BY <1>1 DEF DirectoryAssumption, SessionType

LEMMA InitFacts == DirectoryAssumption /\ Init => DInv
<1> SUFFICES ASSUME DirectoryAssumption, Init PROVE DInv
  OBVIOUS
<1>1. TypeOK
  BY DEF DirectoryAssumption, Init, TypeOK
<1>2. Started = {}
  BY DEF Init, Started
<1>3. AccountsHaveCause
  BY DEF Init, AccountsHaveCause, Exists
<1> QED BY <1>1, <1>2, <1>3 DEF DInv, Answered, SessionsRooted

-----------------------------------------------------------------------------
(* What a step can do to one call, one account, one session.               *)

LEMMA CallsStand ==
  ASSUME TypeOK, [Next]_vars, NEW c \in Calls, outcome[c] \notin Underway
  PROVE  outcome'[c] = outcome[c] /\ calls'[c] = calls[c]
BY DEF TypeOK, Next, vars, Make, Fail, Register, Opens, Login, Exchange, Close, Profile, Verify,
       Delete, Pending, Told, Underway

(* An account keeps its address and password, and stays verified.          *)
AccountKept(u) ==
  /\ Exists(u)'
  /\ accounts'[u].email = accounts[u].email /\ accounts'[u].password = accounts[u].password
  /\ accounts[u].verified => accounts'[u].verified

LEMMA AccountsStand ==
  ASSUME DirectoryAssumption, TypeOK, [Next]_vars, NEW u \in Ids, Exists(u)
  PROVE  AccountKept(u) \/ Delete(u)
<1>1. accounts[u] \in Account
  BY DEF Exists, TypeOK
<1>2. CASE accounts' = accounts
  BY <1>2 DEF AccountKept, Exists
<1>3. ASSUME NEW c \in Calls, Register(c) PROVE AccountKept(u)
  <2>1. accounts'[u] = accounts[u]
    BY <1>3 DEF Register, Exists, TypeOK
  <2> QED BY <2>1 DEF AccountKept, Exists
<1>4. ASSUME NEW v \in Ids, Verify(v) PROVE AccountKept(u)
  <2>1. CASE u = v
    <3>1. accounts'[u] = [accounts[u] EXCEPT !.verified = TRUE]
      BY <1>4, <2>1 DEF Verify, TypeOK
    <3>2. accounts'[u] \in Account /\ accounts'[u].verified
      BY <1>1, <3>1 DEF Account
    <3>3. /\ accounts'[u].email = accounts[u].email /\ accounts'[u].password = accounts[u].password
      BY <1>1, <3>1 DEF Account
    <3> QED BY <3>2, <3>3 DEF DirectoryAssumption, AccountKept, Exists
  <2>2. CASE u # v
    <3>1. accounts'[u] = accounts[u]
      BY <1>4, <2>2 DEF Verify, TypeOK
    <3> QED BY <3>1 DEF AccountKept, Exists
  <2> QED BY <2>1, <2>2
<1>5. ASSUME NEW v \in Ids, Delete(v), u # v PROVE AccountKept(u)
  <2>1. accounts'[u] = accounts[u]
    BY <1>5 DEF Delete, TypeOK
  <2> QED BY <2>1 DEF AccountKept, Exists
<1>6. accounts' = accounts \/ (\E c \in Calls : Register(c)) \/ (\E v \in Ids : Verify(v) \/ Delete(v))
  BY DEF Next, vars, Make, Fail, Login, Exchange, Opens, Close, Profile
<1> QED BY <1>2, <1>3, <1>4, <1>5, <1>6

(* A session is left alone, closed, gone with its account, or opened.      *)
Ended(c) == sessions'[c] = [user |-> sessions[c].user, open |-> FALSE]
LEMMA SessionsStep ==
  ASSUME TypeOK, [Next]_vars, NEW c \in Calls
  PROVE  \/ sessions'[c] = sessions[c]
         \/ sessions[c] # None /\ Ended(c)
         \/ sessions[c] # None /\ sessions'[c] = None /\ Delete(sessions[c].user)
         \/ sessions[c] = None /\ (Login(c) \/ Exchange(c))
<1>1. CASE sessions' = sessions
  BY <1>1
<1>2. ASSUME NEW d \in Calls, Login(d) \/ Exchange(d)
      PROVE  sessions'[c] = sessions[c] \/ (sessions[c] = None /\ (Login(c) \/ Exchange(c)))
  BY <1>2 DEF Login, Exchange, Opens, TypeOK
<1>3. ASSUME NEW d \in Calls, Close(d)
      PROVE  sessions'[c] = sessions[c] \/ (sessions[c] # None /\ Ended(c))
  BY <1>3 DEF Close, Ended
<1>4. ASSUME NEW u \in Ids, Delete(u)
      PROVE  \/ sessions'[c] = sessions[c]
             \/ sessions[c] # None /\ sessions'[c] = None /\ Delete(sessions[c].user)
  BY <1>4 DEF Delete
<1>5. \/ sessions' = sessions
      \/ \E d \in Calls : Login(d) \/ Exchange(d) \/ Close(d)
      \/ \E u \in Ids : Delete(u)
  BY DEF Next, vars, Make, Fail, Register, Profile, Verify
<1> QED BY <1>1, <1>2, <1>3, <1>4, <1>5

-----------------------------------------------------------------------------
LEMMA TypesStep ==
  ASSUME DirectoryAssumption, TypeOK, [Next]_vars
  PROVE  TypeOK'
<1>1. accounts' \in [Ids -> Account \cup {None, Deleted}]
  <2>1. CASE accounts' = accounts
    BY <2>1 DEF TypeOK
  <2>2. ASSUME NEW c \in Calls, Register(c)
        PROVE  accounts' \in [Ids -> Account \cup {None, Deleted}]
    BY <2>2 DEF Register, TypeOK, DirectoryAssumption, Account, Stored
  <2>3. ASSUME NEW u \in Ids, Verify(u)
        PROVE  accounts' \in [Ids -> Account \cup {None, Deleted}]
    <3>1. accounts[u] \in Account
      BY <2>3 DEF Verify, Exists, TypeOK
    <3>2. [accounts[u] EXCEPT !.verified = TRUE] \in Account
      BY <3>1 DEF Account
    <3> QED BY <2>3, <3>2 DEF Verify, TypeOK
  <2>4. ASSUME NEW u \in Ids, Delete(u)
        PROVE  accounts' \in [Ids -> Account \cup {None, Deleted}]
    BY <2>4 DEF Delete, TypeOK
  <2> QED BY <2>1, <2>2, <2>3, <2>4
          DEF Next, vars, Make, Fail, Login, Exchange, Opens, Close, Profile
<1>2. sessions' \in [Calls -> SessionType \cup {None}]
  <2>1. CASE sessions' = sessions
    BY <2>1 DEF TypeOK
  <2>2. ASSUME NEW c \in Calls, Login(c) \/ Exchange(c)
        PROVE  sessions' \in [Calls -> SessionType \cup {None}]
    <3>1. PICK u \in Ids : Opens(c, u)
      BY <2>2 DEF Login, Exchange
    <3> QED BY <3>1 DEF Opens, TypeOK, SessionType
  <2>3. ASSUME NEW c \in Calls, Close(c)
        PROVE  sessions' \in [Calls -> SessionType \cup {None}]
    <3>1. \A d \in Calls : sessions[d] # None => [user |-> sessions[d].user, open |-> FALSE] \in SessionType
      BY DEF TypeOK, SessionType
    <3> QED BY <2>3, <3>1 DEF Close, TypeOK
  <2>4. ASSUME NEW u \in Ids, Delete(u)
        PROVE  sessions' \in [Calls -> SessionType \cup {None}]
    BY <2>4 DEF Delete, TypeOK
  <2> QED BY <2>1, <2>2, <2>3, <2>4 DEF Next, vars, Make, Fail, Register, Profile, Verify
<1>3. DOMAIN calls' = Calls
  BY DEF TypeOK, Next, vars, Make, Fail, Register, Login, Exchange, Opens, Close, Profile, Verify, Delete
<1>4. DOMAIN outcome' = Calls
  BY DEF TypeOK, Next, vars, Make, Fail, Register, Login, Exchange, Opens, Close, Profile, Verify,
         Delete, Told
<1> QED BY <1>1, <1>2, <1>3, <1>4 DEF TypeOK

(* A session that a step leaves behind was there, or has just been opened. *)
LEMMA StartedStep ==
  ASSUME TypeOK, Answered, [Next]_vars, NEW c \in Calls, sessions'[c] # None
  PROVE  \/ /\ sessions[c] # None /\ outcome[c] \notin Underway
            /\ sessions'[c] = sessions[c] \/ Ended(c)
         \/ sessions[c] = None /\ (Login(c) \/ Exchange(c))
BY SessionsStep DEF Answered, Started

LEMMA AnsweredStep ==
  ASSUME TypeOK, Answered, [Next]_vars
  PROVE  Answered'
<1> SUFFICES ASSUME NEW c \in Calls, sessions'[c] # None PROVE outcome'[c] \notin Underway
  BY DEF Answered, Started
<1>1. CASE outcome[c] \notin Underway
  BY <1>1, CallsStand
<1>2. CASE Login(c) \/ Exchange(c)
  BY <1>2 DEF Login, Exchange, Opens, Told, TypeOK, Underway
<1> QED BY <1>1, <1>2, StartedStep

LEMMA CauseStep ==
  ASSUME DirectoryAssumption, TypeOK, AccountsHaveCause, [Next]_vars
  PROVE  AccountsHaveCause'
<1> SUFFICES ASSUME NEW u \in Ids, Exists(u)'
             PROVE  \/ /\ Initial[u] # None /\ accounts'[u].email = Initial[u].email
                       /\ accounts'[u].password = Initial[u].password
                    \/ \E c \in Calls : /\ calls'[c].kind = "register"
                                        /\ outcome'[c] \in {"ok", "unknown"}
                                        /\ Of(c, accounts[u])'
  BY DEF AccountsHaveCause
<1>1. CASE Exists(u)
  <2>1. ~Delete(u)
    BY DEF Delete, Exists, TypeOK
  <2>2. accounts'[u].email = accounts[u].email /\ accounts'[u].password = accounts[u].password
    BY <1>1, <2>1, AccountsStand DEF AccountKept
  <2>3. ASSUME NEW c \in Calls, calls[c].kind = "register", outcome[c] \in {"ok", "unknown"},
               Of(c, accounts[u])
        PROVE  /\ calls'[c].kind = "register" /\ outcome'[c] \in {"ok", "unknown"}
               /\ Of(c, accounts[u])'
    BY <2>2, <2>3, CallsStand DEF Of, Underway
  <2> QED BY <1>1, <2>2, <2>3 DEF AccountsHaveCause
<1>2. CASE ~Exists(u)
  <2>1. PICK c \in Calls : Register(c)
    <3>1. \A v \in Ids : ~Verify(v) /\ ~Delete(v)
      BY <1>2 DEF Verify, Delete, Exists, TypeOK
    <3> QED BY <1>2, <3>1
            DEF Exists, Next, vars, Make, Fail, Login, Exchange, Opens, Close, Profile
  <2>2. accounts'[u].email = Address[calls[c].email] /\ accounts'[u].password = Secret[calls[c].password]
    BY <1>2, <2>1 DEF Register, Exists, TypeOK
  <2>3. calls' = calls /\ calls[c].kind = "register" /\ outcome'[c] \in {"ok", "unknown"}
    BY <2>1 DEF Register, Pending, Told, TypeOK
  <2> QED BY <2>2, <2>3 DEF Of
<1> QED BY <1>1, <1>2

-----------------------------------------------------------------------------
(* Where sessions come from.                                               *)

Entitled(c) == Exists(sessions[c].user) /\ accounts[sessions[c].user].verified
Rooted(c) == LoggedIn(c) \/ Renewed(c)

(* A session that is opened is rooted, and is none that others go back to. *)
LEMMA OpenedRooted ==
  ASSUME DirectoryAssumption, TypeOK, NEW c \in Calls, Login(c) \/ Exchange(c)
  PROVE  /\ sessions[c] = None /\ Entitled(c)' /\ Rooted(c)'
         /\ LoggedIn(c)' \/ calls'[c].session # c
<1>1. PICK u \in Ids :
        /\ Opens(c, u)
        /\ \/ Pending(c, {"login"}) /\ Of(c, accounts[u])
           \/ /\ calls[c].kind = "refresh" /\ calls[c].session \in Calls
              /\ sessions[calls[c].session] = [user |-> u, open |-> FALSE]
  BY DEF Login, Exchange, Of
<1>2. /\ sessions[c] = None /\ sessions' = [sessions EXCEPT ![c] = [user |-> u, open |-> TRUE]]
      /\ accounts' = accounts /\ calls' = calls /\ Exists(u) /\ accounts[u].verified
  BY <1>1 DEF Opens
<1>3. sessions'[c].user = u
  BY <1>2 DEF TypeOK
<1>4. Entitled(c)'
  BY <1>2, <1>3 DEF Entitled, Exists
<1>5. CASE Pending(c, {"login"}) /\ Of(c, accounts[u])
  <2>1. LoggedIn(c)'
    BY <1>2, <1>3, <1>5 DEF Pending, LoggedIn, Of
  <2> QED BY <1>2, <1>4, <2>1 DEF Rooted
<1>6. CASE /\ calls[c].kind = "refresh" /\ calls[c].session \in Calls
           /\ sessions[calls[c].session] = [user |-> u, open |-> FALSE]
  <2>1. [user |-> u, open |-> FALSE] # None
    BY <1>2, SessionIsSome DEF Exists
  <2>2. calls[c].session # c
    BY <1>2, <1>6, <2>1
  <2>3. sessions'[calls[c].session] = [user |-> u, open |-> FALSE]
    BY <1>2, <1>6, <2>2 DEF TypeOK
  <2>4. Renewed(c)'
    BY <1>2, <1>3, <1>6, <2>3 DEF Renewed
  <2> QED BY <1>2, <1>4, <2>2, <2>4 DEF Rooted
<1> QED BY <1>1, <1>5, <1>6

(* A session that stays is as entitled and as rooted as it was.            *)
LEMMA KeptRooted ==
  ASSUME DirectoryAssumption, TypeOK, Answered, [Next]_vars, NEW c \in Calls,
         sessions[c] # None, sessions'[c] # None, Entitled(c), Rooted(c)
  PROVE  /\ Entitled(c)' /\ Rooted(c)' /\ calls'[c] = calls[c]
         /\ LoggedIn(c) => LoggedIn(c)'
<1>1. sessions'[c].user = sessions[c].user
  <2>1. sessions'[c] = sessions[c] \/ Ended(c)
    BY StartedStep
  <2> QED BY <2>1 DEF Ended
<1>2. outcome[c] \notin Underway /\ calls'[c] = calls[c]
  BY CallsStand DEF Answered, Started
<1>3. sessions[c].user \in Ids
  BY DEF Entitled, Exists
<1>4. ~Delete(sessions[c].user)
  BY DEF Delete
<1>5. AccountKept(sessions[c].user)
  BY <1>3, <1>4, AccountsStand DEF Entitled
<1>6. Entitled(c)'
  BY <1>1, <1>5 DEF Entitled, AccountKept, Exists
<1>7. ASSUME LoggedIn(c) PROVE LoggedIn(c)'
  BY <1>1, <1>2, <1>5, <1>7 DEF LoggedIn, Of, AccountKept
<1>8. ASSUME Renewed(c) PROVE Renewed(c)'
  <2>1. PICK d \in Calls : d = calls[c].session
    BY <1>8 DEF Renewed
  <2>2. sessions[d] = [user |-> sessions[c].user, open |-> FALSE] /\ sessions[d] # None
    BY <1>3, <1>8, <2>1, SessionIsSome DEF Renewed
  <2>3. sessions'[d] = [user |-> sessions[c].user, open |-> FALSE]
    BY <1>4, <2>2, SessionsStep DEF Ended
  <2> QED BY <1>1, <1>2, <1>8, <2>1, <2>3 DEF Renewed
<1> QED BY <1>2, <1>6, <1>7, <1>8 DEF Rooted

(* Of the sessions that stay one goes back to a login or to a session that *)
(* is not among them, but was there.                                       *)
LEMMA FirstStays ==
  ASSUME DirectoryAssumption, TypeOK, Answered, SessionsRooted, [Next]_vars,
         NEW T \in SUBSET Calls, T # {}, \A c \in T : sessions[c] # None /\ sessions'[c] # None
  PROVE  \E c \in T : /\ LoggedIn(c)' \/ calls'[c].session \notin T
                      /\ LoggedIn(c)' \/ sessions[calls'[c].session] # None
<1>1. T \in SUBSET Started
  BY DEF Started
<1>2. PICK c \in T : LoggedIn(c) \/ calls[c].session \notin T
  BY <1>1 DEF SessionsRooted
<1>3. Entitled(c) /\ Rooted(c)
  BY <1>1, <1>2 DEF SessionsRooted, Entitled, Rooted
<1>4. c \in Calls /\ sessions[c] # None /\ sessions'[c] # None
  BY <1>2
<1>5. calls'[c] = calls[c] /\ (LoggedIn(c) => LoggedIn(c)')
  BY <1>3, <1>4, KeptRooted
<1>6. Renewed(c) => sessions[calls[c].session] # None
  <2>1. sessions[c].user \in Ids
    BY <1>4 DEF TypeOK, SessionType
  <2> QED BY <2>1, SessionIsSome DEF Renewed
<1> QED BY <1>2, <1>3, <1>5, <1>6 DEF Rooted

LEMMA RootedStep ==
  ASSUME DirectoryAssumption, TypeOK, Answered, SessionsRooted, [Next]_vars
  PROVE  SessionsRooted'
<1>1. ASSUME NEW c \in Calls, sessions'[c] # None PROVE Entitled(c)' /\ Rooted(c)'
  <2>1. CASE sessions[c] # None
    <3>1. Entitled(c) /\ Rooted(c)
      BY <2>1 DEF SessionsRooted, Started, Entitled, Rooted
    <3> QED BY <1>1, <2>1, <3>1, KeptRooted
  <2>2. CASE sessions[c] = None /\ (Login(c) \/ Exchange(c))
    BY <2>2, OpenedRooted
  <2> QED BY <1>1, <2>1, <2>2, StartedStep
<1>2. ASSUME NEW S \in SUBSET Calls, \A c \in S : sessions'[c] # None, S # {}
      PROVE  \E c \in S : LoggedIn(c)' \/ calls'[c].session \notin S
  <2>1. CASE \A c \in S : sessions[c] # None
    BY <1>2, <2>1, FirstStays
  <2>2. ASSUME NEW c \in S, sessions[c] = None
        PROVE  \E d \in S : LoggedIn(d)' \/ calls'[d].session \notin S
    <3>1. c \in Calls /\ (Login(c) \/ Exchange(c))
      BY <1>2, <2>2, StartedStep
    <3>2. LoggedIn(c)' \/ calls'[c].session # c
      BY <3>1, OpenedRooted
    <3>3. \A d \in S \ {c} : sessions[d] # None
      <4>1. ASSUME NEW d \in S, d # c PROVE sessions[d] # None
        <5>1. sessions'[d] = sessions[d]
          BY <3>1, <4>1 DEF Login, Exchange, Opens, TypeOK
        <5> QED BY <1>2, <5>1
      <4> QED BY <4>1
    <3>4. CASE S \ {c} = {}
      BY <3>2, <3>4
    <3>5. CASE S \ {c} # {}
      <4> DEFINE T == S \ {c}
      <4>1. T \in SUBSET Calls /\ T # {}
        BY <3>5
      <4>2. \A d \in T : sessions[d] # None /\ sessions'[d] # None
        BY <1>2, <3>3
      <4>3. PICK d \in T : /\ LoggedIn(d)' \/ calls'[d].session \notin T
                           /\ LoggedIn(d)' \/ sessions[calls'[d].session] # None
        <5> HIDE DEF T
        <5> QED BY <4>1, <4>2, FirstStays
      <4> QED BY <2>2, <4>3
    <3> QED BY <3>4, <3>5
  <2> QED BY <2>1, <2>2
<1>3. \A c \in Started' : /\ Exists(sessions[c].user)' /\ accounts'[sessions'[c].user].verified
                          /\ LoggedIn(c)' \/ Renewed(c)'
  BY <1>1 DEF Started, Entitled, Rooted
<1>4. \A S \in SUBSET Started' : S # {} => \E c \in S : LoggedIn(c)' \/ calls'[c].session \notin S
  <2> SUFFICES ASSUME NEW S \in SUBSET Started', S # {}
               PROVE  \E c \in S : LoggedIn(c)' \/ calls'[c].session \notin S
    OBVIOUS
  <2>1. S \in SUBSET Calls /\ \A c \in S : sessions'[c] # None
    BY DEF Started
  <2> QED BY <1>2, <2>1
<1> QED BY <1>3, <1>4 DEF SessionsRooted

-----------------------------------------------------------------------------
LEMMA DInvAlways ==
  ASSUME DirectoryAssumption
  PROVE  Spec => []DInv
<1>1. Init => DInv
  BY InitFacts
<1>2. DInv /\ [Next]_vars => DInv'
  BY TypesStep, AnsweredStep, RootedStep, CauseStep DEF DInv
<1> QED BY <1>1, <1>2, PTL DEF Spec

(* Every session of a Directory goes back to a login with its account's    *)
(* address and password.                                                   *)
THEOREM EverySessionRooted ==
  ASSUME DirectoryAssumption
  PROVE  Spec => []SessionsRooted
<1>1. DInv => SessionsRooted
  BY DEF DInv
<1> QED BY <1>1, DInvAlways, PTL

(* Every account was there before or comes from a registration.            *)
THEOREM EveryAccountHasCause ==
  ASSUME DirectoryAssumption
  PROVE  Spec => []AccountsHaveCause
<1>1. DInv => AccountsHaveCause
  BY DEF DInv
<1> QED BY <1>1, DInvAlways, PTL

(* A session whose call was answered is never opened or reopened.          *)
THEOREM NoSessionReopens ==
  ASSUME DirectoryAssumption
  PROVE  Spec => SessionsOnlyEnd
<1>1. ASSUME DInv, [Next]_vars, NEW c \in Calls, outcome[c] \notin Underway
      PROVE  \/ sessions'[c] \in {sessions[c], None}
             \/ sessions[c] # None /\ sessions'[c] = [user |-> sessions[c].user, open |-> FALSE]
  <2>1. ~Login(c) /\ ~Exchange(c)
    BY <1>1 DEF Login, Exchange, Pending, Underway
  <2> QED BY <1>1, <2>1, SessionsStep DEF DInv, Ended
<1>2. DInv /\ [Next]_vars =>
        [\A c \in Calls : outcome[c] \notin Underway =>
           \/ sessions'[c] \in {sessions[c], None}
           \/ sessions[c] # None /\ sessions'[c] = [user |-> sessions[c].user, open |-> FALSE]]_vars
  BY <1>1
<1> QED BY <1>2, DInvAlways, PTL DEF Spec, SessionsOnlyEnd
=============================================================================
