------------------------------ MODULE Lifecycle ------------------------------
(***************************************************************************)
(* Instances of the program over one bucket: main starts each of them step *)
(* by step (configuration, database, bucket, HTTP server), a goroutine of  *)
(* its own serves, a signal stops it, and main waits for the requests under*)
(* way, for ten seconds at most.  Whatever is still running when main      *)
(* returns, or when a Fatal ends the process, is cut.                      *)
(***************************************************************************)
EXTENDS FiniteSets

CONSTANTS
  Instances,   \* processes of the program
  Requests,    \* requests clients send to them
  None         \* no instance, no end, no bucket

Startup == {"config", "database", "storage", "head", "create", "router"}
Fatals == {"config", "database", "storage", "head", "create", "server"}

ASSUME LifecycleAssumption ==
  None \notin Instances \cup Fatals \cup {"ours", "theirs", "graceful", "forced", "killed"}

VARIABLES
  main,       \* where main stands
  server,     \* the goroutine with ListenAndServe: "off", "binding", "listening", "closed"
  bucket,     \* the bucket of that name: None, "ours", or another account's
  signalled,  \* SIGINT or SIGTERM reached the process after NotifyContext
  deadline,   \* the ten seconds of shutdownCtx are over
  exit,       \* how the process ended: a Fatal's reason, "graceful", "forced" or "killed"
  faulted,    \* something outside failed the process
  at,         \* the instance that accepted a request, or None
  state       \* of a request: "none", "active", "answered", "cut"

process == <<main, server, signalled, deadline, exit, faulted>>
work == <<at, state>>
vars == <<process, bucket, work>>

Running(i) == main[i] # "exited"
Active(i) == {q \in Requests : at[q] = i /\ state[q] = "active"}

Init ==
  /\ main = [i \in Instances |-> "config"]
  /\ server = [i \in Instances |-> "off"]
  /\ bucket \in {None, "ours", "theirs"}
  /\ signalled = [i \in Instances |-> FALSE]
  /\ deadline = [i \in Instances |-> FALSE]
  /\ exit = [i \in Instances |-> None]
  /\ faulted = [i \in Instances |-> FALSE]
  /\ at = [q \in Requests |-> None]
  /\ state = [q \in Requests |-> "none"]

-----------------------------------------------------------------------------
(* How a step of main ends: at the next one, or with the process.          *)

Goto(i, label) ==
  /\ main' = [main EXCEPT ![i] = label]
  /\ UNCHANGED <<server, signalled, deadline, exit, faulted, work>>

Exit(i, how) ==
  /\ main' = [main EXCEPT ![i] = "exited"]
  /\ exit' = [exit EXCEPT ![i] = how]
  /\ state' = [q \in Requests |-> IF q \in Active(i) THEN "cut" ELSE state[q]]
  /\ UNCHANGED <<server, signalled, deadline, at>>

(* logger.Fatal: the process is gone, deferred calls and all.              *)
Fatal(i, reason) == Exit(i, reason) /\ UNCHANGED faulted
(* The same after an error that came from outside.                         *)
OutsideFails(i, reason) == Exit(i, reason) /\ faulted' = [faulted EXCEPT ![i] = TRUE]

(* GetConfig, NewDatabaseConnection (which pings), the presign TTL and the *)
(* SDK's configuration: each goes well or is fatal.                        *)
Begin(i, label, next) ==
  /\ main[i] = label /\ UNCHANGED bucket
  /\ Goto(i, next) \/ OutsideFails(i, label)
GetConfig(i) == Begin(i, "config", "database")
NewDatabaseConnection(i) == Begin(i, "database", "storage")
New(i) == Begin(i, "storage", "head")

(* ensureBucket.  The codes of a missing bucket and of a lost race count   *)
(* as what they are, any other error is fatal; another account's bucket    *)
(* answers Head with 403.  "other" is an error of the network or of S3.    *)
isNotFound(code) == code \in {"NotFound", "NoSuchBucket"}
\* Mutation of isAlreadyExists: a bucket this account owns is not known as one.
isAlreadyExistsElsewhere(code) == code = "BucketAlreadyExists"
\* Mutation of isAlreadyExists: any error is taken for "already exists".
isAlreadyExistsAlways(code) == TRUE
isAlreadyExists(code) == code \in {"BucketAlreadyExists", "BucketAlreadyOwnedByYou"}

(* The code Head or Create answers when the bucket is not as it hopes.     *)
HeadRefusal(found) == IF found = None THEN "NotFound" ELSE "Forbidden"
CreateRefusal(found) == IF found = "ours" THEN "BucketAlreadyOwnedByYou" ELSE "BucketAlreadyExists"

HeadBucket(i) ==
  /\ main[i] = "head" /\ UNCHANGED bucket
  /\ \/ bucket = "ours" /\ Goto(i, "router")
     \/ bucket # "ours" /\ IF isNotFound(HeadRefusal(bucket)) THEN Goto(i, "create")
                                                              ELSE OutsideFails(i, "head")
     \/ IF isNotFound("other") THEN Goto(i, "create") ELSE OutsideFails(i, "head")

(* Between Head and Create somebody else may have created it; a call that  *)
(* fails with "other" may yet have created it.                             *)
CreateBucket(i) ==
  /\ main[i] = "create"
  /\ \/ bucket = None /\ bucket' = "ours" /\ Goto(i, "router")
     \/ /\ bucket # None /\ UNCHANGED bucket
        /\ IF isAlreadyExists(CreateRefusal(bucket)) THEN Goto(i, "router") ELSE Fatal(i, "create")
     \/ /\ bucket' \in {bucket, IF bucket = None THEN "ours" ELSE bucket}
        /\ IF isAlreadyExists("other") THEN Goto(i, "router") ELSE OutsideFails(i, "create")

(* The router, NotifyContext and the goroutine; then main waits.           *)
StartServer(i) ==
  /\ main[i] = "router"
  /\ main' = [main EXCEPT ![i] = "waiting"] /\ server' = [server EXCEPT ![i] = "binding"]
  /\ UNCHANGED <<bucket, signalled, deadline, exit, faulted, work>>

-----------------------------------------------------------------------------
(* The goroutine.                                                          *)

(* ListenAndServe binds the port, unless Shutdown was faster.              *)
Listen(i) ==
  /\ Running(i) /\ server[i] = "binding"
  /\ server' = [server EXCEPT ![i] = IF main[i] = "draining" THEN "closed" ELSE "listening"]
  /\ UNCHANGED <<main, bucket, signalled, deadline, exit, faulted, work>>

(* What ListenAndServe returns once Shutdown closed the listener is        *)
(* ErrServerClosed, and no reason to be fatal.                             *)
\* Mutation of ServerReturns: ErrServerClosed is an error like any other.
ServerReturnsFatal(i) ==
  /\ main[i] = "draining" /\ server[i] = "listening"
  /\ Fatal(i, "server") /\ UNCHANGED bucket
ServerReturns(i) ==
  /\ main[i] = "draining" /\ server[i] = "listening"
  /\ server' = [server EXCEPT ![i] = "closed"]
  /\ UNCHANGED <<main, bucket, signalled, deadline, exit, faulted, work>>

(* The port is taken, or accepting fails.                                  *)
ServerFails(i) ==
  /\ Running(i) /\ server[i] \in {"binding", "listening"}
  /\ OutsideFails(i, "server") /\ UNCHANGED bucket

(* A request is accepted, its handler runs, it is answered: the handler    *)
(* takes as long as it likes.                                              *)
\* Mutation of Accept: the connection is not among those Shutdown waits for.
AcceptUntracked(i, q) ==
  /\ main[i] = "waiting" /\ server[i] = "listening" /\ state[q] = "none"
  /\ state' = [state EXCEPT ![q] = "active"] /\ UNCHANGED <<process, bucket, at>>
Accept(i, q) ==
  /\ main[i] = "waiting" /\ server[i] = "listening" /\ state[q] = "none"
  /\ at' = [at EXCEPT ![q] = i] /\ state' = [state EXCEPT ![q] = "active"]
  /\ UNCHANGED <<process, bucket>>
Finish(q) ==
  /\ state[q] = "active" /\ state' = [state EXCEPT ![q] = "answered"]
  /\ UNCHANGED <<process, bucket, at>>

-----------------------------------------------------------------------------
(* The end.                                                                *)

(* Before NotifyContext a signal kills the process; after it, it cancels   *)
(* ctx, and a second one changes nothing.                                  *)
Signal(i) ==
  /\ Running(i) /\ UNCHANGED bucket
  /\ IF main[i] \in Startup
       THEN OutsideFails(i, "killed")
       ELSE /\ ~signalled[i] /\ signalled' = [signalled EXCEPT ![i] = TRUE]
            /\ UNCHANGED <<main, server, deadline, exit, faulted, work>>

(* <-ctx.Done(): Shutdown closes the listener at once.                     *)
BeginShutdown(i) ==
  /\ main[i] = "waiting" /\ signalled[i]
  /\ Goto(i, "draining") /\ UNCHANGED bucket

(* Shutdown returns nil when no connection is active...                    *)
\* Mutation of StopGracefully: main does not wait for Shutdown's result.
StopAtOnce(i) ==
  /\ main[i] = "draining" /\ Exit(i, "graceful") /\ UNCHANGED <<bucket, faulted>>
StopGracefully(i) ==
  /\ main[i] = "draining" /\ Active(i) = {}
  /\ Exit(i, "graceful") /\ UNCHANGED <<bucket, faulted>>

(* ...and the context's error when the deadline passes first; it polls, so *)
(* it may miss that the last request has just been answered.               *)
Expire(i) ==
  /\ main[i] = "draining" /\ ~deadline[i] /\ deadline' = [deadline EXCEPT ![i] = TRUE]
  /\ UNCHANGED <<main, server, bucket, signalled, exit, faulted, work>>
\* Mutation of StopForced: Shutdown gets a context that never expires.
StopNever(i) ==
  /\ main[i] = "draining" /\ deadline[i] /\ Active(i) = {}
  /\ Exit(i, "forced") /\ UNCHANGED <<bucket, faulted>>
StopForced(i) ==
  /\ main[i] = "draining" /\ deadline[i]
  /\ Exit(i, "forced") /\ UNCHANGED <<bucket, faulted>>

(* SIGKILL, out of memory, the machine; and another account's bucket.      *)
Crash(i) == Running(i) /\ OutsideFails(i, "killed") /\ UNCHANGED bucket
Squat == bucket = None /\ bucket' = "theirs" /\ UNCHANGED <<process, work>>

(* Every process has ended.                                                *)
Over == (\A i \in Instances : ~Running(i)) /\ UNCHANGED vars

-----------------------------------------------------------------------------
Main(i) ==
  \/ GetConfig(i) \/ NewDatabaseConnection(i) \/ New(i) \/ HeadBucket(i) \/ CreateBucket(i)
  \/ StartServer(i) \/ BeginShutdown(i) \/ StopGracefully(i) \/ StopForced(i)
Goroutine(i) == Listen(i) \/ ServerReturns(i)

Next ==
  \/ \E i \in Instances : \/ Main(i) \/ Goroutine(i) \/ Expire(i)
                          \/ ServerFails(i) \/ Signal(i) \/ Crash(i)
                          \/ \E q \in Requests : Accept(i, q)
  \/ \E q \in Requests : Finish(q)
  \/ Squat \/ Over

Spec == Init /\ [][Next]_vars

(* main and the goroutine go on when they can, the SDK's and the database's*)
(* calls return (the former have 30 seconds), and the deadline comes.  No  *)
(* handler need ever finish.                                               *)
FairSpec == Spec /\ \A i \in Instances : WF_vars(Main(i)) /\ WF_vars(Goroutine(i)) /\ WF_vars(Expire(i))

-----------------------------------------------------------------------------
(* The types; a request that was accepted belongs to one instance.         *)
TypeOK ==
  /\ main \in [Instances -> Startup \cup {"waiting", "draining", "exited"}]
  /\ server \in [Instances -> {"off", "binding", "listening", "closed"}]
  /\ bucket \in {None, "ours", "theirs"}
  /\ signalled \in [Instances -> BOOLEAN] /\ deadline \in [Instances -> BOOLEAN]
  /\ exit \in [Instances -> Fatals \cup {"graceful", "forced", "killed", None}]
  /\ faulted \in [Instances -> BOOLEAN]
  /\ at \in [Requests -> Instances \cup {None}]
  /\ state \in [Requests -> {"none", "active", "answered", "cut"}]
  /\ \A q \in Requests : at[q] = None <=> state[q] = "none"

(* An instance ends with a failure only when something outside failed it:  *)
(* never because other instances start beside it and race for the bucket,  *)
(* nor because it is shut down itself, whenever the signal comes.          *)
FailsOnlyFromOutside == \A i \in Instances : exit[i] \in Fatals => faulted[i]

(* An instance that serves has a bucket, whoever created it and whatever   *)
(* the calls that were to create it answered.                              *)
ServesWithBucket == \A i \in Instances : main[i] \in {"router", "waiting", "draining"} => bucket # None

(* A request under way is cut only by a failure or by a shutdown that it   *)
(* outlasted: one that stops gracefully answers everything it accepted.    *)
CutHasCause ==
  \A q \in Requests : state[q] = "cut" =>
    \/ faulted[at[q]]
    \/ exit[at[q]] = "forced" /\ signalled[at[q]] /\ deadline[at[q]]

(* A process that was asked to stop stops, also when a handler hangs.      *)
SignalStops == \A i \in Instances : signalled[i] ~> main[i] = "exited"
=============================================================================
