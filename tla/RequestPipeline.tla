--------------------------- MODULE RequestPipeline ---------------------------
(***************************************************************************)
(* A request's way through the server: RequestID, ErrorHandler, Recoverer  *)
(* and StructuredLogger around the router, Handle around the API's         *)
(* handlers, and the pool of database connections the handlers share.  A   *)
(* panic unwinds past StructuredLogger, which logs only what returns.      *)
(* What the handlers of the user module do is AuthService's; here they     *)
(* take some statements and then answer, fail or panic.                    *)
(***************************************************************************)
EXTENDS Sequences, ErrorMapping

CONSTANTS
  Requests,       \* requests the server serves at once
  MaxOpenConns,   \* connections of the pool
  MaxStatements,  \* statements of one handler
  Env,            \* app.env
  Paths           \* what the clients ask for

Routes == {"healthz", "api", "protected", "css", "swagger", "unmatched"}

ASSUME PipelineAssumption ==
  MaxOpenConns \in Nat \ {0} /\ MaxStatements \in Nat /\ Paths \subseteq Routes

VARIABLES
  hung,    \* the database does not answer, neither with a result nor with an error
  free,    \* connections nobody has taken
  pc,      \* where a request stands
  route,   \* the handler the router chose
  left,    \* statements it will still make
  err,     \* the error its handler returned
  nasty,   \* the value it panicked with cannot be logged
  status,  \* the status line sent, 0 before it is
  code,    \* the status the document being written speaks of
  docs,    \* the statuses the documents sent speak of
  lines    \* what was logged about it, each line with or without req_id

response == <<status, code, docs>>
vars == <<hung, free, pc, route, left, err, nasty, response, lines>>

Line(msg, id) == [msg |-> msg, req_id |-> id]
ErrorMsgs == {"panic recovered", "unhandled application error", "application error",
              "health check: database unreachable", "failed to serve swagger dark theme"}
Msgs == ErrorMsgs \cup {"handled request"}

(* What the API's handlers return, by how handleError answers it: an       *)
(* *AppError, a registered sentinel, any other; and the probe's own 503.   *)
Returned == {"BadFormat", "TokenInvalid", "Database"}
Unavailable == AppError(503, "SERVICE_UNAVAILABLE", ActionDetails("retry_later"))
Reply(e) == IF e = "Unavailable" THEN Unavailable ELSE Response(e)

(* swagger.Register: no documentation in production, however it is spelt.  *)
Register(e) == e \notin {"production", "Production"}

Init ==
  /\ hung = FALSE /\ free = MaxOpenConns
  /\ pc = [r \in Requests |-> "idle"] /\ route = [r \in Requests |-> "unmatched"]
  /\ left = [r \in Requests |-> 0] /\ err = [r \in Requests |-> "Database"]
  /\ nasty = [r \in Requests |-> FALSE]
  /\ status = [r \in Requests |-> 0] /\ code = [r \in Requests |-> 0]
  /\ docs = [r \in Requests |-> <<>>] /\ lines = [r \in Requests |-> <<>>]

-----------------------------------------------------------------------------
(* The parts the steps are made of.                                        *)

Goto(r, label) == pc' = [pc EXCEPT ![r] = label]
Log(r, msg, id) == lines' = [lines EXCEPT ![r] = Append(@, Line(msg, id))]

(* JSON: WriteHeader, of which only the first call counts, then Encode,    *)
(* whose error is dropped: the client may be gone.                         *)
WriteHeader(r, s) ==
  /\ status' = [status EXCEPT ![r] = IF @ = 0 THEN s ELSE @]
  /\ code' = [code EXCEPT ![r] = s]
JSON(r, s) == WriteHeader(r, s) /\ Goto(r, "encode") /\ UNCHANGED docs
Encode(r) ==
  /\ pc[r] = "encode" /\ Goto(r, "return")
  /\ docs' \in {docs, [docs EXCEPT ![r] = Append(@, code[r])]}
  /\ UNCHANGED <<hung, free, route, left, err, nasty, status, code, lines>>

(* An ErrorResponse that is not interrupted: Recoverer's and ErrorHandler's.*)
ErrorResponse(r, s) ==
  /\ WriteHeader(r, s)
  /\ docs' \in {docs, [docs EXCEPT ![r] = Append(@, s)]}

-----------------------------------------------------------------------------
(* The way in.                                                             *)

(* The router chooses, once RequestID has given the request an identifier. *)
Enter(r, path) ==
  /\ pc[r] = "idle"
  /\ route' = [route EXCEPT ![r] =
                 IF path \in {"css", "swagger"} /\ ~Register(Env) THEN "unmatched" ELSE path]
  /\ Goto(r, IF path = "protected" THEN "auth" ELSE "handler")
  /\ \E n \in CASE path = "healthz" -> {1} [] path \in {"api", "protected"} -> 0 .. MaxStatements
                [] OTHER -> {0} : left' = [left EXCEPT ![r] = n]
  /\ UNCHANGED <<hung, free, err, nasty, response, lines>>

(* RequireAuthMiddleware answers a refusal itself, around Handle.          *)
RequireAuth(r) ==
  /\ pc[r] = "auth"
  /\ \/ Goto(r, "handler") /\ UNCHANGED response
     \/ JSON(r, Response("Unauthenticated").status)
  /\ UNCHANGED <<hung, free, route, left, err, nasty, lines>>

-----------------------------------------------------------------------------
(* The handlers' statements: each takes a connection and gives it back.    *)

Query(r) ==
  /\ pc[r] = "handler" /\ left[r] > 0
  /\ Goto(r, "waiting") /\ left' = [left EXCEPT ![r] = @ - 1]
  /\ UNCHANGED <<hung, free, route, err, nasty, response, lines>>

Acquire(r) ==
  /\ pc[r] = "waiting" /\ free > 0 /\ free' = free - 1
  /\ Goto(r, "statement")
  /\ UNCHANGED <<hung, route, left, err, nasty, response, lines>>

(* What a failed statement makes of the request.  The probe logs it and    *)
(* returns its 503; refresh's session lookup calls it an invalid token;    *)
(* anything else comes out of the handler as it is.                        *)
FailStatement(r) ==
  /\ Goto(r, "failed")
  /\ IF route[r] = "healthz"
       THEN /\ err' = [err EXCEPT ![r] = "Unavailable"]
            /\ Log(r, "health check: database unreachable", FALSE)
       ELSE /\ \E e \in {"Database", "TokenInvalid"} : err' = [err EXCEPT ![r] = e]
            /\ UNCHANGED lines

(* The database answers, with a result or with an error.                   *)
\* Mutation of Answer: a statement that succeeds keeps its connection.
AnswerKeeps(r) ==
  /\ pc[r] = "statement" /\ ~hung
  /\ \/ Goto(r, "handler") /\ UNCHANGED <<free, err, lines>>
     \/ free' = free + 1 /\ FailStatement(r)
  /\ UNCHANGED <<hung, route, left, nasty, response>>
\* Mutation of Answer: a statement that fails is made again.
AnswerRetries(r) ==
  /\ pc[r] = "statement" /\ ~hung /\ free' = free + 1
  /\ Goto(r, "handler") \/ Goto(r, "waiting")
  /\ UNCHANGED <<hung, route, left, err, nasty, response, lines>>
Answer(r) ==
  /\ pc[r] = "statement" /\ ~hung /\ free' = free + 1
  /\ \/ Goto(r, "handler") /\ UNCHANGED <<err, lines>>
     \/ FailStatement(r)
  /\ UNCHANGED <<hung, route, left, nasty, response>>

(* The context ends: the client went away, or the probe's two seconds are  *)
(* over.  Waiting for a connection ends with it, and so does a statement.  *)
\* Mutation of Interrupt: also a request that still waits gives a connection back.
InterruptReleases(r) ==
  /\ pc[r] \in {"waiting", "statement"} /\ free' = free + 1
  /\ FailStatement(r)
  /\ UNCHANGED <<hung, route, left, nasty, response>>
Interrupt(r) ==
  /\ pc[r] \in {"waiting", "statement"}
  /\ free' = IF pc[r] = "statement" THEN free + 1 ELSE free
  /\ FailStatement(r)
  /\ UNCHANGED <<hung, route, left, nasty, response>>
Cancel(r) == route[r] # "healthz" /\ Interrupt(r)
\* Mutation of TimeOut: the deadline only counts while a statement runs.
TimeOutStatement(r) == route[r] = "healthz" /\ pc[r] = "statement" /\ Interrupt(r)
TimeOut(r) == route[r] = "healthz" /\ Interrupt(r)

-----------------------------------------------------------------------------
(* How a handler ends.                                                     *)

Success(r) ==
  /\ pc[r] = "handler" /\ left[r] = 0 /\ route[r] \in {"healthz", "api", "protected"}
  /\ JSON(r, 200)
  /\ UNCHANGED <<hung, free, route, left, err, nasty, lines>>

(* The router's own answer.                                                *)
NotFound(r) ==
  /\ pc[r] = "handler" /\ route[r] = "unmatched"
  /\ JSON(r, 404)
  /\ UNCHANGED <<hung, free, route, left, err, nasty, lines>>

Fail(r, e) ==
  /\ pc[r] = "handler" /\ route[r] \in {"api", "protected"}
  /\ err' = [err EXCEPT ![r] = e] /\ Goto(r, "failed")
  /\ UNCHANGED <<hung, free, route, left, nasty, response, lines>>

(* handleError: what is the server's fault is logged, then the client is   *)
(* told.                                                                   *)
\* Mutation of handleError: an error no package knows is not logged.
handleErrorQuietly(r) ==
  /\ pc[r] = "failed"
  /\ IF err[r] = "Unavailable" THEN Log(r, "application error", FALSE) ELSE UNCHANGED lines
  /\ JSON(r, Reply(err[r]).status)
  /\ UNCHANGED <<hung, free, route, left, err, nasty>>
handleError(r) ==
  /\ pc[r] = "failed"
  /\ IF err[r] \in Unregistered THEN Log(r, "unhandled application error", FALSE)
     ELSE IF Reply(err[r]).status >= 500 THEN Log(r, "application error", FALSE)
     ELSE UNCHANGED lines
  /\ JSON(r, Reply(err[r]).status)
  /\ UNCHANGED <<hung, free, route, left, err, nasty>>

(* The stylesheet in one Write, whose error is logged; the other files are *)
(* http-swagger's, which writes piece by piece.                            *)
ServeCSS(r) ==
  /\ pc[r] = "handler" /\ route[r] = "css"
  /\ WriteHeader(r, 200) /\ Goto(r, "return")
  /\ \/ docs' = [docs EXCEPT ![r] = Append(@, 200)] /\ UNCHANGED lines
     \/ UNCHANGED docs /\ Log(r, "failed to serve swagger dark theme", FALSE)
  /\ UNCHANGED <<hung, free, route, left, err, nasty>>
ServeUI(r) ==
  /\ pc[r] = "handler" /\ route[r] = "swagger"
  /\ WriteHeader(r, 200) /\ Goto(r, "page")
  /\ docs' = [docs EXCEPT ![r] = Append(@, 200)]
  /\ UNCHANGED <<hung, free, route, left, err, nasty, lines>>
FinishUI(r) ==
  /\ pc[r] = "page" /\ Goto(r, "return")
  /\ UNCHANGED <<hung, free, route, left, err, nasty, response, lines>>

(* Wherever the code of a handler runs it may panic, before its status     *)
(* line, after it, or within a page.  A value may be such that logging it  *)
(* panics again.                                                           *)
Panic(r, value) ==
  /\ pc[r] \in {"auth", "handler", "encode", "page"}
  /\ nasty' = [nasty EXCEPT ![r] = value] /\ Goto(r, "panic")
  /\ UNCHANGED <<hung, free, route, left, err, response, lines>>

-----------------------------------------------------------------------------
(* The way out.                                                            *)

StructuredLogger(r) ==
  /\ pc[r] = "return" /\ Goto(r, "done")
  /\ Log(r, "handled request", TRUE)
  /\ UNCHANGED <<hung, free, route, left, err, nasty, response>>

(* Recoverer logs the panic, and answers if nothing was answered yet.      *)
\* Mutation of Recoverer: it answers whatever was sent before.
RecovererAlways(r) ==
  /\ pc[r] = "panic"
  /\ IF nasty[r] THEN Goto(r, "raise") /\ UNCHANGED <<response, lines>>
     ELSE Goto(r, "done") /\ Log(r, "panic recovered", FALSE) /\ ErrorResponse(r, 500)
  /\ UNCHANGED <<hung, free, route, left, err, nasty>>
\* Mutation of Recoverer: StructuredLogger logs in a deferred call, on which the panic passes.
RecovererLogged(r) ==
  /\ pc[r] = "panic"
  /\ IF nasty[r] THEN Goto(r, "raise") /\ UNCHANGED <<response, lines>>
     ELSE /\ Goto(r, "done")
          /\ lines' = [lines EXCEPT ![r] = @ \o <<Line("handled request", TRUE), Line("panic recovered", FALSE)>>]
          /\ IF status[r] = 0 THEN ErrorResponse(r, 500) ELSE UNCHANGED response
  /\ UNCHANGED <<hung, free, route, left, err, nasty>>
Recoverer(r) ==
  /\ pc[r] = "panic"
  /\ IF nasty[r] THEN Goto(r, "raise") /\ UNCHANGED <<response, lines>>
     ELSE /\ Goto(r, "done") /\ Log(r, "panic recovered", FALSE)
          /\ IF status[r] = 0 THEN ErrorResponse(r, 500) ELSE UNCHANGED response
  /\ UNCHANGED <<hung, free, route, left, err, nasty>>

(* ErrorHandler recovers what Recoverer's own logging threw, and answers   *)
(* in any case.                                                            *)
ErrorHandler(r) ==
  /\ pc[r] = "raise" /\ Goto(r, "done")
  /\ Log(r, "panic recovered", FALSE) /\ ErrorResponse(r, 500)
  /\ UNCHANGED <<hung, free, route, left, err, nasty>>

(* The database comes and goes.                                            *)
Database ==
  /\ hung' = ~hung
  /\ UNCHANGED <<free, pc, route, left, err, nasty, response, lines>>

(* Everything has been served.                                             *)
Idle == (\A r \in Requests : pc[r] = "done") /\ UNCHANGED vars

-----------------------------------------------------------------------------
(* What the server does of itself for a request.                           *)
Serve(r) ==
  \/ Encode(r) \/ RequireAuth(r) \/ Query(r) \/ Acquire(r) \/ Success(r) \/ NotFound(r)
  \/ (\E e \in Returned : Fail(r, e)) \/ handleError(r) \/ ServeCSS(r) \/ ServeUI(r) \/ FinishUI(r)
  \/ (\E value \in BOOLEAN : Panic(r, value)) \/ StructuredLogger(r) \/ Recoverer(r) \/ ErrorHandler(r)

Next ==
  \/ \E r \in Requests : \/ \E path \in Paths : Enter(r, path)
                         \/ Serve(r) \/ Answer(r) \/ Cancel(r) \/ TimeOut(r)
  \/ Database \/ Idle

Spec == Init /\ [][Next]_vars

(* Goroutines run, timers fire, and a database that is not hung answers.   *)
(* No client need ever go away, and the database may hang for good.        *)
FairSpec ==
  Spec /\ \A r \in Requests : WF_vars(Serve(r)) /\ WF_vars(Answer(r)) /\ WF_vars(TimeOut(r))

-----------------------------------------------------------------------------
Places == {"idle", "auth", "handler", "waiting", "statement", "failed", "encode", "page", "return",
           "panic", "raise", "done"}
Statuses == {200, 400, 401, 404, 500, 503}

(* The types.                                                              *)
TypeOK ==
  /\ hung \in BOOLEAN /\ free \in 0 .. MaxOpenConns
  /\ pc \in [Requests -> Places] /\ route \in [Requests -> Routes]
  /\ left \in [Requests -> Nat]
  /\ err \in [Requests -> Returned \cup {"Unavailable"}]
  /\ nasty \in [Requests -> BOOLEAN]
  /\ status \in [Requests -> Statuses \cup {0}] /\ code \in [Requests -> Statuses \cup {0}]
  /\ docs \in [Requests -> Seq(Statuses)]
  /\ lines \in [Requests -> Seq([msg : Msgs, req_id : BOOLEAN])]

(* The client gets one document at most, and it speaks of the status that  *)
(* was sent: a panic after the first byte adds no error to an answer that  *)
(* began well.  Only where Recoverer itself panicked does ErrorHandler add *)
(* its 500 to whatever was sent, and then nothing comes after it.          *)
Consistent(r) == Len(docs[r]) =< 1 /\ (docs[r] # <<>> => docs[r][1] = status[r])
EndsInError(r) ==
  LET n == Len(docs[r]) IN n \in {1, 2} /\ docs[r][n] = 500 /\ (n = 2 => docs[r][1] = status[r])
AnswersOnce ==
  \A r \in Requests : Consistent(r) \/ (nasty[r] /\ pc[r] = "done" /\ EndsInError(r))

(* A request that is over has left one trace: it was handled, or it        *)
(* panicked.                                                               *)
Traces(log) == {n \in DOMAIN log : log[n].msg \in {"handled request", "panic recovered"}}
OneTrace == \A r \in Requests : pc[r] = "done" => \E n \in DOMAIN lines[r] : Traces(lines[r]) = {n}

(* When the server is at fault, the log says why before the client hears   *)
(* of it.                                                                  *)
CauseLogged ==
  \A r \in Requests : status[r] >= 500 => \E n \in DOMAIN lines[r] : lines[r][n].msg \in ErrorMsgs

(* A request's way is a way forward: nothing is done twice, no failure or  *)
(* panic sends it back to its handler, and what other requests, a timeout  *)
(* or the database do never lengthens it.                                  *)
Stage ==
  [place \in Places |->
     CASE place = "done" -> 0 [] place \in {"return", "raise"} -> 1 [] place = "panic" -> 2
       [] place \in {"encode", "page"} -> 3 [] place = "failed" -> 4 [] place = "handler" -> 5
       [] place \in {"auth", "statement"} -> 6 [] place = "waiting" -> 7
       [] place = "idle" -> 3 * MaxStatements + 10]
Distance(r) == 3 * left[r] + Stage[pc[r]]
Standing(r) == <<pc[r], route[r], left[r], err[r], nasty[r], status[r], code[r], docs[r], lines[r]>>
RequestsAdvance ==
  [][\A r \in Requests : Standing(r)' = Standing(r) \/ Distance(r)' < Distance(r)]_vars

(* The probe ends, also when all connections are taken and the database    *)
(* does not answer.                                                        *)
ProbeEnds == \A r \in Requests : pc[r] # "idle" /\ route[r] = "healthz" ~> pc[r] = "done"

(* Every request ends if the database comes back for good: no connection   *)
(* is lost, and nobody holds one while waiting for another.                *)
RequestsEnd == \A r \in Requests : <>[]~hung => (pc[r] # "idle" ~> pc[r] = "done")

-----------------------------------------------------------------------------
(* main.go: "RequestID must come first so every log line and response      *)
(* carries it."  The lines of handleError, of Recoverer and of the probe   *)
(* are written with the process's logger, which knows no request.          *)
EveryLineCarriesRequestID ==
  \A r \in Requests : \A n \in DOMAIN lines[r] : lines[r][n].req_id
=============================================================================
