--------------------------- MODULE PipelineProofs ----------------------------
(***************************************************************************)
(* RequestPipeline's safety for any number of requests and connections.    *)
(* A request is only touched by its own steps, so the invariant speaks of  *)
(* one request and is shown for the one that moves; the connections are    *)
(* counted apart.                                                          *)
(***************************************************************************)
EXTENDS RequestPipeline, FiniteSets, FiniteSetTheorems, TLAPS

Lines == [msg : Msgs, req_id : BOOLEAN]
Errs == Returned \cup {"Unavailable"}

(* TypeOK without the bounds of the pool.                                  *)
Types ==
  /\ hung \in BOOLEAN /\ free \in Int
  /\ pc \in [Requests -> Places] /\ route \in [Requests -> Routes]
  /\ left \in [Requests -> Nat] /\ err \in [Requests -> Errs]
  /\ nasty \in [Requests -> BOOLEAN]
  /\ status \in [Requests -> Statuses \cup {0}] /\ code \in [Requests -> Statuses \cup {0}]
  /\ docs \in [Requests -> Seq(Statuses)] /\ lines \in [Requests -> Seq(Lines)]

(* A connection is free or taken by the statement of one request.          *)
Taken == {r \in Requests : pc[r] = "statement"}
Pool == IsFiniteSet(Taken) /\ free >= 0 /\ free + Cardinality(Taken) = MaxOpenConns

(* What a request's place says of its answer and its log.                  *)
Before == {"idle", "auth", "handler", "waiting", "statement", "failed"}
Fresh(r) == pc[r] \in Before => status[r] = 0 /\ docs[r] = <<>>
Writing(r) == pc[r] = "encode" => status[r] = code[r] /\ status[r] # 0 /\ docs[r] = <<>>
Unwinds(r) == /\ nasty[r] => pc[r] \in {"panic", "raise", "done"}
              /\ pc[r] = "raise" => nasty[r]
Document(r) == Consistent(r) \/ (nasty[r] /\ pc[r] = "done" /\ EndsInError(r))
Trace(r) == IF pc[r] = "done" THEN \E n \in DOMAIN lines[r] : Traces(lines[r]) = {n}
                              ELSE Traces(lines[r]) = {}
Cause(r) == status[r] >= 500 => \E n \in DOMAIN lines[r] : lines[r][n].msg \in ErrorMsgs
Empty(r) == status[r] = 0 => docs[r] = <<>>
Answering(r) == Fresh(r) /\ Writing(r) /\ Unwinds(r) /\ Empty(r) /\ Document(r)
Good(r) == Answering(r) /\ Trace(r) /\ Cause(r)
IInv == Types /\ Pool /\ \A r \in Requests : Good(r)

-----------------------------------------------------------------------------
(* The statuses of the replies, and which of them are the server's fault.  *)
LEMMA Replies ==
  /\ Response("Unauthenticated").status = 401
  /\ Reply("BadFormat").status = 400 /\ Reply("TokenInvalid").status = 401
  /\ Reply("Database").status = 500 /\ Reply("Unavailable").status = 503
  /\ Unregistered \cap Errs = {"Database"}
<1>1. "Unauthenticated" \in DOMAIN AppErrors /\ AppErrors["Unauthenticated"].status = 401
  BY DEF AppErrors, AppError
<1>2. "BadFormat" \in DOMAIN AppErrors /\ AppErrors["BadFormat"].status = 400
  BY DEF AppErrors, AppError
<1>3. "TokenInvalid" \notin DOMAIN AppErrors /\ "Database" \notin DOMAIN AppErrors
  BY DEF AppErrors
<1>4. "TokenInvalid" \in DOMAIN Registry /\ Registry["TokenInvalid"].status = 401
  BY DEF Registry, AppError
<1>5. "Database" \notin DOMAIN Registry
  BY DEF Registry
<1>6. Reply("Unavailable").status = 503
  BY DEF Reply, Unavailable, AppError
<1>7. AppError(500, "INTERNAL_ERROR", ActionDetails("retry_later")).status = 500
  BY DEF AppError
<1>8. Unregistered \cap Errs = {"Database"}
  BY DEF Unregistered, Errs, Returned
<1> QED
  BY <1>1, <1>2, <1>3, <1>4, <1>5, <1>6, <1>7, <1>8 DEF Response, Reply

LEMMA StatusType == \A s \in Statuses : s \in Nat /\ s # 0
BY DEF Statuses

LEMMA Some == 500 \in Statuses /\ 200 \in Statuses /\ 200 # 0 /\ ~(200 >= 500)
BY DEF Statuses

(* A line more in a log: the earlier ones keep their places.               *)
LEMMA OneMore ==
  ASSUME NEW log \in Seq(Lines), NEW line \in Lines
  PROVE  /\ Append(log, line) \in Seq(Lines)
         /\ DOMAIN Append(log, line) = DOMAIN log \cup {Len(log) + 1}
         /\ Len(log) + 1 \notin DOMAIN log
         /\ Append(log, line)[Len(log) + 1] = line
         /\ \A n \in DOMAIN log : Append(log, line)[n] = log[n]
OBVIOUS

(* The first trace is the only one, and other lines are none.              *)
LEMMA TraceOfAppend ==
  ASSUME NEW log \in Seq(Lines), NEW line \in Lines, Traces(log) = {}
  PROVE  /\ line.msg \in {"handled request", "panic recovered"}
              => \E n \in DOMAIN Append(log, line) : Traces(Append(log, line)) = {n}
         /\ line.msg \notin {"handled request", "panic recovered"} => Traces(Append(log, line)) = {}
<1> DEFINE new == Append(log, line)
           last == Len(log) + 1
<1>1. /\ DOMAIN new = DOMAIN log \cup {last} /\ last \notin DOMAIN log /\ new[last] = line
      /\ \A n \in DOMAIN log : new[n] = log[n]
  BY OneMore
<1> HIDE DEF new, last
<1>2. \A n \in DOMAIN log : new[n].msg \notin {"handled request", "panic recovered"}
  BY <1>1 DEF Traces
<1>3. CASE line.msg \in {"handled request", "panic recovered"}
  <2>1. Traces(new) = {last}
    BY <1>1, <1>2, <1>3 DEF Traces
  <2>2. \E n \in DOMAIN new : Traces(new) = {n}
    BY <1>1, <2>1
  <2> QED
    BY <1>3, <2>2 DEF new
<1>4. CASE line.msg \notin {"handled request", "panic recovered"}
  <2>1. Traces(new) = {}
    BY <1>1, <1>2, <1>4 DEF Traces
  <2> QED
    BY <1>4, <2>1 DEF new
<1> QED
  BY <1>3, <1>4

LEMMA LastLine ==
  ASSUME NEW log \in Seq(Lines), NEW line \in Lines
  PROVE  \E n \in DOMAIN Append(log, line) : Append(log, line)[n] = line
<1>1. Len(log) + 1 \in DOMAIN Append(log, line) /\ Append(log, line)[Len(log) + 1] = line
  BY OneMore
<1> QED
  BY <1>1

LEMMA LineType ==
  ASSUME NEW msg \in Msgs, NEW id \in BOOLEAN
  PROVE  Line(msg, id) \in Lines /\ Line(msg, id).msg = msg
BY DEF Line, Lines

-----------------------------------------------------------------------------
(* A step of r: nothing of another request changes.                        *)
Untouched(q) ==
  /\ pc'[q] = pc[q] /\ status'[q] = status[q] /\ code'[q] = code[q]
  /\ docs'[q] = docs[q] /\ lines'[q] = lines[q] /\ nasty'[q] = nasty[q]
Only(r) == Types' /\ \A q \in Requests \ {r} : Untouched(q)

LEMMA UntouchedGood ==
  ASSUME NEW q \in Requests, Good(q), Untouched(q)
  PROVE  Good(q)'
BY DEF Untouched, Good, Answering, Fresh, Writing, Unwinds, Empty, Document, Consistent, EndsInError,
       Trace, Cause

(* The pool, by where a step takes the request.                            *)
LEMMA PoolSteps ==
  ASSUME Types, Pool, Types', NEW r \in Requests, \A q \in Requests \ {r} : pc'[q] = pc[q],
         \/ pc[r] # "statement" /\ pc'[r] # "statement" /\ free' = free
         \/ pc[r] # "statement" /\ pc'[r] = "statement" /\ free > 0 /\ free' = free - 1
         \/ pc[r] = "statement" /\ pc'[r] # "statement" /\ free' = free + 1
  PROVE  Pool'
<1>1. CASE pc[r] # "statement" /\ pc'[r] # "statement" /\ free' = free
  <2>1. Taken' = Taken
    BY <1>1 DEF Taken
  <2> QED
    BY <1>1, <2>1 DEF Pool
<1>2. CASE pc[r] # "statement" /\ pc'[r] = "statement" /\ free > 0 /\ free' = free - 1
  <2>1. Taken' = Taken \cup {r} /\ r \notin Taken
    BY <1>2 DEF Taken
  <2>2. IsFiniteSet(Taken') /\ Cardinality(Taken') = Cardinality(Taken) + 1 /\ Cardinality(Taken) \in Nat
    BY <2>1, FS_AddElement, FS_CardinalityType DEF Pool
  <2> QED
    BY <1>2, <2>2 DEF Pool, Types
<1>3. CASE pc[r] = "statement" /\ pc'[r] # "statement" /\ free' = free + 1
  <2>1. Taken' = Taken \ {r} /\ r \in Taken
    BY <1>3 DEF Taken
  <2>2. IsFiniteSet(Taken') /\ Cardinality(Taken') = Cardinality(Taken) - 1 /\ Cardinality(Taken) \in Nat
    BY <2>1, FS_RemoveElement, FS_CardinalityType DEF Pool
  <2> QED
    BY <1>3, <2>2 DEF Pool, Types
<1> QED
  BY <1>1, <1>2, <1>3

-----------------------------------------------------------------------------
LEMMA InitInv == Init => IInv
<1> SUFFICES ASSUME Init PROVE IInv
  OBVIOUS
<1> USE PipelineAssumption
<1>1. Types
  <2>1. <<>> \in Seq(Statuses) /\ <<>> \in Seq(Lines)
    OBVIOUS
  <2>2. hung \in BOOLEAN /\ free \in Int /\ left \in [Requests -> Nat]
    <3>1. hung \in BOOLEAN
      BY Zenon DEF Init
    <3>2. free \in Int /\ left \in [Requests -> Nat]
      BY DEF Init
    <3> QED
      BY <3>1, <3>2
  <2>3. pc \in [Requests -> Places] /\ route \in [Requests -> Routes] /\ err \in [Requests -> Errs]
    BY DEF Init, Places, Routes, Errs, Returned
  <2>4. docs \in [Requests -> Seq(Statuses)] /\ lines \in [Requests -> Seq(Lines)]
    BY <2>1 DEF Init
  <2>5. /\ status \in [Requests -> Statuses \cup {0}] /\ code \in [Requests -> Statuses \cup {0}]
        /\ nasty \in [Requests -> BOOLEAN]
    BY DEF Init
  <2> QED
    BY <2>2, <2>3, <2>4, <2>5 DEF Types
<1>2. Pool
  <2>1. Taken = {}
    BY DEF Init, Taken
  <2> QED
    BY <2>1, FS_EmptySet DEF Init, Pool
<1>3. ASSUME NEW r \in Requests PROVE Good(r)
  BY DEF Init, Good, Answering, Fresh, Writing, Unwinds, Empty, Document, Consistent, Trace, Traces, Cause
<1> QED
  BY <1>1, <1>2, <1>3 DEF IInv

(* From the request that moved to the whole invariant.                     *)
LEMMA Compose ==
  ASSUME IInv, NEW r \in Requests, Only(r), Good(r)',
         \/ pc[r] # "statement" /\ pc'[r] # "statement" /\ free' = free
         \/ pc[r] # "statement" /\ pc'[r] = "statement" /\ free > 0 /\ free' = free - 1
         \/ pc[r] = "statement" /\ pc'[r] # "statement" /\ free' = free + 1
  PROVE  IInv'
<1>1. Pool'
  BY PoolSteps DEF IInv, Only, Untouched
<1>2. ASSUME NEW q \in Requests PROVE Good(q)'
  BY UntouchedGood DEF IInv, Only
<1> QED
  BY <1>1, <1>2 DEF IInv, Only

(* Steps that write neither a line nor a part of the answer.               *)
LEMMA QuietStep ==
  ASSUME IInv, NEW r \in Requests, NEW label \in Before \cup {"return"}, Goto(r, label),
         pc[r] \in Before \cup {"page"}, pc[r] = "page" <=> label = "return",
         pc[r] # "idle", label # "idle", UNCHANGED <<status, code, docs, lines, nasty>>
  PROVE  Good(r)' /\ pc'[r] = label
<1>1. pc'[r] = label
  BY DEF IInv, Types, Goto
<1> QED
  BY <1>1 DEF IInv, Good, Answering, Fresh, Writing, Unwinds, Empty, Document, Consistent, Trace, Cause, Before

(* Steps that only log why a statement failed.                             *)
LEMMA FailStep ==
  ASSUME IInv, NEW r \in Requests, pc[r] \in {"waiting", "statement"}, FailStatement(r),
         UNCHANGED <<status, code, docs, nasty>>
  PROVE  /\ Good(r)' /\ pc'[r] = "failed"
         /\ pc' \in [Requests -> Places] /\ err' \in [Requests -> Errs] /\ lines' \in [Requests -> Seq(Lines)]
         /\ \A q \in Requests \ {r} : pc'[q] = pc[q] /\ lines'[q] = lines[q]
<1> DEFINE line == Line("health check: database unreachable", FALSE)
<1>1. line \in Lines /\ line.msg = "health check: database unreachable"
  BY LineType DEF Msgs, ErrorMsgs
<1>2. pc' = [pc EXCEPT ![r] = "failed"] /\ lines' \in {lines, [lines EXCEPT ![r] = Append(@, line)]}
  BY DEF FailStatement, Goto, Log
<1>3. lines[r] \in Seq(Lines) /\ Append(lines[r], line) \in Seq(Lines)
  BY <1>1, OneMore DEF IInv, Types
<1>4. lines' \in [Requests -> Seq(Lines)] /\ lines'[r] \in {lines[r], Append(lines[r], line)}
  BY <1>2, <1>3 DEF IInv, Types
<1>5. Traces(lines[r]) = {}
  BY DEF IInv, Good, Trace
<1>6. Traces(lines'[r]) = {}
  BY <1>1, <1>3, <1>4, <1>5, TraceOfAppend
<1>7. pc'[r] = "failed" /\ pc' \in [Requests -> Places]
  BY <1>2 DEF IInv, Types, Places
<1>8. status[r] = 0 /\ docs[r] = <<>> /\ ~nasty[r]
  BY DEF IInv, Good, Answering, Fresh, Unwinds, Before
<1>9. Good(r)'
  BY <1>6, <1>7, <1>8 DEF Good, Answering, Fresh, Writing, Unwinds, Empty, Document, Consistent, Trace, Cause, Before
<1>10. err' \in [Requests -> Errs]
  BY DEF FailStatement, IInv, Types, Errs, Returned
<1> QED
  BY <1>2, <1>4, <1>7, <1>9, <1>10 DEF IInv, Types

(* The log when a reply of status s is sent: complete if s says so.        *)
Faultless(s) == s < 500
Added(r, line) == lines' = [lines EXCEPT ![r] = Append(@, line)] /\ line.msg \in ErrorMsgs \ {"panic recovered"}

(* Steps that send a first status line, whose cause is in the log by then. *)
LEMMA AnswerStep ==
  ASSUME IInv, NEW r \in Requests, NEW s \in Statuses, NEW line \in Lines,
         pc[r] \in {"auth", "handler", "failed"}, JSON(r, s), UNCHANGED nasty,
         \/ Faultless(s) /\ lines' = lines
         \/ Added(r, line)
  PROVE  /\ Good(r)' /\ pc'[r] = "encode"
         /\ pc' \in [Requests -> Places] /\ lines' \in [Requests -> Seq(Lines)]
         /\ status' \in [Requests -> Statuses \cup {0}] /\ code' \in [Requests -> Statuses \cup {0}]
         /\ \A q \in Requests \ {r} : pc'[q] = pc[q] /\ lines'[q] = lines[q] /\ status'[q] = status[q]
                                      /\ code'[q] = code[q]
<1>1. status[r] = 0 /\ docs[r] = <<>> /\ ~nasty[r] /\ Traces(lines[r]) = {}
  BY DEF IInv, Good, Answering, Fresh, Unwinds, Before, Trace
<1>2. /\ pc' = [pc EXCEPT ![r] = "encode"] /\ code' = [code EXCEPT ![r] = s]
      /\ status' = [status EXCEPT ![r] = s] /\ docs' = docs
  BY <1>1 DEF JSON, WriteHeader, Goto, IInv, Types
<1>3. pc'[r] = "encode" /\ code'[r] = s /\ status'[r] = s
  BY <1>2 DEF IInv, Types
<1>0. s # 0 /\ s \in Nat
  BY StatusType
<1>4. lines[r] \in Seq(Lines) /\ Append(lines[r], line) \in Seq(Lines)
  BY OneMore DEF IInv, Types
<1>5. lines' \in [Requests -> Seq(Lines)]
  BY <1>4 DEF Added, IInv, Types
<1>6. Trace(r)' /\ Cause(r)'
  <2>1. CASE Faultless(s) /\ lines' = lines
    <3>1. ~(status'[r] >= 500)
      BY <1>0, <1>3, <2>1 DEF Faultless
    <3> QED
      BY <1>1, <1>3, <2>1, <3>1 DEF Trace, Cause
  <2>2. CASE Added(r, line)
    <3>1. /\ lines'[r] = Append(lines[r], line) /\ line.msg \in ErrorMsgs
          /\ line.msg \notin {"handled request", "panic recovered"}
      BY <2>2 DEF Added, IInv, Types, ErrorMsgs
    <3>2. Trace(r)'
      BY <1>1, <1>3, <1>4, <3>1, TraceOfAppend DEF Trace
    <3>3. \E n \in DOMAIN lines'[r] : lines'[r][n] = line
      <4>1. \E n \in DOMAIN Append(lines[r], line) : Append(lines[r], line)[n] = line
        BY <1>4, LastLine
      <4>2. lines'[r] = Append(lines[r], line)
        BY <3>1
      <4> QED
        BY <4>1, <4>2, Zenon
    <3> QED
      BY <3>1, <3>2, <3>3 DEF Cause
  <2> QED
    BY <2>1, <2>2
<1>7. Answering(r)'
  <2>1. docs'[r] = <<>> /\ ~nasty'[r] /\ Len(<<>>) = 0
    BY <1>1, <1>2
  <2> QED
    <3>1. Fresh(r)' /\ Writing(r)' /\ Unwinds(r)' /\ Empty(r)'
      BY <1>0, <1>3, <2>1 DEF Fresh, Writing, Unwinds, Empty, Before
    <3>2. Document(r)'
      BY <2>1 DEF Document, Consistent
    <3> QED
      BY <3>1, <3>2 DEF Answering
<1>8. pc' \in [Requests -> Places]
  BY <1>2 DEF IInv, Types, Places
<1>9. status' \in [Requests -> Statuses \cup {0}] /\ code' \in [Requests -> Statuses \cup {0}]
  BY <1>2 DEF IInv, Types
<1> QED
  BY <1>2, <1>3, <1>5, <1>6, <1>7, <1>8, <1>9 DEF Good, Added, IInv, Types

(* A line that ends the trace, or tells a cause.                           *)
LEMMA LogStep ==
  ASSUME Types, NEW r \in Requests, NEW msg \in Msgs, NEW id \in BOOLEAN, Log(r, msg, id),
         Traces(lines[r]) = {}
  PROVE  /\ lines' \in [Requests -> Seq(Lines)]
         /\ \A q \in Requests \ {r} : lines'[q] = lines[q]
         /\ msg \in {"handled request", "panic recovered"}
              => \E n \in DOMAIN lines'[r] : Traces(lines'[r]) = {n}
         /\ msg \notin {"handled request", "panic recovered"} => Traces(lines'[r]) = {}
         /\ msg \in ErrorMsgs => \E n \in DOMAIN lines'[r] : lines'[r][n].msg \in ErrorMsgs
         /\ (\E n \in DOMAIN lines[r] : lines[r][n].msg \in ErrorMsgs)
              => \E n \in DOMAIN lines'[r] : lines'[r][n].msg \in ErrorMsgs
<1> DEFINE line == Line(msg, id)
<1>1. line \in Lines /\ line.msg = msg
  BY LineType
<1>2. lines' = [lines EXCEPT ![r] = Append(lines[r], line)]
  BY DEF Log
<1> HIDE DEF line
<1>3. lines[r] \in Seq(Lines) /\ Append(lines[r], line) \in Seq(Lines)
  BY <1>1, OneMore DEF Types
<1>4. lines' \in [Requests -> Seq(Lines)] /\ lines'[r] = Append(lines[r], line)
  BY <1>2, <1>3 DEF Types
<1>5. \A q \in Requests \ {r} : lines'[q] = lines[q]
  BY <1>2 DEF Types
<1>6. /\ msg \in {"handled request", "panic recovered"}
           => \E n \in DOMAIN lines'[r] : Traces(lines'[r]) = {n}
      /\ msg \notin {"handled request", "panic recovered"} => Traces(lines'[r]) = {}
  <2>1. /\ line.msg \in {"handled request", "panic recovered"}
              => \E n \in DOMAIN Append(lines[r], line) : Traces(Append(lines[r], line)) = {n}
        /\ line.msg \notin {"handled request", "panic recovered"} => Traces(Append(lines[r], line)) = {}
    BY <1>1, <1>3, TraceOfAppend
  <2> QED
    BY <1>1, <1>4, <2>1
<1>7. msg \in ErrorMsgs => \E n \in DOMAIN lines'[r] : lines'[r][n].msg \in ErrorMsgs
  <2>1. \E n \in DOMAIN Append(lines[r], line) : Append(lines[r], line)[n] = line
    BY <1>1, <1>3, LastLine
  <2> QED
    BY <1>1, <1>4, <2>1
<1>8. (\E n \in DOMAIN lines[r] : lines[r][n].msg \in ErrorMsgs)
        => \E n \in DOMAIN lines'[r] : lines'[r][n].msg \in ErrorMsgs
  <2>1. /\ DOMAIN Append(lines[r], line) = DOMAIN lines[r] \cup {Len(lines[r]) + 1}
        /\ \A n \in DOMAIN lines[r] : Append(lines[r], line)[n] = lines[r][n]
    BY <1>1, <1>3, OneMore
  <2> QED
    BY <1>4, <2>1
<1> QED
  BY <1>4, <1>5, <1>6, <1>7, <1>8

(* What a document more makes of the answer.                               *)
LEMMA DocType ==
  ASSUME NEW d \in Seq(Statuses), NEW s \in Statuses
  PROVE  /\ Append(d, s) \in Seq(Statuses)
         /\ d = <<>> => Len(Append(d, s)) = 1 /\ Append(d, s)[1] = s
OBVIOUS

LEMMA ErrorResponseStep ==
  ASSUME Types, NEW r \in Requests, ErrorResponse(r, 500)
  PROVE  /\ status' \in [Requests -> Statuses \cup {0}] /\ code' \in [Requests -> Statuses \cup {0}]
         /\ docs' \in [Requests -> Seq(Statuses)]
         /\ status'[r] = IF status[r] = 0 THEN 500 ELSE status[r]
         /\ status'[r] # 0
         /\ docs'[r] \in {docs[r], Append(docs[r], 500)}
         /\ \A q \in Requests \ {r} : status'[q] = status[q] /\ code'[q] = code[q] /\ docs'[q] = docs[q]
<1>1. 500 \in Statuses
  BY DEF Statuses
<1>2. /\ status' = [status EXCEPT ![r] = IF status[r] = 0 THEN 500 ELSE status[r]]
      /\ code' = [code EXCEPT ![r] = 500]
      /\ docs' \in {docs, [docs EXCEPT ![r] = Append(docs[r], 500)]}
  BY DEF ErrorResponse, WriteHeader
<1>3. Append(docs[r], 500) \in Seq(Statuses)
  BY <1>1, DocType DEF Types
<1>4. status' \in [Requests -> Statuses \cup {0}] /\ code' \in [Requests -> Statuses \cup {0}]
  BY <1>1, <1>2 DEF Types
<1>5. docs' \in [Requests -> Seq(Statuses)] /\ docs'[r] \in {docs[r], Append(docs[r], 500)}
  <2>1. CASE docs' = docs
    BY <2>1 DEF Types
  <2>2. CASE docs' = [docs EXCEPT ![r] = Append(docs[r], 500)]
    BY <1>3, <2>2 DEF Types
  <2> QED
    BY <1>2, <2>1, <2>2
<1>6. \A q \in Requests \ {r} : status'[q] = status[q] /\ code'[q] = code[q] /\ docs'[q] = docs[q]
  BY <1>2 DEF Types
<1>7. status'[r] = IF status[r] = 0 THEN 500 ELSE status[r]
  BY <1>2 DEF Types
<1>8. status'[r] # 0
  BY <1>7
<1> QED
  BY <1>2, <1>4, <1>5, <1>6, <1>7, <1>8

LEMMA FirstDocument ==
  ASSUME NEW r \in Requests, NEW s \in Statuses, docs[r] = <<>>, status'[r] = s,
         docs'[r] \in {docs[r], Append(docs[r], s)}
  PROVE  Consistent(r)'
<1>1. <<>> \in Seq(Statuses) /\ Len(<<>>) = 0
  OBVIOUS
<1>2. Len(Append(<<>>, s)) = 1 /\ Append(<<>>, s)[1] = s
  BY <1>1, DocType
<1>3. CASE docs'[r] = <<>>
  BY <1>1, <1>3 DEF Consistent
<1>4. CASE docs'[r] = Append(<<>>, s)
  BY <1>2, <1>4 DEF Consistent
<1> QED
  BY <1>3, <1>4

LEMMA First500 ==
  ASSUME NEW r \in Requests, docs[r] = <<>>, status'[r] = 500, docs'[r] \in {docs[r], Append(docs[r], 500)}
  PROVE  Consistent(r)'
<1>1. 500 \in Statuses
  BY Some
<1> QED
  BY <1>1, FirstDocument

LEMMA ErrorAdded ==
  ASSUME NEW r \in Requests, docs[r] \in Seq(Statuses), Consistent(r), status'[r] = status[r],
         docs'[r] = Append(docs[r], 500)
  PROVE  EndsInError(r)'
<1> DEFINE old == docs[r]
           new == Append(old, 500)
<1>1. /\ Len(new) = Len(old) + 1 /\ new[Len(old) + 1] = 500 /\ Len(old) \in Nat
      /\ Len(old) = 1 => new[1] = old[1] /\ old # <<>>
  BY Some
<1>2. Len(old) =< 1 /\ (old # <<>> => old[1] = status[r])
  BY DEF Consistent
<1>3. docs'[r] = new
  OBVIOUS
<1>4. Len(docs'[r]) \in {1, 2} /\ docs'[r][Len(docs'[r])] = 500
  <2> HIDE DEF old, new
  <2> QED
    BY <1>1, <1>2, <1>3
<1>5. Len(docs'[r]) = 2 => docs'[r][1] = status'[r]
  <2>1. CASE Len(old) = 0
    <3>1. Len(new) = 1
      BY <1>1, <2>1
    <3> QED
      BY <1>3, <3>1
  <2>2. CASE Len(old) = 1
    <3>1. new[1] = status[r]
      BY <1>1, <1>2, <2>2
    <3> QED
      BY <1>3, <3>1
  <2>3. Len(old) \in {0, 1}
    <3>1. \A n \in Nat : n =< 1 => n \in {0, 1}
      OBVIOUS
    <3>2. Len(old) \in Nat /\ Len(old) =< 1
      BY <1>1, <1>2
    <3> HIDE DEF old, new
    <3> QED
      BY <3>1, <3>2
  <2> QED
    BY <2>1, <2>2, <2>3
<1> QED
  BY <1>4, <1>5 DEF EndsInError

(* The end of a request whose panic is logged: the document fits, unless   *)
(* the value could not be logged.                                          *)
LEMMA Recovered ==
  ASSUME IInv, NEW r \in Requests, pc[r] \in {"panic", "raise"}, Goto(r, "done"),
         Log(r, "panic recovered", FALSE), UNCHANGED <<hung, free, route, left, err, nasty>>,
         \/ UNCHANGED response
         \/ ErrorResponse(r, 500) /\ (nasty[r] \/ status[r] = 0)
  PROVE  IInv'
<1>0. Types /\ Good(r) /\ pc[r] # "statement" /\ pc[r] # "done"
  BY DEF IInv
<1>1. pc'[r] = "done" /\ pc' \in [Requests -> Places] /\ \A q \in Requests \ {r} : pc'[q] = pc[q]
  BY <1>0 DEF Goto, Types, Places
<1>2. Traces(lines[r]) = {}
  BY <1>0 DEF Good, Trace
<1>3. /\ lines' \in [Requests -> Seq(Lines)] /\ \A q \in Requests \ {r} : lines'[q] = lines[q]
      /\ \E n \in DOMAIN lines'[r] : Traces(lines'[r]) = {n}
      /\ \E n \in DOMAIN lines'[r] : lines'[r][n].msg \in ErrorMsgs
  <2>1. "panic recovered" \in Msgs /\ "panic recovered" \in ErrorMsgs /\ FALSE \in BOOLEAN
    BY DEF Msgs, ErrorMsgs
  <2> QED
    BY <1>0, <1>2, <2>1, LogStep
<1>4. /\ status' \in [Requests -> Statuses \cup {0}] /\ code' \in [Requests -> Statuses \cup {0}]
      /\ docs' \in [Requests -> Seq(Statuses)]
      /\ \A q \in Requests \ {r} : status'[q] = status[q] /\ code'[q] = code[q] /\ docs'[q] = docs[q]
      /\ \/ status'[r] = status[r] /\ docs'[r] = docs[r]
         \/ /\ nasty[r] \/ status[r] = 0
            /\ status'[r] = IF status[r] = 0 THEN 500 ELSE status[r]
            /\ status'[r] # 0
            /\ docs'[r] \in {docs[r], Append(docs[r], 500)}
  <2>1. CASE UNCHANGED response
    BY <1>0, <2>1 DEF response, Types
  <2>2. CASE ErrorResponse(r, 500) /\ (nasty[r] \/ status[r] = 0)
    <3>1. /\ status' \in [Requests -> Statuses \cup {0}] /\ code' \in [Requests -> Statuses \cup {0}]
          /\ docs' \in [Requests -> Seq(Statuses)]
          /\ status'[r] = IF status[r] = 0 THEN 500 ELSE status[r]
          /\ status'[r] # 0
          /\ docs'[r] \in {docs[r], Append(docs[r], 500)}
          /\ \A q \in Requests \ {r} : status'[q] = status[q] /\ code'[q] = code[q] /\ docs'[q] = docs[q]
      BY <1>0, <2>2, ErrorResponseStep
    <3> QED
      BY <2>2, <3>1
  <2> QED
    BY <2>1, <2>2
<1>5. Types'
  BY <1>0, <1>1, <1>3, <1>4 DEF Types
<1>6. Consistent(r)' \/ (nasty[r] /\ EndsInError(r)')
  <2>1. Consistent(r) /\ (status[r] = 0 => docs[r] = <<>>)
    BY <1>0 DEF Good, Answering, Document, Empty
  <2>2. CASE status'[r] = status[r] /\ docs'[r] = docs[r]
    BY <2>1, <2>2 DEF Consistent
  <2>3. CASE /\ status[r] = 0 /\ status'[r] = 500 /\ docs'[r] \in {docs[r], Append(docs[r], 500)}
    BY <2>1, <2>3, First500
  <2>4. CASE nasty[r] /\ status[r] # 0 /\ docs'[r] = Append(docs[r], 500)
    BY <1>0, <1>4, <2>1, <2>4, ErrorAdded DEF Types
  <2> QED
    BY <1>4, <2>2, <2>3, <2>4
<1>7. Good(r)'
  <2>1. Fresh(r)' /\ Writing(r)' /\ Unwinds(r)'
    BY <1>1 DEF Fresh, Writing, Unwinds, Before
  <2>2. Empty(r)'
    <3>1. status[r] = 0 => docs[r] = <<>>
      BY <1>0 DEF Good, Answering, Empty
    <3>2. status'[r] = 0 => status[r] = 0 /\ docs'[r] = docs[r]
      BY <1>4
    <3> QED
      BY <3>1, <3>2 DEF Empty
  <2>3. Document(r)'
    <3>1. nasty'[r] = nasty[r]
      OBVIOUS
    <3> QED
      BY <1>1, <1>6, <3>1 DEF Document
  <2>4. Trace(r)' /\ Cause(r)'
    BY <1>1, <1>3 DEF Trace, Cause
  <2> QED
    BY <2>1, <2>2, <2>3, <2>4 DEF Good, Answering
<1>8. Only(r)
  <2>1. \A q \in Requests \ {r} : nasty'[q] = nasty[q]
    BY <1>4
  <2>2. \A q \in Requests \ {r} : status'[q] = status[q] /\ code'[q] = code[q] /\ docs'[q] = docs[q]
    BY <1>4
  <2> QED
    BY <1>1, <1>3, <1>5, <2>1, <2>2 DEF Only, Untouched
<1> QED
  BY <1>0, <1>1, <1>7, <1>8, Compose

-----------------------------------------------------------------------------
(* The actions, one by one.                                                *)

LEMMA EnterStep ==
  ASSUME IInv, NEW r \in Requests, NEW path \in Paths, Enter(r, path)
  PROVE  IInv'
<1> USE PipelineAssumption
<1>0. Types /\ Good(r) /\ pc[r] = "idle"
  BY DEF IInv, Enter
<1>1. /\ pc' = [pc EXCEPT ![r] = IF path = "protected" THEN "auth" ELSE "handler"]
      /\ free' = free /\ hung' = hung
      /\ status' = status /\ code' = code /\ docs' = docs /\ lines' = lines /\ nasty' = nasty /\ err' = err
  BY DEF Enter, Goto, response
<1>2. pc'[r] \in {"auth", "handler"} /\ pc' \in [Requests -> Places]
  BY <1>0, <1>1 DEF Types, Places
<1>4. route' \in [Requests -> Routes]
  BY <1>0 DEF Types, Enter, Routes
<1>5. left' \in [Requests -> Nat]
  <2>1. PICK n \in CASE path = "healthz" -> {1} [] path \in {"api", "protected"} -> 0 .. MaxStatements
                      [] OTHER -> {0} : left' = [left EXCEPT ![r] = n]
    BY DEF Enter
  <2>2. n \in Nat
    OBVIOUS
  <2> QED
    BY <1>0, <2>1, <2>2 DEF Types
<1>6. Types'
  BY <1>0, <1>1, <1>2, <1>4, <1>5 DEF Types
<1>7. Good(r)'
  BY <1>0, <1>1, <1>2
     DEF Good, Answering, Fresh, Writing, Unwinds, Empty, Document, Consistent, Trace, Cause, Before
<1>8. \A q \in Requests \ {r} : Untouched(q)
  BY <1>0, <1>1 DEF Types, Untouched
<1> QED
  BY <1>0, <1>1, <1>2, <1>6, <1>7, <1>8, Compose DEF Only

LEMMA EncodeStep ==
  ASSUME IInv, NEW r \in Requests, Encode(r)
  PROVE  IInv'
<1>0. Types /\ Good(r) /\ pc[r] = "encode"
  BY DEF IInv, Encode
<1>1. status[r] = code[r] /\ status[r] # 0 /\ docs[r] = <<>> /\ code[r] \in Statuses
  BY <1>0 DEF Good, Answering, Writing, Types
<1>2. /\ pc' = [pc EXCEPT ![r] = "return"] /\ docs' \in {docs, [docs EXCEPT ![r] = Append(docs[r], code[r])]}
      /\ UNCHANGED <<hung, free, route, left, err, nasty, status, code, lines>>
  BY DEF Encode, Goto
<1>3. /\ Append(docs[r], code[r]) \in Seq(Statuses)
      /\ Len(Append(docs[r], code[r])) = 1 /\ Append(docs[r], code[r])[1] = code[r] /\ Len(<<>>) = 0
  BY <1>0, <1>1, DocType DEF Types
<1>4. docs' \in [Requests -> Seq(Statuses)] /\ docs'[r] \in {docs[r], Append(docs[r], code[r])}
      /\ \A q \in Requests \ {r} : docs'[q] = docs[q]
  <2>1. CASE docs' = docs
    BY <1>0, <2>1 DEF Types
  <2>2. CASE docs' = [docs EXCEPT ![r] = Append(docs[r], code[r])]
    BY <1>0, <1>3, <2>2 DEF Types
  <2> QED
    BY <1>2, <2>1, <2>2
<1>5. pc'[r] = "return" /\ pc' \in [Requests -> Places] /\ \A q \in Requests \ {r} : pc'[q] = pc[q]
  BY <1>0, <1>2 DEF Types, Places
<1>6. Types'
  BY <1>0, <1>2, <1>4, <1>5 DEF Types
<1>7. Consistent(r)'
  BY <1>1, <1>2, <1>4, FirstDocument
<1>8. Good(r)'
  <2>1. Fresh(r)' /\ Writing(r)' /\ Empty(r)' /\ Document(r)'
    BY <1>1, <1>2, <1>5, <1>7 DEF Fresh, Writing, Empty, Document, Before
  <2>2. Unwinds(r)' /\ Trace(r)' /\ Cause(r)'
    BY <1>0, <1>2, <1>5 DEF Good, Answering, Unwinds, Trace, Cause
  <2> QED
    BY <2>1, <2>2 DEF Good, Answering
<1>9. \A q \in Requests \ {r} : Untouched(q)
  BY <1>2, <1>4, <1>5 DEF Untouched
<1> QED
  BY <1>0, <1>2, <1>5, <1>6, <1>8, <1>9, Compose DEF Only

LEMMA PanicStep ==
  ASSUME IInv, NEW r \in Requests, NEW value \in BOOLEAN, Panic(r, value)
  PROVE  IInv'
<1>0. Types /\ Good(r) /\ pc[r] \in {"auth", "handler", "encode", "page"}
  BY DEF IInv, Panic
<1>1. /\ pc' = [pc EXCEPT ![r] = "panic"] /\ nasty' = [nasty EXCEPT ![r] = value]
      /\ UNCHANGED <<hung, free, route, left, err, status, code, docs, lines>>
  BY DEF Panic, Goto, response
<1>2. pc'[r] = "panic" /\ pc' \in [Requests -> Places] /\ nasty' \in [Requests -> BOOLEAN]
  BY <1>0, <1>1 DEF Types, Places
<1>3. Types'
  BY <1>0, <1>1, <1>2 DEF Types
<1>4. Consistent(r)' /\ (status[r] = 0 => docs[r] = <<>>)
  BY <1>0, <1>1 DEF Good, Answering, Document, Consistent, Empty
<1>5. Good(r)'
  BY <1>0, <1>1, <1>2, <1>4 DEF Good, Answering, Fresh, Writing, Unwinds, Empty, Document, Trace, Cause, Before
<1>6. \A q \in Requests \ {r} : Untouched(q)
  BY <1>0, <1>1 DEF Types, Untouched
<1> QED
  BY <1>0, <1>1, <1>2, <1>3, <1>5, <1>6, Compose DEF Only

LEMMA LoggerStep ==
  ASSUME IInv, NEW r \in Requests, StructuredLogger(r)
  PROVE  IInv'
<1>0. Types /\ Good(r) /\ pc[r] = "return"
  BY DEF IInv, StructuredLogger
<1>1. /\ pc' = [pc EXCEPT ![r] = "done"] /\ Log(r, "handled request", TRUE)
      /\ UNCHANGED <<hung, free, route, left, err, nasty, status, code, docs>>
  BY DEF StructuredLogger, Goto, response
<1>2. pc'[r] = "done" /\ pc' \in [Requests -> Places] /\ \A q \in Requests \ {r} : pc'[q] = pc[q]
  BY <1>0, <1>1 DEF Types, Places
<1>3. /\ lines' \in [Requests -> Seq(Lines)] /\ \A q \in Requests \ {r} : lines'[q] = lines[q]
      /\ \E n \in DOMAIN lines'[r] : Traces(lines'[r]) = {n}
      /\ (\E n \in DOMAIN lines[r] : lines[r][n].msg \in ErrorMsgs)
           => \E n \in DOMAIN lines'[r] : lines'[r][n].msg \in ErrorMsgs
  <2>1. "handled request" \in Msgs /\ TRUE \in BOOLEAN
    BY DEF Msgs
  <2>2. Traces(lines[r]) = {}
    BY <1>0 DEF Good, Trace
  <2> QED
    BY <1>0, <1>1, <2>1, <2>2, LogStep
<1>4. Types'
  BY <1>0, <1>1, <1>2, <1>3 DEF Types
<1>5. Good(r)'
  <2>1. Fresh(r)' /\ Writing(r)' /\ Unwinds(r)' /\ Empty(r)'
    BY <1>0, <1>1, <1>2 DEF Good, Answering, Fresh, Writing, Unwinds, Empty, Before
  <2>2. Document(r)'
    BY <1>0, <1>1, <1>2 DEF Good, Answering, Document, Consistent
  <2>3. Trace(r)' /\ Cause(r)'
    BY <1>0, <1>1, <1>2, <1>3 DEF Good, Trace, Cause
  <2> QED
    BY <2>1, <2>2, <2>3 DEF Good, Answering
<1>6. \A q \in Requests \ {r} : Untouched(q)
  BY <1>1, <1>2, <1>3 DEF Untouched
<1> QED
  BY <1>0, <1>1, <1>2, <1>4, <1>5, <1>6, Compose DEF Only

Sent(r) == docs' = [docs EXCEPT ![r] = Append(@, 200)]

(* The documentation's files: a status line 200 and a document, or the     *)
(* line about a failed write.                                              *)
LEMMA FileStep ==
  ASSUME IInv, NEW r \in Requests, NEW label \in {"return", "page"}, pc[r] = "handler",
         WriteHeader(r, 200), Goto(r, label),
         UNCHANGED <<hung, free, route, left, err, nasty>>,
         \/ Sent(r) /\ lines' = lines
         \/ docs' = docs /\ Log(r, "failed to serve swagger dark theme", FALSE)
  PROVE  IInv'
<1>0. Types /\ Good(r)
  BY DEF IInv
<1>1. status[r] = 0 /\ docs[r] = <<>> /\ ~nasty[r] /\ Traces(lines[r]) = {}
  BY <1>0 DEF Good, Answering, Fresh, Unwinds, Trace, Before
<1>2. /\ pc' = [pc EXCEPT ![r] = label] /\ status' = [status EXCEPT ![r] = 200]
      /\ code' = [code EXCEPT ![r] = 200]
  BY <1>0, <1>1 DEF Goto, WriteHeader, Types
<1>3. 200 \in Statuses /\ 200 # 0 /\ ~(200 >= 500)
  BY Some
<1>4. /\ pc'[r] = label /\ status'[r] = 200 /\ pc' \in [Requests -> Places]
      /\ status' \in [Requests -> Statuses \cup {0}] /\ code' \in [Requests -> Statuses \cup {0}]
      /\ \A q \in Requests \ {r} : pc'[q] = pc[q] /\ status'[q] = status[q] /\ code'[q] = code[q]
  <2>1. pc'[r] = label /\ pc' \in [Requests -> Places] /\ \A q \in Requests \ {r} : pc'[q] = pc[q]
    BY <1>0, <1>2 DEF Types, Places
  <2>2. status'[r] = 200 /\ \A q \in Requests \ {r} : status'[q] = status[q] /\ code'[q] = code[q]
    BY <1>0, <1>2 DEF Types
  <2>3. status' \in [Requests -> Statuses \cup {0}] /\ code' \in [Requests -> Statuses \cup {0}]
    BY <1>0, <1>2, <1>3 DEF Types
  <2> QED
    BY <2>1, <2>2, <2>3
<1>5. Append(docs[r], 200) \in Seq(Statuses)
  <2>1. docs[r] \in Seq(Statuses)
    BY <1>0 DEF Types
  <2> QED
    BY <1>3, <2>1, DocType
<1>6. /\ docs' \in [Requests -> Seq(Statuses)] /\ docs'[r] \in {docs[r], Append(docs[r], 200)}
      /\ lines' \in [Requests -> Seq(Lines)] /\ Traces(lines'[r]) = {}
      /\ \A q \in Requests \ {r} : docs'[q] = docs[q] /\ lines'[q] = lines[q]
  <2>1. CASE Sent(r) /\ lines' = lines
    BY <1>0, <1>1, <1>5, <2>1 DEF Types, Sent
  <2>2. CASE docs' = docs /\ Log(r, "failed to serve swagger dark theme", FALSE)
    <3>1. "failed to serve swagger dark theme" \in Msgs /\ FALSE \in BOOLEAN
      BY DEF Msgs, ErrorMsgs
    <3>2. /\ lines' \in [Requests -> Seq(Lines)] /\ Traces(lines'[r]) = {}
          /\ \A q \in Requests \ {r} : lines'[q] = lines[q]
      BY <1>0, <1>1, <2>2, <3>1, LogStep
    <3> QED
      BY <1>0, <2>2, <3>2 DEF Types
  <2> QED
    BY <2>1, <2>2
<1>7. Types'
  BY <1>0, <1>4, <1>6 DEF Types
<1>8. Consistent(r)'
  BY <1>1, <1>3, <1>4, <1>6, FirstDocument
<1>9. Good(r)'
  <2>1. nasty'[r] = nasty[r]
    OBVIOUS
  <2>2. Fresh(r)' /\ Writing(r)' /\ Unwinds(r)' /\ Empty(r)' /\ Document(r)'
    BY <1>1, <1>3, <1>4, <1>8, <2>1 DEF Fresh, Writing, Unwinds, Empty, Document, Before
  <2>3. Trace(r)' /\ Cause(r)'
    BY <1>3, <1>4, <1>6 DEF Trace, Cause
  <2> QED
    BY <2>2, <2>3 DEF Good, Answering
<1>10. \A q \in Requests \ {r} : Untouched(q)
  <2>1. \A q \in Requests \ {r} : nasty'[q] = nasty[q]
    OBVIOUS
  <2> QED
    BY <1>4, <1>6, <2>1 DEF Untouched
<1>11. free' = free
  OBVIOUS
<1> QED
  BY <1>0, <1>4, <1>7, <1>9, <1>10, <1>11, Compose DEF Only

(* The steps that only move on: RequireAuth, Query, Acquire, an answered   *)
(* statement, a returned error, the end of a page.                         *)
LEMMA MoveStep ==
  ASSUME IInv, NEW r \in Requests, NEW label \in Before \cup {"return"}, Goto(r, label),
         pc[r] \in Before \cup {"page"}, pc[r] = "page" <=> label = "return",
         pc[r] # "idle", label # "idle", UNCHANGED <<hung, route, nasty, response, lines>>,
         left' \in [Requests -> Nat], err' \in [Requests -> Errs],
         \/ pc[r] # "statement" /\ label # "statement" /\ free' = free
         \/ pc[r] # "statement" /\ label = "statement" /\ free > 0 /\ free' = free - 1
         \/ pc[r] = "statement" /\ label # "statement" /\ free' = free + 1
  PROVE  IInv'
<1>0. Types /\ Good(r)
  BY DEF IInv
<1>1. UNCHANGED <<status, code, docs, lines, nasty>>
  BY DEF response
<1>2. Good(r)' /\ pc'[r] = label
  BY <1>1, QuietStep
<1>3. pc' = [pc EXCEPT ![r] = label] /\ label \in Places /\ free' \in Int
  BY <1>0 DEF Goto, Before, Places, Types
<1>4. Types' /\ \A q \in Requests \ {r} : Untouched(q)
  BY <1>0, <1>1, <1>3 DEF Types, Untouched
<1> QED
  BY <1>2, <1>4, Compose DEF Only

LEMMA InterruptStep ==
  ASSUME IInv, NEW r \in Requests, pc[r] \in {"waiting", "statement"}, FailStatement(r),
         free' = IF pc[r] = "statement" THEN free + 1 ELSE free,
         UNCHANGED <<hung, route, left, nasty, response>>
  PROVE  IInv'
<1>0. Types
  BY DEF IInv
<1>1. UNCHANGED <<status, code, docs, nasty>>
  BY DEF response
<1>2. /\ Good(r)' /\ pc'[r] = "failed"
      /\ pc' \in [Requests -> Places] /\ err' \in [Requests -> Errs] /\ lines' \in [Requests -> Seq(Lines)]
      /\ \A q \in Requests \ {r} : pc'[q] = pc[q] /\ lines'[q] = lines[q]
  BY <1>1, FailStep
<1>3. free' \in Int
  BY <1>0 DEF Types
<1>4. Types' /\ \A q \in Requests \ {r} : Untouched(q)
  BY <1>0, <1>1, <1>2, <1>3 DEF Types, Untouched
<1> QED
  BY <1>2, <1>4, Compose DEF Only

LEMMA JSONStep ==
  ASSUME IInv, NEW r \in Requests, NEW s \in Statuses, NEW line \in Lines,
         pc[r] \in {"auth", "handler", "failed"}, JSON(r, s),
         UNCHANGED <<hung, free, route, left, err, nasty>>,
         \/ Faultless(s) /\ lines' = lines
         \/ Added(r, line)
  PROVE  IInv'
<1>0. Types
  BY DEF IInv
<1>1. /\ Good(r)' /\ pc'[r] = "encode"
      /\ pc' \in [Requests -> Places] /\ lines' \in [Requests -> Seq(Lines)]
      /\ status' \in [Requests -> Statuses \cup {0}] /\ code' \in [Requests -> Statuses \cup {0}]
      /\ \A q \in Requests \ {r} : pc'[q] = pc[q] /\ lines'[q] = lines[q] /\ status'[q] = status[q]
                                   /\ code'[q] = code[q]
  BY AnswerStep
<1>2. docs' = docs
  BY DEF JSON
<1>3. Types' /\ \A q \in Requests \ {r} : Untouched(q)
  BY <1>0, <1>1, <1>2 DEF Types, Untouched
<1> QED
  BY <1>1, <1>3, Compose DEF Only

LEMMA handleErrorStep ==
  ASSUME IInv, NEW r \in Requests, handleError(r)
  PROVE  IInv'
<1>0. Types /\ pc[r] = "failed" /\ JSON(r, Reply(err[r]).status)
      /\ UNCHANGED <<hung, free, route, left, err, nasty>>
  BY DEF IInv, handleError
<1> DEFINE unhandled == Line("unhandled application error", FALSE)
           application == Line("application error", FALSE)
<1>1. /\ unhandled \in Lines /\ unhandled.msg \in ErrorMsgs \ {"panic recovered"}
      /\ application \in Lines /\ application.msg \in ErrorMsgs \ {"panic recovered"}
  <2>1. /\ "unhandled application error" \in Msgs \cap ErrorMsgs
        /\ "application error" \in Msgs \cap ErrorMsgs /\ FALSE \in BOOLEAN
    BY DEF Msgs, ErrorMsgs
  <2>2. "unhandled application error" # "panic recovered" /\ "application error" # "panic recovered"
    OBVIOUS
  <2> QED
    BY <2>1, <2>2, LineType
<1>2. err[r] \in Errs
  BY <1>0 DEF Types
<1>3. Reply(err[r]).status \in Statuses
  BY <1>2, Replies DEF Errs, Returned, Statuses
<1>4. \/ Faultless(Reply(err[r]).status) /\ lines' = lines
      \/ Added(r, unhandled)
      \/ Added(r, application)
  <2>1. CASE err[r] \in Unregistered
    BY <1>1, <2>1 DEF handleError, Log, Added
  <2>2. CASE err[r] \notin Unregistered /\ Reply(err[r]).status >= 500
    BY <1>1, <2>2 DEF handleError, Log, Added
  <2>3. CASE err[r] \notin Unregistered /\ ~(Reply(err[r]).status >= 500)
    <3>1. lines' = lines
      BY <2>3 DEF handleError
    <3>2. Faultless(Reply(err[r]).status)
      BY <1>3, <2>3, StatusType DEF Faultless
    <3> QED
      BY <3>1, <3>2
  <2> QED
    BY <2>1, <2>2, <2>3
<1> HIDE DEF unhandled, application
<1> QED
  BY <1>0, <1>1, <1>3, <1>4, JSONStep

LEMMA RequestInv ==
  ASSUME IInv, NEW r \in Requests,
         Serve(r) \/ Answer(r) \/ Cancel(r) \/ TimeOut(r) \/ \E path \in Paths : Enter(r, path)
  PROVE  IInv'
<1>0. Types /\ Good(r)
  BY DEF IInv
<1>1. CASE RequireAuth(r)
  <2>1. CASE Goto(r, "handler") /\ UNCHANGED response
    BY <1>0, <1>1, <2>1, MoveStep DEF RequireAuth, Before, Types
  <2>2. CASE JSON(r, Response("Unauthenticated").status)
    <3>1. 401 \in Statuses /\ Faultless(401)
      BY DEF Statuses, Faultless
    <3>2. Response("Unauthenticated").status = 401
      BY Replies
    <3>3. Line("panic recovered", FALSE) \in Lines
      BY LineType DEF Msgs, ErrorMsgs
    <3>4. JSON(r, 401)
      BY <2>2, <3>2
    <3>5. pc[r] = "auth" /\ UNCHANGED <<hung, free, route, left, err, nasty, lines>>
      BY <1>1 DEF RequireAuth
    <3> QED
      BY <3>1, <3>3, <3>4, <3>5, JSONStep
  <2> QED
    BY <1>1, <2>1, <2>2 DEF RequireAuth
<1>2. CASE Query(r)
  <2>1. left' \in [Requests -> Nat]
    BY <1>0, <1>2 DEF Query, Types
  <2> QED
    BY <1>0, <1>2, <2>1, MoveStep DEF Query, Before, Types
<1>3. CASE Acquire(r)
  BY <1>0, <1>3, MoveStep DEF Acquire, Before, Types
<1>4. CASE Answer(r)
  <2>1. CASE Goto(r, "handler") /\ UNCHANGED <<err, lines>>
    BY <1>0, <1>4, <2>1, MoveStep DEF Answer, Before, Types
  <2>2. CASE FailStatement(r)
    BY <1>0, <1>4, <2>2, InterruptStep DEF Answer
  <2> QED
    BY <1>4, <2>1, <2>2 DEF Answer
<1>5. CASE Cancel(r) \/ TimeOut(r)
  BY <1>5, InterruptStep DEF Cancel, TimeOut, Interrupt
<1>6. CASE Success(r) \/ NotFound(r)
  <2>1. PICK s \in {200, 404} : JSON(r, s)
    BY <1>6 DEF Success, NotFound
  <2>2. s \in Statuses /\ Faultless(s)
    BY <2>1 DEF Statuses, Faultless
  <2>3. Line("panic recovered", FALSE) \in Lines
    BY LineType DEF Msgs, ErrorMsgs
  <2>4. pc[r] = "handler" /\ UNCHANGED <<hung, free, route, left, err, nasty, lines>>
    BY <1>6 DEF Success, NotFound
  <2> QED
    BY <2>1, <2>2, <2>3, <2>4, JSONStep
<1>7. ASSUME NEW e \in Returned, Fail(r, e) PROVE IInv'
  <2>1. err' \in [Requests -> Errs]
    BY <1>0, <1>7 DEF Fail, Types, Errs
  <2> QED
    BY <1>0, <1>7, <2>1, MoveStep DEF Fail, Before, Types
<1>8. CASE ServeCSS(r)
  BY <1>8, FileStep DEF ServeCSS, Sent
<1>9. CASE ServeUI(r)
  BY <1>9, FileStep DEF ServeUI, Sent
<1>10. CASE FinishUI(r)
  BY <1>0, <1>10, MoveStep DEF FinishUI, Before, Types
<1>11. CASE Recoverer(r)
  <2>1. CASE nasty[r] /\ Goto(r, "raise") /\ UNCHANGED <<response, lines>>
    <3>1. /\ pc[r] = "panic" /\ pc' = [pc EXCEPT ![r] = "raise"]
          /\ UNCHANGED <<hung, free, route, left, err, nasty, status, code, docs, lines>>
      BY <1>11, <2>1 DEF Recoverer, Goto, response
    <3>2. pc'[r] = "raise" /\ pc' \in [Requests -> Places] /\ \A q \in Requests \ {r} : pc'[q] = pc[q]
      BY <1>0, <3>1 DEF Types, Places
    <3>3. Types' /\ \A q \in Requests \ {r} : Untouched(q)
      BY <1>0, <3>1, <3>2 DEF Types, Untouched
    <3>4. Good(r)'
      <4>1. Fresh(r)' /\ Writing(r)' /\ Empty(r)' /\ Document(r)'
        BY <1>0, <3>1, <3>2
           DEF Good, Answering, Fresh, Writing, Empty, Document, Consistent, Before
      <4>2. Unwinds(r)'
        BY <2>1, <3>1, <3>2 DEF Unwinds
      <4>3. Trace(r)' /\ Cause(r)'
        BY <1>0, <3>1, <3>2 DEF Good, Trace, Cause
      <4> QED
        BY <4>1, <4>2, <4>3 DEF Good, Answering
    <3> QED
      BY <3>1, <3>2, <3>3, <3>4, Compose DEF Only
  <2>2. CASE /\ Goto(r, "done") /\ Log(r, "panic recovered", FALSE)
             /\ IF status[r] = 0 THEN ErrorResponse(r, 500) ELSE UNCHANGED response
    BY <1>11, <2>2, Recovered DEF Recoverer
  <2> QED
    BY <1>11, <2>1, <2>2 DEF Recoverer
<1>12. CASE ErrorHandler(r)
  <2>1. nasty[r]
    BY <1>0, <1>12 DEF ErrorHandler, Good, Answering, Unwinds
  <2> QED
    BY <1>12, <2>1, Recovered DEF ErrorHandler
<1> QED
  BY <1>1, <1>2, <1>3, <1>4, <1>5, <1>6, <1>7, <1>8, <1>9, <1>10, <1>11, <1>12,
     EnterStep, EncodeStep, PanicStep, LoggerStep, handleErrorStep
     DEF Serve

LEMMA StepInv == IInv /\ [Next]_vars => IInv'
<1> SUFFICES ASSUME IInv, [Next]_vars PROVE IInv'
  OBVIOUS
<1>1. ASSUME NEW r \in Requests,
             Serve(r) \/ Answer(r) \/ Cancel(r) \/ TimeOut(r) \/ \E path \in Paths : Enter(r, path)
      PROVE  IInv'
  BY <1>1, RequestInv
<1>2. CASE Database \/ UNCHANGED vars
  <2>1. UNCHANGED <<free, pc, route, left, err, nasty, status, code, docs, lines>> /\ hung' \in BOOLEAN
    BY <1>2 DEF Database, vars, response, IInv, Types
  <2>2. Types' /\ Pool'
    BY <2>1 DEF IInv, Types, Pool, Taken
  <2>3. ASSUME NEW r \in Requests PROVE Good(r)'
    BY <2>1, UntouchedGood DEF IInv, Untouched
  <2> QED
    BY <2>2, <2>3 DEF IInv
<1> QED
  BY <1>1, <1>2 DEF Next, Idle

LEMMA Inductive == Spec => []IInv
BY InitInv, StepInv, PTL DEF Spec

-----------------------------------------------------------------------------
(* The variables keep their types, and never more connections are taken or *)
(* given back than the pool has.                                           *)
THEOREM PipelineTypes == Spec => []TypeOK
<1>1. IInv => TypeOK
  <2> SUFFICES ASSUME IInv PROVE TypeOK
    OBVIOUS
  <2>1. Cardinality(Taken) \in Nat
    BY FS_CardinalityType DEF IInv, Pool
  <2>2. free \in 0 .. MaxOpenConns
    BY <2>1, PipelineAssumption DEF IInv, Pool, Types
  <2> QED
    BY <2>2 DEF IInv, Types, TypeOK, Errs, Lines
<1> QED
  BY <1>1, Inductive, PTL

(* One answer at most, that speaks of the status sent, wherever a handler  *)
(* panics.                                                                 *)
THEOREM OneAnswer == Spec => []AnswersOnce
<1>1. IInv => AnswersOnce
  BY DEF AnswersOnce, IInv, Good, Answering, Document
<1> QED
  BY <1>1, Inductive, PTL

(* Every request leaves one trace in the log.                              *)
THEOREM TracedOnce == Spec => []OneTrace
<1>1. IInv => OneTrace
  BY DEF IInv, Good, Trace, OneTrace
<1> QED
  BY <1>1, Inductive, PTL

(* No fault of the server is told to the client and not to the log.        *)
THEOREM FaultsLogged == Spec => []CauseLogged
<1>1. IInv => CauseLogged
  BY DEF IInv, Good, Cause, CauseLogged
<1> QED
  BY <1>1, Inductive, PTL

-----------------------------------------------------------------------------
(* The way forward.                                                        *)
LEMMA Stages ==
  /\ Stage["done"] = 0 /\ Stage["return"] = 1 /\ Stage["raise"] = 1 /\ Stage["panic"] = 2
  /\ Stage["encode"] = 3 /\ Stage["page"] = 3 /\ Stage["failed"] = 4 /\ Stage["handler"] = 5
  /\ Stage["auth"] = 6 /\ Stage["statement"] = 6 /\ Stage["waiting"] = 7
  /\ Stage["idle"] = 3 * MaxStatements + 10
BY DEF Stage, Places

LaterStage(here, there) ==
  \/ here = "encode" /\ there \in {"return", "panic"}
  \/ here = "auth" /\ there \in {"handler", "encode", "panic"}
  \/ here = "waiting" /\ there \in {"statement", "failed"}
  \/ here = "statement" /\ there \in {"handler", "failed"}
  \/ here = "handler" /\ there \in {"encode", "failed", "return", "page", "panic"}
  \/ here = "failed" /\ there = "encode"
  \/ here = "page" /\ there \in {"return", "panic"}
  \/ here = "return" /\ there = "done"
  \/ here = "panic" /\ there \in {"raise", "done"}
  \/ here = "raise" /\ there = "done"

LEMMA Later ==
  ASSUME NEW here, NEW there, LaterStage(here, there)
  PROVE  Stage[there] < Stage[here] /\ Stage[here] \in Nat /\ Stage[there] \in Nat
BY Stages DEF LaterStage

(* Not counting its arrival, a request has used up a statement or comes to *)
(* a later stage.                                                          *)
LEMMA ServeAdvances ==
  ASSUME Types, NEW r \in Requests, Serve(r) \/ Answer(r) \/ Cancel(r) \/ TimeOut(r)
  PROVE  Distance(r)' < Distance(r)
<1> USE Stages DEF Types, Distance, Goto
<1>1. CASE Query(r)
  <2>1. left'[r] = left[r] - 1 /\ pc[r] = "handler" /\ pc'[r] = "waiting" /\ left[r] \in Nat
    BY <1>1 DEF Query
  <2> QED
    BY <2>1
<1>2. CASE ~Query(r)
  <2>1. left' = left /\ left[r] \in Nat
    BY <1>2 DEF Serve, Encode, RequireAuth, Acquire, Success, NotFound, Fail, handleError,
                ServeCSS, ServeUI, FinishUI, Panic, StructuredLogger, Recoverer,
                ErrorHandler, Answer, Cancel, TimeOut, Interrupt
  <2>2. LaterStage(pc[r], pc'[r])
    BY <1>2 DEF Serve, Encode, RequireAuth, Acquire, Success, NotFound, Fail, handleError, JSON,
                ServeCSS, ServeUI, FinishUI, Panic, StructuredLogger, Recoverer,
                ErrorHandler, Answer, Cancel, TimeOut, Interrupt, FailStatement, LaterStage
  <2>3. Stage[pc'[r]] < Stage[pc[r]] /\ Stage[pc[r]] \in Nat /\ Stage[pc'[r]] \in Nat
    BY <2>2, Later
  <2> QED
    BY <2>1, <2>3
<1> QED
  BY <1>1, <1>2

LEMMA EnterAdvances ==
  ASSUME Types, NEW r \in Requests, NEW path \in Paths, Enter(r, path)
  PROVE  Distance(r)' < Distance(r)
<1>1. PICK n \in 0 .. MaxStatements + 1 : left' = [left EXCEPT ![r] = n]
  <2>1. PICK n \in CASE path = "healthz" -> {1} [] path \in {"api", "protected"} -> 0 .. MaxStatements
                      [] OTHER -> {0} : left' = [left EXCEPT ![r] = n]
    BY DEF Enter
  <2>2. n \in 0 .. MaxStatements + 1
    BY PipelineAssumption
  <2> QED
    BY <2>1, <2>2
<1>2. pc[r] = "idle" /\ pc'[r] \in {"auth", "handler"}
  BY DEF Enter, Goto, Types
<1>3. left[r] \in Nat /\ left'[r] = n
  BY <1>1 DEF Types
<1> QED
  BY <1>1, <1>2, <1>3, Stages, PipelineAssumption DEF Distance

(* What is another request's does not concern this one.                    *)
LEMMA OthersStand ==
  ASSUME Types, NEW q \in Requests, NEW r \in Requests, q # r,
         \/ Serve(q) \/ Answer(q) \/ Cancel(q) \/ TimeOut(q)
         \/ \E path \in Paths : Enter(q, path)
  PROVE  Standing(r)' = Standing(r)
<1> USE DEF Types, Goto, response
<1> DEFINE Heard == status'[r] = status[r] /\ code'[r] = code[r] /\ docs'[r] = docs[r]
           Logged == lines'[r] = lines[r]
           Rest == pc'[r] = pc[r] /\ route'[r] = route[r] /\ left'[r] = left[r] /\ err'[r] = err[r]
                   /\ nasty'[r] = nasty[r]
<1>1. /\ \A s : JSON(q, s) \/ ErrorResponse(q, s) => Heard
      /\ \A s : WriteHeader(q, s) => status'[r] = status[r] /\ code'[r] = code[r]
  BY DEF JSON, ErrorResponse, WriteHeader
<1>2. \A msg, id : Log(q, msg, id) => Logged
  BY DEF Log
<1>3. Rest
  <2>1. CASE Serve(q)
    BY <2>1
    DEF Serve, Encode, RequireAuth, Query, Acquire, Success, NotFound, JSON, handleError, Fail,
        ServeCSS, ServeUI, FinishUI, StructuredLogger, Recoverer, ErrorHandler, Panic
  <2>2. CASE Answer(q) \/ Cancel(q) \/ TimeOut(q)
    BY <2>2 DEF Answer, Cancel, TimeOut, Interrupt, FailStatement
  <2>3. CASE \E path \in Paths : Enter(q, path)
    BY <2>3 DEF Enter
  <2> QED
    BY <2>1, <2>2, <2>3
<1>4. Heard /\ Logged
  <2>1. CASE Encode(q) \/ RequireAuth(q) \/ Query(q) \/ Acquire(q) \/ Success(q) \/ NotFound(q)
    BY <1>1, <2>1 DEF Encode, RequireAuth, Query, Acquire, Success, NotFound
  <2>2. CASE handleError(q) \/ \E e \in Returned : Fail(q, e)
    BY <1>1, <1>2, <2>2 DEF handleError, Fail
  <2>3. CASE ServeCSS(q)
    <3>1. docs'[r] = docs[r]
      BY <2>3 DEF ServeCSS
    <3> QED
      BY <1>1, <1>2, <2>3, <3>1 DEF ServeCSS
  <2>4. CASE ServeUI(q) \/ FinishUI(q)
    <3>1. docs'[r] = docs[r]
      BY <2>4 DEF ServeUI, FinishUI
    <3> QED
      BY <1>1, <2>4, <3>1 DEF ServeUI, FinishUI
  <2>5. CASE StructuredLogger(q) \/ Recoverer(q) \/ ErrorHandler(q)
    <3>1. CASE StructuredLogger(q)
      BY <1>2, <2>5, <3>1 DEF StructuredLogger
    <3>2. CASE ErrorHandler(q)
      BY <1>1, <1>2, <3>2 DEF ErrorHandler
    <3>3. CASE Recoverer(q)
      <4>1. \/ UNCHANGED <<response, lines>>
            \/ Log(q, "panic recovered", FALSE) /\ (ErrorResponse(q, 500) \/ UNCHANGED response)
        BY <3>3 DEF Recoverer
      <4> QED
        BY <1>1, <1>2, <4>1
    <3> QED
      BY <2>5, <3>1, <3>2, <3>3
  <2>6. CASE \E value \in BOOLEAN : Panic(q, value)
    BY <2>6 DEF Panic
  <2>7. CASE Answer(q) \/ Cancel(q) \/ TimeOut(q)
    BY <1>2, <2>7 DEF Answer, Cancel, TimeOut, Interrupt, FailStatement
  <2>8. CASE \E path \in Paths : Enter(q, path)
    BY <2>8 DEF Enter
  <2> QED
    BY <2>1, <2>2, <2>3, <2>4, <2>5, <2>6, <2>7, <2>8 DEF Serve
<1> QED
  BY <1>3, <1>4 DEF Standing

(* Every step that concerns a request brings it nearer to its end, for any *)
(* number of requests, connections and statements.                         *)
THEOREM RequestsOnlyAdvance == Spec => RequestsAdvance
<1>1. ASSUME Types, [Next]_vars, NEW r \in Requests
      PROVE  Standing(r)' = Standing(r) \/ Distance(r)' < Distance(r)
  <2>1. CASE Database \/ UNCHANGED vars
    BY <2>1 DEF Database, vars, response, Standing
  <2>2. ASSUME NEW q \in Requests,
               \/ Serve(q) \/ Answer(q) \/ Cancel(q) \/ TimeOut(q)
               \/ \E path \in Paths : Enter(q, path)
        PROVE  Standing(r)' = Standing(r) \/ Distance(r)' < Distance(r)
    BY <1>1, <2>2, ServeAdvances, EnterAdvances, OthersStand
  <2> QED
    BY <1>1, <2>1, <2>2 DEF Next, Idle
<1>2. IInv /\ [Next]_vars =>
        [\A r \in Requests : Standing(r)' = Standing(r) \/ Distance(r)' < Distance(r)]_vars
  BY <1>1 DEF IInv
<1> QED
  BY <1>2, Inductive, PTL DEF Spec, RequestsAdvance
=============================================================================
