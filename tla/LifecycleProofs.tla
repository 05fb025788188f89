--------------------------- MODULE LifecycleProofs ---------------------------
(***************************************************************************)
(* Lifecycle's safety for every number of instances and requests.  A step  *)
(* of main either goes to its next place or ends the process, so the       *)
(* invariant is shown for these two kinds of step once, and each action is *)
(* brought under one of them.                                              *)
(***************************************************************************)
EXTENDS Lifecycle, TLAPS

(* What the properties need besides themselves.                            *)
DrainsOnSignal == \A i \in Instances : main[i] = "draining" => signalled[i]
CutIsOver == \A q \in Requests : state[q] = "cut" => at[q] \in Instances /\ main[at[q]] = "exited"
Safe == FailsOnlyFromOutside /\ ServesWithBucket /\ CutHasCause
IInv == TypeOK /\ Safe /\ DrainsOnSignal /\ CutIsOver

Labels == Startup \cup {"waiting", "draining", "exited"}
Serving == {"router", "waiting", "draining"}

-----------------------------------------------------------------------------
(* Whoever created the bucket meanwhile, this instance goes on.            *)
LEMMA LostRaceIsSuccess ==
  ASSUME TypeOK, bucket # None
  PROVE  isAlreadyExists(CreateRefusal(bucket))
BY DEF TypeOK, isAlreadyExists, CreateRefusal

(* The codes that no other instance causes are failures.                   *)
LEMMA OtherCodes ==
  ~isNotFound("other") /\ ~isNotFound("Forbidden") /\ isNotFound("NotFound") /\ ~isAlreadyExists("other")
BY DEF isNotFound, isAlreadyExists

(* A bucket is never lost again.                                           *)
Kept == bucket # None => bucket' # None

LEMMA InitInv == Init => IInv
<1> SUFFICES ASSUME Init PROVE IInv
  OBVIOUS
<1> USE LifecycleAssumption
<1>1. TypeOK
  BY DEF Init, TypeOK, Startup
<1>2. FailsOnlyFromOutside /\ ServesWithBucket /\ CutHasCause
  BY DEF Init, FailsOnlyFromOutside, ServesWithBucket, CutHasCause, Fatals
<1>3. DrainsOnSignal /\ CutIsOver
  BY DEF Init, DrainsOnSignal, CutIsOver
<1> QED
  BY <1>1, <1>2, <1>3 DEF IInv, Safe

(* A step of main to its next place.                                       *)
LEMMA GotoStep ==
  ASSUME IInv, NEW i \in Instances, NEW label \in Labels \ {"exited"}, Goto(i, label), Running(i),
         bucket' \in {None, "ours", "theirs"}, Kept,
         label \in Serving => bucket' # None, label = "draining" => signalled[i]
  PROVE  IInv'
<1>1. TypeOK'
  BY DEF IInv, TypeOK, Goto, Labels, work
<1>2. FailsOnlyFromOutside' /\ DrainsOnSignal'
  BY DEF IInv, Safe, TypeOK, Goto, FailsOnlyFromOutside, DrainsOnSignal
<1>3. ServesWithBucket'
  BY DEF IInv, Safe, TypeOK, Goto, ServesWithBucket, Serving, Kept
<1>4. CutHasCause' /\ CutIsOver'
  BY DEF IInv, Safe, TypeOK, Goto, CutHasCause, CutIsOver, Running, work
<1> QED
  BY <1>1, <1>2, <1>3, <1>4 DEF IInv, Safe

(* The end of a process, with what justifies cutting its requests.         *)
LEMMA ExitStep ==
  ASSUME IInv, NEW i \in Instances, NEW how, Exit(i, how), Running(i),
         how \in Fatals \cup {"graceful", "forced", "killed"},
         bucket' \in {None, "ours", "theirs"}, Kept,
         faulted' \in {faulted, [faulted EXCEPT ![i] = TRUE]},
         \/ faulted'[i]
         \/ how = "graceful" /\ Active(i) = {}
         \/ how = "forced" /\ signalled[i] /\ deadline[i]
  PROVE  IInv'
<1>1. TypeOK'
  <2>1. state' \in [Requests -> {"none", "active", "answered", "cut"}]
    BY DEF IInv, TypeOK, Exit
  <2>2. \A q \in Requests : at'[q] = None <=> state'[q] = "none"
    BY LifecycleAssumption DEF IInv, TypeOK, Exit, Active
  <2> QED
    BY <2>1, <2>2 DEF IInv, TypeOK, Exit
<1>2. FailsOnlyFromOutside'
  BY DEF IInv, Safe, TypeOK, Exit, FailsOnlyFromOutside, Fatals
<1>3. ServesWithBucket' /\ DrainsOnSignal'
  BY DEF IInv, Safe, TypeOK, Exit, ServesWithBucket, DrainsOnSignal, Kept
<1>4. CutIsOver'
  BY DEF IInv, TypeOK, Exit, CutIsOver, Active
<1>5. CutHasCause'
  <2> SUFFICES ASSUME NEW q \in Requests, state'[q] = "cut"
               PROVE  \/ faulted'[at'[q]]
                      \/ exit'[at'[q]] = "forced" /\ signalled'[at'[q]] /\ deadline'[at'[q]]
    BY DEF CutHasCause
  <2>1. CASE q \in Active(i)
    BY <2>1 DEF IInv, TypeOK, Exit, Active
  <2>2. CASE q \notin Active(i)
    <3>1. state[q] = "cut" /\ at[q] \in Instances /\ at[q] # i
      BY <2>2 DEF IInv, TypeOK, Exit, CutIsOver, Running
    <3> QED
      BY <3>1 DEF IInv, Safe, TypeOK, Exit, CutHasCause
  <2> QED
    BY <2>1, <2>2
<1> QED
  BY <1>1, <1>2, <1>3, <1>4, <1>5 DEF IInv, Safe

(* The same for an error from outside.                                     *)
LEMMA OutsideStep ==
  ASSUME IInv, NEW i \in Instances, NEW how \in Fatals \cup {"killed"}, OutsideFails(i, how),
         Running(i), bucket' \in {None, "ours", "theirs"}, Kept
  PROVE  IInv'
<1>1. Exit(i, how) /\ faulted' = [faulted EXCEPT ![i] = TRUE] /\ faulted'[i]
  BY DEF OutsideFails, IInv, TypeOK
<1> QED
  BY <1>1, ExitStep

-----------------------------------------------------------------------------
LEMMA StepInv == IInv /\ [Next]_vars => IInv'
<1> SUFFICES ASSUME IInv, [Next]_vars PROVE IInv'
  OBVIOUS
<1> USE LifecycleAssumption
<1>0. TypeOK /\ bucket \in {None, "ours", "theirs"}
  BY DEF IInv, TypeOK
<1>1. ASSUME NEW i \in Instances, GetConfig(i) \/ NewDatabaseConnection(i) \/ New(i) PROVE IInv'
  <2>1. PICK label \in {"config", "database", "storage"}, next \in {"database", "storage", "head"} :
          Begin(i, label, next)
    BY <1>1 DEF GetConfig, NewDatabaseConnection, New
  <2>2. Running(i) /\ Kept /\ bucket' \in {None, "ours", "theirs"}
    BY <1>0, <2>1 DEF Begin, Running, Kept
  <2>3. CASE Goto(i, next)
    BY <2>2, <2>3, GotoStep DEF Labels, Startup, Serving
  <2>4. CASE OutsideFails(i, label)
    BY <2>2, <2>4, OutsideStep DEF Fatals
  <2> QED
    BY <2>1, <2>3, <2>4 DEF Begin
<1>2. ASSUME NEW i \in Instances, HeadBucket(i) PROVE IInv'
  <2>1. Running(i) /\ Kept /\ bucket' = bucket
    BY <1>2 DEF HeadBucket, Running, Kept
  <2>2. \/ bucket = "ours" /\ Goto(i, "router")
        \/ Goto(i, "create")
        \/ OutsideFails(i, "head")
    BY <1>2 DEF HeadBucket
  <2>3. CASE bucket = "ours" /\ Goto(i, "router")
    BY <1>0, <2>1, <2>3, GotoStep DEF Labels, Startup
  <2>4. CASE Goto(i, "create")
    BY <1>0, <2>1, <2>4, GotoStep DEF Labels, Startup, Serving
  <2>5. CASE OutsideFails(i, "head")
    BY <1>0, <2>1, <2>5, OutsideStep DEF Fatals
  <2> QED
    BY <2>2, <2>3, <2>4, <2>5
<1>3. ASSUME NEW i \in Instances, CreateBucket(i) PROVE IInv'
  <2>1. Running(i)
    BY <1>3 DEF CreateBucket, Running
  <2>2. \/ Goto(i, "router") /\ bucket' \in {bucket, "ours"} /\ bucket' # None
        \/ OutsideFails(i, "create") /\ bucket' \in {bucket, IF bucket = None THEN "ours" ELSE bucket}
    BY <1>0, <1>3, LostRaceIsSuccess, OtherCodes DEF CreateBucket
  <2>3. CASE Goto(i, "router") /\ bucket' \in {bucket, "ours"} /\ bucket' # None
    BY <1>0, <2>1, <2>3, GotoStep DEF Labels, Startup, Kept
  <2>4. CASE OutsideFails(i, "create") /\ bucket' \in {bucket, IF bucket = None THEN "ours" ELSE bucket}
    BY <1>0, <2>1, <2>4, OutsideStep DEF Fatals, Kept
  <2> QED
    BY <2>2, <2>3, <2>4
<1>4. ASSUME NEW i \in Instances, StartServer(i) PROVE IInv'
  <2>1. TypeOK'
    BY <1>0, <1>4 DEF StartServer, TypeOK, work
  <2>2. FailsOnlyFromOutside' /\ ServesWithBucket' /\ DrainsOnSignal'
    BY <1>0, <1>4 DEF IInv, Safe, StartServer, TypeOK, FailsOnlyFromOutside, ServesWithBucket, DrainsOnSignal
  <2>3. CutHasCause' /\ CutIsOver'
    BY <1>0, <1>4 DEF IInv, Safe, StartServer, TypeOK, CutHasCause, CutIsOver, work
  <2> QED
    BY <2>1, <2>2, <2>3 DEF IInv, Safe
<1>5. ASSUME NEW i \in Instances, BeginShutdown(i) PROVE IInv'
  <2>1. Running(i) /\ Kept /\ bucket' # None /\ bucket' = bucket /\ signalled[i] /\ Goto(i, "draining")
    BY <1>5 DEF IInv, Safe, BeginShutdown, Running, Kept, ServesWithBucket
  <2> QED
    BY <1>0, <2>1, GotoStep DEF Labels
<1>6. ASSUME NEW i \in Instances, StopGracefully(i) \/ StopForced(i) PROVE IInv'
  <2>1. Running(i) /\ Kept /\ bucket' = bucket /\ faulted' = faulted /\ signalled[i]
    BY <1>6 DEF IInv, StopGracefully, StopForced, Running, Kept, DrainsOnSignal
  <2>2. CASE StopGracefully(i)
    BY <1>0, <2>1, <2>2, ExitStep DEF StopGracefully
  <2>3. CASE StopForced(i)
    BY <1>0, <2>1, <2>3, ExitStep DEF StopForced
  <2> QED
    BY <1>6, <2>2, <2>3
<1>7. ASSUME NEW i \in Instances, Listen(i) \/ ServerReturns(i) \/ Expire(i) PROVE IInv'
  <2>1. /\ UNCHANGED <<main, bucket, signalled, exit, faulted, at, state>>
        /\ \A j \in Instances : deadline[j] => deadline'[j]
    BY <1>0, <1>7 DEF Listen, ServerReturns, Expire, work, TypeOK
  <2>2. TypeOK'
    BY <1>0, <1>7 DEF Listen, ServerReturns, Expire, work, TypeOK
  <2>3. Safe' /\ DrainsOnSignal' /\ CutIsOver'
    BY <2>1 DEF IInv, Safe, FailsOnlyFromOutside, ServesWithBucket, CutHasCause, DrainsOnSignal, CutIsOver
  <2> QED
    BY <2>2, <2>3 DEF IInv
<1>8. ASSUME NEW i \in Instances, ServerFails(i) \/ Crash(i) PROVE IInv'
  <2>1. PICK how \in {"server", "killed"} : OutsideFails(i, how)
    BY <1>8 DEF ServerFails, Crash
  <2> QED
    BY <1>0, <1>8, <2>1, OutsideStep DEF ServerFails, Crash, Kept, Fatals
<1>9. ASSUME NEW i \in Instances, Signal(i) PROVE IInv'
  <2>1. Running(i) /\ Kept /\ bucket' = bucket
    BY <1>9 DEF Signal, Kept
  <2>2. CASE OutsideFails(i, "killed")
    BY <1>0, <2>1, <2>2, OutsideStep
  <2>3. CASE /\ signalled' = [signalled EXCEPT ![i] = TRUE]
             /\ UNCHANGED <<main, server, deadline, exit, faulted, work>>
    <3>1. TypeOK'
      BY <1>0, <2>1, <2>3 DEF TypeOK, work
    <3>2. Safe' /\ DrainsOnSignal' /\ CutIsOver'
      BY <1>0, <2>1, <2>3 DEF IInv, Safe, TypeOK, FailsOnlyFromOutside, ServesWithBucket, CutHasCause,
         DrainsOnSignal, CutIsOver, work
    <3> QED
      BY <3>1, <3>2 DEF IInv
  <2> QED
    BY <1>9, <2>2, <2>3 DEF Signal
<1>10. ASSUME NEW q \in Requests, Finish(q) \/ \E i \in Instances : Accept(i, q) PROVE IInv'
  <2>1. TypeOK'
    BY <1>0, <1>10 DEF Finish, Accept, TypeOK, process
  <2>2. Safe' /\ DrainsOnSignal' /\ CutIsOver'
    BY <1>0, <1>10 DEF IInv, Safe, TypeOK, Finish, Accept, process, FailsOnlyFromOutside, ServesWithBucket,
       CutHasCause, DrainsOnSignal, CutIsOver
  <2> QED
    BY <2>1, <2>2 DEF IInv
<1>11. CASE Squat
  <2>1. TypeOK' /\ Safe' /\ DrainsOnSignal' /\ CutIsOver'
    BY <1>0, <1>11 DEF IInv, Safe, Squat, process, work, TypeOK, FailsOnlyFromOutside, ServesWithBucket,
       CutHasCause, DrainsOnSignal, CutIsOver
  <2> QED
    BY <2>1 DEF IInv
<1>12. CASE UNCHANGED vars
  BY <1>12 DEF IInv, Safe, vars, process, work, TypeOK, FailsOnlyFromOutside, ServesWithBucket,
     CutHasCause, DrainsOnSignal, CutIsOver
<1> QED
  BY <1>1, <1>2, <1>3, <1>4, <1>5, <1>6, <1>7, <1>8, <1>9, <1>10, <1>11, <1>12
     DEF Next, Main, Goroutine, Over

LEMMA Inductive == Spec => []IInv
BY InitInv, StepInv, PTL DEF Spec

-----------------------------------------------------------------------------
(* The variables hold what main, the goroutine and the requests can be in. *)
THEOREM LifecycleTypes == Spec => []TypeOK
<1>1. IInv => TypeOK
  BY DEF IInv
<1> QED
  BY <1>1, Inductive, PTL

(* No instance fails because of others that start beside it, nor because   *)
(* of its own shutdown, however many there are.                            *)
THEOREM NoSelfInflictedFailure == Spec => []FailsOnlyFromOutside
<1>1. IInv => FailsOnlyFromOutside
  BY DEF IInv, Safe
<1> QED
  BY <1>1, Inductive, PTL

(* Whatever ensureBucket met, there is a bucket when the server starts.    *)
THEOREM BucketEnsured == Spec => []ServesWithBucket
<1>1. IInv => ServesWithBucket
  BY DEF IInv, Safe
<1> QED
  BY <1>1, Inductive, PTL

(* A graceful shutdown cuts nothing, for any number of requests.           *)
THEOREM GracefulCutsNothing == Spec => []CutHasCause
<1>1. IInv => CutHasCause
  BY DEF IInv, Safe
<1> QED
  BY <1>1, Inductive, PTL
=============================================================================
