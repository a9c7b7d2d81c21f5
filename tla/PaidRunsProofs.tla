--------------------------- MODULE PaidRunsProofs ---------------------------
(* The programs outside Stage 1 that buy answers.  What Experiment B         *)
(* publishes is complete and within its ceiling, and it is a resumable       *)
(* answer store, for every set of slots, tasks and workers, every cost and    *)
(* any number of crashes and restarts.  The canary's limits bound what a     *)
(* process spends; a selection on file never rests on older evidence; and a   *)
(* verdict that is written is the one of the preregistered rule, for a        *)
(* complete audit, for every set of inputs, every number of repeats and       *)
(* threads, every cost and every limit.                                      *)
EXTENDS ExperimentB, MCProviderChecks, OperatorProofs, FiniteSetTheorems, TLAPS
-----------------------------------------------------------------------------
(* Experiment B.                                                             *)

Live == {"collecting", "draining"}

(* A thread that works holds a running task, alone, while main() waits.     *)
ThreadsHoldTasks ==
  /\ \A w \in Workers : job[w] # NoTask => future[job[w]] = "running" /\ main \in Live
  /\ \A v, w \in Workers : job[v] = job[w] /\ job[v] # NoTask => v = w

(* The file of a task has its answer from the moment the call is accounted  *)
(* for, and none as long as the task still has to be paid.                  *)
FilesFollowTasks ==
  /\ \A w \in Workers : pc[w] \in {"calling", "storing", "writing"} => cache[job[w]] \notin Said
  /\ \A w \in Workers : pc[w] = "accounting" => cache[job[w]] \in Said
  /\ \A t \in Tasks : future[t] = "answered" => cache[t] \in Said

(* Collected results are answered tasks, each once; nothing is left to take *)
(* once main() has stopped waiting.                                         *)
ResultsFollowFutures ==
  /\ IsInjective(results)
  /\ \A i \in DOMAIN results : future[results[i]] = "answered"
  /\ main \notin Live => \A t \in Tasks : future[t] # "pending"
  /\ main = "finished" => \A t \in Tasks : future[t] = "answered"

(* Whoever went past the ceiling left an exception in its future.           *)
OverspendIsRaised ==
  total_spend > Ceiling => main = "crashed" \/ \E t \in Tasks : future[t] = "raised"

IInv == TypeOK /\ ThreadsHoldTasks /\ FilesFollowTasks /\ ResultsFollowFutures /\ OverspendIsRaised

(* The task of a thread that works, and what is known of it.                *)
LEMMA Busy ==
  ASSUME IInv, NEW w \in Workers, pc[w] # "idle"
  PROVE  /\ job[w] \in Tasks /\ job[w] # NoTask /\ future[job[w]] = "running" /\ main \in Live
         /\ \A v \in Workers : job[v] = job[w] => v = w
<1>1. job[w] \in Tasks /\ job[w] # NoTask
  BY DEF IInv, TypeOK
<1>. QED
  BY <1>1 DEF IInv, ThreadsHoldTasks
-----------------------------------------------------------------------------
LEMMA TypeStep ==
  ASSUME IInv, [Next]_vars
  PROVE  TypeOK'
<1>. USE ExperimentBAssumption DEF ExperimentBAssumption, IInv, TypeOK
<1>1. ASSUME NEW w \in Workers, NEW o \in {"answered", "raised"}, Resolve(w, o), pc[w] # "idle"
      PROVE  /\ future' \in [Tasks -> {"none", "pending", "running", "answered", "raised"}]
             /\ pc' \in [Workers -> {"idle", "calling", "storing", "writing", "accounting"}]
             /\ job' \in [Workers -> Tasks \union {NoTask}]
             /\ \A v \in Workers : job'[v] = NoTask <=> pc'[v] = "idle"
             /\ cost' \in [Workers -> 0 .. MaxCost] /\ said' \in [Workers -> Said]
  BY <1>1 DEF Resolve, Said
<1>2. ASSUME NEW w \in Workers, WorkerStep(w) PROVE TypeOK'
  <2>1. CASE Hit(w)
    BY <2>1 DEF Hit, workVars, files
  <2>2. CASE Miss(w)
    BY <2>2 DEF Miss, files
  <2>3. CASE Generate(w)
    <3>1. PICK c \in Costs, s \in Said :
            /\ cost' = [cost EXCEPT ![w] = c] /\ said' = [said EXCEPT ![w] = s]
            /\ invoice' = invoice + c
      BY <2>3 DEF Generate
    <3>2. c \in 0 .. MaxCost
      OBVIOUS
    <3>. QED
      BY <2>3, <3>1, <3>2 DEF Generate, procVars, files
  <2>4. CASE Fails(w)
    BY <2>4, <1>1 DEF Fails, files
  <2>5. CASE PutOpens(w)
    BY <2>5, Busy DEF PutOpens, procVars
  <2>6. CASE PutWrites(w)
    BY <2>6, Busy DEF PutWrites, procVars
  <2>7. CASE Account(w)
    <3>1. total_spend' \in Nat
      BY <2>7 DEF Account
    <3>2. PICK o \in {"answered", "raised"} : Resolve(w, o)
      BY <2>7 DEF Account
    <3>. QED
      BY <2>7, <1>1, <3>1, <3>2 DEF Account, files
  <2>. QED
    BY <1>2, <2>1, <2>2, <2>3, <2>4, <2>5, <2>6, <2>7 DEF WorkerStep
<1>3. CASE MainStep
  <2>1. ASSUME NEW t \in Tasks, Collect(t) PROVE TypeOK'
    BY <2>1 DEF Collect, workVars, files
  <2>2. CASE (\E t \in Tasks : CollectRaises(t)) \/ Drained \/ Publish
    BY <2>2 DEF CollectRaises, Drained, Publish, workVars, files
  <2>. QED
    BY <1>3, <2>1, <2>2 DEF MainStep
<1>4. CASE Crash
  BY <1>4 DEF Crash, files, Said
<1>5. CASE Start
  BY <1>5 DEF Start, workVars, files
<1>6. CASE UNCHANGED vars
  BY <1>6 DEF vars, procVars, workVars, files
<1>. QED
  BY <1>2, <1>3, <1>4, <1>5, <1>6 DEF Next

(* A thread gives its task back: the other threads keep theirs.             *)
LEMMA ResolveStep ==
  ASSUME IInv, NEW w \in Workers, pc[w] # "idle", NEW o \in {"answered", "raised"},
         Resolve(w, o), cache' = cache, o = "answered" => cache[job[w]] \in Said,
         main' = main, results' = results
  PROVE  ThreadsHoldTasks' /\ FilesFollowTasks' /\ ResultsFollowFutures'
<1>1. job[w] \in Tasks /\ future[job[w]] = "running" /\ main \in Live
      /\ \A v \in Workers : job[v] = job[w] => v = w
  BY Busy
<1>2. future' = [future EXCEPT ![job[w]] = o] /\ pc' = [pc EXCEPT ![w] = "idle"]
      /\ job' = [job EXCEPT ![w] = NoTask]
  BY DEF Resolve
<1>3. ThreadsHoldTasks'
  BY <1>1, <1>2 DEF IInv, TypeOK, ThreadsHoldTasks
<1>4. FilesFollowTasks'
  BY <1>1, <1>2 DEF IInv, TypeOK, FilesFollowTasks
<1>5. ResultsFollowFutures'
  <2>1. \A i \in DOMAIN results : results[i] \in Tasks /\ results[i] # job[w]
    BY <1>1 DEF IInv, TypeOK, ResultsFollowFutures
  <2>2. \A i \in DOMAIN results : future'[results[i]] = "answered"
    BY <1>1, <1>2, <2>1 DEF IInv, TypeOK, ResultsFollowFutures
  <2>. QED
    BY <1>1, <2>2 DEF IInv, ResultsFollowFutures, Live
<1>. QED
  BY <1>3, <1>4, <1>5

(* A thread takes a pending task, to call for it or to read its file.       *)
LEMMA TakeStep ==
  ASSUME IInv, NEW w \in Workers, Hit(w) \/ Miss(w)
  PROVE  ThreadsHoldTasks' /\ FilesFollowTasks' /\ ResultsFollowFutures'
<1>1. PICK t \in Tasks :
        /\ future[t] = "pending"
        /\ \/ /\ cache[t] \in Said /\ future' = [future EXCEPT ![t] = "answered"]
              /\ job' = job /\ pc' = pc
           \/ /\ cache[t] \notin Said /\ future' = [future EXCEPT ![t] = "running"]
              /\ job' = [job EXCEPT ![w] = t] /\ pc' = [pc EXCEPT ![w] = "calling"]
  BY DEF Hit, Miss, workVars
<1>2. main \in Live /\ main' = main /\ results' = results /\ cache' = cache
  BY <1>1 DEF Hit, Miss, files, IInv, ResultsFollowFutures
<1>3. \A v \in Workers : job[v] # t
  BY <1>1, ExperimentBAssumption DEF ExperimentBAssumption, IInv, ThreadsHoldTasks
<1>4. t # NoTask
  BY ExperimentBAssumption DEF ExperimentBAssumption
<1>5. ThreadsHoldTasks'
  <2>1. CASE future' = [future EXCEPT ![t] = "answered"] /\ job' = job
    BY <1>2, <1>3, <2>1 DEF IInv, TypeOK, ThreadsHoldTasks
  <2>2. CASE /\ future' = [future EXCEPT ![t] = "running"]
             /\ job' = [job EXCEPT ![w] = t]
    <3>1. \A v \in Workers : v # w => job'[v] = job[v] /\ future'[job[v]] = future[job[v]]
      BY <1>3, <2>2 DEF IInv, TypeOK
    <3>2. job'[w] = t /\ future'[t] = "running"
      BY <2>2 DEF IInv, TypeOK
    <3>. QED
      BY <1>2, <1>3, <3>1, <3>2 DEF IInv, ThreadsHoldTasks
  <2>. QED
    BY <1>1, <2>1, <2>2
<1>6. FilesFollowTasks'
  BY <1>1, <1>2, <1>3 DEF IInv, TypeOK, FilesFollowTasks
<1>7. ResultsFollowFutures'
  <2>1. \A i \in DOMAIN results : results[i] \in Tasks /\ results[i] # t
    BY <1>1 DEF IInv, TypeOK, ResultsFollowFutures
  <2>2. \A i \in DOMAIN results : future'[results[i]] = "answered"
    BY <1>1, <2>1 DEF IInv, TypeOK, ResultsFollowFutures
  <2>. QED
    BY <1>2, <2>2 DEF IInv, ResultsFollowFutures, Live
<1>. QED
  BY <1>5, <1>6, <1>7

(* The two halves of a write touch the file of the writer's task only.      *)
LEMMA PutStep ==
  ASSUME IInv, NEW w \in Workers, PutOpens(w) \/ PutWrites(w)
  PROVE  ThreadsHoldTasks' /\ FilesFollowTasks' /\ ResultsFollowFutures'
<1>1. job[w] \in Tasks /\ future[job[w]] = "running"
      /\ \A v \in Workers : job[v] = job[w] => v = w
  BY Busy DEF PutOpens, PutWrites
<1>2. UNCHANGED <<main, future, results, job>>
  BY DEF PutOpens, PutWrites, procVars
<1>3. ThreadsHoldTasks' /\ ResultsFollowFutures'
  BY <1>2 DEF IInv, ThreadsHoldTasks, ResultsFollowFutures
<1>4. CASE PutOpens(w)
  <2>1. /\ cache' = [cache EXCEPT ![job[w]] = "torn"] /\ pc' = [pc EXCEPT ![w] = "writing"]
    BY <1>4 DEF PutOpens
  <2>2. "torn" \notin Said
    BY DEF Said
  <2>3. \A v \in Workers : v # w => cache'[job[v]] = cache[job[v]] /\ pc'[v] = pc[v]
    BY <1>1, <2>1 DEF IInv, TypeOK
  <2>4. pc'[w] = "writing" /\ cache'[job[w]] \notin Said
    BY <1>1, <2>1, <2>2 DEF IInv, TypeOK
  <2>5. \A t \in Tasks : future'[t] = "answered" => cache'[t] \in Said
    BY <1>1, <1>2, <2>1 DEF IInv, TypeOK, FilesFollowTasks
  <2>. QED
    BY <1>2, <1>3, <2>3, <2>4, <2>5 DEF IInv, FilesFollowTasks
<1>5. CASE PutWrites(w)
  <2>1. /\ cache' = [cache EXCEPT ![job[w]] = said[w]] /\ pc' = [pc EXCEPT ![w] = "accounting"]
    BY <1>5 DEF PutWrites
  <2>2. said[w] \in Said
    BY DEF IInv, TypeOK
  <2>3. \A v \in Workers : v # w => cache'[job[v]] = cache[job[v]] /\ pc'[v] = pc[v]
    BY <1>1, <2>1 DEF IInv, TypeOK
  <2>4. pc'[w] = "accounting" /\ cache'[job[w]] \in Said
    BY <1>1, <2>1, <2>2 DEF IInv, TypeOK
  <2>5. \A t \in Tasks : future'[t] = "answered" => cache'[t] \in Said
    BY <1>1, <1>2, <2>1 DEF IInv, TypeOK, FilesFollowTasks
  <2>. QED
    BY <1>2, <1>3, <2>3, <2>4, <2>5 DEF IInv, FilesFollowTasks
<1>. QED
  BY <1>4, <1>5

LEMMA InvStep ==
  ASSUME IInv, [Next]_vars
  PROVE  IInv'
<1>. DEFINE Rest == ThreadsHoldTasks /\ FilesFollowTasks /\ ResultsFollowFutures
<1>1. TypeOK'
  BY TypeStep
<1>2. ASSUME NEW w \in Workers, WorkerStep(w) PROVE Rest' /\ OverspendIsRaised'
  <2>1. CASE Hit(w) \/ Miss(w)
    <3>1. OverspendIsRaised'
      BY <2>1 DEF Hit, Miss, IInv, TypeOK, OverspendIsRaised
    <3>. QED
      BY <2>1, <3>1, TakeStep
  <2>2. CASE Generate(w)
    BY <2>2 DEF Generate, procVars, files, IInv, TypeOK, ThreadsHoldTasks, FilesFollowTasks,
                ResultsFollowFutures, OverspendIsRaised
  <2>3. CASE Fails(w)
    <3>1. Rest'
      BY <2>3, ResolveStep DEF Fails, files
    <3>2. OverspendIsRaised'
      BY <2>3, Busy DEF Fails, Resolve, IInv, TypeOK, OverspendIsRaised
    <3>. QED
      BY <3>1, <3>2
  <2>4. CASE PutOpens(w) \/ PutWrites(w)
    <3>1. OverspendIsRaised'
      BY <2>4 DEF PutOpens, PutWrites, procVars, IInv, OverspendIsRaised
    <3>. QED
      BY <2>4, <3>1, PutStep
  <2>5. CASE Account(w)
    <3>1. PICK o \in {"answered", "raised"} :
            Resolve(w, o) /\ (o = "answered" => total_spend' <= Ceiling)
      BY <2>5, ExperimentBAssumption DEF ExperimentBAssumption, Account, IInv, TypeOK
    <3>2. cache[job[w]] \in Said /\ pc[w] # "idle"
      BY <2>5 DEF Account, IInv, FilesFollowTasks
    <3>3. Rest'
      BY <2>5, <3>1, <3>2, ResolveStep DEF Account, files
    <3>4. OverspendIsRaised'
      <4>1. CASE o = "raised"
        BY <3>1, <3>2, <4>1, Busy DEF Resolve, IInv, TypeOK, OverspendIsRaised
      <4>2. CASE o = "answered"
        BY <1>1, <3>1, <4>2, ExperimentBAssumption
        DEF ExperimentBAssumption, TypeOK, OverspendIsRaised
      <4>. QED
        BY <3>1, <4>1, <4>2
    <3>. QED
      BY <3>3, <3>4
  <2>. QED
    BY <1>2, <2>1, <2>2, <2>3, <2>4, <2>5 DEF WorkerStep
<1>3. ASSUME NEW t \in Tasks, Collect(t) PROVE Rest' /\ OverspendIsRaised'
  <2>1. \A i \in DOMAIN results : results[i] # t
    BY <1>3 DEF Collect, Contains, IInv, TypeOK
  <2>2. results' = Append(results, t) /\ UNCHANGED <<main, future, workVars, files, total_spend>>
    BY <1>3 DEF Collect
  <2>3. IsInjective(results')
    BY <2>1, <2>2 DEF IInv, TypeOK, ResultsFollowFutures, IsInjective
  <2>4. \A i \in DOMAIN results' : future[results'[i]] = "answered"
    BY <1>3, <2>2 DEF Collect, IInv, TypeOK, ResultsFollowFutures
  <2>. QED
    BY <2>2, <2>3, <2>4 DEF workVars, files, IInv, ThreadsHoldTasks, FilesFollowTasks,
                            ResultsFollowFutures, OverspendIsRaised
<1>4. ASSUME NEW t \in Tasks, CollectRaises(t) PROVE Rest' /\ OverspendIsRaised'
  BY <1>4 DEF CollectRaises, workVars, files, IInv, Live, ThreadsHoldTasks, FilesFollowTasks,
              ResultsFollowFutures, OverspendIsRaised
<1>5. CASE Drained
  <2>1. \A t \in Tasks : future[t] # "running" /\ future[t] # "pending"
    BY <1>5 DEF Drained, Done
  <2>2. \A w \in Workers : job[w] = NoTask
    BY <2>1 DEF IInv, TypeOK, ThreadsHoldTasks
  <2>3. UNCHANGED <<future, results, pc, job, cache, total_spend>>
    BY <1>5 DEF Drained, workVars, files
  <2>4. ThreadsHoldTasks' /\ FilesFollowTasks'
    BY <2>2, <2>3 DEF IInv, ThreadsHoldTasks, FilesFollowTasks
  <2>5. ResultsFollowFutures'
    BY <1>5, <2>1, <2>3 DEF Drained, IInv, ResultsFollowFutures
  <2>6. OverspendIsRaised'
    BY <1>5, <2>3 DEF Drained, IInv, OverspendIsRaised
  <2>. QED
    BY <1>1, <2>4, <2>5, <2>6 DEF IInv
<1>6. CASE Publish
  <2>1. \A t \in Tasks : future[t] = "answered"
    BY <1>6 DEF Publish, ToSet, IInv, ResultsFollowFutures
  <2>2. \A w \in Workers : job[w] = NoTask
    BY <2>1 DEF IInv, TypeOK, ThreadsHoldTasks
  <2>3. UNCHANGED <<future, results, pc, job, cache, total_spend>>
    BY <1>6 DEF Publish, workVars, files
  <2>4. ThreadsHoldTasks' /\ FilesFollowTasks'
    BY <2>2, <2>3 DEF IInv, ThreadsHoldTasks, FilesFollowTasks
  <2>5. ResultsFollowFutures'
    BY <1>6, <2>1, <2>3 DEF Publish, IInv, ResultsFollowFutures
  <2>6. OverspendIsRaised'
    BY <1>6, <2>3 DEF Publish, IInv, OverspendIsRaised
  <2>. QED
    BY <1>1, <2>4, <2>5, <2>6 DEF IInv
<1>7. CASE Crash
  <2>1. /\ main' = "crashed" /\ results' = <<>> /\ cache' = cache
        /\ \A t \in Tasks : future'[t] = "none"
        /\ \A w \in Workers : pc'[w] = "idle" /\ job'[w] = NoTask
    BY <1>7 DEF Crash, files
  <2>2. ThreadsHoldTasks' /\ FilesFollowTasks'
    BY <2>1 DEF ThreadsHoldTasks, FilesFollowTasks
  <2>3. ResultsFollowFutures'
    BY <2>1 DEF ResultsFollowFutures, IsInjective
  <2>4. OverspendIsRaised'
    BY <2>1 DEF OverspendIsRaised
  <2>. QED
    BY <1>1, <2>2, <2>3, <2>4 DEF IInv
<1>8. CASE Start
  <2>1. \A w \in Workers : job[w] = NoTask /\ pc[w] = "idle"
    BY <1>8 DEF Start, IInv, TypeOK, ThreadsHoldTasks, Live
  <2>2. total_spend' <= Ceiling
    BY <1>8, ExperimentBAssumption DEF ExperimentBAssumption, Start
  <2>3. main' = "collecting" /\ results' = <<>> /\ \A t \in Tasks : future'[t] = "pending"
    BY <1>8 DEF Start
  <2>4. UNCHANGED <<pc, job, cache>>
    BY <1>8 DEF Start, workVars, files
  <2>5. ThreadsHoldTasks' /\ FilesFollowTasks'
    BY <2>1, <2>3, <2>4 DEF ThreadsHoldTasks, FilesFollowTasks
  <2>6. ResultsFollowFutures'
    BY <2>3 DEF ResultsFollowFutures, IsInjective, Live
  <2>7. OverspendIsRaised'
    BY <1>1, <2>2, ExperimentBAssumption DEF ExperimentBAssumption, TypeOK, OverspendIsRaised
  <2>. QED
    BY <1>1, <2>5, <2>6, <2>7 DEF IInv
<1>9. CASE UNCHANGED vars
  BY <1>1, <1>9 DEF vars, procVars, workVars, files, IInv, ThreadsHoldTasks, FilesFollowTasks,
              ResultsFollowFutures, OverspendIsRaised
<1>. QED
  BY <1>1, <1>2, <1>3, <1>4, <1>5, <1>6, <1>7, <1>8, <1>9 DEF IInv, Next, MainStep

(* The inductive invariant holds throughout.                                *)
THEOREM Invariance == Spec => []IInv
<1>1. Init => IInv
  <2>1. Init => TypeOK
    BY ExperimentBAssumption DEF ExperimentBAssumption, Init, TypeOK, Said
  <2>. QED
    BY <2>1, ExperimentBAssumption
    DEF ExperimentBAssumption, Init, IInv, Live, ThreadsHoldTasks, FilesFollowTasks,
        ResultsFollowFutures, IsInjective, OverspendIsRaised
<1>. QED
  BY <1>1, InvStep, PTL DEF Spec

(* A run that publishes stayed within the ceiling: every thread that passed *)
(* it left an exception that the main thread was bound to meet.             *)
THEOREM UnderCeiling == Spec => []PublishedUnderCeiling
<1>1. IInv => PublishedUnderCeiling
  BY ExperimentBAssumption
  DEF ExperimentBAssumption, IInv, TypeOK, ResultsFollowFutures, OverspendIsRaised,
      PublishedUnderCeiling
<1>. QED
  BY <1>1, Invariance, PTL

(* What is published rests on every task exactly once.                      *)
THEOREM Complete == Spec => []ContrastIsComplete
<1>1. IInv => ContrastIsComplete
  BY DEF IInv, FilesFollowTasks, ResultsFollowFutures, ContrastIsComplete
<1>. QED
  BY <1>1, Invariance, PTL
-----------------------------------------------------------------------------
LEMMA StoreStep == IInv /\ [Next]_vars => [Store!Next]_(Store!vars)
<1>. SUFFICES ASSUME IInv, [Next]_vars PROVE [Store!Next]_(Store!vars)
  OBVIOUS
<1>. DEFINE kept == {t \in Tasks : cache[t] \in Said}
<1>1. ASSUME cache' = cache, main' = main \/ (main \in Live /\ main' \in Live)
      PROVE  UNCHANGED Store!vars
  BY <1>1 DEF Store!vars, Live
<1>2. ASSUME NEW w \in Workers, PutOpens(w) PROVE UNCHANGED Store!vars
  <2>1. job[w] \in Tasks /\ cache[job[w]] \notin Said
    BY <1>2, Busy DEF PutOpens, IInv, FilesFollowTasks
  <2>2. {t \in Tasks : cache'[t] \in Said} = kept
    BY <1>2, <2>1 DEF PutOpens, IInv, TypeOK, Said
  <2>. QED
    BY <1>2, <2>2 DEF PutOpens, procVars, Store!vars
<1>3. ASSUME NEW w \in Workers, PutWrites(w) PROVE Store!Next
  <2>1. job[w] \in Tasks /\ main \in Live /\ main' = main
    BY <1>3, Busy DEF PutWrites, procVars
  <2>2. {t \in Tasks : cache'[t] \in Said} = kept \union {job[w]}
    BY <1>3, <2>1 DEF PutWrites, IInv, TypeOK
  <2>. QED
    BY <2>1, <2>2 DEF Store!Next, Store!Store, Live
<1>4. ASSUME NEW w \in Workers, WorkerStep(w), ~PutOpens(w), ~PutWrites(w)
      PROVE  UNCHANGED Store!vars
  BY <1>1, <1>4 DEF WorkerStep, Hit, Miss, Generate, Fails, Account, procVars, files
<1>5. ASSUME NEW t \in Tasks, Collect(t) \/ CollectRaises(t) PROVE UNCHANGED Store!vars
  BY <1>1, <1>5 DEF Collect, CollectRaises, files, Live
<1>6. CASE Publish
  <2>1. kept = Tasks
    BY <1>6 DEF Publish, ToSet, IInv, ResultsFollowFutures, FilesFollowTasks
  <2>2. cache' = cache /\ main = "collecting" /\ main' = "finished"
    BY <1>6 DEF Publish, files
  <2>. QED
    BY <2>1, <2>2 DEF Store!Next, Store!Complete
<1>7. CASE Drained \/ Crash
  BY <1>7 DEF Drained, Crash, files, Store!Next, Store!Stop
<1>8. CASE Start
  BY <1>8 DEF Start, files, Store!Next, Store!Resume
<1>9. CASE UNCHANGED vars
  BY <1>1, <1>9 DEF vars, procVars, files
<1>. QED
  BY <1>2, <1>3, <1>4, <1>5, <1>6, <1>7, <1>8, <1>9 DEF Next, MainStep

(* Experiment B is a resumable answer store.                                *)
THEOREM Refinement == Spec => ImplementsStore
<1>1. Init => Store!Init
  BY DEF Init, Store!Init, Said
<1>. QED
  BY <1>1, StoreStep, Invariance, PTL DEF Spec, ImplementsStore, Store!Spec
-----------------------------------------------------------------------------
(* Whatever has been published was computed from the answers that are on    *)
(* file now: once every task has its answer, no thread opens a file.        *)
PublishedFromFiles ==
  \A p \in published : p.estimate = Estimate(cache) /\ \A t \in Tasks : cache[t] \in Said

LEMMA PublishedStep ==
  ASSUME IInv, PublishedFromFiles, [Next]_vars
  PROVE  PublishedFromFiles'
<1>. USE DEF PublishedFromFiles
<1>1. CASE published' = published /\ cache' = cache
  BY <1>1
<1>2. ASSUME NEW w \in Workers, PutOpens(w) \/ PutWrites(w)
      PROVE  PublishedFromFiles'
  <2>1. job[w] \in Tasks /\ cache[job[w]] \notin Said /\ published' = published
    BY <1>2, Busy DEF PutOpens, PutWrites, IInv, FilesFollowTasks
  <2>. QED
    BY <2>1
<1>3. CASE Publish
  <2>1. \A t \in Tasks : cache[t] \in Said
    BY <1>3 DEF Publish, ToSet, IInv, ResultsFollowFutures, FilesFollowTasks
  <2>2. cache' = cache /\ \A p \in published' : p \in published \/ p.estimate = Estimate(cache)
    BY <1>3 DEF Publish, files
  <2>. QED
    BY <2>1, <2>2
<1>4. ASSUME NEW w \in Workers, WorkerStep(w), ~PutOpens(w), ~PutWrites(w)
      PROVE  PublishedFromFiles'
  BY <1>1, <1>4 DEF WorkerStep, Hit, Miss, Generate, Fails, Account, files
<1>5. ASSUME NEW t \in Tasks, Collect(t) \/ CollectRaises(t)
      PROVE  PublishedFromFiles'
  BY <1>1, <1>5 DEF Collect, CollectRaises, files
<1>6. CASE Drained \/ Crash \/ Start \/ UNCHANGED vars
  BY <1>1, <1>6 DEF Drained, Crash, Start, vars, files
<1>. QED
  BY <1>2, <1>3, <1>4, <1>5, <1>6 DEF Next, MainStep

(* Every process that publishes on the same files publishes the same point  *)
(* estimate, whatever was interrupted or restarted in between.              *)
THEOREM Reproducible == Spec => []EstimateReproducible
<1>1. Init => PublishedFromFiles
  BY DEF Init, PublishedFromFiles
<1>2. PublishedFromFiles => EstimateReproducible
  BY DEF PublishedFromFiles, EstimateReproducible
<1>. QED
  BY <1>1, <1>2, PublishedStep, Invariance, PTL DEF Spec
-----------------------------------------------------------------------------
(* The canary and the audits.                                                *)

(* The limits are compared with the calls before: what is known of the two  *)
(* sums depends on how many calls of the model have been made.  Before its  *)
(* identity call the model has spent nothing, and the total is one call     *)
(* over; the identity call, never checked, adds one; a later call was made  *)
(* only while both sums were within their limits.                           *)
SpendByPhase ==
  /\ canary \in {"running", "finished", "failed"} /\ model \in Nat
  /\ calls \in Nat /\ family \in Nat /\ cumulative \in Nat
  /\ calls = 0 => family = 0 /\ cumulative <= TotalLimit + MaxCallCost
  /\ calls = 1 => family <= MaxCallCost /\ cumulative <= TotalLimit + 2 * MaxCallCost
  /\ calls > 1 => family <= FamilyStopLoss + MaxCallCost /\ cumulative <= TotalLimit + MaxCallCost

LEMMA CostBounds ==
  /\ RelayCalls \in Nat /\ RelayCalls >= 1 /\ ReceiverCalls \in Nat /\ ReceiverCalls >= 1
  /\ FamilyStopLoss \in Nat /\ TotalLimit \in Nat /\ MaxCallCost \in Nat
  /\ \A c \in CanaryCosts : c \in Nat /\ c <= MaxCallCost
<1>1. RelayCalls \in Nat /\ RelayCalls >= 1 /\ ReceiverCalls \in Nat /\ ReceiverCalls >= 1
  BY ProviderCanaryAssumption
<1>2. FamilyStopLoss \in Nat /\ TotalLimit \in Nat /\ MaxCallCost \in Nat
  BY ProviderCanaryAssumption
<1>3. \A c \in CanaryCosts : c \in Nat /\ c <= MaxCallCost
  BY ProviderCanaryAssumption
<1>. QED
  BY <1>1, <1>2, <1>3

LEMMA SpendStep ==
  ASSUME SpendByPhase, [CanaryNext]_canaryVars
  PROVE  SpendByPhase'
<1>. USE DEF SpendByPhase
<1>1. CASE IdentityCall
  <2>1. PICK c \in CanaryCosts : Spend(c)
    BY <1>1 DEF IdentityCall
  <2>2. calls = 0 /\ calls' = 1 /\ canary' = canary /\ model' = model
    BY <1>1 DEF IdentityCall
  <2>. QED
    BY <2>1, <2>2, CostBounds DEF Spend
<1>2. CASE RelayCall
  <2>1. PICK c \in CanaryCosts : Spend(c)
    BY <1>2 DEF RelayCall
  <2>2. calls >= 1 /\ calls' = calls + 1 /\ canary' = canary /\ model' = model
    BY <1>2, CostBounds DEF RelayCall
  <2>3. family <= FamilyStopLoss /\ cumulative <= TotalLimit
    BY <1>2, CostBounds DEF RelayCall, Stops
  <2>. QED
    BY <2>1, <2>2, <2>3, CostBounds DEF Spend
<1>3. CASE ReceiverCall
  <2>1. PICK c \in CanaryCosts : Spend(c)
    BY <1>3 DEF ReceiverCall
  <2>2. calls >= 1 /\ calls' = calls + 1 /\ canary' = canary /\ model' = model
    BY <1>3, CostBounds DEF ReceiverCall
  <2>3. family <= FamilyStopLoss /\ cumulative <= TotalLimit
    BY <1>3, CostBounds DEF ReceiverCall, Stops
  <2>. QED
    BY <2>1, <2>2, <2>3, CostBounds DEF Spend
<1>4. CASE StopLoss
  BY <1>4 DEF StopLoss
<1>5. CASE CallRaises
  BY <1>5 DEF CallRaises
<1>6. CASE ModelDone
  <2>1. calls > 1
    BY <1>6, CostBounds DEF ModelDone, CallsPerModel
  <2>2. calls' = 0 /\ family' = 0 /\ cumulative' = cumulative /\ model' = model + 1 /\ canary' = canary
    BY <1>6 DEF ModelDone
  <2>. QED
    BY <2>1, <2>2, CostBounds
<1>7. CASE WriteSummary
  BY <1>7 DEF WriteSummary
<1>8. CASE CanaryStart
  BY <1>8, CostBounds DEF CanaryStart
<1>9. CASE UNCHANGED canaryVars
  BY <1>9 DEF canaryVars
<1>. QED
  BY <1>1, <1>2, <1>3, <1>4, <1>5, <1>6, <1>7, <1>8, <1>9 DEF CanaryNext

(* A family overshoots its stop-loss by at most one call and a process the  *)
(* total limit by at most two, however many candidates there are.           *)
THEOREM Overshoot == CanarySpec => []CanaryOvershoot
<1>1. CanaryInit => SpendByPhase
  BY CostBounds DEF CanaryInit, SpendByPhase
<1>2. SpendByPhase /\ [CanaryNext]_canaryVars => SpendByPhase'
  BY SpendStep
<1>3. SpendByPhase => CanaryOvershoot
  BY CostBounds DEF SpendByPhase, CanaryOvershoot
<1>. QED
  BY <1>1, <1>2, <1>3, PTL DEF CanarySpec
-----------------------------------------------------------------------------
(* How far a process has got.  It judges only when every future is           *)
(* collected, and a future is answered only with a canonical outcome; the    *)
(* report files are written one after the other.                             *)
JudgedIsComplete ==
  /\ \A t \in Items : task[t] \in {"answered", "collected"} => answer[t] \in Canonical
  /\ phase \in {"writing", "finished"} => \A t \in Items : task[t] = "collected"
  /\ phase \in {"collecting", "draining"} => written = 0
  /\ phase = "writing" => written < Len(FilesOf(script))

(* No file is of a process that has not been started; the process that is    *)
(* about to write its selection has its own evidence on file.                *)
EvidenceIsOnFile ==
  /\ \A f \in ReportFiles : report[f].audit \in 0 .. audits
  /\ phase = "writing" /\ script = "regime" /\ written >= 1 =>
       report["audit_json"].audit = audits
  /\ EvidencePrecedesDecision

AuditInv == AuditTypeOK /\ JudgedIsComplete /\ EvidenceIsOnFile

LEMMA ReportOrder ==
  /\ Len(FilesOf("regime")) = 4 /\ Len(FilesOf("receiver")) = 2
  /\ FilesOf("regime")[1] = "audit_json" /\ FilesOf("regime")[2] = "selection_json"
  /\ FilesOf("regime")[3] = "audit_md" /\ FilesOf("regime")[4] = "selection_md"
  /\ FilesOf("receiver")[1] = "receiver_json" /\ FilesOf("receiver")[2] = "receiver_md"
  /\ ReportFiles = {"audit_json", "selection_json", "audit_md", "selection_md",
                    "receiver_json", "receiver_md"}
<1>1. /\ Len(FilesOf("regime")) = 4 /\ Len(FilesOf("receiver")) = 2
      /\ FilesOf("regime")[1] = "audit_json" /\ FilesOf("regime")[2] = "selection_json"
      /\ FilesOf("regime")[3] = "audit_md" /\ FilesOf("regime")[4] = "selection_md"
      /\ FilesOf("receiver")[1] = "receiver_json" /\ FilesOf("receiver")[2] = "receiver_md"
  BY DEF FilesOf, RegimeFiles, ReceiverFiles
<1>2. DOMAIN RegimeFiles = {1, 2, 3, 4} /\ DOMAIN ReceiverFiles = {1, 2}
  BY DEF RegimeFiles, ReceiverFiles
<1>3. ToSet(RegimeFiles) = {"audit_json", "selection_json", "audit_md", "selection_md"}
  BY <1>2 DEF ToSet, RegimeFiles
<1>4. ToSet(ReceiverFiles) = {"receiver_json", "receiver_md"}
  BY <1>2 DEF ToSet, ReceiverFiles
<1>. QED
  BY <1>1, <1>3, <1>4 DEF ReportFiles

(* A step of a thread of the pool, or of the main thread while it collects,  *)
(* touches no file; what it does to the futures keeps them as they must be.  *)
LEMMA FuturesStep ==
  ASSUME AuditInv,
         \/ TakeItem \/ PoolDrained \/ Judge
         \/ \E t \in Items : \/ ItemStep(t)
                              \/ RegimeCollects(t) \/ ReceiverCollects(t) \/ CollectRaised(t)
  PROVE  AuditInv'
<1>. USE DEF AuditInv
<1>1. EvidenceIsOnFile'
  <2>1. script' = script /\ report' = report /\ audits' = audits /\ written' = written
    BY DEF TakeItem, PoolDrained, Judge, ItemStep, ItemAnswered, AttemptFails, RegimeCollects,
           ReceiverCollects, CollectRaised
  <2>2. phase \in {"collecting", "draining"}
    BY DEF TakeItem, PoolDrained, Judge, ItemStep, ItemAnswered, AttemptFails, RegimeCollects,
           ReceiverCollects, CollectRaised, Active
  <2>. QED
    BY <2>1, <2>2 DEF EvidenceIsOnFile, EvidencePrecedesDecision, Torn, JudgedIsComplete
<1>2. CASE TakeItem
  <2>1. PICK u : task' = [task EXCEPT ![u] = "running"]
    BY <1>2 DEF TakeItem
  <2>2. UNCHANGED <<script, phase, attempt, answer, spent, written, report, audits>> /\ Active
    BY <1>2 DEF TakeItem
  <2>. QED
    BY <1>1, <2>1, <2>2 DEF AuditTypeOK, JudgedIsComplete, Active
<1>3. CASE PoolDrained
  BY <1>1, <1>3 DEF PoolDrained, AuditTypeOK, JudgedIsComplete
<1>4. CASE Judge
  BY <1>1, <1>4, ReportOrder DEF Judge, AuditTypeOK, JudgedIsComplete
<1>5. ASSUME NEW t \in Items, ItemAnswered(t) PROVE AuditInv'
  <2>1. PICK v \in Canonical : answer' = [answer EXCEPT ![t] = v]
    BY <1>5 DEF ItemAnswered
  <2>2. /\ task' = [task EXCEPT ![t] = "answered"] /\ attempt' = [attempt EXCEPT ![t] = 0]
        /\ UNCHANGED <<script, phase, spent, written, report, audits>> /\ Active
    BY <1>5 DEF ItemAnswered
  <2>3. 0 \in 0 .. (Attempts - 1)
    BY ProviderAuditAssumption
  <2>4. AuditTypeOK'
    BY <2>1, <2>2, <2>3 DEF AuditTypeOK
  <2>5. JudgedIsComplete'
    BY <2>1, <2>2 DEF AuditTypeOK, JudgedIsComplete, Active
  <2>. QED
    BY <1>1, <2>4, <2>5
<1>6. ASSUME NEW t \in Items, AttemptFails(t) PROVE AuditInv'
  <2>1. /\ UNCHANGED <<script, phase, answer, spent, written, report, audits>> /\ Active
        /\ task' = task \/ task' = [task EXCEPT ![t] = "raised"]
    BY <1>6 DEF AttemptFails
  <2>2. attempt' \in [Items -> 0 .. (Attempts - 1)]
    <3>1. attempt[t] \in 0 .. (Attempts - 1) /\ Attempts \in Nat \ {0}
      BY ProviderAuditAssumption DEF AuditTypeOK
    <3>2. CASE attempt[t] + 1 = Attempts
      BY <1>6, <3>1, <3>2 DEF AttemptFails, AuditTypeOK
    <3>3. CASE attempt[t] + 1 # Attempts
      <4>1. attempt[t] + 1 \in 0 .. (Attempts - 1)
        BY <3>1, <3>3
      <4>. QED
        BY <1>6, <3>3, <4>1 DEF AttemptFails, AuditTypeOK
    <3>. QED
      BY <3>2, <3>3
  <2>3. AuditTypeOK'
    BY <2>1, <2>2 DEF AuditTypeOK
  <2>4. JudgedIsComplete'
    BY <2>1 DEF AuditTypeOK, JudgedIsComplete, Active
  <2>. QED
    BY <1>1, <2>3, <2>4
<1>7. ASSUME NEW t \in Items, RegimeCollects(t) \/ ReceiverCollects(t) PROVE AuditInv'
  <2>1. PICK c \in AnswerCosts : spent' = spent + c
    BY <1>7 DEF RegimeCollects, ReceiverCollects
  <2>2. /\ phase = "collecting" /\ phase' \in {"collecting", "draining"}
        /\ task[t] = "answered" /\ task' = [task EXCEPT ![t] = "collected"]
        /\ UNCHANGED <<script, attempt, answer, written, report, audits>>
    BY <1>7 DEF RegimeCollects, ReceiverCollects
  <2>3. spent' \in Nat
    BY <2>1, ProviderAuditAssumption DEF AuditTypeOK
  <2>4. AuditTypeOK'
    BY <2>2, <2>3 DEF AuditTypeOK
  <2>5. JudgedIsComplete'
    BY <2>2 DEF AuditTypeOK, JudgedIsComplete
  <2>. QED
    BY <1>1, <2>4, <2>5
<1>8. ASSUME NEW t \in Items, CollectRaised(t) PROVE AuditInv'
  BY <1>1, <1>8 DEF CollectRaised, AuditTypeOK, JudgedIsComplete
<1>. QED
  BY <1>2, <1>3, <1>4, <1>5, <1>6, <1>7, <1>8 DEF ItemStep

(* The evidence is the first file of a process and its selection the second. *)
LEMMA ReportStep ==
  ASSUME AuditInv, WriteReport
  PROVE  AuditInv'
<1>. DEFINE f == FilesOf(script)[written + 1]
            c == Content(f)
<1>1. /\ phase = "writing" /\ script \in {"regime", "receiver"} /\ written \in 0 .. 3
      /\ written < Len(FilesOf(script)) /\ audits \in Nat
      /\ UNCHANGED <<script, task, attempt, answer, spent, audits>>
      /\ report' = [report EXCEPT ![f] = c] /\ written' = written + 1
      /\ phase' = IF written + 1 = Len(FilesOf(script)) THEN "finished" ELSE phase
  <2>1. phase = "writing"
    BY DEF WriteReport
  <2>2. /\ script \in {"regime", "receiver"} /\ audits \in Nat /\ written \in 0 .. 4
        /\ written < Len(FilesOf(script))
    BY <2>1, ProviderAuditAssumption DEF AuditInv, AuditTypeOK, JudgedIsComplete
  <2>3. written \in 0 .. 3
    <3>. DEFINE last == Len(FilesOf(script))
    <3>1. last \in {2, 4} /\ written < last
      BY <2>2, ReportOrder
    <3>. HIDE DEF last
    <3>. QED
      BY <2>2, <3>1
  <2>4. /\ UNCHANGED <<script, task, attempt, answer, spent, audits>>
        /\ report' = [report EXCEPT ![f] = c] /\ written' = written + 1
        /\ phase' = IF written + 1 = Len(FilesOf(script)) THEN "finished" ELSE phase
    BY DEF WriteReport
  <2>. QED
    BY <2>1, <2>2, <2>3, <2>4
<1>2. f \in ReportFiles /\ c.audit = audits
  BY <1>1, ReportOrder DEF Content
<1>3. AuditTypeOK' /\ JudgedIsComplete'
  <2>. HIDE DEF f, c
  <2>. QED
    BY <1>1, ReportOrder DEF AuditInv, AuditTypeOK, JudgedIsComplete
<1>4. \A g \in ReportFiles : report'[g].audit \in 0 .. audits'
  <2>. HIDE DEF f, c
  <2>. QED
    BY <1>1, <1>2 DEF AuditInv, AuditTypeOK, EvidenceIsOnFile
<1>5. CASE script = "receiver"
  <2>1. f \notin {"audit_json", "selection_json"}
    BY <1>1, <1>5, ReportOrder
  <2>2. /\ report'["audit_json"] = report["audit_json"]
        /\ report'["selection_json"] = report["selection_json"]
    <3>. HIDE DEF f, c
    <3>. QED
      BY <1>1, <2>1, ReportOrder DEF AuditInv, AuditTypeOK
  <2>3. EvidenceIsOnFile'
    BY <1>1, <1>4, <1>5, <2>2 DEF AuditInv, EvidenceIsOnFile, EvidencePrecedesDecision, Torn
  <2>. QED
    BY <1>3, <2>3 DEF AuditInv
<1>6. CASE script = "regime" /\ written = 0
  <2>1. f = "audit_json"
    BY <1>6, ReportOrder
  <2>2. report'["audit_json"].audit = audits /\ report'["selection_json"] = report["selection_json"]
    <3>. HIDE DEF c
    <3>. QED
      BY <1>1, <1>2, <2>1, ReportOrder DEF AuditInv, AuditTypeOK
  <2>3. report["selection_json"].audit \in 0 .. audits
    BY ReportOrder DEF AuditInv, EvidenceIsOnFile
  <2>4. EvidencePrecedesDecision'
    BY <1>1, <2>2, <2>3 DEF EvidencePrecedesDecision
  <2>5. EvidenceIsOnFile'
    BY <1>1, <1>4, <2>2, <2>4 DEF EvidenceIsOnFile
  <2>. QED
    BY <1>3, <2>5 DEF AuditInv
<1>7. CASE script = "regime" /\ written >= 1
  <2>1. f \in {"selection_json", "audit_md", "selection_md"}
    BY <1>1, <1>7, ReportOrder
  <2>2. report["audit_json"].audit = audits
    BY <1>1, <1>7 DEF AuditInv, EvidenceIsOnFile
  <2>3. report'["audit_json"] = report["audit_json"]
    <3>. HIDE DEF f, c
    <3>. QED
      BY <1>1, <2>1, ReportOrder DEF AuditInv, AuditTypeOK
  <2>4. EvidencePrecedesDecision'
    <3>1. report'["selection_json"].audit \in 0 .. audits
      BY <1>1, <1>4, ReportOrder
    <3>2. report'["selection_json"].audit <= report'["audit_json"].audit
      BY <1>1, <2>2, <2>3, <3>1
    <3>. QED
      BY <3>2 DEF EvidencePrecedesDecision
  <2>5. EvidenceIsOnFile'
    BY <1>1, <1>4, <2>2, <2>3, <2>4 DEF EvidenceIsOnFile
  <2>. QED
    BY <1>3, <2>5 DEF AuditInv
<1>. QED
  BY <1>1, <1>5, <1>6, <1>7

(* A killed process leaves at most one torn file; a torn selection is none.  *)
LEMMA CrashStep ==
  ASSUME AuditInv, AuditCrash
  PROVE  AuditInv'
<1>1. /\ phase' = "crashed" /\ script' = script /\ audits' = audits
      /\ task' = [t \in Items |-> "queued"] /\ attempt' = [t \in Items |-> 0]
      /\ answer' = [t \in Items |-> "none"] /\ spent' = 0 /\ written' = 0
  BY DEF AuditCrash
<1>2. 0 \in 0 .. (Attempts - 1) /\ audits \in Nat
  BY ProviderAuditAssumption DEF AuditInv, AuditTypeOK
<1>3. PICK g : report' = report \/ report' = [report EXCEPT ![g] = Torn]
  BY DEF AuditCrash
<1>4. AuditTypeOK'
  BY <1>1, <1>2, <1>3 DEF AuditInv, AuditTypeOK
<1>5. JudgedIsComplete'
  BY <1>1 DEF JudgedIsComplete
<1>6. EvidenceIsOnFile'
  <2>1. CASE report' = report
    BY <1>1, <2>1 DEF AuditInv, EvidenceIsOnFile, EvidencePrecedesDecision, Torn
  <2>2. CASE report' = [report EXCEPT ![g] = Torn]
    <3>1. \A h \in ReportFiles : report'[h] = IF h = g THEN Torn ELSE report[h]
      BY <2>2 DEF AuditInv, AuditTypeOK
    <3>2. \A h \in ReportFiles : report'[h].audit \in 0 .. audits'
      BY <1>1, <1>2, <3>1 DEF AuditInv, EvidenceIsOnFile, Torn
    <3>3. \A h \in ReportFiles : report[h].audit \in 0 .. audits
      BY DEF AuditInv, EvidenceIsOnFile
    <3>4. EvidencePrecedesDecision'
      BY <1>2, <3>1, <3>3, ReportOrder
      DEF AuditInv, EvidenceIsOnFile, EvidencePrecedesDecision, Torn
    <3>. QED
      BY <1>1, <3>2, <3>4 DEF EvidenceIsOnFile
  <2>. QED
    BY <1>3, <2>1, <2>2
<1>. QED
  BY <1>4, <1>5, <1>6 DEF AuditInv

LEMMA AuditStep ==
  ASSUME AuditInv, [AuditNext]_auditVars
  PROVE  AuditInv'
<1>1. CASE AuditStart
  <2>1. 0 \in 0 .. (Attempts - 1) /\ MaxAudits \in Nat
    BY ProviderAuditAssumption
  <2>2. AuditTypeOK'
    BY <1>1, <2>1 DEF AuditStart, AuditInv, AuditTypeOK
  <2>3. JudgedIsComplete'
    BY <1>1 DEF AuditStart, JudgedIsComplete
  <2>4. EvidenceIsOnFile'
    BY <1>1, <2>1 DEF AuditStart, AuditInv, AuditTypeOK, EvidenceIsOnFile,
                      EvidencePrecedesDecision, Torn
  <2>. QED
    BY <2>2, <2>3, <2>4 DEF AuditInv
<1>2. CASE UNCHANGED auditVars
  BY <1>2 DEF auditVars, AuditInv, AuditTypeOK, JudgedIsComplete, EvidenceIsOnFile,
              EvidencePrecedesDecision, Torn
<1>. QED
  BY <1>1, <1>2, FuturesStep, ReportStep, CrashStep DEF AuditNext, AuditMain

LEMMA AuditBegins == ASSUME AuditInit PROVE AuditInv
<1>1. 0 \in 0 .. (Attempts - 1) /\ 1 \in 1 .. MaxAudits
  BY ProviderAuditAssumption
<1>2. AuditTypeOK
  BY <1>1 DEF AuditInit, AuditTypeOK
<1>3. JudgedIsComplete
  BY DEF AuditInit, JudgedIsComplete
<1>4. EvidenceIsOnFile
  BY ReportOrder DEF AuditInit, EvidenceIsOnFile, EvidencePrecedesDecision, Absent
<1>. QED
  BY <1>2, <1>3, <1>4 DEF AuditInv
-----------------------------------------------------------------------------
(* What the verdict is computed from. *)
LEMMA AnswersAgree ==
  ASSUME NEW i \in Inputs, AuditTypeOK
  PROVE  Cardinality(Answers(i)) = 1 <=> \A v, w \in Answers(i) : v = w
<1>. DEFINE A == Answers(i)
<1>1. REPEATS \in Nat \ {0} /\ IsFiniteSet(1 .. REPEATS)
  BY ProviderAuditAssumption, FS_Interval
<1>2. IsFiniteSet(A) /\ A # {}
  <2>. DEFINE f == [r \in 1 .. REPEATS |-> answer[<<i, r>>]]
  <2>1. f \in Surjection(1 .. REPEATS, A)
    BY DEF Surjection, Answers
  <2>2. IsFiniteSet(A)
    <3>. HIDE DEF f, A
    <3>. QED
      BY <1>1, <2>1, FS_Surjection
  <2>3. answer[<<i, 1>>] \in A
    BY <1>1 DEF Answers
  <2>. QED
    BY <2>2, <2>3
<1>. HIDE DEF A
<1>3. Cardinality(A) = 1 <=> \E x : A = {x}
  BY <1>2, FS_Singleton
<1>4. (\E x : A = {x}) <=> \A v, w \in A : v = w
  <2>1. ASSUME \A v, w \in A : v = w PROVE \E x : A = {x}
    <3>1. PICK x : x \in A
      BY <1>2
    <3>2. A = {x}
      BY <2>1, <3>1
    <3>. QED
      BY <3>2
  <2>. QED
    BY <2>1
<1>. QED
  BY <1>3, <1>4 DEF A

Split == {i \in Inputs : \E v, w \in Answers(i) : v # w}

LEMMA UnanimousMeansNoneSplit ==
  ASSUME AuditTypeOK
  PROVE  Unanimous <=> Cardinality(Split) = 0
<1>1. IsFiniteSet(Split)
  BY ProviderAuditAssumption, FS_Subset DEF Split
<1>2. Cardinality(Split) = 0 <=> Split = {}
  BY <1>1, FS_EmptySet
<1>3. Split = {} <=> \A i \in Inputs : \A v, w \in Answers(i) : v = w
  BY DEF Split
<1>. QED
  BY <1>2, <1>3, AnswersAgree DEF Unanimous

(* The variance of the decoder is a fraction of naturals.                    *)
LEMMA RightIsNat == ASSUME NEW i PROVE Right(i) \in 0 .. REPEATS
<1>. DEFINE R == {r \in 1 .. REPEATS : answer[<<i, r>>] = Target}
<1>1. REPEATS \in Nat /\ IsFiniteSet(1 .. REPEATS) /\ Cardinality(1 .. REPEATS) = REPEATS
  BY ProviderAuditAssumption, FS_Interval
<1>2. Cardinality(R) \in Nat /\ Cardinality(R) <= Cardinality(1 .. REPEATS)
  <2>1. R \in SUBSET (1 .. REPEATS)
    OBVIOUS
  <2>. HIDE DEF R
  <2>. QED
    BY <1>1, <2>1, FS_Subset, FS_CardinalityType
<1>3. Right(i) = Cardinality(R)
  BY DEF Right
<1>. HIDE DEF R
<1>. QED
  BY <1>1, <1>2, <1>3

SpreadOf == [i \in Inputs |-> Spread(i)]

LEMMA SpreadSum ==
  MapThenSumSet(Spread, Inputs) = SumOver(SpreadOf, Inputs)
<1>. DEFINE Op(i) == Spread(i)
            F == SpreadOf
            Sum(g) == [s \in SUBSET Inputs |-> IF s = {} THEN 0
                         ELSE Op(CHOOSE x \in s : TRUE) + g[s \ {CHOOSE x \in s : TRUE}]]
            G == CHOOSE iter : iter = Sum(iter)
<1>0. IsFiniteSet(Inputs)
  BY ProviderAuditAssumption
<1>1. MapThenSumSet(Spread, Inputs) = G[Inputs]
  BY DEF MapThenSumSet, MapThenFoldSet
<1>2. ASSUME NEW g PROVE IsSum(g, F, Inputs) <=> g = Sum(g)
  <2>1. \A i \in Inputs : F[i] = Op(i)
    BY DEF SpreadOf
  <2>. HIDE DEF F, Op
  <2>2. \A s \in SUBSET Inputs : s # {} => F[CHOOSE x \in s : TRUE] = Op(CHOOSE x \in s : TRUE)
    BY <2>1
  <2>3. [s \in SUBSET Inputs |-> IF s = {} THEN 0
           ELSE F[CHOOSE x \in s : TRUE] + g[s \ {CHOOSE x \in s : TRUE}]] = Sum(g)
    BY <2>2
  <2>. HIDE DEF Sum
  <2>. QED
    BY <2>3 DEF IsSum, Chosen
<1>3. PICK g : IsSum(g, F, Inputs)
  BY <1>0, SumExists
<1>4. g = Sum(g)
  BY <1>2, <1>3
<1>5. G = Sum(G)
  <2>. HIDE DEF Sum
  <2>. QED
    BY <1>4
<1>. HIDE DEF G, F, Sum
<1>6. IsSum(G, F, Inputs)
  BY <1>2, <1>5
<1>7. SumOver(F, Inputs) = G[Inputs]
  BY <1>0, <1>6, SumValue
<1>. QED
  BY <1>1, <1>7 DEF F

LEMMA DecodeVarianceIsFraction ==
  DecodeVariance.num \in Nat /\ DecodeVariance.den \in Nat
<1>. DEFINE n == Cardinality(Inputs)
<1>1. IsFiniteSet(Inputs) /\ n \in Nat /\ REPEATS \in Nat
  BY ProviderAuditAssumption, FS_CardinalityType
<1>2. \A i \in Inputs : SpreadOf[i] \in Nat
  <2>. SUFFICES ASSUME NEW i \in Inputs PROVE SpreadOf[i] \in Nat
    OBVIOUS
  <2>. DEFINE k == Right(i)
  <2>1. k \in Nat /\ REPEATS - k \in Nat
    BY <1>1, RightIsNat
  <2>2. SpreadOf[i] = k * (REPEATS - k)
    BY DEF SpreadOf, Spread
  <2>. HIDE DEF k
  <2>. QED
    BY <2>1, <2>2
<1>3. SumOver(SpreadOf, Inputs) \in Nat
  BY <1>1, <1>2, SumIsNat
<1>4. REPEATS * REPEATS * n \in Nat
  <2>. HIDE DEF n
  <2>. QED
    BY <1>1
<1>. DEFINE a == MapThenSumSet(Spread, Inputs)
            b == REPEATS * REPEATS * n
<1>5. a \in Nat
  BY <1>3, SpreadSum
<1>6. DecodeVariance = Frac(a, b)
  BY DEF DecodeVariance
<1>. HIDE DEF a
<1>. QED
  BY <1>4, <1>5, <1>6 DEF Frac

(* There is a document for every input, so a document has at least one; the  *)
(* variance of the documents is defined.                                     *)
LEMMA DocumentVarianceDefined ==
  DocumentVariance.num = 0 => DocumentVariance.den \in Nat \ {0}
<1>. DEFINE n == Cardinality(Documents)
            c == Cardinality(Inputs)
            perDoc == REPEATS * (c \div n)
<1>1. IsFiniteSet(Documents) /\ n <= c
  <2>. DEFINE f == [i \in Inputs |-> DocumentOf[i]]
  <2>1. f \in Surjection(Inputs, Documents) /\ IsFiniteSet(Inputs)
    BY ProviderAuditAssumption DEF Surjection, Documents
  <2>. HIDE DEF f
  <2>. QED
    BY <2>1, FS_Surjection
<1>2. n \in Nat /\ c \in Nat /\ REPEATS \in Nat \ {0}
  BY <1>1, ProviderAuditAssumption, FS_CardinalityType
<1>. DEFINE sum == MapThenSumSet(RightIn, Documents)
            squares == MapThenSumSet(SquareOf, Documents)
            a == n * squares - sum * sum
            b == n * (n - 1) * perDoc * perDoc
<1>5. DocumentVariance = IF n > 1 THEN Frac(a, b) ELSE Frac(1, 100)
  BY DEF DocumentVariance
<1>. HIDE DEF a
<1>3. CASE n > 1
  <2>1. DocumentVariance.den = b
    BY <1>3, <1>5 DEF Frac
  <2>. HIDE DEF n, c
  <2>2. c \div n \in Nat /\ c \div n # 0
    BY <1>1, <1>2, <1>3
  <2>3. perDoc \in Nat /\ perDoc # 0
    <3>. DEFINE q == c \div n
    <3>1. q \in Nat /\ q # 0
      BY <2>2
    <3>. HIDE DEF q
    <3>2. REPEATS * q \in Nat /\ REPEATS * q # 0
      BY <1>2, <3>1
    <3>. QED
      BY <3>2 DEF q
  <2>. HIDE DEF perDoc
  <2>4. n * (n - 1) \in Nat /\ n * (n - 1) # 0
    BY <1>2, <1>3
  <2>5. \A x, y \in Nat : x # 0 /\ y # 0 => x * y \in Nat /\ x * y # 0
    OBVIOUS
  <2>6. n * (n - 1) * perDoc \in Nat /\ n * (n - 1) * perDoc # 0
    BY <2>3, <2>4, <2>5
  <2>7. n * (n - 1) * perDoc * perDoc \in Nat /\ n * (n - 1) * perDoc * perDoc # 0
    BY <2>3, <2>5, <2>6
  <2>. QED
    BY <2>1, <2>7
<1>4. CASE ~ (n > 1)
  BY <1>4, <1>5 DEF Frac
<1>. QED
  BY <1>3, <1>4

(* The audits' shorter loop over the grid picks what select_replication of   *)
(* providers/regime.py picks, also when the documents do not vary at all.    *)
LEMMA GridAgrees ==
  ASSUME NEW decode, NEW document, decode.num \in Nat, decode.den \in Nat,
         document.num = 0 => document.den \in Nat \ {0}
  PROVE  FirstMeeting(decode, document) = select_replication(decode, document).m_star
<1>1. CASE document.num # 0
  BY <1>1 DEF select_replication, ReplicationDecision
<1>2. CASE document.num = 0
  <2>. DEFINE Meets(m) == MeetsTarget(decode, document, m)
              meets == {i \in DOMAIN REPLICATION_GRID : Meets(REPLICATION_GRID[i])}
  <2>1. DOMAIN REPLICATION_GRID = {1, 2, 3, 4}
    BY DEF REPLICATION_GRID
  <2>2. \A i \in {1, 2, 3, 4} : REPLICATION_GRID[i] \in Nat \ {0}
    BY DEF REPLICATION_GRID
  <2>3. ASSUME NEW m \in Nat \ {0} PROVE Meets(m) <=> decode.num = 0
    <3>. DEFINE a == decode.num
                d == document.den
                e == decode.den * m
    <3>1. Meets(m) <=> 10 * a * d <= 0 * e
      BY <1>2 DEF MeetsTarget, LeqFrac, Frac
    <3>2. a \in Nat /\ d \in Nat \ {0} /\ e \in Nat
      BY <1>2
    <3>. HIDE DEF a, d, e, Meets
    <3>3. 10 * a * d <= 0 * e <=> a = 0
      BY <3>2
    <3>. QED
      BY <3>1, <3>3 DEF a
  <2>4. select_replication(decode, document).m_star =
          IF decode.num > 0 THEN GridLast ELSE REPLICATION_GRID[1]
    BY <1>2 DEF select_replication, ReplicationDecision
  <2>5. FirstMeeting(decode, document) =
          IF meets = {} THEN GridLast
          ELSE REPLICATION_GRID[CHOOSE i \in meets : \A j \in meets : i <= j]
    BY DEF FirstMeeting
  <2>. HIDE DEF Meets
  <2>6. CASE decode.num = 0
    <3>1. meets = {1, 2, 3, 4}
      BY <2>1, <2>2, <2>3, <2>6
    <3>2. (CHOOSE i \in meets : \A j \in meets : i <= j) = 1
      BY <3>1
    <3>. QED
      BY <2>4, <2>5, <2>6, <3>1, <3>2
  <2>7. CASE decode.num # 0
    <3>1. meets = {}
      BY <2>1, <2>2, <2>3, <2>7
    <3>. QED
      BY <2>4, <2>5, <2>7, <3>1
  <2>. QED
    BY <2>6, <2>7
<1>. QED
  BY <1>1, <1>2

(* A judged audit is complete, so the rule's answer is (D) or (S) by whether *)
(* the inputs agree, and both programs answer that.                          *)
LEMMA JudgedByTheRule ==
  ASSUME AuditInv, phase \in {"writing", "finished"}
  PROVE  VerdictFollowsRule
<1>. DEFINE n == Cardinality(Inputs)
            disagree == Cardinality(Split)
            audited == [completed |-> \A t \in Items : answer[t] \in Canonical,
                        n_inputs |-> n, n_repeats |-> REPEATS,
                        inputs_with_disagreement |-> disagree]
<1>1. \A t \in Items : answer[t] \in Canonical
  BY DEF AuditInv, JudgedIsComplete
<1>2. Unanimous <=> disagree = 0
  BY UnanimousMeansNoneSplit DEF AuditInv
<1>3. n \in Nat /\ REPEATS \in Nat
  BY ProviderAuditAssumption, FS_CardinalityType
<1>4. RegimeOf(audited, n, REPEATS) = IF disagree = 0 THEN "D_CONFIRMED" ELSE "S_CONFIRMED"
  <2>1. ~ (n < n) /\ ~ (REPEATS < REPEATS)
    BY <1>3
  <2>. QED
    BY <1>1, <2>1 DEF RegimeOf
<1>5. Verdict.regime = IF Unanimous THEN "D_CONFIRMED" ELSE "S_CONFIRMED"
  BY DEF Verdict, RegimeVerdict, ReceiverVerdict
<1>6. Verdict.m_star = IF Unanimous THEN 1 ELSE FirstMeeting(DecodeVariance, DocumentVariance)
  BY DEF Verdict, RegimeVerdict, ReceiverVerdict
<1>7. FirstMeeting(DecodeVariance, DocumentVariance)
        = select_replication(DecodeVariance, DocumentVariance).m_star
  BY DecodeVarianceIsFraction, DocumentVarianceDefined, GridAgrees
<1>8. /\ Verdict.regime = RegimeOf(audited, n, REPEATS)
      /\ Verdict.m_star = IF disagree = 0 THEN 1
                          ELSE select_replication(DecodeVariance, DocumentVariance).m_star
  BY <1>2, <1>4, <1>5, <1>6, <1>7
<1>. QED
  BY <1>8 DEF VerdictFollowsRule, Split-----------------------------------------------------------------------------
(* The canary asks the receiver only after identity and relay: what it has   *)
(* collected is counted by the calls made, so it is never more than asked.   *)
OutputsAreCounted ==
  /\ calls <= RelayCalls + 1 => Len(outputs) = 0
  /\ calls > RelayCalls + 1 => Len(outputs) = calls - 1 - RelayCalls

CanaryInv == CanaryTypeOK /\ OutputsAreCounted

LEMMA CanaryNumbers ==
  /\ RelayCalls \in Nat \ {0} /\ ReceiverCalls \in Nat \ {0} /\ MaxCanaries \in Nat \ {0}
  /\ Len(Candidates) \in Nat \ {0} /\ Positions = 1 .. Len(Candidates)
  /\ CanaryCosts \subseteq Nat
<1>1. Candidates \in Seq(STRING) /\ Candidates # <<>>
  BY ProviderCanaryAssumption
<1>2. Len(Candidates) \in Nat \ {0} /\ Positions = 1 .. Len(Candidates)
  BY <1>1 DEF Positions
<1>. QED
  BY <1>2, ProviderCanaryAssumption

LEMMA CanaryTypes ==
  ASSUME CanaryInv, [CanaryNext]_canaryVars
  PROVE  CanaryInv'
<1>. USE DEF CanaryInv, CanaryTypeOK, OutputsAreCounted
<1>1. CASE IdentityCall
  <2>1. PICK c \in CanaryCosts : Spend(c)
    BY <1>1 DEF IdentityCall
  <2>2. calls = 0 /\ calls' = 1 /\ UNCHANGED <<canary, model, outputs, on_file, summary, canaries>>
    BY <1>1 DEF IdentityCall
  <2>. QED
    BY <2>1, <2>2, CanaryNumbers DEF Spend, CallsPerModel
<1>2. CASE RelayCall
  <2>1. PICK c \in CanaryCosts : Spend(c)
    BY <1>2 DEF RelayCall
  <2>2. /\ calls \in 1 .. RelayCalls /\ calls' = calls + 1
        /\ UNCHANGED <<canary, model, outputs, on_file, summary, canaries>>
    BY <1>2 DEF RelayCall
  <2>. QED
    BY <2>1, <2>2, CanaryNumbers DEF Spend, CallsPerModel
<1>3. CASE ReceiverCall
  <2>1. PICK c \in CanaryCosts, o \in Outputs : Spend(c) /\ outputs' = Append(outputs, o)
    BY <1>3 DEF ReceiverCall
  <2>2. /\ calls \in (RelayCalls + 1) .. (RelayCalls + ReceiverCalls) /\ calls' = calls + 1
        /\ UNCHANGED <<canary, model, on_file, summary, canaries>>
    BY <1>3 DEF ReceiverCall
  <2>3. outputs' \in Seq(Outputs) /\ Len(outputs') = Len(outputs) + 1
    BY <2>1
  <2>4. family' \in Nat /\ cumulative' \in Nat
    BY <2>1, CanaryNumbers DEF Spend
  <2>5. calls' \in 0 .. CallsPerModel /\ Len(outputs') <= ReceiverCalls /\ OutputsAreCounted'
    <3>. DEFINE n == Len(outputs)
    <3>1. /\ Len(outputs') = n + 1 /\ calls' = calls + 1
          /\ calls > RelayCalls /\ calls <= RelayCalls + ReceiverCalls
      BY <2>2, <2>3, CanaryNumbers
    <3>2. n = calls - 1 - RelayCalls
      BY <2>2, CanaryNumbers
    <3>. HIDE DEF n
    <3>3. Len(outputs') = calls - RelayCalls
      BY <2>2, <3>1, <3>2, CanaryNumbers
    <3>. QED
      BY <2>2, <3>1, <3>3, CanaryNumbers DEF CallsPerModel
  <2>. QED
    BY <2>2, <2>3, <2>4, <2>5
<1>4. CASE StopLoss \/ CallRaises \/ WriteSummary
  BY <1>4 DEF StopLoss, CallRaises, WriteSummary
<1>5. CASE ModelDone
  BY <1>5, CanaryNumbers DEF ModelDone, CallsPerModel
<1>6. CASE CanaryStart
  BY <1>6, CanaryNumbers DEF CanaryStart, CallsPerModel
<1>7. CASE UNCHANGED canaryVars
  BY <1>7 DEF canaryVars
<1>. QED
  BY <1>1, <1>2, <1>3, <1>4, <1>5, <1>6, <1>7 DEF CanaryNext

LEMMA CanaryBegins == ASSUME CanaryInit PROVE CanaryInv
<1>1. outputs = <<>> /\ calls = 0 /\ model = 1 /\ canaries = 1
  BY DEF CanaryInit
<1>. QED
  BY <1>1, CanaryNumbers DEF CanaryInit, CanaryInv, CanaryTypeOK, OutputsAreCounted, CallsPerModel
-----------------------------------------------------------------------------
(* Whichever of the two programs the operator runs, each keeps what it keeps *)
(* alone.  No theorem below needs the fairness of the specification.         *)
LEMMA EitherProgram ==
  ASSUME [ChecksNext]_checksVars
  PROVE  [AuditNext]_auditVars /\ [CanaryNext]_canaryVars
BY DEF ChecksNext, AuditTurn, CanaryTurn, checksVars

LEMMA ChecksInvariant == ChecksSpec => [](AuditInv /\ CanaryInv)
<1>1. ChecksInit => AuditInv /\ CanaryInv
  BY AuditBegins, CanaryBegins DEF ChecksInit
<1>2. AuditInv /\ CanaryInv /\ [ChecksNext]_checksVars => (AuditInv /\ CanaryInv)'
  BY EitherProgram, AuditStep, CanaryTypes
<1>. QED
  BY <1>1, <1>2, PTL DEF ChecksSpec

(* Every variable of both programs keeps its type: no process writes a file  *)
(* that is not in its list, and none fails an attempt too many.              *)
THEOREM ChecksTypes == ChecksSpec => []ChecksTypeOK
<1>1. AuditInv /\ CanaryInv => ChecksTypeOK
  BY DEF AuditInv, CanaryInv, ChecksTypeOK
<1>. QED
  BY <1>1, ChecksInvariant, PTL

(* A verdict that reaches a report is the preregistered rule's, for an audit *)
(* in which every input was answered every time: with the regime (D) only if *)
(* no two of its answers differ, and with the replication number that        *)
(* select_replication of providers/regime.py returns.                        *)
THEOREM VerdictIsTheRules == ChecksSpec => []VerdictFollowsRule
<1>1. AuditInv => VerdictFollowsRule
  BY JudgedByTheRule DEF VerdictFollowsRule
<1>. QED
  BY <1>1, ChecksInvariant, PTL

(* A selection on file never rests on older evidence, however processes are  *)
(* killed between or inside two files and whichever program runs next.       *)
THEOREM EvidenceFirst == ChecksSpec => []EvidencePrecedesDecision
<1>1. AuditInv => EvidencePrecedesDecision
  BY DEF AuditInv, EvidenceIsOnFile
<1>. QED
  BY <1>1, ChecksInvariant, PTL
=============================================================================
