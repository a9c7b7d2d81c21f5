------------------------- MODULE Stage1CallsProofs -------------------------
(***************************************************************************)
(* The runner's call pool is safe for any number of tasks, waves, threads, *)
(* attempts and restarts, whatever an answer costs.                        *)
(***************************************************************************)
EXTENDS Stage1Calls, FiniteSetTheorems, TLAPS

(* Adding to one entry of a function to Nat. *)
LEMMA AddAt ==
  ASSUME NEW S, NEW f \in [S -> Nat], NEW k, NEW c \in Nat
  PROVE  [f EXCEPT ![k] = @ + c] \in [S -> Nat]
<1>1. \A j \in S : (IF j = k THEN f[k] + c ELSE f[j]) \in Nat
  OBVIOUS
<1> QED
  BY <1>1

(* Resolving or retrying a task keeps the threads' variables in their types. *)
LEMMA WorkerTypeStep ==
  ASSUME WorkerTypes, NEW w \in Workers,
         Retry(w) \/ (\E o \in {"answered", "raised"} : Resolve(w, o))
  PROVE  WorkerTypes'
<1> USE CallsAssumption DEF CallsAssumption, WorkerTypes
<1>1. ASSUME NEW o \in {"answered", "raised"}, Resolve(w, o) PROVE WorkerTypes'
  <2>1. future' \in [Tasks -> {"none", "pending", "running", "answered", "raised"}]
    BY <1>1 DEF Resolve
  <2>2. attempt' \in [Workers -> 0 .. MaxAttempts] /\ cost' \in [Workers -> 0 .. MaxCost]
    BY <1>1 DEF Resolve, Forget
  <2> QED
    BY <1>1, <2>1, <2>2 DEF Resolve, Forget, Models
<1>2. CASE /\ attempt[w] < MaxAttempts
           /\ attempt' = [attempt EXCEPT ![w] = @ + 1]
           /\ pc' = [pc EXCEPT ![w] = "calling"]
           /\ Forget(w)
           /\ UNCHANGED <<job, future>>
  BY <1>2 DEF Forget, Models
<1> QED
  BY <1>1, <1>2 DEF Retry

(* Every step keeps every variable in its type. *)
LEMMA TypeStep == TypeOK /\ [Next]_vars => TypeOK'
<1> SUFFICES ASSUME TypeOK, [Next]_vars PROVE TypeOK'
  OBVIOUS
<1> USE CallsAssumption DEF CallsAssumption, TypeOK, Waves
<1>c. ASSUME UNCHANGED <<countVars, invoice>> PROVE CountTypes'
  BY <1>c DEF countVars, CountTypes
<1>w. ASSUME UNCHANGED <<future, workVars>> PROVE WorkerTypes'
  BY <1>w DEF workVars, answerVars, WorkerTypes
<1>1. ASSUME NEW w \in Workers, Take(w) PROVE TypeOK'
  <2>1. WorkerTypes'
    BY <1>1 DEF Take, WorkerTypes, answerVars
  <2> QED
    BY <1>1, <1>c, <2>1 DEF Take
<1>2. ASSUME NEW w \in Workers, CacheHit(w) PROVE TypeOK'
  <2>1. CountTypes'
    BY <1>2 DEF CacheHit, CountTypes
  <2> QED
    BY <1>2, WorkerTypeStep, <2>1 DEF CacheHit
<1>3. ASSUME NEW w \in Workers, CacheViolation(w) \/ CeilingReached(w) PROVE TypeOK'
  BY <1>3, <1>c, WorkerTypeStep DEF CacheViolation, CeilingReached
<1>4. ASSUME NEW w \in Workers, CacheMiss(w) \/ BelowCeiling(w) PROVE TypeOK'
  <2>1. WorkerTypes'
    BY <1>4 DEF CacheMiss, BelowCeiling, WorkerTypes, procVars, answerVars
  <2> QED
    BY <1>4, <1>c, <2>1 DEF CacheMiss, BelowCeiling, procVars
<1>5. ASSUME NEW w \in Workers, Generate(w) PROVE TypeOK'
  <2>1. WorkerTypes'
    BY <1>5 DEF Generate, WorkerTypes, procVars
  <2>2. CountTypes'
    BY <1>5 DEF Generate, CountTypes, countVars
  <2> QED
    BY <1>5, <2>1, <2>2 DEF Generate, procVars
<1>6. ASSUME NEW w \in Workers, GenerateFails(w) \/ PutRejects(w) \/ PutFails(w) PROVE TypeOK'
  BY <1>6, <1>c, WorkerTypeStep DEF GenerateFails, PutRejects, PutFails
<1>7. ASSUME NEW w \in Workers, PutOpens(w) \/ PutWrites(w) PROVE TypeOK'
  <2>1. cache' \in [Tasks -> {"absent", "torn"} \union Models]
    BY <1>7 DEF PutOpens, PutWrites, WorkerTypes
  <2>2. WorkerTypes'
    BY <1>7 DEF PutOpens, PutWrites, WorkerTypes, procVars, answerVars
  <2> QED
    BY <1>7, <1>c, <2>1, <2>2 DEF PutOpens, PutWrites, procVars
<1>8. ASSUME NEW w \in Workers, Account(w) PROVE TypeOK'
  <2>1. cost[w] \in Nat
    BY DEF WorkerTypes
  <2>2. [ledger EXCEPT ![WaveOf[job[w]]] = @ + cost[w]] \in [Waves -> Nat]
    BY <2>1, AddAt DEF CountTypes
  <2>3. CountTypes'
    <3>1. ledger' \in [Waves -> Nat]
      BY <1>8, <2>2 DEF Account
    <3>2. total_spend' \in Nat /\ calls_executed' \in Nat
      BY <1>8, <2>1 DEF Account, CountTypes
    <3>3. UNCHANGED <<cache_hits, mark, invoice>>
      BY <1>8 DEF Account
    <3> QED
      BY <3>1, <3>2, <3>3 DEF CountTypes
  <2> QED
    BY <1>8, WorkerTypeStep, <2>3 DEF Account
<1>9. ASSUME NEW t \in Tasks, Collect(t) \/ CollectRaises(t) PROVE TypeOK'
  BY <1>9, <1>c, <1>w DEF Collect, CollectRaises
<1>10. CASE Drained
  BY <1>10, <1>c, <1>w DEF Drained
<1>11. CASE EndWave
  <2>1. CountTypes'
    BY <1>11 DEF EndWave, CountTypes
  <2>2. Submitted(wave + 1) \in [Tasks -> {"none", "pending", "running", "answered", "raised"}]
    BY DEF Submitted, WorkerTypes
  <2>3. WorkerTypes'
    BY <1>11, <2>2 DEF EndWave, WorkerTypes, workVars, answerVars
  <2>4. wave' \in Waves
    BY <1>11 DEF EndWave
  <2> QED
    BY <1>11, <2>1, <2>3, <2>4 DEF EndWave
<1>12. CASE StopAndRepair
  <2>1. CountTypes'
    BY <1>12 DEF StopAndRepair, CountTypes
  <2> QED
    BY <1>12, <1>w, <2>1 DEF StopAndRepair
<1>13. CASE Crash
  <2>1. WorkerTypes'
    BY <1>13 DEF Crash, WorkerTypes, Models
  <2> QED
    BY <1>13, <1>c, <2>1 DEF Crash
<1>14. CASE Start
  <2>1. WorkerTypes'
    BY <1>14 DEF Start, WorkerTypes, workVars, answerVars
  <2>2. CountTypes'
    BY <1>14 DEF Start, CountTypes
  <2> QED
    BY <1>14, <2>1, <2>2 DEF Start
<1>15. CASE UNCHANGED vars
  BY <1>15, <1>c, <1>w DEF vars, procVars
<1> QED
  BY <1>1, <1>2, <1>3, <1>4, <1>5, <1>6, <1>7, <1>8, <1>9, <1>10, <1>11, <1>12, <1>13, <1>14,
     <1>15 DEF Next, MainStep, WorkerStep

(* Type correctness of the pool. *)
THEOREM TypeCorrect == Spec => []TypeOK
<1>1. Init => TypeOK
  BY CallsAssumption DEF CallsAssumption, Init, TypeOK, WorkerTypes, CountTypes, Waves, Models
<1> QED
  BY <1>1, TypeStep, PTL DEF Spec
-----------------------------------------------------------------------------
(* The reservation only has to be kept by the steps that move a thread in   *)
(* or out of Committed, and by those that change total_spend.               *)
LEMMA CommittedFacts ==
  /\ IsFiniteSet(Committed) /\ Cardinality(Committed) \in Nat
  /\ IsFiniteSet(Workers) /\ Cardinality(Workers) \in Nat
  /\ Cardinality(Committed) <= Cardinality(Workers)
<1>1. IsFiniteSet(Workers) /\ Committed \subseteq Workers
  BY CallsAssumption DEF CallsAssumption, Committed
<1> QED
  BY <1>1, FS_Subset, FS_CardinalityType

(* A step that commits nobody and spends nothing keeps the reservation. *)
LEMMA NobodyCommits ==
  ASSUME TypeOK, SpendReserved, total_spend' = total_spend, Committed' \subseteq Committed
  PROVE  SpendReserved'
<1>1. Cardinality(Committed') \in Nat /\ Cardinality(Committed') <= Cardinality(Committed)
  BY CommittedFacts, FS_Subset, FS_CardinalityType
<1>2. MaxCost * Cardinality(Committed') <= MaxCost * Cardinality(Committed)
  BY <1>1, CommittedFacts, CallsAssumption DEF CallsAssumption
<1> QED
  BY <1>1, <1>2, CommittedFacts, CallsAssumption
  DEF CallsAssumption, SpendReserved, TypeOK, CountTypes

(* The reservation is kept by every step. *)
LEMMA SpendStep == TypeOK /\ SpendReserved /\ [Next]_vars => SpendReserved'
<1> SUFFICES ASSUME TypeOK, SpendReserved, [Next]_vars PROVE SpendReserved'
  OBVIOUS
<1>a. pc \in [Workers -> {"idle", "lookup", "checking", "calling", "storing", "writing",
                         "accounting"}]
  BY DEF TypeOK, WorkerTypes
<1>b. MaxCost \in Nat /\ Ceiling \in Nat /\ total_spend \in Nat
  BY CallsAssumption DEF CallsAssumption, TypeOK, CountTypes
<1>1. ASSUME NEW w \in Workers, BelowCeiling(w) PROVE SpendReserved'
  <2>1. total_spend' <= Ceiling - 1 /\ total_spend' \in Nat
    BY <1>1, <1>b DEF BelowCeiling, countVars
  <2>2. Committed' \subseteq Workers
    BY DEF Committed
  <2>3. Cardinality(Committed') \in Nat /\ Cardinality(Committed') <= Cardinality(Workers)
    BY <2>2, CommittedFacts, FS_Subset, FS_CardinalityType
  <2>4. MaxCost * Cardinality(Committed') <= MaxCost * Cardinality(Workers)
    BY <2>3, <1>b, CommittedFacts
  <2> QED
    BY <2>1, <2>3, <2>4, <1>b, CommittedFacts DEF SpendReserved
<1>2. ASSUME NEW w \in Workers, Account(w) PROVE SpendReserved'
  <2>1. w \in Committed /\ Committed' = Committed \ {w}
    BY <1>2, <1>a DEF Account, Resolve, Committed
  <2>2. Cardinality(Committed') = Cardinality(Committed) - 1
    BY <2>1, CommittedFacts, FS_RemoveElement
  <2>3. total_spend' = total_spend + cost[w] /\ cost[w] \in 0 .. MaxCost
    BY <1>2 DEF Account, TypeOK, WorkerTypes
  <2>4. MaxCost * (Cardinality(Committed) - 1) = MaxCost * Cardinality(Committed) - MaxCost
    BY <1>b, CommittedFacts
  <2> QED
    BY <2>2, <2>3, <2>4, <1>b, CommittedFacts DEF SpendReserved
<1>3. ASSUME NEW w \in Workers,
             \/ CacheHit(w) \/ CacheViolation(w) \/ CeilingReached(w) \/ Take(w) \/ CacheMiss(w)
             \/ Generate(w) \/ PutOpens(w) \/ PutWrites(w)
      PROVE  SpendReserved'
  <2>1. total_spend' = total_spend
    BY <1>3 DEF CacheHit, CacheViolation, CeilingReached, Take, CacheMiss, Generate, PutOpens,
                PutWrites, countVars
  <2>2. Committed' \subseteq Committed
    BY <1>3, <1>a DEF CacheHit, CacheViolation, CeilingReached, Take, CacheMiss, Generate,
                      PutOpens, PutWrites, Resolve, Committed
  <2> QED
    BY <2>1, <2>2, NobodyCommits
<1>4. ASSUME NEW w \in Workers, GenerateFails(w) \/ PutRejects(w) \/ PutFails(w)
      PROVE  SpendReserved'
  <2>1. total_spend' = total_spend
    BY <1>4 DEF GenerateFails, PutRejects, PutFails, countVars
  <2>2. Committed' \subseteq Committed
    BY <1>4, <1>a DEF GenerateFails, PutRejects, PutFails, Retry, Resolve, Committed
  <2> QED
    BY <2>1, <2>2, NobodyCommits
<1>5. CASE MainStep
  <2>1. total_spend' = total_spend /\ pc' = pc
    BY <1>5 DEF MainStep, Collect, CollectRaises, Drained, EndWave, StopAndRepair, countVars,
                workVars
  <2> QED
    BY <2>1, NobodyCommits DEF Committed
<1>6. CASE Crash
  <2>1. total_spend' = total_spend /\ Committed' \subseteq Committed
    BY <1>6 DEF Crash, countVars, Committed
  <2> QED
    BY <2>1, NobodyCommits
<1>7. CASE Start
  <2>1. total_spend' = 0 /\ Committed' = Committed
    BY <1>7 DEF Start, workVars, Committed
  <2> QED
    BY <2>1, <1>b, CommittedFacts DEF SpendReserved
<1>8. CASE UNCHANGED vars
  BY <1>8, NobodyCommits DEF vars, workVars, countVars, Committed
<1> QED
  BY <1>1, <1>2, <1>3, <1>4, <1>5, <1>6, <1>7, <1>8 DEF Next, WorkerStep

(* However many threads race past the check, a process spends less than one *)
(* answer per thread beyond the ceiling.                                    *)
THEOREM Overshoot == Spec => []OvershootBounded
<1>1. Init => SpendReserved
  <2> SUFFICES ASSUME Init PROVE SpendReserved
    OBVIOUS
  <2>1. Committed = {} /\ total_spend = 0
    BY DEF Init, Committed
  <2>2. MaxCost * Cardinality(Workers) \in Nat /\ Ceiling - 1 \in Nat
    BY CommittedFacts, CallsAssumption DEF CallsAssumption
  <2> QED
    BY <2>1, <2>2, FS_EmptySet, CallsAssumption DEF CallsAssumption, SpendReserved
<1>2. TypeOK /\ SpendReserved => OvershootBounded
  <2>1. MaxCost * Cardinality(Committed) \in Nat /\ MaxCost * Cardinality(Workers) \in Nat
    BY CommittedFacts, CallsAssumption DEF CallsAssumption
  <2> QED
    BY <2>1, CallsAssumption DEF CallsAssumption, TypeOK, CountTypes, SpendReserved, OvershootBounded
<1> QED
  BY <1>1, <1>2, SpendStep, TypeCorrect, PTL DEF Spec
-----------------------------------------------------------------------------
(* The inductive invariant without the types. *)
Rest ==
  BusyWorkers /\ OneWorkerPerTask /\ FuturesFollowWaves /\ AnswersAreDurable /\ NoSecondPurchase

(* The rest of the inductive invariant is kept by every step. *)
LEMMA RestStep == IInv /\ [Next]_vars => Rest'
<1> SUFFICES ASSUME IInv, [Next]_vars PROVE Rest'
  OBVIOUS
<1>t. TypeOK'
  BY TypeStep DEF IInv
<1>n. NoTask \notin Tasks
  BY CallsAssumption DEF CallsAssumption
<1>v. \A t \in Tasks : WaveOf[t] \in 1 .. NumWaves
  BY CallsAssumption DEF CallsAssumption
<1> USE <1>t, <1>n DEF IInv, Rest, BusyWorkers, OneWorkerPerTask, FuturesFollowWaves, AnswersAreDurable,
                 NoSecondPurchase, TypeOK, WorkerTypes
<1>1. ASSUME NEW w \in Workers, Take(w) PROVE Rest'
  <2>1. PICK t \in Tasks : /\ future[t] = "pending"
                          /\ future' = [future EXCEPT ![t] = "running"]
                          /\ job' = [job EXCEPT ![w] = t]
    BY <1>1 DEF Take
  <2>2. WaveOf[t] = wave /\ main \in {"collecting", "draining"}
    BY <1>v, <2>1, SMTT(30) DEF Waves
  <2>3. \A v \in Workers : v # w => job'[v] = job[v] /\ pc'[v] = pc[v] /\ job[v] # t
    BY <1>1, <2>1 DEF Take
  <2>4. BusyWorkers'
    BY <1>1, <2>1, <2>2, <2>3 DEF Take, answerVars
  <2>5. OneWorkerPerTask' /\ NoSecondPurchase'
    BY <1>1, <2>1, <2>3 DEF Take
  <2>6. FuturesFollowWaves' /\ AnswersAreDurable'
    BY <1>1, <1>v, <2>1, <2>2 DEF Take, Waves
  <2> QED
    BY <2>4, <2>5, <2>6
<1>2. ASSUME NEW w \in Workers, CacheHit(w) PROVE Rest'
  BY <1>2 DEF CacheHit, Resolve, Forget
<1>3. ASSUME NEW w \in Workers, CacheViolation(w) PROVE Rest'
  BY <1>3 DEF CacheViolation, Resolve, Forget
<1>4. ASSUME NEW w \in Workers, CacheMiss(w) PROVE Rest'
  BY <1>4 DEF CacheMiss, procVars, answerVars
<1>5. ASSUME NEW w \in Workers, CeilingReached(w) PROVE Rest'
  BY <1>5 DEF CeilingReached, Resolve, Forget
<1>6. ASSUME NEW w \in Workers, BelowCeiling(w) PROVE Rest'
  BY <1>6 DEF BelowCeiling, procVars, answerVars
<1>7. ASSUME NEW w \in Workers, Generate(w) PROVE Rest'
  BY <1>7 DEF Generate, procVars
<1>8. ASSUME NEW w \in Workers, PutOpens(w) PROVE Rest'
  BY <1>8 DEF PutOpens, procVars, answerVars
<1>9. ASSUME NEW w \in Workers, PutWrites(w) PROVE Rest'
  BY <1>9 DEF PutWrites, procVars, answerVars
<1>10. ASSUME NEW w \in Workers, Account(w) PROVE Rest'
  BY <1>10 DEF Account, Resolve, Forget
<1>11. ASSUME NEW w \in Workers, GenerateFails(w) PROVE Rest'
  BY <1>11 DEF GenerateFails, Retry, Resolve, Forget
<1>12. ASSUME NEW w \in Workers, PutRejects(w) PROVE Rest'
  BY <1>12 DEF PutRejects, Retry, Resolve, Forget
<1>13. ASSUME NEW w \in Workers, PutFails(w) PROVE Rest'
  BY <1>13 DEF PutFails, Retry, Resolve, Forget
<1>14. ASSUME NEW t \in Tasks, Collect(t) \/ CollectRaises(t) PROVE Rest'
  BY <1>14 DEF Collect, CollectRaises, workVars, answerVars
<1>15. CASE Drained
  BY <1>15, <1>v DEF Waves, Drained, PoolQuiet, WaveTasks, Done, workVars, answerVars
<1>16. CASE EndWave
  <2>2. \A t \in Tasks : WaveOf[t] <= wave => future[t] = "answered"
    BY <1>16, <1>v DEF EndWave, WaveTasks, Waves
  <2>3. \A w \in Workers : pc[w] = "idle"
    BY <1>16, <2>2, <1>v DEF Waves
  <2>4. CASE wave < NumWaves /\ wave' = wave + 1 /\ future' = Submitted(wave + 1) /\ main' = main
    BY <1>16, <1>v, <2>2, <2>3, <2>4 DEF EndWave, Submitted, workVars, answerVars, Waves
  <2>5. CASE wave = NumWaves /\ main' = "finished" /\ UNCHANGED <<wave, future>>
    BY <1>16, <1>v, <2>2, <2>3, <2>5 DEF EndWave, workVars, answerVars, Waves
  <2> QED
    BY <1>16, <2>4, <2>5 DEF EndWave
<1>17. CASE StopAndRepair
  BY <1>17, <1>v DEF Waves, StopAndRepair, WaveTasks, workVars, answerVars
<1>18. CASE Crash
  BY <1>18 DEF Crash
<1>19. CASE Start
  BY <1>19, <1>v DEF Start, workVars, answerVars
<1>20. CASE UNCHANGED vars
  BY <1>20 DEF vars, procVars, workVars, answerVars
<1> QED
  BY <1>1, <1>2, <1>3, <1>4, <1>5, <1>6, <1>7, <1>8, <1>9, <1>10, <1>11, <1>12,
     <1>13, <1>14, <1>15, <1>16, <1>17, <1>18, <1>19, <1>20 DEF Next, MainStep, WorkerStep
(* The inductive invariant holds: no thread holds another's task, futures   *)
(* follow the waves, and no result lacks its file.                          *)
THEOREM Invariance == Spec => []IInv
<1>1. Init => IInv
  <2> SUFFICES ASSUME Init PROVE IInv
    OBVIOUS
  <2>1. TypeOK
    BY CallsAssumption DEF CallsAssumption, Init, TypeOK, WorkerTypes, CountTypes, Waves, Models
  <2>2. \A t \in Tasks : WaveOf[t] \in 1 .. NumWaves
    BY CallsAssumption DEF CallsAssumption
  <2> QED
    BY <2>1, <2>2 DEF Init, IInv, BusyWorkers, OneWorkerPerTask, FuturesFollowWaves,
                      AnswersAreDurable, NoSecondPurchase
<1>2. IInv /\ [Next]_vars => IInv'
  BY RestStep, TypeStep DEF IInv, Rest
<1> QED
  BY <1>1, <1>2, PTL DEF Spec

(* Every result a run uses is on disk, whole, from the pinned model. *)
THEOREM Durable == Spec => []AnswersAreDurable
<1>1. IInv => AnswersAreDurable
  BY DEF IInv
<1> QED
  BY <1>1, Invariance, PTL

(* No answer on disk is paid for again, across any crashes and restarts. *)
THEOREM PaidOnce == Spec => []NoSecondPurchase
<1>1. IInv => NoSecondPurchase
  BY DEF IInv
<1> QED
  BY <1>1, Invariance, PTL

(* The waves of the run never overlap. *)
THEOREM Barrier == Spec => []WaveBarrier
<1>1. IInv => WaveBarrier
  BY DEF IInv, BusyWorkers, WaveBarrier
<1> QED
  BY <1>1, Invariance, PTL
-----------------------------------------------------------------------------
(* Steps that read neither the counters nor the wave keep the breakdown. *)
LEMMA BreakdownStep ==
  IInv /\ BreakdownMatchesLedger /\ [Next]_vars => BreakdownMatchesLedger'
<1> SUFFICES ASSUME IInv, BreakdownMatchesLedger, [Next]_vars PROVE BreakdownMatchesLedger'
  OBVIOUS
<1>n. /\ NumWaves \in Nat \ {0} /\ wave \in 1 .. NumWaves /\ Waves = 1 .. NumWaves
      /\ ledger \in [Waves -> Nat] /\ mark \in [0 .. NumWaves -> Nat] /\ total_spend \in Nat
  BY CallsAssumption DEF CallsAssumption, IInv, TypeOK, CountTypes, Waves
<1>1. ASSUME UNCHANGED <<wave, total_spend, ledger, mark>>,
             main' = main \/ main' \in {"draining", "failed", "crashed"},
             main' = "draining" => main \in {"collecting", "draining"}
      PROVE  BreakdownMatchesLedger'
  BY <1>1 DEF BreakdownMatchesLedger
<1>2. ASSUME NEW w \in Workers, Account(w) PROVE BreakdownMatchesLedger'
  <2>1. WaveOf[job[w]] = wave /\ main \in {"collecting", "draining"} /\ cost[w] \in Nat
    BY <1>2, CallsAssumption
    DEF CallsAssumption, Account, IInv, BusyWorkers, TypeOK, WorkerTypes
  <2>2. /\ total_spend' = total_spend + cost[w] /\ UNCHANGED <<wave, mark, main>>
        /\ ledger' = [ledger EXCEPT ![wave] = @ + cost[w]]
    BY <1>2, <2>1 DEF Account
  <2>3. ledger'[wave] = ledger[wave] + cost[w] /\ ledger[wave] = total_spend - mark[wave - 1]
    BY <1>n, <2>1, <2>2 DEF BreakdownMatchesLedger
  <2>4. \A k \in Waves : k # wave => ledger'[k] = ledger[k]
    BY <1>n, <2>2
  <2>5. main' = main /\ wave' = wave /\ mark' = mark /\ mark[wave - 1] \in Nat
    BY <1>n, <2>2
  <2>6. ledger'[wave] = total_spend' - mark'[wave - 1]
    BY <1>n, <2>1, <2>2, <2>3, <2>5
  <2>7. ASSUME NEW k \in Waves, k < wave PROVE ledger'[k] = mark'[k] - mark'[k - 1]
    <3>1. ledger'[k] = ledger[k]
      BY <1>n, <2>4, <2>7
    <3>2. ledger[k] = mark[k] - mark[k - 1]
      BY <2>1, <2>7 DEF BreakdownMatchesLedger
    <3> QED BY <2>5, <3>1, <3>2
  <2>8. ASSUME NEW k \in Waves, k > wave PROVE ledger'[k] = 0
    <3>1. ledger'[k] = ledger[k]
      BY <1>n, <2>4, <2>8
    <3>2. ledger[k] = 0
      BY <2>1, <2>8 DEF BreakdownMatchesLedger
    <3> QED BY <3>1, <3>2
  <2> QED
    BY <1>n, <2>1, <2>5, <2>6, <2>7, <2>8 DEF BreakdownMatchesLedger
<1>3. ASSUME NEW w \in Workers, WorkerStep(w), ~Account(w) PROVE BreakdownMatchesLedger'
  <2>1. UNCHANGED <<main, wave, total_spend, ledger, mark>>
    BY <1>3 DEF WorkerStep, Take, CacheHit, CacheViolation, CacheMiss, CeilingReached,
                BelowCeiling, Generate, GenerateFails, PutRejects, PutOpens, PutWrites, PutFails,
                procVars, countVars
  <2> QED
    BY <1>1, <2>1
<1>4. CASE EndWave
  <2>1. main = "collecting" /\ mark' = [mark EXCEPT ![wave] = total_spend]
        /\ UNCHANGED <<total_spend, ledger>>
    BY <1>4 DEF EndWave
  <2>2. CASE wave < NumWaves /\ wave' = wave + 1 /\ main' = main
    BY <1>n, <2>1, <2>2 DEF BreakdownMatchesLedger
  <2>3. CASE wave = NumWaves /\ main' = "finished" /\ wave' = wave
    BY <1>n, <2>1, <2>3 DEF BreakdownMatchesLedger
  <2> QED
    BY <1>4, <2>2, <2>3 DEF EndWave
<1>5. CASE StopAndRepair
  BY <1>5 DEF StopAndRepair, BreakdownMatchesLedger
<1>6. CASE Start
  BY <1>6, <1>n DEF Start, BreakdownMatchesLedger
<1>7. ASSUME \/ \E t \in Tasks : Collect(t) \/ CollectRaises(t)
             \/ Drained \/ Crash \/ UNCHANGED vars
      PROVE  BreakdownMatchesLedger'
  BY <1>1, <1>7 DEF Collect, CollectRaises, Drained, Crash, vars, procVars, countVars
<1> QED
  BY <1>2, <1>3, <1>4, <1>5, <1>6, <1>7 DEF Next, MainStep

(* The reported spend breakdown agrees with the ledger of each stage. *)
THEOREM Breakdown == Spec => []BreakdownMatchesLedger
<1>1. Init => BreakdownMatchesLedger
  BY CallsAssumption DEF CallsAssumption, Init, BreakdownMatchesLedger, Waves
<1> QED
  BY <1>1, BreakdownStep, Invariance, PTL DEF Spec
-----------------------------------------------------------------------------
(* Every step of the pool is a step of the answer store or leaves it alone. *)
LEMMA StoreStep == IInv /\ [Next]_vars => [Store!Next]_(Store!vars)
<1> SUFFICES ASSUME IInv, [Next]_vars PROVE [Store!Next]_(Store!vars)
  OBVIOUS
<1> DEFINE stored == {t \in Tasks : cache[t] = "pinned"}
           live(m) == m \in {"collecting", "draining"}
<1>1. ASSUME cache' = cache, main' = main \/ (live(main) /\ live(main'))
      PROVE  UNCHANGED Store!vars
  BY <1>1 DEF Store!vars
<1>2. ASSUME NEW w \in Workers, PutOpens(w) PROVE UNCHANGED Store!vars
  <2>1. {t \in Tasks : cache'[t] = "pinned"} = stored /\ main' = main
    BY <1>2 DEF PutOpens, IInv, TypeOK, NoSecondPurchase, procVars
  <2> QED
    BY <2>1 DEF Store!vars
<1>3. ASSUME NEW w \in Workers, PutWrites(w) PROVE Store!Next
  <2>1. job[w] \in Tasks /\ live(main) /\ main' = main /\ returned_model[w] = "pinned"
    BY <1>3 DEF PutWrites, IInv, BusyWorkers, TypeOK, WorkerTypes, procVars
  <2>2. {t \in Tasks : cache'[t] = "pinned"} = stored \union {job[w]}
    BY <1>3, <2>1 DEF PutWrites, IInv, TypeOK
  <2> QED
    BY <2>1, <2>2 DEF Store!Next, Store!Store
<1>4. ASSUME NEW w \in Workers, WorkerStep(w), ~PutOpens(w), ~PutWrites(w)
      PROVE  UNCHANGED Store!vars
  BY <1>1, <1>4
  DEF WorkerStep, Take, CacheHit, CacheViolation, CacheMiss, CeilingReached, BelowCeiling,
      Generate, GenerateFails, PutRejects, PutFails, Account, procVars
<1>5. CASE EndWave
  <2>1. cache' = cache /\ main = "collecting"
    BY <1>5 DEF EndWave
  <2>2. CASE main' = main
    BY <1>1, <2>1, <2>2
  <2>3. CASE wave = NumWaves /\ main' = "finished"
    <3>1. \A t \in Tasks : future[t] = "answered"
      BY <1>5, <2>1, <2>3, CallsAssumption
      DEF CallsAssumption, EndWave, WaveTasks, IInv, FuturesFollowWaves
    <3>2. stored = Tasks
      BY <3>1 DEF IInv, AnswersAreDurable
    <3> QED
      BY <2>1, <2>3, <3>2 DEF Store!Next, Store!Complete
  <2> QED
    BY <1>5, <2>2, <2>3 DEF EndWave
<1>6. CASE Drained \/ StopAndRepair \/ Crash
  BY <1>6 DEF Drained, StopAndRepair, Crash, Store!Next, Store!Stop
<1>7. CASE Start
  BY <1>7 DEF Start, Store!Next, Store!Resume
<1>8. ASSUME NEW t \in Tasks, Collect(t) \/ CollectRaises(t) PROVE UNCHANGED Store!vars
  BY <1>1, <1>8 DEF Collect, CollectRaises
<1>9. CASE UNCHANGED vars
  BY <1>1, <1>9 DEF vars, procVars
<1> QED
  BY <1>2, <1>3, <1>4, <1>5, <1>6, <1>7, <1>8, <1>9 DEF Next, MainStep

(* The runner is a resumable answer store. *)
THEOREM Refinement == Spec => ImplementsStore
<1>1. Init => Store!Init
  BY DEF Init, Store!Init
<1> QED
  BY <1>1, StoreStep, Invariance, PTL DEF Spec, ImplementsStore, Store!Spec
=============================================================================
