---------------------------- MODULE Stage1Calls ----------------------------
(***************************************************************************)
(* The provider calls of the Stage-1 runner, scripts/run_stage1.py.        *)
(*                                                                         *)
(* main() submits the relay, receiver and prior-probe tasks in three waves *)
(* to a thread pool; every task runs call_model_with_cache, which looks    *)
(* its key up in a directory of JSON files, checks the spend ceiling,      *)
(* calls the provider up to five times, writes the file and adds the cost  *)
(* to shared counters.  No lock is taken: under the interpreter the        *)
(* project pins (CPython 3.12) a thread can be pre-empted after any call   *)
(* but not inside `total_spend += cost; calls_executed += 1`, so each      *)
(* stretch between two calls is one action here.  A crash loses everything *)
(* but the files, and the operator may start the runner again.             *)
(*                                                                         *)
(* What an answer says is left out: the model keeps which model produced   *)
(* it and what it cost.                                                    *)
(***************************************************************************)
EXTENDS Integers, FiniteSets

CONSTANTS
  Tasks,        (* every task of the three waves; one cache key each         *)
  NumWaves,     (* relay, receiver, prior probes                             *)
  WaveOf,       (* the wave that submits a task                              *)
  Workers,      (* the threads of the pool, --max-workers                    *)
  Costs,        (* what one answer may cost, in units of the ceiling         *)
  MaxCost,      (* the largest of them                                       *)
  Ceiling,      (* RESTARTED_STAGE1_INCREMENTAL_CEILING_USD                  *)
  MaxAttempts,  (* range(5)                                                  *)
  Leftover,     (* keys under which another model's run may have left a file *)
  MaxRuns,      (* bound: how often the operator starts the runner           *)
  NoTask

ASSUME CallsAssumption ==
  /\ IsFiniteSet(Tasks) /\ NoTask \notin Tasks
  /\ NumWaves \in Nat \ {0}
  /\ WaveOf \in [Tasks -> 1 .. NumWaves]
  /\ IsFiniteSet(Workers) /\ Workers # {}
  /\ Costs \subseteq 0 .. MaxCost /\ MaxCost \in Nat
  /\ Ceiling \in Nat \ {0}
  /\ MaxAttempts \in Nat \ {0}
  /\ Leftover \subseteq Tasks
  /\ MaxRuns \in Nat \ {0}

VARIABLES
  main,           (* what the main thread does, or how the process ended      *)
  wave,           (* the wave whose pool is open                              *)
  future,         (* per task: its future in the pool of this process         *)
  collected,      (* tasks whose result as_completed has handed to main       *)
  pc,             (* per worker: the next call it makes                       *)
  job,            (* per worker: its task                                     *)
  attempt,        (* per worker: the attempt it is on                         *)
  cost,           (* per worker: what the answer it holds cost                *)
  returned_model, (* per worker: which model produced that answer             *)
  cache,          (* per task: the file of its key                            *)
  total_spend,    (* nonlocal counters of main()                              *)
  calls_executed,
  cache_hits,
  ledger,         (* cost of the ledger records, per stage label              *)
  mark,           (* total_spend when a wave ended; mark[0] = 0               *)
  invoice,        (* observer: what the provider billed this process          *)
  runs            (* observer: processes started so far                       *)

procVars  == <<main, wave, future, collected>>
answerVars == <<cost, returned_model>>
workVars  == <<pc, job, attempt, answerVars>>
countVars == <<total_spend, calls_executed, cache_hits, ledger, mark>>
vars == <<procVars, workVars, cache, countVars, invoice, runs>>

Waves == 1 .. NumWaves

(* Pinned: returned_model contains PINNED_MODEL; Foreign: it does not.     *)
Models == {"pinned", "foreign"}
WaveTasks(k) == {t \in Tasks : WaveOf[t] = k}

(* executor.submit for every task of wave k *)
Submitted(k) == [t \in Tasks |-> IF WaveOf[t] = k THEN "pending" ELSE future[t]]

Done(t) == future[t] \in {"answered", "raised"}

(* Past the ceiling check, cost not yet in total_spend. *)
Committed == {w \in Workers : pc[w] \in {"calling", "storing", "writing", "accounting"}}
-----------------------------------------------------------------------------
Init ==
  /\ main = "collecting" /\ wave = 1
  /\ future = [t \in Tasks |-> IF WaveOf[t] = 1 THEN "pending" ELSE "none"]
  /\ collected = {}
  /\ pc = [w \in Workers |-> "idle"]
  /\ job = [w \in Workers |-> NoTask]
  /\ attempt = [w \in Workers |-> 0]
  /\ cost = [w \in Workers |-> 0]
  /\ returned_model = [w \in Workers |-> "pinned"]
  /\ \E L \in SUBSET Leftover :
       cache = [t \in Tasks |-> IF t \in L THEN "foreign" ELSE "absent"]
  /\ total_spend = 0 /\ calls_executed = 0 /\ cache_hits = 0
  /\ ledger = [k \in Waves |-> 0]
  /\ mark = [k \in 0 .. NumWaves |-> 0]
  /\ invoice = 0
  /\ runs = 1
-----------------------------------------------------------------------------
(* The answer a worker holds goes out of scope. *)
Forget(w) ==
  /\ cost' = [cost EXCEPT ![w] = 0]
  /\ returned_model' = [returned_model EXCEPT ![w] = "pinned"]

(* The worker's task ends with outcome o and the thread returns to the pool. *)
Resolve(w, o) ==
  /\ future' = [future EXCEPT ![job[w]] = o]
  /\ pc' = [pc EXCEPT ![w] = "idle"]
  /\ job' = [job EXCEPT ![w] = NoTask]
  /\ attempt' = [attempt EXCEPT ![w] = 0]
  /\ Forget(w)

(* except Exception: last_err = e; the next attempt, or raise after the last. *)
Retry(w) ==
  \/ /\ attempt[w] < MaxAttempts
     /\ attempt' = [attempt EXCEPT ![w] = @ + 1]
     /\ pc' = [pc EXCEPT ![w] = "calling"]
     /\ Forget(w)
     /\ UNCHANGED <<job, future>>
  \/ /\ attempt[w] = MaxAttempts
     /\ Resolve(w, "raised")

Take(w) ==
  /\ pc[w] = "idle"
  /\ \E t \in Tasks :
       /\ future[t] = "pending"
       /\ future' = [future EXCEPT ![t] = "running"]
       /\ job' = [job EXCEPT ![w] = t]
  /\ pc' = [pc EXCEPT ![w] = "lookup"]
  /\ UNCHANGED <<main, wave, collected, attempt, answerVars, cache, countVars, invoice, runs>>

(* Mutant: get does not look at returned_model. *)
CacheHitAnyModel(w) ==
  /\ pc[w] = "lookup"
  /\ cache[job[w]] \in Models
  /\ cache_hits' = cache_hits + 1
  /\ Resolve(w, "answered")
  /\ UNCHANGED <<main, wave, collected, cache, total_spend, calls_executed, ledger, mark,
                 invoice, runs>>

(* cached = cache.get(key): a usable file answers the task. *)
CacheHit(w) ==
  /\ pc[w] = "lookup"
  /\ cache[job[w]] = "pinned"
  /\ cache_hits' = cache_hits + 1
  /\ Resolve(w, "answered")
  /\ UNCHANGED <<main, wave, collected, cache, total_spend, calls_executed, ledger, mark,
                 invoice, runs>>

(* cache.get raises MIXED_MODEL_CACHE_VIOLATION outside the retry loop. *)
CacheViolation(w) ==
  /\ pc[w] = "lookup"
  /\ cache[job[w]] = "foreign"
  /\ Resolve(w, "raised")
  /\ UNCHANGED <<main, wave, collected, cache, countVars, invoice, runs>>

(* Mutant: the file is not read back, every key is called for. *)
CacheMissAlways(w) ==
  /\ pc[w] = "lookup"
  /\ pc' = [pc EXCEPT ![w] = "checking"]
  /\ UNCHANGED <<procVars, job, attempt, answerVars, cache, countVars, invoice, runs>>

(* No file, or one that does not parse: get returns None. *)
CacheMiss(w) ==
  /\ pc[w] = "lookup"
  /\ cache[job[w]] \in {"absent", "torn"}
  /\ pc' = [pc EXCEPT ![w] = "checking"]
  /\ UNCHANGED <<procVars, job, attempt, answerVars, cache, countVars, invoice, runs>>

(* Mutant: a thread at the ceiling waits for headroom instead of raising. *)
CeilingWaits(w) ==
  /\ pc[w] = "checking"
  /\ total_spend >= Ceiling
  /\ UNCHANGED vars

(* COST_AUTHORIZATION_REQUIRED *)
CeilingReached(w) ==
  /\ pc[w] = "checking"
  /\ total_spend >= Ceiling
  /\ Resolve(w, "raised")
  /\ UNCHANGED <<main, wave, collected, cache, countVars, invoice, runs>>

(* Mutant: the ceiling is only checked after the call. *)
BelowCeilingUnchecked(w) ==
  /\ pc[w] = "checking"
  /\ pc' = [pc EXCEPT ![w] = "calling"]
  /\ attempt' = [attempt EXCEPT ![w] = 1]
  /\ UNCHANGED <<procVars, job, answerVars, cache, countVars, invoice, runs>>

BelowCeiling(w) ==
  /\ pc[w] = "checking"
  /\ total_spend < Ceiling
  /\ pc' = [pc EXCEPT ![w] = "calling"]
  /\ attempt' = [attempt EXCEPT ![w] = 1]
  /\ UNCHANGED <<procVars, job, answerVars, cache, countVars, invoice, runs>>

(* adapter.generate returns; the provider bills whatever model it used. *)
Generate(w) ==
  /\ pc[w] = "calling"
  /\ \E c \in Costs, m \in Models :
       /\ cost' = [cost EXCEPT ![w] = c]
       /\ returned_model' = [returned_model EXCEPT ![w] = m]
       /\ invoice' = invoice + c
  /\ pc' = [pc EXCEPT ![w] = "storing"]
  /\ UNCHANGED <<procVars, job, attempt, cache, countVars, runs>>

GenerateFails(w) ==
  /\ pc[w] = "calling"
  /\ Retry(w)
  /\ UNCHANGED <<main, wave, collected, cache, countVars, invoice, runs>>

(* cache.put raises MIXED_MODEL_CACHE_VIOLATION inside the retry loop. *)
PutRejects(w) ==
  /\ pc[w] = "storing"
  /\ returned_model[w] = "foreign"
  /\ Retry(w)
  /\ UNCHANGED <<main, wave, collected, cache, countVars, invoice, runs>>

(* write_text opens the file for writing, which empties it ... *)
PutOpens(w) ==
  /\ pc[w] = "storing"
  /\ returned_model[w] = "pinned"
  /\ cache' = [cache EXCEPT ![job[w]] = "torn"]
  /\ pc' = [pc EXCEPT ![w] = "writing"]
  /\ UNCHANGED <<procVars, job, attempt, answerVars, countVars, invoice, runs>>

(* ... and then writes the record, of the model the answer names. *)
PutWrites(w) ==
  /\ pc[w] = "writing"
  /\ cache' = [cache EXCEPT ![job[w]] = returned_model[w]]
  /\ pc' = [pc EXCEPT ![w] = "accounting"]
  /\ UNCHANGED <<procVars, job, attempt, answerVars, countVars, invoice, runs>>

(* The write fails (a full disk): the answer is lost and called for again. *)
PutFails(w) ==
  /\ pc[w] = "writing"
  /\ Retry(w)
  /\ UNCHANGED <<main, wave, collected, cache, countVars, invoice, runs>>

(* total_spend += cost; calls_executed += 1; ledger.append(record); return *)
Account(w) ==
  /\ pc[w] = "accounting"
  /\ total_spend' = total_spend + cost[w]
  /\ calls_executed' = calls_executed + 1
  /\ ledger' = [ledger EXCEPT ![WaveOf[job[w]]] = @ + cost[w]]
  /\ Resolve(w, "answered")
  /\ UNCHANGED <<main, wave, collected, cache, cache_hits, mark, invoice, runs>>
-----------------------------------------------------------------------------
(* fut.result() of a task that was answered *)
Collect(t) ==
  /\ main = "collecting"
  /\ future[t] = "answered" /\ t \notin collected
  /\ collected' = collected \union {t}
  /\ UNCHANGED <<main, wave, future, workVars, cache, countVars, invoice, runs>>

(* fut.result() raises: the with block shuts the pool down with wait=True and *)
(* without cancelling, so what is queued still runs.                          *)
CollectRaises(t) ==
  /\ main = "collecting"
  /\ future[t] = "raised"
  /\ main' = "draining"
  /\ UNCHANGED <<wave, future, collected, workVars, cache, countVars, invoice, runs>>

PoolQuiet == \A t \in WaveTasks(wave) : Done(t)

Drained ==
  /\ main = "draining" /\ PoolQuiet
  /\ main' = "failed"
  /\ UNCHANGED <<wave, future, collected, workVars, cache, countVars, invoice, runs>>

(* Mutant: the next pool opens without the shutdown(wait=True) of this one. *)
EndWaveEarly ==
  /\ main = "collecting"
  /\ mark' = [mark EXCEPT ![wave] = total_spend]
  /\ \/ /\ wave < NumWaves
        /\ wave' = wave + 1
        /\ future' = Submitted(wave + 1)
        /\ main' = main
     \/ /\ wave = NumWaves
        /\ main' = "finished"
        /\ UNCHANGED <<wave, future>>
  /\ UNCHANGED <<collected, workVars, cache, total_spend, calls_executed, cache_hits, ledger,
                 invoice, runs>>

(* Every result is in: the wave's spend is read and the next pool opened. *)
EndWave ==
  /\ main = "collecting" /\ WaveTasks(wave) \subseteq collected
  /\ mark' = [mark EXCEPT ![wave] = total_spend]
  /\ \/ /\ wave < NumWaves
        /\ wave' = wave + 1
        /\ future' = Submitted(wave + 1)
        /\ main' = main
     \/ /\ wave = NumWaves
        /\ main' = "finished"
        /\ UNCHANGED <<wave, future>>
  /\ UNCHANGED <<collected, workVars, cache, total_spend, calls_executed, cache_hits, ledger,
                 invoice, runs>>

(* The intervention-validity assertions after the relay wave. *)
StopAndRepair ==
  /\ main = "collecting" /\ wave = 1 /\ WaveTasks(1) \subseteq collected
  /\ mark' = [mark EXCEPT ![1] = total_spend]
  /\ main' = "failed"
  /\ UNCHANGED <<wave, future, collected, workVars, cache, total_spend, calls_executed,
                 cache_hits, ledger, invoice, runs>>

(* The process dies, pool and results with it; the files stay, an emptied one *)
(* empty.                                                                     *)
Crash ==
  /\ main \in {"collecting", "draining"}
  /\ main' = "crashed"
  /\ future' = [t \in Tasks |-> "none"]
  /\ collected' = {}
  /\ pc' = [w \in Workers |-> "idle"]
  /\ job' = [w \in Workers |-> NoTask]
  /\ attempt' = [w \in Workers |-> 0]
  /\ cost' = [w \in Workers |-> 0]
  /\ returned_model' = [w \in Workers |-> "pinned"]
  /\ UNCHANGED <<wave, cache, countVars, invoice, runs>>

(* The operator starts the runner: counters at zero, the first wave submitted. *)
Start ==
  /\ main \in {"finished", "failed", "crashed"} /\ runs < MaxRuns
  /\ runs' = runs + 1
  /\ main' = "collecting" /\ wave' = 1 /\ collected' = {}
  /\ future' = [t \in Tasks |-> IF WaveOf[t] = 1 THEN "pending" ELSE "none"]
  /\ total_spend' = 0 /\ calls_executed' = 0 /\ cache_hits' = 0
  /\ ledger' = [k \in Waves |-> 0]
  /\ mark' = [k \in 0 .. NumWaves |-> 0]
  /\ invoice' = 0
  /\ UNCHANGED <<workVars, cache>>
-----------------------------------------------------------------------------
WorkerStep(w) ==
  \/ Take(w) \/ CacheHit(w) \/ CacheViolation(w) \/ CacheMiss(w)
  \/ CeilingReached(w) \/ BelowCeiling(w)
  \/ Generate(w) \/ GenerateFails(w)
  \/ PutRejects(w) \/ PutOpens(w) \/ PutWrites(w) \/ PutFails(w)
  \/ Account(w)

MainStep ==
  \/ \E t \in Tasks : Collect(t) \/ CollectRaises(t)
  \/ Drained \/ EndWave \/ StopAndRepair

Next == MainStep \/ Crash \/ Start \/ \E w \in Workers : WorkerStep(w)

Spec == Init /\ [][Next]_vars

(* A thread of a live pool is scheduled, a provider call ends, in an answer *)
(* or a client error; crashes and restarts are owed by nobody.              *)
Fairness == WF_vars(MainStep) /\ \A w \in Workers : WF_vars(WorkerStep(w))

FairSpec == Spec /\ Fairness
-----------------------------------------------------------------------------
WorkerTypes ==
  /\ future \in [Tasks -> {"none", "pending", "running", "answered", "raised"}]
  /\ pc \in [Workers -> {"idle", "lookup", "checking", "calling", "storing", "writing",
                         "accounting"}]
  /\ job \in [Workers -> Tasks \union {NoTask}]
  /\ attempt \in [Workers -> 0 .. MaxAttempts]
  /\ cost \in [Workers -> 0 .. MaxCost]
  /\ returned_model \in [Workers -> Models]

CountTypes ==
  /\ total_spend \in Nat /\ calls_executed \in Nat /\ cache_hits \in Nat
  /\ ledger \in [Waves -> Nat]
  /\ mark \in [0 .. NumWaves -> Nat]
  /\ invoice \in Nat

(* Every variable keeps its type. *)
TypeOK ==
  /\ WorkerTypes
  /\ CountTypes
  /\ main \in {"collecting", "draining", "finished", "failed", "crashed"}
  /\ wave \in Waves
  /\ collected \subseteq Tasks
  /\ cache \in [Tasks -> {"absent", "torn"} \union Models]
  /\ runs \in 1 .. MaxRuns

(* The ceiling is checked before a call and the cost added after it, by     *)
(* threads that do not exclude each other: what a process has spent can     *)
(* pass the ceiling, by less than one answer of every thread.               *)
OvershootBounded == total_spend <= Ceiling - 1 + MaxCost * Cardinality(Workers)

(* A task whose usable answer is on disk is never sent to the provider, by  *)
(* this process or by one started after a crash.                            *)
NoSecondPurchase ==
  \A w \in Workers : pc[w] \in {"checking", "calling", "storing", "writing"}
                        => cache[job[w]] # "pinned"

(* A result the run uses is on disk, whole, and from the pinned model: what *)
(* a restart replays is what was analysed.                                  *)
AnswersAreDurable == \A t \in Tasks : future[t] = "answered" => cache[t] = "pinned"

(* A file another model's run left under a key is never overwritten, however *)
(* often the runner is started: it fails closed and the file stays.          *)
QuarantineKept ==
  [][\A t \in Tasks : cache[t] = "foreign" => cache'[t] = "foreign"]_vars

(* No thread works on a wave whose pool is closed or not yet open, so the   *)
(* receiver wave starts on a complete relay wave.                           *)
WaveBarrier ==
  \A w \in Workers : pc[w] # "idle" => WaveOf[job[w]] = wave /\ future[job[w]] = "running"

(* The spend breakdown, taken as differences of one running total, agrees   *)
(* with the ledger records of each stage, in every wave that has ended and  *)
(* in the one that is open.                                                 *)
BreakdownMatchesLedger ==
  main \in {"collecting", "draining", "finished"} =>
    \A k \in Waves :
      /\ k < wave \/ main = "finished" => ledger[k] = mark[k] - mark[k - 1]
      /\ k = wave /\ main # "finished" => ledger[k] = total_spend - mark[k - 1]
      /\ k > wave => ledger[k] = 0

(* A finished run has counted every task once, as a call or as a cache hit. *)
CallsReconcile == main = "finished" => calls_executed + cache_hits = Cardinality(Tasks)

(* Whatever fails, the process ends: nobody waits for a future that no      *)
(* thread will resolve.                                                     *)
EveryRunEnds ==
  main \in {"collecting", "draining"} ~> main \in {"finished", "failed", "crashed"}

(* The runner implements the resumable store: the usable files are the      *)
(* store, and only a process that finishes claims it is complete.           *)
Store == INSTANCE AnswerStore WITH
  stored <- {t \in Tasks : cache[t] = "pinned"},
  status <- CASE main \in {"collecting", "draining"} -> "running"
              [] main = "finished" -> "complete"
              [] OTHER -> "stopped"
ImplementsStore == Store!Spec

(* run_stage1.py:17 promises "Full cost reconciliation and artifact export":*)
(* the spend a finished run reports is what the provider billed it.         *)
FullCostReconciliation == main = "finished" => total_spend = invoice
-----------------------------------------------------------------------------
(* What the proofs need beside the properties above. *)
BusyWorkers ==
  \A w \in Workers :
    /\ pc[w] = "idle" <=> job[w] = NoTask
    /\ pc[w] # "idle" => /\ main \in {"collecting", "draining"}
                         /\ future[job[w]] = "running" /\ WaveOf[job[w]] = wave
    /\ pc[w] \in {"writing", "accounting"} => returned_model[w] = "pinned"
    /\ pc[w] = "accounting" => cache[job[w]] = "pinned"

OneWorkerPerTask ==
  \A v, w \in Workers : v # w /\ pc[v] # "idle" => job[v] # job[w]

FuturesFollowWaves ==
  /\ \A t \in collected : future[t] = "answered"
  /\ \A t \in Tasks : WaveOf[t] > wave => future[t] = "none"
  /\ main \in {"collecting", "draining", "finished"} =>
       \A t \in Tasks : WaveOf[t] < wave => future[t] = "answered"
  /\ main = "finished" => \A t \in Tasks : future[t] = "answered"
  /\ main \notin {"collecting", "draining"} =>
       \A t \in Tasks : future[t] \notin {"pending", "running"}

(* Every thread past the ceiling check is charged the dearest answer in advance. *)
SpendReserved ==
  total_spend + MaxCost * Cardinality(Committed) <= Ceiling - 1 + MaxCost * Cardinality(Workers)

(* The inductive invariant. *)
IInv ==
  /\ TypeOK
  /\ BusyWorkers
  /\ OneWorkerPerTask
  /\ FuturesFollowWaves
  /\ AnswersAreDurable
  /\ NoSecondPurchase
=============================================================================
