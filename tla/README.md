# A TLA+ verification project for transmission-vs-reconstruction

The repository measures how much of a source survives a handoff between two
language models: a relay reads a document and writes a note, a receiver answers
questions from the note, and a causal design separates what was *transmitted*
from what the receiver *reconstructs* from prior knowledge. The programs around
that design buy answers from a provider under a spend ceiling, keep them in
files, restart, decide a frozen gate and publish verdicts. This project models
those programs.

`PROJECT.json` maps every definition to the lines it translates and lists the
runs, the mutants that show each property can fail, the hazards, the findings
and the theorems. Paths below are relative to the repository root; `H/` stands
for `src/handoff_fidelity/`.

## 1. Inventory

### 1.1 Components with state and behaviour

| Component | State | Operations | What makes it hard | What makes it correct |
|---|---|---|---|---|
| **Stage-1 call layer**, `scripts/run_stage1.py` (`ScopedDiskCache`, `call_model_with_cache`, three thread pools) | one JSON file per key; `total_spend`, `calls_executed`, `cache_hits`, ledger; a pool per wave | look up, check ceiling, call (five attempts), store, account; collect, close a wave; crash, restart | fifteen threads without a lock; check before the call and accounting after it; truncate-then-write; exceptions through `with` blocks | bounded overshoot, no answer bought twice, answers durable, breakdown and ledger agree, every run ends |
| **Stage-1 data flow and gate**, same script and `H/causal/gates.py` | answers heard, verdict, eight artefact files | relay, interventions and caps, receiver draws, prior probes, records, gate, export | restarts with another `--m-star` or relay budget on one cache; crash between two artefacts; arms swapped by transmission | answers fit their prompt, one verdict per configuration, manifest last, no silent attrition, a pass rests on prior access |
| **Experiment B**, `scripts/run_experiment_b.py` | answer files with their cost, `total_spend`, result list | one pool over all tasks; ceiling compared after the call; aggregation, bootstrap, publication | completion order reaches the statistics; spend of earlier processes | only a process under the ceiling publishes, from every task once; the estimate does not depend on order or restarts |
| **Orchestration graph**, `H/orchestration/`; `H/app_contracts/events.py`; `H/providers/ledger.py` | `RunState`: frame, inventory, sample, message, dictionaries by atom, records; event log; provider ledger | topology check, two executors, eleven nodes | any node can raise anywhere; two executors; arms told apart four stages later | stages in order, sample before relay, one terminal event, no atom dropped, arms apart, call ids distinct |
| **Audits**, `scripts/run_low_cost_regime_audit.py`, `run_receiver_operational_audit.py` | pool of repeats, spend, verdict, four report files | retry, account, decide, write; crash, restart | 1,000 calls of which one may fail; rule written out twice; files replaced one after the other | verdict is the preregistered rule's on a complete audit, evidence before decision, every audit ends |
| **Provider canary**, `scripts/run_provider_canary.py` | two running sums, one file per model | identity, relay and receiver calls, stop-losses | limits compared before a call, and before the identity call not at all | overshoot of at most two calls |
| **Guarded stages and freeze records**, `H/stages/`, `H/provenance/freeze.py`, `scripts/make_freeze_record.py`, `cli.py` | environment's models, two record files, test manifest, the gate result a Python caller holds | pin, freeze, verify, run a stage from the CLI or from Python (with `Settings` and gate results of the caller's own), reseal | the record is validated at one time and used at another; guards that look at a path | nothing runs with unpinned `Settings` or past the gate without a gate result that says proceed; VALID is said of whole records |
| **Lifecycle policy**, `H/policy/`, `policies/rego/lifecycle.rego` | none | local rules, OPA, composition | two rule sets that must agree; failing OPA | the engine allows nothing the local rules deny |
| **HTTP API and web client**, `apps/api/handoff_api/`, `apps/web/src/App.tsx` | run store in memory; what the page shows | start a demo run, read its three parts; restart | three reads of a store that may be emptied between them | a page shows one run |
| **Source pool**, `scripts/build_source_pool_sec.py` | two caches, frames, acquired set, thirteen output files | fetch in threads, acquire, partition, write, seal; crash, restart | two threads on one issuer's cache file; completion order; the `with` block left in the middle of a batch | splits disjoint, of the right size, of one process; a seal is no older than what it names |
| **Pure rules**: adapters, editor, matcher, atomizer, sampling, estimands, allocation, calibration, cross-fitting, benchmark, superiority, baselines, outcome batches, intervals, sealed record, guardrails | none (or a file they rewrite) | functions | boundaries, ties, empty inputs, collisions | agreement with an independent reference |

`PROJECT.json` lists all 31 parts with their status. Not modelled at all: demo
fixtures, prompt wording, error classes, the privacy scan and the one-shot
scripts; section 6 says why.

### 1.2 Interactions

- `run_stage1.py`: the data flow submits tasks to the call layer; both meet in
  the answer files. `Stage1Calls` models one call in as many steps as other
  threads can observe; `Stage1Run` models a call as one step and follows what
  its answer is used for.
- `run_experiment_b.py` reads the slots the audit and Stage 1 left behind and
  repeats the call layer with other rules (no retry, ceiling after the call).
  Both runners implement the same abstract `AnswerStore`.
- The API, the CLI and the demo pipeline run the orchestration graph; the graph
  calls sampler, matcher, editor and estimators, whose rules are in the modules
  named `...Rules`.
- Stage runners ask the guards, which look at the freeze record and the gate;
  the gate is what `run_stage1.py` decides. The API asks the policy engine
  before it starts a demo run (`MCControlPlane` composes the two interfaces).
- Audits decide the regime (`Regime`) that `ClaimRules` demands of a claim about
  single atoms, and the `m*` that `Stage1Run` is started with.

## 2. Modules

| Module | Models | Source |
|---|---|---|
| `AnswerStore` | abstract: a store that only grows, survives stops and is complete when a run claims to be | promise of both runners |
| `Stage1Calls` | call layer, pool, waves, ceiling, retries, crash and restart | `scripts/run_stage1.py` |
| `Stage1Run` | data flow from the relay answer to the manifest, over several starts | `scripts/run_stage1.py`, `H/causal/gates.py` |
| `ExperimentB` | the matched contrast | `scripts/run_experiment_b.py` |
| `RunGraph` | executors, nodes, event log, provider ledger | `H/orchestration/`, `H/app_contracts/`, `H/providers/ledger.py` |
| `Regime` | decoder regime, replication number, what a regime permits | `H/providers/regime.py`, `determinism.py` |
| `ProviderAudit` | both audit programs | the two audit scripts |
| `ProviderCanary` | the canary | `scripts/run_provider_canary.py` |
| `StudyLifecycle` | freeze records, guards, runners, commands | `H/stages/`, `H/provenance/freeze.py`, `H/cli.py`, `scripts/make_freeze_record.py` |
| `LifecyclePolicy` | Python rules, Rego rules, the engine over both | `H/policy/`, `policies/rego/` |
| `DemoService` | server, run store, client | `apps/api/`, `apps/web/src/App.tsx` |
| `SourcePool` | acquisition, partition, seal | `scripts/build_source_pool_sec.py` |
| `ProviderAdapters` | vendor adapters, their guards, capability registry | `H/providers/` |
| `BudgetRules` | knapsacks, targeting, calibration, eviction partners, additivity | `H/causalrelay/`, `H/calibration/`, `H/causal/targeting.py`, `scripts/run_calibration.py` |
| `BenchmarkRules`, `ClaimRules` | baselines, registries, benchmark runs; superiority, simultaneous bounds, manuscript check, manifests | `H/baselines/`, `H/benchmark/`, `H/export/` |
| `EstimateRules` | strata, inclusion probabilities, estimators, sham regions, folds | `H/sampling/`, `H/causal/`, `H/causalrelay/`, `H/matcher/` |
| `AnswerRules` | matcher, editor, shams, skeletons | `H/matcher/`, `H/editing/`, `H/interventions/` |
| `InventoryRules` | overlap resolution, eligibility, review sheet, inventory file, kappa | `H/atomizer/` |
| `Percentiles` | `np.percentile`, as both bootstraps call it | `H/inference/bootstrap.py`, `H/causal/paired_bootstrap.py` |
| `RecordRules` | outcome batches, bold cell, clustered intervals, sealed record, guardrail positions | `H/export/`, `H/inference/`, `reproducibility/tools/` |
| `RuleInstances` | the inventory and record rules under names of their own | |
| `MC...` | what TLC checks; `MCProviderChecks`, `MCControlPlane` and `MCProtocolRules` compose modules | |
| `...Proofs` | theorems, eight modules | |

**Stage1Calls.** `pc[w]` is the next call a pool thread makes (look-up, ceiling
check, provider, opening the file, writing it, accounting). The interpreter may
switch threads after any of these and not inside `total_spend += cost;
calls_executed += 1`. `future`, `collected` and `main` are the futures,
`as_completed` and the `with` block: `CollectRaises` leaves the block, which
waits for everything queued (`Drained`). `PutOpens`/`PutWrites` split
`write_text`, so that `Crash` can leave a torn file. `invoice` and `runs` are
observers. An answer is the model that gave it and its cost.

**Stage1Run.** A message is the set of focal atoms the matcher reads in it,
those whose edit the editor refuses, and those whose accepted deletion leaves
their tokens (`residual`): after a deletion `editing/editor.py:101` looks for
spans only, while `matcher/match.py:101-102` also reads the token sequence of an
entity, scope or provenance atom (`TextAtoms`). An answer to a question is 0 or
1. The key
of a cache file is the task with its *prompt*, as the code's key holds the
prompt's hash. `Gate(h, m)` is the gate on what a process heard; the rules take
what was heard as a parameter so that theorems can speak of two processes.
Rates are compared as integers by cross-multiplication.

**ExperimentB.** `results` is the order in which results were handed over, hence
the order in which documents enter the bootstrap (`DocOrder`). `EffectiveSpend`
is the published spend: this process's, or the files' when it is zero.

**RunGraph.** `graph` is the node list an executor is given, `next` the node it
is at. A stage is entered, does its work and completes, or raises: the
sequential executor then logs the failed stage and the failed run, LangGraph's
nothing. An answer also records, as an observation, how the atom stood in the
message that was asked about: `"with"`, `"without"`, or `"leftover"` when a
deletion of a textual role (`TextRoles`) left its tokens (`EditOf`).
`ArmsAreApart` speaks of that: the natural arm stands as transmission says, an
insertion always carries the atom, and what a deletion leaves is the leftover of
a textual role or nothing.

**ProviderAudit, ProviderCanary.** One audited item is one (input, repeat); its
steps are a call, a retry, an answer, an exception after the last attempt. The
main thread accounts for what `as_completed` hands over, decides on the complete
set and writes the report files in the code's order (`script` says which of the
two programs it is). The canary is sequential: what matters is which limit is
compared before which call.

**StudyLifecycle, DemoService.** A record keeps the two model fields, the
version of the manifest it names and whether its other fields are filled.
`last` is the last command with its answer, the `Settings` it ran with and the
gate result it was given. The command line loads the environment's `Settings`
and passes no gate result; a Python caller hands over any `Settings`
(`Callers`, as `stages/runners.py:107` allows) and whatever `GateResult` it got
from a Stage-1 runner or built itself (`BuildGate`). A runner is called when the
last answer has been read; `Pin` is the environment of the next call and may leave
it as it was, so no order of calls is lost. In the service, `post`, `loading`
and `parts` are the page's requests in flight, `shown` its panes; a restart
empties the store and may change the mode; OPA answers, fails or disagrees anew
at every evaluation. The two interfaces share no state, so a behaviour of
`MCControlPlane` has the actors of one.

**SourcePool.** A thread reads, truncates and writes the two cache files of an
issuer in separate steps, and an issuer with two tickers has two threads. A torn
file above the size threshold is read like a whole one. `main` leaves the batch
when the target is met; the futures of the batch still finish (`closing`).

**Rule modules.** They translate functions. `MCProtocolRules` calls them one at
a time: `call` holds the last rule, its arguments and what it returned, so that
a property is a statement about every bounded call.

## 3. What is checked

| Run | Expect | Instance | Shows |
|---|---|---|---|
| `stage1_calls` | pass | 2 threads, 2+2 tasks in two waves, costs 1-2, ceiling 3, 2 attempts, 2 starts, with or without another model's file under one key; fair | `OvershootBounded`, `NoSecondPurchase`, `AnswersAreDurable`, `BreakdownMatchesLedger`, refinement of `AnswerStore`, `EveryRunEnds` |
| `stage1_run` | pass | 1 atom, m* 1 or 2, 2 relay budgets, 2 starts | type, `VerdictReproducible`, `ManifestIsLast`, `AnswersFitTheQuestion` |
| `stage1_run_atoms` | pass | 2 atoms in one document, the first of a textual role, caps 50 % and 100 %, 1 start | `PassNeedsPriorAccess`, `NoSilentAttrition` |
| `experiment_b` | pass | 2 threads, 2 slots x 2 arms, cost 1, ceiling 3 of 4, 3 starts | `PublishedUnderCeiling`, `ContrastIsComplete`, `EstimateReproducible`, refinement of `AnswerStore` |
| `run_graph` | pass | 3 atoms in 2 strata, one of them textual, K = 2, the built graph and three other lists, both executors | type, `StagesInOrder`, `OneTerminalEvent`, `NoFocalDropped`, `ArmsAreApart`, `CallIdsDistinct` |
| `provider_checks` | pass | audit: 2 inputs x 2 repeats, 2 threads, 2 attempts, costs 0-1, ceiling 2, 2 starts of either program; canary: 2 models, 2 + 2 calls, costs 0-2, stop-loss 3, total 4, 2 starts | type, `VerdictFollowsRule`, `EvidencePrecedesDecision`, `CanaryOvershoot`, `AuditEnds` |
| `source_pool` | pass | 5 ticker rows of 4 issuers (one twice, one too thin), batches of 2, 2 threads, target 2 or 3, 2 starts | type, `FinishedPoolIsConsistent`, `SealVouches` |
| `control_plane` | pass | 1 pinned model, any `Settings` and gate result in a Python caller's hands, 2 manifest versions; 2 run ids, 2 restarts | type, `NothingRunsUnauthorised`, `ValidMeansWritten`, `PanesShowOneRun` |
| `protocol_rules` | pass | every call of some forty rules over the sets named in `MCProtocolRules` | `AdaptersAgree`, `BudgetsAreOptimal`, `ClaimsAreEarned`, `EstimatesAgree`, `InventoryIsSound`, `RecordsAreSound` |
| `experiment_b_respected` | violation | 1 thread, cost 1, ceiling 3, 2 starts | finding 1 |
| `final_test_on_valid_record` | violation | 1 pinned model, 2 manifest versions | finding 2 |
| `inclusion_sums_to_k` | violation | as `protocol_rules` | finding 3 |

The type invariants of `Stage1Calls` and `ExperimentB` are theorems and are not
repeated as runs.

### 3.1 Bounds, and why they are enough

- *Threads.* The races of all pools are between two threads that passed the same
  check or hold the same file; a third adds no new kind. The overshoot bound
  for any number of threads is a theorem.
- *Tasks and waves.* Two per wave let one be queued, running or done while the
  other is in any other state, including a raise beside a success. Two waves
  give every "previous / this / later wave"; the code's third repeats the second.
- *Costs and ceilings.* They let a limit be met exactly, passed by one and
  missed by one. A zero cost is the answer of a provider that reports no usage.
- *Attempts.* Two: a retry that helps and a last attempt that raises.
- *Starts.* `MaxRuns`, `MaxAudits`, `MaxCanaries`, `MaxPools`, `MaxRestarts` and
  `MaxManifest` are the only bounds on counters. Two give every "before /
  after"; Experiment B has three so that an unfinished start can be followed by
  two that publish.
- *Stage1Run.* One atom with m* of 1 and 2 is the smallest case in which one
  configuration reuses a part of another's draws; two atoms are needed for the
  caps. `TextAtoms` is empty where the question is which file answers which
  prompt (a leftover changes no key), and has one of the two atoms where the
  question is what a pass rests on.
- *RunGraph.* Three atoms in two strata with K = 2 leave one stratum a choice;
  the further lists are a reordered and a repeating one, which must be refused,
  and one without a source, on which a node raises before its started event.
- *SourcePool.* Issuers in the ticker list twice are what makes two threads
  share a cache file; a target above the study's size makes the shuffle drop a
  document; the thin filing makes the list longer than the pool.
- *Rules.* Three or four atoms, documents or candidates suffice for ties, for
  an empty and a full side of every division, and for an optimum that greedy
  choice misses; budgets run from zero past the sum of all costs.

Runs of programs set `CHECK_DEADLOCK FALSE`: a program that ended and is not
started again stops, and `EveryRunEnds` and `AuditEnds` are what would fail if a
process were stuck. `protocol_rules` and `inclusion_sums_to_k` check deadlock.

### 3.2 Fairness

`FairSpec` of `Stage1Calls` assumes weak fairness of the main thread and of each
worker, `AuditFairness` of the audit's main thread, of taking a queued item and
of each item's next step. Live threads are scheduled preemptively, provider
clients time out (a call ends in an answer or in an exception), file writes end.
Crashes, restarts and the outcome of a call are owed by nobody.

### 3.3 Mutants

Each property of a passing run has a mutated definition, kept next to the
original and marked *Mutant*, under which TLC finds it violated: a ceiling not
checked, a hit from another model's file, a key without the prompt, artefacts in
reverse order, an audit decided by majority, a selection file written before its
evidence, a record written without validation, an experiment without a gate,
panes filled one by one, a frame file that is not replaced, a seal before the
manifests, a knapsack that takes an item twice, a deletion of the first
occurrence only, and so on.

## 4. What is proved

All theorems hold for every value of the constants under the named assumptions
`CallsAssumption`, `RunAssumption`, `ExperimentBAssumption`, `GraphAssumption`,
`ProviderAuditAssumption`, `ProviderCanaryAssumption`, `SourcePoolAssumption`,
`LifecycleAssumption` and `DemoServiceAssumption`: finite sets, types of the
parameters, a wave for every task, costs between 0 and their maximum, a
non-empty node list of known stages, an injective shuffle. TLC evaluates them in
the runs. Every strengthened invariant below was checked with TLC on the run of
its module before it was proved.

**Stage1CallsProofs.** The safety properties are not inductive alone: `Durable`
needs to know that a thread about to account has written its file, and that
needs to know that no other thread works on the same key. The strengthening
`IInv` says that a busy thread's task is running and belongs to the open wave,
that no two threads share a task, and that nothing is submitted beyond the open
wave while everything before it is answered. From it follow `Durable`,
`PaidOnce`, `Barrier`, and `Breakdown` with the accounting identity.
`Overshoot` rests on `SpendReserved`: every thread past the check is charged the
dearest answer in advance, so that passing the check below the ceiling can only
fill reservations, one per thread. `Refinement`: every step of the runner is a
step of `AnswerStore` or leaves it alone.

**Stage1RunProofs.** `ManifestVouches`: along the order in which artefacts are
opened the runs that opened them do not increase, and what this process has
written is whole. `AnswersBelong`: a file holds the answer to the prompt in its
key, and relay answers do not change after the relay wave. `SameVerdict`: a set
of answers that is `Closed` (its relay answers come from the files, these
determine the messages, these the tasks and the prompts, and these again the
files) is unique for given files, m* and budget (`ClosedIsUnique`), stays closed
while files are only added, and is what a process holds when it publishes.
`NothingLeavesSilently`: such a set has exactly m* draws per arm for every atom
whose edit is valid. `PassIsEarned`: a pass compares sums over the valid atoms;
with at least one of them (`SomeValid`), a prior-access sum above zero has a
summand above zero, and that one an answer.

`Readable` in `PassNeedsPriorAccess` names the case the editor leaves open: the
answer may then come from a prompt in which the matcher still reads the atom,
and only from the leftover of a deletion.

**OperatorProofs.** The sums of the models (`MapThenSumSet`, `FoldSeq`) are functions
chosen by a recursive equation, about which nothing is known until one is shown
to exist. Induction over data needs a theorem with an operator parameter, so the
module argues by minimal counterexamples instead: strict inclusion on the finite
subsets of a set is well-founded (`FS_StrictSubsetOrderingWellFounded`,
`WFMin`), hence every nonempty collection of them has a minimal member. From it
come existence and uniqueness of sums, taking a summand out, a positive
summand of a positive sum, and the listing of a finite set along a strict total
order (`SortingExists`). Tables filled row by row exist for the same reason
(`TableExists`: the first row that could not be added is the counterexample), so
`dp` and the choice read off it satisfy their equations (`BestTable`,
`PicksTable`). `KnapsackIsOptimal` then follows row by row: a best choice among
the first `i` items is one without the `i`-th or one with it and a best choice
for what is left (`ChoiceGrows`), and `Takes` decides between them exactly as
`Best` does (`EntriesAreBest`). It holds for items of cost zero and for negative
utilities, which the code keeps in the table rather than clips; costs are
naturals, as token counts are, utilities integers in place of floats, and no two
items have both the same cost and the same id.

`InductUpTo` and `ChainExists` are the two forms the later proofs use: a
property that passes from each number below `n` to the next holds up to `n`, and
a list of steps has a chain of intermediate results, which is what a fold
returns the end of. With them
follow listings of any finite set (`ListingExists`), folds of documents by rank
(`RankIs`, `FoldsNeverLeak`, `CrossFitNeverLeaks`), and order statistics:
`NthIs` characterises the k-th of a sample, `PercentileGrows` and
`PercentileNegates` say that a percentile grows with the sample and with the
level and turns over with the sign. `DecompositionCloses` and
`SelectionBiasRoutesAgree` reduce the estimator of the study to an identity of
fractions (`ClosesAlgebra`, `BiasAlgebra`) about three sums, which are shown to
be positive and to add up over the two treatments; no size of sample, weight or
outcome is bounded. The module ends with what the inventory and the records rest
on. `OverlapsResolved` goes along the ranked matches: the kept ones are those
that cross no kept one before them. `ReviewedInventory` covers the review sheet
and the file. `PairedInterval` pairs the replicates of two arms draw by draw and
carries the order through the percentiles.

**ProtocolRulesProofs.** Each property of `protocol_rules` other than
`EstimatesAgree` holds in every sequence of calls (`AdaptersAreGuarded`,
`BudgetsAreKept`, `ClaimsAreKept`, `InventoryIsKept`, `RecordsAreKept`).
`RuleOfCall` says that a call named after a rule was made by that rule, so that
each step is one call; what it returns is then an instance of a theorem about
the operator, which holds of arguments of every size:
- *Providers.* `First` gives the first refusal that applies (`FirstIsLeast`), so
  `preflight` passes exactly what meets all six guards.
- *Budgets.* `AllocatedMessageFits` follows the trimming loop round by round;
  `TargetingIsBounded` shows that every random draw and the observed message are
  affordable choices, which the oracle beats; `PrimaryBudgetBinds` compares the
  grid's neighbours of the median; `CalibrationIsSound` composes the selections
  as `run_calibration.py` does.
- *Inventory.* `EverySpanCounted` partitions the kept matches by role and value;
  `KappaIsAgreement` covers the agreement of two raters.
- *Records.* `WrittenRowsDiffer` and `BoldIsBest` cover what tables show. A seal that a stopped reseal left
  half way verifies only for the files it was made over (`SealIsKept`).
- *Claims.* `SuperiorityIsWon`, `SimultaneousIsStricter` (the worst deviation of
  a replicate is no smaller than any one comparator's, and percentiles are
  monotone), `ExportedIsWhole`, `ManifestIsOfItsDisk`, `CompressedIsGuarded`,
  `RunIsPlacedOnce`, `PermittedIsDeterministic`.

**PaidRunsProofs.** Experiment B and the checks of the providers share a module.
`Invariance` relates threads, futures, files and spend; a
thread that goes past the ceiling leaves an exception in its future, which the
main thread must meet before it publishes (`UnderCeiling`). `Complete` and
`Refinement` follow. `Reproducible`: what was published was computed from the
answers now on file, since with every answer on file no thread opens one.

Of the checks: `Overshoot` from `SpendByPhase`: before its identity
call a model has spent nothing and the total is at most one call over.
`VerdictIsTheRules`: a process that judges has drained its pool without a raise,
so every item has a canonical answer; then the audit's own loop over the grid and
`select_replication` of `H/providers/regime.py` pick the same number
(`GridAgrees`), which needs both variances to be fractions with a denominator
that is not zero (`DecodeVarianceIsFraction`, `DocumentVarianceDefined`, sums of
non-negative spreads). `EvidenceFirst`: the evidence is first in the list of
reports, so whoever writes a selection has its own audit on file, and nobody's
number is beyond the count of audits. `ChecksTypes` covers both programs.

**RunGraphProofs.** Every step is first reduced to a step of the executor
(`StepIsFlowStep`). `RunsInOrder` and `SampledBeforeRelay` need that a started
stage lies behind the executor in an accepted list; `EndsOnce` that the log of a
run that has not ended is quiet; `ArmsKeptApart` a chain from message through
transmission and edit, with what a deletion may leave, to the answers, each
dictionary being empty until its stage is reached; `IdsAreDistinct` that an id
counts the answers of its arm; `NothingDropped` that the keys of every
dictionary are the focal atoms until an edit fails and then those whose edit did
not.

**SourcePoolProofs.** `PoolInv` says that the issuers of the documents held
differ, that their frames on disk are the texts held, and that the files written
are this process's and the others older. It is preserved whatever the threads do
(`ThreadStep`: they touch their own place and the caches, nothing else).
`SealedIsComplete`: a seal is written after every manifest it names, and an
older process's manifest under a newer seal is one a crash emptied.
`PoolIsConsistent`: the documents can be sorted (`SortingExists` of
`OperatorProofs`), so the shuffled list has each of them once
(`ShuffledIsFresh`); the splits cut `1 .. Total` into four intervals
(`SplitBounds`, `SplitsCover`), so they are disjoint, of their sizes and exhaust
the pool.

**ControlPlaneProofs.** The two rule sets agree on every request and the engine
never widens them; while a run is loading, everything that has come back is of
that run; an executed stage was authorised on the `Settings` it ran with
(`RunIsPinned`), those of the command line being the environment's
(`CallerSettings`), and past the gate only for a Python caller that holds a
result which says proceed; a record on disk is torn or was validated.
`PlaneImplementsBoth`: the composed plane, which is what TLC runs, implements
the command line's specification and the service's, so all of these are theorems
about it.

**Only model-checked**: liveness (`EveryRunEnds`, `AuditEnds`), which with
ENABLED is out of the prover's reach, and `EstimatesAgree` as a whole. Of its
parts the decomposition, the routes of the selection bias and nested
cross-fitting are proved for every input; focal sampling and its inclusion
probabilities, the instrumentation plan, sham regions, the prior bins and the
editor, sham and skeleton rules are compared by TLC with their references, which
are enumerations. What the theorems about rules assume of their arguments is
said in their statements: comparisons of superiority list each comparator once,
no two matches of the atomizer differ in their value alone, and the two arms of a
paired interval have items that pair off.

## 5. Findings

1. **`ceiling_respected`** (`run_experiment_b.py:568-583`). The published spend
   is this process's unless that is zero, although the published answers may
   have been bought by earlier ones.
2. **The final test's record** (`H/stages/guards.py:56`). "No final-test runner
   may execute without a valid test freeze record" (`H/provenance/freeze.py:14`);
   the guard tests that a path exists.
3. **Inclusion probabilities** (`H/sampling/design.py:69`). They sum to `k`
   "exactly" (lines 16-18) only when atom ids are distinct; the ids keep letters
   and digits, so "12.5%" and "$12.5" of one document share one.

Met while modelling; where a definition states the promise it is named, and it
is checked by no run:

- *Spend.* A failing `put` drops a billed cost (`run_stage1.py:17` against 241,
  `FullCostReconciliation`); Experiment B's ceiling is compared after the call
  and nothing queued is cancelled (`run_experiment_b.py:13` against 364,
  `HardCeiling`); every process starts at zero spend;
  `TOTAL_NEW_PROVIDER_SPEND_CEILING_USD` (`run_stage1.py:62`) and
  `MAX_SPEND_LIMIT_USD` (`run_receiver_operational_audit.py:61`) are read
  nowhere.
- *Once.* The gate is evaluated at every start (`run_stage1.py:700` against 703,
  `GateDecidedOnce`); the sealed test manifest is overwritten by the next start
  (`build_source_pool_sec.py:355`, `SealedTestSetIsImmutable`); nothing counts
  uses of the sealed test; a later audit replaces an earlier confirmation;
  `make_atom_review_template.py` overwrites a sheet that was filled in.
- *Order.* Documents are resampled in completion order
  (`run_experiment_b.py:492` against `H/seeds.py:3-5`, `BootstrapReproducible`).
- *Logs.* LangGraph's executor logs no failure (`graph.py:7-9` against 158,
  `FailureIsLogged`); the ledger lacks failed attempts (`ledger.py:3-4` against
  `nodes.py:211`, `EveryAttemptRecorded`); the audit's Markdown says ACCEPTED
  whatever the JSON computes (`run_low_cost_regime_audit.py:381`,
  `ReportsAgree`).
- *Guards.* `run_stage2_dev` forwards no gate and never executes; `cli run`
  consults no policy engine (`docs/policy-gates.md:28`); `build_nodes` leaves
  out `EXPORT_ARTIFACTS` and `assert_topology` accepts any subsequence
  (`events.py:40-41`); human review is not blocking (`run_stage1.py:265` against
  `make_atom_review_template.py:4-5`); `make_pre_stage1_freeze.py` writes "PASS"
  as a literal.
- *Rules.* "Deletion must remove EVERY canonical-equivalent occurrence,
  otherwise an atom marked unavailable is still present"
  (`H/atomizer/rules.py:155-156`, `H/matcher/match.py:54-55`): the editor makes
  sure that no span is left (`editing/editor.py:101`), not that the tokens of a
  textual atom are no longer read (`match.py:101-102`), so `r_minus` may answer
  a note the matcher still reads the atom in. `AnswerRules`, `Stage1Run` and
  `RunGraph` model the case. A deletion of an inserted atom leaves the label
  of its role (`causalrelay/renderer.py:26`, `editor.py:151`); "third quarter of
  fiscal year 2023" reads as FY2023; a sham region of a point outside [-1, 1]
  has its ends exchanged (`sham_partial.py:125`); `plan_instrumentation` passes
  its cap when there are more roles than places; eligibility ignores
  `reproduced_by_interval` (`baselines/registry.py:30-31`); the entanglement
  check of the eligibility filter looks at the first of the merged spans only
  (`H/atomizer/verify.py:54-63`; the editor checks every span,
  `editor.py:89-91`); a superiority comparison that is listed twice is counted
  twice (`benchmark/superiority.py:120`); failing bootstrap replicates are
  dropped; of two review rows with one id the last decides; Gemini sends no
  token limit; the endpoint rule lets unknown families pass.
- *Client.* `streamEvents` is unused and listens for unnamed messages while the
  server names each event.

## 6. What is not modelled, and the plan

Not modelled for good: text (prompts, normal forms, regular expressions,
rendering, redaction, the privacy scan), floating-point regressors and tokenizer
arithmetic, HTTP clients, figures and LaTeX, telemetry, demo fixtures, error
classes. Where models depend on them they appear as nondeterministic inputs: a
matcher's verdict, an editor's refusal, a provider's answer, model name, cost or
exception. One-shot scripts read files, print and end; the one that writes what
others rely on, `make_freeze_record.py`, is modelled. The older
`build_source_pool.py`, the exploratory per-role summaries of Experiment B and
the read-only commands of the CLI are left out for the same reason.

What remains to be proved is the rest of `EstimatesAgree`, above all that
`all_inclusion_probabilities` are the frequencies of `select_focal` over all its
draws and that a deletion and its shams change nothing but what they name; both
need counting lemmas about sets of functions and about cuts of sequences that
`OperatorProofs` does not have yet. Liveness stays with TLC.
