----------------------------- MODULE SourcePool -----------------------------
(***************************************************************************)
(* scripts/build_source_pool_sec.py: a pool of threads fetches one filing  *)
(* per candidate, main() takes the first documents of new issuers in the   *)
(* order in which futures complete, partitions them and writes thirteen    *)
(* files, the seal of the test split last.                                 *)
(*                                                                         *)
(* Submissions and filings are cached on disk under a size threshold: a    *)
(* file a dead or still running writer left above it is read like a whole  *)
(* one ("torn"), a smaller one is fetched again ("none").  The candidates  *)
(* are the rows of company_tickers.json, where an issuer with two tickers  *)
(* occurs twice.  An issuer is numbered in the order of its document id.   *)
(***************************************************************************)
EXTENDS Integers, Sequences, FiniteSets, SequencesExt, FiniteSetsExt

CONSTANTS
  Candidates,    (* the sequence of issuers in company_tickers.json          *)
  Filing,        (* per issuer: "no_10K", "thin" or "usable"                 *)
  BatchSize,     (* batch_size                                               *)
  MaxWorkers,    (* --max-workers                                            *)
  TargetCounts,  (* values of --target-count                                 *)
  Sizes,         (* documents of the four splits: 50, 100, 100, 200          *)
  Shuffle,       (* what rng.shuffle makes of the sorted documents           *)
  MaxPools       (* bound: processes started                                 *)

SumOf(s) == FoldSeq(LAMBDA x, y : x + y, 0, s)
Total == SumOf(Sizes)

ASSUME SourcePoolAssumption ==
  /\ Candidates \in Seq(Nat) /\ Len(Sizes) = 4 /\ Sizes \in Seq(Nat)
  /\ BatchSize \in Nat \ {0} /\ MaxWorkers \in Nat \ {0} /\ MaxPools \in Nat \ {0}
  /\ TargetCounts \subseteq Nat \ {0}
  /\ Shuffle \in [1 .. Total -> 1 .. Total] /\ IsInjective(Shuffle)

VARIABLES
  main,        (* what main() does, or how the process ended                *)
  target,      (* --target-count of this process                            *)
  tickers,     (* the cached company_tickers.json                           *)
  submissions, (* per issuer: the cached submissions file                   *)
  filings,     (* per issuer: the cached filing                             *)
  start,       (* cand_idx - batch_size: where the batch begins             *)
  worker,      (* per candidate: where its fetch_filing_worker is           *)
  acquired,    (* acquired_documents, as a set                              *)
  frames,      (* per issuer: the frame file                                *)
  written,     (* how many of the output files this process has written     *)
  output,      (* per output file: its content                              *)
  pools        (* observer: processes started                               *)

memory == <<main, target, start, worker, acquired, written>>
caches == <<tickers, submissions, filings>>
vars == <<memory, caches, frames, output, pools>>

Positions == DOMAIN Candidates
Issuers == ToSet(Candidates)
Batch == {p \in Positions : start < p /\ p <= start + BatchSize}

(* Where a worker may be, and the two ways in which it returns.             *)
InProgress == {"reading", "fetching", "saving", "opening", "downloading", "storing"}
Document(i, text) == [issuer |-> i, text |-> text]
TextOf(w) == IF w = "document" THEN "whole" ELSE "part"
Returned == {"None", "document", "partial_document", "collected"}

Absent == [pool |-> 0, rows |-> <<>>]
Splits == <<"CALIBRATION", "STAGE1", "STAGE2_DEV", "STAGE2_TEST">>
Seals == {<<"audits", "SEAL.json">>, <<"test_freeze", "SEAL.json">>, <<"audits", "SEAL.md">>}

(* The manifests, each with its copy, in the order of main(). *)
Manifests ==
  << <<"data", "SOURCE_POOL">>, <<"source_manifests", "SOURCE_POOL">>,
     <<"source_manifests", "CALIBRATION">>, <<"data", "CALIBRATION">>,
     <<"source_manifests", "STAGE1">>, <<"data", "STAGE1">>,
     <<"source_manifests", "STAGE2_DEV">>, <<"data", "STAGE2_DEV">>,
     <<"source_manifests", "STAGE2_TEST">>, <<"data", "STAGE2_TEST">> >>

(* Mutant: the seal is recorded before the manifests it names. *)
SealFirst ==
  << <<"audits", "SEAL.json">> >> \o Manifests
    \o << <<"test_freeze", "SEAL.json">>, <<"audits", "SEAL.md">> >>

(* The output files in the order in which main() writes them. *)
Outputs ==
  Manifests \o << <<"audits", "SEAL.json">>, <<"test_freeze", "SEAL.json">>,
                  <<"audits", "SEAL.md">> >>

(* acquired_documents.sort by document id. *)
SortedById ==
  CHOOSE s \in [1 .. Cardinality(acquired) -> acquired] :
    \A j, k \in DOMAIN s : j < k => s[j].issuer < s[k].issuer

(* shuffled: sorted by document id, then the seeded shuffle. *)
Shuffled == [k \in 1 .. Total |-> SortedById[Shuffle[k]]]

(* shuffled[lo : hi] of the k-th split *)
Split(k) ==
  LET lo == SumOf(SubSeq(Sizes, 1, k - 1))
  IN SubSeq(Shuffled, lo + 1, lo + Sizes[k])

(* The rows of a file; a seal lists the hash of every manifest it names.    *)
RowsOf(f) ==
  IF \E k \in 1 .. 4 : f[2] = Splits[k]
    THEN Split(CHOOSE k \in 1 .. 4 : f[2] = Splits[k])
    ELSE Shuffled
-----------------------------------------------------------------------------
Init ==
  /\ main = "loading" /\ target \in TargetCounts /\ tickers = "none"
  /\ submissions = [i \in Issuers |-> "none"] /\ filings = [i \in Issuers |-> "none"]
  /\ start = 0 /\ worker = [p \in Positions |-> "queued"]
  /\ acquired = {} /\ frames = [i \in Issuers |-> "none"]
  /\ written = 0 /\ output = [f \in ToSet(Outputs) |-> Absent] /\ pools = 1

(* A whole cached ticker list is used; a torn one fails to parse, and       *)
(* nothing catches it.  Otherwise it is fetched, which may fail.            *)
LoadTickers ==
  /\ main = "loading"
  /\ \/ tickers = "whole" /\ main' = "acquiring" /\ tickers' = tickers
     \/ tickers = "torn" /\ main' = "failed" /\ tickers' = tickers
     \/ tickers = "none" /\ main' = "acquiring" /\ tickers' = "whole"
     \/ tickers = "none" /\ main' = "failed" /\ tickers' \in {"none", "torn"}
  /\ UNCHANGED <<target, start, worker, acquired, written, submissions, filings,
                 frames, output, pools>>
-----------------------------------------------------------------------------
(* fetch_filing_worker of the candidate at p. *)
PoolOpen == main \in {"acquiring", "closing", "aborting"}
Busy == {p \in Positions : worker[p] \in InProgress}

Goto(p, w) == worker' = [worker EXCEPT ![p] = w]
Save(file, i, content) == [file EXCEPT ![i] = content]
MainAsIs == UNCHANGED <<main, target, start, acquired, written, tickers,
                        frames, output, pools>>

Begin(p) ==
  /\ PoolOpen /\ p \in Batch /\ worker[p] = "queued" /\ Cardinality(Busy) < MaxWorkers
  /\ Goto(p, "reading") /\ UNCHANGED <<submissions, filings>> /\ MainAsIs

(* Where a worker goes once it knows the issuer's submissions. *)
AfterSubmissions(i) == IF Filing[i] = "no_10K" THEN "None" ELSE "opening"

ReadSubmissions(p) ==
  LET i == Candidates[p] IN
  /\ PoolOpen /\ worker[p] = "reading"
  /\ Goto(p, CASE submissions[i] = "whole" -> AfterSubmissions(i)
               [] submissions[i] = "torn"  -> "None"
               [] submissions[i] = "none"  -> "fetching")
  /\ UNCHANGED <<submissions, filings>> /\ MainAsIs

(* The answer arrives and the cache file is opened, which truncates it.     *)
FetchSubmissions(p) ==
  LET i == Candidates[p] IN
  /\ PoolOpen /\ worker[p] = "fetching"
  /\ \/ Goto(p, "None") /\ submissions' = submissions
     \/ Goto(p, "saving") /\ \E part \in {"none", "torn"} :
          submissions' = Save(submissions, i, part)
  /\ UNCHANGED filings /\ MainAsIs

(* write_bytes returns, or raises and leaves what it wrote. *)
SaveSubmissions(p) ==
  LET i == Candidates[p] IN
  /\ PoolOpen /\ worker[p] = "saving"
  /\ \/ Goto(p, AfterSubmissions(i)) /\ submissions' = Save(submissions, i, "whole")
     \/ Goto(p, "None") /\ submissions' = submissions
  /\ UNCHANGED filings /\ MainAsIs

(* Mutant: the worker passes the class of the filing on. *)
ExaminedRaw(i) == Filing[i]

(* What a worker returns for a filing of which it has read everything. *)
Examined(i) == IF Filing[i] = "thin" THEN "None" ELSE "document"

(* A torn filing is decoded like any other: what is left of it may still    *)
(* have a section that is long enough.                                      *)
ReadFiling(p) ==
  LET i == Candidates[p] IN
  /\ PoolOpen /\ worker[p] = "opening"
  /\ \/ filings[i] = "whole" /\ Goto(p, Examined(i))
     \/ filings[i] = "torn" /\ Goto(p, "None")
     \/ filings[i] = "torn" /\ Examined(i) # "None" /\ Goto(p, "partial_document")
     \/ filings[i] = "none" /\ Goto(p, "downloading")
  /\ UNCHANGED <<submissions, filings>> /\ MainAsIs

FetchFiling(p) ==
  LET i == Candidates[p] IN
  /\ PoolOpen /\ worker[p] = "downloading"
  /\ \/ Goto(p, "None") /\ filings' = filings
     \/ Goto(p, "storing") /\ \E part \in {"none", "torn"} :
          filings' = Save(filings, i, part)
  /\ UNCHANGED submissions /\ MainAsIs

StoreFiling(p) ==
  LET i == Candidates[p] IN
  /\ PoolOpen /\ worker[p] = "storing"
  /\ \/ Goto(p, Examined(i)) /\ filings' = Save(filings, i, "whole")
     \/ Goto(p, "None") /\ filings' = filings
  /\ UNCHANGED submissions /\ MainAsIs
-----------------------------------------------------------------------------
Seen(i) == \E d \in acquired : d.issuer = i

(* Mutant: a frame file that exists is not written again. *)
AcquireKeepsFrame(p) ==
  LET i == Candidates[p] IN
  /\ main = "acquiring" /\ worker[p] \in {"document", "partial_document"} /\ ~Seen(i)
  /\ acquired' = acquired \union {Document(i, TextOf(worker[p]))}
  /\ frames' = IF frames[i] = "none" THEN Save(frames, i, TextOf(worker[p])) ELSE frames
  /\ Goto(p, "collected")
  /\ main' = IF Cardinality(acquired') >= target THEN "closing" ELSE main
  /\ UNCHANGED <<target, start, written, caches, output, pools>>

(* as_completed hands over a document of a new issuer: its frame is         *)
(* written, and the loop is left when the target is reached.                *)
Acquire(p) ==
  LET i == Candidates[p] IN
  /\ main = "acquiring" /\ worker[p] \in {"document", "partial_document"} /\ ~Seen(i)
  /\ acquired' = acquired \union {Document(i, TextOf(worker[p]))}
  /\ frames' = Save(frames, i, TextOf(worker[p]))
  /\ Goto(p, "collected")
  /\ main' = IF Cardinality(acquired') >= target THEN "closing" ELSE main
  /\ UNCHANGED <<target, start, written, caches, output, pools>>

(* The frame file cannot be written: main() raises inside the with-block.   *)
AcquireRaises(p) ==
  /\ main = "acquiring" /\ worker[p] \in {"document", "partial_document"}
  /\ ~Seen(Candidates[p])
  /\ frames' = Save(frames, Candidates[p], "torn")
  /\ Goto(p, "collected") /\ main' = "aborting"
  /\ UNCHANGED <<target, start, acquired, written, caches, output, pools>>

(* None, or the second ticker of an issuer that is already there. *)
Discard(p) ==
  /\ main = "acquiring"
  /\ \/ worker[p] = "None"
     \/ worker[p] \in {"document", "partial_document"} /\ Seen(Candidates[p])
  /\ Goto(p, "collected")
  /\ UNCHANGED <<main, target, start, acquired, written, caches, frames, output, pools>>

(* The batch is collected.  The while loop goes on to the next one, or main *)
(* returns 1 when the candidates are used up.                               *)
NextBatch ==
  /\ main = "acquiring" /\ \A p \in Batch : worker[p] = "collected"
  /\ start' = start + BatchSize
  /\ main' = IF start' < Len(Candidates) THEN main ELSE "failed"
  /\ UNCHANGED <<target, worker, acquired, written, caches, frames, output, pools>>

(* The with-block waits for the whole batch.  The asserts on the sizes then *)
(* fail unless the target was the size of the study.                        *)
PoolExits ==
  /\ main \in {"closing", "aborting"}
  /\ \A p \in Batch : worker[p] \in Returned
  /\ main' = IF main = "closing" /\ Cardinality(acquired) = Total THEN "writing" ELSE "failed"
  /\ UNCHANGED <<target, start, worker, acquired, written, caches, frames, output, pools>>

WriteOutput ==
  /\ main = "writing"
  /\ LET f == Outputs[written + 1]
     IN output' = [output EXCEPT ![f] = [pool |-> pools, rows |-> RowsOf(f)]]
  /\ written' = written + 1
  /\ main' = IF written' = Len(Outputs) THEN "finished" ELSE main
  /\ UNCHANGED <<target, start, worker, acquired, caches, frames, pools>>

(* Memory of a process that has just started, or has gone. *)
Forget ==
  /\ start' = 0 /\ worker' = [p \in Positions |-> "queued"]
  /\ acquired' = {} /\ written' = 0

(* The process is killed: a file it was writing stays torn. *)
Crash ==
  /\ main \in {"acquiring", "closing", "aborting", "writing"}
  /\ main' = "crashed" /\ Forget
  /\ \/ frames' = frames /\ output' = output
     \/ /\ main = "acquiring" /\ output' = output
        /\ \E p \in Batch : /\ worker[p] \in {"document", "partial_document"}
                            /\ ~Seen(Candidates[p])
                            /\ frames' = Save(frames, Candidates[p], "torn")
     \/ /\ main = "writing" /\ frames' = frames
        /\ output' = [output EXCEPT ![Outputs[written + 1]] = Absent]
  /\ UNCHANGED <<target, caches, pools>>

(* The operator runs the script again; nothing it finds on disk stops it.   *)
Restart ==
  /\ main \in {"finished", "failed", "crashed"} /\ pools < MaxPools
  /\ pools' = pools + 1 /\ main' = "loading" /\ Forget
  /\ target' \in TargetCounts
  /\ UNCHANGED <<caches, frames, output>>
-----------------------------------------------------------------------------
WorkerStep(p) ==
  \/ ReadSubmissions(p) \/ FetchSubmissions(p) \/ SaveSubmissions(p)
  \/ ReadFiling(p) \/ FetchFiling(p) \/ StoreFiling(p)

PoolThreads == \E p \in Positions : Begin(p) \/ WorkerStep(p)

MainStep ==
  \/ LoadTickers \/ NextBatch \/ PoolExits \/ WriteOutput
  \/ \E p \in Positions : Acquire(p) \/ AcquireRaises(p) \/ Discard(p)

Next == MainStep \/ PoolThreads \/ Crash \/ Restart

Spec == Init /\ [][Next]_vars
-----------------------------------------------------------------------------
(* Every variable keeps its type. *)
TypeOK ==
  /\ main \in {"loading", "acquiring", "closing", "aborting", "writing",
               "finished", "failed", "crashed"}
  /\ target \in TargetCounts /\ tickers \in {"none", "torn", "whole"}
  /\ submissions \in [Issuers -> {"none", "torn", "whole"}]
  /\ filings \in [Issuers -> {"none", "torn", "whole"}]
  /\ start \in Nat /\ worker \in [Positions -> {"queued"} \union InProgress \union Returned]
  /\ acquired \subseteq [issuer : Issuers, text : {"whole", "part"}]
  /\ frames \in [Issuers -> {"none", "torn", "whole", "part"}]
  /\ written \in 0 .. Len(Outputs) /\ pools \in 1 .. MaxPools
  /\ \A f \in ToSet(Outputs) : output[f].pool \in 0 .. MaxPools

(* When a process finishes, the four splits on disk are of that process, of *)
(* the preregistered sizes and without a common issuer, they make up the    *)
(* pool, both copies of a manifest agree, and the frame file of every row   *)
(* holds the text whose hash the row gives: in whatever order the futures   *)
(* completed and whatever earlier processes left behind.                    *)
Rows(k) == output[<<"source_manifests", Splits[k]>>].rows
IssuersOf(rows) == {rows[j].issuer : j \in DOMAIN rows}
FinishedPoolIsConsistent ==
  main = "finished" =>
    /\ \A f \in ToSet(Outputs) : output[f].pool = pools
    /\ \A k \in 1 .. 4 :
         /\ Cardinality(IssuersOf(Rows(k))) = Sizes[k]
         /\ Rows(k) = output[<<"data", Splits[k]>>].rows
         /\ \A j \in (k + 1) .. 4 : IssuersOf(Rows(k)) \intersect IssuersOf(Rows(j)) = {}
         /\ \A j \in DOMAIN Rows(k) : frames[Rows(k)[j].issuer] = Rows(k)[j].text
    /\ UNION {ToSet(Rows(k)) : k \in 1 .. 4} = ToSet(output[<<"data", "SOURCE_POOL">>].rows)

(* An intact seal vouches for manifests that were complete before it: each  *)
(* one is the one it names, or a later process has opened it again.         *)
SealVouches ==
  \A s \in Seals, f \in ToSet(Outputs) \ Seals :
    output[s].pool > 0 /\ output[f].pool < output[s].pool =>
      output[f] = Absent /\ output[s].pool < pools

(* build_source_pool_sec.py:355 lists "immutable_sha256_hash" among the      *)
(* enforced sealing rules: once the seal is recorded, the test manifest is  *)
(* the one that was sealed.                                                 *)
SealedTestSetIsImmutable ==
  [][output[<<"audits", "SEAL.json">>].pool > 0 =>
       output'[<<"source_manifests", "STAGE2_TEST">>].rows
         = output[<<"source_manifests", "STAGE2_TEST">>].rows]_vars
=============================================================================
