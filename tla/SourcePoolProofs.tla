-------------------------- MODULE SourcePoolProofs --------------------------
(* What a source pool on disk is worth, for every list of candidates, every  *)
(* number of threads, every size of the splits and every shuffle: the splits *)
(* of a finished process are its own, disjoint, of the preregistered sizes   *)
(* and of the texts in the frame files; and an intact seal vouches for       *)
(* manifests that were complete before it, whatever process was killed where *)
(* and whichever future completed first.                                     *)
EXTENDS SourcePool, OperatorProofs, FiniteSetTheorems, SequenceTheorems, TLAPS

(* The thirteen files differ; the seals are the last three.                  *)
LEMMA OutputOrder ==
  /\ DOMAIN Outputs = 1 .. 13 /\ Len(Outputs) = 13
  /\ ToSet(Outputs) = {Outputs[j] : j \in 1 .. 13}
  /\ Seals = {Outputs[j] : j \in 11 .. 13}
  /\ \A i, j \in 1 .. 13 : Outputs[i] = Outputs[j] => i = j
<1>1. DOMAIN Outputs = 1 .. 13 /\ Len(Outputs) = 13
  BY DEF Outputs, Manifests
<1>2. /\ Outputs[11] = <<"audits", "SEAL.json">> /\ Outputs[12] = <<"test_freeze", "SEAL.json">>
      /\ Outputs[13] = <<"audits", "SEAL.md">>
  BY DEF Outputs, Manifests
<1>3. \A i, j \in 1 .. 13 : Outputs[i] = Outputs[j] => i = j
  BY DEF Outputs, Manifests
<1>. QED
  BY <1>1, <1>2, <1>3 DEF ToSet, Seals

(* The issuers of the documents a process holds differ, and their frames on  *)
(* disk are the texts it holds: nothing else writes a frame of theirs.       *)
FreshIssuers == \A d, e \in acquired : d.issuer = e.issuer => d = e
FramesMatch == \A d \in acquired : frames[d.issuer] = d.text

(* A process writes its files one after the other, all of them after it has  *)
(* collected as many documents as the splits need: those it has written are  *)
(* its own, the others of an older process.                                  *)
FilesInOrder ==
  /\ DOMAIN output = ToSet(Outputs)
  /\ \A f \in ToSet(Outputs) : output[f].pool \in 0 .. pools
  /\ main \in {"loading", "acquiring", "closing", "aborting"} =>
       written = 0 /\ \A f \in ToSet(Outputs) : output[f].pool < pools
  /\ main = "writing" =>
       written < 13 /\ \A j \in 1 .. 13 : j > written => output[Outputs[j]].pool < pools
  /\ main = "finished" => written = 13
  /\ main \in {"writing", "finished"} =>
       /\ Cardinality(acquired) = Total
       /\ \A j \in 1 .. written : output[Outputs[j]] = [pool |-> pools, rows |-> RowsOf(Outputs[j])]

PoolInv ==
  TypeOK /\ IsFiniteSet(acquired) /\ FreshIssuers /\ FramesMatch /\ FilesInOrder /\ SealVouches

(* The rows of a file are those of the documents held, and nothing else.     *)
LEMMA RowsKept ==
  ASSUME NEW f, acquired' = acquired PROVE RowsOf(f)' = RowsOf(f)
<1>1. SortedById' = SortedById
  BY DEF SortedById
<1>2. Shuffled' = Shuffled
  BY <1>1 DEF Shuffled
<1>3. \A k : Split(k)' = Split(k)
  BY <1>2 DEF Split
<1>. QED
  BY <1>2, <1>3 DEF RowsOf
-----------------------------------------------------------------------------
(* Steps that leave the documents, the frames and the files alone.           *)
LEMMA FilesKept ==
  ASSUME PoolInv, UNCHANGED <<acquired, frames, written, output, pools>>,
         \/ main' = main
         \/ main' \in {"failed", "acquiring", "aborting"} /\ main \in {"loading", "acquiring", "closing", "aborting"}
  PROVE  /\ IsFiniteSet(acquired)' /\ FreshIssuers' /\ FramesMatch' /\ FilesInOrder' /\ SealVouches'
<1>1. IsFiniteSet(acquired)' /\ FreshIssuers' /\ FramesMatch' /\ SealVouches'
  BY DEF PoolInv, FreshIssuers, FramesMatch, SealVouches, Absent
<1>2. \A f : RowsOf(f)' = RowsOf(f)
  BY RowsKept
<1>3. FilesInOrder'
  BY <1>2 DEF PoolInv, FilesInOrder
<1>. QED
  BY <1>1, <1>3

(* A worker changes its own place and the cache files of its issuer.         *)
LEMMA ThreadStep ==
  ASSUME PoolInv, PoolThreads
  PROVE  PoolInv'
<1>1. PICK p \in Positions : Begin(p) \/ WorkerStep(p)
  BY DEF PoolThreads
<1>2. Candidates[p] \in Issuers
  BY DEF Positions, Issuers, ToSet
<1>. DEFINE Kept == UNCHANGED <<main, target, start, acquired, written, tickers, frames, output, pools>>
            Went == \E w \in InProgress \union Returned : worker' = [worker EXCEPT ![p] = w]
            Cached == /\ submissions' \in [Issuers -> {"none", "torn", "whole"}]
                      /\ filings' \in [Issuers -> {"none", "torn", "whole"}]
<1>3. Kept /\ Went /\ Cached
  <2>. USE DEF MainAsIs, Goto, Save, PoolOpen
  <2>1. AfterSubmissions(Candidates[p]) \in InProgress \union Returned
    BY DEF AfterSubmissions, InProgress, Returned
  <2>2. Examined(Candidates[p]) \in InProgress \union Returned
    BY DEF Examined, Returned
  <2>3. /\ submissions \in [Issuers -> {"none", "torn", "whole"}]
        /\ filings \in [Issuers -> {"none", "torn", "whole"}]
    BY DEF PoolInv, TypeOK
  <2>4. CASE Begin(p)
    BY <2>3, <2>4 DEF Begin, InProgress
  <2>5. CASE ReadSubmissions(p)
    <3>1. submissions[Candidates[p]] \in {"none", "torn", "whole"}
      BY <1>2, <2>3
    <3>. QED
      BY <2>1, <2>3, <2>5, <3>1 DEF ReadSubmissions, InProgress, Returned
  <2>6. CASE FetchSubmissions(p)
    BY <1>2, <2>3, <2>6 DEF FetchSubmissions, InProgress, Returned
  <2>7. CASE SaveSubmissions(p)
    BY <1>2, <2>1, <2>3, <2>7 DEF SaveSubmissions, InProgress, Returned
  <2>8. CASE ReadFiling(p)
    BY <2>2, <2>3, <2>8 DEF ReadFiling, InProgress, Returned
  <2>9. CASE FetchFiling(p)
    BY <1>2, <2>3, <2>9 DEF FetchFiling, InProgress, Returned
  <2>10. CASE StoreFiling(p)
    BY <1>2, <2>2, <2>3, <2>10 DEF StoreFiling, InProgress, Returned
  <2>. QED
    BY <1>1, <2>4, <2>5, <2>6, <2>7, <2>8, <2>9, <2>10 DEF WorkerStep
<1>4. worker' \in [Positions -> {"queued"} \union InProgress \union Returned]
  BY <1>3 DEF PoolInv, TypeOK
<1>5. TypeOK'
  BY <1>3, <1>4 DEF PoolInv, TypeOK
<1>. QED
  BY <1>3, <1>5, FilesKept DEF PoolInv

LEMMA WorkerCollected ==
  ASSUME PoolInv, NEW p \in Positions, worker' = [worker EXCEPT ![p] = "collected"]
  PROVE  worker' \in [Positions -> {"queued"} \union InProgress \union Returned]
<1>. DEFINE Places == {"queued"} \union InProgress \union Returned
<1>1. worker \in [Positions -> Places]
  BY DEF PoolInv, TypeOK
<1>2. "collected" \in Places
  BY DEF Returned
<1>. HIDE DEF Places
<1>3. worker' \in [Positions -> Places]
  BY <1>1, <1>2
<1>. QED
  BY <1>3 DEF Places

(* The main thread while it loads, waits or leaves the loop.                 *)
LEMMA WaitingStep ==
  ASSUME PoolInv, LoadTickers \/ NextBatch \/ \E p \in Positions : Discard(p)
  PROVE  PoolInv'
<1>1. UNCHANGED <<acquired, frames, written, output, pools, target, submissions, filings>>
  BY DEF LoadTickers, NextBatch, Discard, caches, Goto, Seen
<1>2. \/ main' = main
      \/ main' \in {"failed", "acquiring"} /\ main \in {"loading", "acquiring"}
  BY DEF LoadTickers, NextBatch, Discard, Goto, Seen
<1>3. tickers' \in {"none", "torn", "whole"}
  BY DEF LoadTickers, NextBatch, Discard, caches, Goto, Seen, PoolInv, TypeOK
<1>4. start' \in Nat
  BY SourcePoolAssumption DEF LoadTickers, NextBatch, Discard, Goto, Seen, PoolInv, TypeOK
<1>5. worker' \in [Positions -> {"queued"} \union InProgress \union Returned]
  BY WorkerCollected DEF LoadTickers, NextBatch, Discard, Goto, Seen, PoolInv, TypeOK
<1>6. TypeOK'
  BY <1>1, <1>2, <1>3, <1>4, <1>5 DEF PoolInv, TypeOK
<1>. QED
  BY <1>1, <1>2, <1>6, FilesKept DEF PoolInv

(* A document of a new issuer, and its frame.                                *)
LEMMA AcquireStep ==
  ASSUME PoolInv, NEW p \in Positions, Acquire(p)
  PROVE  PoolInv'
<1>. DEFINE i == Candidates[p]
            text == TextOf(worker[p])
            doc == Document(i, text)
<1>1. i \in Issuers
  BY DEF Positions, Issuers, ToSet
<1>2. text \in {"whole", "part"} /\ doc \in [issuer : Issuers, text : {"whole", "part"}]
  BY <1>1 DEF TextOf, Document
<1>3. /\ acquired' = acquired \union {doc} /\ frames' = [frames EXCEPT ![i] = text]
      /\ worker' = [worker EXCEPT ![p] = "collected"]
      /\ main = "acquiring" /\ main' \in {"acquiring", "closing"} /\ ~Seen(i)
      /\ UNCHANGED <<target, start, written, caches, output, pools>>
  BY DEF Acquire, Save, Goto, Seen, caches
<1>4. doc.issuer = i /\ doc.text = text
  BY DEF Document
<1>. HIDE DEF i, text, doc
<1>5. worker' \in [Positions -> {"queued"} \union InProgress \union Returned]
  BY <1>3, WorkerCollected
<1>6. TypeOK'
  BY <1>1, <1>2, <1>3, <1>5 DEF PoolInv, TypeOK, caches
<1>7. IsFiniteSet(acquired)'
  BY <1>3, FS_AddElement DEF PoolInv
<1>8. FreshIssuers'
  BY <1>3, <1>4 DEF PoolInv, FreshIssuers, Seen
<1>9. FramesMatch'
  BY <1>1, <1>3, <1>4 DEF PoolInv, TypeOK, FramesMatch, Seen
<1>10. FilesInOrder' /\ SealVouches'
  BY <1>3 DEF PoolInv, FilesInOrder, SealVouches, Absent
<1>. QED
  BY <1>6, <1>7, <1>8, <1>9, <1>10 DEF PoolInv

(* The frame of an issuer that is not held is torn by a failing write.       *)
LEMMA TornFrame ==
  ASSUME PoolInv, NEW p \in Positions, ~Seen(Candidates[p]), frames' = Save(frames, Candidates[p], "torn"),
         acquired' = acquired
  PROVE  FramesMatch' /\ frames' \in [Issuers -> {"none", "torn", "whole", "part"}]
BY DEF Save, Seen, PoolInv, TypeOK, FramesMatch

LEMMA AcquireRaisesStep ==
  ASSUME PoolInv, NEW p \in Positions, AcquireRaises(p)
  PROVE  PoolInv'
<1>1. /\ main = "acquiring" /\ main' = "aborting"
      /\ worker' = [worker EXCEPT ![p] = "collected"]
      /\ UNCHANGED <<target, start, acquired, written, caches, output, pools>>
  BY DEF AcquireRaises, Goto, Save, Seen, caches
<1>2. FramesMatch' /\ frames' \in [Issuers -> {"none", "torn", "whole", "part"}]
  BY TornFrame DEF AcquireRaises, Goto, Seen, Save
<1>3. worker' \in [Positions -> {"queued"} \union InProgress \union Returned]
  BY <1>1, WorkerCollected
<1>4. TypeOK'
  BY <1>1, <1>2, <1>3 DEF PoolInv, TypeOK, caches
<1>5. IsFiniteSet(acquired)' /\ FreshIssuers' /\ FilesInOrder' /\ SealVouches'
  BY <1>1 DEF PoolInv, FreshIssuers, FilesInOrder, SealVouches, Absent
<1>. QED
  BY <1>2, <1>4, <1>5 DEF PoolInv

(* The pool is left with the documents of the study, or not at all.          *)
LEMMA ExitStep ==
  ASSUME PoolInv, PoolExits
  PROVE  PoolInv'
<1>1. /\ main \in {"closing", "aborting"} /\ main' \in {"writing", "failed"}
      /\ main' = "writing" => Cardinality(acquired) = Total
      /\ UNCHANGED <<target, start, worker, acquired, written, caches, frames, output, pools>>
  BY DEF PoolExits
<1>2. TypeOK'
  BY <1>1 DEF PoolInv, TypeOK, caches
<1>3. written = 0 /\ \A f \in ToSet(Outputs) : output[f].pool < pools
  BY <1>1 DEF PoolInv, FilesInOrder
<1>4. FilesInOrder'
  BY <1>1, <1>3, OutputOrder DEF PoolInv, FilesInOrder
<1>5. IsFiniteSet(acquired)' /\ FreshIssuers' /\ FramesMatch' /\ SealVouches'
  BY <1>1 DEF PoolInv, FreshIssuers, FramesMatch, SealVouches, Absent
<1>. QED
  BY <1>2, <1>4, <1>5 DEF PoolInv
(* A file is written when all before it are of this process: a seal comes    *)
(* after every manifest it names.                                            *)
LEMMA WriteStep ==
  ASSUME PoolInv, WriteOutput
  PROVE  PoolInv'
<1>. DEFINE n == written + 1
            c == [pool |-> pools, rows |-> RowsOf(Outputs[n])]
<1>1. /\ main = "writing" /\ written' = n /\ output' = [output EXCEPT ![Outputs[n]] = c]
      /\ main' = IF n = 13 THEN "finished" ELSE main
      /\ UNCHANGED <<target, start, worker, acquired, caches, frames, pools>>
  BY OutputOrder DEF WriteOutput
<1>2. written \in 0 .. 12 /\ n \in 1 .. 13 /\ pools \in 1 .. MaxPools /\ pools \in Nat
  BY <1>1, OutputOrder, SourcePoolAssumption DEF PoolInv, TypeOK, FilesInOrder
<1>3. Outputs[n] \in ToSet(Outputs) /\ c.pool = pools
  BY <1>2, OutputOrder
<1>4. \A j \in 1 .. 13 : output'[Outputs[j]] = IF j = n THEN c ELSE output[Outputs[j]]
  <2>. HIDE DEF c
  <2>. QED
    BY <1>1, <1>2, OutputOrder DEF PoolInv, FilesInOrder
<1>5. DOMAIN output' = ToSet(Outputs)
  BY <1>1 DEF PoolInv, FilesInOrder
<1>6. \A j \in 1 .. 13 : RowsOf(Outputs[j])' = RowsOf(Outputs[j])
  <2>1. ASSUME NEW f PROVE RowsOf(f)' = RowsOf(f)
    BY <1>1, RowsKept
  <2>2. Outputs' = Outputs
    BY DEF Outputs, Manifests
  <2>. QED
    BY <2>1, <2>2
<1>7. c = [pool |-> pools, rows |-> RowsOf(Outputs[n])]
  OBVIOUS
<1>. HIDE DEF c
<1>8. TypeOK'
  <2>1. \A f \in ToSet(Outputs) : output'[f].pool \in 0 .. MaxPools
    BY <1>2, <1>3, <1>4, OutputOrder DEF PoolInv, TypeOK
  <2>. QED
    BY <1>1, <1>2, <2>1, OutputOrder DEF PoolInv, TypeOK, caches
<1>9. FilesInOrder'
  <2>1. \A f \in ToSet(Outputs) : output'[f].pool \in 0 .. pools
    BY <1>2, <1>3, <1>4, OutputOrder DEF PoolInv, FilesInOrder
  <2>2. \A j \in 1 .. 13 : j > n => output'[Outputs[j]].pool < pools
    BY <1>1, <1>2, <1>4 DEF PoolInv, FilesInOrder
  <2>3. \A j \in 1 .. n : output'[Outputs[j]] = [pool |-> pools, rows |-> RowsOf(Outputs[j])]
    <3>. SUFFICES ASSUME NEW j \in 1 .. n
                  PROVE  output'[Outputs[j]] = [pool |-> pools, rows |-> RowsOf(Outputs[j])]
      OBVIOUS
    <3>1. CASE j = n
      BY <1>2, <1>4, <1>7, <3>1
    <3>2. CASE j # n
      <4>1. j \in 1 .. written /\ j \in 1 .. 13
        BY <1>2, <3>2
      <4>. QED
        BY <1>1, <1>4, <3>2, <4>1 DEF PoolInv, FilesInOrder
    <3>. QED
      BY <3>1, <3>2
  <2>4. \A j \in 1 .. n : output'[Outputs[j]] = [pool |-> pools', rows |-> RowsOf(Outputs[j])']
    <3>1. \A j \in 1 .. n : j \in 1 .. 13
      BY <1>2
    <3>. QED
      BY <1>1, <1>6, <2>3, <3>1
  <2>5. Cardinality(acquired') = Total
    BY <1>1 DEF PoolInv, FilesInOrder
  <2>. QED
    BY <1>1, <1>2, <1>5, <2>1, <2>2, <2>4, <2>5 DEF FilesInOrder
<1>10. SealVouches'
  <2>. SUFFICES ASSUME NEW s \in 11 .. 13, NEW j \in 1 .. 10,
                       output'[Outputs[s]].pool > 0,
                       output'[Outputs[j]].pool < output'[Outputs[s]].pool
                PROVE  output'[Outputs[j]] = Absent /\ output'[Outputs[s]].pool < pools
    <3>1. \A f \in ToSet(Outputs) \ Seals : \E k \in 1 .. 10 : f = Outputs[k]
      BY OutputOrder
    <3>. QED
      BY <1>1, <3>1, OutputOrder DEF SealVouches, Absent
  <2>0. /\ Outputs[s] \in Seals /\ Outputs[j] \in ToSet(Outputs) \ Seals
        /\ Outputs[s] \in ToSet(Outputs)
    BY OutputOrder
  <2>1. CASE n = s
    <3>1. output'[Outputs[j]].pool = pools
      <4>1. j \in 1 .. written /\ j # n /\ j \in 1 .. 13
        BY <1>2, <2>1
      <4>2. output[Outputs[j]] = [pool |-> pools, rows |-> RowsOf(Outputs[j])]
        BY <1>1, <4>1 DEF PoolInv, FilesInOrder
      <4>. QED
        BY <1>4, <4>1, <4>2
    <3>2. output'[Outputs[s]].pool = pools
      BY <1>3, <1>4, <2>1
    <3>. QED
      BY <1>2, <3>1, <3>2
  <2>2. CASE n = j
    <3>1. output'[Outputs[j]].pool = pools
      BY <1>3, <1>4, <2>2
    <3>2. output'[Outputs[s]].pool \in 0 .. pools
      BY <1>4, <2>0, <2>2 DEF PoolInv, FilesInOrder
    <3>. QED
      BY <1>2, <3>1, <3>2
  <2>3. CASE n # s /\ n # j
    <3>1. output'[Outputs[s]] = output[Outputs[s]] /\ output'[Outputs[j]] = output[Outputs[j]]
      BY <1>4, <2>3
    <3>. QED
      BY <2>0, <3>1 DEF PoolInv, SealVouches
  <2>. QED
    BY <2>1, <2>2, <2>3
<1>11. IsFiniteSet(acquired)' /\ FreshIssuers' /\ FramesMatch'
  BY <1>1 DEF PoolInv, FreshIssuers, FramesMatch
<1>. QED
  BY <1>8, <1>9, <1>10, <1>11 DEF PoolInv

(* What a killed process was writing is torn: a manifest of a later process  *)
(* than the seal, since the seals on disk are then of an earlier one.        *)
LEMMA CrashStep ==
  ASSUME PoolInv, Crash
  PROVE  PoolInv'
<1>1. /\ main' = "crashed" /\ start' = 0 /\ worker' = [p \in Positions |-> "queued"]
      /\ acquired' = {} /\ written' = 0 /\ UNCHANGED <<target, caches, pools>>
  BY DEF Crash, Forget
<1>2. frames' \in [Issuers -> {"none", "torn", "whole", "part"}]
  BY DEF Crash, Save, PoolInv, TypeOK, Seen
<1>3. \/ output' = output
      \/ main = "writing" /\ output' = [output EXCEPT ![Outputs[written + 1]] = Absent]
  BY DEF Crash, Seen
<1>4. /\ DOMAIN output' = ToSet(Outputs)
      /\ \A f \in ToSet(Outputs) : output'[f] \in {output[f], Absent}
  BY <1>3 DEF PoolInv, FilesInOrder
<1>5. pools \in Nat /\ pools \in 1 .. MaxPools /\ Absent.pool = 0
  BY SourcePoolAssumption DEF PoolInv, TypeOK, Absent
<1>6. \A f \in ToSet(Outputs) : output'[f].pool \in 0 .. pools
  BY <1>4, <1>5 DEF PoolInv, FilesInOrder
<1>7. TypeOK'
  <2>1. 0 \in 0 .. Len(Outputs)
    BY OutputOrder
  <2>2. \A f \in ToSet(Outputs) : output'[f].pool \in 0 .. MaxPools
    BY <1>5, <1>6, SourcePoolAssumption
  <2>3. worker' \in [Positions -> {"queued"} \union InProgress \union Returned]
    BY <1>1
  <2>. QED
    BY <1>1, <1>2, <2>1, <2>2, <2>3 DEF PoolInv, TypeOK, caches
<1>8. FilesInOrder'
  BY <1>1, <1>4, <1>6 DEF FilesInOrder
<1>9. SealVouches'
  <2>1. CASE output' = output
    BY <1>1, <2>1 DEF PoolInv, SealVouches, Absent
  <2>2. CASE main = "writing" /\ output' = [output EXCEPT ![Outputs[written + 1]] = Absent]
    <3>. SUFFICES ASSUME NEW s \in Seals, NEW f \in ToSet(Outputs) \ Seals,
                         output'[s].pool > 0, output'[f].pool < output'[s].pool
                  PROVE  output'[f] = Absent /\ output'[s].pool < pools
      BY <1>1 DEF SealVouches, Absent
    <3>1. s \in ToSet(Outputs) /\ output'[s] = output[s]
      BY <1>4, <1>5, OutputOrder
    <3>2. CASE f # Outputs[written + 1]
      <4>1. output'[f] = output[f]
        BY <2>2, <3>2 DEF PoolInv, FilesInOrder
      <4>. QED
        BY <3>1, <4>1 DEF PoolInv, SealVouches
    <3>3. CASE f = Outputs[written + 1]
      <4>1. output'[f] = Absent
        BY <2>2, <3>3 DEF PoolInv, FilesInOrder
      <4>2. PICK k \in 11 .. 13 : s = Outputs[k]
        BY OutputOrder
      <4>3. written \in 0 .. 12
        BY <2>2, OutputOrder DEF PoolInv, TypeOK, FilesInOrder
      <4>4. written < k
        <5>1. ASSUME written + 1 \in 11 .. 13 PROVE FALSE
          BY <3>3, <5>1, OutputOrder
        <5>. QED
          BY <4>3, <5>1
      <4>5. output[s].pool < pools
        BY <2>2, <4>2, <4>4 DEF PoolInv, FilesInOrder
      <4>. QED
        BY <3>1, <4>1, <4>5
    <3>. QED
      BY <3>2, <3>3
  <2>. QED
    BY <1>3, <2>1, <2>2
<1>10. IsFiniteSet(acquired)' /\ FreshIssuers' /\ FramesMatch'
  BY <1>1, FS_EmptySet DEF FreshIssuers, FramesMatch
<1>. QED
  BY <1>7, <1>8, <1>9, <1>10 DEF PoolInv

LEMMA RestartStep ==
  ASSUME PoolInv, Restart
  PROVE  PoolInv'
<1>1. /\ main' = "loading" /\ start' = 0 /\ worker' = [p \in Positions |-> "queued"]
      /\ acquired' = {} /\ written' = 0 /\ pools' = pools + 1 /\ pools < MaxPools
      /\ target' \in TargetCounts /\ UNCHANGED <<caches, frames, output>>
  BY DEF Restart, Forget
<1>2. pools \in Nat /\ pools \in 1 .. MaxPools /\ MaxPools \in Nat
  BY SourcePoolAssumption DEF PoolInv, TypeOK
<1>3. \A f \in ToSet(Outputs) : output[f].pool \in 0 .. pools
  BY DEF PoolInv, FilesInOrder
<1>4. TypeOK'
  <2>1. 0 \in 0 .. Len(Outputs)
    BY OutputOrder
  <2>2. worker' \in [Positions -> {"queued"} \union InProgress \union Returned]
    BY <1>1
  <2>. QED
    BY <1>1, <1>2, <2>1, <2>2 DEF PoolInv, TypeOK, caches
<1>5. FilesInOrder'
  <2>1. \A f \in ToSet(Outputs) : output'[f].pool \in 0 .. pools' /\ output'[f].pool < pools'
    BY <1>1, <1>2, <1>3
  <2>2. DOMAIN output' = ToSet(Outputs)
    BY <1>1 DEF PoolInv, FilesInOrder
  <2>. QED
    BY <1>1, <2>1, <2>2 DEF FilesInOrder
<1>6. SealVouches'
  <2>1. \A s \in Seals : output[s].pool \in 0 .. pools
    BY <1>3, OutputOrder
  <2>. QED
    BY <1>1, <1>2, <2>1 DEF PoolInv, SealVouches, Absent
<1>7. IsFiniteSet(acquired)' /\ FreshIssuers' /\ FramesMatch'
  BY <1>1, FS_EmptySet DEF FreshIssuers, FramesMatch
<1>. QED
  BY <1>4, <1>5, <1>6, <1>7 DEF PoolInv

LEMMA PoolBegins == ASSUME Init PROVE PoolInv
<1>1. 0 \in 0 .. Len(Outputs) /\ 1 \in 1 .. MaxPools /\ MaxPools \in Nat
  BY OutputOrder, SourcePoolAssumption
<1>2. \A f \in ToSet(Outputs) : output[f] = Absent /\ output[f].pool = 0
  BY DEF Init, Absent
<1>3. TypeOK
  BY <1>1, <1>2 DEF Init, TypeOK
<1>4. FilesInOrder
  BY <1>2 DEF Init, FilesInOrder
<1>5. SealVouches
  BY <1>2, OutputOrder DEF SealVouches
<1>. QED
  BY <1>3, <1>4, <1>5, FS_EmptySet DEF Init, PoolInv, FreshIssuers, FramesMatch

LEMMA PoolStep ==
  ASSUME PoolInv, [Next]_vars
  PROVE  PoolInv'
<1>1. CASE UNCHANGED vars
  <2>1. UNCHANGED <<main, target, start, worker, acquired, written, tickers, submissions, filings,
                    frames, output, pools>>
    BY <1>1 DEF vars, memory, caches
  <2>2. TypeOK'
    BY <2>1 DEF PoolInv, TypeOK
  <2>. QED
    BY <2>1, <2>2, FilesKept DEF PoolInv
<1>2. CASE MainStep
  BY <1>2, WaitingStep, ExitStep, WriteStep, AcquireStep, AcquireRaisesStep DEF MainStep
<1>. QED
  BY <1>1, <1>2, ThreadStep, CrashStep, RestartStep DEF Next

LEMMA PoolInvariant == Spec => []PoolInv
BY PoolBegins, PoolStep, PTL DEF Spec

(* Every variable keeps its type: no worker is lost, and no process writes a *)
(* fourteenth file.                                                          *)
THEOREM PoolTypes == Spec => []TypeOK
<1>1. PoolInv => TypeOK
  BY DEF PoolInv
<1>. QED
  BY <1>1, PoolInvariant, PTL

(* A seal on disk vouches for complete manifests: each one it names is of    *)
(* its own process or a later one, or is a file that a later process was     *)
(* killed in.                                                                *)
THEOREM SealedIsComplete == Spec => []SealVouches
<1>1. PoolInv => SealVouches
  BY DEF PoolInv
<1>. QED
  BY <1>1, PoolInvariant, PTL
-----------------------------------------------------------------------------
(* What is shuffled: every position holds a document of its own issuer.      *)
LEMMA ShuffledIsFresh ==
  ASSUME PoolInv, Cardinality(acquired) = Total
  PROVE  /\ Shuffled \in [1 .. Total -> acquired]
         /\ \A j, k \in 1 .. Total : Shuffled[j].issuer = Shuffled[k].issuer => j = k
<1>1. /\ IsFiniteSet(acquired) /\ \A d, e \in acquired : d.issuer = e.issuer => d = e
      /\ \A d \in acquired : d.issuer \in Nat
  <2>1. Issuers \subseteq Nat
    BY SourcePoolAssumption DEF Issuers, ToSet
  <2>. QED
    BY <2>1 DEF PoolInv, FreshIssuers, TypeOK
<1>2. Total \in Nat
  BY <1>1, FS_CardinalityType
<1>3. /\ SortedById \in [1 .. Total -> acquired]
      /\ \A j, k \in 1 .. Total : j < k => SortedById[j].issuer < SortedById[k].issuer
  <2>1. \E s \in [1 .. Cardinality(acquired) -> acquired] :
          \A j, k \in DOMAIN s : j < k => s[j].issuer < s[k].issuer
    <3>. DEFINE R == {p \in acquired \X acquired : p[1].issuer < p[2].issuer}
    <3>1. \A d, e \in acquired : <<d, e>> \in R <=> d.issuer < e.issuer
      OBVIOUS
    <3>. HIDE DEF R
    <3>2. /\ \A d \in acquired : <<d, d>> \notin R
          /\ \A d, e \in acquired : d # e => <<d, e>> \in R \/ <<e, d>> \in R
          /\ \A d, e, f \in acquired : <<d, e>> \in R /\ <<e, f>> \in R => <<d, f>> \in R
      BY <1>1, <3>1
    <3>3. PICK s \in [1 .. Cardinality(acquired) -> acquired] :
            \A j, k \in DOMAIN s : j < k => <<s[j], s[k]>> \in R
      BY <1>1, <3>2, SortingExists
    <3>. QED
      BY <3>1, <3>3
  <2>2. /\ SortedById \in [1 .. Cardinality(acquired) -> acquired]
        /\ \A j, k \in DOMAIN SortedById : j < k => SortedById[j].issuer < SortedById[k].issuer
    BY <2>1 DEF SortedById
  <2>. QED
    BY <2>2
<1>4. /\ Shuffle \in [1 .. Total -> 1 .. Total]
      /\ \A j, k \in 1 .. Total : Shuffle[j] = Shuffle[k] => j = k
  BY SourcePoolAssumption DEF IsInjective
<1>5. \A j \in 1 .. Total : Shuffled[j] = SortedById[Shuffle[j]]
  BY DEF Shuffled
<1>6. Shuffled \in [1 .. Total -> acquired]
  BY <1>3, <1>4 DEF Shuffled
<1>7. ASSUME NEW j \in 1 .. Total, NEW k \in 1 .. Total, Shuffled[j].issuer = Shuffled[k].issuer
      PROVE  j = k
  <2>. DEFINE a == Shuffle[j]
              b == Shuffle[k]
  <2>1. a \in 1 .. Total /\ b \in 1 .. Total
    BY <1>4
  <2>2. SortedById[a] \in acquired /\ SortedById[b] \in acquired
    BY <1>3, <2>1
  <2>3. SortedById[a].issuer = SortedById[b].issuer /\ SortedById[a].issuer \in Nat
    BY <1>1, <1>5, <1>7, <2>2
  <2>. HIDE DEF a, b
  <2>4. ~ (a < b) /\ ~ (b < a)
    BY <1>1, <1>3, <2>1, <2>2, <2>3
  <2>5. a = b
    BY <1>2, <2>1, <2>4
  <2>. QED
    BY <1>4, <2>5 DEF a, b
<1>. QED
  BY <1>6, <1>7
-----------------------------------------------------------------------------
(* Where a split begins: after those before it; the last ends with the pool. *)
Lo(k) == SumOf(SubSeq(Sizes, 1, k - 1))

LEMMA SumOfSequence == ASSUME NEW s \in Seq(Nat) PROVE SumOf(s) = SumOver(s, 1 .. Len(s))
<1>1. DOMAIN s = 1 .. Len(s)
  OBVIOUS
<1>2. SumOf(s) = SumOver(s, DOMAIN s)
  BY DEF SumOf, FoldSeq, FoldFunction, FoldFunctionOnSet, SumOver, MapThenSumSet, MapThenFoldSet
<1>. QED
  BY <1>1, <1>2

LEMMA SplitBounds ==
  /\ Sizes[1] \in Nat /\ Sizes[2] \in Nat /\ Sizes[3] \in Nat /\ Sizes[4] \in Nat
  /\ Lo(1) = 0 /\ Lo(2) = Sizes[1] /\ Lo(3) = Sizes[1] + Sizes[2]
  /\ Lo(4) = Sizes[1] + Sizes[2] + Sizes[3]
  /\ Total = Sizes[1] + Sizes[2] + Sizes[3] + Sizes[4]
<1>. DEFINE S(k) == SumOver(Sizes, 1 .. k)
<1>0. Sizes \in Seq(Nat) /\ Len(Sizes) = 4
  BY Zenon, SourcePoolAssumption
<1>1. /\ Sizes \in Seq(Nat) /\ Len(Sizes) = 4 /\ DOMAIN Sizes = 1 .. 4
      /\ \A k \in 1 .. 4 : Sizes[k] \in Nat
  <2>1. DOMAIN Sizes = 1 .. 4
    BY <1>0, LenProperties
  <2>2. \A k \in 1 .. 4 : Sizes[k] \in Nat
    BY <1>0, <2>1, ElementOfSeq
  <2>. QED
    BY <1>0, <2>1, <2>2
<1>2. ASSUME NEW k \in 1 .. 4 PROVE S(k) = Sizes[k] + S(k - 1)
  <2>1. IsFiniteSet(1 .. k)
    BY FS_Interval
  <2>2. \A x \in 1 .. k : Sizes[x] \in Int
    <3>1. 1 .. k \subseteq 1 .. 4
      OBVIOUS
    <3>. QED
      BY <1>1, <3>1
  <2>3. (1 .. k) \ {k} = 1 .. (k - 1) /\ k \in 1 .. k
    OBVIOUS
  <2>4. SumOver(Sizes, 1 .. k) = Sizes[k] + SumOver(Sizes, (1 .. k) \ {k})
    BY <2>1, <2>2, <2>3, SumTakesOut
  <2>. QED
    BY <2>3, <2>4
<1>3. S(0) = 0
  <2>1. 1 .. 0 = {}
    OBVIOUS
  <2>. QED
    BY <2>1, SumOfNone
<1>4. ASSUME NEW k \in 1 .. 4 PROVE Lo(k) = S(k - 1)
  <2>. DEFINE part == SubSeq(Sizes, 1, k - 1)
  <2>1. part \in Seq(Nat) /\ Len(part) = k - 1 /\ \A x \in 1 .. (k - 1) : part[x] = Sizes[x]
    <3>1. k - 1 \in 0 .. Len(Sizes) /\ 1 \in 1 .. (Len(Sizes) + 1)
      BY <1>1
    <3>2. part \in Seq(Nat) /\ Len(part) = k - 1 /\ \A x \in 1 .. (k - 1) : part[x] = Sizes[1 + x - 1]
      BY <1>1, <3>1, SubSeqProperties
    <3>3. \A x \in 1 .. (k - 1) : 1 + x - 1 = x
      OBVIOUS
    <3>. QED
      BY <3>2, <3>3
  <2>. HIDE DEF part
  <2>2. SumOf(part) = SumOver(part, 1 .. (k - 1))
    BY <2>1, SumOfSequence
  <2>3. IsFiniteSet(1 .. (k - 1))
    BY FS_Interval
  <2>4. SumOver(part, 1 .. (k - 1)) = SumOver(Sizes, 1 .. (k - 1))
    BY <2>1, <2>3, SumCongruence
  <2>. QED
    BY <2>2, <2>4 DEF Lo, part
<1>5. Total = S(4)
  BY <1>1, SumOfSequence DEF Total
<1>. HIDE DEF S
<1>6. S(1) = Sizes[1] /\ S(2) = Sizes[2] + S(1) /\ S(3) = Sizes[3] + S(2) /\ S(4) = Sizes[4] + S(3)
  <2>1. S(1) = Sizes[1] + S(1 - 1) /\ S(2) = Sizes[2] + S(2 - 1) /\ S(3) = Sizes[3] + S(3 - 1)
        /\ S(4) = Sizes[4] + S(4 - 1)
    BY <1>2
  <2>. QED
    BY <1>1, <1>3, <2>1
<1>7. Lo(1) = S(0) /\ Lo(2) = S(1) /\ Lo(3) = S(2) /\ Lo(4) = S(3)
  <2>1. Lo(1) = S(1 - 1) /\ Lo(2) = S(2 - 1) /\ Lo(3) = S(3 - 1) /\ Lo(4) = S(4 - 1)
    BY <1>4
  <2>. QED
    BY <2>1
<1>8. Sizes[1] \in Nat /\ Sizes[2] \in Nat /\ Sizes[3] \in Nat /\ Sizes[4] \in Nat
  <2>1. 1 \in 1 .. 4 /\ 2 \in 1 .. 4 /\ 3 \in 1 .. 4 /\ 4 \in 1 .. 4
    OBVIOUS
  <2>. QED
    BY <1>1, <2>1
<1>. DEFINE a == Sizes[1]
            b == Sizes[2]
            c == Sizes[3]
            d == Sizes[4]
<1>9. a \in Nat /\ b \in Nat /\ c \in Nat /\ d \in Nat
  BY <1>8
<1>10. S(1) = a /\ S(2) = b + S(1) /\ S(3) = c + S(2) /\ S(4) = d + S(3)
  BY <1>6
<1>11. /\ Lo(1) = 0 /\ Lo(2) = a /\ Lo(3) = a + b /\ Lo(4) = a + b + c
       /\ Total = a + b + c + d
  <2>. HIDE DEF a, b, c, d, Lo, Total
  <2>. QED
    BY <1>3, <1>5, <1>7, <1>9, <1>10
<1>. QED
  BY <1>8, <1>11

(* The four splits cut 1 .. Total into intervals.                            *)
LEMMA SplitsCover ==
  /\ \A k \in 1 .. 4 : Lo(k) \in Nat /\ Sizes[k] \in Nat /\ Lo(k) + Sizes[k] <= Total
  /\ \A k, m \in 1 .. 4 : k < m => Lo(k) + Sizes[k] <= Lo(m)
  /\ \A x \in 1 .. Total : \E k \in 1 .. 4 : x \in (Lo(k) + 1) .. (Lo(k) + Sizes[k])
<1>. DEFINE a == Sizes[1]
            b == Sizes[2]
            c == Sizes[3]
            d == Sizes[4]
<1>1. /\ a \in Nat /\ b \in Nat /\ c \in Nat /\ d \in Nat
      /\ Lo(1) = 0 /\ Lo(2) = a /\ Lo(3) = a + b /\ Lo(4) = a + b + c
      /\ Total = a + b + c + d
  BY SplitBounds
<1>2. \A k \in 1 .. 4 : k = 1 \/ k = 2 \/ k = 3 \/ k = 4
  OBVIOUS
<1>3. Sizes[1] = a /\ Sizes[2] = b /\ Sizes[3] = c /\ Sizes[4] = d
  OBVIOUS
<1>. HIDE DEF a, b, c, d, Lo, Total
<1>4. ASSUME NEW k \in 1 .. 4 PROVE Lo(k) \in Nat /\ Sizes[k] \in Nat /\ Lo(k) + Sizes[k] <= Total
  <2>1. CASE k = 1
    BY <1>1, <1>3, <2>1
  <2>2. CASE k = 2
    BY <1>1, <1>3, <2>2
  <2>3. CASE k = 3
    BY <1>1, <1>3, <2>3
  <2>4. CASE k = 4
    BY <1>1, <1>3, <2>4
  <2>. QED
    BY <1>2, <2>1, <2>2, <2>3, <2>4
<1>5. ASSUME NEW k \in 1 .. 4, NEW m \in 1 .. 4, k < m PROVE Lo(k) + Sizes[k] <= Lo(m)
  <2>1. CASE k = 1
    BY <1>1, <1>2, <1>3, <1>5, <2>1
  <2>2. CASE k = 2
    BY <1>1, <1>2, <1>3, <1>5, <2>2
  <2>3. CASE k = 3
    BY <1>1, <1>2, <1>3, <1>5, <2>3
  <2>. QED
    BY <1>2, <1>5, <2>1, <2>2, <2>3
<1>6. ASSUME NEW x \in 1 .. Total PROVE \E k \in 1 .. 4 : x \in (Lo(k) + 1) .. (Lo(k) + Sizes[k])
  <2>1. CASE x <= a
    BY <1>1, <1>3, <2>1
  <2>2. CASE x > a /\ x <= a + b
    BY <1>1, <1>3, <2>2
  <2>3. CASE x > a + b /\ x <= a + b + c
    BY <1>1, <1>3, <2>3
  <2>4. CASE x > a + b + c
    BY <1>1, <1>3, <2>4
  <2>. QED
    BY <1>1, <2>1, <2>2, <2>3, <2>4
<1>. QED
  BY <1>4, <1>5, <1>6

(* The rows of the k-th split are the shuffled documents of its interval.    *)
LEMMA SplitRows ==
  ASSUME PoolInv, Cardinality(acquired) = Total, NEW k \in 1 .. 4
  PROVE  /\ DOMAIN Split(k) = 1 .. Sizes[k]
         /\ \A j \in 1 .. Sizes[k] : Lo(k) + j \in 1 .. Total /\ Split(k)[j] = Shuffled[Lo(k) + j]
<1>. DEFINE lo == Lo(k)
            n == Sizes[k]
<1>1. lo \in Nat /\ n \in Nat /\ lo + n <= Total /\ Total \in Nat
  BY SplitsCover, SplitBounds
<1>2. Split(k) = SubSeq(Shuffled, lo + 1, lo + n)
  BY DEF Split, Lo
<1>3. Shuffled \in [1 .. Total -> acquired]
  BY ShuffledIsFresh
<1>. HIDE DEF lo, n, Total
<1>4. \A i \in (lo + 1) .. (lo + n) : i \in 1 .. Total /\ Shuffled[i] \in acquired
  BY <1>1, <1>3
<1>. DEFINE from == lo + 1
            to == lo + n
            part == SubSeq(Shuffled, from, to)
<1>5. from \in Int /\ to \in Int /\ \A i \in from .. to : Shuffled[i] \in acquired
  BY <1>1, <1>4
<1>6. /\ (IF from <= to THEN to - from + 1 ELSE 0) = n /\ 1 .. to - from + 1 = 1 .. n
      /\ \A i \in 1 .. n : from + i - 1 = lo + i /\ lo + i \in 1 .. Total
  BY <1>1
<1>. HIDE DEF from, to
<1>7. /\ part \in Seq(acquired)
      /\ Len(part) = IF from <= to THEN to - from + 1 ELSE 0
      /\ \A i \in 1 .. to - from + 1 : part[i] = Shuffled[from + i - 1]
  BY <1>5, SubSeqProperties
<1>. HIDE DEF part
<1>8. DOMAIN part = 1 .. n
  BY <1>6, <1>7, LenProperties
<1>9. \A i \in 1 .. n : part[i] = Shuffled[lo + i] /\ lo + i \in 1 .. Total
  BY <1>6, <1>7
<1>10. Split(k) = part
  BY <1>2 DEF part, from, to
<1>. QED
  BY <1>8, <1>9, <1>10 DEF lo, n

(* The file a manifest's rows go to.                                         *)
LEMMA ManifestRows ==
  /\ \A k \in 1 .. 4, d \in {"source_manifests", "data"} :
       <<d, Splits[k]>> \in ToSet(Outputs) /\ RowsOf(<<d, Splits[k]>>) = Split(k)
  /\ <<"data", "SOURCE_POOL">> \in ToSet(Outputs) /\ RowsOf(<<"data", "SOURCE_POOL">>) = Shuffled
<1>1. /\ Splits[1] = "CALIBRATION" /\ Splits[2] = "STAGE1"
      /\ Splits[3] = "STAGE2_DEV" /\ Splits[4] = "STAGE2_TEST"
  BY DEF Splits
<1>2. \A k, m \in 1 .. 4 : Splits[k] = Splits[m] => k = m
  BY <1>1
<1>3. \A k \in 1 .. 4 : Splits[k] # "SOURCE_POOL"
  BY <1>1
<1>4. /\ Outputs[1] = <<"data", "SOURCE_POOL">>
      /\ Outputs[3] = <<"source_manifests", "CALIBRATION">> /\ Outputs[4] = <<"data", "CALIBRATION">>
      /\ Outputs[5] = <<"source_manifests", "STAGE1">> /\ Outputs[6] = <<"data", "STAGE1">>
      /\ Outputs[7] = <<"source_manifests", "STAGE2_DEV">> /\ Outputs[8] = <<"data", "STAGE2_DEV">>
      /\ Outputs[9] = <<"source_manifests", "STAGE2_TEST">> /\ Outputs[10] = <<"data", "STAGE2_TEST">>
  BY DEF Outputs, Manifests
<1>5. \A j \in 1 .. 13 : Outputs[j] \in ToSet(Outputs)
  BY OutputOrder
<1>6. <<"data", "SOURCE_POOL">> \in ToSet(Outputs)
  BY <1>4, <1>5
<1>7. ASSUME NEW k \in 1 .. 4, NEW d \in {"source_manifests", "data"}
      PROVE  <<d, Splits[k]>> \in ToSet(Outputs)
  <2>1. CASE k = 1
    BY <1>1, <1>4, <1>5, <2>1
  <2>2. CASE k = 2
    BY <1>1, <1>4, <1>5, <2>2
  <2>3. CASE k = 3
    BY <1>1, <1>4, <1>5, <2>3
  <2>4. CASE k = 4
    BY <1>1, <1>4, <1>5, <2>4
  <2>. QED
    BY <2>1, <2>2, <2>3, <2>4
<1>8. ASSUME NEW k \in 1 .. 4, NEW d \in {"source_manifests", "data"}
      PROVE  RowsOf(<<d, Splits[k]>>) = Split(k)
  <2>. DEFINE f == <<d, Splits[k]>>
  <2>1. f[2] = Splits[k]
    OBVIOUS
  <2>. HIDE DEF f
  <2>2. (CHOOSE m \in 1 .. 4 : f[2] = Splits[m]) = k
    BY <1>2, <2>1
  <2>3. \E m \in 1 .. 4 : f[2] = Splits[m]
    BY <2>1
  <2>4. RowsOf(f) = Split(k)
    <3>. HIDE DEF Split
    <3>. QED
      BY <2>2, <2>3 DEF RowsOf
  <2>. QED
    BY <2>4 DEF f
<1>9. RowsOf(<<"data", "SOURCE_POOL">>) = Shuffled
  <2>. DEFINE f == <<"data", "SOURCE_POOL">>
  <2>1. ~ \E m \in 1 .. 4 : f[2] = Splits[m]
    BY <1>3
  <2>. HIDE DEF f
  <2>2. RowsOf(f) = Shuffled
    BY <2>1 DEF RowsOf
  <2>. QED
    BY <2>2 DEF f
<1>. QED
  BY <1>6, <1>7, <1>8, <1>9

(* A split has as many issuers as documents.                                 *)
LEMMA SplitIssuers ==
  ASSUME PoolInv, Cardinality(acquired) = Total, NEW k \in 1 .. 4
  PROVE  Cardinality(IssuersOf(Split(k))) = Sizes[k]
<1>. DEFINE n == Sizes[k]
            T == IssuersOf(Split(k))
            g == [j \in 1 .. n |-> Split(k)[j].issuer]
<1>1. n \in Nat /\ Lo(k) \in Nat
  BY SplitsCover
<1>2. /\ DOMAIN Split(k) = 1 .. n
      /\ \A j \in 1 .. n : Lo(k) + j \in 1 .. Total /\ Split(k)[j] = Shuffled[Lo(k) + j]
  BY SplitRows
<1>3. T = {Split(k)[j].issuer : j \in 1 .. n}
  BY <1>2 DEF IssuersOf
<1>4. \A i, j \in 1 .. n : Split(k)[i].issuer = Split(k)[j].issuer => i = j
  <2>1. ASSUME NEW i \in 1 .. n, NEW j \in 1 .. n, Split(k)[i].issuer = Split(k)[j].issuer
        PROVE  i = j
    <3>1. Shuffled[Lo(k) + i].issuer = Shuffled[Lo(k) + j].issuer
      BY <1>2, <2>1
    <3>2. Lo(k) + i = Lo(k) + j
      BY <1>2, <3>1, ShuffledIsFresh
    <3>. HIDE DEF n, Lo
    <3>. QED
      BY <1>1, <3>2
  <2>. QED
    BY <2>1
<1>. HIDE DEF n, T, Split
<1>5. g \in Surjection(1 .. n, T) /\ g \in Injection(1 .. n, T)
  BY <1>3, <1>4 DEF Surjection, Injection, IsInjective
<1>6. IsFiniteSet(1 .. n) /\ Cardinality(1 .. n) = n
  <2>1. n \in Int /\ 1 \in Int
    BY <1>1
  <2>2. IsFiniteSet(1 .. n) /\ Cardinality(1 .. n) = IF 1 > n THEN 0 ELSE n - 1 + 1
    BY <2>1, FS_Interval
  <2>. QED
    BY <1>1, <2>2
<1>. HIDE DEF g
<1>7. Cardinality(T) = Cardinality(1 .. n)
  BY <1>5, <1>6, FS_Surjection
<1>. QED
  BY <1>6, <1>7 DEF n, T

(* Two splits have no issuer in common.                                      *)
LEMMA SplitsApart ==
  ASSUME PoolInv, Cardinality(acquired) = Total, NEW k \in 1 .. 4, NEW m \in 1 .. 4, k < m
  PROVE  IssuersOf(Split(k)) \intersect IssuersOf(Split(m)) = {}
<1>. SUFFICES ASSUME NEW x \in IssuersOf(Split(k)), x \in IssuersOf(Split(m)) PROVE FALSE
  OBVIOUS
<1>1. PICK i \in 1 .. Sizes[k] : x = Split(k)[i].issuer
  BY SplitRows DEF IssuersOf
<1>2. PICK j \in 1 .. Sizes[m] : x = Split(m)[j].issuer
  BY SplitRows DEF IssuersOf
<1>3. /\ Lo(k) + i \in 1 .. Total /\ Split(k)[i] = Shuffled[Lo(k) + i]
      /\ Lo(m) + j \in 1 .. Total /\ Split(m)[j] = Shuffled[Lo(m) + j]
  BY SplitRows
<1>4. Lo(k) + i = Lo(m) + j
  BY <1>1, <1>2, <1>3, ShuffledIsFresh
<1>5. /\ Lo(k) \in Nat /\ Sizes[k] \in Nat /\ Lo(m) \in Nat /\ Sizes[m] \in Nat
      /\ Lo(k) + Sizes[k] <= Lo(m)
  BY SplitsCover
<1>. HIDE DEF Lo
<1>. QED
  BY <1>4, <1>5

(* Every document of the pool is in a split, and nothing else is.            *)
LEMMA SplitsMakePool ==
  ASSUME PoolInv, Cardinality(acquired) = Total
  PROVE  UNION {ToSet(Split(k)) : k \in 1 .. 4} = ToSet(Shuffled)
<1>1. DOMAIN Shuffled = 1 .. Total
  BY DEF Shuffled
<1>2. ASSUME NEW x \in UNION {ToSet(Split(k)) : k \in 1 .. 4} PROVE x \in ToSet(Shuffled)
  <2>1. PICK k \in 1 .. 4 : x \in ToSet(Split(k))
    BY <1>2
  <2>2. PICK j \in DOMAIN Split(k) : x = Split(k)[j]
    BY <2>1 DEF ToSet
  <2>3. Lo(k) + j \in 1 .. Total /\ x = Shuffled[Lo(k) + j]
    BY <2>2, SplitRows
  <2>. QED
    BY <1>1, <2>3 DEF ToSet
<1>3. ASSUME NEW x \in ToSet(Shuffled) PROVE x \in UNION {ToSet(Split(k)) : k \in 1 .. 4}
  <2>1. PICK i \in 1 .. Total : x = Shuffled[i]
    BY <1>1 DEF ToSet
  <2>2. PICK k \in 1 .. 4 : i \in (Lo(k) + 1) .. (Lo(k) + Sizes[k])
    BY SplitsCover
  <2>3. Lo(k) \in Nat /\ Sizes[k] \in Nat
    BY SplitsCover
  <2>. DEFINE j == i - Lo(k)
  <2>4. j \in 1 .. Sizes[k] /\ Lo(k) + j = i
    <3>. HIDE DEF Lo
    <3>. QED
      BY <2>2, <2>3
  <2>5. DOMAIN Split(k) = 1 .. Sizes[k] /\ Split(k)[j] = Shuffled[i]
    <3>. HIDE DEF j
    <3>. QED
      BY <2>4, SplitRows
  <2>6. x \in ToSet(Split(k))
    BY <2>1, <2>4, <2>5 DEF ToSet
  <2>. QED
    BY <2>6
<1>. QED
  BY <1>2, <1>3

(* FinishedPoolIsConsistent (main of build_source_pool_sec.py): the splits   *)
(* of a finished process are its own, of the preregistered sizes, without a  *)
(* common issuer, make up the pool, agree with their copies and with the     *)
(* frame files, in whatever order the futures completed.                     *)
THEOREM PoolIsConsistent == Spec => []FinishedPoolIsConsistent
<1>1. ASSUME PoolInv PROVE FinishedPoolIsConsistent
  <2>. SUFFICES ASSUME main = "finished" PROVE
         /\ \A f \in ToSet(Outputs) : output[f].pool = pools
         /\ \A k \in 1 .. 4 :
              /\ Cardinality(IssuersOf(Rows(k))) = Sizes[k]
              /\ Rows(k) = output[<<"data", Splits[k]>>].rows
              /\ \A j \in (k + 1) .. 4 : IssuersOf(Rows(k)) \intersect IssuersOf(Rows(j)) = {}
              /\ \A j \in DOMAIN Rows(k) : frames[Rows(k)[j].issuer] = Rows(k)[j].text
         /\ UNION {ToSet(Rows(k)) : k \in 1 .. 4} = ToSet(output[<<"data", "SOURCE_POOL">>].rows)
    BY DEF FinishedPoolIsConsistent
  <2>1. /\ Cardinality(acquired) = Total
        /\ \A j \in 1 .. 13 : output[Outputs[j]] = [pool |-> pools, rows |-> RowsOf(Outputs[j])]
    BY <1>1 DEF PoolInv, FilesInOrder
  <2>2. \A f \in ToSet(Outputs) : output[f].pool = pools /\ output[f].rows = RowsOf(f)
    <3>1. ASSUME NEW f \in ToSet(Outputs) PROVE output[f].pool = pools /\ output[f].rows = RowsOf(f)
      <4>1. PICK j \in 1 .. 13 : f = Outputs[j]
        BY OutputOrder
      <4>2. output[f] = [pool |-> pools, rows |-> RowsOf(f)]
        BY <2>1, <4>1
      <4>. QED
        BY <4>2
    <3>. QED
      BY <3>1
  <2>3. \A k \in 1 .. 4 : Rows(k) = Split(k) /\ output[<<"data", Splits[k]>>].rows = Split(k)
    BY <2>2, ManifestRows DEF Rows
  <2>4. output[<<"data", "SOURCE_POOL">>].rows = Shuffled
    BY <2>2, ManifestRows
  <2>5. ASSUME NEW k \in 1 .. 4
        PROVE  /\ Cardinality(IssuersOf(Rows(k))) = Sizes[k]
               /\ Rows(k) = output[<<"data", Splits[k]>>].rows
               /\ \A j \in (k + 1) .. 4 : IssuersOf(Rows(k)) \intersect IssuersOf(Rows(j)) = {}
               /\ \A j \in DOMAIN Rows(k) : frames[Rows(k)[j].issuer] = Rows(k)[j].text
    <3>1. Rows(k) = Split(k) /\ output[<<"data", Splits[k]>>].rows = Split(k)
      BY <2>3
    <3>2. Cardinality(IssuersOf(Split(k))) = Sizes[k]
      BY <1>1, <2>1, SplitIssuers
    <3>3. ASSUME NEW j \in (k + 1) .. 4
          PROVE  IssuersOf(Rows(k)) \intersect IssuersOf(Rows(j)) = {}
      <4>1. j \in 1 .. 4 /\ k < j
        OBVIOUS
      <4>2. Rows(j) = Split(j)
        BY <2>3, <4>1
      <4>3. IssuersOf(Split(k)) \intersect IssuersOf(Split(j)) = {}
        BY <1>1, <2>1, <4>1, SplitsApart
      <4>. QED
        BY <3>1, <4>2, <4>3
    <3>4. ASSUME NEW j \in DOMAIN Split(k) PROVE frames[Split(k)[j].issuer] = Split(k)[j].text
      <4>1. Lo(k) + j \in 1 .. Total /\ Split(k)[j] = Shuffled[Lo(k) + j]
        BY <1>1, <2>1, <3>4, SplitRows
      <4>2. Split(k)[j] \in acquired
        BY <1>1, <2>1, <4>1, ShuffledIsFresh
      <4>. QED
        BY <1>1, <4>2 DEF PoolInv, FramesMatch
    <3>. QED
      BY <3>1, <3>2, <3>3, <3>4
  <2>6. UNION {ToSet(Rows(k)) : k \in 1 .. 4} = ToSet(Shuffled)
    <3>1. {ToSet(Rows(k)) : k \in 1 .. 4} = {ToSet(Split(k)) : k \in 1 .. 4}
      BY <2>3
    <3>. QED
      BY <1>1, <2>1, <3>1, SplitsMakePool
  <2>. QED
    BY <2>2, <2>4, <2>5, <2>6
<1>. QED
  BY <1>1, PoolInvariant, PTL
=============================================================================
