----------------------------- MODULE ClaimRules -----------------------------
(***************************************************************************)
(* What may be claimed: superiority.evaluate, the simultaneous bootstrap    *)
(* bounds, the manuscript check, and the manifests that provenance rests    *)
(* on.                                                                      *)
(***************************************************************************)
EXTENDS BenchmarkRules, Percentiles, SequencesExt

\* superiority.evaluate: comparisons is a sequence of [comparator, win], win when
\* both lower bounds are positive; eligible and registered are sets of methods.
WonBy(comparisons, eligible) ==
  {i \in DOMAIN comparisons : comparisons[i].comparator \in eligible /\ comparisons[i].win}
Winners(comparisons, eligible) == {comparisons[i].comparator : i \in WonBy(comparisons, eligible)}

\* WinsAlwaysThree asks for three wins however many comparators are eligible.
WinsAlwaysThree(eligible, fam, required, required_families) == required
wins_needed(eligible, fam, required, required_families) ==
  IF Cardinality(families_of(eligible, fam)) = required_families
  THEN Cardinality(eligible) ELSE required

evaluate_superiority(comparisons, eligible, registered, fam, required, required_families) ==
  LET won == Cardinality(WonBy(comparisons, eligible))     \* a repeated comparison counts again
      unexpected == {comparisons[i].comparator : i \in DOMAIN comparisons} \ registered
      headline == Cardinality(families_of(eligible, fam)) >= required_families
      needed == wins_needed(eligible, fam, required, required_families)
  IN  [raised |-> unexpected # {}, headline_eligible |-> headline,
       denominator |-> Cardinality(registered),
       permitted |-> /\ unexpected = {} /\ headline
                     /\ won >= needed
                     /\ Cardinality(families_of(Winners(comparisons, eligible), fam))
                          >= required_families]
-----------------------------------------------------------------------------
(* run_paired_document_bootstrap.  Outcomes are integers by document; means  *)
(* over the common documents are kept as sums over them.                    *)

common_docs(ours, comparators) ==
  {d \in DOMAIN ours : \A c \in DOMAIN comparators : d \in DOMAIN comparators[c]}
Differences(ours, theirs, docs) == [d \in docs |-> ours[d] - theirs[d]]
Point(diff) == SumFunction(diff)
\* draw[i] is the document drawn at position i: one replicate, for every method.
BootSum(diff, draw) == SumFunction([i \in DOMAIN draw |-> diff[draw[i]]])

\* LeastDeviation bounds the replicate's best comparator instead of its worst.
LeastDeviation(diffs, draw) ==
  Min({Point(diffs[c]) - BootSum(diffs[c], draw) : c \in DOMAIN diffs})
MaxDeviation(diffs, draw) ==
  Max({Point(diffs[c]) - BootSum(diffs[c], draw) : c \in DOMAIN diffs})

\* A thousand times the simultaneous lower bound of comparator c.
SimultaneousBound(diffs, c, draws) ==
  1000 * Point(diffs[c])
    - Percentile([i \in DOMAIN draws |-> MaxDeviation(diffs, draws[i])], Len(draws), 950)
MarginalBound(diffs, c, draws) ==
  1000 * Point(diffs[c])
    - Percentile([i \in DOMAIN draws |-> Point(diffs[c]) - BootSum(diffs[c], draws[i])], Len(draws), 950)

\* oursA, oursC: document -> outcome; theirsA, theirsC: comparator -> the same.
paired_bootstrap(oursA, oursC, theirsA, theirsC, draws, min_ready, min_docs) ==
  LET docs == common_docs(oursA, theirsA) \cap common_docs(oursC, theirsC)
      dA == [c \in DOMAIN theirsA |-> Differences(oursA, theirsA[c], docs)]
      dC == [c \in DOMAIN theirsA |-> Differences(oursC, theirsC[c], docs)]
      wins == {c \in DOMAIN theirsA :
                 SimultaneousBound(dA, c, draws) > 0 /\ SimultaneousBound(dC, c, draws) > 0}
      eligible == Cardinality(DOMAIN theirsA) >= min_ready
  IN  IF DOMAIN theirsA = {} \/ Cardinality(docs) < min_docs
      THEN [verdict |-> "BootstrapDataIntegrityError"]
      ELSE
      [simultaneous_wins |-> wins, headline_sota_eligible |-> eligible,
       verdict |-> IF ~eligible THEN "INELIGIBLE"
                   ELSE IF wins = DOMAIN theirsA THEN "PASS" ELSE "NOT_ESTABLISHED"]
-----------------------------------------------------------------------------
(* The manuscript check.  tex is [tbd, phfig, labels], targets maps a label  *)
(* to the asset [dir, name] an exporter owes it, files is the set of assets  *)
(* on disk, and the manifest maps an asset to the gaps of its entry; no one  *)
(* need ask for a manifest to be looked at.                                  *)

Gaps == {"run_ids", "source_hashes", "config_hashes", "model_revisions", "artifact_sha256"}
NotAsked == [asked |-> FALSE, present |-> FALSE, entries |-> [a \in {} |-> {}]]
Absent == [NotAsked EXCEPT !.asked = TRUE]
Manifest(entries) == [asked |-> TRUE, present |-> TRUE, entries |-> entries]
unprovenanced(m) == {a \in DOMAIN m.entries : m.entries[a] # {}}
\* stamp records the hash of what is on disk now, if the entry is there.
stamp(m, a, files) ==
  IF a \in DOMAIN m.entries /\ a \in files
  THEN Manifest([m.entries EXCEPT ![a] = @ \ {"artifact_sha256"}]) ELSE m

Owed(tex, targets) == {targets[l] : l \in tex.labels \cap DOMAIN targets}
\* Assets are recorded and owed under their file name alone.
Names(assets) == {a.name : a \in assets}

check_manuscript(tex, targets, exempt, files, m, log_undefined, require_empirical) ==
  LET strict == {IF tex.tbd THEN "tbd" ELSE "",
                 IF tex.phfig \ exempt # {} THEN "phfig" ELSE "",
                 IF Owed(tex, targets) \subseteq files THEN "" ELSE "missing",
                 IF m.asked /\ ~m.present THEN "no manifest" ELSE "",
                 IF m.present /\ ~(Names(Owed(tex, targets)) \subseteq Names(DOMAIN m.entries))
                 THEN "unrecorded" ELSE ""}
      always == {IF log_undefined THEN "undefined" ELSE "",
                 IF m.present /\ unprovenanced(m) # {} THEN "unprovenanced" ELSE ""}
  IN  ((IF require_empirical THEN strict ELSE {}) \cup always) \ {""}

\* run_export: planned; or the check's verdict on the assets there are; or, as
\* a mock, on a manuscript that refers to every asset, with each of them made.
MockCheck(targets) ==
  LET assets == {targets[l] : l \in DOMAIN targets}
  IN  check_manuscript([tbd |-> FALSE, phfig |-> {}, labels |-> DOMAIN targets], targets, {},
                       assets, Manifest([a \in assets |-> {}]), FALSE, TRUE)
run_export(failures, targets, execute, mock) ==
  IF ~execute /\ ~mock THEN "PLANNED"
  ELSE IF mock THEN IF MockCheck(targets) = {} THEN "MOCK_VERIFIED" ELSE "FAILED_CHECK"
  ELSE IF failures = {} THEN "EXECUTED" ELSE "FAILED_CHECK"
-----------------------------------------------------------------------------
(* The artefact manifest: its rows are <<path, content>>, a hash standing    *)
(* for what it is the hash of.                                               *)

build_manifest(paths, disk) ==
  LET rows == {<<p, disk[p]>> : p \in paths} IN [entries |-> rows, self_sha256 |-> rows]
manifest_verifies(manifest, disk) ==
  /\ \A r \in manifest.entries : r[1] \in DOMAIN disk /\ disk[r[1]] = r[2]
  /\ manifest.entries = manifest.self_sha256
=============================================================================
