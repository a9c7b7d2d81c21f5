----------------------------- MODULE Stage1Run -----------------------------
(***************************************************************************)
(* What scripts/run_stage1.py does with the answers it buys: the relay     *)
(* message of a document, the interventions on it, the natural and         *)
(* counterfactual receiver draws, the prior probes, the mechanism gate and *)
(* the eight artefacts.  Stage1Calls models how one call is made; here a   *)
(* call is one action, which reads the answer file or buys and stores one. *)
(*                                                                         *)
(* The operator chooses --m-star and the configured relay budget at every  *)
(* start.  The answer files and the artefacts outlive the process.         *)
(*                                                                         *)
(* A message is abstracted to the focal atoms the matcher reads in it,     *)
(* those whose edit the editor refuses, and those whose accepted deletion  *)
(* leaves their tokens: after a deletion the editor looks for spans only,  *)
(* while the matcher also reads the token sequence of a textual role.  A   *)
(* receiver's answer is whether the matcher recovers the atom from it.     *)
(***************************************************************************)
EXTENDS Integers, FiniteSets, FiniteSetsExt

CONSTANTS
  Docs,
  Atoms,            (* the focal atoms of all documents                     *)
  DocOf,
  Classes,          (* eligible_prior_classes                               *)
  ClassOf,          (* an atom's role, NoClass when it is not one of them   *)
  NoClass,
  TextAtoms,        (* atoms of role entity, scope or provenance            *)
  MStars,           (* values of --m-star: {1, 2, 3, 5}                     *)
  Budgets,          (* values of settings.relay_budget_tokens               *)
  MPrior,           (* M_PRIOR                                              *)
  OverallCap,       (* 15 %                                                 *)
  DifferentialCap,  (*  5 %                                                 *)
  MaxRuns           (* bound: how often the operator starts the runner      *)

ASSUME RunAssumption ==
  /\ IsFiniteSet(Docs) /\ IsFiniteSet(Atoms) /\ Atoms # {}
  /\ DocOf \in [Atoms -> Docs]
  /\ ClassOf \in [Atoms -> Classes \union {NoClass}] /\ NoClass \notin Classes
  /\ TextAtoms \subseteq Atoms
  /\ MStars \subseteq Nat \ {0} /\ MPrior \in Nat \ {0}
  /\ OverallCap \in 0 .. 99 /\ DifferentialCap \in 0 .. 100
  /\ MaxRuns \in Nat \ {0}

VARIABLES
  phase,     (* where main() is, or how the process ended                   *)
  m_star,    (* configuration of this process                               *)
  budget,
  heard,     (* per task of this process: the answer it collected           *)
  verdict,   (* gate verdict of this process                                *)
  written,   (* artefacts this process has written, in the order it writes  *)
  cache,     (* per key: the answer file                                    *)
  artefact,  (* per artefact: the file, and the run that opened it last     *)
  author,
  run,       (* observer: number of this process                            *)
  published  (* observer: <<m_star, budget, verdict>> of the gate files so far *)

config == <<m_star, budget>>
disk == <<cache, artefact, author>>
vars == <<phase, config, heard, verdict, written, disk, run, published>>

(* results, gate, cost ledger, run manifest; each to runs/, then to audits/ *)
NumArtefacts == 8
Artefacts == 1 .. NumArtefacts
GateFile == 3
Manifest == 7

(* f with v under the new key x *)
Put(f, x, v) == [y \in DOMAIN f \union {x} |-> IF y = x THEN v ELSE f[y]]

Texts ==
  {m \in [carried : SUBSET Atoms, refused : SUBSET Atoms, residual : SUBSET TextAtoms] :
     m.residual \subseteq m.carried \ m.refused}
-----------------------------------------------------------------------------
(* The rules below are those of any process: h is what it has heard, m its  *)
(* --m-star and b its relay budget.                                         *)
Message(h, d) == h[<<"relay", d, 0>>].said
MessageOf(h, a) == Message(h, DocOf[a])

(* is_transmitted on the natural message *)
Transmitted(h, a) == a \in MessageOf(h, a).carried

(* build_counterfactual deletes or inserts the atom, or raises InvalidEdit *)
EditValid(h, a) == a \notin MessageOf(h, a).refused

(* What the prompt of a task depends on: its hash is part of the key. *)
Prompt(h, b, t) ==
  CASE t[1] = "relay" -> b
    [] t[1] = "prior" -> "no message"
    [] OTHER          -> MessageOf(h, t[2])

(* Mutant: the key does not hash the prompt. *)
KeyWithoutPrompt(h, b, t) == <<t>>

Key(h, b, t) == <<t, Prompt(h, b, t)>>

RelayTasks == {<<"relay", d, 0>> : d \in Docs}

(* Mutant: the counterfactual repetitions stop one short. *)
ReceiverTasksShort(h, m) ==
  {<<"natural", a, r>> : a \in Atoms, r \in 1 .. m} \union
  {<<"counterfactual", a, r>> : a \in {x \in Atoms : EditValid(h, x)}, r \in 1 .. (m - 1)}

ReceiverTasks(h, m) ==
  {<<"natural", a, r>> : a \in Atoms, r \in 1 .. m} \union
  {<<"counterfactual", a, r>> : a \in {x \in Atoms : EditValid(h, x)}, r \in 1 .. m}

PriorTasks ==
  {<<"prior", a, r>> : a \in {x \in Atoms : ClassOf[x] # NoClass}, r \in 1 .. MPrior}

WaveTasks ==
  CASE phase = "relay"    -> RelayTasks
    [] phase = "receiver" -> ReceiverTasks(heard, m_star)
    [] phase = "prior"    -> PriorTasks
    [] OTHER              -> {}

Answers(t) == IF t[1] = "relay" THEN Texts ELSE 0 .. 1
-----------------------------------------------------------------------------
(* The intervention-validity caps of Wave A, in integers. *)
Refused(S) == Cardinality({a \in S : ~EditValid(heard, a)})
Carrying == {a \in Atoms : Transmitted(heard, a)}

AbsDiff(x, y) == IF x < y THEN y - x ELSE x - y

CapsHold ==
  LET n1 == Cardinality(Carrying)
      n0 == Cardinality(Atoms \ Carrying)
      f1 == Refused(Carrying)
      f0 == Refused(Atoms \ Carrying)
  IN /\ 100 * (f1 + f0) <= OverallCap * (n1 + n0)
     /\ CASE n1 = 0 -> 100 * f0 <= DifferentialCap * n0
          [] n0 = 0 -> 100 * f1 <= DifferentialCap * n1
          [] OTHER  -> 100 * AbsDiff(f1 * n0, f0 * n1) <= DifferentialCap * n1 * n0

(* Draws of one arm that recovered the atom, and how many there are. *)
Draws(h, arm, a) == {t \in DOMAIN h : t[1] = arm /\ t[2] = a}
Recovered(h, arm, a) == Cardinality({t \in Draws(h, arm, a) : h[t].said = 1})

(* The atoms that get a causal record. *)
Records(h, m) ==
  {a \in Atoms : /\ EditValid(h, a)
                 /\ Cardinality(Draws(h, "natural", a)) = m
                 /\ Cardinality(Draws(h, "counterfactual", a)) = m}

(* Mutant: d_plus and r_minus are swapped for atoms not transmitted. *)
RMinusNotSwapped(h, a) == Recovered(h, "counterfactual", a)

(* r_minus, times m_star: the edited arm of an atom that was transmitted, the natural arm of *)
(* another.  No span of the atom is left in its message; a residual token sequence may be.   *)
RMinus(h, a) ==
  IF Transmitted(h, a) THEN Recovered(h, "counterfactual", a) ELSE Recovered(h, "natural", a)

(* r_bar_zero >= 0.10, with equal inclusion probabilities *)
ReconstructionClears(h, m) ==
  10 * MapThenSumSet(LAMBDA a : RMinus(h, a), Records(h, m)) >= m * Cardinality(Records(h, m))

(* prior_effects[class] >= 0.10; a class without atoms has effect 0 *)
PriorClears(h, k) ==
  LET members == {a \in Atoms : ClassOf[a] = k}
      hits == MapThenSumSet(LAMBDA a : Recovered(h, "prior", a), members)
  IN members # {} /\ 10 * hits >= MPrior * Cardinality(members)

(* evaluate_stage1_gate *)
Gate(h, m) ==
  IF ReconstructionClears(h, m) \/ \E k \in Classes : PriorClears(h, k) THEN "pass" ELSE "fail"
-----------------------------------------------------------------------------
Init ==
  /\ phase = "relay"
  /\ m_star \in MStars /\ budget \in Budgets
  /\ heard = <<>>
  /\ verdict = "none" /\ written = 0
  /\ cache = <<>>
  /\ artefact = [i \in Artefacts |-> "absent"]
  /\ author = [i \in Artefacts |-> 0]
  /\ run = 1
  /\ published = {}

(* call_model_with_cache answers task t from its file ... *)
Replay(t) ==
  /\ t \notin DOMAIN heard
  /\ Key(heard, budget, t) \in DOMAIN cache
  /\ heard' = Put(heard, t, cache[Key(heard, budget, t)])
  /\ UNCHANGED <<phase, config, verdict, written, disk, run, published>>

(* Mutant: the answer is not written to disk. *)
BuyWithoutStoring(t) ==
  /\ t \notin DOMAIN heard
  /\ Key(heard, budget, t) \notin DOMAIN cache
  /\ \E s \in Answers(t) : heard' = Put(heard, t, [about |-> Prompt(heard, budget, t), said |-> s])
  /\ UNCHANGED <<phase, config, verdict, written, disk, run, published>>

(* ... or buys the answer and writes the file. *)
Buy(t) ==
  /\ t \notin DOMAIN heard
  /\ Key(heard, budget, t) \notin DOMAIN cache
  /\ \E s \in Answers(t) :
       LET answer == [about |-> Prompt(heard, budget, t), said |-> s]
       IN /\ heard' = Put(heard, t, answer)
          /\ cache' = Put(cache, Key(heard, budget, t), answer)
  /\ UNCHANGED <<phase, config, verdict, written, artefact, author, run, published>>

WaveDone == WaveTasks \subseteq DOMAIN heard

(* Matching, interventions and the two caps. *)
Intervene ==
  /\ phase = "relay" /\ WaveDone
  /\ phase' = IF CapsHold THEN "receiver" ELSE "failed"
  /\ UNCHANGED <<config, heard, verdict, written, disk, run, published>>

EndReceiver ==
  /\ phase = "receiver" /\ WaveDone
  /\ phase' = "prior"
  /\ UNCHANGED <<config, heard, verdict, written, disk, run, published>>

(* Records, decomposition and the gate.  decompose raises when there is no  *)
(* record at all, which the overall cap has already excluded.               *)
Decide ==
  /\ phase = "prior" /\ WaveDone
  /\ phase' = "export"
  /\ verdict' = Gate(heard, m_star)
  /\ UNCHANGED <<config, heard, written, disk, run, published>>

(* Mutant: the artefacts are written in the opposite order. *)
FileOfReversed(n) == NumArtefacts + 1 - n

(* The file the n-th write goes to. *)
FileOf(n) == n

(* Mutant: a ninth write. *)
OpenOneMore ==
  /\ phase = "export" /\ written <= NumArtefacts
  /\ artefact' = [artefact EXCEPT ![FileOf(written + 1)] = "torn"]
  /\ author' = [author EXCEPT ![FileOf(written + 1)] = run]
  /\ phase' = "writing"
  /\ UNCHANGED <<config, heard, verdict, written, cache, run, published>>

(* open(path, "w") truncates the next artefact ... *)
Open ==
  /\ phase = "export" /\ written < NumArtefacts
  /\ artefact' = [artefact EXCEPT ![FileOf(written + 1)] = "torn"]
  /\ author' = [author EXCEPT ![FileOf(written + 1)] = run]
  /\ phase' = "writing"
  /\ UNCHANGED <<config, heard, verdict, written, cache, run, published>>

(* ... and json.dump fills it. *)
Dump ==
  /\ phase = "writing"
  /\ artefact' = [artefact EXCEPT ![FileOf(written + 1)] = "whole"]
  /\ published' = published \union
       (IF FileOf(written + 1) = GateFile THEN {<<m_star, budget, verdict>>} ELSE {})
  /\ written' = written + 1
  /\ phase' = "export"
  /\ UNCHANGED <<config, heard, verdict, cache, author, run>>

Finish ==
  /\ phase = "export" /\ written = NumArtefacts
  /\ phase' = "finished"
  /\ UNCHANGED <<config, heard, verdict, written, disk, run, published>>

(* The process dies, memory and all, or a call ends in an exception: after five attempts, at *)
(* the ceiling, or because the provider answered with another model.         *)
Dies ==
  /\ phase \notin {"failed", "finished"}
  /\ phase' = "failed"
  /\ heard' = <<>> /\ verdict' = "none" /\ written' = 0
  /\ UNCHANGED <<config, disk, run, published>>

Start ==
  /\ phase \in {"failed", "finished"} /\ run < MaxRuns
  /\ run' = run + 1
  /\ phase' = "relay"
  /\ m_star' \in MStars /\ budget' \in Budgets
  /\ heard' = <<>> /\ verdict' = "none" /\ written' = 0
  /\ UNCHANGED <<disk, published>>

Next ==
  \/ \E t \in WaveTasks : Replay(t) \/ Buy(t)
  \/ Intervene \/ EndReceiver \/ Decide
  \/ Open \/ Dump \/ Finish
  \/ Dies \/ Start

Spec == Init /\ [][Next]_vars
-----------------------------------------------------------------------------
(* Every variable keeps its type. *)
TypeOK ==
  /\ phase \in {"relay", "receiver", "prior", "export", "writing", "finished", "failed"}
  /\ m_star \in MStars /\ budget \in Budgets
  /\ \A t \in DOMAIN heard : heard[t].said \in Answers(t)
  /\ verdict \in {"none", "pass", "fail"}
  /\ written \in 0 .. NumArtefacts
  /\ \A k \in DOMAIN cache : cache[k].said \in Answers(k[1])
  /\ artefact \in [Artefacts -> {"absent", "torn", "whole"}]
  /\ author \in [Artefacts -> 0 .. MaxRuns]
  /\ run \in 1 .. MaxRuns
  /\ published \subseteq MStars \X Budgets \X {"pass", "fail"}

(* Every answer this process uses was given to the question this process   *)
(* asks: about the message its own relay wave produced, at its own budget, *)
(* whatever earlier runs with other settings left in the answer files.     *)
AnswersFitTheQuestion == \A t \in DOMAIN heard : heard[t].about = Prompt(heard, budget, t)

(* Runs of the same configuration publish the same verdict, crashes and    *)
(* runs of other configurations in between notwithstanding.                *)
VerdictReproducible ==
  \A p, q \in published : p[1] = q[1] /\ p[2] = q[2] => p[3] = q[3]

(* Whether the matcher reads the atom of task t in the prompt of t, and     *)
(* whether that is so because the deletion left its tokens.                *)
Leftover(t) == t[1] = "counterfactual" /\ t[2] \in heard[t].about.residual
Readable(t) ==
  \/ t[1] = "natural" /\ t[2] \in heard[t].about.carried
  \/ t[1] = "counterfactual" /\ t[2] \notin heard[t].about.carried
  \/ Leftover(t)

(* A verdict to proceed is backed by an answer that recovered an atom the   *)
(* matcher does not read in its prompt, or reads there only because an     *)
(* accepted deletion left the tokens of a textual atom.                    *)
PassNeedsPriorAccess ==
  verdict = "pass" =>
    \E t \in ReceiverTasks(heard, m_star) \union PriorTasks :
      /\ heard[t].said = 1
      /\ Readable(t) => Leftover(t)

(* No atom with a valid edit drops out of the estimate between the caps and *)
(* the gate: the failure rates published are those of what was analysed.    *)
NoSilentAttrition ==
  verdict # "none" => Records(heard, m_star) = {a \in Atoms : EditValid(heard, a)}

(* Whoever finds the run manifest of run r finds results, gate and ledger   *)
(* of r beside it, unless a later run has started to replace them.          *)
ManifestIsLast ==
  artefact[Manifest] = "whole" =>
    \A i \in 1 .. Manifest - 1 :
      /\ author[i] >= author[Manifest]
      /\ author[i] = author[Manifest] => artefact[i] = "whole"

(* The runner promises to "Evaluate Frozen Stage-1 Mechanism Gate Exactly   *)
(* Once": at the very least, no later run publishes the other verdict.      *)
GateDecidedOnce == \A p, q \in published : p[3] = q[3]
=============================================================================
