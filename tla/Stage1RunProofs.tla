-------------------------- MODULE Stage1RunProofs --------------------------
(***************************************************************************)
(* Proofs about Stage1Run for every set of documents and atoms, every      *)
(* configuration and any number of restarts: the run manifest vouches for  *)
(* the artefacts written before it, an answer is never used for a question *)
(* it was not given to, runs of one configuration publish one verdict,     *)
(* which rests on every atom whose edit was valid, and a verdict to go on  *)
(* is backed by an answer that recovered what its prompt did not hold.     *)
(***************************************************************************)
EXTENDS Stage1Run, OperatorProofs, FiniteSetTheorems, TLAPS

Alive == {"relay", "receiver", "prior"}

WriterTypes ==
  /\ phase \in Alive \union {"export", "writing", "finished", "failed"}
  /\ run \in Nat /\ written \in 0 .. NumArtefacts
  /\ author \in [Artefacts -> Nat]
  /\ artefact \in [Artefacts -> {"absent", "torn", "whole"}]

(* What this process has written so far, and what it has not touched yet. *)
Progress ==
  /\ phase \in Alive => written = 0 /\ \A i \in Artefacts : author[i] < run
  /\ phase = "writing" => written < NumArtefacts /\ author[written + 1] = run
  /\ phase \in {"export", "writing"} =>
       /\ \A i \in Artefacts : i <= written => author[i] = run /\ artefact[i] = "whole"
       /\ \A i \in Artefacts : i > written + 1 => author[i] < run
  /\ phase = "export" => \A i \in Artefacts : i > written => author[i] < run

(* Along the order of writing, files get older, and one that exists has     *)
(* whole siblings of its own run before it.                                 *)
Ordered ==
  /\ \A i \in Artefacts : author[i] <= run
  /\ \A i, j \in Artefacts : i < j =>
       /\ author[i] >= author[j]
       /\ artefact[j] # "absent" /\ author[i] = author[j] => artefact[i] = "whole"

WriterInv == WriterTypes /\ Progress /\ Ordered

LEMMA WriterInit == Init => WriterInv
BY DEF Init, WriterInv, WriterTypes, Progress, Ordered, Alive, Artefacts, NumArtefacts

LEMMA WriterStep == WriterInv /\ [Next]_vars => WriterInv'
<1> SUFFICES ASSUME WriterInv, [Next]_vars PROVE WriterInv'
  OBVIOUS
<1> USE DEF WriterInv, WriterTypes, Alive, Artefacts, NumArtefacts
<1>1. ASSUME NEW t \in WaveTasks, Replay(t) \/ Buy(t) PROVE WriterInv'
  BY <1>1 DEF Replay, Buy, disk, Progress, Ordered
<1>2. CASE Intervene \/ EndReceiver \/ Decide
  BY <1>2 DEF Intervene, EndReceiver, Decide, disk, Progress, Ordered
<1>3. CASE Open
  <2>1. WriterTypes'
    BY <1>3 DEF Open, FileOf
  <2>2. Progress'
    BY <1>3 DEF Open, FileOf, Progress
  <2>3. Ordered'
    BY <1>3 DEF Open, FileOf, Progress, Ordered
  <2> QED BY <2>1, <2>2, <2>3
<1>4. CASE Dump
  <2>1. WriterTypes'
    BY <1>4 DEF Dump, FileOf, Progress
  <2>2. Progress'
    BY <1>4 DEF Dump, FileOf, Progress
  <2>3. Ordered'
    BY <1>4 DEF Dump, FileOf, Progress, Ordered
  <2> QED BY <2>1, <2>2, <2>3
<1>5. CASE Finish
  BY <1>5 DEF Finish, disk, Progress, Ordered
<1>6. CASE Dies
  BY <1>6 DEF Dies, disk, Progress, Ordered
<1>7. CASE Start
  BY <1>7 DEF Start, disk, Progress, Ordered
<1>8. CASE UNCHANGED vars
  BY <1>8 DEF vars, disk, Progress, Ordered
<1> QED BY <1>1, <1>2, <1>3, <1>4, <1>5, <1>6, <1>7, <1>8 DEF Next

(* Finding the run manifest of a run means finding everything it describes. *)
THEOREM ManifestVouches == Spec => []ManifestIsLast
<1>1. WriterInv => ManifestIsLast
  BY DEF WriterInv, WriterTypes, Ordered, ManifestIsLast, Manifest, Artefacts, NumArtefacts
<1> QED BY <1>1, WriterInit, WriterStep, PTL DEF Spec
-----------------------------------------------------------------------------
(* The shape of what a process has heard: relay answers until the relay     *)
(* wave is over, all of them from then on.                                  *)
HeardShape ==
  /\ \A t \in DOMAIN heard :
       \/ t \in RelayTasks
       \/ t[1] \in {"natural", "counterfactual", "prior"} /\ t[2] \in Atoms
  /\ phase = "relay" => DOMAIN heard \subseteq RelayTasks
  /\ phase \notin {"relay", "failed"} => RelayTasks \subseteq DOMAIN heard

(* An answer file holds the answer to the question in its key. *)
FilesFit == \A k \in DOMAIN cache : cache[k].about = k[2]

AnswerInv == HeardShape /\ FilesFit /\ AnswersFitTheQuestion

LEMMA AnswerInit == Init => AnswerInv
BY DEF Init, AnswerInv, HeardShape, FilesFit, AnswersFitTheQuestion

(* Hearing one more answer changes no question already asked. *)
LEMMA QuestionsStable ==
  ASSUME RunAssumption, AnswerInv,
         NEW t \in WaveTasks, t \notin DOMAIN heard,
         NEW a, heard' = Put(heard, t, a), a.about = Prompt(heard, budget, t),
         UNCHANGED <<phase, budget, m_star>>
  PROVE  HeardShape' /\ AnswersFitTheQuestion'
<1>1. DOMAIN heard' = DOMAIN heard \union {t}
  BY DEF Put
<1>2. \A u \in DOMAIN heard : heard'[u] = heard[u]
  BY DEF Put
<1>3. heard'[t] = a
  BY DEF Put
<1>4. \/ phase = "relay" /\ t \in RelayTasks
      \/ /\ phase \in {"receiver", "prior"}
         /\ t[1] \in {"natural", "counterfactual", "prior"} /\ t[2] \in Atoms
  BY DEF WaveTasks, ReceiverTasks, PriorTasks, RelayTasks
<1>5. HeardShape'
  BY <1>1, <1>4 DEF AnswerInv, HeardShape, RelayTasks
<1>6. ASSUME NEW u \in DOMAIN heard' PROVE Prompt(heard, budget, u)' = Prompt(heard, budget, u)
  <2>1. CASE u \in RelayTasks
    <3>1. u[1] = "relay"
      BY <2>1 DEF RelayTasks
    <3> QED BY <3>1 DEF Prompt
  <2>2. CASE u[1] \in {"natural", "counterfactual", "prior"} /\ u[2] \in Atoms /\ phase # "relay"
    <3>1. <<"relay", DocOf[u[2]], 0>> \in DOMAIN heard
      BY <2>2, <1>4, RunAssumption DEF AnswerInv, HeardShape, RelayTasks, RunAssumption
    <3> QED BY <3>1, <1>2, <2>2 DEF Prompt, MessageOf, Message
  <2> QED BY <1>1, <1>4, <2>1, <2>2 DEF AnswerInv, HeardShape
<1>7. AnswersFitTheQuestion'
  <2> SUFFICES ASSUME NEW u \in DOMAIN heard' PROVE heard'[u].about = Prompt(heard, budget, u)'
    BY DEF AnswersFitTheQuestion
  <2> QED BY <1>1, <1>2, <1>3, <1>6 DEF AnswerInv, AnswersFitTheQuestion
<1> QED BY <1>5, <1>7

LEMMA AnswerStep == AnswerInv /\ [Next]_vars => AnswerInv'
<1> SUFFICES ASSUME AnswerInv, [Next]_vars PROVE AnswerInv'
  OBVIOUS
<1>1. ASSUME NEW t \in WaveTasks, Replay(t) PROVE AnswerInv'
  <2>1. cache[Key(heard, budget, t)].about = Prompt(heard, budget, t)
    BY <1>1 DEF Replay, AnswerInv, FilesFit, Key
  <2>2. HeardShape' /\ AnswersFitTheQuestion'
    BY <1>1, <2>1, QuestionsStable, RunAssumption DEF Replay, config
  <2> QED BY <1>1, <2>2 DEF Replay, AnswerInv, FilesFit, disk
<1>2. ASSUME NEW t \in WaveTasks, Buy(t) PROVE AnswerInv'
  <2>1. PICK s \in Answers(t) :
          /\ heard' = Put(heard, t, [about |-> Prompt(heard, budget, t), said |-> s])
          /\ cache' = Put(cache, Key(heard, budget, t), [about |-> Prompt(heard, budget, t), said |-> s])
    BY <1>2 DEF Buy
  <2>2. HeardShape' /\ AnswersFitTheQuestion'
    BY <1>2, <2>1, QuestionsStable, RunAssumption DEF Buy, config
  <2>3. FilesFit'
    <3>1. DOMAIN cache' = DOMAIN cache \union {Key(heard, budget, t)}
      BY <1>2, <2>1 DEF Buy, Put
    <3>2. cache'[Key(heard, budget, t)].about = Prompt(heard, budget, t)
      BY <1>2, <2>1 DEF Buy, Put
    <3>3. \A k \in DOMAIN cache : cache'[k] = cache[k]
      BY <1>2, <2>1 DEF Buy, Put
    <3> QED BY <3>1, <3>2, <3>3 DEF AnswerInv, FilesFit, Key
  <2> QED BY <2>2, <2>3 DEF AnswerInv
<1>3. CASE Intervene \/ EndReceiver \/ Decide \/ Open \/ Dump \/ Finish
  BY <1>3 DEF Intervene, EndReceiver, Decide, Open, Dump, Finish, config, disk, AnswerInv,
     HeardShape, FilesFit, AnswersFitTheQuestion, WaveDone, WaveTasks, Prompt, MessageOf,
     Message, RelayTasks
<1>4. CASE Dies \/ Start
  BY <1>4 DEF Dies, Start, config, disk, AnswerInv, HeardShape, FilesFit,
     AnswersFitTheQuestion
<1>5. CASE UNCHANGED vars
  BY <1>5 DEF vars, config, disk, AnswerInv, HeardShape, FilesFit, AnswersFitTheQuestion,
     Prompt, MessageOf, Message, RelayTasks
<1> QED BY <1>1, <1>2, <1>3, <1>4, <1>5 DEF Next

(* No restart, crash or change of settings makes a process use an answer    *)
(* given about another message or at another budget.                        *)
THEOREM AnswersBelong == Spec => []AnswersFitTheQuestion
<1>1. AnswerInv => AnswersFitTheQuestion
  BY DEF AnswerInv
<1> QED BY <1>1, AnswerInit, AnswerStep, PTL DEF Spec
-----------------------------------------------------------------------------
(* What a process that heard everything has heard is determined by the      *)
(* answer files, its --m-star and its budget: the relay answers determine   *)
(* the messages, these the tasks and the prompts, and these the files.      *)
TasksOf(h, m) == RelayTasks \union ReceiverTasks(h, m) \union PriorTasks

FromFile(h, b, t) == Key(h, b, t) \in DOMAIN cache /\ h[t] = cache[Key(h, b, t)]

IsFcn(h) == h = [t \in DOMAIN h |-> h[t]]

Closed(h, m, b) ==
  /\ IsFcn(h) /\ DOMAIN h = TasksOf(h, m)
  /\ \A t \in DOMAIN h : FromFile(h, b, t)

(* Equal relay answers give equal tasks and equal questions. *)
LEMMA MessagesDecide ==
  ASSUME RunAssumption, NEW h, NEW g, NEW m, NEW b,
         \A t \in RelayTasks : h[t] = g[t]
  PROVE  /\ ReceiverTasks(h, m) = ReceiverTasks(g, m)
         /\ TasksOf(h, m) = TasksOf(g, m)
         /\ \A t \in TasksOf(h, m) : Prompt(h, b, t) = Prompt(g, b, t)
<1>1. \A a \in Atoms : MessageOf(h, a) = MessageOf(g, a)
  BY RunAssumption DEF RunAssumption, MessageOf, Message, RelayTasks
<1>2. ReceiverTasks(h, m) = ReceiverTasks(g, m)
  BY <1>1 DEF ReceiverTasks, EditValid
<1>3. ASSUME NEW t \in TasksOf(h, m) PROVE Prompt(h, b, t) = Prompt(g, b, t)
  <2>1. CASE t \in RelayTasks
    <3>1. t[1] = "relay"
      BY <2>1 DEF RelayTasks
    <3> QED BY <3>1 DEF Prompt
  <2>2. CASE t \in ReceiverTasks(h, m)
    <3>1. t[1] \in {"natural", "counterfactual"} /\ t[2] \in Atoms
      BY <2>2 DEF ReceiverTasks
    <3> QED BY <3>1, <1>1 DEF Prompt
  <2>3. CASE t \in PriorTasks
    <3>1. t[1] = "prior"
      BY <2>3 DEF PriorTasks
    <3> QED BY <3>1 DEF Prompt
  <2> QED BY <1>3, <2>1, <2>2, <2>3 DEF TasksOf
<1> QED BY <1>2, <1>3 DEF TasksOf

LEMMA ClosedIsUnique ==
  ASSUME RunAssumption, NEW m, NEW b, NEW h, NEW g, Closed(h, m, b), Closed(g, m, b)
  PROVE  h = g
<1>1. \A t \in RelayTasks : h[t] = g[t]
  <2> SUFFICES ASSUME NEW t \in RelayTasks PROVE h[t] = g[t]
    OBVIOUS
  <2>1. Prompt(h, b, t) = b /\ Prompt(g, b, t) = b
    <3>1. t[1] = "relay"
      BY DEF RelayTasks
    <3> QED BY <3>1 DEF Prompt
  <2> QED BY <2>1 DEF Closed, TasksOf, FromFile, Key
<1>2. DOMAIN h = DOMAIN g
  BY <1>1, MessagesDecide DEF Closed
<1>3. \A t \in DOMAIN h : Prompt(h, b, t) = Prompt(g, b, t)
  BY <1>1, MessagesDecide DEF Closed
<1>4. \A t \in DOMAIN h : h[t] = g[t]
  BY <1>2, <1>3 DEF Closed, FromFile, Key
<1>5. h = [t \in DOMAIN h |-> h[t]] /\ g = [t \in DOMAIN g |-> g[t]]
  BY DEF Closed, IsFcn
<1> QED BY <1>2, <1>4, <1>5

(* What the process has heard so far comes from the files, wave by wave. *)
WavesSoFar ==
  /\ IsFcn(heard)
  /\ \A t \in DOMAIN heard : FromFile(heard, budget, t)
  /\ DOMAIN heard \subseteq TasksOf(heard, m_star)
  /\ phase \in {"prior", "export", "writing", "finished"} =>
       ReceiverTasks(heard, m_star) \subseteq DOMAIN heard
  /\ phase \in {"export", "writing", "finished"} =>
       PriorTasks \subseteq DOMAIN heard /\ verdict = Gate(heard, m_star)

(* Every verdict on disk is the gate's on a closed set of answer files. *)
PublishedFromFiles ==
  \A p \in published : \E h : Closed(h, p[1], p[2]) /\ p[3] = Gate(h, p[1])

VerdictInv == AnswerInv /\ WavesSoFar /\ PublishedFromFiles

LEMMA EmptyIsFcn == IsFcn(<<>>) /\ DOMAIN <<>> = {}
BY DEF IsFcn

LEMMA VerdictInit == Init => VerdictInv
<1> SUFFICES ASSUME Init PROVE VerdictInv
  OBVIOUS
<1>1. WavesSoFar
  BY EmptyIsFcn DEF Init, WavesSoFar
<1>2. PublishedFromFiles
  BY DEF Init, PublishedFromFiles
<1> QED BY <1>1, <1>2, AnswerInit DEF VerdictInv

(* The answer files only grow. *)
FilesGrow == \A k \in DOMAIN cache : k \in DOMAIN cache' /\ cache'[k] = cache[k]

LEMMA FilesLast ==
  ASSUME FilesGrow, NEW h, NEW b, NEW t, FromFile(h, b, t)
  PROVE  FromFile(h, b, t)'
BY DEF FromFile, FilesGrow, Key, Prompt, MessageOf, Message

LEMMA ClosedLasts ==
  ASSUME FilesGrow, NEW h, NEW m, NEW b, Closed(h, m, b)
  PROVE  Closed(h, m, b)'
BY FilesLast DEF Closed

LEMMA VerdictsLast ==
  ASSUME FilesGrow, PublishedFromFiles, UNCHANGED published
  PROVE  PublishedFromFiles'
BY ClosedLasts DEF PublishedFromFiles

(* One more answer, replayed or bought, is again the one in the files. *)
LEMMA HearingKeeps ==
  ASSUME RunAssumption, AnswerInv, WavesSoFar, FilesGrow,
         NEW t \in WaveTasks, t \notin DOMAIN heard,
         Key(heard, budget, t) \in DOMAIN cache',
         heard' = Put(heard, t, cache'[Key(heard, budget, t)]),
         UNCHANGED <<phase, m_star, budget, verdict>>
  PROVE  WavesSoFar'
<1>1. DOMAIN heard' = DOMAIN heard \union {t} /\ IsFcn(heard')
  BY DEF Put, IsFcn
<1>2. /\ \A u \in DOMAIN heard : heard'[u] = heard[u]
      /\ heard'[t] = cache'[Key(heard, budget, t)]
  BY DEF Put
<1>3. phase \in Alive /\ t \in TasksOf(heard, m_star)
  BY DEF WaveTasks, TasksOf, Alive
<1>4. \A u \in DOMAIN heard' : Prompt(heard', budget, u) = Prompt(heard, budget, u)
  <2>1. CASE phase = "relay"
    <3>1. \A u \in DOMAIN heard' : u[1] = "relay"
      BY <1>1, <2>1 DEF AnswerInv, HeardShape, WaveTasks, RelayTasks
    <3> QED BY <3>1 DEF Prompt
  <2>2. CASE phase # "relay"
    <3>1. \A u \in RelayTasks : heard[u] = heard'[u]
      BY <1>2, <1>3, <2>2 DEF AnswerInv, HeardShape, Alive
    <3>2. \A u \in TasksOf(heard, m_star) : Prompt(heard, budget, u) = Prompt(heard', budget, u)
      BY <3>1, MessagesDecide
    <3> QED BY <3>2, <1>1, <1>3 DEF WavesSoFar
  <2> QED BY <2>1, <2>2
<1>5. \A u \in DOMAIN heard' : FromFile(heard, budget, u)'
  <2> SUFFICES ASSUME NEW u \in DOMAIN heard'
               PROVE  /\ Key(heard', budget, u) \in DOMAIN cache'
                      /\ heard'[u] = cache'[Key(heard', budget, u)]
    BY DEF FromFile
  <2>1. Key(heard', budget, u) = Key(heard, budget, u)
    BY <1>4 DEF Key
  <2>2. CASE u = t
    BY <2>1, <2>2, <1>2
  <2>3. CASE u \in DOMAIN heard
    BY <2>1, <2>3, <1>2 DEF WavesSoFar, FromFile, FilesGrow
  <2> QED BY <1>1, <2>2, <2>3
<1>6. /\ DOMAIN heard' \subseteq TasksOf(heard', m_star)
      /\ phase = "prior" => ReceiverTasks(heard', m_star) \subseteq DOMAIN heard'
  <2>1. CASE phase = "relay"
    <3>1. DOMAIN heard' \subseteq RelayTasks
      BY <1>1, <2>1 DEF AnswerInv, HeardShape, WaveTasks
    <3> QED BY <3>1, <2>1 DEF TasksOf
  <2>2. CASE phase # "relay"
    <3>1. \A u \in RelayTasks : heard[u] = heard'[u]
      BY <1>2, <1>3, <2>2 DEF AnswerInv, HeardShape, Alive
    <3>2. /\ TasksOf(heard, m_star) = TasksOf(heard', m_star)
          /\ ReceiverTasks(heard, m_star) = ReceiverTasks(heard', m_star)
      BY <3>1, MessagesDecide
    <3> QED BY <3>2, <1>1, <1>3 DEF WavesSoFar
  <2> QED BY <2>1, <2>2
<1> QED BY <1>1, <1>3, <1>5, <1>6 DEF WavesSoFar, Alive

LEMMA VerdictStep == VerdictInv /\ [Next]_vars => VerdictInv'
<1> SUFFICES ASSUME VerdictInv, [Next]_vars PROVE VerdictInv'
  OBVIOUS
<1>1. AnswerInv'
  BY AnswerStep DEF VerdictInv
<1>2. ASSUME NEW t \in WaveTasks, Replay(t) PROVE VerdictInv'
  <2>1. FilesGrow /\ UNCHANGED published
    BY <1>2 DEF Replay, FilesGrow, disk
  <2>2. WavesSoFar'
    BY <1>2, <2>1, HearingKeeps, RunAssumption DEF Replay, VerdictInv, disk, config
  <2> QED BY <1>1, <2>1, <2>2, VerdictsLast DEF VerdictInv
<1>3. ASSUME NEW t \in WaveTasks, Buy(t) PROVE VerdictInv'
  <2>1. PICK a : heard' = Put(heard, t, a) /\ cache' = Put(cache, Key(heard, budget, t), a)
    BY <1>3 DEF Buy
  <2>2. FilesGrow /\ UNCHANGED published
    BY <1>3, <2>1 DEF Buy, Put, FilesGrow
  <2>3. Key(heard, budget, t) \in DOMAIN cache' /\ a = cache'[Key(heard, budget, t)]
    BY <2>1 DEF Put
  <2>4. WavesSoFar'
    BY <1>3, <2>1, <2>2, <2>3, HearingKeeps, RunAssumption DEF Buy, VerdictInv, config
  <2> QED BY <1>1, <2>2, <2>4, VerdictsLast DEF VerdictInv
<1>4. CASE UNCHANGED cache /\ UNCHANGED published /\ WavesSoFar'
  <2>1. FilesGrow
    BY <1>4 DEF FilesGrow
  <2> QED BY <1>1, <1>4, <2>1, VerdictsLast DEF VerdictInv
<1>5. CASE Intervene \/ EndReceiver \/ Open \/ Finish
  BY <1>4, <1>5 DEF Intervene, EndReceiver, Open, Finish, config, disk, VerdictInv, WavesSoFar,
     FromFile, WaveDone, WaveTasks
<1>6. CASE Decide
  BY <1>4, <1>6 DEF Decide, config, disk, VerdictInv, WavesSoFar, FromFile, WaveDone, WaveTasks
<1>7. CASE Dies \/ Start
  BY <1>4, <1>7, EmptyIsFcn DEF Dies, Start, disk, VerdictInv, WavesSoFar
<1>8. CASE Dump
  <2>1. Closed(heard, m_star, budget) /\ verdict = Gate(heard, m_star)
    BY <1>8 DEF Dump, VerdictInv, AnswerInv, HeardShape, WavesSoFar, Closed, TasksOf
  <2>2. WavesSoFar' /\ FilesGrow
    BY <1>8 DEF Dump, config, VerdictInv, WavesSoFar, FromFile, FilesGrow
  <2>3. published' \subseteq published \union {<<m_star, budget, verdict>>}
    BY <1>8 DEF Dump
  <2>4. ASSUME NEW p \in published'
        PROVE  \E h : Closed(h, p[1], p[2])' /\ p[3] = Gate(h, p[1])
    <3>1. CASE p \in published
      <4>1. PICK h : Closed(h, p[1], p[2]) /\ p[3] = Gate(h, p[1])
        BY <3>1 DEF VerdictInv, PublishedFromFiles
      <4> QED BY <4>1, <2>2, ClosedLasts
    <3>2. CASE p = <<m_star, budget, verdict>>
      BY <3>2, <2>1, <2>2, ClosedLasts
    <3> QED BY <2>3, <3>1, <3>2
  <2>5. PublishedFromFiles'
    BY <2>4 DEF PublishedFromFiles
  <2> QED BY <1>1, <2>2, <2>5 DEF VerdictInv
<1>9. CASE UNCHANGED vars
  BY <1>4, <1>9 DEF vars, config, disk, VerdictInv, WavesSoFar, FromFile
<1> QED BY <1>2, <1>3, <1>5, <1>6, <1>7, <1>8, <1>9 DEF Next

(* Two runs of one configuration publish the same verdict, whatever was     *)
(* bought, repeated or lost in between.                                    *)
THEOREM SameVerdict == Spec => []VerdictReproducible
<1>1. VerdictInv => VerdictReproducible
  <2> SUFFICES ASSUME VerdictInv, NEW p \in published, NEW q \in published,
                      p[1] = q[1], p[2] = q[2]
               PROVE  p[3] = q[3]
    BY DEF VerdictReproducible
  <2>1. PICK h : Closed(h, p[1], p[2]) /\ p[3] = Gate(h, p[1])
    BY DEF VerdictInv, PublishedFromFiles
  <2>2. PICK g : Closed(g, q[1], q[2]) /\ q[3] = Gate(g, q[1])
    BY DEF VerdictInv, PublishedFromFiles
  <2>3. h = g
    BY <2>1, <2>2, ClosedIsUnique, RunAssumption
  <2> QED BY <2>1, <2>2, <2>3
<1> QED BY <1>1, VerdictInit, VerdictStep, PTL DEF Spec
-----------------------------------------------------------------------------
Decided == {"export", "writing", "finished"}

TypeInv == TypeOK /\ (verdict # "none" <=> phase \in Decided)

LEMMA TypeInit == Init => TypeInv
<1> SUFFICES ASSUME Init PROVE TypeInv
  OBVIOUS
<1>1. MaxRuns \in Nat \ {0}
  BY RunAssumption DEF RunAssumption
<1> QED BY <1>1, EmptyIsFcn DEF Init, TypeInv, TypeOK, Decided, Artefacts, NumArtefacts

LEMMA TypeStep == TypeInv /\ WriterInv /\ [Next]_vars => TypeInv'
<1> SUFFICES ASSUME TypeInv, WriterInv, [Next]_vars PROVE TypeInv'
  OBVIOUS
<1> USE DEF TypeInv, TypeOK, Decided
<1>1. MaxRuns \in Nat \ {0}
  BY RunAssumption DEF RunAssumption
<1>2. ASSUME NEW t \in WaveTasks, Replay(t) PROVE TypeInv'
  <2>1. cache[Key(heard, budget, t)].said \in Answers(t)
    BY <1>2 DEF Replay, Key
  <2>2. \A u \in DOMAIN heard' : heard'[u].said \in Answers(u)
    BY <1>2, <2>1 DEF Replay, Put
  <2> QED BY <1>2, <2>2 DEF Replay, config, disk
<1>3. ASSUME NEW t \in WaveTasks, Buy(t) PROVE TypeInv'
  <2>1. PICK a : /\ a.said \in Answers(t)
                 /\ heard' = Put(heard, t, a) /\ cache' = Put(cache, Key(heard, budget, t), a)
    BY <1>3 DEF Buy
  <2>2. \A u \in DOMAIN heard' : heard'[u].said \in Answers(u)
    BY <2>1 DEF Put
  <2>3. \A k \in DOMAIN cache' : cache'[k].said \in Answers(k[1])
    BY <2>1 DEF Put, Key
  <2> QED BY <1>3, <2>2, <2>3 DEF Buy, config
<1>4. CASE Intervene \/ EndReceiver \/ Decide \/ Finish
  BY <1>4 DEF Intervene, EndReceiver, Decide, Gate, Finish, config, disk
<1>5. CASE Open
  BY <1>5, <1>1 DEF Open, FileOf, config, Artefacts, NumArtefacts
<1>6. CASE Dump
  <2>1. artefact' \in [Artefacts -> {"absent", "torn", "whole"}] /\ written' \in 0 .. NumArtefacts
    <3>1. written \in 0 .. NumArtefacts - 1
      BY <1>6 DEF Dump, WriterInv, WriterTypes, Progress, NumArtefacts
    <3>2. artefact' = [artefact EXCEPT ![written + 1] = "whole"] /\ written' = written + 1
      BY <1>6 DEF Dump, FileOf
    <3>3. written' \in 0 .. NumArtefacts
      BY <3>1, <3>2 DEF NumArtefacts
    <3>4. artefact \in [Artefacts -> {"absent", "torn", "whole"}]
      OBVIOUS
    <3>5. artefact' \in [Artefacts -> {"absent", "torn", "whole"}]
      <4> HIDE DEF TypeInv, TypeOK
      <4> QED BY <3>2, <3>4
    <3> QED BY <3>3, <3>5
  <2>2. published' \subseteq MStars \X Budgets \X {"pass", "fail"}
    BY <1>6 DEF Dump
  <2> QED BY <1>6, <2>1, <2>2 DEF Dump, config
<1>7. CASE Dies \/ Start
  BY <1>7, <1>1, EmptyIsFcn DEF Dies, Start, config, disk, NumArtefacts
<1>8. CASE UNCHANGED vars
  BY <1>8 DEF vars, config, disk
<1> QED BY <1>2, <1>3, <1>4, <1>5, <1>6, <1>7, <1>8 DEF Next

THEOREM TypeCorrect == Spec => []TypeOK
<1>1. TypeInv => TypeOK
  BY DEF TypeInv
<1> QED BY <1>1, TypeInit, TypeStep, WriterInit, WriterStep, PTL DEF Spec
-----------------------------------------------------------------------------
(* The draws of an arm are as many as the repetitions asked for. *)
ArmDraws(arm, a, m) == {<<arm, a, r>> : r \in 1 .. m}

LEMMA ArmIsFinite ==
  ASSUME NEW m \in Nat, NEW arm, NEW a
  PROVE  IsFiniteSet(ArmDraws(arm, a, m)) /\ Cardinality(ArmDraws(arm, a, m)) = m
<1> DEFINE f == [r \in 1 .. m |-> <<arm, a, r>>]
<1>1. f \in Bijection(1 .. m, ArmDraws(arm, a, m))
  BY DEF ArmDraws, Bijection, Injection, Surjection, IsInjective
<1>2. IsFiniteSet(1 .. m) /\ Cardinality(1 .. m) = m
  BY FS_Interval
<1>3. ExistsBijection(1 .. m, ArmDraws(arm, a, m))
  BY <1>1 DEF ExistsBijection
<1> QED BY <1>2, <1>3, FS_Bijection

(* The tasks of a process with --m-star m, and so what it heard, hold       *)
(* exactly these.                                                          *)
LEMMA DrawsOfAnArm ==
  ASSUME NEW h, NEW m \in Nat, DOMAIN h = TasksOf(h, m), NEW a \in Atoms
  PROVE  /\ Draws(h, "natural", a) = ArmDraws("natural", a, m)
         /\ EditValid(h, a) => Draws(h, "counterfactual", a) = ArmDraws("counterfactual", a, m)
         /\ ClassOf[a] # NoClass => Draws(h, "prior", a) = ArmDraws("prior", a, MPrior)
BY DEF ArmDraws, Draws, TasksOf, RelayTasks, ReceiverTasks, PriorTasks

LEMMA DrawsAreComplete ==
  ASSUME NEW h, NEW m \in Nat, DOMAIN h = TasksOf(h, m)
  PROVE  Records(h, m) = {a \in Atoms : EditValid(h, a)}
BY DrawsOfAnArm, ArmIsFinite DEF Records

(* The verdict rests on every atom whose edit was valid. *)
THEOREM NothingLeavesSilently == Spec => []NoSilentAttrition
<1>1. TypeInv /\ VerdictInv => NoSilentAttrition
  <2> SUFFICES ASSUME TypeInv, VerdictInv, verdict # "none"
               PROVE  Records(heard, m_star) = {a \in Atoms : EditValid(heard, a)}
    BY DEF NoSilentAttrition
  <2>1. m_star \in Nat
    BY RunAssumption DEF TypeInv, TypeOK, RunAssumption
  <2>2. DOMAIN heard = TasksOf(heard, m_star)
    BY DEF TypeInv, Decided, VerdictInv, AnswerInv, HeardShape, WavesSoFar, TasksOf
  <2> QED BY <2>1, <2>2, DrawsAreComplete
<1> QED BY <1>1, TypeInit, TypeStep, WriterInit, WriterStep, VerdictInit, VerdictStep, PTL DEF Spec
-----------------------------------------------------------------------------
(* The two sums of the gate, as sums of a function. *)
RMinusOf(h, S) == [a \in S |-> RMinus(h, a)]
HitsOf(h, S) == [a \in S |-> Recovered(h, "prior", a)]

LEMMA RMinusSum ==
  ASSUME NEW h, NEW S, IsFiniteSet(S)
  PROVE  MapThenSumSet(LAMBDA a : RMinus(h, a), S) = SumOver(RMinusOf(h, S), S)
<1> DEFINE F == RMinusOf(h, S)
           Sum(g) == [s \in SUBSET S |-> IF s = {} THEN 0
                        ELSE RMinus(h, CHOOSE x \in s : TRUE) + g[s \ {CHOOSE x \in s : TRUE}]]
           G == CHOOSE iter : iter = Sum(iter)
<1>1. MapThenSumSet(LAMBDA a : RMinus(h, a), S) = G[S]
  BY DEF MapThenSumSet, MapThenFoldSet
<1>2. ASSUME NEW g PROVE IsSum(g, F, S) <=> g = Sum(g)
  <2>1. \A s \in SUBSET S : s # {} => F[CHOOSE x \in s : TRUE] = RMinus(h, CHOOSE x \in s : TRUE)
    BY DEF RMinusOf
  <2> HIDE DEF F
  <2>2. [s \in SUBSET S |-> IF s = {} THEN 0
           ELSE F[CHOOSE x \in s : TRUE] + g[s \ {CHOOSE x \in s : TRUE}]] = Sum(g)
    BY <2>1
  <2> HIDE DEF Sum
  <2> QED BY <2>2 DEF IsSum, Chosen
<1>3. PICK g : IsSum(g, F, S)
  BY SumExists
<1>7. g = Sum(g)
  BY <1>2, <1>3
<1>4. G = Sum(G)
  <2> HIDE DEF Sum
  <2> QED BY <1>7
<1> HIDE DEF G, F, Sum
<1>5. IsSum(G, F, S)
  BY <1>2, <1>4
<1>6. SumOver(F, S) = G[S]
  BY <1>5, SumValue
<1> QED BY <1>1, <1>6 DEF F

LEMMA HitsSum ==
  ASSUME NEW h, NEW S, IsFiniteSet(S)
  PROVE  MapThenSumSet(LAMBDA a : Recovered(h, "prior", a), S) = SumOver(HitsOf(h, S), S)
<1> DEFINE F == HitsOf(h, S)
           Sum(g) == [s \in SUBSET S |-> IF s = {} THEN 0
                        ELSE Recovered(h, "prior", CHOOSE x \in s : TRUE)
                               + g[s \ {CHOOSE x \in s : TRUE}]]
           G == CHOOSE iter : iter = Sum(iter)
<1>1. MapThenSumSet(LAMBDA a : Recovered(h, "prior", a), S) = G[S]
  BY DEF MapThenSumSet, MapThenFoldSet
<1>2. ASSUME NEW g PROVE IsSum(g, F, S) <=> g = Sum(g)
  <2>1. \A s \in SUBSET S : s # {} =>
          F[CHOOSE x \in s : TRUE] = Recovered(h, "prior", CHOOSE x \in s : TRUE)
    BY DEF HitsOf
  <2> HIDE DEF F
  <2>2. [s \in SUBSET S |-> IF s = {} THEN 0
           ELSE F[CHOOSE x \in s : TRUE] + g[s \ {CHOOSE x \in s : TRUE}]] = Sum(g)
    BY <2>1
  <2> HIDE DEF Sum
  <2> QED BY <2>2 DEF IsSum, Chosen
<1>3. PICK g : IsSum(g, F, S)
  BY SumExists
<1>4. g = Sum(g)
  BY <1>2, <1>3
<1>5. G = Sum(G)
  <2> HIDE DEF Sum
  <2> QED BY <1>4
<1> HIDE DEF G, F, Sum
<1>6. SumOver(F, S) = G[S]
  BY <1>2, <1>5, SumValue
<1> QED BY <1>1, <1>6 DEF F

(* The caps of Wave A leave an atom whose edit is valid: less than all of   *)
(* the focal atoms were refused.                                           *)
LEMMA CapsLeaveAnAtom ==
  ASSUME CapsHold
  PROVE  \E a \in Atoms : EditValid(heard, a)
<1> SUFFICES ASSUME \A a \in Atoms : ~EditValid(heard, a) PROVE FALSE
  OBVIOUS
<1> DEFINE n1 == Cardinality(Carrying)
           n0 == Cardinality(Atoms \ Carrying)
<1>1. IsFiniteSet(Atoms) /\ Atoms # {} /\ OverallCap \in 0 .. 99
  BY RunAssumption DEF RunAssumption
<1>2. IsFiniteSet(Carrying) /\ IsFiniteSet(Atoms \ Carrying)
  BY <1>1, FS_Subset DEF Carrying
<1>3. n1 \in Nat /\ n0 \in Nat
  BY <1>2, FS_CardinalityType
<1>4. n1 + n0 # 0
  <2>1. Carrying # {} \/ Atoms \ Carrying # {}
    BY <1>1
  <2>2. n1 # 0 \/ n0 # 0
    BY <2>1, <1>2, FS_EmptySet
  <2> QED BY <2>2, <1>3
<1>5. Refused(Carrying) = n1 /\ Refused(Atoms \ Carrying) = n0
  <2>1. {a \in Carrying : ~EditValid(heard, a)} = Carrying
    BY DEF Carrying
  <2>2. {a \in Atoms \ Carrying : ~EditValid(heard, a)} = Atoms \ Carrying
    OBVIOUS
  <2> QED BY <2>1, <2>2 DEF Refused
<1>6. 100 * (n1 + n0) <= OverallCap * (n1 + n0)
  BY <1>5 DEF CapsHold
<1> DEFINE n == n1 + n0
<1>7. n \in Nat /\ n # 0 /\ 100 * n <= OverallCap * n
  BY <1>3, <1>4, <1>6
<1> HIDE DEF n
<1>8. OverallCap * n <= 99 * n
  BY <1>1, <1>7
<1> QED BY <1>1, <1>7, <1>8

(* Past the interventions there is such an atom. *)
SomeValid ==
  phase \in {"receiver", "prior"} \union Decided => \E a \in Atoms : EditValid(heard, a)

LEMMA SomeValidStep ==
  ASSUME SomeValid, AnswerInv, [Next]_vars
  PROVE  SomeValid'
<1> USE DEF SomeValid, Decided
<1>1. ASSUME NEW t \in WaveTasks, Replay(t) \/ Buy(t) PROVE SomeValid'
  <2>1. CASE phase = "relay"
    BY <1>1, <2>1 DEF Replay, Buy
  <2>2. CASE phase # "relay"
    <3>1. PICK a : heard' = Put(heard, t, a)
      BY <1>1 DEF Replay, Buy
    <3>2. t \notin DOMAIN heard /\ phase' = phase /\ phase \in Alive
      BY <1>1 DEF Replay, Buy, WaveTasks, Alive
    <3>3. \A u \in RelayTasks : heard'[u] = heard[u]
      BY <2>2, <3>1, <3>2 DEF Put, AnswerInv, HeardShape, Alive
    <3>4. \A x \in Atoms : EditValid(heard', x) <=> EditValid(heard, x)
      BY <3>3, RunAssumption DEF RunAssumption, RelayTasks, EditValid, MessageOf, Message
    <3> QED BY <2>2, <3>2, <3>4 DEF Alive
  <2> QED BY <2>1, <2>2
<1>2. CASE Intervene
  BY <1>2, CapsLeaveAnAtom DEF Intervene
<1>3. CASE EndReceiver \/ Decide \/ Open \/ Dump \/ Finish
  BY <1>3 DEF EndReceiver, Decide, Open, Dump, Finish
<1>4. CASE Dies \/ Start
  BY <1>4 DEF Dies, Start
<1>5. CASE UNCHANGED vars
  BY <1>5 DEF vars
<1> QED BY <1>1, <1>2, <1>3, <1>4, <1>5 DEF Next

(* An arm that recovered the atom has a draw that did. *)
LEMMA CountedDraw ==
  ASSUME NEW h, NEW m \in Nat, NEW arm, NEW a, Draws(h, arm, a) = ArmDraws(arm, a, m)
  PROVE  /\ Recovered(h, arm, a) \in Nat
         /\ Recovered(h, arm, a) > 0 => \E r \in 1 .. m : h[<<arm, a, r>>].said = 1
<1> DEFINE C == {t \in Draws(h, arm, a) : h[t].said = 1}
<1>1. IsFiniteSet(C)
  BY ArmIsFinite, FS_Subset
<1>2. Recovered(h, arm, a) = Cardinality(C)
  BY DEF Recovered
<1>3. Cardinality(C) \in Nat /\ (C = {} => Cardinality(C) = 0)
  BY <1>1, FS_CardinalityType, FS_EmptySet
<1>4. C # {} => \E r \in 1 .. m : h[<<arm, a, r>>].said = 1
  BY DEF ArmDraws
<1> HIDE DEF C
<1> QED BY <1>2, <1>3, <1>4

(* A reconstruction rate that clears its bar has a draw without the atom.   *)
LEMMA ReconstructionIsBacked ==
  ASSUME NEW h, NEW m \in Nat \ {0}, DOMAIN h = TasksOf(h, m),
         \E a \in Atoms : EditValid(h, a), ReconstructionClears(h, m)
  PROVE  \E a \in Atoms, r \in 1 .. m :
           \/ ~Transmitted(h, a) /\ h[<<"natural", a, r>>].said = 1
           \/ /\ Transmitted(h, a) /\ EditValid(h, a)
              /\ h[<<"counterfactual", a, r>>].said = 1
<1> DEFINE S == Records(h, m)
           F == RMinusOf(h, S)
<1>1. S = {a \in Atoms : EditValid(h, a)}
  BY DrawsAreComplete
<1>2. IsFiniteSet(S) /\ S # {}
  BY <1>1, RunAssumption, FS_Subset DEF RunAssumption
<1>3. ASSUME NEW a \in S
      PROVE  /\ Draws(h, "natural", a) = ArmDraws("natural", a, m)
             /\ Draws(h, "counterfactual", a) = ArmDraws("counterfactual", a, m)
  BY <1>1, DrawsOfAnArm
<1>4. ASSUME NEW a \in S
      PROVE  /\ Recovered(h, "natural", a) \in Nat
             /\ Recovered(h, "natural", a) > 0 =>
                  \E r \in 1 .. m : h[<<"natural", a, r>>].said = 1
  <2>1. m \in Nat /\ Draws(h, "natural", a) = ArmDraws("natural", a, m)
    BY <1>3
  <2> HIDE DEF S
  <2> QED BY <2>1, CountedDraw
<1>5. ASSUME NEW a \in S
      PROVE  /\ Recovered(h, "counterfactual", a) \in Nat
             /\ Recovered(h, "counterfactual", a) > 0 =>
                  \E r \in 1 .. m : h[<<"counterfactual", a, r>>].said = 1
  <2>1. m \in Nat /\ Draws(h, "counterfactual", a) = ArmDraws("counterfactual", a, m)
    BY <1>3
  <2> HIDE DEF S
  <2> QED BY <2>1, CountedDraw
<1>6. \A a \in S : F[a] = RMinus(h, a) /\ F[a] \in Nat
  BY <1>4, <1>5 DEF RMinusOf, RMinus
<1>7. SumOver(F, S) # 0
  <2>1. SumOver(F, S) \in Nat
    <3> HIDE DEF F, S
    <3> QED BY <1>2, <1>6, SumIsNat
  <2>2. 10 * SumOver(F, S) >= m * Cardinality(S)
    BY <1>2, RMinusSum DEF ReconstructionClears
  <2>3. Cardinality(S) \in Nat /\ Cardinality(S) # 0
    BY <1>2, FS_CardinalityType, FS_EmptySet
  <2>4. m * Cardinality(S) # 0
    <3> DEFINE n == Cardinality(S)
    <3>1. n \in Nat /\ n # 0
      BY <2>3
    <3> HIDE DEF n
    <3>2. m * n # 0
      BY <3>1
    <3> QED BY <3>2 DEF n
  <2>5. m * Cardinality(S) \in Nat
    BY <2>3
  <2> HIDE DEF F, S
  <2> QED BY <2>1, <2>2, <2>4, <2>5
<1>8. PICK a \in S : F[a] > 0
  <2> HIDE DEF F, S
  <2> QED BY <1>2, <1>6, <1>7, SumHasSummand
<1>9. RMinus(h, a) > 0
  BY <1>6, <1>8
<1>10. a \in Atoms /\ EditValid(h, a)
  BY <1>1
<1>11. CASE Transmitted(h, a)
  <2>1. Recovered(h, "counterfactual", a) > 0
    BY <1>9, <1>11 DEF RMinus
  <2> QED BY <2>1, <1>5, <1>10, <1>11
<1>12. CASE ~Transmitted(h, a)
  <2>1. Recovered(h, "natural", a) > 0
    BY <1>9, <1>12 DEF RMinus
  <2> QED BY <2>1, <1>4, <1>10, <1>12
<1> QED BY <1>11, <1>12

(* So does a prior effect that clears it: one of its class was read off no  *)
(* message at all.                                                         *)
LEMMA PriorIsBacked ==
  ASSUME NEW h, NEW m \in Nat \ {0}, DOMAIN h = TasksOf(h, m),
         NEW k \in Classes, PriorClears(h, k)
  PROVE  \E t \in PriorTasks : h[t].said = 1
<1> DEFINE S == {a \in Atoms : ClassOf[a] = k}
           F == HitsOf(h, S)
<1>1. MPrior \in Nat \ {0} /\ NoClass \notin Classes
  BY RunAssumption DEF RunAssumption
<1>2. IsFiniteSet(S)
  BY RunAssumption, FS_Subset DEF RunAssumption
<1>3. S # {} /\ 10 * SumOver(F, S) >= MPrior * Cardinality(S)
  BY <1>2, HitsSum DEF PriorClears
<1>4. ASSUME NEW a \in S
      PROVE  Draws(h, "prior", a) = ArmDraws("prior", a, MPrior)
  BY <1>1, DrawsOfAnArm
<1>5. ASSUME NEW a \in S
      PROVE  /\ Recovered(h, "prior", a) \in Nat
             /\ Recovered(h, "prior", a) > 0 =>
                  \E r \in 1 .. MPrior : h[<<"prior", a, r>>].said = 1
  <2>1. MPrior \in Nat /\ Draws(h, "prior", a) = ArmDraws("prior", a, MPrior)
    BY <1>1, <1>4
  <2> QED BY <2>1, CountedDraw
<1>6. \A a \in S : F[a] = Recovered(h, "prior", a) /\ F[a] \in Nat
  BY <1>5 DEF HitsOf
<1>7. SumOver(F, S) # 0
  <2>1. SumOver(F, S) \in Nat
    <3> HIDE DEF F, S
    <3> QED BY <1>2, <1>6, SumIsNat
  <2> DEFINE n == Cardinality(S)
  <2>2. n \in Nat /\ n # 0
    BY <1>2, <1>3, FS_CardinalityType, FS_EmptySet
  <2>3. 10 * SumOver(F, S) >= MPrior * n
    BY <1>3
  <2> HIDE DEF F, S, n
  <2>4. MPrior * n # 0 /\ MPrior * n \in Nat
    BY <1>1, <2>2
  <2> QED BY <2>1, <2>3, <2>4
<1>8. PICK a \in S : F[a] > 0
  <2> HIDE DEF F, S
  <2> QED BY <1>2, <1>6, <1>7, SumHasSummand
<1>9. PICK r \in 1 .. MPrior : h[<<"prior", a, r>>].said = 1
  BY <1>5, <1>6, <1>8
<1> QED BY <1>1, <1>9 DEF PriorTasks

(* A verdict to proceed is backed by an answer that recovered an atom which *)
(* the matcher does not read in its prompt, or reads there only because an *)
(* accepted deletion left its tokens (editor.py, delete_atom), in every    *)
(* run, whatever the files held before.                                    *)
THEOREM PassIsEarned == Spec => []PassNeedsPriorAccess
<1>1. TypeInv /\ VerdictInv /\ SomeValid => PassNeedsPriorAccess
  <2> SUFFICES ASSUME TypeInv, VerdictInv, SomeValid, verdict = "pass"
               PROVE  \E t \in ReceiverTasks(heard, m_star) \union PriorTasks :
                        heard[t].said = 1 /\ (Readable(t) => Leftover(t))
    BY DEF PassNeedsPriorAccess
  <2>1. m_star \in Nat \ {0}
    BY RunAssumption DEF TypeInv, TypeOK, RunAssumption
  <2>2. phase \in Decided
    BY DEF TypeInv
  <2>3. DOMAIN heard = TasksOf(heard, m_star) /\ verdict = Gate(heard, m_star)
    BY <2>2 DEF Decided, VerdictInv, AnswerInv, HeardShape, WavesSoFar, TasksOf
  <2>4. \E a \in Atoms : EditValid(heard, a)
    BY <2>2 DEF SomeValid
  <2>5. CASE ReconstructionClears(heard, m_star)
    <3>1. PICK a \in Atoms, r \in 1 .. m_star :
             \/ ~Transmitted(heard, a) /\ heard[<<"natural", a, r>>].said = 1
             \/ /\ Transmitted(heard, a) /\ EditValid(heard, a)
                /\ heard[<<"counterfactual", a, r>>].said = 1
      BY <2>1, <2>3, <2>4, <2>5, ReconstructionIsBacked
    <3>2. CASE ~Transmitted(heard, a) /\ heard[<<"natural", a, r>>].said = 1
      <4> DEFINE t == <<"natural", a, r>>
      <4>1. t \in ReceiverTasks(heard, m_star)
        BY <3>2 DEF ReceiverTasks
      <4>2. heard[t].about = Prompt(heard, budget, t)
        BY <4>1, <2>3 DEF VerdictInv, AnswerInv, AnswersFitTheQuestion, TasksOf
      <4>3. Prompt(heard, budget, t) = MessageOf(heard, a)
        BY DEF Prompt
      <4> QED BY <3>2, <4>1, <4>2, <4>3 DEF Transmitted, Readable
    <3>3. CASE /\ Transmitted(heard, a) /\ EditValid(heard, a)
               /\ heard[<<"counterfactual", a, r>>].said = 1
      <4> DEFINE t == <<"counterfactual", a, r>>
      <4>1. t \in ReceiverTasks(heard, m_star)
        BY <3>3 DEF ReceiverTasks
      <4>2. heard[t].about = Prompt(heard, budget, t)
        BY <4>1, <2>3 DEF VerdictInv, AnswerInv, AnswersFitTheQuestion, TasksOf
      <4>3. Prompt(heard, budget, t) = MessageOf(heard, a)
        BY DEF Prompt
      <4> QED BY <3>3, <4>1, <4>2, <4>3 DEF Transmitted, Readable
    <3> QED BY <3>1, <3>2, <3>3
  <2>6. CASE \E k \in Classes : PriorClears(heard, k)
    <3>1. PICK t \in PriorTasks : heard[t].said = 1
      BY <2>1, <2>3, <2>6, PriorIsBacked
    <3>2. t[1] = "prior"
      BY DEF PriorTasks
    <3> QED BY <3>1, <3>2 DEF Readable, Leftover
  <2> QED BY <2>3, <2>5, <2>6 DEF Gate
<1>2. Init => SomeValid
  BY DEF Init, SomeValid, Decided
<1>3. SomeValid /\ AnswerInv /\ [Next]_vars => SomeValid'
  BY SomeValidStep
<1>4. VerdictInv => AnswerInv
  BY DEF VerdictInv
<1> QED BY <1>1, <1>2, <1>3, <1>4, TypeInit, TypeStep, WriterInit, WriterStep, VerdictInit,
           VerdictStep, PTL DEF Spec
=============================================================================
