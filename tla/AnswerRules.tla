----------------------------- MODULE AnswerRules -----------------------------
(***************************************************************************)
(* The availability intervention: the matcher that decides whether a        *)
(* message carries an atom, the editor that builds the missing arm, the     *)
(* shams, and the matched skeletons of Experiment B.                        *)
(*                                                                         *)
(* A message is a sequence of pieces.  [value, shape] is text a canonical   *)
(* form is read from: "plain" is a surface form whose span the editor       *)
(* finds, "spread" one whose tokens match and whose span does not (other    *)
(* punctuation or spacing between them), "bare" a value that is read      *)
(* only when it is all of an answer.  Words carry no value: "word", "versus" (an    *)
(* entangling word on the left), "and" (on the right, before a digit),      *)
(* "punct" (which the cleanup moves next to its neighbour) and "label" (the *)
(* role a rendered atom begins with).                                       *)
(***************************************************************************)
EXTENDS Integers, Sequences, FiniteSets, SequencesExt, FiniteSetsExt

TextRoles == {"entity", "scope", "provenance"}
Mention(value, shape) == [value |-> value, shape |-> shape]
Word(w) == Mention("", w)

\* find_spans: the positions whose canonical form is the value.
find_spans(message, z) == {i \in DOMAIN message : message[i] = Mention(z, "plain")}
contains_token_sequence(message, z) ==
  \E i \in DOMAIN message : message[i].value = z /\ message[i].shape \in {"plain", "spread"}
is_transmitted(message, z, role) ==
  find_spans(message, z) # {} \/ (role \in TextRoles /\ contains_token_sequence(message, z))
\* recovered: the answer is the value, or has it in it.
recovered(answer, z, role) ==
  (Len(answer) = 1 /\ answer[1].value = z) \/ is_transmitted(answer, z, role)
-----------------------------------------------------------------------------
(* Invariance and the editor.                                               *)

Without(message, positions) ==
  LET kept == SetToSortSeq(DOMAIN message \ positions, <)
  IN  [i \in DOMAIN kept |-> message[kept[i]]]
\* _cleanup: a comma is not left beside a comma.
Doubled(message) == {i \in 2..Len(message) : message[i] = Word("punct") /\ message[i - 1] = Word("punct")}
cleanup(message) == Without(message, Doubled(message))

mask_focal(message, z) == Without(message, find_spans(message, z))
non_focal_invariant(natural, edited, z) ==
  cleanup(mask_focal(natural, z)) = cleanup(mask_focal(edited, z))
non_focal_invariant_insertion(natural, edited, appended) ==
  /\ Len(edited) >= Len(appended)
  /\ SubSeq(edited, Len(edited) - Len(appended) + 1, Len(edited)) = appended
  /\ SubSeq(edited, 1, Len(edited) - Len(appended)) = natural

entangled(message, i) ==
  \/ i > 1 /\ message[i - 1] = Word("versus")
  \/ i < Len(message) - 1 /\ message[i + 1] = Word("and") /\ message[i + 2].value # ""

Rejected == [accepted |-> FALSE, text |-> << >>, mechanism |-> "", occurrences |-> 0, overrun |-> 0]
Edited(text, mechanism, n, overrun) ==
  [accepted |-> TRUE, text |-> text, mechanism |-> mechanism, occurrences |-> n, overrun |-> overrun]

\* DeleteFirst removes the first occurrence and leaves the others.
DeleteFirst(message, z) ==
  LET spans == find_spans(message, z)
  IN  IF spans = {} \/ \E i \in spans : entangled(message, i) THEN Rejected
      ELSE Edited(cleanup(Without(message, {Min(spans)})), "del", Cardinality(spans), 0)
delete_atom(message, z) ==
  LET spans == find_spans(message, z)
      edited == cleanup(Without(message, spans))
  IN  IF \/ spans = {}
         \/ \E i \in spans : entangled(message, i)
         \/ ~non_focal_invariant(message, edited, z)
         \/ find_spans(edited, z) # {}
      THEN Rejected ELSE Edited(edited, "del", Cardinality(spans), 0)

insert_atom(message, z, rendered, budget) ==
  LET edited == message \o rendered
  IN  IF \/ find_spans(message, z) # {}
         \/ ~non_focal_invariant_insertion(message, edited, rendered)
         \/ find_spans(edited, z) = {}
      THEN Rejected
      ELSE Edited(edited, "ins", 1, Max({0, Len(edited) - budget}))

build_counterfactual(message, z, transmitted, rendered, budget) ==
  IF transmitted THEN delete_atom(message, z) ELSE insert_atom(message, z, rendered, budget)

\* sham_deletion rewrites every occurrence; sham_insertion repeats what is there.
sham_deletion(message, z, equivalent) ==
  LET spans == find_spans(message, z)
      edited == cleanup([i \in DOMAIN message |-> IF i \in spans THEN equivalent ELSE message[i]])
  IN  IF spans = {} \/ find_spans(edited, z) = {} THEN Rejected
      ELSE Edited(edited, "del", Cardinality(spans), 0)
sham_insertion(message, z, redundant) ==
  LET edited == message \o redundant
  IN  IF find_spans(edited, z) # find_spans(message, z) THEN Rejected
      ELSE Edited(edited, "ins", 0, 0)
-----------------------------------------------------------------------------
(* The matched skeletons.  Atoms are [sentence, start, role, value].        *)

SLOT_ORDER == <<"entity", "scope", "period", "numeric", "provenance">>

\* A tuple per sentence with enough roles: the first atom of each role.
build_candidate_tuples(atoms, min_roles) ==
  LET Of(s, r) == {a \in atoms : a.sentence = s /\ a.role = r}
      Roles(s) == {a.role : a \in {b \in atoms : b.sentence = s}}
      Earliest(S) == CHOOSE a \in S : \A b \in S : a.start <= b.start
  IN  {[sentence |-> s, slots |-> [r \in Roles(s) |-> Earliest(Of(s, r)).value]] :
         s \in {a.sentence : a \in {b \in atoms : Cardinality(Roles(b.sentence)) >= min_roles}}}
populated_roles(tup) == SelectSeq(SLOT_ORDER, LAMBDA r : r \in DOMAIN tup.slots)
is_eligible(tup, focal_role, min_roles) ==
  focal_role \in DOMAIN tup.slots /\ Len(populated_roles(tup)) >= min_roles

Blank == "<<OMITTED>>"
\* The lines of the skeleton: the mapping's value, or the slot's own.
render_skeleton(tup, focal_role, mapping) ==
  LET roles == populated_roles(tup)
  IN  [i \in DOMAIN roles |->
         [role |-> roles[i],
          value |-> IF roles[i] = focal_role THEN Blank
                    ELSE IF roles[i] \in DOMAIN mapping THEN mapping[roles[i]]
                    ELSE tup.slots[roles[i]]]]
natural_mapping(tup) == tup.slots
slot_structure(rendered) ==
  [i \in DOMAIN rendered |-> <<rendered[i].role, rendered[i].value = Blank>>]
OmittedIn(rendered) == Cardinality({i \in DOMAIN rendered : rendered[i].value = Blank})
assert_matched(natural, blocked) ==
  /\ slot_structure(natural) = slot_structure(blocked)
  /\ OmittedIn(natural) = 1 /\ OmittedIn(blocked) = 1
=============================================================================
