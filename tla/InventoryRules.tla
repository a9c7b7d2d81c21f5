--------------------------- MODULE InventoryRules ---------------------------
(***************************************************************************)
(* From the relay-visible text to the atoms of the target population: the  *)
(* overlap resolution and merging of atomizer/rules.py, the eligibility     *)
(* filter and review sheet of atomizer/verify.py, and the inventory file.   *)
(*                                                                         *)
(* A match of a role pattern is [role, start, stop, value].  A value is     *)
(* <<slug, mark>>: mark is what _slug drops of it ("%", a currency sign).   *)
(* The matches are the inputs; no two differ in their value alone.          *)
(***************************************************************************)
EXTENDS Integers, Sequences, FiniteSets, SequencesExt, FiniteSetsExt

ROLE_ORDER == <<"entity", "scope", "period", "numeric", "provenance">>
RoleRank(role) == CHOOSE i \in DOMAIN ROLE_ORDER : ROLE_ORDER[i] = role
Span(c) == c.stop - c.start
Overlap(c, d) == c.start < d.stop /\ d.start < c.stop

\* Longest span first, then the frozen order of the roles, then the start.
RanksBefore(c, d) ==
  \/ Span(c) > Span(d)
  \/ Span(c) = Span(d) /\ RoleRank(c.role) < RoleRank(d.role)
  \/ Span(c) = Span(d) /\ c.role = d.role /\ c.start < d.start

\* The members of S by the number of members that come before each.
InOrder(S, preceding) ==
  [i \in 1..Cardinality(S) |-> CHOOSE c \in S : Cardinality(preceding[c]) = i - 1]

\* The members of the sequence s at the places in I.
At(s, I) ==
  LET places == InOrder(I, [i \in I |-> {j \in I : j < i}])
  IN  [k \in 1..Cardinality(I) |-> s[places[k]]]

KeepDisjoint(ranked) ==
  LET kept[k \in 0..Len(ranked)] ==
        IF k = 0 THEN {}
        ELSE LET S == kept[k - 1]
             IN  IF \E c \in S : Overlap(ranked[k], c) THEN S ELSE S \cup {ranked[k]}
  IN  kept[Len(ranked)]
\* ResolveLeftmost lets the leftmost match win.
ResolveLeftmost(cands) ==
  KeepDisjoint(InOrder(cands, [c \in cands |->
    {d \in cands : d.start < c.start \/ (d.start = c.start /\ RanksBefore(d, c))}]))
resolve_overlaps(cands) ==
  KeepDisjoint(InOrder(cands, [c \in cands |-> {d \in cands : RanksBefore(d, c)}]))

atom_id(role, value) == <<role, value[1]>>

\* Occurrences of one role and value become one atom at the first of them.
Merged(members) ==
  LET first == CHOOSE c \in members : \A d \in members : c.start <= d.start
  IN  [id |-> atom_id(first.role, first.value), role |-> first.role, value |-> first.value,
       start |-> first.start, stop |-> first.stop, occurrence_count |-> Cardinality(members),
       spans |-> {<<c.start, c.stop>> : c \in members}, verification |-> "unverified"]
atomize(cands) ==
  LET kept == resolve_overlaps(cands)
      groups == {{d \in kept : d.role = c.role /\ d.value = c.value} : c \in kept}
      atoms == {Merged(g) : g \in groups}
  IN  InOrder(atoms, [a \in atoms |-> {b \in atoms : b.start < a.start}])

\* frame is [length, hyphens], hyphens the positions of "-" in the text.
within_frame(frame, atoms) ==
  \A i \in DOMAIN atoms : 0 <= atoms[i].start /\ atoms[i].start < atoms[i].stop
                          /\ atoms[i].stop <= frame.length
-----------------------------------------------------------------------------
(* Eligibility.                                                             *)

conflict_ids(atoms) ==
  {atoms[i].id : i \in {j \in DOMAIN atoms :
     \E k \in DOMAIN atoms : atoms[k].value = atoms[j].value /\ atoms[k].role # atoms[j].role}}
Degenerate == <<"", "">>
\* Looks at the retained span only.
entangled(a, frame) ==
  a.start - 1 \in frame.hyphens \/ a.stop \in frame.hyphens \/ a.stop - a.start >= frame.length

Exclusion(a, conflicts, frame, require_human_verification) ==
  CASE a.id \in conflicts -> "conflict_group"
    [] a.id \notin conflicts /\ a.value = Degenerate -> "degenerate_value"
    [] a.id \notin conflicts /\ a.value # Degenerate /\ entangled(a, frame) -> "entangled_surface"
    [] OTHER -> IF a.verification = "rejected" THEN "human_rejected"
                ELSE IF require_human_verification /\ a.verification # "accepted" THEN "unverified"
                ELSE "none"
filter_eligible(atoms, frame, require_human_verification) ==
  LET free == {i \in DOMAIN atoms :
                 Exclusion(atoms[i], conflict_ids(atoms), frame, require_human_verification) = "none"}
  IN  [eligible |-> At(atoms, free), excluded |-> At(atoms, DOMAIN atoms \ free)]
-----------------------------------------------------------------------------
(* The review sheet, one row per atom, and the inventory file.              *)

write_review_template(atoms) == [i \in DOMAIN atoms |-> [atom_id |-> atoms[i].id, decision |-> ""]]
\* The reviewer fills the decision column and nothing else.
Filled(sheet, decisions) ==
  [i \in DOMAIN sheet |-> [atom_id |-> sheet[i].atom_id, decision |-> decisions[i]]]

\* The sheet is read into a dict: of two rows with one id the last counts.
Decided(rows, id) ==
  LET mine == {i \in DOMAIN rows : rows[i].atom_id = id}
  IN  IF mine = {} THEN "" ELSE rows[Max(mine)].decision
apply_review(atoms, rows) ==
  [i \in DOMAIN atoms |-> LET d == Decided(rows, atoms[i].id)
                          IN  IF d \in {"accepted", "rejected"}
                              THEN [atoms[i] EXCEPT !.verification = d] ELSE atoms[i]]

\* The file has no column for the spans after the first.
write_inventory(atoms) == [i \in DOMAIN atoms |-> [atoms[i] EXCEPT !.spans = {}]]
read_inventory(rows, require_verified) ==
  At(rows, {i \in DOMAIN rows : require_verified => rows[i].verification = "accepted"})

\* Two raters' labels by item; <<num, den>>, or <<0, 0>> where it raises.
cohen_kappa(a, b) ==
  LET n == Len(a)
      Rated(x, label) == Cardinality({i \in DOMAIN x : x[i] = label})
      observed == Cardinality({i \in DOMAIN a : a[i] = b[i]})
      expected == SumFunction([l \in ToSet(a) \cup ToSet(b) |-> Rated(a, l) * Rated(b, l)])
  IN  IF n # Len(b) \/ n = 0 THEN <<0, 0>>
      ELSE IF expected = n * n THEN <<1, 1>>
      ELSE <<observed * n - expected, n * n - expected>>
=============================================================================
