------------------------ MODULE ConflictResolution -------------------------
(***************************************************************************)
(* Z3's conflict analysis, class smt::conflict_resolution.  A trail is the *)
(* sequence of the assigned literals in the order of their assignment,     *)
(* each with the scope level of its assignment and with the literals that  *)
(* imply it: the other literals of the clause that is its justification,   *)
(* negated.  A decision, an assumption and an axiom have none.  A conflict *)
(* is a set of literals that are false although one of them has to hold.   *)
(***************************************************************************)
EXTENDS Propositional, SequencesExt

Entries == [lit : Literals, lvl : Nat, why : Clauses]

Entry(trail, l) == CHOOSE i \in DOMAIN trail : trail[i].lit = l

True(trail, l) == \E i \in DOMAIN trail : trail[i].lit = l

False(trail, l) == True(trail, -l)

Assigned(trail, l) == True(trail, l) \/ False(trail, l)

(* get_assign_level, of a true literal.                                    *)
Level(trail, l) == trail[Entry(trail, l)].lvl

(* m_conflict_lvl, the level of the last of the literals of a conflict.    *)
ConflictLevel(trail, conflict) == Max({0} \cup {Level(trail, -l) : l \in conflict})

(* One step of the loop of resolve, at the trail's entry e: a marked       *)
(* literal of the conflict's level is replaced by those that imply it,     *)
(* unless it is the last one, the first unique implication point.          *)
(* Literals of lower levels go into the lemma, negated, but for those of   *)
(* the base level.                                                         *)
ResolveStep(trail, base, lvl, e, st) ==
    IF st.uip # 0 \/ e.lit \notin st.marked THEN st
    ELSE IF st.marked = {e.lit} THEN [st EXCEPT !.uip = e.lit]
    ELSE [st EXCEPT
            !.marked = (@ \ {e.lit}) \cup {a \in e.why : Level(trail, a) = lvl},
            !.lemma = @ \cup {-a : a \in {b \in e.why : Level(trail, b) \in (base + 1) .. (lvl - 1)}}]

(* resolve, up to finalize_resolve: from[i] is the state of the loop once  *)
(* the entries from i on have been visited, the last one first.            *)
Resolve(trail, base, conflict) ==
    LET lvl == ConflictLevel(trail, conflict)
        start == [marked |-> {-l : l \in {k \in conflict : Level(trail, -k) = lvl}},
                  lemma |-> {l \in conflict : Level(trail, -l) \in (base + 1) .. (lvl - 1)},
                  uip |-> 0]
        from[i \in 1 .. (Len(trail) + 1)] ==
            IF i > Len(trail) THEN start
            ELSE ResolveStep(trail, base, lvl, trail[i], from[i + 1])
    IN  from[1]

(* The literals that implied_by_marked finds implied by marked ones and    *)
(* the base level, looking no further than the levels of the lemma.  They  *)
(* are collected along the trail, where a literal follows its antecedents. *)
ImpliedByMarked(trail, base, marked, lvls) ==
    LET Implied(e, S) ==
            \/ e.lit \in marked
            \/ e.lvl <= base
            \/ e.why # {} /\ e.lvl \in lvls /\ e.why \subseteq S
        upto[i \in 0 .. Len(trail)] ==
            IF i = 0 THEN {}
            ELSE upto[i - 1] \cup (IF Implied(trail[i], upto[i - 1]) THEN {trail[i].lit} ELSE {})
    IN  upto[Len(trail)]

(* Seeded fault: a decision, which has no antecedents, counts as implied.  *)
BugMinimize(trail, base, uip, lemma) ==
    LET marked == {-l : l \in lemma}
        lvls == {Level(trail, a) : a \in marked \cup {uip}}
        implied == ImpliedByMarked(trail, base, marked, lvls)
    IN  {l \in lemma : ~(trail[Entry(trail, -l)].why \subseteq implied)}

(* minimize_lemma: of the literals but the first, those are dropped whose  *)
(* antecedents are implied by the others.                                  *)
Minimize(trail, base, uip, lemma) ==
    LET marked == {-l : l \in lemma}
        lvls == {Level(trail, a) : a \in marked \cup {uip}}
        implied == ImpliedByMarked(trail, base, marked, lvls)
    IN  {l \in lemma : LET e == trail[Entry(trail, -l)]
                       IN  e.why = {} \/ ~(e.why \subseteq implied)}

(* What resolve leaves in m_lemma: its first literal, which becomes true   *)
(* once the solver has backtracked, and the others.                        *)
Lemma(trail, base, conflict) ==
    LET st == Resolve(trail, base, conflict)
    IN  [first |-> -st.uip, rest |-> Minimize(trail, base, st.uip, st.lemma)]

(* The literals that those of S rest on, by the antecedents of entries of  *)
(* level lvl and above.                                                    *)
Support(trail, lvl, S) ==
    LET from[i \in 1 .. (Len(trail) + 1)] ==
            IF i > Len(trail) THEN S
            ELSE from[i + 1] \cup
                 (IF trail[i].lvl >= lvl /\ trail[i].lit \in from[i + 1] THEN trail[i].why ELSE {})
    IN  from[1]

(* Seeded fault: the antecedents of literals of the search level itself    *)
(* are not followed.                                                       *)
BugUnsatCore(trail, search, conflict, assumptions) ==
    LET marked == Support(trail, search + 1, {-l : l \in conflict})
    IN  {a \in assumptions : a \in marked \/ -a \in marked}

(* mk_unsat_core: the assumptions among the literals that the conflict     *)
(* rests on, followed back to the search level.                            *)
UnsatCore(trail, search, conflict, assumptions) ==
    LET marked == Support(trail, search, {-l : l \in conflict})
    IN  {a \in assumptions : a \in marked \/ -a \in marked}
=============================================================================
