----------------------------- MODULE SmtContext -----------------------------
(***************************************************************************)
(* The incremental search of Z3's class smt::context over clauses: user    *)
(* scopes, checks under assumptions, two-watched-literal propagation,      *)
(* conflict-driven learning, backjumping, restarts, clause simplification, *)
(* deletion of lemmas, unsat cores and cancellation.                       *)
(*                                                                         *)
(* Formulas are clauses: the rewriter is off (smt.preprocess = false) and  *)
(* there are no theories and no quantifiers, so that no atom is created    *)
(* during the search.                                                      *)
(***************************************************************************)
EXTENDS ConflictResolution, FiniteSets

CONSTANTS
    Background,     \* the clauses that the client asserts first, in order
    Formulas,       \* the clauses that it may assert later
    AssumptionSets, \* the sets of literals under which it may check
    MaxScopes,      \* bound on the user scopes
    MaxCalls,       \* bound on the calls of the client
    MaxDeletions    \* bound on the runs of del_inactive_lemmas

ASSUME SmtContextAssumption ==
    /\ Background \in Seq(Clauses \ {{}})
    /\ Formulas \subseteq Clauses \ {{}}
    /\ AssumptionSets \subseteq SUBSET Literals
    /\ \A A \in AssumptionSets : IsFiniteSet(A)
    /\ MaxScopes \in Nat /\ MaxCalls \in Nat /\ MaxDeletions \in Nat

VARIABLES
    ctx,      \* the state of the context, see ContextType
    visit,    \* the clauses on the watch list under way that bcp has still to visit
    qhead0,   \* m_qhead when propagate began
    pc,       \* the step of the call under way
    stage,    \* what propagate was called for: "push", "assume" or "search"
    asked,    \* the assumptions of the check
    answer,   \* what the last call returned, "none" unless it was a check
    core,     \* m_unsat_core
    canceled, \* get_cancel_flag, which only the handlers around a check raise
    calls, deletions

vars == <<ctx, visit, qhead0, pc, stage, asked, answer, core, canceled, calls, deletions>>

NoConflict == {0}

-----------------------------------------------------------------------------
(* The clause databases, and limits of them that a scope records.          *)
Watched == [lits : Clauses, watch : Clauses, just : Clauses]
Limits == [trail : Nat, aux : Nat, formulas : Nat]
BaseLimits == [lemmas : Nat, inconsistent : BOOLEAN]

ContextType == [
    formulas : Seq(Clauses),   \* m_asserted_formulas, and its m_qhead
    fqhead : Nat,
    scopes : Seq(Limits),      \* m_scopes
    base : Seq(BaseLimits),    \* m_base_scopes
    search : Nat,              \* m_search_lvl
    trail : Seq(Entries),
    qhead : Nat,               \* m_qhead, the propagated part of the trail
    aux : Seq(Watched),        \* m_aux_clauses, and the binary clauses
    lemmas : Seq(Watched),     \* m_lemmas
    conflict : Clauses \cup {NoConflict},
    assumptions : SUBSET Literals]

InitialContext == [
    formulas |-> Background, fqhead |-> 0, scopes |-> <<>>, base |-> <<>>, search |-> 0,
    trail |-> <<>>, qhead |-> 0, aux |-> <<>>, lemmas |-> <<>>,
    conflict |-> NoConflict, assumptions |-> {}]

ScopeLvl(c) == Len(c.scopes)
BaseLvl(c) == Len(c.base)
Inconsistent(c) == c.conflict # NoConflict

(* The atoms of the internalized formulas and of the assumptions.          *)
Atoms(c) ==
    {Var(l) : l \in (UNION {c.formulas[i] : i \in 1 .. c.fqhead}) \cup c.assumptions}

-----------------------------------------------------------------------------
(* assign, with the antecedents why.                                       *)
Assign(c, l, why) ==
    IF True(c.trail, l) THEN c
    ELSE IF False(c.trail, l)
    THEN IF Inconsistent(c) THEN c ELSE [c EXCEPT !.conflict = {l} \cup {-a : a \in why}]
    ELSE [c EXCEPT !.trail = Append(@, [lit |-> l, lvl |-> ScopeLvl(c), why |-> why])]

(* What implies literal l of clause w: its other literals, negated, and    *)
(* the literals of the clause's own justification.                         *)
Antecedents(w, l) == {-k : k \in w.lits \ {l}} \cup w.just

(* push_scope.  The call to asserted_formulas::push_scope counts all of    *)
(* the formulas as internalized.                                           *)
PushScope(c) ==
    [c EXCEPT
        !.scopes = Append(@, [trail |-> Len(c.trail), aux |-> Len(c.aux),
                              formulas |-> Len(c.formulas)]),
        !.fqhead = Len(c.formulas)]

(* Seeded fault: m_qhead stays beyond the literals that are unassigned.    *)
BugPopToQhead(c, lvl) ==
    IF lvl = ScopeLvl(c) THEN c ELSE
    LET s == c.scopes[lvl + 1]
        user == lvl < BaseLvl(c)
    IN  [c EXCEPT
            !.lemmas = IF user THEN SubSeq(@, 1, c.base[lvl + 1].lemmas) ELSE @,
            !.conflict = IF user /\ c.base[lvl + 1].inconsistent THEN @ ELSE NoConflict,
            !.base = IF user THEN SubSeq(@, 1, lvl) ELSE @,
            !.search = IF user THEN lvl ELSE @,
            !.aux = SubSeq(@, 1, s.aux),
            !.trail = SubSeq(@, 1, s.trail),
            !.formulas = SubSeq(@, 1, s.formulas),
            !.fqhead = s.formulas,
            !.scopes = SubSeq(@, 1, lvl)]

(* Seeded fault: a user pop keeps the lemmas of the popped scope.           *)
BugPopToLemmas(c, lvl) ==
    [BugPopToQhead(c, lvl) EXCEPT
        !.qhead = IF lvl = ScopeLvl(c) THEN @ ELSE c.scopes[lvl + 1].trail,
        !.lemmas = c.lemmas]

(* pop_scope_core, down to scope level lvl.                                *)
PopTo(c, lvl) ==
    LET s == c.scopes[lvl + 1]
        user == lvl < BaseLvl(c)
    IN  IF lvl = ScopeLvl(c) THEN c ELSE
        [c EXCEPT
            !.lemmas = IF user THEN SubSeq(@, 1, c.base[lvl + 1].lemmas) ELSE @,
            !.conflict = IF user /\ c.base[lvl + 1].inconsistent THEN @ ELSE NoConflict,
            !.base = IF user THEN SubSeq(@, 1, lvl) ELSE @,
            !.search = IF user THEN lvl ELSE @,
            !.aux = SubSeq(@, 1, s.aux),
            !.trail = SubSeq(@, 1, s.trail),
            !.qhead = s.trail,
            !.formulas = SubSeq(@, 1, s.formulas),
            !.fqhead = s.formulas,
            !.scopes = SubSeq(@, 1, lvl)]

PopToBase(c) == PopTo(c, BaseLvl(c))

(* mk_clause for a formula, at the base level: literals that are false are *)
(* moved into the clause's justification, and a clause that is true        *)
(* already is not kept.  The literals are sorted, so the two of the least  *)
(* index are watched.                                                      *)
Index(l) == IF l > 0 THEN 2 * l ELSE 1 - 2 * l

First(lits) == CHOOSE l \in lits : \A k \in lits : Index(l) <= Index(k)

FirstTwo(lits) == {First(lits), First(lits \ {First(lits)})}

MkAuxClause(c, lits) ==
    LET left == {l \in lits : ~False(c.trail, l)}
        just == {-l : l \in lits \ left}
    IN  IF \E l \in left : True(c.trail, l) \/ -l \in left THEN c
        ELSE IF left = {} THEN [c EXCEPT !.conflict = IF Inconsistent(c) THEN @ ELSE lits]
        ELSE IF \E l \in left : left = {l}
        THEN Assign(c, CHOOSE l \in left : TRUE, just)
        ELSE [c EXCEPT !.aux = Append(@, [lits |-> left, watch |-> FirstTwo(left), just |-> just])]

(* Seeded fault: the first of the false literals is watched.               *)
BugSecondWatch(c, lits) ==
    CHOOSE l \in lits : \A k \in lits : Level(c.trail, -k) >= Level(c.trail, -l)

(* select_learned_watch_lit: the last of the false literals.               *)
SecondWatch(c, lits) ==
    CHOOSE l \in lits : \A k \in lits : Level(c.trail, -k) <= Level(c.trail, -l)

(* Seeded fault: the lemma is dropped.                                     *)
BugMkLemma(c, lemma) == c

(* mk_clause for a lemma: its first literal is unassigned after the        *)
(* backjump, and the other ones are false.                                 *)
MkLemma(c, lemma) ==
    IF lemma.rest = {} THEN Assign(c, lemma.first, {})
    ELSE LET w == [lits |-> {lemma.first} \cup lemma.rest,
                   watch |-> {lemma.first, SecondWatch(c, lemma.rest)},
                   just |-> {}]
         IN  Assign([c EXCEPT !.lemmas = Append(@, w)], lemma.first, Antecedents(w, lemma.first))

(* simplify_clause drops the false literals that are not watched.          *)
(* simplify_clauses deletes what is true at the base level, and only of    *)
(* the clauses of the innermost user scope.  A literal that a deleted      *)
(* clause implied becomes an axiom.                                        *)
TrueClause(c, w) == \E l \in w.lits : True(c.trail, l)

Justifies(w, e) == e.lit \in w.lits /\ e.why = Antecedents(w, e.lit)

(* Of a clause that stays, the false literals beyond the watched two go.    *)
Trimmed(c, w) == [w EXCEPT !.lits = {l \in @ : l \in w.watch \/ ~False(c.trail, l)}]

(* The clauses of db at the positions K.                                   *)
Kept(db, K) ==
    LET upto[i \in 0 .. Len(db)] ==
            IF i = 0 THEN <<>>
            ELSE IF i \in K THEN Append(upto[i - 1], db[i]) ELSE upto[i - 1]
    IN  upto[Len(db)]

SimplifyFrom(c, db, start) ==
    Kept([i \in DOMAIN db |-> IF i > start THEN Trimmed(c, db[i]) ELSE db[i]],
         {i \in DOMAIN db : i > start => ~TrueClause(c, db[i])})

(* The limits of the innermost user scope.                                 *)
AuxLim(c) == IF BaseLvl(c) = 0 THEN 0 ELSE c.scopes[BaseLvl(c)].aux
LemmasLim(c) == IF BaseLvl(c) = 0 THEN 0 ELSE c.base[BaseLvl(c)].lemmas

SimplifyClauses(c) ==
    LET inner == Range(SubSeq(c.aux, AuxLim(c) + 1, Len(c.aux)))
                 \cup Range(SubSeq(c.lemmas, LemmasLim(c) + 1, Len(c.lemmas)))
        gone == {w \in inner : TrueClause(c, w)}
    IN  IF ScopeLvl(c) > BaseLvl(c) THEN c ELSE
        [c EXCEPT
            !.aux = SimplifyFrom(c, @, AuxLim(c)),
            !.lemmas = SimplifyFrom(c, @, LemmasLim(c)),
            !.trail = [i \in DOMAIN @ |->
                IF \E w \in gone : Justifies(w, @[i]) THEN [@[i] EXCEPT !.why = {}] ELSE @[i]]]

(* can_delete: a lemma that justifies an assigned literal is kept, and so  *)
(* are those of outer user scopes.                                         *)
CanDelete(c, i) ==
    /\ i > LemmasLim(c)
    /\ \A k \in DOMAIN c.trail : ~Justifies(c.lemmas[i], c.trail[k])

(* del_inactive_lemmas, for a choice D of the lemmas of low activity.      *)
DeleteLemmas(c, D) ==
    [c EXCEPT !.lemmas = Kept(@, DOMAIN @ \ D)]

-----------------------------------------------------------------------------
Init ==
    /\ ctx = InitialContext
    /\ visit = {} /\ qhead0 = 0
    /\ pc = "idle" /\ stage = "search"
    /\ asked = {} /\ answer = "none" /\ core = {}
    /\ canceled = FALSE
    /\ calls = 0 /\ deletions = 0

(* The client's calls.  Each begins by backtracking to the base level.     *)
Call ==
    /\ pc = "idle" /\ calls < MaxCalls
    /\ calls' = calls + 1
    /\ UNCHANGED <<visit, qhead0, canceled, deletions>>

Forget == answer' = "none" /\ core' = {}

(* assert_expr_core.                                                       *)
AssertExpr(f) ==
    /\ Call
    /\ f \notin Range(ctx.formulas)
    /\ ctx' = [PopToBase(ctx) EXCEPT !.formulas = Append(@, f)]
    /\ Forget
    /\ UNCHANGED <<pc, stage, asked>>

(* push: EndPush opens the scope, after propagation.                       *)
Push ==
    /\ Call
    /\ BaseLvl(ctx) < MaxScopes
    /\ ctx' = PopToBase(ctx)
    /\ pc' = "internalize" /\ stage' = "push"
    /\ UNCHANGED <<asked, answer, core>>

Pop(n) ==
    /\ Call
    /\ ctx' = PopTo(PopToBase(ctx), BaseLvl(ctx) - n)
    /\ Forget
    /\ UNCHANGED <<pc, stage, asked>>

Check(A) ==
    /\ Call
    /\ ctx' = PopToBase(ctx)
    /\ asked' = A
    /\ pc' = "begin" /\ stage' = "assume"
    /\ Forget

(* The answer r of a check, with unsat core k.  The handlers that could    *)
(* cancel it are gone when it returns.                                     *)
Return(r, k, c) ==
    /\ answer' = r /\ core' = k /\ ctx' = c
    /\ pc' = "idle" /\ canceled' = FALSE
    /\ UNCHANGED <<visit, qhead0, stage, asked, calls, deletions>>

(* A step within a call, to context c, in which propagate may begin.       *)
Go(to, c) ==
    /\ ctx' = c
    /\ pc' = to
    /\ qhead0' = c.qhead
    /\ UNCHANGED <<asked, answer, core, canceled, calls>>

BeginInconsistent ==
    /\ pc = "begin" /\ Inconsistent(ctx)
    /\ Return("unsat", {}, ctx)

BeginInternalize ==
    /\ pc = "begin" /\ ~Inconsistent(ctx)
    /\ Go("internalize", ctx)
    /\ UNCHANGED <<visit, stage, deletions>>

-----------------------------------------------------------------------------
(* internalize_assertions, which commits what it has done when cancelled.  *)
InternalizeNext ==
    /\ pc = "internalize"
    /\ ~canceled /\ ctx.fqhead < Len(ctx.formulas)
    /\ Go("internalize", [MkAuxClause(ctx, ctx.formulas[ctx.fqhead + 1]) EXCEPT !.fqhead = @ + 1])
    /\ UNCHANGED <<visit, stage, deletions>>

Internalized == pc = "internalize" /\ (canceled \/ ctx.fqhead = Len(ctx.formulas))

(* The call of init_assumptions without assumptions only sets the search   *)
(* level; otherwise it propagates before it opens a scope for them.        *)
StartSearch(c) ==
    /\ Go(IF Inconsistent(c) THEN "resolve" ELSE "propagate", c)
    /\ stage' = "search"
    /\ UNCHANGED <<visit, deletions>>

InternalizeDone ==
    /\ Internalized
    /\ stage = "push" \/ asked # {}
    /\ Go("propagate", IF stage = "push" THEN ctx ELSE [ctx EXCEPT !.assumptions = {}])
    /\ UNCHANGED <<visit, stage, deletions>>

InternalizeDoneNoAssumptions ==
    /\ Internalized
    /\ stage = "assume" /\ asked = {}
    /\ StartSearch([ctx EXCEPT !.assumptions = {}, !.search = ScopeLvl(ctx)])

-----------------------------------------------------------------------------
(* propagate and bcp.  A clause is referred to by its place in aux or in   *)
(* lemmas.  The order of the clauses on a watch list is left open.         *)
ClauseRefs(c) == ({"aux"} \X DOMAIN c.aux) \cup ({"lemmas"} \X DOMAIN c.lemmas)

Clause(c, r) == c[r[1]][r[2]]

WatchList(c, l) == {r \in ClauseRefs(c) : l \in Clause(c, r).watch}

(* A step of bcp, to context c.                                            *)
Bcp(c) ==
    /\ ctx' = c
    /\ UNCHANGED <<qhead0, pc, stage, asked, answer, core, canceled, calls, deletions>>

(* The next assigned literal is taken off the queue.                       *)
BcpNext ==
    /\ pc = "propagate" /\ visit = {}
    /\ ~Inconsistent(ctx) /\ ~canceled
    /\ ctx.qhead < Len(ctx.trail)
    /\ visit' = WatchList(ctx, -ctx.trail[ctx.qhead + 1].lit)
    /\ Bcp([ctx EXCEPT !.qhead = @ + 1])

(* Clause r is visited because its watched literal notL became false.      *)
SetWatch(c, r, w) == [c EXCEPT ![r[1]][r[2]].watch = w]

VisitClause(c, r, notL) ==
    LET w == Clause(c, r)
        first == CHOOSE l \in w.watch : l # notL
        others == {l \in w.lits \ w.watch : ~False(c.trail, l)}
    IN  IF True(c.trail, first) THEN {c}
        ELSE IF others # {} THEN {SetWatch(c, r, {first, l}) : l \in others}
        ELSE IF False(c.trail, first) THEN {[c EXCEPT !.conflict = w.lits \cup {-a : a \in w.just}]}
        ELSE {Assign(c, first, Antecedents(w, first))}

BcpVisit(r) ==
    \E c \in VisitClause(ctx, r, -ctx.trail[ctx.qhead].lit) :
        /\ Bcp(c)
        /\ visit' = IF Inconsistent(c) THEN {} ELSE visit \ {r}

(* propagate returns; when cancelled it puts m_qhead back.                 *)
Propagated ==
    /\ pc = "propagate" /\ visit = {}
    /\ Inconsistent(ctx) \/ canceled \/ ctx.qhead = Len(ctx.trail)

Requeued(c) == IF canceled /\ ~Inconsistent(c) THEN [c EXCEPT !.qhead = qhead0] ELSE c

EndPush ==
    /\ Propagated /\ stage = "push"
    /\ ctx' = [PushScope(ctx) EXCEPT
                  !.base = Append(@, [lemmas |-> Len(ctx.lemmas), inconsistent |-> Inconsistent(ctx)]),
                  !.search = @ + 1]
    /\ pc' = "idle"
    /\ Forget
    /\ UNCHANGED <<visit, qhead0, stage, asked, canceled, calls, deletions>>

(* The rest of init_assumptions, for the assumptions A in some order.      *)
Assume(c, A) ==
    LET s == SetToSeq(A)
        start == [PushScope(c) EXCEPT !.assumptions = A, !.search = ScopeLvl(c) + 1]
        upto[i \in 0 .. Len(s)] == IF i = 0 THEN start ELSE Assign(upto[i - 1], s[i], {})
    IN  upto[Len(s)]

(* Seeded fault: the assumptions get their scope although the check was    *)
(* cancelled before all formulas were internalized.                        *)
BugInitAssumptions(c) == IF Inconsistent(c) THEN c ELSE Assume(c, asked)

InitAssumptions(c) == IF Inconsistent(c) \/ canceled THEN c ELSE Assume(c, asked)

EndAssume ==
    /\ Propagated /\ stage = "assume"
    /\ StartSearch(InitAssumptions(Requeued(ctx)))

EndSearch ==
    /\ Propagated /\ stage = "search"
    /\ \/ Inconsistent(ctx) /\ Go("resolve", ctx) /\ UNCHANGED <<visit, stage, deletions>>
       \/ ~Inconsistent(ctx) /\ canceled /\ Return("unknown", {}, Requeued(ctx))
       \/ ~Inconsistent(ctx) /\ ~canceled /\ Go("decide", ctx) /\ UNCHANGED <<visit, stage, deletions>>

-----------------------------------------------------------------------------
(* resolve_conflict fails at the search level, and mk_unsat_core undoes    *)
(* the scope of the assumptions.                                           *)
AtSearchLevel(c) == ConflictLevel(c.trail, c.conflict) <= c.search

ResolveUnsat ==
    /\ pc = "resolve" /\ AtSearchLevel(ctx)
    /\ IF ctx.search > BaseLvl(ctx)
       THEN Return("unsat", UnsatCore(ctx.trail, ctx.search, ctx.conflict, ctx.assumptions),
                   [PopToBase(ctx) EXCEPT !.search = BaseLvl(ctx), !.assumptions = {}])
       ELSE Return("unsat", {}, ctx)

(* Otherwise the lemma is learned after a jump to the last level of its    *)
(* other literals.                                                         *)
NewScopeLvl(c, lemma) == Max({c.search} \cup {Level(c.trail, -l) : l \in lemma.rest})

Learn(c) ==
    LET lemma == Lemma(c.trail, BaseLvl(c), c.conflict)
    IN  MkLemma(PopTo(c, NewScopeLvl(c, lemma)), lemma)

ResolveLearn ==
    /\ pc = "resolve" /\ ~AtSearchLevel(ctx)
    /\ Go("learned", Learn(ctx))
    /\ UNCHANGED <<visit, stage, deletions>>

(* bounded_search after a conflict.  The thresholds of restart and of      *)
(* del_inactive_lemmas are left open.                                      *)
LearnedCanceled ==
    /\ pc = "learned" /\ canceled
    /\ Return("unknown", {}, ctx)

Restart ==
    /\ pc = "learned" /\ ~canceled
    /\ ScopeLvl(ctx) - BaseLvl(ctx) > 2
    /\ Go("propagate", SimplifyClauses(PopTo(ctx, ctx.search)))
    /\ UNCHANGED <<visit, stage, deletions>>

DelInactiveLemmas(D) ==
    /\ pc = "learned" /\ ~canceled
    /\ deletions < MaxDeletions
    /\ \A i \in D : CanDelete(ctx, i)
    /\ deletions' = deletions + 1
    /\ Go("propagate", DeleteLemmas(ctx, D))
    /\ UNCHANGED <<visit, stage>>

Continue ==
    /\ pc = "learned" /\ ~canceled
    /\ Go("propagate", ctx)
    /\ UNCHANGED <<visit, stage, deletions>>

(* simplify_clauses, which runs at the base level once new literals are    *)
(* assigned there.                                                         *)
Simplify ==
    /\ pc = "decide" /\ ~canceled
    /\ ctx # SimplifyClauses(ctx)
    /\ Go("decide", SimplifyClauses(ctx))
    /\ UNCHANGED <<visit, stage, deletions>>

Undecided == {v \in Atoms(ctx) : ~Assigned(ctx.trail, v)}

Decide(v) ==
    /\ pc = "decide" /\ ~canceled
    /\ \E l \in {v, -v} : Go("propagate", Assign(PushScope(ctx), l, {}))
    /\ UNCHANGED <<visit, stage, deletions>>

FinalCheck ==
    /\ pc = "decide" /\ ~canceled
    /\ Undecided = {}
    /\ Return("sat", {}, ctx)

DecideCanceled ==
    /\ pc = "decide" /\ canceled
    /\ Return("unknown", {}, ctx)

(* cancel_eh, of a timer or of a signal, at any time during a check.       *)
Cancel ==
    /\ pc # "idle" /\ stage # "push"
    /\ ~canceled /\ canceled' = TRUE
    /\ UNCHANGED <<ctx, visit, qhead0, pc, stage, asked, answer, core, calls, deletions>>

-----------------------------------------------------------------------------
ClientCall ==
    \/ \E f \in Formulas : AssertExpr(f)
    \/ Push
    \/ \E n \in 1 .. BaseLvl(ctx) : Pop(n)
    \/ \E A \in AssumptionSets : Check(A)

Step ==
    \/ BeginInconsistent \/ BeginInternalize
    \/ InternalizeNext \/ InternalizeDone \/ InternalizeDoneNoAssumptions
    \/ BcpNext \/ (\E r \in visit : BcpVisit(r))
    \/ EndPush \/ EndAssume \/ EndSearch
    \/ ResolveUnsat \/ ResolveLearn
    \/ LearnedCanceled \/ Restart \/ Continue
    \/ \E D \in (SUBSET DOMAIN ctx.lemmas) \ {{}} : DelInactiveLemmas(D)
    \/ Simplify \/ (\E v \in Undecided : Decide(v))
    \/ FinalCheck \/ DecideCanceled

(* The client may stop calling.                                            *)
Idle ==
    /\ pc = "idle" /\ calls = MaxCalls
    /\ UNCHANGED vars

Next == ClientCall \/ Step \/ Cancel \/ Idle

Spec == Init /\ [][Next]_vars

(* A call, once made, keeps running: weak fairness of Step, which is       *)
(* enabled whenever a call is under way.                                   *)
Fairness == []<>(pc = "idle") \/ []<><<Step>>_vars

FairSpec == Spec /\ Fairness

-----------------------------------------------------------------------------
(* The formulas, clauses and literals that survive when the user pops back *)
(* to base level k.                                                        *)
FormulasLimAt(c, k) == IF k < BaseLvl(c) THEN c.scopes[k + 1].formulas ELSE Len(c.formulas)
FormulasAt(c, k) == Range(SubSeq(c.formulas, 1, FormulasLimAt(c, k)))

(* Of these formulas, those that are counted as internalized.              *)
InternalizedAt(c, k) == IF FormulasLimAt(c, k) < c.fqhead THEN FormulasLimAt(c, k) ELSE c.fqhead

AuxLimAt(c, k) == IF k < BaseLvl(c) THEN c.scopes[k + 1].aux ELSE Len(c.aux)
AuxAt(c, k) == {c.aux[i].lits : i \in 1 .. AuxLimAt(c, k)}

LemmasLimAt(c, k) == IF k < BaseLvl(c) THEN c.base[k + 1].lemmas ELSE Len(c.lemmas)
LemmasAt(c, k) == {c.lemmas[i].lits : i \in 1 .. LemmasLimAt(c, k)}

LiteralsAt(c, k) == {e.lit : e \in {f \in Range(c.trail) : f.lvl <= k}}

InconsistentAt(c, k) == IF k < BaseLvl(c) THEN c.base[k + 1].inconsistent ELSE Inconsistent(c)

(* The variables have the types that the declarations in smt_context.h     *)
(* give them, and the levels are ordered as push and init_assumptions      *)
(* assert.                                                                 *)
TypeOK ==
    /\ ctx \in ContextType
    /\ BaseLvl(ctx) <= ctx.search /\ BaseLvl(ctx) <= ScopeLvl(ctx)
    /\ ctx.qhead <= Len(ctx.trail) /\ ctx.fqhead <= Len(ctx.formulas)
    /\ visit \subseteq ClauseRefs(ctx)
    /\ pc \in {"idle", "begin", "internalize", "propagate", "resolve", "learned", "decide"}
    /\ stage \in {"push", "assume", "search"}
    /\ asked \in AssumptionSets \cup {{}}
    /\ answer \in {"none", "sat", "unsat", "unknown"} /\ core \subseteq asked
    /\ canceled \in BOOLEAN /\ calls \in 0 .. MaxCalls /\ deletions \in 0 .. MaxDeletions

(* Whatever is kept when the user pops back to level k follows from the    *)
(* formulas asserted up to there: no lemma, no simplified clause and no    *)
(* literal of an inner scope, or one that rests on an assumption, leaks    *)
(* out.                                                                    *)
DatabaseSound ==
    \A k \in 0 .. BaseLvl(ctx) :
        Entails(FormulasAt(ctx, k), AuxAt(ctx, k) \cup LemmasAt(ctx, k) \cup Units(LiteralsAt(ctx, k)))

(* The clauses and literals of a level say no less than the formulas that  *)
(* are counted as internalized there: neither the deletion of satisfied    *)
(* clauses nor a cancelled check loses one.                                *)
FormulasRepresented ==
    \A k \in 0 .. BaseLvl(ctx) :
        \/ InconsistentAt(ctx, k)
        \/ Entails(AuxAt(ctx, k) \cup Units(LiteralsAt(ctx, k)),
                   {ctx.formulas[i] : i \in 1 .. InternalizedAt(ctx, k)})

(* When the search decides, no clause is false or unit: the watched        *)
(* literals miss nothing across backjumps, restarts, pops and cancelled    *)
(* propagation.                                                            *)
BcpComplete ==
    pc = "decide" =>
        \A r \in ClauseRefs(ctx) :
            LET w == Clause(ctx, r)
            IN  \/ TrueClause(ctx, w)
                \/ \E k, l \in w.lits : k # l /\ ~False(ctx.trail, k) /\ ~False(ctx.trail, l)

(* A literal follows its antecedents on the trail, at the level of the     *)
(* last of them, and is implied by them: conflict resolution relies on it. *)
(* One without antecedents follows from the formulas, unless it is an      *)
(* assumption or a decision.                                               *)
TrailJustified ==
    \A i \in DOMAIN ctx.trail :
        LET e == ctx.trail[i]
            before == {j \in 1 .. (i - 1) : ctx.trail[j].lit \in e.why}
            chosen == e.why = {} /\ (e.lit \in ctx.assumptions \/ e.lvl > ctx.search)
        IN  /\ e.why = {ctx.trail[j].lit : j \in before}
            /\ e.why # {} /\ e.lvl > BaseLvl(ctx) => e.lvl = Max({ctx.trail[j].lvl : j \in before})
            /\ chosen \/ Entails(FormulasAt(ctx, BaseLvl(ctx)), {{e.lit} \cup {-a : a \in e.why}})

-----------------------------------------------------------------------------
(* The context implements the interface of an incremental solver: its      *)
(* answers are right whatever was asserted, pushed, popped, checked,       *)
(* learned, simplified or cancelled before.                                *)
Frames ==
    [i \in 1 .. (BaseLvl(ctx) + 1) |->
        Range(SubSeq(ctx.formulas, (IF i = 1 THEN 0 ELSE FormulasLimAt(ctx, i - 2)) + 1, FormulasLimAt(ctx, i - 1)))]

Solver == INSTANCE IncrementalSolver WITH frames <- Frames, Background <- Range(Background)

Implements == Solver!Spec

(* Every call returns: conflicts, restarts and the deletion of lemmas do   *)
(* not make the search run forever.                                        *)
CallsReturn == pc # "idle" ~> pc = "idle"
=============================================================================
