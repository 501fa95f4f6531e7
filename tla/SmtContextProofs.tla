-------------------------- MODULE SmtContextProofs --------------------------
(***************************************************************************)
(* Proofs about SmtContext, for every set of variables, formulas and       *)
(* assumptions.  The inductive invariant is a predicate of the context,    *)
(* which every operation on a context preserves, a part about the watched  *)
(* literals, and a part about the control of the call under way.           *)
(***************************************************************************)
EXTENDS SmtContext, ConflictResolutionProofs

-----------------------------------------------------------------------------
(* The inductive invariant: the context.                                   *)

(* The limits that the scopes record grow from scope to scope; those above *)
(* the base level were opened with all formulas and clauses there.         *)
ScopesOK(c) ==
    /\ c.search \in BaseLvl(c) .. (BaseLvl(c) + 1)
    /\ BaseLvl(c) <= ScopeLvl(c)
    /\ c.qhead <= Len(c.trail) /\ c.fqhead <= Len(c.formulas)
    /\ \A j \in 1 .. ScopeLvl(c) :
          /\ c.scopes[j].trail <= Len(c.trail)
          /\ c.scopes[j].aux <= Len(c.aux)
          /\ c.scopes[j].formulas <= c.fqhead
          /\ j > BaseLvl(c) => c.scopes[j].aux = Len(c.aux) /\ c.scopes[j].formulas = Len(c.formulas)
          /\ \A i \in 1 .. j : /\ c.scopes[i].trail <= c.scopes[j].trail
                               /\ c.scopes[i].aux <= c.scopes[j].aux
                               /\ c.scopes[i].formulas <= c.scopes[j].formulas
    /\ \A j \in 1 .. BaseLvl(c) :
          /\ c.base[j].lemmas <= Len(c.lemmas)
          /\ \A i \in 1 .. j : c.base[i].lemmas <= c.base[j].lemmas

(* A scope keeps the part of the trail of lower levels.                    *)
LevelsOK(c) ==
    \A i \in DOMAIN c.trail :
        /\ c.trail[i].lvl <= ScopeLvl(c)
        /\ \A j \in 1 .. ScopeLvl(c) : i <= c.scopes[j].trail <=> c.trail[i].lvl < j

TrailOK(c) ==
    /\ c.trail \in Trails
    /\ AntecedentOfLevel(c.trail, BaseLvl(c))
    /\ DecisionsFirst(c.trail, c.search)

(* A clause watches two of its literals.                                   *)
WatchesTwo(w) == \E a, b \in w.lits : a # b /\ w.watch = {a, b}

(* Each clause of level k watches two literals, has its justification      *)
(* among the literals of the level, and is part of a formula of the level. *)
ClausesOK(c) ==
    /\ \A i \in DOMAIN c.aux : WatchesTwo(c.aux[i])
    /\ \A i \in DOMAIN c.lemmas : WatchesTwo(c.lemmas[i]) /\ c.lemmas[i].just = {}
    /\ \A k \in 0 .. BaseLvl(c) : \A i \in 1 .. AuxLimAt(c, k) :
          /\ \A a \in c.aux[i].just : \E j \in DOMAIN c.trail : c.trail[j].lit = a /\ c.trail[j].lvl <= k
          /\ \E j \in 1 .. FormulasLimAt(c, k) : c.aux[i].lits \subseteq c.formulas[j]

(* The models of the formulas of base level k.                             *)
ModelsAt(c, k) == {m \in Valuations : \A i \in 1 .. FormulasLimAt(c, k) : c.formulas[i] \cap m # {}}

(* What is kept at level k holds in the models of its formulas.            *)
SoundOK(c) ==
    \A k \in 0 .. BaseLvl(c) :
        /\ BaseImplied(c.trail, k, ModelsAt(c, k))
        /\ \A i \in 1 .. AuxLimAt(c, k) : Implied(c.aux[i].lits, ModelsAt(c, k))
        /\ \A i \in 1 .. LemmasLimAt(c, k) : Implied(c.lemmas[i].lits, ModelsAt(c, k))

(* Above the base level, literals hold in the models in which their        *)
(* antecedents do.                                                         *)
JustifiedOK(c) ==
    /\ WhyImplies(c.trail, ModelsAt(c, BaseLvl(c)))
    /\ UnitsImplied(c.trail, c.search, c.assumptions, ModelsAt(c, BaseLvl(c)))

(* A conflict of level l, which undoes what propagation owes the clauses.  *)
Dirty(c, l) ==
    IF l < BaseLvl(c) THEN c.base[l + 1].inconsistent ELSE Inconsistent(c) /\ ScopeLvl(c) = l

(* A conflict is false, and follows from the formulas unless it refutes an *)
(* assumption.  A scope that was opened inconsistent keeps its conflict,   *)
(* and no search begins in it.                                             *)
ConflictOK(c) ==
    /\ Inconsistent(c) =>
          /\ c.conflict \in SUBSET Literals
          /\ \A l \in c.conflict : False(c.trail, l)
          /\ \/ Implied(c.conflict, ModelsAt(c, BaseLvl(c)))
             \/ ScopeLvl(c) > BaseLvl(c) /\ \E l \in c.assumptions : c.conflict = {l}
    /\ \A k \in 0 .. (BaseLvl(c) - 1) : c.base[k + 1].inconsistent =>
          /\ Inconsistent(c)
          /\ ScopeLvl(c) = BaseLvl(c)
          /\ \A j \in k .. (BaseLvl(c) - 1) : c.base[j + 1].inconsistent
          /\ \A l \in c.conflict : \E i \in DOMAIN c.trail : c.trail[i].lit = -l /\ c.trail[i].lvl <= k
          /\ Implied(c.conflict, ModelsAt(c, k))

(* A valuation of the clauses and literals of level k is a model of the    *)
(* internalized formulas.                                                  *)
HoldsAt(c, k, m) ==
    /\ \A i \in 1 .. AuxLimAt(c, k) : c.aux[i].lits \cap m # {}
    /\ \A i \in DOMAIN c.trail : c.trail[i].lvl <= k => c.trail[i].lit \in m

RepresentedOK(c) ==
    \A k \in 0 .. BaseLvl(c) : \/ Dirty(c, k)
                               \/ \A m \in Valuations : HoldsAt(c, k, m) =>
                                     \A i \in 1 .. InternalizedAt(c, k) : c.formulas[i] \cap m # {}

(* The queue holds literals of the current level only.                     *)
QueueOK(c) == ~Inconsistent(c) => \A i \in DOMAIN c.trail : i > c.qhead => c.trail[i].lvl = ScopeLvl(c)

CtxInv(c) ==
    /\ c \in ContextType
    /\ ScopesOK(c)
    /\ LevelsOK(c)
    /\ TrailOK(c)
    /\ ClausesOK(c)
    /\ SoundOK(c)
    /\ JustifiedOK(c)
    /\ ConflictOK(c)
    /\ RepresentedOK(c)
    /\ QueueOK(c)

(* The inductive invariant: watched literals.  Once propagation has gone   *)
(* past a watched literal that is false, the other one is true, of no      *)
(* higher level: it is still true when a backjump keeps the false one.     *)
(* The clauses in V have still to be visited for the literal at the head   *)
(* of the queue.                                                           *)
Passed(c, p) == p <= c.qhead \/ c.trail[p].lvl < ScopeLvl(c)

WatchOK(c, w, pending) ==
    \A a \in w.watch : \A p \in DOMAIN c.trail :
        /\ c.trail[p].lit = -a
        /\ Passed(c, p)
        /\ ~Dirty(c, c.trail[p].lvl)
        /\ ~(pending /\ p = c.qhead)
        => \E b \in w.watch : \E q \in DOMAIN c.trail : c.trail[q].lit = b /\ c.trail[q].lvl <= c.trail[p].lvl

WatchesOK(c, V) == \A r \in ClauseRefs(c) : WatchOK(c, Clause(c, r), r \in V)

VisitOK(c, V) ==
    /\ V \subseteq ClauseRefs(c)
    /\ V # {} => /\ ~Inconsistent(c)
                 /\ c.qhead \in DOMAIN c.trail
                 /\ c.trail[c.qhead].lvl = ScopeLvl(c)
                 /\ \A r \in V : -c.trail[c.qhead].lit \in Clause(c, r).watch

(* The inductive invariant: the call under way.                            *)
Searching == pc \in {"propagate", "resolve", "learned", "decide"}

(* The assumptions are in place, or a conflict says that they cannot be.   *)
Started(c, A) ==
    /\ c.search <= ScopeLvl(c)
    /\ c.assumptions = A
    /\ \/ \A a \in A : \E i \in DOMAIN c.trail : c.trail[i].lit = a /\ c.trail[i].lvl <= c.search
       \/ Inconsistent(c) /\ ScopeLvl(c) <= c.search

ControlOK ==
    /\ pc # "propagate" => visit = {}
    /\ pc \in {"begin", "internalize"} => ScopeLvl(ctx) = BaseLvl(ctx) /\ stage # "search"
    /\ pc = "begin" => stage = "assume"
    /\ canceled => pc # "idle" /\ stage # "push"
    /\ pc # "idle" /\ stage # "push" => answer = "none" /\ core = {}
    /\ Searching /\ ~canceled => ctx.fqhead = Len(ctx.formulas)
    /\ Searching /\ stage # "search" => pc = "propagate" /\ ScopeLvl(ctx) = BaseLvl(ctx)
    /\ Searching /\ stage = "assume" => ctx.assumptions = {} /\ asked # {}
    /\ pc = "propagate" =>
          /\ qhead0 \in 0 .. ctx.qhead
          /\ ~Inconsistent(ctx) =>
                \A i \in DOMAIN ctx.trail : i > qhead0 => ctx.trail[i].lvl = ScopeLvl(ctx)
    /\ pc = "resolve" => Inconsistent(ctx)
    /\ pc = "learned" => ~Inconsistent(ctx)
    /\ pc = "decide" => ~Inconsistent(ctx) /\ ctx.qhead = Len(ctx.trail)
    /\ Searching /\ stage = "search" =>
          \/ Started(ctx, asked)
          \/ /\ ctx.assumptions = {} /\ ScopeLvl(ctx) = BaseLvl(ctx) /\ visit = {}
             /\ pc = "resolve" \/ (pc = "propagate" /\ canceled)

IInv ==
    /\ TypeOK
    /\ CtxInv(ctx)
    /\ WatchesOK(ctx, visit)
    /\ VisitOK(ctx, visit)
    /\ ControlOK

-----------------------------------------------------------------------------
(* The fields of a context, and how an update of some changes them.        *)
LEMMA Fields ==
    ASSUME NEW c \in ContextType
    PROVE  /\ c.formulas \in Seq(Clauses) /\ c.fqhead \in Nat
           /\ c.scopes \in Seq(Limits) /\ c.base \in Seq(BaseLimits)
           /\ c.search \in Nat /\ c.trail \in Seq(Entries) /\ c.qhead \in Nat
           /\ c.aux \in Seq(Watched) /\ c.lemmas \in Seq(Watched)
           /\ c.conflict \in Clauses \cup {NoConflict}
           /\ c.assumptions \in SUBSET Literals
BY DEF ContextType

LEMMA SeqDomain ==
    ASSUME NEW S, NEW s \in Seq(S)
    PROVE  Len(s) \in Nat /\ DOMAIN s = 1 .. Len(s)
  OBVIOUS

LEMMA Types ==
    ASSUME NEW c \in ContextType
    PROVE  /\ Len(c.formulas) \in Nat /\ DOMAIN c.formulas = 1 .. Len(c.formulas)
           /\ Len(c.scopes) \in Nat /\ DOMAIN c.scopes = 1 .. Len(c.scopes)
           /\ Len(c.base) \in Nat /\ DOMAIN c.base = 1 .. Len(c.base)
           /\ Len(c.trail) \in Nat /\ DOMAIN c.trail = 1 .. Len(c.trail)
           /\ Len(c.aux) \in Nat /\ DOMAIN c.aux = 1 .. Len(c.aux)
           /\ Len(c.lemmas) \in Nat /\ DOMAIN c.lemmas = 1 .. Len(c.lemmas)
           /\ ScopeLvl(c) = Len(c.scopes) /\ BaseLvl(c) = Len(c.base)
           /\ ScopeLvl(c) \in Nat /\ BaseLvl(c) \in Nat
           /\ c.fqhead \in Nat /\ c.search \in Nat /\ c.qhead \in Nat
           /\ c.assumptions \in SUBSET Literals
           /\ c.conflict \in SUBSET Literals \/ c.conflict = NoConflict
           /\ \A i \in 1 .. Len(c.formulas) : c.formulas[i] \in SUBSET Literals
           /\ \A i \in 1 .. Len(c.scopes) :
                 c.scopes[i].trail \in Nat /\ c.scopes[i].aux \in Nat /\ c.scopes[i].formulas \in Nat
           /\ \A i \in 1 .. Len(c.base) :
                 c.base[i].lemmas \in Nat /\ c.base[i].inconsistent \in BOOLEAN
           /\ \A i \in 1 .. Len(c.trail) : /\ c.trail[i].lit \in Literals /\ c.trail[i].lvl \in Nat
                                           /\ c.trail[i].why \in SUBSET Literals
           /\ \A i \in 1 .. Len(c.aux) :
                 c.aux[i] \in Watched /\ c.aux[i].lits \in SUBSET Literals
                 /\ c.aux[i].watch \in SUBSET Literals /\ c.aux[i].just \in SUBSET Literals
           /\ \A i \in 1 .. Len(c.lemmas) :
                 c.lemmas[i] \in Watched /\ c.lemmas[i].lits \in SUBSET Literals
                 /\ c.lemmas[i].watch \in SUBSET Literals /\ c.lemmas[i].just \in SUBSET Literals
<1>0. /\ c.formulas \in Seq(Clauses) /\ c.fqhead \in Nat
      /\ c.scopes \in Seq(Limits) /\ c.base \in Seq(BaseLimits)
      /\ c.search \in Nat /\ c.trail \in Seq(Entries) /\ c.qhead \in Nat
      /\ c.aux \in Seq(Watched) /\ c.lemmas \in Seq(Watched)
      /\ c.conflict \in Clauses \cup {NoConflict}
      /\ c.assumptions \in SUBSET Literals
  BY Fields
<1>1. /\ Len(c.formulas) \in Nat /\ DOMAIN c.formulas = 1 .. Len(c.formulas)
      /\ Len(c.scopes) \in Nat /\ DOMAIN c.scopes = 1 .. Len(c.scopes)
      /\ Len(c.base) \in Nat /\ DOMAIN c.base = 1 .. Len(c.base)
      /\ Len(c.trail) \in Nat /\ DOMAIN c.trail = 1 .. Len(c.trail)
      /\ Len(c.aux) \in Nat /\ DOMAIN c.aux = 1 .. Len(c.aux)
      /\ Len(c.lemmas) \in Nat /\ DOMAIN c.lemmas = 1 .. Len(c.lemmas)
  BY <1>0, SeqDomain
<1>2. /\ ScopeLvl(c) = Len(c.scopes) /\ BaseLvl(c) = Len(c.base)
      /\ ScopeLvl(c) \in Nat /\ BaseLvl(c) \in Nat
  BY <1>1 DEF ScopeLvl, BaseLvl
<1>3. \A i \in 1 .. Len(c.formulas) : c.formulas[i] \in SUBSET Literals
  BY <1>0 DEF Clauses
<1>4. \A i \in 1 .. Len(c.scopes) :
          c.scopes[i].trail \in Nat /\ c.scopes[i].aux \in Nat /\ c.scopes[i].formulas \in Nat
  <2>1. \A i \in 1 .. Len(c.scopes) : c.scopes[i] \in Limits
    BY <1>0
  <2>2. \A s \in Limits : s.trail \in Nat /\ s.aux \in Nat /\ s.formulas \in Nat
    BY DEF Limits
  <2> QED
    BY <2>1, <2>2
<1>5. \A i \in 1 .. Len(c.base) : c.base[i].lemmas \in Nat /\ c.base[i].inconsistent \in BOOLEAN
  <2>1. \A i \in 1 .. Len(c.base) : c.base[i] \in BaseLimits
    BY <1>0
  <2>2. \A s \in BaseLimits : s.lemmas \in Nat /\ s.inconsistent \in BOOLEAN
    BY DEF BaseLimits
  <2> QED
    BY <2>1, <2>2
<1>6. \A i \in 1 .. Len(c.trail) : /\ c.trail[i].lit \in Literals /\ c.trail[i].lvl \in Nat
                                   /\ c.trail[i].why \in SUBSET Literals
  <2>1. \A i \in 1 .. Len(c.trail) : c.trail[i] \in Entries
    BY <1>0
  <2>2. \A e \in Entries : e.lit \in Literals /\ e.lvl \in Nat /\ e.why \in SUBSET Literals
    BY DEF Entries, Clauses
  <2> QED
    BY <2>1, <2>2
<1>7. \A w \in Watched : w.lits \in SUBSET Literals /\ w.watch \in SUBSET Literals /\ w.just \in SUBSET Literals
  BY DEF Watched, Clauses
<1>8. /\ \A i \in 1 .. Len(c.aux) : c.aux[i] \in Watched
      /\ \A i \in 1 .. Len(c.lemmas) : c.lemmas[i] \in Watched
  BY <1>0
<1>9. c.conflict \in SUBSET Literals \/ c.conflict = NoConflict
  BY <1>0 DEF Clauses
<1> QED
  BY <1>0, <1>1, <1>2, <1>3, <1>4, <1>5, <1>6, <1>7, <1>8, <1>9

(* Sequences.                                                              *)
LEMMA AppendFacts ==
    ASSUME NEW S, NEW s \in Seq(S), NEW e \in S
    PROVE  /\ Append(s, e) \in Seq(S)
           /\ Len(Append(s, e)) = Len(s) + 1
           /\ DOMAIN Append(s, e) = 1 .. (Len(s) + 1)
           /\ Append(s, e)[Len(s) + 1] = e
           /\ \A i \in 1 .. Len(s) : Append(s, e)[i] = s[i]
OBVIOUS

LEMMA PrefixFacts ==
    ASSUME NEW S, NEW s \in Seq(S), NEW n \in 0 .. Len(s)
    PROVE  /\ SubSeq(s, 1, n) \in Seq(S)
           /\ Len(SubSeq(s, 1, n)) = n
           /\ DOMAIN SubSeq(s, 1, n) = 1 .. n
           /\ \A i \in 1 .. n : SubSeq(s, 1, n)[i] = s[i]
OBVIOUS

(* Contexts with the same formulas and scopes have the same levels and     *)
(* models.                                                                 *)
LEMMA SameScopes ==
    ASSUME NEW c, NEW d, d.formulas = c.formulas, d.scopes = c.scopes, d.base = c.base
    PROVE  /\ ScopeLvl(d) = ScopeLvl(c) /\ BaseLvl(d) = BaseLvl(c)
           /\ \A k : FormulasLimAt(d, k) = FormulasLimAt(c, k)
           /\ \A k : ModelsAt(d, k) = ModelsAt(c, k)
           /\ d.aux = c.aux => \A k : AuxLimAt(d, k) = AuxLimAt(c, k)
           /\ d.lemmas = c.lemmas => \A k : LemmasLimAt(d, k) = LemmasLimAt(c, k)
           /\ d.fqhead = c.fqhead => \A k : InternalizedAt(d, k) = InternalizedAt(c, k)
           /\ d.conflict = c.conflict => Inconsistent(d) = Inconsistent(c) /\ \A k : Dirty(d, k) = Dirty(c, k)
<1>1. ScopeLvl(d) = ScopeLvl(c) /\ BaseLvl(d) = BaseLvl(c)
  BY DEF ScopeLvl, BaseLvl
<1>2. \A k : FormulasLimAt(d, k) = FormulasLimAt(c, k)
  BY <1>1 DEF FormulasLimAt
<1>3. \A k : ModelsAt(d, k) = ModelsAt(c, k)
  BY <1>2 DEF ModelsAt
<1>4. d.aux = c.aux => \A k : AuxLimAt(d, k) = AuxLimAt(c, k)
  BY <1>1 DEF AuxLimAt
<1>5. d.lemmas = c.lemmas => \A k : LemmasLimAt(d, k) = LemmasLimAt(c, k)
  BY <1>1 DEF LemmasLimAt
<1>6. d.fqhead = c.fqhead => \A k : InternalizedAt(d, k) = InternalizedAt(c, k)
  BY <1>2 DEF InternalizedAt
<1>7. d.conflict = c.conflict => Inconsistent(d) = Inconsistent(c) /\ \A k : Dirty(d, k) = Dirty(c, k)
  BY <1>1 DEF Inconsistent, Dirty
<1> QED
  BY <1>1, <1>2, <1>3, <1>4, <1>5, <1>6, <1>7

(* The models of a level are models of the levels below.                   *)
LEMMA ModelsShrink ==
    ASSUME NEW c \in ContextType, ScopesOK(c), NEW k \in 0 .. BaseLvl(c)
    PROVE  /\ ModelsAt(c, BaseLvl(c)) \subseteq ModelsAt(c, k)
           /\ ModelsAt(c, k) \in SUBSET Valuations
           /\ FormulasLimAt(c, k) \in Nat /\ FormulasLimAt(c, k) <= Len(c.formulas)
           /\ AuxLimAt(c, k) \in Nat /\ AuxLimAt(c, k) <= Len(c.aux)
           /\ LemmasLimAt(c, k) \in Nat /\ LemmasLimAt(c, k) <= Len(c.lemmas)
           /\ InternalizedAt(c, k) \in Nat /\ InternalizedAt(c, k) <= Len(c.formulas)
           /\ InternalizedAt(c, k) <= FormulasLimAt(c, k) /\ InternalizedAt(c, k) <= c.fqhead
           /\ k < BaseLvl(c) => InternalizedAt(c, k) = FormulasLimAt(c, k)
<1>1. CASE k < BaseLvl(c)
  <2>1. k + 1 \in 1 .. ScopeLvl(c) /\ k + 1 \in 1 .. BaseLvl(c)
    BY <1>1, Types DEF ScopesOK
  <2>2. /\ c.scopes[k + 1].formulas \in Nat /\ c.scopes[k + 1].formulas <= c.fqhead
        /\ c.scopes[k + 1].aux \in Nat /\ c.scopes[k + 1].aux <= Len(c.aux)
        /\ c.base[k + 1].lemmas \in Nat /\ c.base[k + 1].lemmas <= Len(c.lemmas)
        /\ c.fqhead \in Nat /\ Len(c.formulas) \in Nat /\ c.fqhead <= Len(c.formulas)
    BY <2>1, Types DEF ScopesOK
  <2>3. /\ FormulasLimAt(c, k) = c.scopes[k + 1].formulas
        /\ FormulasLimAt(c, BaseLvl(c)) = Len(c.formulas)
    <3>1. ~(BaseLvl(c) < BaseLvl(c))
      BY Types
    <3> QED
      BY <1>1, <3>1 DEF FormulasLimAt
  <2>4. AuxLimAt(c, k) \in Nat /\ AuxLimAt(c, k) <= Len(c.aux)
    BY <1>1, <2>2 DEF AuxLimAt
  <2>5. LemmasLimAt(c, k) \in Nat /\ LemmasLimAt(c, k) <= Len(c.lemmas)
    BY <1>1, <2>2 DEF LemmasLimAt
  <2>6. \A x, y, z \in Nat : x <= y /\ y <= z => x <= z
    OBVIOUS
  <2>7. /\ FormulasLimAt(c, k) \in Nat /\ FormulasLimAt(c, k) <= c.fqhead
        /\ FormulasLimAt(c, k) <= Len(c.formulas)
    BY <2>2, <2>3, <2>6
  <2>8. InternalizedAt(c, k) = FormulasLimAt(c, k)
    <3> DEFINE x == FormulasLimAt(c, k)
               y == c.fqhead
    <3>1. x \in Nat /\ y \in Nat /\ x <= y
      BY <2>2, <2>7
    <3> HIDE DEF x, y
    <3>2. (IF x < y THEN x ELSE y) = x
      BY <3>1
    <3> QED
      BY <3>2 DEF InternalizedAt, x, y
  <2>9. ModelsAt(c, BaseLvl(c)) \subseteq ModelsAt(c, k) /\ ModelsAt(c, k) \in SUBSET Valuations
    <3>1. \A x, y \in Nat : x <= y => \A i \in 1 .. x : i \in 1 .. y
      OBVIOUS
    <3>2. \A i \in 1 .. FormulasLimAt(c, k) : i \in 1 .. FormulasLimAt(c, BaseLvl(c))
      BY <2>2, <2>3, <2>7, <3>1
    <3> QED
      BY <3>2 DEF ModelsAt
  <2>10. /\ InternalizedAt(c, k) \in Nat /\ InternalizedAt(c, k) <= Len(c.formulas)
         /\ InternalizedAt(c, k) <= FormulasLimAt(c, k) /\ InternalizedAt(c, k) <= c.fqhead
    BY <2>7, <2>8
  <2> QED
    BY <2>4, <2>5, <2>7, <2>8, <2>9, <2>10
<1>2. CASE k = BaseLvl(c)
  <2>1. /\ FormulasLimAt(c, k) = Len(c.formulas)
        /\ AuxLimAt(c, k) = Len(c.aux)
        /\ LemmasLimAt(c, k) = Len(c.lemmas)
    BY <1>2, Types DEF FormulasLimAt, AuxLimAt, LemmasLimAt
  <2>2. c.fqhead \in Nat /\ Len(c.formulas) \in Nat /\ c.fqhead <= Len(c.formulas)
    BY Types DEF ScopesOK
  <2>3. InternalizedAt(c, k) = c.fqhead
    BY <2>1, <2>2 DEF InternalizedAt
  <2> QED
    BY <1>2, <2>1, <2>2, <2>3, Types DEF ModelsAt
<1>3. k \in Nat /\ k <= BaseLvl(c)
  BY Types
<1> QED
  BY <1>1, <1>2, <1>3, Types

-----------------------------------------------------------------------------
(* A literal is assigned.                                                  *)
LEMMA AppendTrail ==
    ASSUME NEW T \in Trails, NEW e \in Entries,
           ~True(T, e.lit), ~False(T, e.lit),
           \A i \in DOMAIN T : T[i].lvl <= e.lvl,
           \A a \in e.why : True(T, a)
    PROVE  Append(T, e) \in Trails
<1> DEFINE U == Append(T, e)
<1>0. /\ T \in Seq(Entries) /\ DOMAIN T = 1 .. Len(T) /\ Len(T) \in Nat
      /\ Consistent(T) /\ Ordered(T) /\ AntecedentsBefore(T)
  BY DEF Trails
<1>1. /\ U \in Seq(Entries) /\ DOMAIN U = 1 .. (Len(T) + 1)
      /\ U[Len(T) + 1] = e
      /\ \A i \in 1 .. Len(T) : U[i] = T[i]
  BY <1>0, AppendFacts
<1> HIDE DEF U
<1>2. \A i \in 1 .. (Len(T) + 1) : i = Len(T) + 1 \/ i \in 1 .. Len(T)
  BY <1>0
<1>3. e.lit \in Literals /\ e.lvl \in Nat
  BY DEF Entries
<1>4. \A i \in 1 .. Len(T) : T[i].lit # e.lit /\ T[i].lit # -e.lit /\ e.lit # -T[i].lit
  <2> TAKE i \in 1 .. Len(T)
  <2>1. T[i].lit # e.lit /\ T[i].lit # -e.lit
    BY <1>0 DEF True, False
  <2>2. T[i].lit \in Literals
    BY <1>0, EntryFacts
  <2>3. -(-T[i].lit) = T[i].lit
    BY <2>2, LiteralFacts
  <2> QED
    BY <2>1, <2>3
<1>5. Consistent(U)
  BY <1>0, <1>1, <1>2, <1>4 DEF Consistent
<1>6. Ordered(U)
  BY <1>0, <1>1, <1>2, <1>3 DEF Ordered
<1>7. AntecedentsBefore(U)
  <2> SUFFICES ASSUME NEW i \in DOMAIN U, NEW a \in U[i].why
               PROVE  \E j \in 1 .. (i - 1) : U[j].lit = a
    BY DEF AntecedentsBefore
  <2>1. CASE i = Len(T) + 1
    <3>1. PICK j \in DOMAIN T : T[j].lit = a
      BY <1>1, <2>1 DEF True
    <3>2. j \in 1 .. (i - 1)
      BY <1>0, <2>1
    <3> QED
      BY <1>0, <1>1, <3>1, <3>2
  <2>2. CASE i \in 1 .. Len(T)
    <3>1. PICK j \in 1 .. (i - 1) : T[j].lit = a
      BY <1>0, <1>1, <2>2 DEF AntecedentsBefore
    <3>2. j \in 1 .. Len(T)
      BY <1>0, <2>2
    <3> QED
      BY <1>1, <3>1, <3>2
  <2> QED
    BY <1>1, <1>2, <2>1, <2>2
<1> QED
  BY <1>1, <1>5, <1>6, <1>7 DEF Trails, U

(* What may be assigned: a literal that the formulas imply together with   *)
(* its antecedents, a decision, or an assumption.                          *)
Propagates(c, l, why) ==
    /\ \A m \in ModelsAt(c, BaseLvl(c)) : why \subseteq m => l \in m
    /\ why # {} /\ ScopeLvl(c) > BaseLvl(c) =>
          \E j \in DOMAIN c.trail : c.trail[j].lit \in why /\ c.trail[j].lvl = ScopeLvl(c)
    /\ why = {} => ScopeLvl(c) <= c.search

Decides(c, l, why) ==
    why = {} /\ ScopeLvl(c) > c.search /\ \A i \in DOMAIN c.trail : c.trail[i].lvl < ScopeLvl(c)

Assumes(c, l, why) ==
    why = {} /\ ScopeLvl(c) = c.search /\ c.search > BaseLvl(c) /\ l \in c.assumptions

Assignable(c, l, why) ==
    /\ l \in Literals /\ ~True(c.trail, l) /\ ~False(c.trail, l)
    /\ why \in SUBSET Literals /\ \A a \in why : True(c.trail, a)
    /\ Propagates(c, l, why) \/ Decides(c, l, why) \/ Assumes(c, l, why)

LEMMA AssignKeeps ==
    ASSUME NEW c, CtxInv(c), NEW l, NEW why, Assignable(c, l, why)
    PROVE  LET d == Assign(c, l, why)
           IN  /\ CtxInv(d)
               /\ d = [c EXCEPT !.trail = Append(c.trail, [lit |-> l, lvl |-> ScopeLvl(c), why |-> why])]
               /\ \A w, pending : WatchOK(c, w, pending) => WatchOK(d, w, pending)
<1> DEFINE e == [lit |-> l, lvl |-> ScopeLvl(c), why |-> why]
           T == c.trail
           d == Assign(c, l, why)
           n == Len(T)
           U == d.trail
           B == BaseLvl(c)
<1>c. /\ c \in ContextType /\ ScopesOK(c) /\ LevelsOK(c) /\ TrailOK(c) /\ ClausesOK(c) /\ SoundOK(c)
      /\ JustifiedOK(c) /\ ConflictOK(c) /\ RepresentedOK(c) /\ QueueOK(c)
  BY DEF CtxInv
<1>t. /\ n \in Nat /\ DOMAIN T = 1 .. n /\ ScopeLvl(c) \in Nat /\ B \in Nat
      /\ T \in Trails /\ T \in Seq(Entries) /\ c.search \in Nat
  BY <1>c, Types, Fields DEF TrailOK
<1>l. /\ l \in Literals /\ ~True(T, l) /\ ~False(T, l)
      /\ why \in SUBSET Literals /\ \A a \in why : True(T, a)
      /\ Propagates(c, l, why) \/ Decides(c, l, why) \/ Assumes(c, l, why)
  BY DEF Assignable
<1>e. e \in Entries /\ e.lit = l /\ e.lvl = ScopeLvl(c) /\ e.why = why
  BY <1>t, <1>l DEF Entries, Clauses
<1>d. d = [c EXCEPT !.trail = Append(T, e)]
  BY <1>l DEF Assign
<1> HIDE DEF e, d
<1>f. /\ d.formulas = c.formulas /\ d.fqhead = c.fqhead /\ d.scopes = c.scopes /\ d.base = c.base
      /\ d.search = c.search /\ d.qhead = c.qhead /\ d.aux = c.aux /\ d.lemmas = c.lemmas
      /\ d.conflict = c.conflict /\ d.assumptions = c.assumptions
      /\ U = Append(T, e) /\ d \in ContextType
  <2>1. Append(T, e) \in Seq(Entries)
    BY <1>t, <1>e
  <2> QED
    BY <1>c, <1>d, <2>1 DEF ContextType
<1>u. /\ Len(U) = n + 1 /\ DOMAIN U = 1 .. (n + 1) /\ U[n + 1] = e
      /\ \A i \in 1 .. n : U[i] = T[i]
      /\ \A i \in 1 .. n : i \in DOMAIN U /\ i \in DOMAIN T
      /\ \A i \in DOMAIN U : i = n + 1 \/ i \in 1 .. n
  BY <1>t, <1>e, <1>f, AppendFacts
<1>s. /\ ScopeLvl(d) = ScopeLvl(c) /\ BaseLvl(d) = B
      /\ \A k : /\ ModelsAt(d, k) = ModelsAt(c, k) /\ AuxLimAt(d, k) = AuxLimAt(c, k)
                /\ LemmasLimAt(d, k) = LemmasLimAt(c, k) /\ InternalizedAt(d, k) = InternalizedAt(c, k)
                /\ FormulasLimAt(d, k) = FormulasLimAt(c, k)
                /\ Dirty(d, k) = Dirty(c, k)
      /\ Inconsistent(d) = Inconsistent(c)
  BY <1>f, SameScopes
<1>v. \A i \in 1 .. n : T[i].lvl \in Nat /\ T[i].lvl <= ScopeLvl(c)
  BY <1>c, <1>t, Types DEF LevelsOK
<1> HIDE DEF T, U, n, B
<1>1. U \in Trails
  BY <1>t, <1>l, <1>e, <1>f, <1>v, AppendTrail
<1>2. ScopesOK(d)
  <2>1. Len(c.trail) = n /\ Len(d.trail) = n + 1 /\ c.qhead <= n /\ c.qhead \in Nat
    BY <1>c, <1>u, Types DEF ScopesOK, n, T, U
  <2>2. \A j \in 1 .. ScopeLvl(c) : c.scopes[j].trail \in Nat /\ c.scopes[j].trail <= n
    BY <1>c, <2>1, Types DEF ScopesOK
  <2>3. \A j \in 1 .. ScopeLvl(c) : c.scopes[j].trail <= n + 1
    BY <1>t, <2>2
  <2>4. c.qhead <= n + 1
    BY <1>t, <2>1
  <2> QED
    BY <1>c, <1>f, <1>s, <2>1, <2>3, <2>4 DEF ScopesOK, B
<1>3. LevelsOK(d)
  <2> SUFFICES ASSUME NEW i \in DOMAIN U
               PROVE  /\ U[i].lvl <= ScopeLvl(c)
                      /\ \A j \in 1 .. ScopeLvl(c) : i <= c.scopes[j].trail <=> U[i].lvl < j
    BY <1>f, <1>s DEF LevelsOK, U
  <2>1. CASE i \in 1 .. n
    BY <1>c, <1>u, <2>1 DEF LevelsOK, T
  <2>2. CASE i = n + 1
    <3>1. \A j \in 1 .. ScopeLvl(c) : c.scopes[j].trail \in Nat /\ c.scopes[j].trail <= n
      BY <1>c, Types DEF ScopesOK, n, T
    <3>2. \A j \in 1 .. ScopeLvl(c) : ~(i <= c.scopes[j].trail) /\ ~(ScopeLvl(c) < j)
      BY <1>t, <2>2, <3>1
    <3> QED
      BY <1>t, <1>e, <1>u, <2>2, <3>2
  <2> QED
    BY <1>u, <2>1, <2>2
<1>4. TrailOK(d)
  <2>1. AntecedentOfLevel(U, B)
    <3> SUFFICES ASSUME NEW i \in DOMAIN U, U[i].why # {}, U[i].lvl > B
                 PROVE  \E j \in 1 .. (i - 1) : U[j].lit \in U[i].why /\ U[j].lvl = U[i].lvl
      BY DEF AntecedentOfLevel
    <3>1. CASE i \in 1 .. n
      <4>1. PICK j \in 1 .. (i - 1) : T[j].lit \in T[i].why /\ T[j].lvl = T[i].lvl
        BY <1>c, <1>u, <3>1 DEF TrailOK, AntecedentOfLevel, T, B
      <4>2. j \in 1 .. n
        BY <1>t, <3>1
      <4> QED
        BY <1>u, <3>1, <4>1, <4>2
    <3>2. CASE i = n + 1
      <4>1. PICK j \in DOMAIN T : T[j].lit \in why /\ T[j].lvl = ScopeLvl(c)
        BY <1>l, <1>e, <1>u, <3>2 DEF Propagates, Decides, Assumes, T, B
      <4>2. j \in 1 .. (i - 1) /\ j \in 1 .. n
        BY <1>t, <3>2, <4>1
      <4> QED
        BY <1>e, <1>u, <3>2, <4>1, <4>2
    <3> QED
      BY <1>u, <3>1, <3>2
  <2>2. DecisionsFirst(U, c.search)
    <3> SUFFICES ASSUME NEW i \in DOMAIN U, NEW j \in DOMAIN U,
                        U[i].why = {}, U[i].lvl > c.search, U[j].lvl = U[i].lvl
                 PROVE  i <= j
      BY DEF DecisionsFirst
    <3>1. CASE i \in 1 .. n /\ j \in 1 .. n
      BY <1>c, <1>u, <3>1 DEF TrailOK, DecisionsFirst, T
    <3>2. CASE j = n + 1
      BY <1>t, <1>u, <3>2
    <3>3. CASE i = n + 1 /\ j \in 1 .. n
      <4>1. why = {} /\ ScopeLvl(c) > c.search
        BY <1>e, <1>u, <3>3
      <4>2. Decides(c, l, why)
        BY <1>l, <1>t, <4>1 DEF Propagates, Assumes
      <4>3. T[j].lvl < ScopeLvl(c)
        BY <1>u, <3>3, <4>2 DEF Decides, T
      <4> QED
        BY <1>e, <1>t, <1>u, <1>v, <3>3, <4>3
    <3> QED
      BY <1>u, <3>1, <3>2, <3>3
  <2> QED
    BY <1>1, <1>f, <1>s, <2>1, <2>2 DEF TrailOK, U
<1>5. ClausesOK(d)
  <2>1. \A k \in 0 .. B : \A i \in 1 .. AuxLimAt(c, k) :
            \A a \in c.aux[i].just : \E j \in DOMAIN U : U[j].lit = a /\ U[j].lvl <= k
    <3> TAKE k \in 0 .. B
    <3> TAKE i \in 1 .. AuxLimAt(c, k)
    <3> TAKE a \in c.aux[i].just
    <3>1. PICK j \in DOMAIN T : T[j].lit = a /\ T[j].lvl <= k
      BY <1>c DEF ClausesOK, T, B
    <3> QED
      BY <1>t, <1>u, <3>1
  <2> QED
    BY <1>c, <1>f, <1>s, <2>1 DEF ClausesOK, B, U
<1>6. SoundOK(d)
  <2> SUFFICES ASSUME NEW k \in 0 .. B, NEW i \in DOMAIN U, U[i].lvl <= k, NEW m \in ModelsAt(c, k)
               PROVE  U[i].lit \in m
    BY <1>c, <1>f, <1>s DEF SoundOK, BaseImplied, B, U
  <2>1. \A j \in 1 .. n : T[j].lvl <= k => T[j].lit \in m
    BY <1>c, <1>t DEF SoundOK, BaseImplied, T, B
  <2>2. CASE i \in 1 .. n
    BY <1>u, <2>1, <2>2
  <2>3. CASE i = n + 1
    <3>1. k = B /\ ScopeLvl(c) = B
      <4>1. B <= ScopeLvl(c)
        BY <1>c DEF ScopesOK, B
      <4> QED
        BY <1>e, <1>t, <1>u, <2>3, <4>1
    <3>2. c.search >= B
      BY <1>c, <1>t DEF ScopesOK, B
    <3>3. Propagates(c, l, why)
      BY <1>l, <1>t, <3>1, <3>2 DEF Decides, Assumes, B
    <3>4. why \subseteq m
      <4> SUFFICES ASSUME NEW a \in why
                   PROVE  a \in m
        OBVIOUS
      <4>1. PICK j \in DOMAIN T : T[j].lit = a
        BY <1>l DEF True
      <4>2. T[j].lvl <= k
        BY <1>t, <1>v, <3>1, <4>1
      <4> QED
        BY <1>t, <2>1, <4>1, <4>2
    <3>5. l \in m
      BY <3>1, <3>3, <3>4 DEF Propagates, B
    <3> QED
      BY <1>e, <1>u, <2>3, <3>5
  <2> QED
    BY <1>u, <2>2, <2>3
<1>7. JustifiedOK(d)
  <2> DEFINE M == ModelsAt(c, B)
  <2>1. WhyImplies(U, M)
    <3> SUFFICES ASSUME NEW i \in DOMAIN U, U[i].why # {}, NEW m \in M, U[i].why \subseteq m
                 PROVE  U[i].lit \in m
      BY DEF WhyImplies
    <3>1. CASE i \in 1 .. n
      BY <1>c, <1>t, <1>u, <3>1 DEF JustifiedOK, WhyImplies, T, B
    <3>2. CASE i = n + 1
      BY <1>e, <1>l, <1>u, <3>2 DEF Propagates, Decides, Assumes, B
    <3> QED
      BY <1>u, <3>1, <3>2
  <2>2. UnitsImplied(U, c.search, c.assumptions, M)
    <3> SUFFICES ASSUME NEW i \in DOMAIN U, U[i].why = {}, U[i].lvl <= c.search,
                        U[i].lit \notin c.assumptions, NEW m \in M
                 PROVE  U[i].lit \in m
      BY DEF UnitsImplied
    <3>1. CASE i \in 1 .. n
      BY <1>c, <1>t, <1>u, <3>1 DEF JustifiedOK, UnitsImplied, T, B
    <3>2. CASE i = n + 1
      <4>1. ScopeLvl(c) <= c.search /\ l \notin c.assumptions
        BY <1>e, <1>u, <3>2
      <4>2. Propagates(c, l, why) /\ why = {}
        BY <1>e, <1>l, <1>t, <1>u, <3>2, <4>1 DEF Decides, Assumes
      <4> QED
        BY <1>e, <1>u, <3>2, <4>2 DEF Propagates, B
    <3> QED
      BY <1>u, <3>1, <3>2
  <2> QED
    BY <1>f, <1>s, <2>1, <2>2 DEF JustifiedOK, U, B
<1>8. ConflictOK(d)
  <2>1. \A x : False(T, x) => False(U, x)
    BY <1>t, <1>u DEF False, True
  <2>2. \A x, k : (\E i \in DOMAIN T : T[i].lit = x /\ T[i].lvl <= k)
                   => \E i \in DOMAIN U : U[i].lit = x /\ U[i].lvl <= k
    BY <1>t, <1>u
  <2>3. /\ Inconsistent(d) =>
              /\ d.conflict \in SUBSET Literals
              /\ \A x \in d.conflict : False(d.trail, x)
              /\ \/ Implied(d.conflict, ModelsAt(d, BaseLvl(d)))
                 \/ ScopeLvl(d) > BaseLvl(d) /\ \E x \in d.assumptions : d.conflict = {x}
    BY <1>c, <1>f, <1>s, <2>1 DEF ConflictOK, T, U, B
  <2>4. \A k \in 0 .. (BaseLvl(d) - 1) : d.base[k + 1].inconsistent =>
          /\ Inconsistent(d)
          /\ ScopeLvl(d) = BaseLvl(d)
          /\ \A j \in k .. (BaseLvl(d) - 1) : d.base[j + 1].inconsistent
          /\ \A x \in d.conflict : \E i \in DOMAIN d.trail : d.trail[i].lit = -x /\ d.trail[i].lvl <= k
          /\ Implied(d.conflict, ModelsAt(d, k))
    <3> TAKE k \in 0 .. (BaseLvl(d) - 1)
    <3> HAVE d.base[k + 1].inconsistent
    <3>1. /\ Inconsistent(c)
          /\ ScopeLvl(c) = BaseLvl(c)
          /\ \A j \in k .. (BaseLvl(c) - 1) : c.base[j + 1].inconsistent
          /\ \A x \in c.conflict : \E i \in DOMAIN T : T[i].lit = -x /\ T[i].lvl <= k
          /\ Implied(c.conflict, ModelsAt(c, k))
      BY <1>c, <1>f, <1>s DEF ConflictOK, T, B
    <3> QED
      BY <1>f, <1>s, <2>2, <3>1 DEF U, B
  <2> QED
    BY <2>3, <2>4 DEF ConflictOK
<1>9. RepresentedOK(d)
  <2>1. \A k, m : HoldsAt(d, k, m) => HoldsAt(c, k, m)
    BY <1>f, <1>s, <1>t, <1>u DEF HoldsAt, T, U
  <2> QED
    BY <1>c, <1>f, <1>s, <2>1 DEF RepresentedOK, B
<1>10. QueueOK(d)
  BY <1>c, <1>e, <1>f, <1>s, <1>u DEF QueueOK, T, U
<1>11. ASSUME NEW w, NEW pending, WatchOK(c, w, pending)
       PROVE  WatchOK(d, w, pending)
  <2> SUFFICES ASSUME NEW a \in w.watch, NEW p \in DOMAIN U,
                      U[p].lit = -a, Passed(d, p), ~Dirty(d, U[p].lvl), ~(pending /\ p = d.qhead)
               PROVE  \E b \in w.watch : \E q \in DOMAIN U : U[q].lit = b /\ U[q].lvl <= U[p].lvl
    BY DEF WatchOK, U
  <2>1. p # n + 1
    <3>1. c.qhead \in Nat /\ c.qhead <= n
      BY <1>c, Types DEF ScopesOK, n, T
    <3> QED
      BY <1>e, <1>f, <1>s, <1>t, <1>u, <3>1 DEF Passed, U
  <2>2. p \in DOMAIN T /\ U[p] = T[p]
    BY <1>u, <2>1
  <2>3. Passed(c, p)
    BY <1>f, <1>s, <2>2 DEF Passed, T, U
  <2>4. PICK b \in w.watch, q \in DOMAIN T : T[q].lit = b /\ T[q].lvl <= T[p].lvl
    BY <1>f, <1>s, <1>11, <2>2, <2>3 DEF WatchOK, T
  <2> QED
    BY <1>t, <1>u, <2>2, <2>4
<1> QED
  <2>1. CtxInv(d)
    BY <1>f, <1>2, <1>3, <1>4, <1>5, <1>6, <1>7, <1>8, <1>9, <1>10 DEF CtxInv
  <2> QED
    BY <1>d, <1>11, <2>1 DEF d, e, T

(* A conflict is found.                                                    *)
LEMMA ConflictKeeps ==
    ASSUME NEW c, CtxInv(c), ~Inconsistent(c),
           NEW K \in SUBSET Literals, \A l \in K : False(c.trail, l),
           \/ Implied(K, ModelsAt(c, BaseLvl(c)))
           \/ ScopeLvl(c) > BaseLvl(c) /\ \E l \in c.assumptions : K = {l}
    PROVE  LET d == [c EXCEPT !.conflict = K]
           IN  /\ CtxInv(d)
               /\ Inconsistent(d)
               /\ \A w, pending : WatchOK(c, w, pending) => WatchOK(d, w, pending)
<1> DEFINE d == [c EXCEPT !.conflict = K]
<1>c. /\ c \in ContextType /\ ScopesOK(c) /\ LevelsOK(c) /\ TrailOK(c) /\ ClausesOK(c) /\ SoundOK(c)
      /\ JustifiedOK(c) /\ ConflictOK(c) /\ RepresentedOK(c) /\ QueueOK(c)
  BY DEF CtxInv
<1>f. /\ d.formulas = c.formulas /\ d.fqhead = c.fqhead /\ d.scopes = c.scopes /\ d.base = c.base
      /\ d.search = c.search /\ d.qhead = c.qhead /\ d.aux = c.aux /\ d.lemmas = c.lemmas
      /\ d.conflict = K /\ d.assumptions = c.assumptions /\ d.trail = c.trail
      /\ d \in ContextType
  BY <1>c DEF ContextType, Clauses
<1> HIDE DEF d
<1>i. Inconsistent(d)
  <2>1. 0 \notin Literals
    BY LiteralFacts
  <2> QED
    BY <1>f, <2>1 DEF Inconsistent, NoConflict
<1>s. /\ ScopeLvl(d) = ScopeLvl(c) /\ BaseLvl(d) = BaseLvl(c)
      /\ \A k : /\ ModelsAt(d, k) = ModelsAt(c, k) /\ AuxLimAt(d, k) = AuxLimAt(c, k)
                /\ LemmasLimAt(d, k) = LemmasLimAt(c, k) /\ InternalizedAt(d, k) = InternalizedAt(c, k)
                /\ FormulasLimAt(d, k) = FormulasLimAt(c, k)
  BY <1>f, SameScopes
<1>d. \A k : Dirty(c, k) => Dirty(d, k)
  BY <1>f, <1>s DEF Dirty
<1>1. ScopesOK(d) /\ LevelsOK(d) /\ TrailOK(d)
  BY <1>c, <1>f, <1>s DEF ScopesOK, LevelsOK, TrailOK
<1>2. ClausesOK(d)
  BY <1>c, <1>f, <1>s DEF ClausesOK
<1>3. SoundOK(d) /\ JustifiedOK(d)
  BY <1>c, <1>f, <1>s DEF SoundOK, JustifiedOK
<1>4. ConflictOK(d)
  <2>1. \A k \in 0 .. (BaseLvl(c) - 1) : ~c.base[k + 1].inconsistent
    BY <1>c DEF ConflictOK
  <2> QED
    BY <1>f, <1>i, <1>s, <2>1 DEF ConflictOK
<1>5. RepresentedOK(d)
  <2>1. \A k, m : HoldsAt(d, k, m) = HoldsAt(c, k, m)
    BY <1>f, <1>s DEF HoldsAt
  <2> QED
    BY <1>c, <1>d, <1>f, <1>s, <2>1 DEF RepresentedOK
<1>6. QueueOK(d)
  BY <1>i DEF QueueOK
<1>7. \A w, pending : WatchOK(c, w, pending) => WatchOK(d, w, pending)
  <2>1. \A p : Passed(d, p) = Passed(c, p)
    BY <1>f, <1>s DEF Passed
  <2> QED
    BY <1>d, <1>f, <2>1 DEF WatchOK
<1> QED
  BY <1>f, <1>i, <1>1, <1>2, <1>3, <1>4, <1>5, <1>6, <1>7 DEF CtxInv, d

(* The head of the queue moves.                                            *)
LEMMA QheadKeeps ==
    ASSUME NEW c, CtxInv(c), NEW q \in 0 .. Len(c.trail),
           ~Inconsistent(c) => \A i \in DOMAIN c.trail : i > q => c.trail[i].lvl = ScopeLvl(c)
    PROVE  LET d == [c EXCEPT !.qhead = q]
           IN  /\ CtxInv(d)
               /\ \A p : Passed(d, p) <=> p <= q \/ c.trail[p].lvl < ScopeLvl(c)
               /\ \A k : Dirty(d, k) = Dirty(c, k)
<1> DEFINE d == [c EXCEPT !.qhead = q]
<1>c. /\ c \in ContextType /\ ScopesOK(c) /\ LevelsOK(c) /\ TrailOK(c) /\ ClausesOK(c) /\ SoundOK(c)
      /\ JustifiedOK(c) /\ ConflictOK(c) /\ RepresentedOK(c) /\ QueueOK(c)
  BY DEF CtxInv
<1>q. q \in Nat /\ q <= Len(c.trail)
  BY <1>c, Types
<1>f. /\ d.formulas = c.formulas /\ d.fqhead = c.fqhead /\ d.scopes = c.scopes /\ d.base = c.base
      /\ d.search = c.search /\ d.qhead = q /\ d.aux = c.aux /\ d.lemmas = c.lemmas
      /\ d.conflict = c.conflict /\ d.assumptions = c.assumptions /\ d.trail = c.trail
      /\ d \in ContextType
  BY <1>c, <1>q DEF ContextType
<1> HIDE DEF d
<1>s. /\ ScopeLvl(d) = ScopeLvl(c) /\ BaseLvl(d) = BaseLvl(c)
      /\ \A k : /\ ModelsAt(d, k) = ModelsAt(c, k) /\ AuxLimAt(d, k) = AuxLimAt(c, k)
                /\ LemmasLimAt(d, k) = LemmasLimAt(c, k) /\ InternalizedAt(d, k) = InternalizedAt(c, k)
                /\ FormulasLimAt(d, k) = FormulasLimAt(c, k)
                /\ Dirty(d, k) = Dirty(c, k)
      /\ Inconsistent(d) = Inconsistent(c)
  BY <1>f, SameScopes
<1>1. ScopesOK(d) /\ LevelsOK(d) /\ TrailOK(d)
  BY <1>c, <1>f, <1>q, <1>s DEF ScopesOK, LevelsOK, TrailOK
<1>2. ClausesOK(d)
  BY <1>c, <1>f, <1>s DEF ClausesOK
<1>3. SoundOK(d) /\ JustifiedOK(d)
  BY <1>c, <1>f, <1>s DEF SoundOK, JustifiedOK
<1>4. ConflictOK(d)
  BY <1>c, <1>f, <1>s DEF ConflictOK
<1>5. RepresentedOK(d)
  <2>1. \A k, m : HoldsAt(d, k, m) = HoldsAt(c, k, m)
    BY <1>f, <1>s DEF HoldsAt
  <2> QED
    BY <1>c, <1>f, <1>s, <2>1 DEF RepresentedOK
<1>6. QueueOK(d)
  BY <1>f, <1>s DEF QueueOK
<1>7. \A p : Passed(d, p) <=> p <= q \/ c.trail[p].lvl < ScopeLvl(c)
  BY <1>f, <1>s DEF Passed
<1> QED
  BY <1>f, <1>s, <1>1, <1>2, <1>3, <1>4, <1>5, <1>6, <1>7 DEF CtxInv, d

(* A formula counts as internalized once the clauses and literals of the   *)
(* base level say as much.                                                 *)
LEMMA FqheadKeeps ==
    ASSUME NEW c, CtxInv(c), ScopeLvl(c) = BaseLvl(c), c.fqhead < Len(c.formulas),
           \/ Inconsistent(c)
           \/ \A m \in Valuations : HoldsAt(c, BaseLvl(c), m) => c.formulas[c.fqhead + 1] \cap m # {}
    PROVE  LET d == [c EXCEPT !.fqhead = @ + 1]
           IN  /\ CtxInv(d)
               /\ \A w, pending : WatchOK(c, w, pending) => WatchOK(d, w, pending)
<1> DEFINE d == [c EXCEPT !.fqhead = @ + 1]
<1>c. /\ c \in ContextType /\ ScopesOK(c) /\ LevelsOK(c) /\ TrailOK(c) /\ ClausesOK(c) /\ SoundOK(c)
      /\ JustifiedOK(c) /\ ConflictOK(c) /\ RepresentedOK(c) /\ QueueOK(c)
  BY DEF CtxInv
<1>q. /\ c.fqhead \in Nat /\ Len(c.formulas) \in Nat
      /\ c.fqhead + 1 \in Nat /\ c.fqhead + 1 <= Len(c.formulas)
  BY <1>c, Types
<1>f. /\ d.formulas = c.formulas /\ d.fqhead = c.fqhead + 1 /\ d.scopes = c.scopes /\ d.base = c.base
      /\ d.search = c.search /\ d.qhead = c.qhead /\ d.aux = c.aux /\ d.lemmas = c.lemmas
      /\ d.conflict = c.conflict /\ d.assumptions = c.assumptions /\ d.trail = c.trail
      /\ d \in ContextType
  BY <1>c, <1>q DEF ContextType
<1> HIDE DEF d
<1>s. /\ ScopeLvl(d) = ScopeLvl(c) /\ BaseLvl(d) = BaseLvl(c)
      /\ \A k : /\ ModelsAt(d, k) = ModelsAt(c, k) /\ AuxLimAt(d, k) = AuxLimAt(c, k)
                /\ LemmasLimAt(d, k) = LemmasLimAt(c, k)
                /\ FormulasLimAt(d, k) = FormulasLimAt(c, k)
                /\ Dirty(d, k) = Dirty(c, k)
      /\ Inconsistent(d) = Inconsistent(c)
  BY <1>f, SameScopes
<1>1. ScopesOK(d) /\ LevelsOK(d) /\ TrailOK(d)
  <2>1. ScopesOK(d)
    <3>1. \A j \in 1 .. ScopeLvl(c) : c.scopes[j].formulas \in Nat /\ c.scopes[j].formulas <= c.fqhead
      BY <1>c, Types DEF ScopesOK
    <3>2. \A j \in 1 .. ScopeLvl(c) : c.scopes[j].formulas <= c.fqhead + 1
      BY <1>q, <3>1
    <3> QED
      BY <1>c, <1>f, <1>q, <1>s, <3>2 DEF ScopesOK
  <2> QED
    BY <1>c, <1>f, <1>q, <1>s, <2>1 DEF LevelsOK, TrailOK
<1>2. ClausesOK(d)
  BY <1>c, <1>f, <1>s DEF ClausesOK
<1>3. SoundOK(d) /\ JustifiedOK(d)
  BY <1>c, <1>f, <1>s DEF SoundOK, JustifiedOK
<1>4. ConflictOK(d)
  BY <1>c, <1>f, <1>s DEF ConflictOK
<1>5. RepresentedOK(d)
  <2>1. \A k, m : HoldsAt(d, k, m) = HoldsAt(c, k, m)
    BY <1>f, <1>s DEF HoldsAt
  <2> SUFFICES ASSUME NEW k \in 0 .. BaseLvl(c), ~Dirty(c, k), NEW m \in Valuations, HoldsAt(c, k, m),
                      NEW i \in 1 .. InternalizedAt(d, k)
               PROVE  c.formulas[i] \cap m # {}
    BY <1>f, <1>s, <2>1 DEF RepresentedOK
  <2>2. \A j \in 1 .. InternalizedAt(c, k) : c.formulas[j] \cap m # {}
    BY <1>c DEF RepresentedOK
  <2>3. CASE k < BaseLvl(c)
    <3>1. InternalizedAt(c, k) = FormulasLimAt(c, k) /\ InternalizedAt(d, k) = FormulasLimAt(d, k)
      BY <1>c, <1>f, <1>s, <1>1, <2>3, ModelsShrink
    <3> QED
      BY <1>s, <2>2, <3>1
  <2>4. CASE k = BaseLvl(c)
    <3>1. InternalizedAt(c, k) = c.fqhead /\ InternalizedAt(d, k) = c.fqhead + 1
      <4>1. FormulasLimAt(c, k) = Len(c.formulas)
        BY <1>c, <2>4, Types DEF FormulasLimAt
      <4> QED
        BY <1>f, <1>q, <1>s, <4>1 DEF InternalizedAt
    <3>2. ~Inconsistent(c)
      BY <1>c, <2>4, Types DEF Dirty
    <3>3. c.formulas[c.fqhead + 1] \cap m # {}
      BY <2>4, <3>2
    <3>4. i = c.fqhead + 1 \/ i \in 1 .. c.fqhead
      BY <1>q, <3>1
    <3> QED
      BY <2>2, <3>1, <3>3, <3>4
  <2> QED
    BY <1>c, <2>3, <2>4, Types
<1>6. QueueOK(d)
  BY <1>c, <1>f, <1>s DEF QueueOK
<1>7. \A w, pending : WatchOK(c, w, pending) => WatchOK(d, w, pending)
  <2>1. \A p : Passed(d, p) = Passed(c, p)
    BY <1>f, <1>s DEF Passed
  <2> QED
    BY <1>f, <1>s, <2>1 DEF WatchOK
<1> QED
  BY <1>f, <1>s, <1>1, <1>2, <1>3, <1>4, <1>5, <1>6, <1>7 DEF CtxInv, d

(* The clause databases change, and their clauses are as good as before.   *)
AsGood(c, aux, lemmas, d) ==
    /\ aux \in Seq(Watched) /\ lemmas \in Seq(Watched)
    /\ d = [c EXCEPT !.aux = aux, !.lemmas = lemmas]
    /\ \A j \in 1 .. ScopeLvl(c) : /\ c.scopes[j].aux <= Len(aux)
                                   /\ j > BaseLvl(c) => c.scopes[j].aux = Len(aux)
    /\ \A j \in 1 .. BaseLvl(c) : c.base[j].lemmas <= Len(lemmas)
    /\ ClausesOK(d)
    /\ \A k \in 0 .. BaseLvl(c) : \A i \in 1 .. AuxLimAt(d, k) : Implied(aux[i].lits, ModelsAt(c, k))
    /\ \A k \in 0 .. BaseLvl(c) : \A i \in 1 .. LemmasLimAt(d, k) : Implied(lemmas[i].lits, ModelsAt(c, k))
    /\ \A k \in 0 .. BaseLvl(c) : \A m \in Valuations : HoldsAt(d, k, m) => HoldsAt(c, k, m)

LEMMA ClausesKeep ==
    ASSUME NEW c, CtxInv(c), NEW aux, NEW lemmas, NEW d, AsGood(c, aux, lemmas, d)
    PROVE  /\ CtxInv(d)
           /\ \A w, pending : WatchOK(d, w, pending) <=> WatchOK(c, w, pending)
<1>c. /\ c \in ContextType /\ ScopesOK(c) /\ LevelsOK(c) /\ TrailOK(c) /\ ClausesOK(c) /\ SoundOK(c)
      /\ JustifiedOK(c) /\ ConflictOK(c) /\ RepresentedOK(c) /\ QueueOK(c)
  BY DEF CtxInv
<1>g. /\ aux \in Seq(Watched) /\ lemmas \in Seq(Watched)
      /\ d = [c EXCEPT !.aux = aux, !.lemmas = lemmas]
  BY DEF AsGood
<1>f. /\ d.formulas = c.formulas /\ d.fqhead = c.fqhead /\ d.scopes = c.scopes /\ d.base = c.base
      /\ d.search = c.search /\ d.qhead = c.qhead /\ d.aux = aux /\ d.lemmas = lemmas
      /\ d.conflict = c.conflict /\ d.assumptions = c.assumptions /\ d.trail = c.trail
      /\ d \in ContextType
  BY <1>c, <1>g DEF ContextType
<1>s. /\ ScopeLvl(d) = ScopeLvl(c) /\ BaseLvl(d) = BaseLvl(c)
      /\ \A k : /\ ModelsAt(d, k) = ModelsAt(c, k) /\ InternalizedAt(d, k) = InternalizedAt(c, k)
                /\ FormulasLimAt(d, k) = FormulasLimAt(c, k)
                /\ Dirty(d, k) = Dirty(c, k)
      /\ Inconsistent(d) = Inconsistent(c)
  BY <1>f, SameScopes
<1>1. ScopesOK(d) /\ LevelsOK(d) /\ TrailOK(d)
  <2>1. ScopesOK(d)
    BY <1>c, <1>f, <1>s DEF ScopesOK, AsGood
  <2> QED
    BY <1>c, <1>f, <1>s, <2>1 DEF LevelsOK, TrailOK
<1>3. SoundOK(d) /\ JustifiedOK(d)
  BY <1>c, <1>f, <1>s DEF SoundOK, JustifiedOK, AsGood
<1>4. ConflictOK(d)
  BY <1>c, <1>f, <1>s DEF ConflictOK
<1>5. RepresentedOK(d)
  BY <1>c, <1>f, <1>s DEF RepresentedOK, AsGood
<1>6. QueueOK(d)
  BY <1>c, <1>f, <1>s DEF QueueOK
<1>7. \A w, pending : WatchOK(d, w, pending) <=> WatchOK(c, w, pending)
  <2>1. \A p : Passed(d, p) = Passed(c, p)
    BY <1>f, <1>s DEF Passed
  <2> QED
    BY <1>f, <1>s, <2>1 DEF WatchOK
<1> QED
  BY <1>f, <1>s, <1>1, <1>3, <1>4, <1>5, <1>6, <1>7 DEF CtxInv, AsGood

(* A clause is added for a formula, at the base level.                     *)
LEMMA AppendAuxKeeps ==
    ASSUME NEW c, CtxInv(c), ScopeLvl(c) = BaseLvl(c),
           NEW x \in Watched, WatchesTwo(x),
           \A a \in x.just : True(c.trail, a),
           \E j \in 1 .. Len(c.formulas) : x.lits \subseteq c.formulas[j],
           Implied(x.lits, ModelsAt(c, BaseLvl(c)))
    PROVE  LET d == [c EXCEPT !.aux = Append(@, x)]
           IN  /\ CtxInv(d)
               /\ \A w, pending : WatchOK(d, w, pending) <=> WatchOK(c, w, pending)
               /\ \A m : HoldsAt(d, BaseLvl(d), m) => x.lits \cap m # {}
<1> DEFINE d == [c EXCEPT !.aux = Append(@, x)]
           aux == Append(c.aux, x)
           n == Len(c.aux)
           B == BaseLvl(c)
<1>c. /\ c \in ContextType /\ ScopesOK(c) /\ LevelsOK(c) /\ TrailOK(c) /\ ClausesOK(c) /\ SoundOK(c)
  BY DEF CtxInv
<1>a. /\ n \in Nat /\ c.aux \in Seq(Watched) /\ DOMAIN c.aux = 1 .. n /\ B \in Nat
      /\ c.lemmas \in Seq(Watched)
  BY <1>c, Types, Fields
<1>u. /\ aux \in Seq(Watched) /\ Len(aux) = n + 1 /\ DOMAIN aux = 1 .. (n + 1)
      /\ aux[n + 1] = x /\ \A i \in 1 .. n : aux[i] = c.aux[i]
      /\ \A i \in 1 .. (n + 1) : i = n + 1 \/ i \in 1 .. n
  BY <1>a, AppendFacts
<1>e. d = [c EXCEPT !.aux = aux, !.lemmas = c.lemmas]
  BY <1>c DEF ContextType
<1>f. /\ d.formulas = c.formulas /\ d.fqhead = c.fqhead /\ d.scopes = c.scopes /\ d.base = c.base
      /\ d.aux = aux /\ d.lemmas = c.lemmas /\ d.trail = c.trail
  BY <1>c DEF ContextType
<1> HIDE DEF d, aux, n, B
<1>s. /\ ScopeLvl(d) = ScopeLvl(c) /\ BaseLvl(d) = B
      /\ \A k : /\ ModelsAt(d, k) = ModelsAt(c, k) /\ LemmasLimAt(d, k) = LemmasLimAt(c, k)
                /\ FormulasLimAt(d, k) = FormulasLimAt(c, k)
  BY <1>f, SameScopes DEF B
<1>l. /\ \A k \in 0 .. B : k # B => AuxLimAt(d, k) = AuxLimAt(c, k)
      /\ AuxLimAt(d, B) = n + 1 /\ AuxLimAt(c, B) = n
  BY <1>a, <1>f, <1>s, <1>u DEF AuxLimAt, n, B
<1>m. \A k \in 0 .. B : \A i \in 1 .. AuxLimAt(c, k) : i \in 1 .. n
  BY <1>a, <1>c, ModelsShrink DEF n, B
<1>k. ASSUME NEW k \in 0 .. B, NEW i \in 1 .. AuxLimAt(d, k)
      PROVE  \/ k = B /\ i = n + 1 /\ aux[i] = x
             \/ i \in 1 .. AuxLimAt(c, k) /\ aux[i] = c.aux[i]
  <2>1. CASE k = B
    BY <1>l, <1>u, <2>1
  <2>2. CASE k # B
    BY <1>l, <1>m, <1>u, <2>2
  <2> QED
    BY <2>1, <2>2
<1>1. \A j \in 1 .. ScopeLvl(c) : /\ c.scopes[j].aux <= Len(aux)
                                  /\ j > BaseLvl(c) => c.scopes[j].aux = Len(aux)
  <2>1. \A j \in 1 .. ScopeLvl(c) : c.scopes[j].aux \in Nat /\ c.scopes[j].aux <= n
    BY <1>c, Types DEF ScopesOK, n
  <2>2. \A j \in 1 .. ScopeLvl(c) : c.scopes[j].aux <= n + 1 /\ ~(j > BaseLvl(c))
    BY <1>a, <2>1 DEF B
  <2> QED
    BY <1>u, <2>2
<1>2. \A j \in 1 .. BaseLvl(c) : c.base[j].lemmas <= Len(c.lemmas)
  BY <1>c DEF ScopesOK
<1>3. ClausesOK(d)
  <2>1. \A i \in DOMAIN aux : WatchesTwo(aux[i])
    BY <1>a, <1>c, <1>u DEF ClausesOK
  <2>2. \A i \in DOMAIN d.lemmas : WatchesTwo(d.lemmas[i]) /\ d.lemmas[i].just = {}
    BY <1>c, <1>f DEF ClausesOK
  <2>3. ASSUME NEW k \in 0 .. B, NEW i \in 1 .. AuxLimAt(d, k)
        PROVE  /\ \A a \in aux[i].just : \E j \in DOMAIN c.trail : c.trail[j].lit = a /\ c.trail[j].lvl <= k
               /\ \E j \in 1 .. FormulasLimAt(c, k) : aux[i].lits \subseteq c.formulas[j]
    <3>1. CASE k = B /\ i = n + 1 /\ aux[i] = x
      <4>1. FormulasLimAt(c, k) = Len(c.formulas)
        BY <1>a, <3>1 DEF FormulasLimAt, B
      <4>2. \A j \in DOMAIN c.trail : c.trail[j].lvl <= B
        BY <1>c DEF LevelsOK, B
      <4>3. \A a \in x.just : \E j \in DOMAIN c.trail : c.trail[j].lit = a /\ c.trail[j].lvl <= k
        BY <3>1, <4>2 DEF True
      <4> QED
        BY <3>1, <4>1, <4>3
    <3>2. CASE i \in 1 .. AuxLimAt(c, k) /\ aux[i] = c.aux[i]
      BY <1>c, <3>2 DEF ClausesOK, B
    <3> QED
      BY <1>k, <3>1, <3>2
  <2> QED
    BY <1>f, <1>s, <2>1, <2>2, <2>3 DEF ClausesOK
<1>4. \A k \in 0 .. B : \A i \in 1 .. AuxLimAt(d, k) : Implied(aux[i].lits, ModelsAt(c, k))
  <2> TAKE k \in 0 .. B
  <2> TAKE i \in 1 .. AuxLimAt(d, k)
  <2>1. CASE k = B /\ i = n + 1 /\ aux[i] = x
    BY <2>1 DEF B
  <2>2. CASE i \in 1 .. AuxLimAt(c, k) /\ aux[i] = c.aux[i]
    BY <1>c, <2>2 DEF SoundOK, B
  <2> QED
    BY <1>k, <2>1, <2>2
<1>5. \A k \in 0 .. B : \A i \in 1 .. LemmasLimAt(d, k) : Implied(c.lemmas[i].lits, ModelsAt(c, k))
  BY <1>c, <1>s DEF SoundOK, B
<1>6. \A k \in 0 .. B : \A m \in Valuations : HoldsAt(d, k, m) => HoldsAt(c, k, m)
  <2>1. \A k \in 0 .. B : \A i \in 1 .. AuxLimAt(c, k) : i \in 1 .. AuxLimAt(d, k) /\ aux[i] = c.aux[i]
    BY <1>a, <1>l, <1>m, <1>u
  <2> QED
    BY <1>f, <2>1 DEF HoldsAt
<1>g. AsGood(c, aux, c.lemmas, d)
  BY <1>a, <1>e, <1>u, <1>1, <1>2, <1>3, <1>4, <1>5, <1>6 DEF AsGood, B
<1>7. /\ CtxInv(d)
      /\ \A w, pending : WatchOK(d, w, pending) <=> WatchOK(c, w, pending)
  BY <1>g, ClausesKeep
<1>8. \A m : HoldsAt(d, BaseLvl(d), m) => x.lits \cap m # {}
  <2>1. n + 1 \in 1 .. AuxLimAt(d, B) /\ aux[n + 1] = x
    BY <1>a, <1>l, <1>u
  <2> QED
    BY <1>f, <1>s, <2>1 DEF HoldsAt
<1> QED
  BY <1>7, <1>8 DEF d

(* A lemma is added.                                                       *)
LEMMA AppendLemmaKeeps ==
    ASSUME NEW c, CtxInv(c),
           NEW x \in Watched, WatchesTwo(x), x.just = {},
           Implied(x.lits, ModelsAt(c, BaseLvl(c)))
    PROVE  LET d == [c EXCEPT !.lemmas = Append(@, x)]
           IN  /\ CtxInv(d)
               /\ \A w, pending : WatchOK(d, w, pending) <=> WatchOK(c, w, pending)
<1> DEFINE d == [c EXCEPT !.lemmas = Append(@, x)]
           lemmas == Append(c.lemmas, x)
           n == Len(c.lemmas)
           B == BaseLvl(c)
<1>c. /\ c \in ContextType /\ ScopesOK(c) /\ LevelsOK(c) /\ TrailOK(c) /\ ClausesOK(c) /\ SoundOK(c)
  BY DEF CtxInv
<1>a. /\ n \in Nat /\ c.lemmas \in Seq(Watched) /\ DOMAIN c.lemmas = 1 .. n /\ B \in Nat
      /\ c.aux \in Seq(Watched)
  BY <1>c, Types, Fields
<1>u. /\ lemmas \in Seq(Watched) /\ Len(lemmas) = n + 1 /\ DOMAIN lemmas = 1 .. (n + 1)
      /\ lemmas[n + 1] = x /\ \A i \in 1 .. n : lemmas[i] = c.lemmas[i]
      /\ \A i \in 1 .. (n + 1) : i = n + 1 \/ i \in 1 .. n
  BY <1>a, AppendFacts
<1>e. d = [c EXCEPT !.aux = c.aux, !.lemmas = lemmas]
  BY <1>c DEF ContextType
<1>f. /\ d.formulas = c.formulas /\ d.fqhead = c.fqhead /\ d.scopes = c.scopes /\ d.base = c.base
      /\ d.aux = c.aux /\ d.lemmas = lemmas /\ d.trail = c.trail
  BY <1>c DEF ContextType
<1> HIDE DEF d, lemmas, n, B
<1>s. /\ ScopeLvl(d) = ScopeLvl(c) /\ BaseLvl(d) = B
      /\ \A k : /\ ModelsAt(d, k) = ModelsAt(c, k) /\ AuxLimAt(d, k) = AuxLimAt(c, k)
                /\ FormulasLimAt(d, k) = FormulasLimAt(c, k)
  BY <1>f, SameScopes DEF B
<1>l. /\ \A k \in 0 .. B : k # B => LemmasLimAt(d, k) = LemmasLimAt(c, k)
      /\ LemmasLimAt(d, B) = n + 1 /\ LemmasLimAt(c, B) = n
  BY <1>a, <1>f, <1>s, <1>u DEF LemmasLimAt, n, B
<1>m. \A k \in 0 .. B : \A i \in 1 .. LemmasLimAt(c, k) : i \in 1 .. n
  BY <1>a, <1>c, ModelsShrink DEF n, B
<1>1. \A j \in 1 .. ScopeLvl(c) : /\ c.scopes[j].aux <= Len(c.aux)
                                  /\ j > BaseLvl(c) => c.scopes[j].aux = Len(c.aux)
  BY <1>c DEF ScopesOK
<1>2. \A j \in 1 .. BaseLvl(c) : c.base[j].lemmas <= Len(lemmas)
  <2>1. \A j \in 1 .. BaseLvl(c) : c.base[j].lemmas \in Nat /\ c.base[j].lemmas <= n
    BY <1>c, Types DEF ScopesOK, n
  <2> QED
    BY <1>a, <1>u, <2>1
<1>3. ClausesOK(d)
  <2>1. \A i \in DOMAIN lemmas : WatchesTwo(lemmas[i]) /\ lemmas[i].just = {}
    BY <1>a, <1>c, <1>u DEF ClausesOK
  <2> QED
    BY <1>c, <1>f, <1>s, <2>1 DEF ClausesOK, B
<1>4. \A k \in 0 .. B : \A i \in 1 .. AuxLimAt(d, k) : Implied(c.aux[i].lits, ModelsAt(c, k))
  BY <1>c, <1>s DEF SoundOK, B
<1>5. \A k \in 0 .. B : \A i \in 1 .. LemmasLimAt(d, k) : Implied(lemmas[i].lits, ModelsAt(c, k))
  <2> TAKE k \in 0 .. B
  <2> TAKE i \in 1 .. LemmasLimAt(d, k)
  <2>1. CASE k = B /\ i = n + 1
    BY <1>u, <2>1 DEF B
  <2>2. CASE ~(k = B /\ i = n + 1)
    <3>1. i \in 1 .. LemmasLimAt(c, k)
      BY <1>l, <1>u, <2>2
    <3>2. lemmas[i] = c.lemmas[i]
      BY <1>m, <1>u, <3>1
    <3> QED
      BY <1>c, <3>1, <3>2 DEF SoundOK, B
  <2> QED
    BY <2>1, <2>2
<1>6. \A k \in 0 .. B : \A m \in Valuations : HoldsAt(d, k, m) => HoldsAt(c, k, m)
  BY <1>f, <1>s DEF HoldsAt
<1>g. AsGood(c, c.aux, lemmas, d)
  BY <1>a, <1>e, <1>u, <1>1, <1>2, <1>3, <1>4, <1>5, <1>6 DEF AsGood, B
<1>7. /\ CtxInv(d)
      /\ \A w, pending : WatchOK(d, w, pending) <=> WatchOK(c, w, pending)
  BY <1>g, ClausesKeep
<1> QED
  BY <1>7 DEF d

(* At the base level, the assumptions and the search level are set.        *)
LEMMA SearchKeeps ==
    ASSUME NEW c, CtxInv(c), ScopeLvl(c) = BaseLvl(c),
           NEW A \in SUBSET Literals, NEW s \in BaseLvl(c) .. (BaseLvl(c) + 1)
    PROVE  LET d == [c EXCEPT !.assumptions = A, !.search = s]
           IN  /\ CtxInv(d)
               /\ \A w, pending : WatchOK(c, w, pending) => WatchOK(d, w, pending)
<1> DEFINE d == [c EXCEPT !.assumptions = A, !.search = s]
<1>c. /\ c \in ContextType /\ ScopesOK(c) /\ LevelsOK(c) /\ TrailOK(c) /\ ClausesOK(c) /\ SoundOK(c)
      /\ JustifiedOK(c) /\ ConflictOK(c) /\ RepresentedOK(c) /\ QueueOK(c)
  BY DEF CtxInv
<1>q. BaseLvl(c) \in Nat /\ s \in Nat /\ BaseLvl(c) <= s
  BY <1>c, Types
<1>f. /\ d.formulas = c.formulas /\ d.fqhead = c.fqhead /\ d.scopes = c.scopes /\ d.base = c.base
      /\ d.search = s /\ d.qhead = c.qhead /\ d.aux = c.aux /\ d.lemmas = c.lemmas
      /\ d.conflict = c.conflict /\ d.assumptions = A /\ d.trail = c.trail
      /\ d \in ContextType
  BY <1>c, <1>q DEF ContextType
<1> HIDE DEF d
<1>s. /\ ScopeLvl(d) = ScopeLvl(c) /\ BaseLvl(d) = BaseLvl(c)
      /\ \A k : /\ ModelsAt(d, k) = ModelsAt(c, k) /\ AuxLimAt(d, k) = AuxLimAt(c, k)
                /\ LemmasLimAt(d, k) = LemmasLimAt(c, k) /\ InternalizedAt(d, k) = InternalizedAt(c, k)
                /\ FormulasLimAt(d, k) = FormulasLimAt(c, k)
                /\ Dirty(d, k) = Dirty(c, k)
      /\ Inconsistent(d) = Inconsistent(c)
  BY <1>f, SameScopes
<1>l. \A i \in DOMAIN c.trail : c.trail[i].lvl \in Nat /\ c.trail[i].lvl <= BaseLvl(c)
  BY <1>c, Types DEF LevelsOK
<1>1. ScopesOK(d) /\ LevelsOK(d) /\ TrailOK(d)
  <2>1. DecisionsFirst(c.trail, s)
    BY <1>l, <1>q DEF DecisionsFirst
  <2> QED
    BY <1>c, <1>f, <1>s, <2>1 DEF ScopesOK, LevelsOK, TrailOK
<1>2. ClausesOK(d)
  BY <1>c, <1>f, <1>s DEF ClausesOK
<1>3. SoundOK(d)
  BY <1>c, <1>f, <1>s DEF SoundOK
<1>4. JustifiedOK(d)
  <2>1. \A i \in DOMAIN c.trail : \A m \in ModelsAt(c, BaseLvl(c)) : c.trail[i].lit \in m
    BY <1>c, <1>l, <1>q DEF SoundOK, BaseImplied
  <2> QED
    BY <1>c, <1>f, <1>s, <2>1 DEF JustifiedOK, UnitsImplied
<1>5. ConflictOK(d)
  BY <1>c, <1>f, <1>q, <1>s DEF ConflictOK
<1>6. RepresentedOK(d)
  <2>1. \A k, m : HoldsAt(d, k, m) = HoldsAt(c, k, m)
    BY <1>f, <1>s DEF HoldsAt
  <2> QED
    BY <1>c, <1>f, <1>s, <2>1 DEF RepresentedOK
<1>7. QueueOK(d)
  BY <1>c, <1>f, <1>s DEF QueueOK
<1>8. \A w, pending : WatchOK(c, w, pending) => WatchOK(d, w, pending)
  <2>1. \A p : Passed(d, p) = Passed(c, p)
    BY <1>f, <1>s DEF Passed
  <2> QED
    BY <1>f, <1>s, <2>1 DEF WatchOK
<1> QED
  BY <1>f, <1>s, <1>1, <1>2, <1>3, <1>4, <1>5, <1>6, <1>7, <1>8 DEF CtxInv, d

(* A formula is asserted, at the base level.                               *)
LEMMA AssertKeeps ==
    ASSUME NEW c, CtxInv(c), ScopeLvl(c) = BaseLvl(c), NEW f \in Clauses
    PROVE  LET d == [c EXCEPT !.formulas = Append(@, f)]
           IN  /\ CtxInv(d)
               /\ \A w, pending : WatchOK(c, w, pending) => WatchOK(d, w, pending)
<1> DEFINE d == [c EXCEPT !.formulas = Append(@, f)]
           n == Len(c.formulas)
           B == BaseLvl(c)
<1>c. /\ c \in ContextType /\ ScopesOK(c) /\ LevelsOK(c) /\ TrailOK(c) /\ ClausesOK(c) /\ SoundOK(c)
      /\ JustifiedOK(c) /\ ConflictOK(c) /\ RepresentedOK(c) /\ QueueOK(c)
  BY DEF CtxInv
<1>a. /\ n \in Nat /\ B \in Nat /\ c.formulas \in Seq(Clauses) /\ c.fqhead \in Nat /\ c.fqhead <= n
  BY <1>c, Types, Fields DEF ScopesOK
<1>u. /\ Append(c.formulas, f) \in Seq(Clauses) /\ Len(Append(c.formulas, f)) = n + 1
      /\ \A i \in 1 .. n : Append(c.formulas, f)[i] = c.formulas[i]
  BY <1>a, AppendFacts
<1>f. /\ d.formulas = Append(c.formulas, f) /\ d.fqhead = c.fqhead /\ d.scopes = c.scopes /\ d.base = c.base
      /\ d.search = c.search /\ d.qhead = c.qhead /\ d.aux = c.aux /\ d.lemmas = c.lemmas
      /\ d.conflict = c.conflict /\ d.assumptions = c.assumptions /\ d.trail = c.trail
      /\ d \in ContextType
  BY <1>c, <1>u DEF ContextType
<1>g. /\ Len(d.formulas) = n + 1
      /\ \A i \in 1 .. n : d.formulas[i] = c.formulas[i]
  BY <1>f, <1>u
<1> HIDE DEF d, n, B
<1>s. /\ ScopeLvl(d) = ScopeLvl(c) /\ BaseLvl(d) = B
      /\ \A k : /\ AuxLimAt(d, k) = AuxLimAt(c, k)
                /\ LemmasLimAt(d, k) = LemmasLimAt(c, k)
                /\ Dirty(d, k) = Dirty(c, k)
      /\ Inconsistent(d) = Inconsistent(c)
  BY <1>f DEF ScopeLvl, BaseLvl, AuxLimAt, LemmasLimAt, Dirty, Inconsistent, B
<1>m. ASSUME NEW k \in 0 .. B
      PROVE  /\ ModelsAt(d, k) \subseteq ModelsAt(c, k)
             /\ InternalizedAt(d, k) = InternalizedAt(c, k)
             /\ \A i \in 1 .. FormulasLimAt(c, k) : i \in 1 .. FormulasLimAt(d, k) /\ i \in 1 .. n
             /\ \A i \in 1 .. InternalizedAt(c, k) : i \in 1 .. n
             /\ k # B => ModelsAt(d, k) = ModelsAt(c, k)
  <2>1. /\ FormulasLimAt(c, k) \in Nat /\ FormulasLimAt(c, k) <= n
        /\ InternalizedAt(c, k) \in Nat /\ InternalizedAt(c, k) <= n
    BY <1>c, ModelsShrink DEF n, B
  <2>2. k # B => FormulasLimAt(d, k) = FormulasLimAt(c, k)
    BY <1>a, <1>f, <1>s DEF FormulasLimAt, B
  <2>3. k = B => FormulasLimAt(d, k) = n + 1 /\ FormulasLimAt(c, k) = n
    BY <1>a, <1>f, <1>g, <1>s DEF FormulasLimAt, B, n
  <2>4. InternalizedAt(d, k) = InternalizedAt(c, k)
    BY <1>a, <1>f, <2>2, <2>3 DEF InternalizedAt
  <2>5. /\ \A i \in 1 .. FormulasLimAt(c, k) : i \in 1 .. FormulasLimAt(d, k) /\ i \in 1 .. n
        /\ \A i \in 1 .. InternalizedAt(c, k) : i \in 1 .. n
    BY <1>a, <2>1, <2>2, <2>3
  <2>6. ModelsAt(d, k) \subseteq ModelsAt(c, k)
    BY <1>g, <2>5 DEF ModelsAt
  <2>7. k # B => ModelsAt(d, k) = ModelsAt(c, k)
    BY <1>g, <2>2, <2>5 DEF ModelsAt
  <2> QED
    BY <2>4, <2>5, <2>6, <2>7
<1>b. B \in 0 .. B /\ ModelsAt(d, B) \subseteq ModelsAt(c, B)
  BY <1>a, <1>m
<1>1. ScopesOK(d) /\ LevelsOK(d) /\ TrailOK(d)
  <2>1. c.fqhead <= n + 1
    BY <1>a
  <2>2. \A j \in 1 .. ScopeLvl(c) : ~(j > B)
    BY <1>a DEF B
  <2> QED
    BY <1>c, <1>f, <1>g, <1>s, <2>1, <2>2 DEF ScopesOK, LevelsOK, TrailOK, B
<1>2. ClausesOK(d)
  <2>1. \A k \in 0 .. B : \A i \in 1 .. AuxLimAt(c, k) :
           \E j \in 1 .. FormulasLimAt(d, k) : c.aux[i].lits \subseteq d.formulas[j]
    <3> TAKE k \in 0 .. B
    <3> TAKE i \in 1 .. AuxLimAt(c, k)
    <3>1. PICK j \in 1 .. FormulasLimAt(c, k) : c.aux[i].lits \subseteq c.formulas[j]
      BY <1>c DEF ClausesOK, B
    <3> QED
      BY <1>g, <1>m, <3>1
  <2>2. \A k \in 0 .. B : \A i \in 1 .. AuxLimAt(c, k) : \A a \in c.aux[i].just :
           \E j \in DOMAIN c.trail : c.trail[j].lit = a /\ c.trail[j].lvl <= k
    BY <1>c DEF ClausesOK, B
  <2>3. /\ \A i \in DOMAIN c.aux : WatchesTwo(c.aux[i])
        /\ \A i \in DOMAIN c.lemmas : WatchesTwo(c.lemmas[i]) /\ c.lemmas[i].just = {}
    BY <1>c DEF ClausesOK
  <2>4. d.aux = c.aux /\ d.lemmas = c.lemmas /\ d.trail = c.trail
    BY <1>f
  <2> QED
    BY <1>s, <2>1, <2>2, <2>3, <2>4 DEF ClausesOK
<1>3. SoundOK(d)
  <2> SUFFICES ASSUME NEW k \in 0 .. B
               PROVE  /\ BaseImplied(c.trail, k, ModelsAt(d, k))
                      /\ \A i \in 1 .. AuxLimAt(c, k) : Implied(c.aux[i].lits, ModelsAt(d, k))
                      /\ \A i \in 1 .. LemmasLimAt(c, k) : Implied(c.lemmas[i].lits, ModelsAt(d, k))
    BY <1>f, <1>s DEF SoundOK
  <2>1. /\ BaseImplied(c.trail, k, ModelsAt(c, k))
        /\ \A i \in 1 .. AuxLimAt(c, k) : Implied(c.aux[i].lits, ModelsAt(c, k))
        /\ \A i \in 1 .. LemmasLimAt(c, k) : Implied(c.lemmas[i].lits, ModelsAt(c, k))
    BY <1>c DEF SoundOK, B
  <2> QED
    BY <1>m, <2>1 DEF BaseImplied, Implied
<1>4. JustifiedOK(d)
  BY <1>b, <1>c, <1>f, <1>s DEF JustifiedOK, WhyImplies, UnitsImplied, B
<1>5. ConflictOK(d)
  <2>1. Inconsistent(d) => Implied(d.conflict, ModelsAt(d, B))
    <3>1. Inconsistent(c) => Implied(c.conflict, ModelsAt(c, B))
      BY <1>a, <1>c DEF ConflictOK, B
    <3> QED
      BY <1>b, <1>f, <1>s, <3>1 DEF Implied
  <2>2. \A k \in 0 .. (B - 1) : k \in 0 .. B /\ ModelsAt(d, k) = ModelsAt(c, k)
    BY <1>a, <1>m
  <2> QED
    BY <1>c, <1>f, <1>s, <2>1, <2>2 DEF ConflictOK, B
<1>6. RepresentedOK(d)
  <2>1. \A k, m : HoldsAt(d, k, m) = HoldsAt(c, k, m)
    BY <1>f, <1>s DEF HoldsAt
  <2> QED
    BY <1>c, <1>f, <1>g, <1>m, <1>s, <2>1 DEF RepresentedOK, B
<1>7. QueueOK(d)
  BY <1>c, <1>f, <1>s DEF QueueOK
<1>8. \A w, pending : WatchOK(c, w, pending) => WatchOK(d, w, pending)
  <2>1. \A p : Passed(d, p) = Passed(c, p)
    BY <1>f, <1>s DEF Passed
  <2> QED
    BY <1>f, <1>s, <2>1 DEF WatchOK
<1> QED
  BY <1>f, <1>s, <1>1, <1>2, <1>3, <1>4, <1>5, <1>6, <1>7, <1>8 DEF CtxInv, d

-----------------------------------------------------------------------------
(* A scope is opened: the parts that hold for user scopes as well.         *)
LEMMA PushScopeFacts ==
    ASSUME NEW c, CtxInv(c), c.fqhead = Len(c.formulas)
    PROVE  LET d == PushScope(c)
           IN  /\ d.formulas = c.formulas /\ d.fqhead = c.fqhead /\ d.base = c.base
               /\ d.search = c.search /\ d.qhead = c.qhead /\ d.aux = c.aux /\ d.lemmas = c.lemmas
               /\ d.conflict = c.conflict /\ d.assumptions = c.assumptions /\ d.trail = c.trail
               /\ d \in ContextType
               /\ ScopeLvl(d) = ScopeLvl(c) + 1 /\ ScopeLvl(d) \in Nat
               /\ \A j \in 1 .. ScopeLvl(c) : d.scopes[j] = c.scopes[j]
               /\ d.scopes[ScopeLvl(c) + 1].trail = Len(c.trail)
               /\ d.scopes[ScopeLvl(c) + 1].aux = Len(c.aux)
               /\ d.scopes[ScopeLvl(c) + 1].formulas = Len(c.formulas)
               /\ ScopesOK(d) /\ LevelsOK(d)
<1> DEFINE d == PushScope(c)
           n == ScopeLvl(c)
           s == [trail |-> Len(c.trail), aux |-> Len(c.aux), formulas |-> Len(c.formulas)]
<1>c. c \in ContextType /\ ScopesOK(c) /\ LevelsOK(c)
  BY DEF CtxInv
<1>t. /\ Len(c.trail) \in Nat /\ Len(c.aux) \in Nat /\ Len(c.formulas) \in Nat /\ n \in Nat
      /\ c.scopes \in Seq(Limits) /\ Len(c.scopes) = n /\ c.qhead \in Nat /\ c.search \in Nat
      /\ BaseLvl(c) \in Nat /\ DOMAIN c.trail = 1 .. Len(c.trail)
      /\ \A i \in DOMAIN c.trail : c.trail[i].lvl \in Nat
  BY <1>c, Types, Fields
<1>s. s \in Limits /\ s.trail = Len(c.trail) /\ s.aux = Len(c.aux) /\ s.formulas = Len(c.formulas)
  BY <1>t DEF Limits
<1>d. d = [c EXCEPT !.scopes = Append(c.scopes, s), !.fqhead = Len(c.formulas)]
  BY DEF PushScope
<1> HIDE DEF s, d
<1>u. /\ Append(c.scopes, s) \in Seq(Limits) /\ Len(Append(c.scopes, s)) = n + 1
      /\ Append(c.scopes, s)[n + 1] = s
      /\ \A i \in 1 .. n : Append(c.scopes, s)[i] = c.scopes[i]
  BY <1>s, <1>t, AppendFacts
<1>f. /\ d.formulas = c.formulas /\ d.fqhead = c.fqhead /\ d.base = c.base
      /\ d.search = c.search /\ d.qhead = c.qhead /\ d.aux = c.aux /\ d.lemmas = c.lemmas
      /\ d.conflict = c.conflict /\ d.assumptions = c.assumptions /\ d.trail = c.trail
      /\ d.scopes = Append(c.scopes, s) /\ d \in ContextType
  BY <1>c, <1>d, <1>t, <1>u DEF ContextType
<1>1. /\ ScopeLvl(d) = n + 1 /\ n + 1 \in Nat
      /\ \A j \in 1 .. n : d.scopes[j] = c.scopes[j]
      /\ d.scopes[n + 1].trail = Len(c.trail)
      /\ d.scopes[n + 1].aux = Len(c.aux)
      /\ d.scopes[n + 1].formulas = Len(c.formulas)
  BY <1>f, <1>s, <1>t, <1>u DEF ScopeLvl
<1>2. BaseLvl(d) = BaseLvl(c)
  BY <1>f DEF BaseLvl
<1>3. \A j \in 1 .. (n + 1) : j = n + 1 \/ j \in 1 .. n
  BY <1>t
<1>g. /\ d.formulas = c.formulas /\ d.fqhead = c.fqhead /\ d.base = c.base
      /\ d.search = c.search /\ d.qhead = c.qhead /\ d.aux = c.aux /\ d.lemmas = c.lemmas
      /\ d.trail = c.trail
  BY <1>f
<1>o. \A j \in 1 .. n :
          /\ c.scopes[j].trail \in Nat /\ c.scopes[j].trail <= Len(c.trail)
          /\ c.scopes[j].aux \in Nat /\ c.scopes[j].aux <= Len(c.aux)
          /\ c.scopes[j].formulas \in Nat /\ c.scopes[j].formulas <= Len(c.formulas)
          /\ j > BaseLvl(c) => c.scopes[j].aux = Len(c.aux) /\ c.scopes[j].formulas = Len(c.formulas)
          /\ \A i \in 1 .. j : /\ c.scopes[i].trail <= c.scopes[j].trail
                               /\ c.scopes[i].aux <= c.scopes[j].aux
                               /\ c.scopes[i].formulas <= c.scopes[j].formulas
  BY <1>c, <1>t, Types DEF ScopesOK
<1>4. ScopesOK(d)
  <2>1. ASSUME NEW j \in 1 .. (n + 1)
        PROVE  /\ d.scopes[j].trail <= Len(c.trail)
               /\ d.scopes[j].aux <= Len(c.aux)
               /\ d.scopes[j].formulas <= Len(c.formulas)
               /\ j > BaseLvl(c) => d.scopes[j].aux = Len(c.aux) /\ d.scopes[j].formulas = Len(c.formulas)
               /\ \A i \in 1 .. j : /\ d.scopes[i].trail <= d.scopes[j].trail
                                    /\ d.scopes[i].aux <= d.scopes[j].aux
                                    /\ d.scopes[i].formulas <= d.scopes[j].formulas
    <3>1. CASE j = n + 1
      <4>1. \A i \in 1 .. j : i = n + 1 \/ i \in 1 .. n
        BY <1>3, <3>1
      <4>2. /\ d.scopes[j].trail = Len(c.trail) /\ d.scopes[j].aux = Len(c.aux)
            /\ d.scopes[j].formulas = Len(c.formulas)
        BY <1>1, <3>1
      <4>3. Len(c.trail) <= Len(c.trail) /\ Len(c.aux) <= Len(c.aux) /\ Len(c.formulas) <= Len(c.formulas)
        BY <1>t
      <4>4. \A i \in 1 .. j : /\ d.scopes[i].trail <= Len(c.trail)
                              /\ d.scopes[i].aux <= Len(c.aux)
                              /\ d.scopes[i].formulas <= Len(c.formulas)
        BY <1>o, <1>1, <3>1, <4>1, <4>2, <4>3
      <4> QED
        BY <4>2, <4>3, <4>4
    <3>2. CASE j \in 1 .. n
      <4>1. \A i \in 1 .. j : i \in 1 .. n
        BY <1>t, <3>2
      <4> QED
        BY <1>o, <1>1, <3>2, <4>1
    <3> QED
      BY <1>3, <3>1, <3>2
  <2>2. BaseLvl(c) <= n + 1
    BY <1>c, <1>t DEF ScopesOK
  <2>3. /\ c.search \in BaseLvl(c) .. (BaseLvl(c) + 1)
        /\ c.qhead <= Len(c.trail) /\ c.fqhead <= Len(c.formulas)
        /\ \A j \in 1 .. BaseLvl(c) :
              /\ c.base[j].lemmas <= Len(c.lemmas)
              /\ \A i \in 1 .. j : c.base[i].lemmas <= c.base[j].lemmas
    BY <1>c DEF ScopesOK
  <2> QED
    BY <1>g, <1>1, <1>2, <2>1, <2>2, <2>3 DEF ScopesOK
<1>5. LevelsOK(d)
  <2> SUFFICES ASSUME NEW i \in DOMAIN c.trail
               PROVE  /\ c.trail[i].lvl <= n + 1
                      /\ \A j \in 1 .. (n + 1) : i <= d.scopes[j].trail <=> c.trail[i].lvl < j
    BY <1>g, <1>1 DEF LevelsOK
  <2>1. /\ c.trail[i].lvl <= n
        /\ \A j \in 1 .. n : i <= c.scopes[j].trail <=> c.trail[i].lvl < j
    BY <1>c DEF LevelsOK
  <2>2. i <= Len(c.trail) /\ c.trail[i].lvl < n + 1 /\ c.trail[i].lvl <= n + 1
    BY <1>t, <2>1
  <2> QED
    BY <1>1, <1>3, <2>1, <2>2
<1> QED
  BY <1>f, <1>1, <1>4, <1>5 DEF d

(* A decision or the assumptions get a scope: everything is propagated.    *)
LEMMA PushScopeKeeps ==
    ASSUME NEW c, CtxInv(c), ~Inconsistent(c), c.qhead = Len(c.trail), c.fqhead = Len(c.formulas)
    PROVE  LET d == PushScope(c)
           IN  /\ CtxInv(d)
               /\ \A w : WatchOK(c, w, FALSE) => WatchOK(d, w, FALSE)
<1> DEFINE d == PushScope(c)
<1>c. /\ c \in ContextType /\ ScopesOK(c) /\ LevelsOK(c) /\ TrailOK(c) /\ ClausesOK(c) /\ SoundOK(c)
      /\ JustifiedOK(c) /\ ConflictOK(c) /\ RepresentedOK(c) /\ QueueOK(c)
  BY DEF CtxInv
<1>f. /\ d.formulas = c.formulas /\ d.fqhead = c.fqhead /\ d.base = c.base
      /\ d.search = c.search /\ d.qhead = c.qhead /\ d.aux = c.aux /\ d.lemmas = c.lemmas
      /\ d.conflict = c.conflict /\ d.assumptions = c.assumptions /\ d.trail = c.trail
      /\ d \in ContextType
      /\ \A j \in 1 .. ScopeLvl(c) : d.scopes[j] = c.scopes[j]
      /\ ScopesOK(d) /\ LevelsOK(d)
  BY PushScopeFacts
<1>i. ~Inconsistent(d) /\ BaseLvl(d) = BaseLvl(c) /\ BaseLvl(c) \in Nat /\ BaseLvl(c) <= ScopeLvl(c)
      /\ ScopeLvl(c) \in Nat
  BY <1>c, <1>f, Types DEF Inconsistent, BaseLvl, ScopesOK
<1> HIDE DEF d
<1>s. ASSUME NEW k \in 0 .. BaseLvl(c)
      PROVE  /\ ModelsAt(d, k) = ModelsAt(c, k) /\ AuxLimAt(d, k) = AuxLimAt(c, k)
             /\ LemmasLimAt(d, k) = LemmasLimAt(c, k) /\ InternalizedAt(d, k) = InternalizedAt(c, k)
             /\ FormulasLimAt(d, k) = FormulasLimAt(c, k)
  <2>1. k < BaseLvl(c) => d.scopes[k + 1] = c.scopes[k + 1]
    <3>1. k < BaseLvl(c) => k + 1 \in 1 .. ScopeLvl(c)
      BY <1>i
    <3> QED
      BY <1>f, <3>1
  <2>2. FormulasLimAt(d, k) = FormulasLimAt(c, k)
    BY <1>f, <1>i, <2>1 DEF FormulasLimAt
  <2> QED
    BY <1>f, <1>i, <2>1, <2>2 DEF AuxLimAt, LemmasLimAt, InternalizedAt, ModelsAt
<1>b. BaseLvl(c) \in 0 .. BaseLvl(c)
  BY <1>i
<1>1. TrailOK(d)
  BY <1>c, <1>f, <1>i DEF TrailOK
<1>2. ClausesOK(d)
  BY <1>c, <1>f, <1>i, <1>s DEF ClausesOK
<1>3. SoundOK(d) /\ JustifiedOK(d)
  BY <1>b, <1>c, <1>f, <1>i, <1>s DEF SoundOK, JustifiedOK
<1>4. ConflictOK(d)
  <2>1. \A k \in 0 .. (BaseLvl(c) - 1) : ~c.base[k + 1].inconsistent
    BY <1>c DEF ConflictOK
  <2> QED
    BY <1>f, <1>i, <2>1 DEF ConflictOK
<1>d. \A k \in 0 .. BaseLvl(c) : ~Dirty(c, k)
  <2>1. \A k \in 0 .. (BaseLvl(c) - 1) : ~c.base[k + 1].inconsistent
    BY <1>c DEF ConflictOK
  <2>2. \A k \in 0 .. BaseLvl(c) : k < BaseLvl(c) => k \in 0 .. (BaseLvl(c) - 1)
    BY <1>i
  <2> QED
    BY <2>1, <2>2 DEF Dirty
<1>5. RepresentedOK(d)
  <2>1. \A k \in 0 .. BaseLvl(c) : \A m : HoldsAt(d, k, m) = HoldsAt(c, k, m)
    BY <1>f, <1>s DEF HoldsAt
  <2> QED
    BY <1>c, <1>d, <1>f, <1>i, <1>s, <2>1 DEF RepresentedOK
<1>6. QueueOK(d)
  BY <1>c, <1>f, Types DEF QueueOK
<1>7. \A w : WatchOK(c, w, FALSE) => WatchOK(d, w, FALSE)
  <2>1. \A p \in DOMAIN c.trail : Passed(c, p)
    BY <1>c, Types DEF Passed
  <2>2. \A p \in DOMAIN c.trail : ~Dirty(c, c.trail[p].lvl)
    <3>1. \A k \in 0 .. (BaseLvl(c) - 1) : ~c.base[k + 1].inconsistent
      BY <1>c DEF ConflictOK
    <3>2. \A p \in DOMAIN c.trail : c.trail[p].lvl \in Nat
      BY <1>c, Types
    <3>3. \A p \in DOMAIN c.trail : c.trail[p].lvl < BaseLvl(c) => c.trail[p].lvl \in 0 .. (BaseLvl(c) - 1)
      BY <1>i, <3>2
    <3> QED
      BY <3>1, <3>3 DEF Dirty
  <2> QED
    BY <1>f, <2>1, <2>2 DEF WatchOK
<1> QED
  BY <1>f, <1>1, <1>2, <1>3, <1>4, <1>5, <1>6, <1>7 DEF CtxInv, d

(* The client opens a scope.                                               *)
UserPush(c) ==
    [PushScope(c) EXCEPT
        !.base = Append(@, [lemmas |-> Len(c.lemmas), inconsistent |-> Inconsistent(c)]),
        !.search = @ + 1]

LEMMA UserPushKeeps ==
    ASSUME NEW c, CtxInv(c), ScopeLvl(c) = BaseLvl(c), c.fqhead = Len(c.formulas),
           ~Inconsistent(c) => c.qhead = Len(c.trail)
    PROVE  LET d == UserPush(c)
           IN  /\ CtxInv(d)
               /\ \A w : WatchOK(c, w, FALSE) => WatchOK(d, w, FALSE)
               /\ d.formulas = c.formulas /\ d.aux = c.aux /\ d.lemmas = c.lemmas
               /\ BaseLvl(d) = BaseLvl(c) + 1
               /\ \A k \in 0 .. BaseLvl(c) : FormulasLimAt(d, k) = FormulasLimAt(c, k)
<1> DEFINE p == PushScope(c)
           b == [lemmas |-> Len(c.lemmas), inconsistent |-> Inconsistent(c)]
           d == [p EXCEPT !.base = Append(@, b), !.search = @ + 1]
           B == BaseLvl(c)
<1>c. /\ c \in ContextType /\ ScopesOK(c) /\ LevelsOK(c) /\ TrailOK(c) /\ ClausesOK(c) /\ SoundOK(c)
      /\ JustifiedOK(c) /\ ConflictOK(c) /\ RepresentedOK(c) /\ QueueOK(c)
  BY DEF CtxInv
<1>p. /\ p.formulas = c.formulas /\ p.fqhead = c.fqhead /\ p.base = c.base
      /\ p.search = c.search /\ p.qhead = c.qhead /\ p.aux = c.aux /\ p.lemmas = c.lemmas
      /\ p.conflict = c.conflict /\ p.assumptions = c.assumptions /\ p.trail = c.trail
      /\ p \in ContextType
      /\ ScopeLvl(p) = B + 1
      /\ \A j \in 1 .. B : p.scopes[j] = c.scopes[j]
      /\ p.scopes[B + 1].trail = Len(c.trail)
      /\ p.scopes[B + 1].aux = Len(c.aux)
      /\ p.scopes[B + 1].formulas = Len(c.formulas)
      /\ ScopesOK(p) /\ LevelsOK(p)
  BY PushScopeFacts
<1> HIDE DEF p
<1>t. /\ B \in Nat /\ c.base \in Seq(BaseLimits) /\ Len(c.base) = B /\ Len(c.lemmas) \in Nat
      /\ Len(c.formulas) \in Nat /\ Len(c.aux) \in Nat
      /\ c.search \in Nat /\ B <= c.search
      /\ \A i \in DOMAIN c.trail : c.trail[i].lvl \in Nat /\ c.trail[i].lvl <= B
  BY <1>c, Types, Fields, SMTT(30) DEF ScopesOK, LevelsOK
<1>b. b \in BaseLimits /\ b.lemmas = Len(c.lemmas) /\ b.inconsistent = Inconsistent(c)
  BY <1>t DEF BaseLimits, Inconsistent
<1> HIDE DEF b
<1>u. /\ Append(c.base, b) \in Seq(BaseLimits) /\ Len(Append(c.base, b)) = B + 1
      /\ Append(c.base, b)[B + 1] = b /\ \A i \in 1 .. B : Append(c.base, b)[i] = c.base[i]
  BY <1>b, <1>t, AppendFacts
<1>f. /\ d.formulas = c.formulas /\ d.fqhead = c.fqhead /\ d.base = Append(c.base, b)
      /\ d.search = c.search + 1 /\ d.qhead = c.qhead /\ d.aux = c.aux /\ d.lemmas = c.lemmas
      /\ d.conflict = c.conflict /\ d.assumptions = c.assumptions /\ d.trail = c.trail
      /\ d.scopes = p.scopes
      /\ d \in ContextType
  <2>1. c.search + 1 \in Nat
    BY <1>t
  <2> QED
    BY <1>p, <1>u, <2>1 DEF ContextType
<1>g. /\ BaseLvl(d) = B + 1 /\ B + 1 \in Nat /\ ScopeLvl(d) = B + 1
      /\ d.base[B + 1].lemmas = Len(c.lemmas) /\ d.base[B + 1].inconsistent = Inconsistent(c)
      /\ \A j \in 1 .. B : d.base[j] = c.base[j] /\ d.scopes[j] = c.scopes[j]
      /\ d.scopes[B + 1].trail = Len(c.trail)
      /\ d.scopes[B + 1].aux = Len(c.aux)
      /\ d.scopes[B + 1].formulas = Len(c.formulas)
  BY <1>b, <1>f, <1>p, <1>t, <1>u DEF BaseLvl, ScopeLvl
<1>h. /\ d.formulas = c.formulas /\ d.fqhead = c.fqhead
      /\ d.search = c.search + 1 /\ d.qhead = c.qhead /\ d.aux = c.aux /\ d.lemmas = c.lemmas
      /\ d.conflict = c.conflict /\ d.assumptions = c.assumptions /\ d.trail = c.trail
      /\ Inconsistent(d) = Inconsistent(c)
  BY <1>f DEF Inconsistent
<1>n. \A j \in 1 .. (B + 1) : j = B + 1 \/ j \in 1 .. B
  BY <1>t
<1>k. \A k \in 0 .. (B + 1) : k = B + 1 \/ k \in 0 .. B
  BY <1>t
<1> HIDE DEF d, B
<1>s. \A k \in 0 .. B :
             /\ ModelsAt(d, k) = ModelsAt(c, k) /\ AuxLimAt(d, k) = AuxLimAt(c, k)
             /\ LemmasLimAt(d, k) = LemmasLimAt(c, k) /\ InternalizedAt(d, k) = InternalizedAt(c, k)
             /\ FormulasLimAt(d, k) = FormulasLimAt(c, k)
             /\ Dirty(d, k) = Dirty(c, k)
  <2> TAKE k \in 0 .. B
  <2>1. k # B => d.scopes[k + 1] = c.scopes[k + 1] /\ d.base[k + 1] = c.base[k + 1] /\ k < B /\ k < B + 1
    <3>1. k # B => k + 1 \in 1 .. B /\ k < B /\ k < B + 1
      BY <1>t
    <3> QED
      BY <1>g, <3>1
  <2>2. k = B => ~(k < B) /\ k < B + 1
    BY <1>t
  <2>3. FormulasLimAt(d, k) = FormulasLimAt(c, k)
    BY <1>g, <2>1, <2>2 DEF FormulasLimAt, B
  <2>4. AuxLimAt(d, k) = AuxLimAt(c, k) /\ LemmasLimAt(d, k) = LemmasLimAt(c, k)
    BY <1>g, <2>1, <2>2 DEF AuxLimAt, LemmasLimAt, B
  <2>5. Dirty(d, k) = Dirty(c, k)
    <3>1. CASE k = B
      <4>1. Dirty(d, k) = d.base[B + 1].inconsistent
        BY <1>g, <2>2, <3>1 DEF Dirty
      <4>2. Dirty(c, k) = (Inconsistent(c) /\ ScopeLvl(c) = B)
        BY <2>2, <3>1 DEF Dirty, B
      <4>3. Inconsistent(c) = (Inconsistent(c) /\ ScopeLvl(c) = B)
        BY DEF Inconsistent, B
      <4> QED
        BY <1>g, <4>1, <4>2, <4>3
    <3>2. CASE k # B
      BY <1>g, <2>1, <3>2 DEF Dirty, B
    <3> QED
      BY <3>1, <3>2
  <2> QED
    BY <1>h, <2>3, <2>4, <2>5 DEF InternalizedAt, ModelsAt
<1>e. /\ ModelsAt(d, B + 1) = ModelsAt(c, B) /\ AuxLimAt(d, B + 1) = AuxLimAt(c, B)
      /\ LemmasLimAt(d, B + 1) = LemmasLimAt(c, B) /\ InternalizedAt(d, B + 1) = InternalizedAt(c, B)
      /\ FormulasLimAt(d, B + 1) = FormulasLimAt(c, B)
      /\ Dirty(d, B + 1) = Dirty(c, B)
  <2>1. ~(B < B) /\ ~(B + 1 < B + 1)
    BY <1>t
  <2>2. FormulasLimAt(d, B + 1) = FormulasLimAt(c, B)
    BY <1>g, <1>h, <2>1 DEF FormulasLimAt, B
  <2>3. Dirty(d, B + 1) = Dirty(c, B)
    BY <1>g, <1>h, <2>1 DEF Dirty, B
  <2> QED
    BY <1>g, <1>h, <2>1, <2>2, <2>3 DEF AuxLimAt, LemmasLimAt, InternalizedAt, ModelsAt, B
<1>bb. B \in 0 .. B
  BY <1>t
<1>1. ScopesOK(d)
  <2>1. c.search + 1 \in (B + 1) .. (B + 1 + 1)
    BY <1>c, <1>t DEF ScopesOK, B
  <2>2. \A j \in 1 .. (B + 1) : /\ d.base[j].lemmas <= Len(c.lemmas)
                                /\ \A i \in 1 .. j : d.base[i].lemmas <= d.base[j].lemmas
    <3>1. \A j \in 1 .. B : /\ c.base[j].lemmas <= Len(c.lemmas)
                            /\ \A i \in 1 .. j : c.base[i].lemmas <= c.base[j].lemmas
      BY <1>c DEF ScopesOK, B
    <3>2. \A j \in 1 .. (B + 1) : d.base[j].lemmas <= Len(c.lemmas)
      <4>1. Len(c.lemmas) <= Len(c.lemmas)
        BY <1>t
      <4> QED
        BY <1>g, <1>n, <3>1, <4>1
    <3>3. \A j \in 1 .. B : \A i \in 1 .. j : i \in 1 .. B
      BY <1>t
    <3>4. \A j \in 1 .. B : \A i \in 1 .. j : d.base[i].lemmas <= d.base[j].lemmas
      BY <1>g, <3>1, <3>3
    <3>5. \A i \in 1 .. (B + 1) : d.base[i].lemmas <= d.base[B + 1].lemmas
      BY <1>g, <3>2
    <3> QED
      BY <1>n, <3>2, <3>4, <3>5
  <2>3. /\ B + 1 <= B + 1
        /\ \A j \in 1 .. (B + 1) : ~(j > B + 1)
    BY <1>t
  <2>4. /\ c.qhead <= Len(c.trail) /\ c.fqhead <= Len(c.formulas)
        /\ \A j \in 1 .. (B + 1) :
            /\ p.scopes[j].trail <= Len(c.trail)
            /\ p.scopes[j].aux <= Len(c.aux)
            /\ p.scopes[j].formulas <= c.fqhead
            /\ \A i \in 1 .. j : /\ p.scopes[i].trail <= p.scopes[j].trail
                                 /\ p.scopes[i].aux <= p.scopes[j].aux
                                 /\ p.scopes[i].formulas <= p.scopes[j].formulas
    BY <1>p DEF ScopesOK, B
  <2>5. d.scopes = p.scopes
    BY <1>f
  <2> QED
    BY <1>g, <1>h, <2>1, <2>2, <2>3, <2>4, <2>5 DEF ScopesOK
<1>2. LevelsOK(d)
  <2>1. d.scopes = p.scopes /\ p.trail = c.trail /\ ScopeLvl(p) = B + 1
    BY <1>f, <1>p DEF B
  <2> QED
    BY <1>g, <1>h, <1>p, <2>1 DEF LevelsOK
<1>3. TrailOK(d)
  <2>1. AntecedentOfLevel(c.trail, B + 1) /\ DecisionsFirst(c.trail, c.search + 1)
    BY <1>t DEF AntecedentOfLevel, DecisionsFirst
  <2> QED
    BY <1>c, <1>g, <1>h, <2>1 DEF TrailOK
<1>4. ClausesOK(d)
  <2>1. \A k \in 0 .. (B + 1) : \A i \in 1 .. AuxLimAt(d, k) :
          /\ \A a \in c.aux[i].just : \E j \in DOMAIN c.trail : c.trail[j].lit = a /\ c.trail[j].lvl <= k
          /\ \E j \in 1 .. FormulasLimAt(d, k) : c.aux[i].lits \subseteq c.formulas[j]
    <3> TAKE k \in 0 .. (B + 1)
    <3>1. CASE k \in 0 .. B
      BY <1>c, <1>s, <3>1 DEF ClausesOK, B
    <3>2. CASE k = B + 1
      <4>1. \A i \in DOMAIN c.trail : c.trail[i].lvl <= k
        BY <1>t, <3>2
      <4>2. \A i \in 1 .. AuxLimAt(c, B) :
              /\ \A a \in c.aux[i].just : \E j \in DOMAIN c.trail : c.trail[j].lit = a
              /\ \E j \in 1 .. FormulasLimAt(c, B) : c.aux[i].lits \subseteq c.formulas[j]
        BY <1>bb, <1>c DEF ClausesOK, B
      <4> QED
        BY <1>e, <3>2, <4>1, <4>2
    <3> QED
      BY <1>k, <3>1, <3>2
  <2>2. /\ \A i \in DOMAIN c.aux : WatchesTwo(c.aux[i])
        /\ \A i \in DOMAIN c.lemmas : WatchesTwo(c.lemmas[i]) /\ c.lemmas[i].just = {}
    BY <1>c DEF ClausesOK
  <2> QED
    BY <1>g, <1>h, <2>1, <2>2 DEF ClausesOK
<1>5. SoundOK(d)
  <2> SUFFICES ASSUME NEW k \in 0 .. (B + 1)
               PROVE  /\ BaseImplied(c.trail, k, ModelsAt(d, k))
                      /\ \A i \in 1 .. AuxLimAt(d, k) : Implied(c.aux[i].lits, ModelsAt(d, k))
                      /\ \A i \in 1 .. LemmasLimAt(d, k) : Implied(c.lemmas[i].lits, ModelsAt(d, k))
    BY <1>g, <1>h DEF SoundOK
  <2>1. CASE k \in 0 .. B
    BY <1>c, <1>s, <2>1 DEF SoundOK, B
  <2>2. CASE k = B + 1
    BY <1>bb, <1>c, <1>e, <1>t, <2>2 DEF SoundOK, BaseImplied, B
  <2> QED
    BY <1>k, <2>1, <2>2
<1>6. JustifiedOK(d)
  <2>1. UnitsImplied(c.trail, c.search + 1, c.assumptions, ModelsAt(c, B))
    <3>1. \A i \in DOMAIN c.trail : c.trail[i].lvl <= c.search
      BY <1>t
    <3> QED
      BY <1>c, <3>1 DEF JustifiedOK, UnitsImplied, B
  <2> QED
    BY <1>c, <1>e, <1>g, <1>h, <2>1 DEF JustifiedOK, B
<1>7. ConflictOK(d)
  <2>0. ~(ScopeLvl(c) > B)
    BY <1>t DEF B
  <2>1. Inconsistent(c) =>
          /\ c.conflict \in SUBSET Literals
          /\ \A l \in c.conflict : False(c.trail, l)
          /\ Implied(c.conflict, ModelsAt(c, B))
    BY <1>c, <2>0 DEF ConflictOK, B
  <2>2. ASSUME NEW k \in 0 .. B, d.base[k + 1].inconsistent
        PROVE  /\ Inconsistent(c)
               /\ \A j \in k .. B : d.base[j + 1].inconsistent
               /\ \A l \in c.conflict : \E i \in DOMAIN c.trail : c.trail[i].lit = -l /\ c.trail[i].lvl <= k
               /\ Implied(c.conflict, ModelsAt(c, k))
    <3>1. CASE k = B
      <4>1. Inconsistent(c)
        BY <1>g, <2>2, <3>1
      <4>2. \A j \in k .. B : j = B
        BY <1>t, <3>1
      <4> QED
        BY <1>g, <1>t, <2>1, <3>1, <4>1, <4>2 DEF False, True
    <3>2. CASE k # B
      <4>1. k \in 0 .. (B - 1) /\ k + 1 \in 1 .. B
        BY <1>t, <3>2
      <4>2. c.base[k + 1].inconsistent
        BY <1>g, <2>2, <4>1
      <4>3. /\ Inconsistent(c)
            /\ \A j \in k .. (B - 1) : c.base[j + 1].inconsistent
            /\ \A l \in c.conflict : \E i \in DOMAIN c.trail : c.trail[i].lit = -l /\ c.trail[i].lvl <= k
            /\ Implied(c.conflict, ModelsAt(c, k))
        BY <1>c, <4>1, <4>2 DEF ConflictOK, B
      <4>4. \A j \in k .. B : j = B \/ (j \in k .. (B - 1) /\ j + 1 \in 1 .. B)
        BY <1>t
      <4>5. \A j \in k .. B : d.base[j + 1].inconsistent
        BY <1>g, <4>3, <4>4
      <4> QED
        BY <4>3, <4>5
    <3> QED
      BY <3>1, <3>2
  <2>3. BaseLvl(d) - 1 = B /\ BaseLvl(d) = B + 1
    BY <1>g, <1>t
  <2>4. \A k \in 0 .. B : d.base[k + 1].inconsistent =>
          /\ Inconsistent(d)
          /\ ScopeLvl(d) = BaseLvl(d)
          /\ \A j \in k .. B : d.base[j + 1].inconsistent
          /\ \A l \in d.conflict : \E i \in DOMAIN d.trail : d.trail[i].lit = -l /\ d.trail[i].lvl <= k
          /\ Implied(d.conflict, ModelsAt(d, k))
    BY <1>g, <1>h, <1>s, <2>2
  <2>5. Inconsistent(d) =>
          /\ d.conflict \in SUBSET Literals
          /\ \A l \in d.conflict : False(d.trail, l)
          /\ Implied(d.conflict, ModelsAt(d, BaseLvl(d)))
    BY <1>e, <1>h, <2>1, <2>3
  <2> QED
    BY <2>3, <2>4, <2>5 DEF ConflictOK
<1>8. RepresentedOK(d)
  <2> SUFFICES ASSUME NEW k \in 0 .. (B + 1), ~Dirty(d, k), NEW m \in Valuations, HoldsAt(d, k, m)
               PROVE  \A i \in 1 .. InternalizedAt(d, k) : c.formulas[i] \cap m # {}
    BY <1>g, <1>h DEF RepresentedOK
  <2>1. CASE k \in 0 .. B
    <3>1. HoldsAt(c, k, m) /\ ~Dirty(c, k)
      BY <1>h, <1>s, <2>1 DEF HoldsAt
    <3> QED
      BY <1>c, <1>s, <2>1, <3>1 DEF RepresentedOK, B
  <2>2. CASE k = B + 1
    <3>1. \A i \in DOMAIN c.trail : c.trail[i].lvl <= k
      BY <1>t, <2>2
    <3>2. HoldsAt(c, B, m) /\ ~Dirty(c, B)
      BY <1>e, <1>h, <2>2, <3>1 DEF HoldsAt
    <3> QED
      BY <1>bb, <1>c, <1>e, <2>2, <3>2 DEF RepresentedOK, B
  <2> QED
    BY <1>k, <2>1, <2>2
<1>9. QueueOK(d)
  BY <1>c, <1>h, Types DEF QueueOK
<1>10. \A w : WatchOK(c, w, FALSE) => WatchOK(d, w, FALSE)
  <2> SUFFICES ASSUME NEW w, WatchOK(c, w, FALSE), NEW a \in w.watch, NEW q \in DOMAIN c.trail,
                      c.trail[q].lit = -a, ~Dirty(d, c.trail[q].lvl)
               PROVE  \E x \in w.watch : \E y \in DOMAIN c.trail :
                          c.trail[y].lit = x /\ c.trail[y].lvl <= c.trail[q].lvl
    BY <1>h DEF WatchOK
  <2>1. c.trail[q].lvl \in 0 .. B
    BY <1>t
  <2>2. ~Dirty(c, c.trail[q].lvl)
    BY <1>s, <2>1
  <2>3. Passed(c, q)
    <3>1. CASE Inconsistent(c)
      <4>1. c.trail[q].lvl # B
        BY <1>t, <2>2, <3>1 DEF Dirty, B
      <4> QED
        BY <1>t, <2>1, <4>1 DEF Passed, B
    <3>2. CASE ~Inconsistent(c)
      BY <1>c, <3>2, Types DEF Passed
    <3> QED
      BY <3>1, <3>2
  <2> QED
    BY <2>2, <2>3 DEF WatchOK
<1>11. CtxInv(d)
  BY <1>f, <1>1, <1>2, <1>3, <1>4, <1>5, <1>6, <1>7, <1>8, <1>9 DEF CtxInv
<1> QED
  BY <1>h, <1>g, <1>s, <1>10, <1>11 DEF UserPush, d, p, b, B

-----------------------------------------------------------------------------
(* Scopes are closed: what is left of each sequence.                       *)
PopLimits(c, d, lvl) ==
    LET s == c.scopes[lvl + 1]
        user == lvl < BaseLvl(c)
    IN  /\ Len(d.scopes) = lvl /\ Len(d.trail) = s.trail /\ Len(d.aux) = s.aux
        /\ Len(d.formulas) = s.formulas /\ d.fqhead = s.formulas /\ d.qhead = s.trail
        /\ Len(d.lemmas) = (IF user THEN c.base[lvl + 1].lemmas ELSE Len(c.lemmas))
        /\ Len(d.base) = (IF user THEN lvl ELSE BaseLvl(c))
        /\ d.search = (IF user THEN lvl ELSE c.search)
        /\ d.conflict = (IF user /\ c.base[lvl + 1].inconsistent THEN c.conflict ELSE NoConflict)
        /\ d.assumptions = c.assumptions

(* What is left is what was there.                                         *)
Prefix(s, t) == Len(s) <= Len(t) /\ \A i \in 1 .. Len(s) : s[i] = t[i]

PopPrefixes(c, d) ==
    /\ Prefix(d.scopes, c.scopes) /\ Prefix(d.trail, c.trail) /\ Prefix(d.aux, c.aux)
    /\ Prefix(d.formulas, c.formulas) /\ Prefix(d.lemmas, c.lemmas) /\ Prefix(d.base, c.base)

LEMMA PrefixSelf ==
    ASSUME NEW S, NEW s \in Seq(S)
    PROVE  Prefix(s, s)
BY DEF Prefix

LEMMA PrefixSubSeq ==
    ASSUME NEW S, NEW s \in Seq(S), NEW n \in Nat, n <= Len(s)
    PROVE  Prefix(SubSeq(s, 1, n), s) /\ SubSeq(s, 1, n) \in Seq(S) /\ Len(SubSeq(s, 1, n)) = n
<1>1. n \in 0 .. Len(s)
  OBVIOUS
<1> QED
  BY <1>1, PrefixFacts DEF Prefix

LEMMA PopToFacts ==
    ASSUME NEW c, CtxInv(c), NEW lvl \in 0 .. (ScopeLvl(c) - 1)
    PROVE  LET d == PopTo(c, lvl)
           IN  d \in ContextType /\ PopLimits(c, d, lvl) /\ PopPrefixes(c, d)
<1> DEFINE d == PopTo(c, lvl)
           s == c.scopes[lvl + 1]
           user == lvl < BaseLvl(c)
           m == c.base[lvl + 1].lemmas
<1>c. c \in ContextType /\ ScopesOK(c)
  BY DEF CtxInv
<1>t. /\ ScopeLvl(c) \in Nat /\ BaseLvl(c) \in Nat /\ Len(c.scopes) = ScopeLvl(c)
      /\ Len(c.base) = BaseLvl(c)
  BY <1>c, Types
<1>l. lvl \in Nat /\ lvl + 1 \in 1 .. ScopeLvl(c) /\ lvl # ScopeLvl(c) /\ lvl <= Len(c.scopes)
  BY <1>t
<1>s. /\ s.trail \in Nat /\ s.trail <= Len(c.trail)
      /\ s.aux \in Nat /\ s.aux <= Len(c.aux)
      /\ s.formulas \in Nat /\ s.formulas <= Len(c.formulas)
  <2>1. /\ s.trail \in Nat /\ s.aux \in Nat /\ s.formulas \in Nat
        /\ s.trail <= Len(c.trail) /\ s.aux <= Len(c.aux)
        /\ s.formulas <= c.fqhead /\ c.fqhead <= Len(c.formulas)
        /\ c.fqhead \in Nat /\ Len(c.formulas) \in Nat
    BY <1>c, <1>l, <1>t, Types DEF ScopesOK
  <2> QED
    BY <2>1
<1>m. user => m \in Nat /\ m <= Len(c.lemmas) /\ lvl <= Len(c.base)
  <2>1. user => lvl + 1 \in 1 .. BaseLvl(c) /\ lvl <= Len(c.base)
    BY <1>l, <1>t
  <2> QED
    BY <1>c, <1>t, <2>1, Types DEF ScopesOK
<1>q. /\ c.scopes \in Seq(Limits) /\ c.trail \in Seq(Entries) /\ c.aux \in Seq(Watched)
      /\ c.formulas \in Seq(Clauses) /\ c.lemmas \in Seq(Watched) /\ c.base \in Seq(BaseLimits)
  BY <1>c, Fields
<1> DEFINE lemmas == IF user THEN SubSeq(c.lemmas, 1, m) ELSE c.lemmas
           base == IF user THEN SubSeq(c.base, 1, lvl) ELSE c.base
           conflict == IF user /\ c.base[lvl + 1].inconsistent THEN c.conflict ELSE NoConflict
           search == IF user THEN lvl ELSE c.search
<1>1. /\ Prefix(SubSeq(c.scopes, 1, lvl), c.scopes) /\ SubSeq(c.scopes, 1, lvl) \in Seq(Limits)
      /\ Len(SubSeq(c.scopes, 1, lvl)) = lvl
  BY <1>l, <1>q, PrefixSubSeq
<1>2. /\ Prefix(SubSeq(c.trail, 1, s.trail), c.trail) /\ SubSeq(c.trail, 1, s.trail) \in Seq(Entries)
      /\ Len(SubSeq(c.trail, 1, s.trail)) = s.trail
  <2> HIDE DEF s
  <2> QED
    BY <1>s, <1>q, PrefixSubSeq
<1>3. /\ Prefix(SubSeq(c.aux, 1, s.aux), c.aux) /\ SubSeq(c.aux, 1, s.aux) \in Seq(Watched)
      /\ Len(SubSeq(c.aux, 1, s.aux)) = s.aux
  <2> HIDE DEF s
  <2> QED
    BY <1>s, <1>q, PrefixSubSeq
<1>4. /\ Prefix(SubSeq(c.formulas, 1, s.formulas), c.formulas)
      /\ SubSeq(c.formulas, 1, s.formulas) \in Seq(Clauses)
      /\ Len(SubSeq(c.formulas, 1, s.formulas)) = s.formulas
  <2> HIDE DEF s
  <2> QED
    BY <1>s, <1>q, PrefixSubSeq
<1>5. /\ Prefix(lemmas, c.lemmas) /\ lemmas \in Seq(Watched)
      /\ Len(lemmas) = IF user THEN m ELSE Len(c.lemmas)
  <2>1. CASE user
    <3>1. /\ Prefix(SubSeq(c.lemmas, 1, m), c.lemmas) /\ SubSeq(c.lemmas, 1, m) \in Seq(Watched)
          /\ Len(SubSeq(c.lemmas, 1, m)) = m
      <4>1. m \in Nat /\ m <= Len(c.lemmas) /\ c.lemmas \in Seq(Watched)
        BY <1>m, <1>q, <2>1
      <4> HIDE DEF m, user
      <4> QED
        BY <4>1, PrefixSubSeq
    <3> QED
      BY <2>1, <3>1
  <2>2. CASE ~user
    BY <1>q, <2>2, PrefixSelf
  <2> QED
    BY <2>1, <2>2
<1>6. /\ Prefix(base, c.base) /\ base \in Seq(BaseLimits)
      /\ Len(base) = IF user THEN lvl ELSE BaseLvl(c)
  <2>1. CASE user
    <3>1. /\ Prefix(SubSeq(c.base, 1, lvl), c.base) /\ SubSeq(c.base, 1, lvl) \in Seq(BaseLimits)
          /\ Len(SubSeq(c.base, 1, lvl)) = lvl
      BY <1>l, <1>m, <1>q, <2>1, PrefixSubSeq
    <3> QED
      BY <2>1, <3>1
  <2>2. CASE ~user
    BY <1>q, <1>t, <2>2, PrefixSelf
  <2> QED
    BY <2>1, <2>2
<1>7. conflict \in Clauses \cup {NoConflict} /\ search \in Nat
  BY <1>c, <1>l, Fields
<1>8. d = [c EXCEPT !.lemmas = lemmas, !.conflict = conflict, !.base = base, !.search = search,
                    !.aux = SubSeq(c.aux, 1, s.aux), !.trail = SubSeq(c.trail, 1, s.trail),
                    !.qhead = s.trail, !.formulas = SubSeq(c.formulas, 1, s.formulas),
                    !.fqhead = s.formulas, !.scopes = SubSeq(c.scopes, 1, lvl)]
  BY <1>c, <1>l DEF PopTo, ContextType
<1> HIDE DEF lemmas, conflict, base, search, d, s, m, user
<1>9. /\ d \in ContextType
      /\ d.lemmas = lemmas /\ d.conflict = conflict /\ d.base = base /\ d.search = search
      /\ d.aux = SubSeq(c.aux, 1, s.aux) /\ d.trail = SubSeq(c.trail, 1, s.trail)
      /\ d.qhead = s.trail /\ d.formulas = SubSeq(c.formulas, 1, s.formulas)
      /\ d.fqhead = s.formulas /\ d.scopes = SubSeq(c.scopes, 1, lvl)
      /\ d.assumptions = c.assumptions
  <2> DEFINE aux1 == SubSeq(c.aux, 1, s.aux)
             trail1 == SubSeq(c.trail, 1, s.trail)
             formulas1 == SubSeq(c.formulas, 1, s.formulas)
             scopes1 == SubSeq(c.scopes, 1, lvl)
  <2>1. aux1 \in Seq(Watched) /\ trail1 \in Seq(Entries) /\ formulas1 \in Seq(Clauses) /\ scopes1 \in Seq(Limits)
    BY <1>1, <1>2, <1>3, <1>4
  <2>2. d = [c EXCEPT !.lemmas = lemmas, !.conflict = conflict, !.base = base, !.search = search,
                    !.aux = aux1, !.trail = trail1,
                    !.qhead = s.trail, !.formulas = formulas1,
                    !.fqhead = s.formulas, !.scopes = scopes1]
    BY <1>8
  <2> HIDE DEF aux1, trail1, formulas1, scopes1
  <2>3. /\ d \in ContextType
        /\ d.lemmas = lemmas /\ d.conflict = conflict /\ d.base = base /\ d.search = search
        /\ d.aux = aux1 /\ d.trail = trail1
        /\ d.qhead = s.trail /\ d.formulas = formulas1
        /\ d.fqhead = s.formulas /\ d.scopes = scopes1
        /\ d.assumptions = c.assumptions
    BY <1>c, <1>s, <1>5, <1>6, <1>7, <2>1, <2>2 DEF ContextType
  <2> QED
    BY <2>3 DEF aux1, trail1, formulas1, scopes1
<1>10. PopLimits(c, d, lvl)
  BY <1>1, <1>2, <1>3, <1>4, <1>5, <1>6, <1>9 DEF PopLimits, conflict, search, s, m, user
<1>11. PopPrefixes(c, d)
  BY <1>1, <1>2, <1>3, <1>4, <1>5, <1>6, <1>9 DEF PopPrefixes
<1> QED
  BY <1>9, <1>10, <1>11 DEF d

(* A scope that is closed leaves the literals of lower levels, and what    *)
(* belongs to the lower base levels.                                       *)
Popped(c, d, lvl) ==
    /\ CtxInv(d)
    /\ \A w : WatchOK(c, w, FALSE) => WatchOK(d, w, FALSE)
    /\ ScopeLvl(d) = lvl
    /\ BaseLvl(d) = (IF lvl < BaseLvl(c) THEN lvl ELSE BaseLvl(c))
    /\ d.assumptions = c.assumptions
    /\ d.search = (IF lvl < BaseLvl(c) THEN lvl ELSE c.search)
    /\ PopPrefixes(c, d)
    /\ \A i \in DOMAIN d.trail : i \in DOMAIN c.trail /\ d.trail[i] = c.trail[i] /\ c.trail[i].lvl <= lvl
    /\ \A i \in DOMAIN c.trail : c.trail[i].lvl <= lvl => i \in DOMAIN d.trail
    /\ \A k \in 0 .. BaseLvl(d) : FormulasLimAt(d, k) = FormulasLimAt(c, k) /\ ModelsAt(d, k) = ModelsAt(c, k)
    /\ lvl < ScopeLvl(c) => d.qhead = Len(d.trail) /\ d.fqhead = Len(d.formulas)
    /\ lvl < ScopeLvl(c) /\ BaseLvl(c) <= lvl => ~Inconsistent(d)
    /\ BaseLvl(c) <= lvl => /\ Len(d.formulas) = Len(c.formulas) /\ d.fqhead = c.fqhead
                            /\ Len(d.aux) = Len(c.aux) /\ Len(d.lemmas) = Len(c.lemmas)

LEMMA PopKeeps ==
    ASSUME NEW c, CtxInv(c), NEW lvl \in 0 .. (ScopeLvl(c) - 1)
    PROVE  Popped(c, PopTo(c, lvl), lvl)
<1> DEFINE d == PopTo(c, lvl)
           s == c.scopes[lvl + 1]
           B == BaseLvl(c)
           S == ScopeLvl(c)
           b == BaseLvl(d)
           T == c.trail
           U == d.trail
<1>c. /\ c \in ContextType /\ ScopesOK(c) /\ LevelsOK(c) /\ TrailOK(c) /\ ClausesOK(c) /\ SoundOK(c)
      /\ JustifiedOK(c) /\ ConflictOK(c) /\ RepresentedOK(c) /\ QueueOK(c)
  BY DEF CtxInv
<1>d. d \in ContextType /\ PopLimits(c, d, lvl) /\ PopPrefixes(c, d)
  BY PopToFacts
<1> HIDE DEF d
<1>t. /\ S \in Nat /\ B \in Nat /\ Len(c.scopes) = S /\ Len(c.base) = B /\ B <= S
      /\ Len(T) \in Nat /\ DOMAIN T = 1 .. Len(T)
      /\ Len(c.aux) \in Nat /\ Len(c.lemmas) \in Nat /\ Len(c.formulas) \in Nat
      /\ c.fqhead \in Nat /\ c.fqhead <= Len(c.formulas) /\ c.search \in Nat
      /\ \A i \in DOMAIN T : T[i].lvl \in Nat
  BY <1>c, Types DEF ScopesOK
<1>u. /\ DOMAIN U = 1 .. Len(U) /\ Len(U) \in Nat /\ DOMAIN d.aux = 1 .. Len(d.aux)
      /\ DOMAIN d.lemmas = 1 .. Len(d.lemmas) /\ DOMAIN c.aux = 1 .. Len(c.aux)
      /\ DOMAIN c.lemmas = 1 .. Len(c.lemmas)
      /\ Len(d.aux) \in Nat /\ Len(d.lemmas) \in Nat /\ Len(d.formulas) \in Nat
  BY <1>c, <1>d, Types
<1>l. lvl \in Nat /\ lvl + 1 \in 1 .. S /\ lvl < S
  BY <1>t
<1>p. /\ ScopeLvl(d) = lvl /\ Len(U) = s.trail /\ Len(d.aux) = s.aux
      /\ Len(d.formulas) = s.formulas /\ d.fqhead = s.formulas /\ d.qhead = s.trail
      /\ Len(d.lemmas) = (IF lvl < B THEN c.base[lvl + 1].lemmas ELSE Len(c.lemmas))
      /\ b = (IF lvl < B THEN lvl ELSE B)
      /\ d.search = (IF lvl < B THEN lvl ELSE c.search)
      /\ d.conflict = (IF lvl < B /\ c.base[lvl + 1].inconsistent THEN c.conflict ELSE NoConflict)
      /\ d.assumptions = c.assumptions
  BY <1>d DEF PopLimits, ScopeLvl, BaseLvl
<1>b. b \in Nat /\ b <= B /\ b <= lvl /\ (b # B => b = lvl /\ lvl < B) /\ (b = B => B <= lvl)
  <2>1. b = (IF lvl < B THEN lvl ELSE B) /\ lvl \in Nat /\ B \in Nat
    BY <1>l, <1>p, <1>t
  <2> HIDE DEF b, B
  <2> QED
    BY <2>1
<1>q. /\ \A i \in 1 .. lvl : d.scopes[i] = c.scopes[i]
      /\ \A i \in 1 .. Len(U) : U[i] = T[i]
      /\ \A i \in 1 .. Len(d.aux) : d.aux[i] = c.aux[i]
      /\ \A i \in 1 .. Len(d.formulas) : d.formulas[i] = c.formulas[i]
      /\ \A i \in 1 .. Len(d.lemmas) : d.lemmas[i] = c.lemmas[i]
      /\ \A i \in 1 .. b : d.base[i] = c.base[i]
      /\ Len(U) <= Len(T) /\ Len(d.aux) <= Len(c.aux)
      /\ Len(d.formulas) <= Len(c.formulas) /\ Len(d.lemmas) <= Len(c.lemmas)
  <2>1. Len(d.scopes) = lvl /\ Len(d.base) = b
    BY <1>p DEF ScopeLvl, BaseLvl
  <2> QED
    BY <1>d, <2>1 DEF PopPrefixes, Prefix
<1>s. \A j \in 1 .. S :
          /\ c.scopes[j].trail \in Nat /\ c.scopes[j].trail <= Len(T)
          /\ c.scopes[j].aux \in Nat /\ c.scopes[j].aux <= Len(c.aux)
          /\ c.scopes[j].formulas \in Nat /\ c.scopes[j].formulas <= c.fqhead
          /\ j > B => c.scopes[j].aux = Len(c.aux) /\ c.scopes[j].formulas = Len(c.formulas)
          /\ \A i \in 1 .. j : /\ c.scopes[i].trail <= c.scopes[j].trail
                               /\ c.scopes[i].aux <= c.scopes[j].aux
                               /\ c.scopes[i].formulas <= c.scopes[j].formulas
  BY <1>c, Types DEF ScopesOK
<1>ss. /\ s.trail \in Nat /\ s.aux \in Nat /\ s.formulas \in Nat /\ s.formulas <= c.fqhead
       /\ B <= lvl => s.aux = Len(c.aux) /\ s.formulas = Len(c.formulas)
       /\ \A i \in 1 .. (lvl + 1) : /\ c.scopes[i].trail <= s.trail
                                    /\ c.scopes[i].aux <= s.aux
                                    /\ c.scopes[i].formulas <= s.formulas
  <2>1. B <= lvl => lvl + 1 > B
    BY <1>l, <1>t
  <2> QED
    BY <1>l, <1>s, <2>1
<1>bs. \A j \in 1 .. B : /\ c.base[j].lemmas \in Nat /\ c.base[j].lemmas <= Len(c.lemmas)
                         /\ \A i \in 1 .. j : c.base[i].lemmas <= c.base[j].lemmas
  BY <1>c, Types DEF ScopesOK
<1>v. /\ \A i \in DOMAIN U : i \in DOMAIN T /\ U[i] = T[i] /\ T[i].lvl <= lvl
      /\ \A i \in DOMAIN T : T[i].lvl <= lvl => i \in DOMAIN U /\ U[i] = T[i]
  <2>1. \A i \in DOMAIN T : i <= s.trail <=> T[i].lvl < lvl + 1
    BY <1>c, <1>l DEF LevelsOK
  <2>2. \A i \in DOMAIN U : i \in DOMAIN T /\ U[i] = T[i] /\ i <= s.trail
    <3>1. Len(U) = s.trail /\ Len(U) <= Len(T) /\ \A i \in 1 .. Len(U) : U[i] = T[i]
      BY <1>p, <1>q
    <3> HIDE DEF T, U, s
    <3>2. \A i \in 1 .. Len(U) : i \in 1 .. Len(T) /\ i <= Len(U)
      BY <1>t, <1>u, <3>1
    <3> QED
      BY <1>t, <1>u, <3>1, <3>2
  <2>3. \A i \in DOMAIN T : T[i].lvl < lvl + 1 <=> T[i].lvl <= lvl
    BY <1>l, <1>t, SMTT(30)
  <2>4. \A i \in DOMAIN T : i <= s.trail => i \in DOMAIN U
    BY <1>p, <1>t, <1>u
  <2> QED
    BY <1>q, <1>u, <2>1, <2>2, <2>3, <2>4
<1> HIDE DEF S, B, T, U, b, s
<1>k. ASSUME NEW k \in 0 .. b
      PROVE  /\ FormulasLimAt(d, k) = FormulasLimAt(c, k) /\ AuxLimAt(d, k) = AuxLimAt(c, k)
             /\ LemmasLimAt(d, k) = LemmasLimAt(c, k) /\ InternalizedAt(d, k) = InternalizedAt(c, k)
             /\ (Dirty(d, k) <=> Dirty(c, k)) /\ k \in 0 .. B /\ k <= lvl
  <2>0. k \in 0 .. B /\ k <= lvl
    BY <1>b, <1>l, <1>t
  <2>1. CASE k < b
    <3>1. k < B /\ k + 1 \in 1 .. lvl /\ k + 1 \in 1 .. b /\ k + 1 \in 1 .. (lvl + 1) /\ k + 1 \in 1 .. S
      BY <1>b, <1>l, <1>t, <2>1
    <3>2. d.scopes[k + 1] = c.scopes[k + 1] /\ d.base[k + 1] = c.base[k + 1]
      BY <1>q, <3>1
    <3>3. FormulasLimAt(d, k) = c.scopes[k + 1].formulas /\ FormulasLimAt(c, k) = c.scopes[k + 1].formulas
      BY <2>1, <3>1, <3>2 DEF FormulasLimAt, b, B
    <3>4. AuxLimAt(d, k) = AuxLimAt(c, k) /\ LemmasLimAt(d, k) = LemmasLimAt(c, k)
      BY <2>1, <3>1, <3>2 DEF AuxLimAt, LemmasLimAt, b, B
    <3>5. Dirty(d, k) <=> Dirty(c, k)
      BY <2>1, <3>1, <3>2 DEF Dirty, b, B
    <3>6. c.scopes[k + 1].formulas \in Nat /\ c.scopes[k + 1].formulas <= s.formulas
      BY <1>s, <1>ss, <3>1
    <3>7. InternalizedAt(d, k) = InternalizedAt(c, k)
      <4>1. InternalizedAt(d, k) = c.scopes[k + 1].formulas
        BY <1>p, <1>ss, <3>3, <3>6 DEF InternalizedAt
      <4>2. InternalizedAt(c, k) = c.scopes[k + 1].formulas
        <5>1. c.scopes[k + 1].formulas <= c.fqhead
          BY <1>s, <3>1
        <5> QED
          BY <1>t, <3>3, <3>6, <5>1 DEF InternalizedAt
      <4> QED
        BY <4>1, <4>2
    <3> QED
      BY <2>0, <3>3, <3>4, <3>5, <3>7
  <2>2. CASE k = b /\ b # B
    <3>1. k = lvl /\ lvl < B /\ ~(k < b) /\ k < B
      BY <1>b, <2>2
    <3>2. FormulasLimAt(d, k) = s.formulas /\ FormulasLimAt(c, k) = s.formulas
      BY <1>p, <3>1 DEF FormulasLimAt, b, B, s
    <3>3. AuxLimAt(d, k) = AuxLimAt(c, k)
      BY <1>p, <3>1 DEF AuxLimAt, b, B, s
    <3>4. LemmasLimAt(d, k) = LemmasLimAt(c, k)
      BY <1>p, <3>1 DEF LemmasLimAt, b, B, s
    <3>5. Dirty(d, k) <=> Dirty(c, k)
      <4>1. Dirty(c, k) <=> c.base[lvl + 1].inconsistent
        BY <3>1 DEF Dirty, B
      <4>2. Dirty(d, k) <=> (Inconsistent(d) /\ ScopeLvl(d) = lvl)
        BY <3>1 DEF Dirty, b
      <4>3. c.base[lvl + 1].inconsistent \in BOOLEAN
        <5>1. lvl + 1 \in 1 .. Len(c.base)
          BY <1>l, <1>t, <3>1
        <5> QED
          BY <1>c, <5>1, Types
      <4>4. c.base[lvl + 1].inconsistent => Inconsistent(c)
        <5>1. lvl \in 0 .. (B - 1)
          BY <1>l, <1>t, <3>1
        <5> QED
          BY <1>c, <5>1 DEF ConflictOK, B
      <4>5. Inconsistent(d) <=> c.base[lvl + 1].inconsistent
        BY <1>p, <3>1, <4>3, <4>4 DEF Inconsistent
      <4> QED
        BY <1>p, <4>1, <4>2, <4>3, <4>5
    <3>6. InternalizedAt(d, k) = InternalizedAt(c, k)
      BY <1>p, <1>ss, <1>t, <3>2 DEF InternalizedAt
    <3> QED
      BY <2>0, <3>2, <3>3, <3>4, <3>5, <3>6
  <2>3. CASE k = b /\ b = B
    <3>1. k = B /\ B <= lvl /\ ~(lvl < B) /\ ~(k < B) /\ ~(k < b) /\ k # S
      BY <1>b, <1>l, <1>t, <2>3
    <3>2. FormulasLimAt(d, k) = Len(d.formulas) /\ FormulasLimAt(c, k) = Len(c.formulas)
      BY <3>1 DEF FormulasLimAt, b, B
    <3>3. AuxLimAt(d, k) = Len(d.aux) /\ AuxLimAt(c, k) = Len(c.aux)
      BY <3>1 DEF AuxLimAt, b, B
    <3>4. LemmasLimAt(d, k) = Len(d.lemmas) /\ LemmasLimAt(c, k) = Len(c.lemmas)
      BY <3>1 DEF LemmasLimAt, b, B
    <3>5. ~Dirty(d, k) /\ ~Dirty(c, k)
      <4>1. ~Inconsistent(d)
        BY <1>p, <3>1 DEF Inconsistent
      <4> QED
        BY <3>1, <4>1 DEF Dirty, b, B, S
    <3>6. c.fqhead = Len(c.formulas) /\ d.fqhead = Len(d.formulas) /\ Len(d.formulas) = Len(c.formulas)
      BY <1>p, <1>ss, <1>t, <3>1
    <3>7. InternalizedAt(d, k) = InternalizedAt(c, k)
      BY <3>2, <3>6 DEF InternalizedAt
    <3> QED
      BY <1>p, <1>ss, <2>0, <3>1, <3>2, <3>3, <3>4, <3>5, <3>6, <3>7
  <2> QED
    BY <1>b, <2>1, <2>2, <2>3
<1>m. \A k \in 0 .. b : ModelsAt(d, k) = ModelsAt(c, k)
  <2> TAKE k \in 0 .. b
  <2>1. FormulasLimAt(d, k) = FormulasLimAt(c, k) /\ FormulasLimAt(d, k) \in Nat
        /\ FormulasLimAt(d, k) <= Len(d.formulas)
    <3>1. FormulasLimAt(d, k) = FormulasLimAt(c, k)
      BY <1>k
    <3>2. k = b => FormulasLimAt(d, k) = Len(d.formulas)
      BY <1>b DEF FormulasLimAt, b
    <3>3. k # b => FormulasLimAt(d, k) = c.scopes[k + 1].formulas /\ k + 1 \in 1 .. (lvl + 1) /\ k + 1 \in 1 .. S
      <4>1. k # b => k < b /\ k + 1 \in 1 .. lvl /\ k + 1 \in 1 .. (lvl + 1) /\ k + 1 \in 1 .. S
        BY <1>b, <1>l, <1>t, SMTT(30)
      <4> QED
        BY <1>q, <4>1 DEF FormulasLimAt, b
    <3> QED
      BY <1>p, <1>s, <1>ss, <1>u, <3>1, <3>2, <3>3
  <2>2. \A i \in 1 .. FormulasLimAt(d, k) : d.formulas[i] = c.formulas[i]
    BY <1>q, <1>u, <2>1
  <2> QED
    BY <2>1, <2>2 DEF ModelsAt
<1>bb. b \in 0 .. b
  BY <1>b
<1>1. ScopesOK(d)
  <2>1. d.search \in b .. (b + 1)
    BY <1>b, <1>c, <1>l, <1>p, <1>t DEF ScopesOK, B
  <2>2. ASSUME NEW j \in 1 .. lvl
        PROVE  /\ d.scopes[j].trail <= Len(d.trail)
               /\ d.scopes[j].aux <= Len(d.aux)
               /\ d.scopes[j].formulas <= d.fqhead
               /\ j > b => d.scopes[j].aux = Len(d.aux) /\ d.scopes[j].formulas = Len(d.formulas)
               /\ \A i \in 1 .. j : /\ d.scopes[i].trail <= d.scopes[j].trail
                                    /\ d.scopes[i].aux <= d.scopes[j].aux
                                    /\ d.scopes[i].formulas <= d.scopes[j].formulas
    <3>1. j \in 1 .. (lvl + 1) /\ j \in 1 .. S /\ \A i \in 1 .. j : i \in 1 .. lvl
      BY <1>l, <1>t
    <3>2. j > b => j > B /\ B <= lvl
      BY <1>b, <1>l, <1>t
    <3>3. j > b => c.scopes[j].aux = s.aux /\ c.scopes[j].formulas = s.formulas
      BY <1>s, <1>ss, <3>1, <3>2
    <3>4. /\ Len(d.trail) = s.trail /\ Len(d.aux) = s.aux /\ Len(d.formulas) = s.formulas
          /\ d.fqhead = s.formulas
      BY <1>p DEF U
    <3>5. \A i \in 1 .. j : d.scopes[i] = c.scopes[i]
      BY <1>q, <3>1
    <3>6. d.scopes[j] = c.scopes[j]
      BY <1>q
    <3>7. /\ c.scopes[j].trail <= s.trail /\ c.scopes[j].aux <= s.aux /\ c.scopes[j].formulas <= s.formulas
      BY <1>ss, <3>1
    <3>8. \A i \in 1 .. j : /\ c.scopes[i].trail <= c.scopes[j].trail
                             /\ c.scopes[i].aux <= c.scopes[j].aux
                             /\ c.scopes[i].formulas <= c.scopes[j].formulas
      BY <1>s, <3>1
    <3> HIDE DEF s, b
    <3> QED
      BY <3>3, <3>4, <3>5, <3>6, <3>7, <3>8
  <2>3. \A j \in 1 .. b : /\ d.base[j].lemmas <= Len(d.lemmas)
                          /\ \A i \in 1 .. j : d.base[i].lemmas <= d.base[j].lemmas
    <3> TAKE j \in 1 .. b
    <3>1. j \in 1 .. B /\ \A i \in 1 .. j : i \in 1 .. b
      BY <1>b, <1>t
    <3>2. c.base[j].lemmas <= Len(d.lemmas)
      <4>1. CASE lvl < B
        <5>1. lvl + 1 \in 1 .. B /\ j \in 1 .. (lvl + 1)
          BY <1>b, <1>l, <1>t, <4>1
        <5> QED
          BY <1>bs, <1>p, <4>1, <5>1
      <4>2. CASE ~(lvl < B)
        BY <1>bs, <1>p, <3>1, <4>2
      <4> QED
        BY <4>1, <4>2
    <3> QED
      BY <1>bs, <1>q, <3>1, <3>2
  <2>4. b <= lvl /\ d.qhead <= Len(d.trail) /\ d.fqhead <= Len(d.formulas)
    BY <1>b, <1>p, <1>ss DEF U
  <2> QED
    BY <1>p, <2>1, <2>2, <2>3, <2>4 DEF ScopesOK, b
<1>2. LevelsOK(d)
  <2>1. \A j \in 1 .. lvl : j \in 1 .. S /\ d.scopes[j] = c.scopes[j]
    BY <1>l, <1>q, <1>t
  <2> QED
    BY <1>c, <1>p, <1>v, <2>1 DEF LevelsOK, T, U, S
<1>3. TrailOK(d)
  <2>0. /\ T \in Trails /\ AntecedentOfLevel(T, B) /\ DecisionsFirst(T, c.search)
    BY <1>c DEF TrailOK, T, B
  <2>1. U \in Trails
    <3>1. Consistent(U) /\ Ordered(U)
      BY <1>v, <2>0 DEF Trails, Consistent, Ordered
    <3>2. AntecedentsBefore(U)
      <4> SUFFICES ASSUME NEW i \in DOMAIN U, NEW a \in U[i].why
                   PROVE  \E j \in 1 .. (i - 1) : U[j].lit = a
        BY DEF AntecedentsBefore
      <4>1. PICK j \in 1 .. (i - 1) : T[j].lit = a
        BY <1>v, <2>0 DEF Trails, AntecedentsBefore
      <4>2. j \in 1 .. Len(U)
        BY <1>u
      <4> QED
        BY <1>q, <4>1, <4>2
    <3>3. U \in Seq(Entries)
      BY <1>d, Fields DEF U
    <3> QED
      BY <3>1, <3>2, <3>3 DEF Trails
  <2>2. AntecedentOfLevel(U, b)
    <3> SUFFICES ASSUME NEW i \in DOMAIN U, U[i].why # {}, U[i].lvl > b
                 PROVE  \E j \in 1 .. (i - 1) : U[j].lit \in U[i].why /\ U[j].lvl = U[i].lvl
      BY DEF AntecedentOfLevel
    <3>1. U[i].lvl > B
      BY <1>b, <1>l, <1>t, <1>v
    <3>2. PICK j \in 1 .. (i - 1) : T[j].lit \in T[i].why /\ T[j].lvl = T[i].lvl
      BY <1>v, <2>0, <3>1 DEF AntecedentOfLevel
    <3>3. j \in 1 .. Len(U)
      BY <1>u
    <3> QED
      BY <1>q, <1>v, <3>2, <3>3
  <2>3. DecisionsFirst(U, d.search)
    <3> SUFFICES ASSUME NEW i \in DOMAIN U, NEW j \in DOMAIN U,
                        U[i].why = {}, U[i].lvl > d.search, U[j].lvl = U[i].lvl
                 PROVE  i <= j
      BY DEF DecisionsFirst
    <3>1. T[i].lvl > c.search
      BY <1>l, <1>p, <1>t, <1>v
    <3> QED
      BY <1>v, <2>0, <3>1 DEF DecisionsFirst
  <2> QED
    BY <2>1, <2>2, <2>3 DEF TrailOK, U, b
<1>4. ClausesOK(d)
  <2>1. /\ \A i \in DOMAIN d.aux : i \in DOMAIN c.aux /\ d.aux[i] = c.aux[i]
        /\ \A i \in DOMAIN d.lemmas : i \in DOMAIN c.lemmas /\ d.lemmas[i] = c.lemmas[i]
    <3>1. /\ \A i \in 1 .. Len(d.aux) : i \in 1 .. Len(c.aux)
          /\ \A i \in 1 .. Len(d.lemmas) : i \in 1 .. Len(c.lemmas)
      <4>1. \A x, y \in Nat : x <= y => \A i \in 1 .. x : i \in 1 .. y
        OBVIOUS
      <4>2. /\ Len(d.aux) \in Nat /\ Len(c.aux) \in Nat /\ Len(d.lemmas) \in Nat /\ Len(c.lemmas) \in Nat
            /\ Len(d.aux) <= Len(c.aux) /\ Len(d.lemmas) <= Len(c.lemmas)
        BY <1>q, <1>t, <1>u
      <4> QED
        BY <4>1, <4>2
    <3> QED
      BY <1>q, <1>u, <3>1
  <2>2. ASSUME NEW k \in 0 .. b, NEW i \in 1 .. AuxLimAt(d, k)
        PROVE  /\ \A a \in d.aux[i].just : \E j \in DOMAIN U : U[j].lit = a /\ U[j].lvl <= k
               /\ \E j \in 1 .. FormulasLimAt(d, k) : d.aux[i].lits \subseteq d.formulas[j]
    <3>1. /\ k \in 0 .. B /\ k <= lvl /\ i \in 1 .. AuxLimAt(c, k) /\ k \in Nat
          /\ FormulasLimAt(c, k) = FormulasLimAt(d, k)
      BY <1>k
    <3>2. /\ AuxLimAt(d, k) <= Len(d.aux) /\ AuxLimAt(d, k) \in Nat
          /\ FormulasLimAt(d, k) <= Len(d.formulas) /\ FormulasLimAt(d, k) \in Nat
      BY <1>d, <1>1, ModelsShrink DEF b
    <3>3. d.aux[i] = c.aux[i] /\ \A j \in 1 .. FormulasLimAt(d, k) : d.formulas[j] = c.formulas[j]
      BY <1>q, <1>u, <3>2, SMTT(30)
    <3>4. /\ \A a \in c.aux[i].just : \E j \in DOMAIN T : T[j].lit = a /\ T[j].lvl <= k
          /\ \E j \in 1 .. FormulasLimAt(c, k) : c.aux[i].lits \subseteq c.formulas[j]
      BY <1>c, <3>1 DEF ClausesOK, T, B
    <3>5. \A j \in DOMAIN T : T[j].lvl <= k => j \in DOMAIN U /\ U[j] = T[j]
      <4>1. \A x \in Nat : x <= k => x <= lvl
        BY <1>l, <3>1
      <4>2. \A j \in DOMAIN T : T[j].lvl <= k => T[j].lvl <= lvl
        BY <1>t, <4>1
      <4> HIDE DEF T, U
      <4> QED
        BY <1>v, <4>2
    <3> QED
      BY <3>1, <3>3, <3>4, <3>5
  <2>3. /\ \A i \in DOMAIN c.aux : WatchesTwo(c.aux[i])
        /\ \A i \in DOMAIN c.lemmas : WatchesTwo(c.lemmas[i]) /\ c.lemmas[i].just = {}
    BY <1>c DEF ClausesOK
  <2> QED
    BY <2>1, <2>2, <2>3 DEF ClausesOK, U, b
<1>5. SoundOK(d)
  <2> SUFFICES ASSUME NEW k \in 0 .. b
               PROVE  /\ BaseImplied(U, k, ModelsAt(c, k))
                      /\ \A i \in 1 .. AuxLimAt(c, k) : Implied(d.aux[i].lits, ModelsAt(c, k))
                      /\ \A i \in 1 .. LemmasLimAt(c, k) : Implied(d.lemmas[i].lits, ModelsAt(c, k))
    BY <1>k, <1>m DEF SoundOK, U, b
  <2>1. k \in 0 .. B /\ AuxLimAt(d, k) = AuxLimAt(c, k) /\ LemmasLimAt(d, k) = LemmasLimAt(c, k)
    BY <1>k
  <2>2. /\ AuxLimAt(d, k) <= Len(d.aux) /\ AuxLimAt(d, k) \in Nat
        /\ LemmasLimAt(d, k) <= Len(d.lemmas) /\ LemmasLimAt(d, k) \in Nat
    BY <1>d, <1>1, ModelsShrink DEF b
  <2>3. /\ \A i \in 1 .. AuxLimAt(c, k) : d.aux[i] = c.aux[i]
        /\ \A i \in 1 .. LemmasLimAt(c, k) : d.lemmas[i] = c.lemmas[i]
    BY <1>q, <1>u, <2>1, <2>2, SMTT(30)
  <2>4. /\ BaseImplied(T, k, ModelsAt(c, k))
        /\ \A i \in 1 .. AuxLimAt(c, k) : Implied(c.aux[i].lits, ModelsAt(c, k))
        /\ \A i \in 1 .. LemmasLimAt(c, k) : Implied(c.lemmas[i].lits, ModelsAt(c, k))
    BY <1>c, <2>1 DEF SoundOK, T, B
  <2>5. BaseImplied(U, k, ModelsAt(c, k))
    BY <1>v, <2>4 DEF BaseImplied
  <2> QED
    BY <2>3, <2>4, <2>5
<1>6. JustifiedOK(d)
  <2>1. CASE b = B
    <3>1. d.search = c.search /\ ModelsAt(d, b) = ModelsAt(c, B)
      BY <1>b, <1>bb, <1>l, <1>m, <1>p, <1>t, <2>1
    <3>2. WhyImplies(T, ModelsAt(c, B)) /\ UnitsImplied(T, c.search, c.assumptions, ModelsAt(c, B))
      BY <1>c DEF JustifiedOK, T, B
    <3>3. WhyImplies(U, ModelsAt(c, B)) /\ UnitsImplied(U, c.search, c.assumptions, ModelsAt(c, B))
      BY <1>v, <3>2 DEF WhyImplies, UnitsImplied
    <3> QED
      BY <1>p, <3>1, <3>3 DEF JustifiedOK, U, b
  <2>2. CASE b # B
    <3>1. b = lvl
      BY <1>b, <2>2
    <3>2. BaseImplied(U, b, ModelsAt(d, b))
      BY <1>bb, <1>5 DEF SoundOK, U, b
    <3>3. \A i \in DOMAIN U : \A m \in ModelsAt(d, b) : U[i].lit \in m
      BY <1>v, <3>1, <3>2 DEF BaseImplied
    <3> QED
      BY <3>3 DEF JustifiedOK, WhyImplies, UnitsImplied, U, b
  <2> QED
    BY <2>1, <2>2
<1>7. ConflictOK(d)
  <2>a. ASSUME NEW k \in 0 .. (B - 1), c.base[k + 1].inconsistent
        PROVE  /\ Inconsistent(c) /\ S = B
               /\ \A j \in k .. (B - 1) : c.base[j + 1].inconsistent
               /\ \A x \in c.conflict : \E i \in DOMAIN T : T[i].lit = -x /\ T[i].lvl <= k
               /\ Implied(c.conflict, ModelsAt(c, k))
    BY <1>c, <2>a DEF ConflictOK, T, B, S
  <2>1. Inconsistent(d) =>
          /\ lvl < B /\ c.base[lvl + 1].inconsistent /\ d.conflict = c.conflict
          /\ lvl \in 0 .. (B - 1) /\ b = lvl
    BY <1>b, <1>l, <1>p, <1>t DEF Inconsistent
  <2>2. Inconsistent(d) =>
          /\ d.conflict \in SUBSET Literals
          /\ \A l \in d.conflict : False(U, l)
          /\ Implied(d.conflict, ModelsAt(d, b))
    <3> HAVE Inconsistent(d)
    <3>1. /\ \A x \in c.conflict : \E i \in DOMAIN T : T[i].lit = -x /\ T[i].lvl <= lvl
          /\ Implied(c.conflict, ModelsAt(c, lvl)) /\ Inconsistent(c)
      BY <2>a, <2>1
    <3>2. \A x \in c.conflict : False(U, x)
      BY <1>v, <3>1 DEF False, True
    <3>3. c.conflict \in SUBSET Literals
      BY <1>c, <3>1 DEF ConflictOK
    <3> QED
      BY <1>bb, <1>m, <2>1, <3>1, <3>2, <3>3
  <2>3. ASSUME NEW k \in 0 .. (b - 1), d.base[k + 1].inconsistent
        PROVE  /\ Inconsistent(d) /\ lvl = b
               /\ \A j \in k .. (b - 1) : d.base[j + 1].inconsistent
               /\ \A x \in d.conflict : \E i \in DOMAIN U : U[i].lit = -x /\ U[i].lvl <= k
               /\ Implied(d.conflict, ModelsAt(d, k))
    <3>1. k \in 0 .. (B - 1) /\ k + 1 \in 1 .. b /\ k \in 0 .. b /\ k \in Nat /\ k < lvl
      BY <1>b, <1>l, <1>t
    <3>2. c.base[k + 1].inconsistent
      BY <1>q, <2>3, <3>1
    <3>3. /\ Inconsistent(c) /\ S = B
          /\ \A j \in k .. (B - 1) : c.base[j + 1].inconsistent
          /\ \A x \in c.conflict : \E i \in DOMAIN T : T[i].lit = -x /\ T[i].lvl <= k
          /\ Implied(c.conflict, ModelsAt(c, k))
      BY <2>a, <3>1, <3>2
    <3>4. Inconsistent(d) /\ d.conflict = c.conflict /\ lvl = b
      <4>1. lvl < B /\ lvl \in k .. (B - 1) /\ lvl = b
        BY <1>b, <1>l, <1>t, <3>1, <3>3
      <4>2. c.base[lvl + 1].inconsistent
        BY <3>3, <4>1
      <4> QED
        BY <1>p, <3>3, <4>1, <4>2 DEF Inconsistent
    <3>6. \A j \in k .. (b - 1) : j \in k .. (B - 1) /\ j + 1 \in 1 .. b
      BY <1>b, <1>t, <3>1
    <3>7. \A j \in k .. (b - 1) : d.base[j + 1].inconsistent
      BY <1>q, <3>3, <3>6
    <3>5. \A i \in DOMAIN T : T[i].lvl <= k => i \in DOMAIN U /\ U[i] = T[i]
      BY <1>l, <1>t, <1>v, <3>1, SMTT(30)
    <3> QED
      BY <1>m, <3>1, <3>3, <3>4, <3>5, <3>7
  <2> QED
    BY <1>p, <2>2, <2>3 DEF ConflictOK, U, b
<1>8. RepresentedOK(d)
  <2> SUFFICES ASSUME NEW k \in 0 .. b, ~Dirty(d, k), NEW m \in Valuations, HoldsAt(d, k, m),
                      NEW i \in 1 .. InternalizedAt(d, k)
               PROVE  d.formulas[i] \cap m # {}
    BY DEF RepresentedOK, b
  <2>1. /\ k \in 0 .. B /\ k <= lvl /\ AuxLimAt(c, k) = AuxLimAt(d, k) /\ k \in Nat
        /\ InternalizedAt(c, k) = InternalizedAt(d, k) /\ ~Dirty(c, k)
    BY <1>k
  <2>2. /\ AuxLimAt(d, k) <= Len(d.aux) /\ AuxLimAt(d, k) \in Nat
        /\ InternalizedAt(d, k) <= Len(d.formulas) /\ InternalizedAt(d, k) \in Nat
    BY <1>d, <1>1, ModelsShrink DEF b
  <2>3. /\ \A j \in 1 .. AuxLimAt(d, k) : d.aux[j] = c.aux[j]
        /\ d.formulas[i] = c.formulas[i]
    BY <1>q, <1>u, <2>2, SMTT(30)
  <2>4. \A j \in DOMAIN T : T[j].lvl <= k => j \in DOMAIN U /\ U[j] = T[j]
    BY <1>l, <1>t, <1>v, <2>1, SMTT(30)
  <2>5. HoldsAt(c, k, m)
    BY <2>1, <2>3, <2>4 DEF HoldsAt, T, U
  <2> QED
    BY <1>c, <2>1, <2>3, <2>5 DEF RepresentedOK, B
<1>9. QueueOK(d)
  BY <1>p, <1>ss, <1>u DEF QueueOK, U
<1>10. \A w : WatchOK(c, w, FALSE) => WatchOK(d, w, FALSE)
  <2> SUFFICES ASSUME NEW w, WatchOK(c, w, FALSE), NEW a \in w.watch, NEW p \in DOMAIN U,
                      U[p].lit = -a, ~Dirty(d, U[p].lvl)
               PROVE  \E x \in w.watch : \E q \in DOMAIN U : U[q].lit = x /\ U[q].lvl <= U[p].lvl
    BY DEF WatchOK, U
  <2>1. p \in DOMAIN T /\ U[p] = T[p] /\ T[p].lvl <= lvl /\ T[p].lvl \in Nat
    BY <1>t, <1>v
  <2>2. Passed(c, p)
    <3>1. T[p].lvl < S
      BY <1>l, <1>t, <2>1
    <3> QED
      BY <3>1 DEF Passed, T, S
  <2>3. ~Dirty(c, T[p].lvl)
    <3>1. CASE T[p].lvl \in 0 .. b
      BY <1>k, <2>1, <3>1
    <3>2. CASE T[p].lvl \notin 0 .. b
      <4>1. ~(T[p].lvl < B) /\ T[p].lvl # S
        BY <1>b, <1>l, <1>t, <2>1, <3>2
      <4> QED
        BY <4>1 DEF Dirty, B, S
    <3> QED
      BY <3>1, <3>2
  <2>4. \E x \in w.watch : \E q \in DOMAIN T : T[q].lit = x /\ T[q].lvl <= T[p].lvl
    BY <2>1, <2>2, <2>3 DEF WatchOK, T
  <2>5. \A q \in DOMAIN T : T[q].lvl <= T[p].lvl => q \in DOMAIN U /\ U[q] = T[q]
    BY <1>l, <1>t, <1>v, <2>1, SMTT(30)
  <2> QED
    BY <2>1, <2>4, <2>5
<1>11. CtxInv(d)
  BY <1>d, <1>1, <1>2, <1>3, <1>4, <1>5, <1>6, <1>7, <1>8, <1>9 DEF CtxInv
<1>12. \A k \in 0 .. b : FormulasLimAt(d, k) = FormulasLimAt(c, k) /\ ModelsAt(d, k) = ModelsAt(c, k)
  BY <1>k, <1>m
<1>13. B <= lvl => /\ Len(d.formulas) = Len(c.formulas) /\ d.fqhead = c.fqhead
                   /\ Len(d.aux) = Len(c.aux) /\ Len(d.lemmas) = Len(c.lemmas)
  BY <1>l, <1>p, <1>ss, <1>t
<1>14. B <= lvl => ~Inconsistent(d)
  BY <1>l, <1>p, <1>t DEF Inconsistent
<1> QED
  BY <1>d, <1>p, <1>v, <1>10, <1>11, <1>12, <1>13, <1>14 DEF Popped, d, T, U, B, S, b

LEMMA PopToKeeps ==
    ASSUME NEW c, CtxInv(c), NEW lvl \in 0 .. ScopeLvl(c)
    PROVE  Popped(c, PopTo(c, lvl), lvl)
<1>t. /\ ScopeLvl(c) \in Nat /\ BaseLvl(c) \in Nat /\ BaseLvl(c) <= ScopeLvl(c) /\ c \in ContextType
  BY Types DEF CtxInv, ScopesOK
<1>1. CASE lvl = ScopeLvl(c)
  <2>1. PopTo(c, lvl) = c
    BY <1>1 DEF PopTo
  <2>2. ~(lvl < BaseLvl(c)) /\ ~(lvl < ScopeLvl(c))
    BY <1>1, <1>t
  <2>3. PopPrefixes(c, c)
    BY <1>t, Fields, PrefixSelf DEF PopPrefixes
  <2>4. \A i \in DOMAIN c.trail : c.trail[i].lvl <= lvl
    BY <1>1 DEF CtxInv, LevelsOK
  <2> QED
    BY <1>1, <2>1, <2>2, <2>3, <2>4 DEF Popped
<1>2. CASE lvl # ScopeLvl(c)
  <2>1. lvl \in 0 .. (ScopeLvl(c) - 1)
    BY <1>2, <1>t
  <2> QED
    BY <2>1, PopKeeps
<1> QED
  BY <1>1, <1>2

-----------------------------------------------------------------------------
(* The clauses that are kept, in their order: s is what is kept of the     *)
(* first i of db, and none of its first p is dropped.                      *)
KeptOf(db, K, p, i, s) ==
    /\ \A j \in DOMAIN s : \E x \in 1 .. i : x \in K /\ s[j] = db[x]
    /\ \A x \in 1 .. i : x \in K => \E j \in DOMAIN s : s[j] = db[x]
    /\ \A x \in 1 .. i : x <= p => x \in DOMAIN s /\ s[x] = db[x]
    /\ i <= p => Len(s) = i

LEMMA KeptStep ==
    ASSUME NEW S, NEW db \in Seq(S), NEW K, NEW p \in Nat, \A x \in 1 .. p : x \in K,
           NEW i \in 1 .. Len(db), NEW s \in Seq(S), KeptOf(db, K, p, i - 1, s)
    PROVE  KeptOf(db, K, p, i, IF i \in K THEN Append(s, db[i]) ELSE s)
<1>0. db[i] \in S /\ Len(s) \in Nat /\ DOMAIN s = 1 .. Len(s)
  OBVIOUS
<1>i. /\ i - 1 \in Nat /\ i \in Nat /\ i \in 1 .. i
      /\ \A x \in 1 .. i : x = i \/ x \in 1 .. (i - 1)
      /\ \A x \in 1 .. (i - 1) : x \in 1 .. i
      /\ i <= p => i - 1 <= p /\ i \in 1 .. p
  <2>1. Len(db) \in Nat
    OBVIOUS
  <2> QED
    BY <2>1
<1>1. CASE i \in K
  <2> DEFINE u == Append(s, db[i])
  <2>1. /\ Len(u) = Len(s) + 1 /\ DOMAIN u = 1 .. (Len(s) + 1) /\ u[Len(s) + 1] = db[i]
        /\ \A j \in 1 .. Len(s) : u[j] = s[j]
    BY <1>0, AppendFacts
  <2> HIDE DEF u
  <2>2. \A j \in DOMAIN u : j = Len(s) + 1 \/ j \in DOMAIN s
    BY <1>0, <2>1
  <2>3. \A j \in DOMAIN s : j \in DOMAIN u /\ u[j] = s[j]
    BY <1>0, <2>1
  <2>4. Len(s) + 1 \in DOMAIN u
    BY <1>0, <2>1
  <2>5. \A j \in DOMAIN u : \E x \in 1 .. i : x \in K /\ u[j] = db[x]
    <3> TAKE j \in DOMAIN u
    <3>1. CASE j = Len(s) + 1
      BY <1>1, <1>i, <2>1, <3>1
    <3>2. CASE j \in DOMAIN s
      <4>1. PICK x \in 1 .. (i - 1) : x \in K /\ s[j] = db[x]
        BY <3>2 DEF KeptOf
      <4> QED
        BY <1>i, <2>3, <3>2, <4>1
    <3> QED
      BY <2>2, <3>1, <3>2
  <2>6. \A x \in 1 .. i : x \in K => \E j \in DOMAIN u : u[j] = db[x]
    <3> TAKE x \in 1 .. i
    <3> HAVE x \in K
    <3>1. CASE x = i
      BY <2>1, <2>4, <3>1
    <3>2. CASE x \in 1 .. (i - 1)
      <4>1. PICK j \in DOMAIN s : s[j] = db[x]
        BY <3>2 DEF KeptOf
      <4> QED
        BY <2>3, <4>1
    <3> QED
      BY <1>i, <3>1, <3>2
  <2>7. i <= p => Len(s) = i - 1
    BY <1>i DEF KeptOf
  <2>8. i <= p => Len(s) + 1 = i /\ Len(u) = i
    BY <1>i, <2>1, <2>7
  <2>9. \A x \in 1 .. i : x <= p => x \in DOMAIN u /\ u[x] = db[x]
    <3> TAKE x \in 1 .. i
    <3>1. CASE x = i
      BY <2>1, <2>4, <2>8, <3>1
    <3>2. CASE x \in 1 .. (i - 1)
      BY <2>3, <3>2 DEF KeptOf
    <3> QED
      BY <1>i, <3>1, <3>2
  <2>10. KeptOf(db, K, p, i, u)
    BY <2>5, <2>6, <2>8, <2>9 DEF KeptOf
  <2> QED
    BY <1>1, <2>10 DEF u
<1>2. CASE i \notin K
  <2>1. ~(i <= p)
    BY <1>2, <1>i
  <2> QED
    BY <1>2, <1>i, <2>1 DEF KeptOf
<1> QED
  BY <1>1, <1>2

LEMMA KeptFacts ==
    ASSUME NEW S, NEW db \in Seq(S), NEW K, NEW p \in Nat, \A x \in 1 .. p : x \in K
    PROVE  Kept(db, K) \in Seq(S) /\ KeptOf(db, K, p, Len(db), Kept(db, K))
<1> DEFINE n == Len(db)
           Add(i, s) == IF i \in K THEN Append(s, db[i]) ELSE s
           IsUpto(f) == f = [i \in 0 .. n |->
                               IF i = 0 THEN <<>>
                               ELSE IF i \in K THEN Append(f[i - 1], db[i]) ELSE f[i - 1]]
           L == Seq(S)
           none == <<>>
<1>0. n \in Nat /\ \A i \in 1 .. n : db[i] \in S
  OBVIOUS
<1>a. \A i \in 1 .. n : \A s \in L : Add(i, s) \in L
  BY <1>0
<1>b. none \in L
  OBVIOUS
<1>c. \E f : UpLoop(n, L, none, [i \in 1 .. n |-> [s \in L |-> Add(i, s)]], f)
  <2> DEFINE G == [i \in 1 .. n |-> [s \in L |-> Add(i, s)]]
  <2>1. G \in [1 .. n -> [L -> L]]
    <3> HIDE DEF Add, L, n
    <3> QED
      BY <1>a
  <2> HIDE DEF G, n, none, L
  <2>2. \E f : UpLoop(n, L, none, G, f)
    BY <1>0, <1>b, <2>1, UpRecursion
  <2> QED
    BY <2>2 DEF G
<1>d. PICK f : UpLoop(n, L, none, [i \in 1 .. n |-> [s \in L |-> Add(i, s)]], f)
  BY <1>c
<1>1. \E g : IsUpto(g)
  <2> HIDE DEF L
  <2>1. \A i \in 1 .. n : f[i] = Add(i, f[i - 1])
    <3> HIDE DEF Add
    <3> TAKE i \in 1 .. n
    <3>1. f[i - 1] \in L
      BY <1>0, <1>d DEF UpLoop
    <3> QED
      BY <1>d, <3>1 DEF UpLoop
  <2>2. f[0] = <<>> /\ f \in [0 .. n -> L]
    BY <1>d DEF UpLoop
  <2>3. \A i \in 0 .. n : f[i] = IF i = 0 THEN <<>>
                               ELSE IF i \in K THEN Append(f[i - 1], db[i]) ELSE f[i - 1]
    <3> TAKE i \in 0 .. n
    <3>1. CASE i = 0
      BY <2>2, <3>1
    <3>2. CASE i # 0
      <4>1. i \in 1 .. n
        BY <1>0, <3>2
      <4> QED
        BY <2>1, <3>2, <4>1
    <3> QED
      BY <3>1, <3>2
  <2>4. IsUpto(f)
    BY <2>2, <2>3
  <2> QED
    BY <2>4
<1> DEFINE upto == CHOOSE g : IsUpto(g)
<1>2. IsUpto(upto)
  <2> HIDE DEF IsUpto
  <2> QED
    BY <1>1, Zenon
<1>3. Kept(db, K) = upto[n]
  BY Zenon DEF Kept
<1>4. upto[0] = <<>> /\ \A i \in 1 .. n : upto[i] = Add(i, upto[i - 1])
  <2> HIDE DEF upto
  <2>1. 0 \in 0 .. n /\ \A i \in 1 .. n : i \in 0 .. n /\ i # 0
    BY <1>0
  <2> QED
    BY <1>2, <2>1
<1> HIDE DEF upto
<1> DEFINE P == {i \in 0 .. n : upto[i] \in L /\ KeptOf(db, K, p, i, upto[i])}
<1>5. 0 \in P
  <2>1. KeptOf(db, K, p, 0, none)
    BY DEF KeptOf
  <2>2. upto[0] = none /\ 0 \in 0 .. n
    BY <1>0, <1>4
  <2> HIDE DEF none, L, n
  <2> QED
    BY <1>b, <2>1, <2>2
<1>6. \A i \in 1 .. n : i - 1 \in P => i \in P
  <2> TAKE i \in 1 .. n
  <2> HAVE i - 1 \in P
  <2>1. upto[i - 1] \in L /\ KeptOf(db, K, p, i - 1, upto[i - 1]) /\ upto[i] = Add(i, upto[i - 1]) /\ i \in 0 .. n
    BY <1>0, <1>4
  <2>2. KeptOf(db, K, p, i, upto[i])
    BY <2>1, KeptStep
  <2>3. upto[i] \in L
    <3> HIDE DEF L, Add
    <3> QED
      BY <1>a, <2>1
  <2> QED
    BY <2>1, <2>2, <2>3
<1> HIDE DEF P
<1>7. 0 .. n \subseteq P
  BY <1>0, <1>5, <1>6, UpInduction
<1>8. n \in P
  BY <1>0, <1>7
<1> QED
  BY <1>3, <1>8 DEF P

(* Without clauses to visit, the references may be left out.               *)
LEMMA WatchesSplit ==
    ASSUME NEW c
    PROVE  WatchesOK(c, {}) <=> /\ \A i \in DOMAIN c.aux : WatchOK(c, c.aux[i], FALSE)
                                /\ \A i \in DOMAIN c.lemmas : WatchOK(c, c.lemmas[i], FALSE)
<1>1. ASSUME WatchesOK(c, {}), NEW i \in DOMAIN c.aux
      PROVE  WatchOK(c, c.aux[i], FALSE)
  <2>1. <<"aux", i>> \in ClauseRefs(c) /\ Clause(c, <<"aux", i>>) = c.aux[i]
    BY DEF ClauseRefs, Clause
  <2>2. (<<"aux", i>> \in {}) = FALSE
    OBVIOUS
  <2> QED
    BY <1>1, <2>1, <2>2 DEF WatchesOK
<1>2. ASSUME WatchesOK(c, {}), NEW i \in DOMAIN c.lemmas
      PROVE  WatchOK(c, c.lemmas[i], FALSE)
  <2>1. <<"lemmas", i>> \in ClauseRefs(c) /\ Clause(c, <<"lemmas", i>>) = c.lemmas[i]
    BY DEF ClauseRefs, Clause
  <2>2. (<<"lemmas", i>> \in {}) = FALSE
    OBVIOUS
  <2> QED
    BY <1>2, <2>1, <2>2 DEF WatchesOK
<1>3. ASSUME \A i \in DOMAIN c.aux : WatchOK(c, c.aux[i], FALSE),
             \A i \in DOMAIN c.lemmas : WatchOK(c, c.lemmas[i], FALSE),
             NEW r \in ClauseRefs(c)
      PROVE  WatchOK(c, Clause(c, r), r \in {})
  <2>1. (r \in {}) = FALSE
    OBVIOUS
  <2>2. \/ r[2] \in DOMAIN c.aux /\ Clause(c, r) = c.aux[r[2]]
        \/ r[2] \in DOMAIN c.lemmas /\ Clause(c, r) = c.lemmas[r[2]]
    BY DEF ClauseRefs, Clause
  <2> QED
    BY <1>3, <2>1, <2>2
<1> QED
  BY <1>1, <1>2, <1>3 DEF WatchesOK

(* Contexts of the same trail and clauses that watch the same.             *)
LEMMA SameWatch ==
    ASSUME NEW c, NEW w, NEW x, x.watch = w.watch, NEW pending, WatchOK(c, w, pending)
    PROVE  WatchOK(c, x, pending)
BY DEF WatchOK

(* The limits of the innermost user scope bound those of the outer ones.   *)
LEMMA InnermostLimits ==
    ASSUME NEW c, CtxInv(c)
    PROVE  /\ AuxLim(c) \in Nat /\ AuxLim(c) <= Len(c.aux)
           /\ LemmasLim(c) \in Nat /\ LemmasLim(c) <= Len(c.lemmas)
           /\ \A j \in 1 .. BaseLvl(c) : /\ c.scopes[j].aux \in Nat /\ c.scopes[j].aux <= AuxLim(c)
                                         /\ c.base[j].lemmas \in Nat /\ c.base[j].lemmas <= LemmasLim(c)
           /\ \A k \in 0 .. BaseLvl(c) : k # BaseLvl(c) =>
                 /\ AuxLimAt(c, k) \in Nat /\ AuxLimAt(c, k) <= AuxLim(c)
                 /\ LemmasLimAt(c, k) \in Nat /\ LemmasLimAt(c, k) <= LemmasLim(c)
           /\ AuxLimAt(c, BaseLvl(c)) = Len(c.aux) /\ LemmasLimAt(c, BaseLvl(c)) = Len(c.lemmas)
<1> DEFINE B == BaseLvl(c)
<1>c. c \in ContextType /\ ScopesOK(c)
  BY DEF CtxInv
<1>t. B \in Nat /\ Len(c.scopes) = ScopeLvl(c) /\ Len(c.base) = B /\ B <= ScopeLvl(c) /\ ScopeLvl(c) \in Nat
      /\ Len(c.aux) \in Nat /\ Len(c.lemmas) \in Nat
  BY <1>c, Types DEF ScopesOK
<1>1. \A j \in 1 .. B : j \in 1 .. ScopeLvl(c) /\ B \in 1 .. B /\ B \in 1 .. ScopeLvl(c) /\ j \in 1 .. B /\ B # 0
  BY <1>t
<1> HIDE DEF B
<1>2. \A j \in 1 .. B : /\ c.scopes[j].aux \in Nat /\ c.scopes[j].aux <= c.scopes[B].aux
                        /\ c.scopes[j].aux <= Len(c.aux)
                        /\ c.base[j].lemmas \in Nat /\ c.base[j].lemmas <= c.base[B].lemmas
                        /\ c.base[j].lemmas <= Len(c.lemmas)
  BY <1>1, <1>c, <1>t, Types DEF ScopesOK, B
<1>3. CASE B = 0
  <2>1. AuxLim(c) = 0 /\ LemmasLim(c) = 0 /\ (\A k \in 0 .. B : k = B) /\ (\A j \in 1 .. B : FALSE)
    BY <1>3 DEF AuxLim, LemmasLim, B
  <2>2. AuxLimAt(c, B) = Len(c.aux) /\ LemmasLimAt(c, B) = Len(c.lemmas)
    BY <1>3 DEF AuxLimAt, LemmasLimAt, B
  <2> QED
    BY <1>t, <2>1, <2>2 DEF B
<1>4. CASE B # 0
  <2>1. AuxLim(c) = c.scopes[B].aux /\ LemmasLim(c) = c.base[B].lemmas /\ B \in 1 .. B
    BY <1>4, <1>t DEF AuxLim, LemmasLim, B
  <2>2. \A k \in 0 .. B : k # B => k < B /\ k + 1 \in 1 .. B
    BY <1>t
  <2>3. \A k \in 0 .. B : k # B => AuxLimAt(c, k) = c.scopes[k + 1].aux /\ LemmasLimAt(c, k) = c.base[k + 1].lemmas
    BY <2>2 DEF AuxLimAt, LemmasLimAt, B
  <2>4. AuxLimAt(c, B) = Len(c.aux) /\ LemmasLimAt(c, B) = Len(c.lemmas)
    BY <1>t DEF AuxLimAt, LemmasLimAt, B
  <2> QED
    BY <1>2, <2>1, <2>2, <2>3, <2>4 DEF B
<1> QED
  BY <1>3, <1>4

(* Lemmas are deleted.                                                     *)
LEMMA DeleteKeeps ==
    ASSUME NEW c, CtxInv(c), WatchesOK(c, {}),
           NEW D \in SUBSET (DOMAIN c.lemmas), \A i \in D : i > LemmasLim(c)
    PROVE  /\ CtxInv(DeleteLemmas(c, D)) /\ WatchesOK(DeleteLemmas(c, D), {})
           /\ DeleteLemmas(c, D) = [c EXCEPT !.lemmas = Kept(c.lemmas, DOMAIN c.lemmas \ D)]
<1> DEFINE d == DeleteLemmas(c, D)
           K == DOMAIN c.lemmas \ D
           p == LemmasLim(c)
           new == Kept(c.lemmas, K)
           n == Len(c.lemmas)
           B == BaseLvl(c)
<1>c. /\ c \in ContextType /\ ScopesOK(c) /\ ClausesOK(c) /\ SoundOK(c)
      /\ c.lemmas \in Seq(Watched) /\ c.aux \in Seq(Watched) /\ n \in Nat /\ DOMAIN c.lemmas = 1 .. n
  BY Types, Fields DEF CtxInv
<1>l. /\ p \in Nat /\ p <= n
      /\ \A j \in 1 .. B : c.base[j].lemmas \in Nat /\ c.base[j].lemmas <= p
      /\ \A k \in 0 .. B : k # B => LemmasLimAt(c, k) \in Nat /\ LemmasLimAt(c, k) <= p
      /\ LemmasLimAt(c, B) = n
  BY InnermostLimits
<1> HIDE DEF p
<1>1. \A x \in 1 .. p : x \in K
  <2>1. \A x \in 1 .. p : x \in 1 .. n /\ ~(x > p)
    BY <1>c, <1>l
  <2> QED
    BY <1>c, <2>1 DEF p
<1> HIDE DEF K, n
<1>2. new \in Seq(Watched) /\ KeptOf(c.lemmas, K, p, n, new)
  BY <1>1, <1>c, <1>l, KeptFacts DEF n
<1> HIDE DEF new
<1>3. /\ \A j \in DOMAIN new : \E x \in DOMAIN c.lemmas : new[j] = c.lemmas[x]
      /\ \A j \in 1 .. p : j \in DOMAIN new /\ new[j] = c.lemmas[j]
  <2>1. \A j \in 1 .. p : j \in 1 .. n /\ j <= p
    BY <1>c, <1>l
  <2> QED
    BY <1>2, <1>c, <2>1 DEF KeptOf
<1>4. Len(new) \in Nat /\ DOMAIN new = 1 .. Len(new) /\ p <= Len(new)
  <2>1. Len(new) \in Nat /\ DOMAIN new = 1 .. Len(new)
    BY <1>2
  <2>2. p \in 1 .. p \/ p = 0
    BY <1>l
  <2> QED
    BY <1>3, <1>l, <2>1, <2>2
<1>5. /\ d = [c EXCEPT !.aux = c.aux, !.lemmas = new]
      /\ d = [c EXCEPT !.lemmas = new]
  BY <1>c DEF DeleteLemmas, ContextType, new, K
<1>f. /\ d.formulas = c.formulas /\ d.fqhead = c.fqhead /\ d.scopes = c.scopes /\ d.base = c.base
      /\ d.aux = c.aux /\ d.lemmas = new /\ d.trail = c.trail
  BY <1>5, <1>c DEF ContextType
<1> HIDE DEF d
<1>s. /\ ScopeLvl(d) = ScopeLvl(c) /\ BaseLvl(d) = B
      /\ \A k : /\ ModelsAt(d, k) = ModelsAt(c, k) /\ AuxLimAt(d, k) = AuxLimAt(c, k)
                /\ FormulasLimAt(d, k) = FormulasLimAt(c, k)
  BY <1>f, SameScopes
<1>6. \A j \in 1 .. ScopeLvl(c) : /\ c.scopes[j].aux <= Len(c.aux)
                                  /\ j > BaseLvl(c) => c.scopes[j].aux = Len(c.aux)
  BY <1>c DEF ScopesOK
<1>7. \A j \in 1 .. B : c.base[j].lemmas <= Len(new)
  BY <1>4, <1>l
<1>8. ClausesOK(d)
  BY <1>3, <1>c, <1>f, <1>s DEF ClausesOK
<1>9. \A k \in 0 .. B : \A i \in 1 .. AuxLimAt(d, k) : Implied(c.aux[i].lits, ModelsAt(c, k))
  BY <1>c, <1>s DEF SoundOK
<1>10. \A k \in 0 .. B : \A i \in 1 .. LemmasLimAt(d, k) : Implied(new[i].lits, ModelsAt(c, k))
  <2> TAKE k \in 0 .. B
  <2> TAKE i \in 1 .. LemmasLimAt(d, k)
  <2>1. CASE k = B
    <3>1. LemmasLimAt(d, k) = Len(new)
      BY <1>f, <1>s, <2>1, <1>c, Types DEF LemmasLimAt
    <3>2. PICK x \in 1 .. n : new[i] = c.lemmas[x]
      BY <1>3, <1>4, <1>c, <3>1
    <3> QED
      BY <1>c, <1>l, <2>1, <3>2 DEF SoundOK
  <2>2. CASE k # B
    <3>1. LemmasLimAt(d, k) = LemmasLimAt(c, k)
      BY <1>c, <1>f, <1>s, <2>2, Types DEF LemmasLimAt
    <3>2. i \in 1 .. p /\ i \in 1 .. LemmasLimAt(c, k)
      BY <1>l, <2>2, <3>1
    <3> QED
      BY <1>3, <1>c, <3>2 DEF SoundOK
  <2> QED
    BY <2>1, <2>2
<1>11. \A k \in 0 .. B : \A m \in Valuations : HoldsAt(d, k, m) => HoldsAt(c, k, m)
  BY <1>f, <1>s DEF HoldsAt
<1>12. AsGood(c, c.aux, new, d)
  BY <1>2, <1>5, <1>6, <1>7, <1>8, <1>9, <1>10, <1>11, <1>c DEF AsGood
<1>13. /\ CtxInv(d)
       /\ \A w, pending : WatchOK(d, w, pending) <=> WatchOK(c, w, pending)
  BY <1>12, ClausesKeep
<1>14. WatchesOK(d, {})
  BY <1>3, <1>13, <1>f, WatchesSplit
<1> QED
  BY <1>5, <1>13, <1>14 DEF d, new, K

-----------------------------------------------------------------------------
(* A simplified clause watches what it did, and has lost false literals    *)
(* only.                                                                   *)
Shrunk(c, new, old) ==
    /\ new.watch = old.watch /\ new.just = old.just
    /\ new.lits \subseteq old.lits
    /\ \A l \in old.lits : l \in old.watch \/ ~False(c.trail, l) => l \in new.lits

LEMMA TrimmedFacts ==
    ASSUME NEW c, NEW w \in Watched
    PROVE  Trimmed(c, w) \in Watched /\ Shrunk(c, Trimmed(c, w), w)
<1> DEFINE L == {l \in w.lits : l \in w.watch \/ ~False(c.trail, l)}
<1>1. Trimmed(c, w) = [w EXCEPT !.lits = L]
  BY DEF Trimmed
<1>2. L \in Clauses /\ L \subseteq w.lits
  BY DEF Watched, Clauses
<1>3. \A l \in w.lits : l \in w.watch \/ ~False(c.trail, l) => l \in L
  OBVIOUS
<1> HIDE DEF L
<1>4. /\ [w EXCEPT !.lits = L] \in Watched
      /\ [w EXCEPT !.lits = L].lits = L
      /\ [w EXCEPT !.lits = L].watch = w.watch
      /\ [w EXCEPT !.lits = L].just = w.just
  BY <1>2 DEF Watched
<1> QED
  BY <1>1, <1>2, <1>3, <1>4 DEF Shrunk

Simplified(c, db, start, new) ==
    /\ new \in Seq(Watched) /\ Len(new) \in Nat /\ DOMAIN new = 1 .. Len(new)
    /\ start <= Len(new)
    /\ \A j \in 1 .. start : j \in DOMAIN new /\ new[j] = db[j]
    /\ \A j \in DOMAIN new : \E x \in DOMAIN db : Shrunk(c, new[j], db[x])
    /\ \A x \in DOMAIN db : TrueClause(c, db[x]) \/ \E j \in DOMAIN new : Shrunk(c, new[j], db[x])

LEMMA SimplifyFromFacts ==
    ASSUME NEW c, NEW db \in Seq(Watched), NEW start \in Nat, start <= Len(db)
    PROVE  Simplified(c, db, start, SimplifyFrom(c, db, start))
<1> DEFINE trim == [i \in DOMAIN db |-> IF i > start THEN Trimmed(c, db[i]) ELSE db[i]]
           K == {i \in DOMAIN db : i > start => ~TrueClause(c, db[i])}
           new == Kept(trim, K)
           n == Len(db)
<1>0. n \in Nat /\ DOMAIN db = 1 .. n /\ \A i \in 1 .. n : db[i] \in Watched
  OBVIOUS
<1>1. \A i \in 1 .. n : trim[i] \in Watched /\ Shrunk(c, trim[i], db[i])
  <2> TAKE i \in 1 .. n
  <2>1. CASE i > start
    BY <1>0, <2>1, TrimmedFacts
  <2>2. CASE ~(i > start)
    BY <1>0, <2>2 DEF Shrunk
  <2> QED
    BY <2>1, <2>2
<1>2. \A i \in 1 .. start : i \in 1 .. n /\ trim[i] = db[i] /\ i \in K
  <2>1. \A i \in 1 .. start : i \in 1 .. n /\ ~(i > start)
    BY <1>0
  <2> QED
    BY <1>0, <2>1
<1>3. trim = [i \in 1 .. n |-> trim[i]]
  BY <1>0
<1>k. \A x \in 1 .. n : x \notin K => TrueClause(c, db[x])
  BY <1>0
<1>s. SimplifyFrom(c, db, start) = new
  BY DEF SimplifyFrom
<1> HIDE DEF trim, K, new
<1>4. trim \in Seq(Watched) /\ Len(trim) = n
  <2>1. [i \in 1 .. n |-> trim[i]] \in Seq(Watched) /\ Len([i \in 1 .. n |-> trim[i]]) = n
    BY <1>0, <1>1
  <2> QED
    BY <1>3, <2>1
<1>5. new \in Seq(Watched) /\ KeptOf(trim, K, start, n, new)
  BY <1>2, <1>4, KeptFacts DEF new
<1>6. Len(new) \in Nat /\ DOMAIN new = 1 .. Len(new)
  BY <1>5
<1>7. \A j \in 1 .. start : j \in DOMAIN new /\ new[j] = db[j]
  <2>1. \A j \in 1 .. start : j <= start
    OBVIOUS
  <2> QED
    BY <1>2, <1>5, <2>1 DEF KeptOf
<1>8. start <= Len(new)
  <2>1. start = 0 \/ start \in 1 .. start
    OBVIOUS
  <2> QED
    BY <1>6, <1>7, <2>1
<1>9. \A j \in DOMAIN new : \E x \in DOMAIN db : Shrunk(c, new[j], db[x])
  BY <1>0, <1>1, <1>5 DEF KeptOf
<1>10. \A x \in DOMAIN db : TrueClause(c, db[x]) \/ \E j \in DOMAIN new : Shrunk(c, new[j], db[x])
  <2> TAKE x \in DOMAIN db
  <2>1. CASE x \in K
    <3>1. PICK j \in DOMAIN new : new[j] = trim[x]
      BY <1>0, <1>5, <2>1 DEF KeptOf
    <3> QED
      BY <1>0, <1>1, <3>1
  <2>2. CASE x \notin K
    BY <1>0, <1>k, <2>2
  <2> QED
    BY <2>1, <2>2
<1> QED
  BY <1>5, <1>6, <1>7, <1>8, <1>9, <1>10, <1>s DEF Simplified

(* Literals of the base level lose their antecedents.                      *)
SameLiterals(T, U) ==
    /\ U \in Seq(Entries) /\ Len(U) = Len(T)
    /\ \A i \in 1 .. Len(T) : U[i].lit = T[i].lit /\ U[i].lvl = T[i].lvl /\ U[i].why \subseteq T[i].why

LEMMA AxiomsKeep ==
    ASSUME NEW c, CtxInv(c), ScopeLvl(c) = BaseLvl(c), NEW U, SameLiterals(c.trail, U)
    PROVE  LET d == [c EXCEPT !.trail = U]
           IN  /\ CtxInv(d)
               /\ \A w, pending : WatchOK(c, w, pending) => WatchOK(d, w, pending)
               /\ \A l : False(U, l) <=> False(c.trail, l)
<1> DEFINE d == [c EXCEPT !.trail = U]
           T == c.trail
           B == BaseLvl(c)
<1>c. /\ c \in ContextType /\ ScopesOK(c) /\ LevelsOK(c) /\ TrailOK(c) /\ ClausesOK(c) /\ SoundOK(c)
      /\ JustifiedOK(c) /\ ConflictOK(c) /\ RepresentedOK(c) /\ QueueOK(c)
  BY DEF CtxInv
<1>f. /\ d.formulas = c.formulas /\ d.fqhead = c.fqhead /\ d.scopes = c.scopes /\ d.base = c.base
      /\ d.search = c.search /\ d.qhead = c.qhead /\ d.aux = c.aux /\ d.lemmas = c.lemmas
      /\ d.conflict = c.conflict /\ d.assumptions = c.assumptions /\ d.trail = U
      /\ d \in ContextType
  BY <1>c DEF ContextType, SameLiterals
<1>t. /\ DOMAIN T = 1 .. Len(T) /\ Len(T) \in Nat /\ B \in Nat /\ c.search \in Nat /\ B <= c.search
      /\ \A i \in DOMAIN T : T[i].lvl \in Nat /\ T[i].lvl <= B
  <2>1. /\ DOMAIN T = 1 .. Len(T) /\ Len(T) \in Nat /\ B \in Nat /\ c.search \in Nat
        /\ \A i \in DOMAIN T : T[i].lvl \in Nat
    BY <1>c, Types
  <2>2. c.search \in B .. (B + 1)
    BY <1>c DEF ScopesOK
  <2>3. \A i \in DOMAIN T : T[i].lvl <= B
    BY <1>c DEF LevelsOK
  <2>4. B <= c.search
    BY <2>1, <2>2
  <2> QED
    BY <2>1, <2>3, <2>4
<1>u. /\ DOMAIN U = DOMAIN T /\ Len(U) = Len(T) /\ U \in Seq(Entries)
      /\ \A i \in DOMAIN T : U[i].lit = T[i].lit /\ U[i].lvl = T[i].lvl /\ U[i].why \subseteq T[i].why
  <2>1. DOMAIN U = 1 .. Len(U)
    BY DEF SameLiterals
  <2> QED
    BY <1>t, <2>1 DEF SameLiterals
<1> HIDE DEF d, T, B
<1>s. /\ ScopeLvl(d) = ScopeLvl(c) /\ BaseLvl(d) = B
      /\ \A k : /\ ModelsAt(d, k) = ModelsAt(c, k) /\ AuxLimAt(d, k) = AuxLimAt(c, k)
                /\ LemmasLimAt(d, k) = LemmasLimAt(c, k) /\ InternalizedAt(d, k) = InternalizedAt(c, k)
                /\ FormulasLimAt(d, k) = FormulasLimAt(c, k)
                /\ Dirty(d, k) = Dirty(c, k)
      /\ Inconsistent(d) = Inconsistent(c)
  BY <1>f, SameScopes DEF B
<1>a. \A l : (True(U, l) <=> True(T, l)) /\ (False(U, l) <=> False(T, l))
  BY <1>u DEF True, False
<1>1. ScopesOK(d) /\ LevelsOK(d)
  BY <1>c, <1>f, <1>s, <1>u DEF ScopesOK, LevelsOK, T, B
<1>2. TrailOK(d)
  <2>1. Consistent(T) /\ Ordered(T) /\ AntecedentsBefore(T)
    BY <1>c DEF TrailOK, Trails, T
  <2>2. Consistent(U) /\ Ordered(U)
    BY <1>u, <2>1 DEF Consistent, Ordered
  <2>3. AntecedentsBefore(U)
    <3> SUFFICES ASSUME NEW i \in DOMAIN U, NEW a \in U[i].why
                 PROVE  \E j \in 1 .. (i - 1) : U[j].lit = a
      BY DEF AntecedentsBefore
    <3>1. PICK j \in 1 .. (i - 1) : T[j].lit = a
      BY <1>u, <2>1 DEF AntecedentsBefore
    <3>2. j \in DOMAIN T
      BY <1>t, <1>u
    <3> QED
      BY <1>u, <3>1, <3>2
  <2>4. AntecedentOfLevel(U, B) /\ DecisionsFirst(U, c.search)
    BY <1>t, <1>u DEF AntecedentOfLevel, DecisionsFirst
  <2> QED
    BY <1>f, <1>s, <1>u, <2>2, <2>3, <2>4 DEF TrailOK, Trails
<1>3. ClausesOK(d)
  <2>1. \A k \in 0 .. B : \A i \in 1 .. AuxLimAt(c, k) :
            \A a \in c.aux[i].just : \E j \in DOMAIN U : U[j].lit = a /\ U[j].lvl <= k
    BY <1>c, <1>u DEF ClausesOK, T, B
  <2> QED
    BY <1>c, <1>f, <1>s, <2>1 DEF ClausesOK, B
<1>4. SoundOK(d)
  <2>1. \A k \in 0 .. B : BaseImplied(U, k, ModelsAt(c, k))
    BY <1>c, <1>u DEF SoundOK, BaseImplied, T, B
  <2> QED
    BY <1>c, <1>f, <1>s, <2>1 DEF SoundOK, B
<1>5. JustifiedOK(d)
  <2>1. \A i \in DOMAIN U : \A m \in ModelsAt(c, B) : U[i].lit \in m
    <3>1. B \in 0 .. B
      BY <1>t
    <3>2. BaseImplied(T, B, ModelsAt(c, B))
      BY <1>c, <3>1 DEF SoundOK, T, B
    <3> QED
      BY <1>t, <1>u, <3>2 DEF BaseImplied
  <2> QED
    BY <1>f, <1>s, <2>1 DEF JustifiedOK, WhyImplies, UnitsImplied
<1>6. ConflictOK(d)
  <2>1. \A x, k : (\E i \in DOMAIN T : T[i].lit = x /\ T[i].lvl <= k)
                   => \E i \in DOMAIN U : U[i].lit = x /\ U[i].lvl <= k
    BY <1>u
  <2> QED
    BY <1>a, <1>c, <1>f, <1>s, <2>1 DEF ConflictOK, T, B
<1>7. RepresentedOK(d)
  <2>1. \A k, m : HoldsAt(d, k, m) => HoldsAt(c, k, m)
    BY <1>f, <1>s, <1>u DEF HoldsAt, T
  <2> QED
    BY <1>c, <1>f, <1>s, <2>1 DEF RepresentedOK, B
<1>8. QueueOK(d)
  BY <1>c, <1>f, <1>s, <1>u DEF QueueOK, T
<1>9. \A w, pending : WatchOK(c, w, pending) => WatchOK(d, w, pending)
  <2>1. \A p \in DOMAIN T : Passed(d, p) = Passed(c, p)
    BY <1>f, <1>s, <1>u DEF Passed, T
  <2> QED
    BY <1>f, <1>s, <1>u, <2>1 DEF WatchOK, T
<1> QED
  BY <1>a, <1>f, <1>1, <1>2, <1>3, <1>4, <1>5, <1>6, <1>7, <1>8, <1>9 DEF CtxInv, d, T

(* The clauses that simplification leaves say no less, given the literals  *)
(* of the base level.                                                      *)
LEMMA ShrunkImplied ==
    ASSUME NEW c, CtxInv(c), ScopeLvl(c) = BaseLvl(c),
           NEW new, NEW old \in Watched, Shrunk(c, new, old), Implied(old.lits, ModelsAt(c, BaseLvl(c)))
    PROVE  Implied(new.lits, ModelsAt(c, BaseLvl(c)))
<1> SUFFICES ASSUME NEW m \in ModelsAt(c, BaseLvl(c))
             PROVE  new.lits \cap m # {}
  BY DEF Implied
<1>c. c \in ContextType /\ LevelsOK(c) /\ SoundOK(c)
  BY DEF CtxInv
<1>1. PICK l \in old.lits : l \in m
  BY DEF Implied
<1>2. l \in Literals /\ m \in Valuations
  BY DEF Watched, Clauses, ModelsAt
<1>3. ~False(c.trail, l)
  <2> SUFFICES ASSUME NEW i \in DOMAIN c.trail, c.trail[i].lit = -l
               PROVE  FALSE
    BY DEF False, True
  <2>1. c.trail[i].lvl <= BaseLvl(c)
    BY <1>c DEF LevelsOK
  <2>2. BaseLvl(c) \in 0 .. BaseLvl(c)
    BY <1>c, Types
  <2>3. -l \in m
    BY <1>c, <2>1, <2>2 DEF SoundOK, BaseImplied
  <2> QED
    BY <1>1, <1>2, <2>3, ValuationFacts
<1> QED
  BY <1>1, <1>3 DEF Shrunk

LEMMA SimplifiedKeep ==
    ASSUME NEW c, CtxInv(c), ScopeLvl(c) = BaseLvl(c), WatchesOK(c, {}),
           NEW A, Simplified(c, c.aux, AuxLim(c), A),
           NEW L, Simplified(c, c.lemmas, LemmasLim(c), L),
           NEW d, d = [c EXCEPT !.aux = A, !.lemmas = L]
    PROVE  CtxInv(d) /\ WatchesOK(d, {})
<1> DEFINE B == BaseLvl(c)
<1>c. /\ c \in ContextType /\ ScopesOK(c) /\ LevelsOK(c) /\ ClausesOK(c) /\ SoundOK(c)
      /\ Len(c.aux) \in Nat /\ DOMAIN c.aux = 1 .. Len(c.aux)
      /\ Len(c.lemmas) \in Nat /\ DOMAIN c.lemmas = 1 .. Len(c.lemmas)
      /\ \A i \in DOMAIN c.aux : c.aux[i] \in Watched
      /\ \A i \in DOMAIN c.lemmas : c.lemmas[i] \in Watched
  BY Types DEF CtxInv
<1>l. /\ AuxLim(c) \in Nat /\ LemmasLim(c) \in Nat
      /\ \A j \in 1 .. B : /\ c.scopes[j].aux \in Nat /\ c.scopes[j].aux <= AuxLim(c)
                           /\ c.base[j].lemmas \in Nat /\ c.base[j].lemmas <= LemmasLim(c)
      /\ \A k \in 0 .. B : k # B =>
            /\ AuxLimAt(c, k) \in Nat /\ AuxLimAt(c, k) <= AuxLim(c)
            /\ LemmasLimAt(c, k) \in Nat /\ LemmasLimAt(c, k) <= LemmasLim(c)
      /\ AuxLimAt(c, B) = Len(c.aux) /\ LemmasLimAt(c, B) = Len(c.lemmas)
  BY InnermostLimits
<1>b. B \in Nat /\ B \in 0 .. B
  BY <1>c, Types
<1>a. /\ A \in Seq(Watched) /\ Len(A) \in Nat /\ DOMAIN A = 1 .. Len(A) /\ AuxLim(c) <= Len(A)
      /\ \A j \in 1 .. AuxLim(c) : j \in DOMAIN A /\ A[j] = c.aux[j]
      /\ \A j \in DOMAIN A : \E x \in DOMAIN c.aux : Shrunk(c, A[j], c.aux[x])
      /\ \A x \in DOMAIN c.aux : TrueClause(c, c.aux[x]) \/ \E j \in DOMAIN A : Shrunk(c, A[j], c.aux[x])
  BY DEF Simplified
<1>m. /\ L \in Seq(Watched) /\ Len(L) \in Nat /\ DOMAIN L = 1 .. Len(L) /\ LemmasLim(c) <= Len(L)
      /\ \A j \in 1 .. LemmasLim(c) : j \in DOMAIN L /\ L[j] = c.lemmas[j]
      /\ \A j \in DOMAIN L : \E x \in DOMAIN c.lemmas : Shrunk(c, L[j], c.lemmas[x])
  BY DEF Simplified
<1>f. /\ d.formulas = c.formulas /\ d.fqhead = c.fqhead /\ d.scopes = c.scopes /\ d.base = c.base
      /\ d.aux = A /\ d.lemmas = L /\ d.trail = c.trail
  BY <1>c DEF ContextType
<1> HIDE DEF B
<1>s. /\ ScopeLvl(d) = ScopeLvl(c) /\ BaseLvl(d) = B
      /\ \A k : ModelsAt(d, k) = ModelsAt(c, k) /\ FormulasLimAt(d, k) = FormulasLimAt(c, k)
  <2>1. d.formulas = c.formulas /\ d.scopes = c.scopes /\ d.base = c.base
    BY <1>f
  <2>2. ScopeLvl(d) = ScopeLvl(c) /\ BaseLvl(d) = BaseLvl(c)
    BY <2>1, SameScopes
  <2>3. \A k : ModelsAt(d, k) = ModelsAt(c, k) /\ FormulasLimAt(d, k) = FormulasLimAt(c, k)
    BY <2>1, SameScopes
  <2> QED
    BY <2>2, <2>3 DEF B
<1>k. /\ AuxLimAt(d, B) = Len(A) /\ LemmasLimAt(d, B) = Len(L)
      /\ \A k \in 0 .. B : k # B => AuxLimAt(d, k) = AuxLimAt(c, k) /\ LemmasLimAt(d, k) = LemmasLimAt(c, k)
  <2>1. \A k \in 0 .. B : k # B => k < B
    BY <1>b
  <2> QED
    BY <1>b, <1>f, <1>s, <2>1 DEF AuxLimAt, LemmasLimAt, B
<1>h. /\ \A k \in 0 .. B : k # B => \A i \in 1 .. AuxLimAt(d, k) :
            i \in 1 .. AuxLimAt(c, k) /\ A[i] = c.aux[i]
      /\ \A k \in 0 .. B : k # B => \A i \in 1 .. LemmasLimAt(d, k) :
            i \in 1 .. LemmasLimAt(c, k) /\ L[i] = c.lemmas[i]
  <2>1. \A k \in 0 .. B : k # B => \A i \in 1 .. AuxLimAt(c, k) : i \in 1 .. AuxLim(c)
    BY <1>l DEF B
  <2>2. \A k \in 0 .. B : k # B => \A i \in 1 .. LemmasLimAt(c, k) : i \in 1 .. LemmasLim(c)
    BY <1>l DEF B
  <2> QED
    BY <1>a, <1>m, <1>k, <2>1, <2>2
<1>6. \A j \in 1 .. ScopeLvl(c) : /\ c.scopes[j].aux <= Len(A)
                                  /\ j > BaseLvl(c) => c.scopes[j].aux = Len(A)
  BY <1>a, <1>b, <1>l DEF B
<1>7. \A j \in 1 .. B : c.base[j].lemmas <= Len(L)
  <2>1. \A j \in 1 .. B : c.base[j].lemmas \in Nat /\ c.base[j].lemmas <= LemmasLim(c)
    BY <1>l DEF B
  <2>2. LemmasLim(c) \in Nat /\ Len(L) \in Nat /\ LemmasLim(c) <= Len(L)
    BY <1>l, <1>m
  <2> QED
    BY <2>1, <2>2
<1>w. \A new, old : Shrunk(c, new, old) /\ WatchesTwo(old) => WatchesTwo(new)
  BY DEF Shrunk, WatchesTwo
<1>8. ClausesOK(d)
  <2>1. \A i \in DOMAIN A : WatchesTwo(A[i])
    BY <1>a, <1>c, <1>w DEF ClausesOK
  <2>2. \A i \in DOMAIN L : WatchesTwo(L[i]) /\ L[i].just = {}
    BY <1>c, <1>m, <1>w DEF ClausesOK, Shrunk
  <2>3. ASSUME NEW k \in 0 .. B, NEW i \in 1 .. AuxLimAt(d, k)
        PROVE  /\ \A a \in A[i].just : \E j \in DOMAIN c.trail : c.trail[j].lit = a /\ c.trail[j].lvl <= k
               /\ \E j \in 1 .. FormulasLimAt(c, k) : A[i].lits \subseteq c.formulas[j]
    <3>1. CASE k # B
      BY <1>c, <1>h, <2>3, <3>1 DEF ClausesOK, B
    <3>2. CASE k = B
      <4>1. PICK x \in DOMAIN c.aux : Shrunk(c, A[i], c.aux[x])
        BY <1>a, <1>k, <2>3, <3>2
      <4>2. x \in 1 .. AuxLimAt(c, B)
        BY <1>c, <1>l, <4>1 DEF B
      <4>3. /\ \A a \in c.aux[x].just : \E j \in DOMAIN c.trail : c.trail[j].lit = a /\ c.trail[j].lvl <= k
            /\ \E j \in 1 .. FormulasLimAt(c, k) : c.aux[x].lits \subseteq c.formulas[j]
        BY <1>b, <1>c, <3>2, <4>2 DEF ClausesOK, B
      <4> QED
        BY <4>1, <4>3 DEF Shrunk
    <3> QED
      BY <3>1, <3>2
  <2> QED
    BY <1>f, <1>s, <2>1, <2>2, <2>3 DEF ClausesOK
<1>9. \A k \in 0 .. B : \A i \in 1 .. AuxLimAt(d, k) : Implied(A[i].lits, ModelsAt(c, k))
  <2> SUFFICES ASSUME NEW k \in 0 .. B, NEW i \in 1 .. AuxLimAt(d, k)
               PROVE  Implied(A[i].lits, ModelsAt(c, k))
    OBVIOUS
  <2>1. CASE k # B
    BY <1>c, <1>h, <2>1 DEF SoundOK, B
  <2>2. CASE k = B
    <3>1. PICK x \in DOMAIN c.aux : Shrunk(c, A[i], c.aux[x])
      BY <1>a, <1>k, <2>2
    <3>2. Implied(c.aux[x].lits, ModelsAt(c, B))
      BY <1>b, <1>c, <1>l, <3>1 DEF SoundOK, B
    <3> QED
      BY <1>c, <2>2, <3>1, <3>2, ShrunkImplied DEF B
  <2> QED
    BY <2>1, <2>2
<1>10. \A k \in 0 .. B : \A i \in 1 .. LemmasLimAt(d, k) : Implied(L[i].lits, ModelsAt(c, k))
  <2> SUFFICES ASSUME NEW k \in 0 .. B, NEW i \in 1 .. LemmasLimAt(d, k)
               PROVE  Implied(L[i].lits, ModelsAt(c, k))
    OBVIOUS
  <2>1. CASE k # B
    BY <1>c, <1>h, <2>1 DEF SoundOK, B
  <2>2. CASE k = B
    <3>1. PICK x \in DOMAIN c.lemmas : Shrunk(c, L[i], c.lemmas[x])
      BY <1>k, <1>m, <2>2
    <3>2. Implied(c.lemmas[x].lits, ModelsAt(c, B))
      BY <1>b, <1>c, <1>l, <3>1 DEF SoundOK, B
    <3> QED
      BY <1>c, <2>2, <3>1, <3>2, ShrunkImplied DEF B
  <2> QED
    BY <2>1, <2>2
<1>11. \A k \in 0 .. B : \A m \in Valuations : HoldsAt(d, k, m) => HoldsAt(c, k, m)
  <2> SUFFICES ASSUME NEW k \in 0 .. B, NEW m \in Valuations, HoldsAt(d, k, m)
               PROVE  HoldsAt(c, k, m)
    OBVIOUS
  <2>1. /\ \A i \in 1 .. AuxLimAt(d, k) : A[i].lits \cap m # {}
        /\ \A i \in DOMAIN c.trail : c.trail[i].lvl <= k => c.trail[i].lit \in m
    BY <1>f DEF HoldsAt
  <2>2. ASSUME NEW i \in 1 .. AuxLimAt(c, k)
        PROVE  c.aux[i].lits \cap m # {}
    <3>1. CASE k # B
      BY <1>h, <1>k, <2>1, <2>2, <3>1
    <3>2. CASE k = B
      <4>1. i \in DOMAIN c.aux
        BY <1>c, <1>l, <2>2, <3>2 DEF B
      <4>2. CASE TrueClause(c, c.aux[i])
        <5>1. PICK l \in c.aux[i].lits, j \in DOMAIN c.trail : c.trail[j].lit = l
          BY <4>2 DEF TrueClause, True
        <5>2. c.trail[j].lvl <= k
          BY <1>c, <3>2 DEF LevelsOK, B
        <5> QED
          BY <2>1, <5>1, <5>2
      <4>3. CASE ~TrueClause(c, c.aux[i])
        <5>1. PICK j \in DOMAIN A : Shrunk(c, A[j], c.aux[i])
          BY <1>a, <4>1, <4>3
        <5>2. A[j].lits \cap m # {}
          BY <1>a, <1>k, <2>1, <3>2
        <5> QED
          BY <5>1, <5>2 DEF Shrunk
      <4> QED
        BY <4>2, <4>3
    <3> QED
      BY <3>1, <3>2
  <2> QED
    BY <2>1, <2>2 DEF HoldsAt
<1>12. AsGood(c, A, L, d)
  BY <1>6, <1>7, <1>8, <1>9, <1>10, <1>11, <1>a, <1>m DEF AsGood, B
<1>13. /\ CtxInv(d)
       /\ \A w, pending : WatchOK(d, w, pending) <=> WatchOK(c, w, pending)
  BY <1>12, ClausesKeep
<1>14. \A i \in DOMAIN A : WatchOK(d, A[i], FALSE)
  <2> TAKE i \in DOMAIN A
  <2>1. PICK x \in DOMAIN c.aux : Shrunk(c, A[i], c.aux[x])
    BY <1>a
  <2>2. WatchOK(c, c.aux[x], FALSE)
    BY WatchesSplit
  <2>3. A[i].watch = c.aux[x].watch
    BY <2>1 DEF Shrunk
  <2> QED
    BY <1>13, <2>2, <2>3, SameWatch
<1>15. \A i \in DOMAIN L : WatchOK(d, L[i], FALSE)
  <2> TAKE i \in DOMAIN L
  <2>1. PICK x \in DOMAIN c.lemmas : Shrunk(c, L[i], c.lemmas[x])
    BY <1>m
  <2>2. WatchOK(c, c.lemmas[x], FALSE)
    BY WatchesSplit
  <2>3. L[i].watch = c.lemmas[x].watch
    BY <2>1 DEF Shrunk
  <2> QED
    BY <1>13, <2>2, <2>3, SameWatch
<1>16. WatchesOK(d, {})
  BY <1>14, <1>15, <1>f, WatchesSplit
<1> QED
  BY <1>13, <1>16

LEMMA SimplifyKeeps ==
    ASSUME NEW c, CtxInv(c), WatchesOK(c, {})
    PROVE  LET d == SimplifyClauses(c)
           IN  /\ CtxInv(d) /\ WatchesOK(d, {})
               /\ d.formulas = c.formulas /\ d.fqhead = c.fqhead /\ d.scopes = c.scopes /\ d.base = c.base
               /\ d.search = c.search /\ d.qhead = c.qhead /\ d.conflict = c.conflict
               /\ d.assumptions = c.assumptions /\ Len(d.trail) = Len(c.trail)
               /\ \A i \in 1 .. Len(c.trail) :
                     d.trail[i].lit = c.trail[i].lit /\ d.trail[i].lvl = c.trail[i].lvl
<1>1. CASE ScopeLvl(c) > BaseLvl(c)
  <2>1. SimplifyClauses(c) = c
    BY <1>1 DEF SimplifyClauses
  <2> QED
    BY <2>1
<1>2. CASE ~(ScopeLvl(c) > BaseLvl(c))
  <2> DEFINE inner == Range(SubSeq(c.aux, AuxLim(c) + 1, Len(c.aux)))
                      \cup Range(SubSeq(c.lemmas, LemmasLim(c) + 1, Len(c.lemmas)))
             gone == {w \in inner : TrueClause(c, w)}
             U == [i \in DOMAIN c.trail |->
                     IF \E w \in gone : Justifies(w, c.trail[i]) THEN [c.trail[i] EXCEPT !.why = {}]
                     ELSE c.trail[i]]
             A == SimplifyFrom(c, c.aux, AuxLim(c))
             L == SimplifyFrom(c, c.lemmas, LemmasLim(c))
             e == [c EXCEPT !.aux = A, !.lemmas = L]
             d == [e EXCEPT !.trail = U]
  <2>c. /\ c \in ContextType /\ c.aux \in Seq(Watched) /\ c.lemmas \in Seq(Watched)
        /\ c.trail \in Seq(Entries) /\ DOMAIN c.trail = 1 .. Len(c.trail) /\ Len(c.trail) \in Nat
    BY Fields, Types DEF CtxInv
  <2>b. ScopeLvl(c) = BaseLvl(c)
    <3>1. BaseLvl(c) <= ScopeLvl(c) /\ BaseLvl(c) \in Nat /\ ScopeLvl(c) \in Nat
      BY Types DEF CtxInv, ScopesOK
    <3> QED
      BY <1>2, <3>1
  <2>1. SimplifyClauses(c) = [c EXCEPT !.aux = A, !.lemmas = L, !.trail = U]
    BY <1>2 DEF SimplifyClauses
  <2> HIDE DEF gone
  <2>2. SameLiterals(c.trail, U)
    <3>1. \A i \in 1 .. Len(c.trail) : c.trail[i] \in Entries
      BY <2>c
    <3>2. \A x \in Entries : LET y == [x EXCEPT !.why = {}]
                             IN  y \in Entries /\ y.lit = x.lit /\ y.lvl = x.lvl /\ y.why \subseteq x.why
      BY DEF Entries, Clauses
    <3>3. \A i \in 1 .. Len(c.trail) : U[i] = c.trail[i] \/ U[i] = [c.trail[i] EXCEPT !.why = {}]
      BY <2>c
    <3>4. \A i \in 1 .. Len(c.trail) :
             /\ U[i] \in Entries /\ U[i].lit = c.trail[i].lit /\ U[i].lvl = c.trail[i].lvl
             /\ U[i].why \subseteq c.trail[i].why
      BY <3>1, <3>2, <3>3
    <3>5. U = [i \in 1 .. Len(c.trail) |-> U[i]]
      BY <2>c
    <3> HIDE DEF U
    <3>6. /\ [i \in 1 .. Len(c.trail) |-> U[i]] \in Seq(Entries)
          /\ Len([i \in 1 .. Len(c.trail) |-> U[i]]) = Len(c.trail)
      BY <2>c, <3>4
    <3> QED
      BY <3>4, <3>5, <3>6 DEF SameLiterals
  <2>3. AuxLim(c) \in Nat /\ AuxLim(c) <= Len(c.aux) /\ LemmasLim(c) \in Nat /\ LemmasLim(c) <= Len(c.lemmas)
    BY InnermostLimits
  <2>4. Simplified(c, c.aux, AuxLim(c), A) /\ Simplified(c, c.lemmas, LemmasLim(c), L)
    BY <2>c, <2>3, SimplifyFromFacts
  <2>n. SimplifyClauses(c) = d
    BY <2>1, <2>c DEF ContextType
  <2> HIDE DEF U, A, L
  <2>e. e = [c EXCEPT !.aux = A, !.lemmas = L]
    OBVIOUS
  <2>5. CtxInv(e) /\ WatchesOK(e, {})
    <3> HIDE DEF e
    <3> QED
      BY <2>4, <2>b, <2>e, SimplifiedKeep, Zenon
  <2>6. /\ e.formulas = c.formulas /\ e.fqhead = c.fqhead /\ e.scopes = c.scopes /\ e.base = c.base
        /\ e.search = c.search /\ e.qhead = c.qhead /\ e.conflict = c.conflict
        /\ e.assumptions = c.assumptions /\ e.trail = c.trail
        /\ e \in ContextType
    BY <2>5, <2>c DEF ContextType, CtxInv
  <2> HIDE DEF e
  <2>7. /\ d.formulas = c.formulas /\ d.fqhead = c.fqhead /\ d.scopes = c.scopes /\ d.base = c.base
        /\ d.search = c.search /\ d.qhead = c.qhead /\ d.conflict = c.conflict
        /\ d.assumptions = c.assumptions /\ d.trail = U /\ d.aux = e.aux /\ d.lemmas = e.lemmas
    BY <2>6 DEF ContextType
  <2>8. ScopeLvl(e) = BaseLvl(e) /\ SameLiterals(e.trail, U)
    BY <2>2, <2>6, <2>b DEF ScopeLvl, BaseLvl
  <2>9. CtxInv(d) /\ \A w, pending : WatchOK(e, w, pending) => WatchOK(d, w, pending)
    BY <2>5, <2>8, AxiomsKeep
  <2> HIDE DEF d
  <2>10. WatchesOK(d, {})
    BY <2>5, <2>7, <2>9, WatchesSplit
  <2>11. /\ Len(U) = Len(c.trail)
         /\ \A i \in 1 .. Len(c.trail) : U[i].lit = c.trail[i].lit /\ U[i].lvl = c.trail[i].lvl
    BY <2>2 DEF SameLiterals
  <2> QED
    BY <2>7, <2>9, <2>10, <2>11, <2>n
<1> QED
  BY <1>1, <1>2

-----------------------------------------------------------------------------
(* A formula is internalized.                                              *)
LEMMA FirstFacts ==
    ASSUME NEW lits \in SUBSET Literals, lits # {}
    PROVE  First(lits) \in lits
<1> DEFINE I == {Index(l) : l \in lits}
<1>1. I \in SUBSET Nat /\ I # {}
  <2>1. \A l \in lits : l \in Int
    BY LiteralFacts
  <2>2. \A l \in lits : Index(l) \in Nat
    BY <2>1 DEF Index
  <2> QED
    BY <2>2
<1>2. PICK x \in I : \A y \in I : x <= y
  BY <1>1, LeastNat
<1>3. \E l \in lits : \A k \in lits : Index(l) <= Index(k)
  BY <1>2
<1> QED
  BY <1>3 DEF First

LEMMA FirstTwoFacts ==
    ASSUME NEW lits \in SUBSET Literals, lits # {}, ~\E l \in lits : lits = {l}
    PROVE  \E a, b \in lits : a # b /\ FirstTwo(lits) = {a, b}
<1> DEFINE a == First(lits)
           b == First(lits \ {a})
<1>1. a \in lits
  BY FirstFacts
<1>2. FirstTwo(lits) = {a, b}
  BY DEF FirstTwo
<1> HIDE DEF a
<1>3. lits \ {a} # {} /\ lits \ {a} \in SUBSET Literals
  BY <1>1
<1>4. b \in lits \ {a}
  BY <1>3, FirstFacts
<1> HIDE DEF b
<1> QED
  BY <1>1, <1>2, <1>4

(* At the base level the formulas imply every assigned literal.            *)
LEMMA BaseTrue ==
    ASSUME NEW c, CtxInv(c), ScopeLvl(c) = BaseLvl(c), NEW l, True(c.trail, l)
    PROVE  /\ \A m \in ModelsAt(c, BaseLvl(c)) : l \in m
           /\ \A m : HoldsAt(c, BaseLvl(c), m) => l \in m
<1>1. c \in ContextType /\ LevelsOK(c) /\ SoundOK(c)
  BY DEF CtxInv
<1>2. PICK i \in DOMAIN c.trail : c.trail[i].lit = l
  BY DEF True
<1>3. c.trail[i].lvl <= BaseLvl(c)
  BY <1>1 DEF LevelsOK
<1>4. BaseLvl(c) \in 0 .. BaseLvl(c)
  BY <1>1, Types
<1> QED
  BY <1>1, <1>2, <1>3, <1>4 DEF SoundOK, BaseImplied, HoldsAt

(* The context after mk_clause for formula f, whose models it keeps.       *)
MadeClause(c, f, e) ==
    /\ CtxInv(e) /\ WatchesOK(e, {})
    /\ e.formulas = c.formulas /\ e.fqhead = c.fqhead /\ e.scopes = c.scopes /\ e.base = c.base
    /\ e.search = c.search /\ e.assumptions = c.assumptions
    /\ Inconsistent(e) \/ \A m \in Valuations : HoldsAt(e, BaseLvl(e), m) => f \cap m # {}

LEMMA MkAuxKeeps ==
    ASSUME NEW c, CtxInv(c), ScopeLvl(c) = BaseLvl(c), WatchesOK(c, {}),
           NEW j \in 1 .. Len(c.formulas)
    PROVE  MadeClause(c, c.formulas[j], MkAuxClause(c, c.formulas[j]))
<1> DEFINE f == c.formulas[j]
           left == {l \in f : ~False(c.trail, l)}
           just == {-l : l \in f \ left}
           B == BaseLvl(c)
           e == MkAuxClause(c, f)
<1>c. /\ c \in ContextType /\ ScopesOK(c) /\ f \in SUBSET Literals /\ B \in Nat
      /\ c.search \in Nat /\ B <= c.search
  <2>1. /\ c \in ContextType /\ c.search \in B .. (B + 1) /\ ScopesOK(c)
    BY DEF CtxInv, ScopesOK
  <2>2. /\ f \in SUBSET Literals /\ B \in Nat /\ c.search \in Nat
    BY <2>1, Types
  <2> QED
    BY <2>1, <2>2
<1>f. \A m \in ModelsAt(c, B) : m \in Valuations /\ f \cap m # {}
  <2>1. FormulasLimAt(c, B) = Len(c.formulas)
    BY <1>c DEF FormulasLimAt
  <2> QED
    BY <2>1 DEF ModelsAt
<1>x. \A l \in f : -l \in Literals /\ -(-l) = l /\ l \in Literals
  BY <1>c, LiteralFacts
<1>v. \A m \in Valuations : \A l \in f : l \in m <=> -l \notin m
  BY <1>c, ValuationFacts
<1>t. \A l \in f \ left : True(c.trail, -l)
  BY DEF False
<1>j. just \in SUBSET Literals /\ \A a \in just : True(c.trail, a)
  BY <1>t, <1>x
<1>b. /\ \A l : True(c.trail, l) => \A m \in ModelsAt(c, B) : l \in m
      /\ \A l : True(c.trail, l) => \A m : HoldsAt(c, B, m) => l \in m
  BY BaseTrue
<1>e. e = IF \E l \in left : True(c.trail, l) \/ -l \in left THEN c
          ELSE IF left = {} THEN [c EXCEPT !.conflict = IF Inconsistent(c) THEN @ ELSE f]
          ELSE IF \E l \in left : left = {l} THEN Assign(c, CHOOSE l \in left : TRUE, just)
          ELSE [c EXCEPT !.aux = Append(@, [lits |-> left, watch |-> FirstTwo(left), just |-> just])]
  BY DEF MkAuxClause
<1>i. left \subseteq f
  OBVIOUS
<1>n. \A l \in left : ~False(c.trail, l)
  OBVIOUS
<1> SUFFICES MadeClause(c, f, e)
  OBVIOUS
<1> HIDE DEF f, left, just, B, e
<1>1. CASE \E l \in left : True(c.trail, l) \/ -l \in left
  <2>1. e = c
    BY <1>1, <1>e
  <2>2. ASSUME NEW m \in Valuations, HoldsAt(c, B, m)
        PROVE  f \cap m # {}
    <3>1. PICK l \in left : True(c.trail, l) \/ -l \in left
      BY <1>1
    <3>2. CASE True(c.trail, l)
      BY <1>b, <1>i, <2>2, <3>1, <3>2
    <3>3. CASE -l \in left
      BY <1>i, <1>v, <3>1, <3>3
    <3> QED
      BY <3>1, <3>2, <3>3
  <2> QED
    BY <2>1, <2>2 DEF MadeClause, B
<1>2. CASE ~(\E l \in left : True(c.trail, l) \/ -l \in left) /\ left = {}
  <2>1. CASE Inconsistent(c)
    <3>1. e = c
      BY <1>2, <1>c, <1>e, <2>1 DEF ContextType
    <3> QED
      BY <2>1, <3>1 DEF MadeClause
  <2>2. CASE ~Inconsistent(c)
    <3>1. e = [c EXCEPT !.conflict = f]
      BY <1>2, <1>e, <2>2
    <3>2. \A l \in f : False(c.trail, l)
      BY <1>2, <1>t DEF False
    <3>3. Implied(f, ModelsAt(c, B))
      BY <1>f DEF Implied
    <3>4. CtxInv(e) /\ Inconsistent(e) /\ \A w, pending : WatchOK(c, w, pending) => WatchOK(e, w, pending)
      BY <1>c, <2>2, <3>1, <3>2, <3>3, ConflictKeeps DEF B
    <3>5. /\ e.formulas = c.formulas /\ e.fqhead = c.fqhead /\ e.scopes = c.scopes /\ e.base = c.base
          /\ e.search = c.search /\ e.assumptions = c.assumptions /\ e.aux = c.aux /\ e.lemmas = c.lemmas
      BY <1>c, <3>1 DEF ContextType
    <3>6. WatchesOK(e, {})
      BY <3>4, <3>5, WatchesSplit
    <3> QED
      BY <3>4, <3>5, <3>6 DEF MadeClause
  <2> QED
    BY <2>1, <2>2
<1>3. CASE /\ ~(\E l \in left : True(c.trail, l) \/ -l \in left)
           /\ \E l \in left : left = {l}
  <2>1. PICK l \in left : left = {l}
    BY <1>3
  <2>2. e = Assign(c, l, just)
    <3>1. (CHOOSE x \in left : TRUE) = l
      BY <2>1
    <3>2. left # {}
      BY <2>1
    <3> QED
      BY <1>3, <1>e, <3>1, <3>2
  <2>3. Propagates(c, l, just)
    <3>1. ASSUME NEW m \in ModelsAt(c, B), just \subseteq m
          PROVE  l \in m
      <4>1. PICK k \in f : k \in m
        BY <1>f
      <4>2. CASE k \in left
        BY <2>1, <4>1, <4>2
      <4>3. CASE k \notin left
        <5>1. -k \in just
          BY <4>1, <4>3 DEF just
        <5> QED
          BY <1>f, <1>v, <3>1, <4>1, <5>1
      <4> QED
        BY <4>2, <4>3
    <3>2. ~(ScopeLvl(c) > BaseLvl(c)) /\ ScopeLvl(c) <= c.search
      BY <1>c DEF B
    <3> QED
      BY <3>1, <3>2 DEF Propagates, B
  <2>4. Assignable(c, l, just)
    BY <1>3, <1>i, <1>j, <1>n, <1>x, <2>1, <2>3 DEF Assignable
  <2> DEFINE y == [lit |-> l, lvl |-> ScopeLvl(c), why |-> just]
  <2>5. /\ CtxInv(e) /\ e = [c EXCEPT !.trail = Append(c.trail, y)]
        /\ \A w, pending : WatchOK(c, w, pending) => WatchOK(e, w, pending)
    BY <2>2, <2>4, AssignKeeps
  <2>6. /\ e.formulas = c.formulas /\ e.fqhead = c.fqhead /\ e.scopes = c.scopes /\ e.base = c.base
        /\ e.search = c.search /\ e.assumptions = c.assumptions /\ e.aux = c.aux /\ e.lemmas = c.lemmas
        /\ e.trail = Append(c.trail, y)
    BY <1>c, <2>5 DEF ContextType
  <2>7. WatchesOK(e, {})
    BY <2>5, <2>6, WatchesSplit
  <2>8. ASSUME NEW m, HoldsAt(e, BaseLvl(e), m)
        PROVE  f \cap m # {}
    <3>1. BaseLvl(e) = B
      BY <2>6 DEF BaseLvl, B
    <3>2. y.lit = l /\ y.lvl = B /\ y.why = just
      BY DEF B
    <3>3. y \in Entries
      BY <1>c, <1>i, <1>j, <1>x DEF Entries, Clauses, B
    <3>4. c.trail \in Seq(Entries) /\ Len(c.trail) \in Nat
      BY <1>c, Fields
    <3> HIDE DEF y
    <3>5. Len(c.trail) + 1 \in DOMAIN e.trail /\ e.trail[Len(c.trail) + 1] = y
      <4>1. DOMAIN Append(c.trail, y) = 1 .. (Len(c.trail) + 1) /\ Append(c.trail, y)[Len(c.trail) + 1] = y
        BY <3>3, <3>4, AppendFacts
      <4>2. Len(c.trail) + 1 \in 1 .. (Len(c.trail) + 1)
        BY <3>4
      <4> QED
        BY <2>6, <4>1, <4>2
    <3>6. l \in m
      BY <1>c, <2>8, <3>1, <3>2, <3>5 DEF HoldsAt
    <3> QED
      BY <1>i, <3>6
  <2> QED
    BY <2>5, <2>6, <2>7, <2>8 DEF MadeClause
<1>4. CASE /\ ~(\E l \in left : True(c.trail, l) \/ -l \in left) /\ left # {}
           /\ ~\E l \in left : left = {l}
  <2> DEFINE x == [lits |-> left, watch |-> FirstTwo(left), just |-> just]
  <2>1. e = [c EXCEPT !.aux = Append(@, x)]
    BY <1>4, <1>e
  <2>2. left \in SUBSET Literals
    BY <1>i, <1>x
  <2>3. PICK a \in left, b \in left : a # b /\ FirstTwo(left) = {a, b}
    BY <1>4, <2>2, FirstTwoFacts
  <2>4. x \in Watched /\ x.lits = left /\ x.watch = {a, b} /\ x.just = just
    BY <1>j, <2>2, <2>3 DEF Watched, Clauses
  <2> HIDE DEF x
  <2>5. WatchesTwo(x)
    BY <2>3, <2>4 DEF WatchesTwo
  <2>6. Implied(x.lits, ModelsAt(c, B))
    <3> SUFFICES ASSUME NEW m \in ModelsAt(c, B)
                 PROVE  left \cap m # {}
      BY <2>4 DEF Implied
    <3>1. PICK k \in f : k \in m
      BY <1>f
    <3>2. CASE k \notin left
      BY <1>b, <1>f, <1>t, <1>v, <3>1, <3>2
    <3> QED
      BY <3>1, <3>2
  <2>7. \A a1 \in x.just : True(c.trail, a1)
    BY <1>j, <2>4
  <2>8. \E i \in 1 .. Len(c.formulas) : x.lits \subseteq c.formulas[i]
    BY <1>i, <2>4 DEF f
  <2>9. /\ CtxInv(e)
        /\ \A w, pending : WatchOK(e, w, pending) <=> WatchOK(c, w, pending)
        /\ \A m : HoldsAt(e, BaseLvl(e), m) => x.lits \cap m # {}
    BY <2>1, <2>4, <2>5, <2>6, <2>7, <2>8, AppendAuxKeeps DEF B
  <2>10. /\ e.formulas = c.formulas /\ e.fqhead = c.fqhead /\ e.scopes = c.scopes /\ e.base = c.base
         /\ e.search = c.search /\ e.assumptions = c.assumptions /\ e.lemmas = c.lemmas
         /\ e.aux = Append(c.aux, x)
    BY <1>c, <2>1 DEF ContextType
  <2>11. WatchOK(c, x, FALSE)
    <3>1. \A z \in x.watch : ~False(c.trail, z)
      BY <1>n, <2>3, <2>4
    <3> QED
      BY <3>1 DEF WatchOK, False, True
  <2>12. \A i \in DOMAIN e.aux : e.aux[i] = x \/ (i \in DOMAIN c.aux /\ e.aux[i] = c.aux[i])
    <3>1. c.aux \in Seq(Watched) /\ Len(c.aux) \in Nat /\ DOMAIN c.aux = 1 .. Len(c.aux)
      BY <1>c, Fields, Types
    <3>2. /\ DOMAIN Append(c.aux, x) = 1 .. (Len(c.aux) + 1) /\ Append(c.aux, x)[Len(c.aux) + 1] = x
          /\ \A i \in 1 .. Len(c.aux) : Append(c.aux, x)[i] = c.aux[i]
      BY <2>4, <3>1, AppendFacts
    <3>3. \A i \in 1 .. (Len(c.aux) + 1) : i = Len(c.aux) + 1 \/ i \in 1 .. Len(c.aux)
      BY <3>1
    <3> QED
      BY <2>10, <3>1, <3>2, <3>3
  <2>13. WatchesOK(e, {})
    BY <2>9, <2>10, <2>11, <2>12, WatchesSplit
  <2>14. \A m : HoldsAt(e, BaseLvl(e), m) => f \cap m # {}
    BY <1>i, <2>4, <2>9
  <2> QED
    BY <2>9, <2>10, <2>13, <2>14 DEF MadeClause
<1> QED
  BY <1>1, <1>2, <1>3, <1>4

LEMMA InternalizeKeeps ==
    ASSUME NEW c, CtxInv(c), ScopeLvl(c) = BaseLvl(c), WatchesOK(c, {}), c.fqhead < Len(c.formulas)
    PROVE  LET d == [MkAuxClause(c, c.formulas[c.fqhead + 1]) EXCEPT !.fqhead = @ + 1]
           IN  /\ CtxInv(d) /\ WatchesOK(d, {})
               /\ d.formulas = c.formulas /\ d.scopes = c.scopes /\ d.base = c.base
               /\ d.search = c.search /\ d.assumptions = c.assumptions
<1> DEFINE f == c.formulas[c.fqhead + 1]
           e == MkAuxClause(c, f)
           d == [e EXCEPT !.fqhead = @ + 1]
<1>1. c.fqhead + 1 \in 1 .. Len(c.formulas)
  BY Types DEF CtxInv
<1>2. MadeClause(c, f, e)
  BY <1>1, MkAuxKeeps
<1> HIDE DEF e
<1>3. /\ CtxInv(e) /\ WatchesOK(e, {}) /\ e \in ContextType
      /\ e.formulas = c.formulas /\ e.fqhead = c.fqhead /\ e.scopes = c.scopes /\ e.base = c.base
      /\ e.search = c.search /\ e.assumptions = c.assumptions
      /\ Inconsistent(e) \/ \A m \in Valuations : HoldsAt(e, BaseLvl(e), m) => f \cap m # {}
  BY <1>2 DEF MadeClause, CtxInv
<1>4. ScopeLvl(e) = BaseLvl(e) /\ f = e.formulas[e.fqhead + 1] /\ e.fqhead < Len(e.formulas)
  BY <1>3 DEF ScopeLvl, BaseLvl
<1>5. CtxInv(d) /\ \A w, pending : WatchOK(e, w, pending) => WatchOK(d, w, pending)
  BY <1>3, <1>4, FqheadKeeps
<1>6. /\ d.formulas = c.formulas /\ d.scopes = c.scopes /\ d.base = c.base
      /\ d.search = c.search /\ d.assumptions = c.assumptions
      /\ d.aux = e.aux /\ d.lemmas = e.lemmas
  BY <1>3 DEF ContextType
<1> HIDE DEF d
<1>7. WatchesOK(d, {})
  BY <1>3, <1>5, <1>6, WatchesSplit
<1> QED
  BY <1>5, <1>6, <1>7 DEF d, e

-----------------------------------------------------------------------------
(* A lemma is learned after the backjump to context p.                     *)
Learnable(p, lemma) ==
    /\ lemma.first \in Literals /\ lemma.rest \in SUBSET Literals
    /\ ~True(p.trail, lemma.first) /\ ~False(p.trail, lemma.first)
    /\ \A l \in lemma.rest : False(p.trail, l)
    /\ lemma.rest = {} => ScopeLvl(p) = p.search
    /\ lemma.rest # {} => \E l \in lemma.rest : \E i \in DOMAIN p.trail :
                              p.trail[i].lit = -l /\ p.trail[i].lvl = ScopeLvl(p)
    /\ Implied({lemma.first} \cup lemma.rest, ModelsAt(p, BaseLvl(p)))

(* The context d after the lemma: its first literal is assigned.           *)
Learned(p, lemma, d) ==
    /\ CtxInv(d) /\ WatchesOK(d, {})
    /\ d.formulas = p.formulas /\ d.fqhead = p.fqhead /\ d.scopes = p.scopes /\ d.base = p.base
    /\ d.search = p.search /\ d.assumptions = p.assumptions /\ d.conflict = p.conflict
    /\ \A i \in DOMAIN p.trail : i \in DOMAIN d.trail /\ d.trail[i] = p.trail[i]

(* select_learned_watch_lit.                                               *)
LEMMA SecondWatchFacts ==
    ASSUME NEW c, CtxInv(c), NEW lits, lits # {}, \A l \in lits : False(c.trail, l)
    PROVE  /\ SecondWatch(c, lits) \in lits
           /\ \A l \in lits : Level(c.trail, -l) \in Nat
           /\ \A l \in lits : Level(c.trail, -l) <= Level(c.trail, -SecondWatch(c, lits))
<1> DEFINE S == {Level(c.trail, -l) : l \in lits}
           n == ScopeLvl(c)
<1>1. c.trail \in Trails /\ LevelsOK(c) /\ n \in Nat
  BY Types DEF CtxInv, TrailOK
<1>2. \A l \in lits : Level(c.trail, -l) \in 0 .. n
  <2> TAKE l \in lits
  <2>1. True(c.trail, -l)
    BY DEF False
  <2>2. PICK i \in 1 .. Len(c.trail) : Level(c.trail, -l) = c.trail[i].lvl
    BY <1>1, <2>1, TrueFacts
  <2>3. i \in DOMAIN c.trail /\ c.trail[i].lvl \in Nat
    BY <2>2, Types DEF CtxInv
  <2>4. c.trail[i].lvl <= n
    BY <1>1, <2>3 DEF LevelsOK
  <2> QED
    BY <1>1, <2>2, <2>3, <2>4
<1>3. S \in SUBSET (0 .. n) /\ S # {}
  BY <1>2
<1>4. PICK x \in S : \A y \in S : y <= x
  BY <1>1, <1>3, GreatestNat
<1>5. \E l \in lits : \A k \in lits : Level(c.trail, -k) <= Level(c.trail, -l)
  BY <1>4
<1> QED
  BY <1>1, <1>2, <1>5 DEF SecondWatch

LEMMA MkLemmaKeeps ==
    ASSUME NEW p, CtxInv(p), WatchesOK(p, {}), NEW lemma, Learnable(p, lemma)
    PROVE  Learned(p, lemma, MkLemma(p, lemma))
<1> DEFINE first == lemma.first
           rest == lemma.rest
           T == p.trail
           d == MkLemma(p, lemma)
           M == ModelsAt(p, BaseLvl(p))
<1>c. /\ p \in ContextType /\ T \in Trails /\ T \in Seq(Entries) /\ DOMAIN T = 1 .. Len(T) /\ Len(T) \in Nat
      /\ ScopeLvl(p) \in Nat /\ BaseLvl(p) \in Nat /\ p.search \in Nat
  BY Types, Fields DEF CtxInv, TrailOK
<1>l. /\ first \in Literals /\ rest \in SUBSET Literals
      /\ ~True(T, first) /\ ~False(T, first)
      /\ \A l \in rest : False(T, l)
      /\ rest = {} => ScopeLvl(p) = p.search
      /\ rest # {} => \E l \in rest : \E i \in DOMAIN T : T[i].lit = -l /\ T[i].lvl = ScopeLvl(p)
      /\ Implied({first} \cup rest, M)
  BY DEF Learnable
<1>m. M \in SUBSET Valuations
  BY DEF ModelsAt
<1> SUFFICES Learned(p, lemma, d)
  OBVIOUS
<1>1. CASE rest = {}
  <2> DEFINE none == {}
             y == [lit |-> first, lvl |-> ScopeLvl(p), why |-> none]
  <2>1. d = Assign(p, first, none)
    BY <1>1 DEF MkLemma
  <2>n. none = {}
    OBVIOUS
  <2> HIDE DEF d, first, rest, none
  <2>2. Propagates(p, first, none)
    <3>1. \A m \in M : first \in m
      BY <1>1, <1>l DEF Implied
    <3>2. ScopeLvl(p) <= p.search
      BY <1>1, <1>c, <1>l
    <3> QED
      BY <2>n, <3>1, <3>2 DEF Propagates
  <2>3. Assignable(p, first, none)
    BY <1>l, <2>2, <2>n DEF Assignable
  <2>4. /\ CtxInv(d)
        /\ d = [p EXCEPT !.trail = Append(T, y)]
        /\ \A w, pending : WatchOK(p, w, pending) => WatchOK(d, w, pending)
    BY <2>1, <2>3, AssignKeeps
  <2>5. y \in Entries
    BY <1>c, <1>l, <2>n DEF Entries, Clauses
  <2> HIDE DEF y
  <2>6. /\ d.formulas = p.formulas /\ d.fqhead = p.fqhead /\ d.scopes = p.scopes /\ d.base = p.base
        /\ d.search = p.search /\ d.assumptions = p.assumptions /\ d.conflict = p.conflict
        /\ d.aux = p.aux /\ d.lemmas = p.lemmas /\ d.trail = Append(T, y)
    BY <1>c, <2>4 DEF ContextType
  <2>7. WatchesOK(d, {})
    BY <2>4, <2>6, WatchesSplit
  <2>8. \A i \in DOMAIN T : i \in DOMAIN d.trail /\ d.trail[i] = T[i]
    <3>1. /\ DOMAIN Append(T, y) = 1 .. (Len(T) + 1)
          /\ \A i \in 1 .. Len(T) : Append(T, y)[i] = T[i]
      BY <1>c, <2>5, AppendFacts
    <3>2. \A i \in 1 .. Len(T) : i \in 1 .. (Len(T) + 1)
      BY <1>c
    <3> QED
      BY <1>c, <2>6, <3>1, <3>2
  <2> QED
    BY <2>4, <2>6, <2>7, <2>8 DEF Learned
<1>2. CASE rest # {}
  <2> DEFINE sw == SecondWatch(p, rest)
             w == [lits |-> {first} \cup rest, watch |-> {first, sw}, just |-> {}]
             e == [p EXCEPT !.lemmas = Append(@, w)]
             why == Antecedents(w, first)
             y == [lit |-> first, lvl |-> ScopeLvl(p), why |-> why]
  <2>1. d = Assign(e, first, why)
    BY <1>2 DEF MkLemma
  <2>2. /\ sw \in rest
        /\ \A l \in rest : Level(T, -l) \in Nat
        /\ \A l \in rest : Level(T, -l) <= Level(T, -sw)
    BY <1>2, <1>l, SecondWatchFacts
  <2> HIDE DEF sw
  <2>3. first \notin rest
    BY <1>l
  <2>4. /\ w \in Watched /\ w.lits = {first} \cup rest /\ w.watch = {first, sw} /\ w.just = {}
        /\ WatchesTwo(w)
    <3>1. w \in Watched /\ w.lits = {first} \cup rest /\ w.watch = {first, sw} /\ w.just = {}
      BY <1>l, <2>2 DEF Watched, Clauses
    <3> QED
      BY <2>2, <2>3, <3>1 DEF WatchesTwo
  <2>y. why = {-k : k \in rest}
    <3>1. w.lits \ {first} = rest
      BY <2>3, <2>4
    <3> QED
      BY <2>4, <3>1 DEF Antecedents
  <2> HIDE DEF w, why, d
  <2>5. Implied(w.lits, ModelsAt(p, BaseLvl(p)))
    BY <1>l, <2>4
  <2>6. /\ CtxInv(e)
        /\ \A x, pending : WatchOK(e, x, pending) <=> WatchOK(p, x, pending)
    BY <2>4, <2>5, AppendLemmaKeeps
  <2>7. /\ e.formulas = p.formulas /\ e.fqhead = p.fqhead /\ e.scopes = p.scopes /\ e.base = p.base
        /\ e.search = p.search /\ e.assumptions = p.assumptions /\ e.conflict = p.conflict
        /\ e.aux = p.aux /\ e.trail = T /\ e.lemmas = Append(p.lemmas, w) /\ e \in ContextType
    BY <1>c, <2>6 DEF ContextType, CtxInv
  <2> HIDE DEF e
  <2>8. ScopeLvl(e) = ScopeLvl(p) /\ BaseLvl(e) = BaseLvl(p) /\ ModelsAt(e, BaseLvl(e)) = M
    BY <2>7, SameScopes
  <2>9. why \in SUBSET Literals /\ (\A a \in why : True(T, a)) /\ why # {}
    BY <1>2, <1>l, <2>y, LiteralFacts DEF False
  <2>10. \E j \in DOMAIN T : T[j].lit = -sw /\ T[j].lvl = ScopeLvl(p)
    <3>1. PICK l \in rest, i \in DOMAIN T : T[i].lit = -l /\ T[i].lvl = ScopeLvl(p)
      BY <1>2, <1>l
    <3>2. Level(T, -l) = ScopeLvl(p)
      BY <1>c, <3>1, EntryFacts
    <3>3. True(T, -sw)
      BY <1>l, <2>2 DEF False
    <3>4. PICK j \in 1 .. Len(T) : T[j].lit = -sw /\ Level(T, -sw) = T[j].lvl
      BY <1>c, <3>3, TrueFacts
    <3>5. T[j].lvl <= ScopeLvl(p) /\ T[j].lvl \in Nat
      <4>1. LevelsOK(p) /\ T[j].lvl \in Nat
        BY <3>4, Types DEF CtxInv
      <4> QED
        BY <1>c, <3>4, <4>1 DEF LevelsOK
    <3>6. ScopeLvl(p) <= T[j].lvl
      BY <2>2, <3>1, <3>2, <3>4
    <3>7. T[j].lvl = ScopeLvl(p)
      BY <1>c, <3>5, <3>6
    <3> QED
      BY <1>c, <3>4, <3>7
  <2>11. Propagates(e, first, why)
    <3>1. ASSUME NEW m \in M, why \subseteq m
          PROVE  first \in m
      <4>1. PICK l \in {first} \cup rest : l \in m
        BY <1>l DEF Implied
      <4>2. CASE l \in rest
        <5>1. -l \in m
          BY <2>y, <3>1, <4>2
        <5> QED
          BY <1>l, <1>m, <4>1, <4>2, <5>1, ValuationFacts
      <4> QED
        BY <4>1, <4>2
    <3>2. -sw \in why
      BY <2>2, <2>y
    <3> QED
      BY <2>7, <2>8, <2>9, <2>10, <3>1, <3>2 DEF Propagates
  <2>12. Assignable(e, first, why)
    BY <1>l, <2>7, <2>9, <2>11 DEF Assignable
  <2>13. /\ CtxInv(d)
         /\ d = [e EXCEPT !.trail = Append(T, y)]
         /\ \A x, pending : WatchOK(e, x, pending) => WatchOK(d, x, pending)
    <3>1. /\ CtxInv(d)
          /\ d = [e EXCEPT !.trail = Append(e.trail, [lit |-> first, lvl |-> ScopeLvl(e), why |-> why])]
          /\ \A x, pending : WatchOK(e, x, pending) => WatchOK(d, x, pending)
      BY <2>1, <2>6, <2>12, AssignKeeps
    <3>2. e.trail = T /\ ScopeLvl(e) = ScopeLvl(p)
      BY <2>7, <2>8
    <3> QED
      BY <3>1, <3>2
  <2>14. y \in Entries /\ y.lit = first /\ y.lvl = ScopeLvl(p)
    BY <1>c, <1>l, <2>9 DEF Entries, Clauses
  <2> HIDE DEF y
  <2>15. /\ d.formulas = p.formulas /\ d.fqhead = p.fqhead /\ d.scopes = p.scopes /\ d.base = p.base
         /\ d.search = p.search /\ d.assumptions = p.assumptions /\ d.conflict = p.conflict
         /\ d.aux = p.aux /\ d.lemmas = Append(p.lemmas, w) /\ d.trail = Append(T, y)
    BY <2>7, <2>13 DEF ContextType
  <2>16. /\ DOMAIN d.trail = 1 .. (Len(T) + 1) /\ d.trail[Len(T) + 1] = y
         /\ \A i \in DOMAIN T : i \in DOMAIN d.trail /\ d.trail[i] = T[i]
    <3>1. /\ DOMAIN Append(T, y) = 1 .. (Len(T) + 1)
          /\ Append(T, y)[Len(T) + 1] = y
          /\ \A i \in 1 .. Len(T) : Append(T, y)[i] = T[i]
      BY <1>c, <2>14, AppendFacts
    <3>2. \A i \in 1 .. Len(T) : i \in 1 .. (Len(T) + 1)
      BY <1>c
    <3> QED
      BY <1>c, <2>15, <3>1, <3>2
  <2>17. WatchOK(d, w, FALSE)
    <3> SUFFICES ASSUME NEW a \in w.watch, NEW q \in DOMAIN d.trail, d.trail[q].lit = -a
                 PROVE  \E b \in w.watch : \E i \in DOMAIN d.trail :
                            d.trail[i].lit = b /\ d.trail[i].lvl <= d.trail[q].lvl
      BY DEF WatchOK
    <3>1. d.trail \in Trails
      BY <2>13 DEF CtxInv, TrailOK
    <3>2. Len(T) + 1 \in DOMAIN d.trail /\ d.trail[Len(T) + 1].lit = first
      BY <1>c, <2>14, <2>16
    <3>3. CASE a = first
      <4>1. True(d.trail, first) /\ True(d.trail, -first)
        BY <3>2, <3>3 DEF True
      <4> QED
        BY <3>1, <4>1, TrueFacts
    <3>4. CASE a = sw
      <4>1. PICK j \in DOMAIN T : T[j].lit = -sw /\ T[j].lvl = ScopeLvl(p)
        BY <2>10
      <4>2. j \in DOMAIN d.trail /\ d.trail[j].lit = -sw /\ d.trail[j].lvl = ScopeLvl(p)
        BY <2>16, <4>1
      <4>3. Level(d.trail, -sw) = ScopeLvl(p) /\ Level(d.trail, -sw) = d.trail[q].lvl
        <5>1. d.trail[q].lit = -sw
          BY <3>4
        <5>2. Level(d.trail, d.trail[j].lit) = d.trail[j].lvl /\ Level(d.trail, d.trail[q].lit) = d.trail[q].lvl
          BY <3>1, <4>2, EntryFacts
        <5> QED
          BY <4>2, <5>1, <5>2
      <4>4. d.trail[Len(T) + 1].lvl <= d.trail[q].lvl
        BY <1>c, <2>14, <2>16, <4>3
      <4> QED
        BY <2>4, <3>2, <4>4
    <3> QED
      BY <2>4, <3>3, <3>4
  <2>18. \A i \in DOMAIN d.lemmas : d.lemmas[i] = w \/ (i \in DOMAIN p.lemmas /\ d.lemmas[i] = p.lemmas[i])
    <3>1. p.lemmas \in Seq(Watched) /\ Len(p.lemmas) \in Nat /\ DOMAIN p.lemmas = 1 .. Len(p.lemmas)
      BY <1>c, Fields, Types
    <3>2. /\ DOMAIN Append(p.lemmas, w) = 1 .. (Len(p.lemmas) + 1) /\ Append(p.lemmas, w)[Len(p.lemmas) + 1] = w
          /\ \A i \in 1 .. Len(p.lemmas) : Append(p.lemmas, w)[i] = p.lemmas[i]
      BY <2>4, <3>1, AppendFacts
    <3>3. \A i \in 1 .. (Len(p.lemmas) + 1) : i = Len(p.lemmas) + 1 \/ i \in 1 .. Len(p.lemmas)
      BY <3>1
    <3> QED
      BY <2>15, <3>1, <3>2, <3>3
  <2>19. WatchesOK(d, {})
    <3>1. /\ \A i \in DOMAIN p.aux : WatchOK(d, p.aux[i], FALSE)
          /\ \A i \in DOMAIN p.lemmas : WatchOK(d, p.lemmas[i], FALSE)
      BY <2>6, <2>13, WatchesSplit
    <3>2. \A i \in DOMAIN d.lemmas : WatchOK(d, d.lemmas[i], FALSE)
      BY <2>17, <2>18, <3>1
    <3> QED
      BY <2>15, <3>1, <3>2, WatchesSplit
  <2> QED
    BY <2>13, <2>15, <2>16, <2>19 DEF Learned
<1> QED
  BY <1>1, <1>2

(* The backjump unassigns the first literal of the lemma and keeps the     *)
(* others, the last of which is at the new level.                          *)
LEMMA JumpFacts ==
    ASSUME NEW c, CtxInv(c), Inconsistent(c), ~AtSearchLevel(c),
           Implied(c.conflict, ModelsAt(c, BaseLvl(c))),
           NEW lemma, lemma = Lemma(c.trail, BaseLvl(c), c.conflict)
    PROVE  LET lvl == NewScopeLvl(c, lemma)
               p == PopTo(c, lvl)
           IN  /\ lvl \in 0 .. (ScopeLvl(c) - 1) /\ c.search <= lvl /\ BaseLvl(c) <= lvl
               /\ Popped(c, p, lvl)
               /\ Learnable(p, lemma)
<1> DEFINE T == c.trail
           B == BaseLvl(c)
           K == c.conflict
           M == ModelsAt(c, B)
           top == ConflictLevel(T, K)
           first == lemma.first
           rest == lemma.rest
           levels == {c.search} \cup {Level(T, -l) : l \in rest}
           lvl == NewScopeLvl(c, lemma)
           p == PopTo(c, lvl)
<1>c. /\ c \in ContextType /\ ScopesOK(c) /\ LevelsOK(c) /\ TrailOK(c) /\ SoundOK(c) /\ JustifiedOK(c)
      /\ ConflictOK(c)
  BY DEF CtxInv
<1>n. /\ B \in Nat /\ c.search \in Nat /\ ScopeLvl(c) \in Nat /\ Len(T) \in Nat
      /\ B <= c.search /\ c.search <= B + 1
      /\ DOMAIN T = 1 .. Len(T)
      /\ \A i \in 1 .. Len(T) : T[i].lvl \in Nat /\ T[i].lvl <= ScopeLvl(c)
  <2>1. /\ B \in Nat /\ c.search \in Nat /\ ScopeLvl(c) \in Nat /\ Len(T) \in Nat
        /\ DOMAIN T = 1 .. Len(T) /\ \A i \in 1 .. Len(T) : T[i].lvl \in Nat
    BY <1>c, Types
  <2>2. c.search \in B .. (B + 1)
    BY <1>c DEF ScopesOK
  <2>3. \A i \in DOMAIN T : T[i].lvl <= ScopeLvl(c)
    BY <1>c DEF LevelsOK
  <2>4. B <= c.search /\ c.search <= B + 1
    BY <2>1, <2>2
  <2> QED
    BY <2>1, <2>3, <2>4
<1>t. T \in Trails /\ DecisionsFirst(T, c.search)
  BY <1>c DEF TrailOK
<1>m. /\ M \in SUBSET Valuations /\ BaseImplied(T, B, M) /\ WhyImplies(T, M)
  <2>1. B \in 0 .. B
    BY <1>n
  <2>2. M \in SUBSET Valuations
    BY DEF ModelsAt
  <2> QED
    BY <1>c, <2>1, <2>2 DEF SoundOK, JustifiedOK
<1>k. K \in SUBSET Literals /\ (\A l \in K : False(T, l)) /\ Implied(K, M)
  BY <1>c DEF ConflictOK
<1>l. top \in Nat /\ c.search < top
  <2>1. top \in Nat
    BY <1>k, <1>t, ConflictLevelFacts
  <2> QED
    BY <1>n, <2>1 DEF AtSearchLevel
<1> HIDE DEF T, B, K, M, top
<1>1. /\ first \in Literals /\ rest \in SUBSET Literals
      /\ \E j \in 1 .. Len(T) : T[j].lit = -first /\ T[j].lvl = top
      /\ \A l \in rest : \E j \in 1 .. Len(T) : T[j].lit = -l /\ T[j].lvl \in (B + 1) .. (top - 1)
      /\ Implied({first} \cup rest, M)
  <2>1. lemma = Lemma(T, B, K) /\ top = ConflictLevel(T, K)
    BY DEF T, B, K, top
  <2>2. c.search < ConflictLevel(T, K) /\ B \in Nat /\ c.search \in Nat /\ B <= c.search
    BY <1>l, <1>n, <2>1
  <2> DEFINE x == Lemma(T, B, K)
             y == ConflictLevel(T, K)
  <2>3. /\ x.first \in Literals /\ x.rest \in SUBSET Literals
        /\ \E j \in 1 .. Len(T) : T[j].lit = -x.first /\ T[j].lvl = y
        /\ \A l \in x.rest : \E j \in 1 .. Len(T) : T[j].lit = -l /\ T[j].lvl \in (B + 1) .. (y - 1)
        /\ Implied({x.first} \cup x.rest, M)
    BY <1>k, <1>m, <1>t, <2>2, LemmaFacts, Zenon
  <2> HIDE DEF x, y
  <2>4. lemma = x /\ top = y
    BY <2>1 DEF x, y
  <2> QED
    BY <2>3, <2>4
<1>p. PICK j \in 1 .. Len(T) : T[j].lit = -first /\ T[j].lvl = top
  BY <1>1
<1>2. top <= ScopeLvl(c)
  BY <1>n, <1>p
<1>3. \A l \in rest : Level(T, -l) \in (B + 1) .. (top - 1)
  <2> TAKE l \in rest
  <2>1. PICK i \in 1 .. Len(T) : T[i].lit = -l /\ T[i].lvl \in (B + 1) .. (top - 1)
    BY <1>1
  <2>2. Level(T, -l) = T[i].lvl
    BY <1>n, <1>t, <2>1, EntryFacts
  <2> QED
    BY <2>1, <2>2
<1>4. levels \in SUBSET (0 .. (top - 1)) /\ levels # {}
  <2>1. \A x \in (B + 1) .. (top - 1) : x \in 0 .. (top - 1)
    BY <1>l, <1>n
  <2>2. c.search \in 0 .. (top - 1)
    BY <1>l, <1>n
  <2> QED
    BY <1>3, <2>1, <2>2
<1>5. lvl \in levels /\ \A y \in levels : y <= lvl
  <2>1. top - 1 \in Nat
    BY <1>l, <1>n
  <2>2. lvl = Max(levels)
    BY DEF NewScopeLvl, T
  <2> HIDE DEF levels, lvl
  <2> QED
    BY <1>4, <2>1, <2>2, MaxNat
<1>6. /\ lvl \in 0 .. (top - 1) /\ c.search <= lvl
      /\ \A l \in rest : Level(T, -l) <= lvl
  BY <1>4, <1>5
<1>7. rest = {} => lvl = c.search
  BY <1>5
<1>8. rest # {} => \E l \in rest : Level(T, -l) = lvl
  <2>1. CASE \E l \in rest : lvl = Level(T, -l)
    BY <2>1
  <2>2. CASE lvl = c.search /\ rest # {}
    <3>1. PICK l \in rest : TRUE
      BY <2>2
    <3>2. Level(T, -l) \in (B + 1) .. (top - 1) /\ Level(T, -l) <= c.search
      BY <1>3, <1>6, <2>2, <3>1
    <3>3. Level(T, -l) = c.search
      BY <1>n, <3>2 DEF B
    <3> QED
      BY <2>2, <3>3
  <2>3. lvl \in levels
    BY <1>5
  <2> QED
    BY <2>1, <2>2, <2>3
<1> HIDE DEF lvl
<1>9. lvl \in Nat /\ lvl \in 0 .. (ScopeLvl(c) - 1) /\ lvl \in 0 .. ScopeLvl(c) /\ lvl < top /\ B <= lvl
  BY <1>2, <1>6, <1>l, <1>n DEF B
<1>10. Popped(c, p, lvl)
  BY <1>9, PopToKeeps
<1> HIDE DEF p, levels
<1>11. /\ ScopeLvl(p) = lvl /\ BaseLvl(p) = B /\ p.search = c.search
       /\ \A i \in DOMAIN p.trail : i \in DOMAIN T /\ p.trail[i] = T[i] /\ T[i].lvl <= lvl
       /\ \A i \in DOMAIN T : T[i].lvl <= lvl => i \in DOMAIN p.trail
       /\ \A k \in 0 .. BaseLvl(p) : ModelsAt(p, k) = ModelsAt(c, k)
  <2>1. ~(lvl < BaseLvl(c))
    BY <1>9, <1>n DEF B
  <2> QED
    BY <1>10, <2>1 DEF Popped, T, B
<1>12. ModelsAt(p, BaseLvl(p)) = M
  <2>1. B \in 0 .. B
    BY <1>n DEF B
  <2> QED
    BY <1>11, <2>1 DEF M
<1>13. ~False(p.trail, first)
  <2> SUFFICES ASSUME NEW i \in DOMAIN p.trail, p.trail[i].lit = -first
               PROVE  FALSE
    BY DEF False, True
  <2>1. i \in DOMAIN T /\ T[i].lit = -first /\ T[i].lvl <= lvl
    BY <1>11
  <2>2. Level(T, -first) = T[i].lvl /\ Level(T, -first) = top
    BY <1>n, <1>p, <1>t, <2>1, EntryFacts DEF T
  <2> QED
    BY <1>9, <1>l, <2>1, <2>2
<1>14. ~True(p.trail, first)
  <2> SUFFICES ASSUME NEW i \in DOMAIN p.trail, p.trail[i].lit = first
               PROVE  FALSE
    BY DEF True
  <2>1. True(T, first)
    BY <1>11 DEF True
  <2>2. True(T, -first)
    BY <1>n, <1>p DEF True, T
  <2> QED
    BY <1>t, <2>1, <2>2, TrueFacts
<1>15. \A l \in rest : \E i \in DOMAIN p.trail : p.trail[i].lit = -l /\ p.trail[i].lvl = Level(T, -l)
  <2> TAKE l \in rest
  <2>1. PICK i \in 1 .. Len(T) : T[i].lit = -l
    BY <1>1
  <2>2. i \in DOMAIN T /\ Level(T, -l) = T[i].lvl
    BY <1>n, <1>t, <2>1, EntryFacts DEF T
  <2>3. i \in DOMAIN p.trail
    BY <1>6, <1>11, <2>2
  <2> QED
    BY <1>11, <2>1, <2>2, <2>3
<1>16. \A l \in rest : False(p.trail, l)
  BY <1>15 DEF False, True
<1>17. rest # {} => \E l \in rest : \E i \in DOMAIN p.trail : p.trail[i].lit = -l /\ p.trail[i].lvl = ScopeLvl(p)
  BY <1>8, <1>11, <1>15
<1>18. Learnable(p, lemma)
  BY <1>1, <1>7, <1>11, <1>12, <1>13, <1>14, <1>16, <1>17 DEF Learnable
<1> QED
  BY <1>6, <1>9, <1>10, <1>18 DEF lvl, p, B

(* What a step that keeps the formulas and the user scopes leaves alone.   *)
SameFrames(c, d) ==
    /\ d.formulas = c.formulas
    /\ BaseLvl(d) = BaseLvl(c)
    /\ \A k \in 0 .. BaseLvl(c) : FormulasLimAt(d, k) = FormulasLimAt(c, k)

LEMMA PrefixEqual ==
    ASSUME NEW S, NEW s \in Seq(S), NEW t \in Seq(S), Prefix(s, t), Len(s) = Len(t)
    PROVE  s = t
BY DEF Prefix

LEMMA PoppedFrames ==
    ASSUME NEW c, CtxInv(c), NEW p, NEW lvl, Popped(c, p, lvl), lvl \in Nat, BaseLvl(c) <= lvl
    PROVE  SameFrames(c, p)
<1>1. c.formulas \in Seq(Clauses) /\ p.formulas \in Seq(Clauses)
  BY Fields DEF CtxInv, Popped
<1>2. Prefix(p.formulas, c.formulas) /\ Len(p.formulas) = Len(c.formulas)
  BY DEF Popped, PopPrefixes
<1>3. p.formulas = c.formulas
  BY <1>1, <1>2, PrefixEqual
<1>4. ~(lvl < BaseLvl(c))
  BY Types DEF CtxInv
<1> QED
  BY <1>3, <1>4 DEF Popped, SameFrames

LEMMA LearnKeeps ==
    ASSUME NEW c, CtxInv(c), WatchesOK(c, {}), Inconsistent(c), ~AtSearchLevel(c),
           Implied(c.conflict, ModelsAt(c, BaseLvl(c)))
    PROVE  LET d == Learn(c)
           IN  /\ CtxInv(d) /\ WatchesOK(d, {}) /\ ~Inconsistent(d)
               /\ SameFrames(c, d) /\ d.fqhead = c.fqhead
               /\ d.search = c.search /\ d.assumptions = c.assumptions /\ d.search <= ScopeLvl(d)
               /\ \A i \in DOMAIN c.trail : c.trail[i].lvl <= c.search =>
                     i \in DOMAIN d.trail /\ d.trail[i] = c.trail[i]
<1> DEFINE lemma == Lemma(c.trail, BaseLvl(c), c.conflict)
           lvl == NewScopeLvl(c, lemma)
           p == PopTo(c, lvl)
           d == MkLemma(p, lemma)
<1>0. Learn(c) = d
  BY DEF Learn
<1> HIDE DEF lemma
<1>1. /\ lvl \in 0 .. (ScopeLvl(c) - 1) /\ c.search <= lvl /\ BaseLvl(c) <= lvl
      /\ Popped(c, p, lvl)
      /\ Learnable(p, lemma)
  BY JumpFacts DEF lemma
<1> HIDE DEF lvl, p
<1>n. /\ lvl \in Nat /\ ScopeLvl(c) \in Nat /\ lvl < ScopeLvl(c) /\ ~(lvl < BaseLvl(c))
      /\ \A i \in DOMAIN c.trail : c.trail[i].lvl \in Nat
      /\ c.search \in Nat /\ BaseLvl(c) \in Nat
  <2>1. /\ ScopeLvl(c) \in Nat /\ c.search \in Nat /\ BaseLvl(c) \in Nat
        /\ \A i \in DOMAIN c.trail : c.trail[i].lvl \in Nat
    BY Types DEF CtxInv
  <2> QED
    BY <1>1, <2>1
<1>2. /\ CtxInv(p) /\ \A w : WatchOK(c, w, FALSE) => WatchOK(p, w, FALSE)
      /\ ScopeLvl(p) = lvl /\ BaseLvl(p) = BaseLvl(c) /\ p.search = c.search /\ p.assumptions = c.assumptions
      /\ ~Inconsistent(p) /\ p.fqhead = c.fqhead
      /\ \A i \in DOMAIN p.trail : p.trail[i] = c.trail[i]
      /\ \A i \in DOMAIN c.trail : c.trail[i].lvl <= lvl => i \in DOMAIN p.trail
      /\ Prefix(p.aux, c.aux) /\ Prefix(p.lemmas, c.lemmas)
  BY <1>1, <1>n DEF Popped, PopPrefixes
<1>3. SameFrames(c, p)
  BY <1>1, <1>n, PoppedFrames
<1>4. WatchesOK(p, {})
  <2>1. /\ DOMAIN p.aux = 1 .. Len(p.aux) /\ DOMAIN c.aux = 1 .. Len(c.aux)
        /\ DOMAIN p.lemmas = 1 .. Len(p.lemmas) /\ DOMAIN c.lemmas = 1 .. Len(c.lemmas)
        /\ Len(p.aux) \in Nat /\ Len(c.aux) \in Nat /\ Len(p.lemmas) \in Nat /\ Len(c.lemmas) \in Nat
    BY <1>2, Types DEF CtxInv
  <2>2. \A i \in DOMAIN p.aux : i \in DOMAIN c.aux /\ p.aux[i] = c.aux[i]
    BY <1>2, <2>1 DEF Prefix
  <2>3. \A i \in DOMAIN p.lemmas : i \in DOMAIN c.lemmas /\ p.lemmas[i] = c.lemmas[i]
    BY <1>2, <2>1 DEF Prefix
  <2> QED
    BY <1>2, <2>2, <2>3, WatchesSplit
<1>5. Learned(p, lemma, d)
  BY <1>1, <1>2, <1>4, MkLemmaKeeps
<1> HIDE DEF d
<1>6. /\ CtxInv(d) /\ WatchesOK(d, {})
      /\ d.formulas = p.formulas /\ d.fqhead = p.fqhead /\ d.scopes = p.scopes /\ d.base = p.base
      /\ d.search = p.search /\ d.assumptions = p.assumptions /\ d.conflict = p.conflict
      /\ \A i \in DOMAIN p.trail : i \in DOMAIN d.trail /\ d.trail[i] = p.trail[i]
  BY <1>5 DEF Learned
<1>7. ~Inconsistent(d)
  BY <1>2, <1>6 DEF Inconsistent
<1>8. /\ ScopeLvl(d) = lvl /\ BaseLvl(d) = BaseLvl(c)
      /\ \A k : FormulasLimAt(d, k) = FormulasLimAt(p, k)
  BY <1>2, <1>6, SameScopes
<1>9. SameFrames(c, d)
  BY <1>3, <1>6, <1>8 DEF SameFrames
<1>10. \A i \in DOMAIN c.trail : c.trail[i].lvl <= c.search =>
           i \in DOMAIN d.trail /\ d.trail[i] = c.trail[i]
  <2>1. \A i \in DOMAIN c.trail : c.trail[i].lvl <= c.search => c.trail[i].lvl <= lvl
    BY <1>1, <1>n
  <2> QED
    BY <1>2, <1>6, <2>1
<1> QED
  BY <1>0, <1>1, <1>2, <1>6, <1>7, <1>8, <1>9, <1>10

-----------------------------------------------------------------------------
(* Clauses are watched by other literals.                                  *)
SameClauses(new, old) ==
    /\ new \in Seq(Watched) /\ Len(new) = Len(old) /\ DOMAIN new = DOMAIN old
    /\ \A i \in DOMAIN old : new[i].lits = old[i].lits /\ new[i].just = old[i].just /\ WatchesTwo(new[i])

WithClauses(c, A, L) == [c EXCEPT !.aux = A, !.lemmas = L]

Rewatch(db, i, a, b) == [db EXCEPT ![i].watch = {a, b}]

LEMMA RewatchKeeps ==
    ASSUME NEW c, CtxInv(c), NEW A, SameClauses(A, c.aux), NEW L, SameClauses(L, c.lemmas),
           NEW d, d = WithClauses(c, A, L)
    PROVE  /\ CtxInv(d)
           /\ \A w, pending : WatchOK(d, w, pending) <=> WatchOK(c, w, pending)
<1> DEFINE B == BaseLvl(c)
<1>c. /\ c \in ContextType /\ ScopesOK(c) /\ ClausesOK(c) /\ SoundOK(c)
      /\ DOMAIN c.aux = 1 .. Len(c.aux) /\ DOMAIN c.lemmas = 1 .. Len(c.lemmas)
      /\ Len(c.aux) \in Nat /\ Len(c.lemmas) \in Nat
  BY Types DEF CtxInv
<1>f. /\ d.formulas = c.formulas /\ d.scopes = c.scopes /\ d.base = c.base
      /\ d.aux = A /\ d.lemmas = L /\ d.trail = c.trail
  BY <1>c DEF ContextType, WithClauses
<1>a. /\ A \in Seq(Watched) /\ L \in Seq(Watched) /\ Len(A) = Len(c.aux) /\ Len(L) = Len(c.lemmas)
      /\ DOMAIN A = DOMAIN c.aux /\ DOMAIN L = DOMAIN c.lemmas
      /\ \A i \in DOMAIN c.aux : A[i].lits = c.aux[i].lits /\ A[i].just = c.aux[i].just /\ WatchesTwo(A[i])
      /\ \A i \in DOMAIN c.lemmas : L[i].lits = c.lemmas[i].lits /\ L[i].just = c.lemmas[i].just /\ WatchesTwo(L[i])
  BY DEF SameClauses
<1>s. /\ ScopeLvl(d) = ScopeLvl(c) /\ BaseLvl(d) = B
      /\ \A k : ModelsAt(d, k) = ModelsAt(c, k) /\ FormulasLimAt(d, k) = FormulasLimAt(c, k)
  BY <1>f, SameScopes
<1>k. \A k : AuxLimAt(d, k) = AuxLimAt(c, k) /\ LemmasLimAt(d, k) = LemmasLimAt(c, k)
  BY <1>a, <1>f, <1>s DEF AuxLimAt, LemmasLimAt
<1>r. /\ \A k \in 0 .. B : \A i \in 1 .. AuxLimAt(c, k) : i \in DOMAIN c.aux
      /\ \A k \in 0 .. B : \A i \in 1 .. LemmasLimAt(c, k) : i \in DOMAIN c.lemmas
  <2>1. \A k \in 0 .. B : /\ AuxLimAt(c, k) \in Nat /\ AuxLimAt(c, k) <= Len(c.aux)
                          /\ LemmasLimAt(c, k) \in Nat /\ LemmasLimAt(c, k) <= Len(c.lemmas)
    BY <1>c, ModelsShrink
  <2>2. ASSUME NEW k \in 0 .. B
        PROVE  (\A i \in 1 .. AuxLimAt(c, k) : i \in DOMAIN c.aux) /\ \A i \in 1 .. LemmasLimAt(c, k) : i \in DOMAIN c.lemmas
    <3>1. /\ AuxLimAt(c, k) \in Nat /\ AuxLimAt(c, k) <= Len(c.aux)
          /\ LemmasLimAt(c, k) \in Nat /\ LemmasLimAt(c, k) <= Len(c.lemmas)
      BY <2>1
    <3> QED
      BY <1>c, <3>1
  <2> QED
    BY <2>2
<1>1. /\ \A j \in 1 .. ScopeLvl(c) : /\ c.scopes[j].aux <= Len(A)
                                     /\ j > BaseLvl(c) => c.scopes[j].aux = Len(A)
      /\ \A j \in 1 .. BaseLvl(c) : c.base[j].lemmas <= Len(L)
  BY <1>a, <1>c DEF ScopesOK
<1>2. ClausesOK(d)
  <2>1. /\ \A i \in DOMAIN A : WatchesTwo(A[i])
        /\ \A i \in DOMAIN L : WatchesTwo(L[i]) /\ L[i].just = {}
    BY <1>a, <1>c DEF ClausesOK
  <2>2. \A k \in 0 .. B : \A i \in 1 .. AuxLimAt(c, k) :
          /\ \A a \in A[i].just : \E j \in DOMAIN c.trail : c.trail[j].lit = a /\ c.trail[j].lvl <= k
          /\ \E j \in 1 .. FormulasLimAt(c, k) : A[i].lits \subseteq c.formulas[j]
    <3> TAKE k \in 0 .. B
    <3> TAKE i \in 1 .. AuxLimAt(c, k)
    <3>1. A[i].lits = c.aux[i].lits /\ A[i].just = c.aux[i].just
      BY <1>a, <1>r
    <3>2. /\ \A a \in c.aux[i].just : \E j \in DOMAIN c.trail : c.trail[j].lit = a /\ c.trail[j].lvl <= k
          /\ \E j \in 1 .. FormulasLimAt(c, k) : c.aux[i].lits \subseteq c.formulas[j]
      BY <1>c DEF ClausesOK
    <3> QED
      BY <3>1, <3>2
  <2> QED
    BY <1>f, <1>k, <1>s, <2>1, <2>2 DEF ClausesOK
<1>3. /\ \A k \in 0 .. B : \A i \in 1 .. AuxLimAt(d, k) : Implied(A[i].lits, ModelsAt(c, k))
      /\ \A k \in 0 .. B : \A i \in 1 .. LemmasLimAt(d, k) : Implied(L[i].lits, ModelsAt(c, k))
  BY <1>a, <1>c, <1>k, <1>r DEF SoundOK
<1>4. \A k \in 0 .. B : \A m \in Valuations : HoldsAt(d, k, m) => HoldsAt(c, k, m)
  BY <1>a, <1>f, <1>k, <1>r DEF HoldsAt
<1>5. AsGood(c, A, L, d)
  BY <1>1, <1>2, <1>3, <1>4, <1>a DEF AsGood, WithClauses
<1> QED
  BY <1>5, ClausesKeep

LEMMA RewatchOne ==
    ASSUME NEW db \in Seq(Watched), \A i \in DOMAIN db : WatchesTwo(db[i]), NEW i \in DOMAIN db,
           NEW a \in db[i].lits, NEW b \in db[i].lits, a # b
    PROVE  LET new == Rewatch(db, i, a, b)
           IN  /\ SameClauses(new, db)
               /\ \A j \in DOMAIN db : j # i => new[j] = db[j]
               /\ new[i].watch = {a, b}
<1> DEFINE y == [db[i] EXCEPT !.watch = {a, b}]
           new == [db EXCEPT ![i] = y]
<1>1. DOMAIN db = 1 .. Len(db) /\ Len(db) \in Nat /\ \A j \in DOMAIN db : db[j] \in Watched
  OBVIOUS
<1>2. y \in Watched /\ y.lits = db[i].lits /\ y.just = db[i].just /\ y.watch = {a, b}
  <2>1. db[i] \in Watched
    OBVIOUS
  <2> QED
    BY <2>1 DEF Watched, Clauses
<1> HIDE DEF y
<1>3. WatchesTwo(y)
  BY <1>2 DEF WatchesTwo
<1>4. /\ DOMAIN new = DOMAIN db /\ new[i] = y /\ \A j \in DOMAIN db : j # i => new[j] = db[j]
  OBVIOUS
<1>5. new \in Seq(Watched) /\ Len(new) = Len(db)
  BY <1>1, <1>2
<1> HIDE DEF new
<1>6. SameClauses(new, db)
  BY <1>2, <1>3, <1>4, <1>5 DEF SameClauses
<1>7. new = Rewatch(db, i, a, b)
  BY DEF new, y, Rewatch
<1> QED
  BY <1>2, <1>4, <1>6, <1>7

(* The context d after clause r is watched by a and b.                     *)
Rewatched(c, r, a, b, d) ==
    /\ CtxInv(d)
    /\ \A w, pending : WatchOK(d, w, pending) <=> WatchOK(c, w, pending)
    /\ d.formulas = c.formulas /\ d.fqhead = c.fqhead /\ d.scopes = c.scopes /\ d.base = c.base
    /\ d.search = c.search /\ d.qhead = c.qhead /\ d.conflict = c.conflict
    /\ d.assumptions = c.assumptions /\ d.trail = c.trail
    /\ ClauseRefs(d) = ClauseRefs(c)
    /\ \A s \in ClauseRefs(c) : s # r => Clause(d, s) = Clause(c, s)
    /\ Clause(d, r).watch = {a, b}

LEMMA SetWatchKeeps ==
    ASSUME NEW c, CtxInv(c), NEW r \in ClauseRefs(c),
           NEW a \in Clause(c, r).lits, NEW b \in Clause(c, r).lits, a # b
    PROVE  Rewatched(c, r, a, b, SetWatch(c, r, {a, b}))
<1> DEFINE d == SetWatch(c, r, {a, b})
<1>c. /\ c \in ContextType /\ ClausesOK(c)
      /\ c.aux \in Seq(Watched) /\ c.lemmas \in Seq(Watched)
  BY Fields DEF CtxInv
<1>s. SameClauses(c.aux, c.aux) /\ SameClauses(c.lemmas, c.lemmas)
  BY <1>c DEF SameClauses, ClausesOK
<1>w. (\A i \in DOMAIN c.aux : WatchesTwo(c.aux[i])) /\ (\A i \in DOMAIN c.lemmas : WatchesTwo(c.lemmas[i]))
  BY <1>c DEF ClausesOK
<1>0. \/ \E i \in DOMAIN c.aux : r = <<"aux", i>>
      \/ \E i \in DOMAIN c.lemmas : r = <<"lemmas", i>>
  BY DEF ClauseRefs
<1>1. ASSUME NEW i \in DOMAIN c.aux, r = <<"aux", i>>
      PROVE  Rewatched(c, r, a, b, d)
  <2> DEFINE A == Rewatch(c.aux, i, a, b)
  <2>0. Clause(c, r) = c.aux[i]
    BY <1>1 DEF Clause
  <2>1. /\ SameClauses(A, c.aux)
        /\ \A j \in DOMAIN c.aux : j # i => A[j] = c.aux[j]
        /\ A[i].watch = {a, b}
    BY <1>c, <1>w, <2>0, RewatchOne
  <2>2. d = WithClauses(c, A, c.lemmas)
    BY <1>1, <1>c DEF SetWatch, ContextType, WithClauses, Rewatch
  <2> HIDE DEF A, d
  <2>3. /\ CtxInv(d)
        /\ \A w, pending : WatchOK(d, w, pending) <=> WatchOK(c, w, pending)
    BY <1>s, <2>1, <2>2, RewatchKeeps
  <2>4. /\ d.formulas = c.formulas /\ d.fqhead = c.fqhead /\ d.scopes = c.scopes /\ d.base = c.base
        /\ d.search = c.search /\ d.qhead = c.qhead /\ d.conflict = c.conflict
        /\ d.assumptions = c.assumptions /\ d.trail = c.trail /\ d.aux = A /\ d.lemmas = c.lemmas
    BY <1>c, <2>2 DEF ContextType, WithClauses
  <2>5. DOMAIN A = DOMAIN c.aux
    BY <2>1 DEF SameClauses
  <2>6. ClauseRefs(d) = ClauseRefs(c)
    BY <2>4, <2>5 DEF ClauseRefs
  <2>7. Clause(d, r).watch = {a, b}
    <3>1. Clause(d, r) = d.aux[i]
      BY <1>1 DEF Clause
    <3> QED
      BY <2>1, <2>4, <3>1
  <2>8. \A s \in ClauseRefs(c) : s # r => Clause(d, s) = Clause(c, s)
    <3> SUFFICES ASSUME NEW s \in ClauseRefs(c), s # r
                 PROVE  Clause(d, s) = Clause(c, s)
      OBVIOUS
    <3>1. \/ \E j \in DOMAIN c.aux : s = <<"aux", j>>
          \/ \E j \in DOMAIN c.lemmas : s = <<"lemmas", j>>
      BY DEF ClauseRefs
    <3>2. ASSUME NEW j \in DOMAIN c.aux, s = <<"aux", j>>
          PROVE  Clause(d, s) = Clause(c, s)
      <4>1. Clause(d, s) = d.aux[j] /\ Clause(c, s) = c.aux[j] /\ j # i
        BY <1>1, <3>2 DEF Clause
      <4> QED
        BY <2>1, <2>4, <4>1
    <3>3. ASSUME NEW j \in DOMAIN c.lemmas, s = <<"lemmas", j>>
          PROVE  Clause(d, s) = Clause(c, s)
      <4>1. Clause(d, s) = d.lemmas[j] /\ Clause(c, s) = c.lemmas[j]
        BY <3>3 DEF Clause
      <4> QED
        BY <2>4, <4>1
    <3> QED
      BY <3>1, <3>2, <3>3
  <2> QED
    BY <2>3, <2>4, <2>6, <2>7, <2>8 DEF Rewatched
<1>2. ASSUME NEW i \in DOMAIN c.lemmas, r = <<"lemmas", i>>
      PROVE  Rewatched(c, r, a, b, d)
  <2> DEFINE L == Rewatch(c.lemmas, i, a, b)
  <2>0. Clause(c, r) = c.lemmas[i]
    BY <1>2 DEF Clause
  <2>1. /\ SameClauses(L, c.lemmas)
        /\ \A j \in DOMAIN c.lemmas : j # i => L[j] = c.lemmas[j]
        /\ L[i].watch = {a, b}
    BY <1>c, <1>w, <2>0, RewatchOne
  <2>2. d = WithClauses(c, c.aux, L)
    BY <1>2, <1>c DEF SetWatch, ContextType, WithClauses, Rewatch
  <2> HIDE DEF L, d
  <2>3. /\ CtxInv(d)
        /\ \A w, pending : WatchOK(d, w, pending) <=> WatchOK(c, w, pending)
    BY <1>s, <2>1, <2>2, RewatchKeeps
  <2>4. /\ d.formulas = c.formulas /\ d.fqhead = c.fqhead /\ d.scopes = c.scopes /\ d.base = c.base
        /\ d.search = c.search /\ d.qhead = c.qhead /\ d.conflict = c.conflict
        /\ d.assumptions = c.assumptions /\ d.trail = c.trail /\ d.aux = c.aux /\ d.lemmas = L
    BY <1>c, <2>2 DEF ContextType, WithClauses
  <2>5. DOMAIN L = DOMAIN c.lemmas
    BY <2>1 DEF SameClauses
  <2>6. ClauseRefs(d) = ClauseRefs(c)
    BY <2>4, <2>5 DEF ClauseRefs
  <2>7. Clause(d, r).watch = {a, b}
    <3>1. Clause(d, r) = d.lemmas[i]
      BY <1>2 DEF Clause
    <3> QED
      BY <2>1, <2>4, <3>1
  <2>8. \A s \in ClauseRefs(c) : s # r => Clause(d, s) = Clause(c, s)
    <3> SUFFICES ASSUME NEW s \in ClauseRefs(c), s # r
                 PROVE  Clause(d, s) = Clause(c, s)
      OBVIOUS
    <3>1. \/ \E j \in DOMAIN c.aux : s = <<"aux", j>>
          \/ \E j \in DOMAIN c.lemmas : s = <<"lemmas", j>>
      BY DEF ClauseRefs
    <3>2. ASSUME NEW j \in DOMAIN c.lemmas, s = <<"lemmas", j>>
          PROVE  Clause(d, s) = Clause(c, s)
      <4>1. Clause(d, s) = d.lemmas[j] /\ Clause(c, s) = c.lemmas[j] /\ j # i
        BY <1>2, <3>2 DEF Clause
      <4> QED
        BY <2>1, <2>4, <4>1
    <3>3. ASSUME NEW j \in DOMAIN c.aux, s = <<"aux", j>>
          PROVE  Clause(d, s) = Clause(c, s)
      <4>1. Clause(d, s) = d.aux[j] /\ Clause(c, s) = c.aux[j]
        BY <3>3 DEF Clause
      <4> QED
        BY <2>4, <4>1
    <3> QED
      BY <3>1, <3>2, <3>3
  <2> QED
    BY <2>3, <2>4, <2>6, <2>7, <2>8 DEF Rewatched
<1> QED
  BY <1>0, <1>1, <1>2

-----------------------------------------------------------------------------
(* A clause is visited.                                                    *)
LEMMA SameRefs ==
    ASSUME NEW c, NEW d, d.aux = c.aux, d.lemmas = c.lemmas
    PROVE  /\ ClauseRefs(d) = ClauseRefs(c)
           /\ \A s \in ClauseRefs(c) : Clause(d, s) = Clause(c, s)
<1>1. ClauseRefs(d) = ClauseRefs(c)
  BY DEF ClauseRefs
<1>2. ASSUME NEW s \in ClauseRefs(c)
      PROVE  Clause(d, s) = Clause(c, s)
  <2>1. \/ \E i \in DOMAIN c.aux : s = <<"aux", i>>
        \/ \E i \in DOMAIN c.lemmas : s = <<"lemmas", i>>
    BY DEF ClauseRefs
  <2> QED
    BY <2>1 DEF Clause
<1> QED
  BY <1>1, <1>2

LEMMA ClauseFacts ==
    ASSUME NEW c, CtxInv(c), NEW r \in ClauseRefs(c)
    PROVE  LET w == Clause(c, r)
           IN  /\ w.lits \in SUBSET Literals /\ w.just \in SUBSET Literals
               /\ WatchesTwo(w)
               /\ \A a \in w.just : True(c.trail, a)
               /\ Implied(w.lits, ModelsAt(c, BaseLvl(c)))
<1> DEFINE B == BaseLvl(c)
<1>c. c \in ContextType /\ ClausesOK(c) /\ SoundOK(c)
  BY DEF CtxInv
<1>b. B \in Nat /\ B \in 0 .. B /\ AuxLimAt(c, B) = Len(c.aux) /\ LemmasLimAt(c, B) = Len(c.lemmas)
  BY <1>c, Types DEF AuxLimAt, LemmasLimAt
<1>0. \/ \E i \in DOMAIN c.aux : Clause(c, r) = c.aux[i]
      \/ \E i \in DOMAIN c.lemmas : Clause(c, r) = c.lemmas[i]
  BY DEF ClauseRefs, Clause
<1> HIDE DEF B
<1>1. ASSUME NEW i \in DOMAIN c.aux
      PROVE  LET w == c.aux[i]
             IN  /\ w.lits \in SUBSET Literals /\ w.just \in SUBSET Literals
                 /\ WatchesTwo(w)
                 /\ \A a \in w.just : True(c.trail, a)
                 /\ Implied(w.lits, ModelsAt(c, B))
  <2>1. c.aux[i].lits \in SUBSET Literals /\ c.aux[i].just \in SUBSET Literals /\ i \in 1 .. Len(c.aux)
    BY <1>c, <1>1, Types
  <2>2. WatchesTwo(c.aux[i]) /\ Implied(c.aux[i].lits, ModelsAt(c, B))
    BY <1>1, <1>b, <1>c, <2>1 DEF ClausesOK, SoundOK, B
  <2>3. \A a \in c.aux[i].just : \E j \in DOMAIN c.trail : c.trail[j].lit = a
    BY <1>b, <1>c, <2>1 DEF ClausesOK, B
  <2> QED
    BY <2>1, <2>2, <2>3 DEF True
<1>2. ASSUME NEW i \in DOMAIN c.lemmas
      PROVE  LET w == c.lemmas[i]
             IN  /\ w.lits \in SUBSET Literals /\ w.just \in SUBSET Literals
                 /\ WatchesTwo(w)
                 /\ \A a \in w.just : True(c.trail, a)
                 /\ Implied(w.lits, ModelsAt(c, B))
  <2>1. c.lemmas[i].lits \in SUBSET Literals /\ c.lemmas[i].just \in SUBSET Literals /\ i \in 1 .. Len(c.lemmas)
    BY <1>c, <1>2, Types
  <2>2. WatchesTwo(c.lemmas[i]) /\ Implied(c.lemmas[i].lits, ModelsAt(c, B)) /\ c.lemmas[i].just = {}
    BY <1>2, <1>b, <1>c, <2>1 DEF ClausesOK, SoundOK, B
  <2> QED
    BY <2>1, <2>2
<1> QED
  BY <1>0, <1>1, <1>2 DEF B

(* What a step of propagation leaves alone: literals are only added, at    *)
(* the current level.                                                      *)
BcpFrame(c, d) ==
    /\ d.formulas = c.formulas /\ d.fqhead = c.fqhead /\ d.scopes = c.scopes /\ d.base = c.base
    /\ d.search = c.search /\ d.assumptions = c.assumptions
    /\ \A i \in DOMAIN c.trail : i \in DOMAIN d.trail /\ d.trail[i] = c.trail[i]
    /\ \A i \in DOMAIN d.trail : \/ i \in DOMAIN c.trail /\ d.trail[i] = c.trail[i]
                                 \/ d.trail[i].lvl = ScopeLvl(c)

(* Clause r of V is visited; first is its other watched literal.           *)
Visiting(c, V, r, w, h, first) ==
    /\ CtxInv(c) /\ WatchesOK(c, V) /\ VisitOK(c, V)
    /\ r \in V /\ w = Clause(c, r) /\ r \in ClauseRefs(c)
    /\ ~Inconsistent(c)
    /\ c.qhead \in DOMAIN c.trail /\ c.trail[c.qhead].lit = h /\ c.trail[c.qhead].lvl = ScopeLvl(c)
    /\ h \in Literals /\ -(-h) = h
    /\ first \in w.lits /\ -h \in w.lits /\ first # -h /\ w.watch = {first, -h}

Visited(c, V, d) ==
    /\ CtxInv(d) /\ WatchesOK(d, V) /\ VisitOK(d, V)
    /\ BcpFrame(c, d) /\ d.qhead = c.qhead

(* The literal at the head of the queue is at no other place.              *)
LEMMA HeadFacts ==
    ASSUME NEW c, NEW V, NEW r, NEW w, NEW h, NEW first, Visiting(c, V, r, w, h, first)
    PROVE  /\ \A p \in DOMAIN c.trail : c.trail[p].lit = h => p = c.qhead
           /\ \A p \in DOMAIN c.trail : c.trail[p].lvl <= ScopeLvl(c)
           /\ False(c.trail, -h) /\ ~True(c.trail, -h)
           /\ first \in Literals
<1>1. c.trail \in Trails /\ LevelsOK(c) /\ DOMAIN c.trail = 1 .. Len(c.trail)
  BY Types DEF Visiting, CtxInv, TrailOK
<1>2. \A p \in DOMAIN c.trail : c.trail[p].lit = h => p = c.qhead
  <2> SUFFICES ASSUME NEW p \in DOMAIN c.trail, c.trail[p].lit = h
               PROVE  p = c.qhead
    OBVIOUS
  <2>1. Entry(c.trail, c.trail[p].lit) = p
    BY <1>1, EntryFacts
  <2>2. c.qhead \in DOMAIN c.trail /\ c.trail[c.qhead].lit = h
    BY DEF Visiting
  <2>3. Entry(c.trail, c.trail[c.qhead].lit) = c.qhead
    BY <1>1, <2>2, EntryFacts
  <2> QED
    BY <2>1, <2>2, <2>3
<1>3. True(c.trail, h)
  BY DEF Visiting, True
<1>4. False(c.trail, -h) /\ ~True(c.trail, -h)
  <2>1. ~True(c.trail, -h)
    BY <1>1, <1>3, TrueFacts
  <2>2. False(c.trail, -h)
    BY <1>3 DEF False, Visiting
  <2> QED
    BY <2>1, <2>2
<1>5. first \in Literals
  <2>1. CtxInv(c) /\ r \in ClauseRefs(c) /\ w = Clause(c, r) /\ first \in w.lits
    BY DEF Visiting
  <2> QED
    BY <2>1, ClauseFacts
<1> QED
  BY <1>1, <1>2, <1>4, <1>5 DEF LevelsOK

(* The clauses but r keep their watches.                                   *)
SameButFor(c, r, d) ==
    /\ ClauseRefs(d) = ClauseRefs(c)
    /\ \A s \in ClauseRefs(c) : s # r => Clause(d, s) = Clause(c, s)
    /\ \A x, pending : WatchOK(c, x, pending) => WatchOK(d, x, pending)

LEMMA OthersWatch ==
    ASSUME NEW c, NEW V, NEW r, WatchesOK(c, V), r \in V,
           NEW d, SameButFor(c, r, d), WatchOK(d, Clause(d, r), FALSE)
    PROVE  WatchesOK(d, V \ {r})
<1> SUFFICES ASSUME NEW s \in ClauseRefs(c)
             PROVE  WatchOK(d, Clause(d, s), s \in V \ {r})
  BY DEF WatchesOK, SameButFor
<1>1. CASE s = r
  <2>1. (s \in V \ {r}) = FALSE
    BY <1>1
  <2> QED
    BY <1>1, <2>1
<1>2. CASE s # r
  <2>1. (s \in V \ {r}) = (s \in V)
    BY <1>2
  <2>2. WatchOK(c, Clause(c, s), s \in V)
    BY DEF WatchesOK
  <2>3. WatchOK(d, Clause(d, s), s \in V)
    BY <1>2, <2>2 DEF SameButFor
  <2> QED
    BY <2>1, <2>3
<1> QED
  BY <1>1, <1>2

(* The other watched literal is true.                                      *)
LEMMA VisitTrue ==
    ASSUME NEW c, NEW V, NEW r, NEW w, NEW h, NEW first, Visiting(c, V, r, w, h, first),
           True(c.trail, first)
    PROVE  Visited(c, V \ {r}, c)
<1>v. /\ CtxInv(c) /\ WatchesOK(c, V) /\ VisitOK(c, V)
      /\ r \in V /\ w = Clause(c, r) /\ r \in ClauseRefs(c)
      /\ c.trail[c.qhead].lit = h /\ c.trail[c.qhead].lvl = ScopeLvl(c)
      /\ w.watch = {first, -h}
  BY DEF Visiting
<1>h. /\ \A p \in DOMAIN c.trail : c.trail[p].lit = h => p = c.qhead
      /\ \A p \in DOMAIN c.trail : c.trail[p].lvl <= ScopeLvl(c)
  BY HeadFacts
<1>1. WatchOK(c, w, FALSE)
  <2> SUFFICES ASSUME NEW a \in w.watch, NEW p \in DOMAIN c.trail, c.trail[p].lit = -a,
                      Passed(c, p), ~Dirty(c, c.trail[p].lvl)
               PROVE  \E b \in w.watch : \E q \in DOMAIN c.trail :
                          c.trail[q].lit = b /\ c.trail[q].lvl <= c.trail[p].lvl
    BY DEF WatchOK
  <2>1. CASE p # c.qhead
    <3>1. WatchOK(c, w, r \in V)
      BY <1>v DEF WatchesOK
    <3> QED
      BY <2>1, <3>1 DEF WatchOK
  <2>2. CASE p = c.qhead
    <3>1. PICK q \in DOMAIN c.trail : c.trail[q].lit = first
      BY DEF True
    <3>2. c.trail[q].lvl <= c.trail[p].lvl
      BY <1>h, <1>v, <2>2
    <3> QED
      BY <1>v, <3>1, <3>2
  <2> QED
    BY <2>1, <2>2
<1>s. SameButFor(c, r, c)
  BY DEF SameButFor
<1>2. WatchesOK(c, V \ {r})
  BY <1>1, <1>s, <1>v, OthersWatch
<1>3. VisitOK(c, V \ {r})
  BY <1>v DEF VisitOK
<1> QED
  BY <1>2, <1>3, <1>v DEF Visited, BcpFrame

(* Another literal takes over the watch.                                   *)
LEMMA VisitMove ==
    ASSUME NEW c, NEW V, NEW r, NEW w, NEW h, NEW first, Visiting(c, V, r, w, h, first),
           ~True(c.trail, first), NEW l \in w.lits \ w.watch, ~False(c.trail, l)
    PROVE  Visited(c, V \ {r}, SetWatch(c, r, {first, l}))
<1> DEFINE d == SetWatch(c, r, {first, l})
<1>v. /\ CtxInv(c) /\ WatchesOK(c, V) /\ VisitOK(c, V)
      /\ r \in V /\ w = Clause(c, r) /\ r \in ClauseRefs(c) /\ ~Inconsistent(c)
      /\ c.qhead \in DOMAIN c.trail /\ c.trail[c.qhead].lit = h /\ c.trail[c.qhead].lvl = ScopeLvl(c)
      /\ -(-h) = h /\ first # -h
      /\ first \in w.lits /\ w.watch = {first, -h}
  BY DEF Visiting
<1>h. ~True(c.trail, -h) /\ first \in Literals
  BY HeadFacts
<1>1. Rewatched(c, r, first, l, d)
  <2>1. first \in Clause(c, r).lits /\ l \in Clause(c, r).lits /\ first # l
    BY <1>v
  <2> QED
    BY <1>v, <2>1, SetWatchKeeps
<1> HIDE DEF d
<1>2. /\ CtxInv(d)
      /\ \A x, pending : WatchOK(d, x, pending) <=> WatchOK(c, x, pending)
      /\ d.formulas = c.formulas /\ d.fqhead = c.fqhead /\ d.scopes = c.scopes /\ d.base = c.base
      /\ d.search = c.search /\ d.qhead = c.qhead /\ d.conflict = c.conflict
      /\ d.assumptions = c.assumptions /\ d.trail = c.trail
      /\ ClauseRefs(d) = ClauseRefs(c)
      /\ \A s \in ClauseRefs(c) : s # r => Clause(d, s) = Clause(c, s)
      /\ Clause(d, r).watch = {first, l}
  BY <1>1 DEF Rewatched
<1>3. WatchOK(c, Clause(d, r), FALSE)
  <2> SUFFICES ASSUME NEW a \in {first, l}, NEW p \in DOMAIN c.trail, c.trail[p].lit = -a,
                      Passed(c, p), ~Dirty(c, c.trail[p].lvl)
               PROVE  FALSE
    BY <1>2 DEF WatchOK
  <2>1. a = first
    BY DEF False, True
  <2>2. p # c.qhead
    <3>1. -(-first) = first
      BY <1>h, LiteralFacts
    <3> QED
      BY <1>v, <2>1, <3>1
  <2>3. WatchOK(c, w, r \in V)
    BY <1>v DEF WatchesOK
  <2>4. first \in w.watch
    BY <1>v
  <2>5. \E b \in w.watch : \E q \in DOMAIN c.trail : c.trail[q].lit = b
    BY <2>1, <2>2, <2>3, <2>4 DEF WatchOK
  <2> QED
    BY <1>h, <1>v, <2>5 DEF True
<1>s. SameButFor(c, r, d) /\ WatchOK(d, Clause(d, r), FALSE)
  BY <1>2, <1>3 DEF SameButFor
<1>4. WatchesOK(d, V \ {r})
  BY <1>s, <1>v, OthersWatch
<1>5. VisitOK(d, V \ {r})
  <2>1. ~Inconsistent(d) /\ ScopeLvl(d) = ScopeLvl(c)
    BY <1>2, <1>v DEF Inconsistent, ScopeLvl
  <2>2. V \subseteq ClauseRefs(c) /\ \A s \in V : -c.trail[c.qhead].lit \in Clause(c, s).watch
    BY <1>v DEF VisitOK
  <2> QED
    BY <1>2, <1>v, <2>1, <2>2 DEF VisitOK
<1>6. BcpFrame(c, d)
  BY <1>2 DEF BcpFrame
<1> QED
  BY <1>2, <1>4, <1>5, <1>6 DEF Visited, d

(* All literals of the clause are false.                                   *)
LEMMA VisitConflict ==
    ASSUME NEW c, NEW V, NEW r, NEW w, NEW h, NEW first, Visiting(c, V, r, w, h, first),
           False(c.trail, first), \A l \in w.lits \ w.watch : False(c.trail, l),
           NEW none, none = {}
    PROVE  LET d == [c EXCEPT !.conflict = w.lits \cup {-a : a \in w.just}]
           IN  Visited(c, none, d) /\ Inconsistent(d)
<1> DEFINE K == w.lits \cup {-a : a \in w.just}
           d == [c EXCEPT !.conflict = K]
<1>v. /\ CtxInv(c) /\ WatchesOK(c, V) /\ VisitOK(c, V)
      /\ r \in V /\ w = Clause(c, r) /\ r \in ClauseRefs(c) /\ ~Inconsistent(c)
      /\ c.qhead \in DOMAIN c.trail /\ c.trail[c.qhead].lvl = ScopeLvl(c)
      /\ w.watch = {first, -h} /\ c \in ContextType
  BY DEF Visiting, CtxInv
<1>h. False(c.trail, -h)
  BY HeadFacts
<1>w. /\ w.lits \in SUBSET Literals /\ w.just \in SUBSET Literals
      /\ \A a \in w.just : True(c.trail, a)
      /\ Implied(w.lits, ModelsAt(c, BaseLvl(c)))
  BY <1>v, ClauseFacts
<1>1. K \in SUBSET Literals
  BY <1>w, LiteralFacts
<1>2. \A l \in K : False(c.trail, l)
  <2>1. \A l \in w.lits : False(c.trail, l)
    BY <1>h, <1>v
  <2>2. \A a \in w.just : False(c.trail, -a)
    BY <1>w, LiteralFacts DEF False
  <2> QED
    BY <2>1, <2>2
<1>3. Implied(K, ModelsAt(c, BaseLvl(c)))
  BY <1>w DEF Implied
<1> HIDE DEF K
<1>4. CtxInv(d) /\ Inconsistent(d)
  BY <1>1, <1>2, <1>3, <1>v, ConflictKeeps
<1>5. /\ d.formulas = c.formulas /\ d.fqhead = c.fqhead /\ d.scopes = c.scopes /\ d.base = c.base
      /\ d.search = c.search /\ d.qhead = c.qhead /\ d.aux = c.aux /\ d.lemmas = c.lemmas
      /\ d.assumptions = c.assumptions /\ d.trail = c.trail
  BY <1>v DEF ContextType
<1> HIDE DEF d
<1>6. /\ ScopeLvl(d) = ScopeLvl(c) /\ BaseLvl(d) = BaseLvl(c) /\ ClauseRefs(d) = ClauseRefs(c)
      /\ BaseLvl(c) \in Nat /\ ScopeLvl(c) \in Nat /\ BaseLvl(c) <= ScopeLvl(c)
  <2>1. BaseLvl(c) \in Nat /\ ScopeLvl(c) \in Nat /\ BaseLvl(c) <= ScopeLvl(c)
    BY <1>v, Types DEF CtxInv, ScopesOK
  <2> QED
    BY <1>5, <2>1 DEF ScopeLvl, BaseLvl, ClauseRefs
<1>7. \A s \in ClauseRefs(c) : Clause(d, s) = Clause(c, s)
  <2>1. d.aux = c.aux /\ d.lemmas = c.lemmas
    BY <1>5
  <2> QED
    BY <2>1, SameRefs
<1>8. Dirty(d, ScopeLvl(c)) /\ \A k : Dirty(c, k) => Dirty(d, k)
  BY <1>4, <1>5, <1>6, <1>v DEF Dirty
<1>9. WatchesOK(d, none)
  <2> SUFFICES ASSUME NEW s \in ClauseRefs(c)
               PROVE  WatchOK(d, Clause(c, s), s \in none)
    BY <1>6, <1>7 DEF WatchesOK
  <2>1. WatchOK(c, Clause(c, s), s \in V)
    BY <1>v DEF WatchesOK
  <2>2. \A p \in DOMAIN c.trail : ~Dirty(d, c.trail[p].lvl) => p # c.qhead /\ ~Dirty(c, c.trail[p].lvl)
    BY <1>8, <1>v
  <2>3. \A p : Passed(d, p) <=> Passed(c, p)
    BY <1>5, <1>6 DEF Passed
  <2> QED
    BY <1>5, <2>1, <2>2, <2>3 DEF WatchOK
<1>10. VisitOK(d, none)
  BY DEF VisitOK
<1>11. BcpFrame(c, d)
  BY <1>5 DEF BcpFrame
<1> QED
  BY <1>4, <1>5, <1>9, <1>10, <1>11 DEF Visited, d, K

(* The other watched literal is implied.                                   *)
LEMMA VisitAssign ==
    ASSUME NEW c, NEW V, NEW r, NEW w, NEW h, NEW first, Visiting(c, V, r, w, h, first),
           ~True(c.trail, first), ~False(c.trail, first),
           \A l \in w.lits \ w.watch : False(c.trail, l)
    PROVE  LET d == Assign(c, first, Antecedents(w, first))
           IN  Visited(c, V \ {r}, d) /\ ~Inconsistent(d)
<1> DEFINE why == Antecedents(w, first)
           T == c.trail
           y == [lit |-> first, lvl |-> ScopeLvl(c), why |-> why]
           d == Assign(c, first, why)
<1>v. /\ CtxInv(c) /\ WatchesOK(c, V) /\ VisitOK(c, V)
      /\ r \in V /\ w = Clause(c, r) /\ r \in ClauseRefs(c) /\ ~Inconsistent(c)
      /\ c.qhead \in DOMAIN T /\ T[c.qhead].lit = h /\ T[c.qhead].lvl = ScopeLvl(c)
      /\ w.watch = {first, -h} /\ c \in ContextType
      /\ -(-h) = h /\ -h \in w.lits /\ first # -h /\ h \in Literals
  BY DEF Visiting, CtxInv
<1>h. /\ False(T, -h) /\ first \in Literals
      /\ \A p \in DOMAIN T : T[p].lit = h => p = c.qhead
  BY HeadFacts
<1>w. /\ w.lits \in SUBSET Literals /\ w.just \in SUBSET Literals
      /\ \A a \in w.just : True(T, a)
      /\ Implied(w.lits, ModelsAt(c, BaseLvl(c)))
  BY <1>v, ClauseFacts
<1>n. T \in Seq(Entries) /\ DOMAIN T = 1 .. Len(T) /\ Len(T) \in Nat /\ ScopeLvl(c) \in Nat
  BY <1>v, Types, Fields
<1>y. why = {-k : k \in w.lits \ {first}} \cup w.just
  BY DEF Antecedents
<1> HIDE DEF why
<1>1. why \in SUBSET Literals
  <2>1. \A k \in w.lits : -k \in Literals
    BY <1>w, LiteralFacts
  <2> QED
    BY <1>w, <1>y, <2>1
<1>2. \A a \in why : True(T, a)
  <2>1. \A k \in w.lits \ {first} : False(T, k)
    BY <1>h, <1>v
  <2> QED
    BY <1>w, <1>y, <2>1 DEF False
<1>3. h \in why
  BY <1>v, <1>y
<1>4. Propagates(c, first, why)
  <2>1. ASSUME NEW m \in ModelsAt(c, BaseLvl(c)), why \subseteq m
        PROVE  first \in m
    <3>1. PICK k \in w.lits : k \in m
      BY <1>w DEF Implied
    <3>2. m \in Valuations /\ k \in Literals
      BY <1>w DEF ModelsAt
    <3>3. CASE k # first
      <4>1. -k \in m
        BY <1>y, <2>1, <3>3
      <4> QED
        BY <3>1, <3>2, <4>1, ValuationFacts
    <3> QED
      BY <3>1, <3>3
  <2> QED
    BY <1>3, <1>v, <2>1 DEF Propagates
<1>5. Assignable(c, first, why)
  BY <1>1, <1>2, <1>4, <1>h DEF Assignable
<1>6. /\ CtxInv(d)
      /\ d = [c EXCEPT !.trail = Append(T, y)]
      /\ \A x, pending : WatchOK(c, x, pending) => WatchOK(d, x, pending)
  BY <1>5, <1>v, AssignKeeps
<1>7. y \in Entries /\ y.lit = first /\ y.lvl = ScopeLvl(c)
  BY <1>1, <1>h, <1>n DEF Entries, Clauses
<1> HIDE DEF y, d
<1>8. /\ d.formulas = c.formulas /\ d.fqhead = c.fqhead /\ d.scopes = c.scopes /\ d.base = c.base
      /\ d.search = c.search /\ d.qhead = c.qhead /\ d.aux = c.aux /\ d.lemmas = c.lemmas
      /\ d.assumptions = c.assumptions /\ d.trail = Append(T, y) /\ d.conflict = c.conflict
  BY <1>6, <1>v DEF ContextType
<1>9. /\ \A i \in DOMAIN T : i \in DOMAIN d.trail /\ d.trail[i] = T[i]
      /\ Len(T) + 1 \in DOMAIN d.trail /\ d.trail[Len(T) + 1] = y
      /\ \A i \in DOMAIN d.trail : i \in DOMAIN T \/ i = Len(T) + 1
  <2>1. /\ DOMAIN Append(T, y) = 1 .. (Len(T) + 1) /\ Append(T, y)[Len(T) + 1] = y
        /\ \A i \in 1 .. Len(T) : Append(T, y)[i] = T[i]
    BY <1>7, <1>n, AppendFacts
  <2>2. /\ \A i \in 1 .. Len(T) : i \in 1 .. (Len(T) + 1)
        /\ Len(T) + 1 \in 1 .. (Len(T) + 1)
        /\ \A i \in 1 .. (Len(T) + 1) : i \in 1 .. Len(T) \/ i = Len(T) + 1
    BY <1>n
  <2>3. d.trail = Append(T, y)
    BY <1>8
  <2> QED
    BY <1>n, <2>1, <2>2, <2>3
<1>f. /\ d.formulas = c.formulas /\ d.fqhead = c.fqhead /\ d.scopes = c.scopes /\ d.base = c.base
      /\ d.search = c.search /\ d.qhead = c.qhead /\ d.aux = c.aux /\ d.lemmas = c.lemmas
      /\ d.assumptions = c.assumptions /\ d.conflict = c.conflict
  BY <1>8
<1>10. BcpFrame(c, d)
  BY <1>7, <1>9, <1>f DEF BcpFrame
<1>11. ~Inconsistent(d) /\ ScopeLvl(d) = ScopeLvl(c) /\ ClauseRefs(d) = ClauseRefs(c)
  BY <1>f, <1>v DEF Inconsistent, ScopeLvl, ClauseRefs
<1>12. \A s \in ClauseRefs(c) : Clause(d, s) = Clause(c, s)
  <2>1. d.aux = c.aux /\ d.lemmas = c.lemmas
    BY <1>f
  <2> QED
    BY <2>1, SameRefs
<1>13. WatchOK(d, w, FALSE)
  <2> SUFFICES ASSUME NEW a \in w.watch, NEW p \in DOMAIN d.trail, d.trail[p].lit = -a
               PROVE  \E b \in w.watch : \E q \in DOMAIN d.trail :
                          d.trail[q].lit = b /\ d.trail[q].lvl <= d.trail[p].lvl
    BY DEF WatchOK
  <2>1. d.trail \in Trails /\ True(d.trail, first)
    BY <1>6, <1>7, <1>9 DEF CtxInv, TrailOK, True
  <2>2. a # first
    <3>1. ~True(d.trail, -first)
      BY <2>1, TrueFacts
    <3> QED
      BY <3>1 DEF True
  <2>3. a = -h
    BY <1>v, <2>2
  <2>4. p \in DOMAIN T
    <3>1. d.trail[p].lit = h
      BY <1>v, <2>3
    <3>2. first # h
      BY <1>v DEF True
    <3> QED
      BY <1>7, <1>9, <3>1, <3>2
  <2>5. p = c.qhead /\ d.trail[p].lvl = ScopeLvl(c)
    BY <1>9, <1>h, <1>v, <2>3, <2>4
  <2>6. d.trail[Len(T) + 1].lvl <= d.trail[p].lvl
    BY <1>7, <1>9, <1>n, <2>5
  <2> QED
    BY <1>7, <1>9, <1>v, <2>6
<1>14. SameButFor(c, r, d) /\ WatchOK(d, Clause(d, r), FALSE)
  BY <1>6, <1>11, <1>12, <1>13, <1>v DEF SameButFor
<1>15. WatchesOK(d, V \ {r})
  BY <1>14, <1>v, OthersWatch
<1>16. VisitOK(d, V \ {r})
  <2>1. V \subseteq ClauseRefs(c) /\ \A s \in V : -T[c.qhead].lit \in Clause(c, s).watch
    BY <1>v DEF VisitOK
  <2> QED
    BY <1>9, <1>11, <1>12, <1>f, <1>v, <2>1 DEF VisitOK
<1> QED
  BY <1>6, <1>10, <1>11, <1>15, <1>16, <1>f DEF Visited, d, why

(* A step of bcp.                                                          *)
LEMMA VisitKeeps ==
    ASSUME NEW c, CtxInv(c), NEW V, WatchesOK(c, V), VisitOK(c, V), NEW r \in V,
           NEW d \in VisitClause(c, r, -c.trail[c.qhead].lit)
    PROVE  Visited(c, IF Inconsistent(d) THEN {} ELSE V \ {r}, d)
<1> DEFINE w == Clause(c, r)
           h == c.trail[c.qhead].lit
           first == CHOOSE l \in w.watch : l # -h
           others == {l \in w.lits \ w.watch : ~False(c.trail, l)}
           none == {}
<1>v. /\ ~Inconsistent(c) /\ r \in ClauseRefs(c)
      /\ c.qhead \in DOMAIN c.trail /\ c.trail[c.qhead].lvl = ScopeLvl(c)
      /\ -h \in w.watch
  BY DEF VisitOK
<1>h. h \in Literals /\ -(-h) = h
  <2>1. h \in Literals
    BY <1>v, Types DEF CtxInv
  <2> QED
    BY <2>1, LiteralFacts
<1>w. WatchesTwo(w)
  BY <1>v, ClauseFacts
<1>1. first \in w.lits /\ -h \in w.lits /\ first # -h /\ w.watch = {first, -h}
  <2>1. PICK a \in w.lits, b \in w.lits : a # b /\ w.watch = {a, b}
    BY <1>w DEF WatchesTwo
  <2>2. first \in w.watch /\ first # -h
    BY <2>1
  <2> QED
    BY <1>v, <2>1, <2>2
<1>d. d \in IF True(c.trail, first) THEN {c}
            ELSE IF others # {} THEN {SetWatch(c, r, {first, l}) : l \in others}
            ELSE IF False(c.trail, first) THEN {[c EXCEPT !.conflict = w.lits \cup {-a : a \in w.just}]}
            ELSE {Assign(c, first, Antecedents(w, first))}
  BY DEF VisitClause
<1>2. Visiting(c, V, r, w, h, first)
  <2> HIDE DEF first
  <2> QED
    BY <1>1, <1>h, <1>v DEF Visiting
<1>n. none = {}
  OBVIOUS
<1> HIDE DEF w, h, first, none
<1>3. CASE True(c.trail, first)
  <2>1. d = c
    BY <1>3, <1>d
  <2> QED
    BY <1>2, <1>3, <1>v, <2>1, VisitTrue
<1>4. CASE ~True(c.trail, first) /\ others # {}
  <2>1. PICK l \in others : d = SetWatch(c, r, {first, l})
    BY <1>4, <1>d
  <2>2. l \in w.lits \ w.watch /\ ~False(c.trail, l)
    BY <2>1
  <2>3. Visited(c, V \ {r}, d)
    BY <1>2, <1>4, <2>1, <2>2, VisitMove
  <2>4. ~Inconsistent(d)
    <3>1. Rewatched(c, r, first, l, d)
      <4>1. first \in Clause(c, r).lits /\ l \in Clause(c, r).lits /\ first # l
        BY <1>1, <2>2 DEF w
      <4> QED
        BY <1>v, <2>1, <4>1, SetWatchKeeps
    <3> QED
      BY <1>v, <3>1 DEF Rewatched, Inconsistent
  <2> QED
    BY <2>3, <2>4
<1>5. CASE ~True(c.trail, first) /\ others = {}
  <2>0. \A l \in w.lits \ w.watch : False(c.trail, l)
    BY <1>5
  <2> HIDE DEF others
  <2>1. CASE False(c.trail, first)
    <3> DEFINE e == [c EXCEPT !.conflict = w.lits \cup {-a : a \in w.just}]
    <3>1. d = e
      BY <1>5, <1>d, <2>1
    <3>2. Visited(c, none, e) /\ Inconsistent(e)
      BY <1>2, <1>n, <2>0, <2>1, VisitConflict
    <3> QED
      BY <3>1, <3>2, <1>n
  <2>2. CASE ~False(c.trail, first)
    <3> DEFINE e == Assign(c, first, Antecedents(w, first))
    <3>1. d = e
      BY <1>5, <1>d, <2>2
    <3>2. Visited(c, V \ {r}, e) /\ ~Inconsistent(e)
      BY <1>2, <1>5, <2>0, <2>2, VisitAssign
    <3> QED
      BY <3>1, <3>2
  <2> QED
    BY <2>1, <2>2
<1> QED
  BY <1>3, <1>4, <1>5

LEMMA NextKeeps ==
    ASSUME NEW c, CtxInv(c), WatchesOK(c, {}), ~Inconsistent(c), c.qhead < Len(c.trail),
           NEW V, V = WatchList(c, -c.trail[c.qhead + 1].lit),
           NEW d, d = [c EXCEPT !.qhead = @ + 1]
    PROVE  /\ CtxInv(d) /\ WatchesOK(d, V) /\ VisitOK(d, V)
           /\ BcpFrame(c, d) /\ d.qhead = c.qhead + 1 /\ d.conflict = c.conflict
<1> DEFINE q == c.qhead + 1
           e == [c EXCEPT !.qhead = q]
<1>c. /\ c \in ContextType /\ QueueOK(c) /\ c.qhead \in Nat /\ DOMAIN c.trail = 1 .. Len(c.trail)
      /\ Len(c.trail) \in Nat
  BY Types DEF CtxInv
<1>q. q \in 0 .. Len(c.trail) /\ q \in DOMAIN c.trail /\ q > c.qhead
  BY <1>c
<1>l. c.trail[q].lvl = ScopeLvl(c)
  BY <1>c, <1>q DEF QueueOK
<1>0. d = e
  BY <1>c DEF ContextType
<1>x. \A p \in DOMAIN c.trail : (p > q => p > c.qhead) /\ (p <= q <=> p <= c.qhead \/ p = q)
  BY <1>c
<1> HIDE DEF q
<1>1. ~Inconsistent(c) => \A i \in DOMAIN c.trail : i > q => c.trail[i].lvl = ScopeLvl(c)
  BY <1>c, <1>x DEF QueueOK
<1>2. /\ CtxInv(d)
      /\ \A p : Passed(d, p) <=> p <= q \/ c.trail[p].lvl < ScopeLvl(c)
      /\ \A k : Dirty(d, k) = Dirty(c, k)
  <2>1. /\ CtxInv(e)
        /\ \A p : Passed(e, p) <=> p <= q \/ c.trail[p].lvl < ScopeLvl(c)
        /\ \A k : Dirty(e, k) = Dirty(c, k)
    BY <1>1, <1>q, QheadKeeps
  <2> QED
    BY <1>0, <2>1
<1>3. /\ d.formulas = c.formulas /\ d.fqhead = c.fqhead /\ d.scopes = c.scopes /\ d.base = c.base
      /\ d.search = c.search /\ d.qhead = q /\ d.aux = c.aux /\ d.lemmas = c.lemmas
      /\ d.assumptions = c.assumptions /\ d.trail = c.trail /\ d.conflict = c.conflict
  BY <1>0, <1>c DEF ContextType
<1> HIDE DEF e
<1>4. ClauseRefs(d) = ClauseRefs(c) /\ ~Inconsistent(d) /\ ScopeLvl(d) = ScopeLvl(c)
  BY <1>3 DEF ClauseRefs, Inconsistent, ScopeLvl
<1>5. \A s \in ClauseRefs(c) : Clause(d, s) = Clause(c, s)
  <2>1. d.aux = c.aux /\ d.lemmas = c.lemmas
    BY <1>3
  <2> QED
    BY <2>1, SameRefs
<1>6. \A s : s \in V <=> s \in ClauseRefs(c) /\ -c.trail[q].lit \in Clause(c, s).watch
  BY DEF WatchList, q
<1>7. VisitOK(d, V)
  BY <1>3, <1>4, <1>5, <1>6, <1>l, <1>q DEF VisitOK
<1>8. WatchesOK(d, V)
  <2> SUFFICES ASSUME NEW s \in ClauseRefs(c)
               PROVE  WatchOK(d, Clause(c, s), s \in V)
    BY <1>4, <1>5 DEF WatchesOK
  <2>1. WatchOK(c, Clause(c, s), FALSE)
    <3>1. (s \in {}) = FALSE
      OBVIOUS
    <3> QED
      BY <3>1 DEF WatchesOK
  <2> DEFINE w == Clause(c, s)
  <2>w. w.watch \in SUBSET Literals
    <3>1. WatchesTwo(w) /\ w.lits \in SUBSET Literals
      BY ClauseFacts
    <3> QED
      BY <3>1 DEF WatchesTwo
  <2> SUFFICES ASSUME NEW a \in w.watch, NEW p \in DOMAIN c.trail, c.trail[p].lit = -a,
                      Passed(d, p), ~Dirty(d, c.trail[p].lvl), ~(s \in V /\ p = q)
               PROVE  \E b \in w.watch : \E i \in DOMAIN c.trail :
                          c.trail[i].lit = b /\ c.trail[i].lvl <= c.trail[p].lvl
    BY <1>3 DEF WatchOK
  <2>2. p # q
    <3>1. p = q => -c.trail[q].lit = a
      BY <2>w, LiteralFacts
    <3> QED
      BY <1>6, <3>1
  <2>3. Passed(c, p) /\ ~Dirty(c, c.trail[p].lvl)
    BY <1>2, <1>x, <2>2 DEF Passed
  <2> QED
    BY <2>1, <2>3 DEF WatchOK
<1>9. BcpFrame(c, d)
  BY <1>3 DEF BcpFrame
<1> QED
  BY <1>2, <1>3, <1>7, <1>8, <1>9 DEF q

(* propagate puts its queue back when it is cancelled.                     *)
LEMMA RequeueKeeps ==
    ASSUME NEW c, CtxInv(c), WatchesOK(c, {}), NEW q \in 0 .. c.qhead,
           ~Inconsistent(c) => \A i \in DOMAIN c.trail : i > q => c.trail[i].lvl = ScopeLvl(c),
           NEW d, d = [c EXCEPT !.qhead = q]
    PROVE  /\ CtxInv(d) /\ WatchesOK(d, {})
           /\ BcpFrame(c, d) /\ d.conflict = c.conflict /\ d.trail = c.trail
<1>c. /\ c \in ContextType /\ c.qhead \in Nat /\ DOMAIN c.trail = 1 .. Len(c.trail)
      /\ Len(c.trail) \in Nat /\ c.qhead <= Len(c.trail)
  BY Types DEF CtxInv, ScopesOK
<1>q. q \in 0 .. Len(c.trail) /\ \A p \in DOMAIN c.trail : p <= q => p <= c.qhead
  BY <1>c
<1>1. /\ CtxInv(d)
      /\ \A p : Passed(d, p) <=> p <= q \/ c.trail[p].lvl < ScopeLvl(c)
      /\ \A k : Dirty(d, k) = Dirty(c, k)
  BY <1>q, QheadKeeps
<1>2. /\ d.formulas = c.formulas /\ d.fqhead = c.fqhead /\ d.scopes = c.scopes /\ d.base = c.base
      /\ d.search = c.search /\ d.aux = c.aux /\ d.lemmas = c.lemmas
      /\ d.assumptions = c.assumptions /\ d.trail = c.trail /\ d.conflict = c.conflict
  BY <1>c DEF ContextType
<1>4. ASSUME NEW w, WatchOK(c, w, FALSE)
      PROVE  WatchOK(d, w, FALSE)
  <2>1. d.trail = c.trail
    BY <1>2
  <2>2. \A p \in DOMAIN c.trail : Passed(d, p) => Passed(c, p)
    BY <1>1, <1>q DEF Passed
  <2>3. \A k : Dirty(d, k) = Dirty(c, k)
    BY <1>1
  <2> QED
    BY <1>4, <2>1, <2>2, <2>3 DEF WatchOK
<1>5. WatchesOK(d, {})
  <2>1. d.aux = c.aux /\ d.lemmas = c.lemmas
    BY <1>2
  <2>2. /\ \A i \in DOMAIN c.aux : WatchOK(c, c.aux[i], FALSE)
        /\ \A i \in DOMAIN c.lemmas : WatchOK(c, c.lemmas[i], FALSE)
    BY WatchesSplit
  <2>3. /\ \A i \in DOMAIN d.aux : WatchOK(d, d.aux[i], FALSE)
        /\ \A i \in DOMAIN d.lemmas : WatchOK(d, d.lemmas[i], FALSE)
    BY <1>4, <2>1, <2>2
  <2> QED
    BY <2>3, WatchesSplit
<1>6. BcpFrame(c, d)
  BY <1>2 DEF BcpFrame
<1> QED
  BY <1>1, <1>2, <1>5, <1>6

(* The order in which the assumptions are taken.                           *)
LEMMA SetToSeqFacts ==
    ASSUME NEW A, IsFiniteSet(A)
    PROVE  /\ SetToSeq(A) \in Seq(A)
           /\ \A a \in A : \E i \in 1 .. Len(SetToSeq(A)) : SetToSeq(A)[i] = a
<1> DEFINE n == Cardinality(A)
           s == SetToSeq(A)
<1>1. n \in Nat /\ ExistsBijection(1 .. n, A)
  BY FS_CardinalityType
<1> HIDE DEF n
<1>2. PICK f \in [1 .. n -> A] : IsInjective(f)
  BY <1>1 DEF ExistsBijection, Bijection, Injection
<1>3. s \in [1 .. n -> A] /\ IsInjective(s)
  <2> HIDE DEF s
  <2>1. s = CHOOSE g \in [1 .. n -> A] : IsInjective(g)
    BY Zenon DEF s, SetToSeq, n
  <2> QED
    BY <1>2, <2>1, Zenon
<1> HIDE DEF s
<1>4. s \in Seq(A) /\ Len(s) = n
  BY <1>1, <1>3
<1>5. s \in Surjection(1 .. n, A)
  <2>1. s \in Injection(1 .. n, A)
    BY <1>3 DEF Injection
  <2>2. Cardinality(1 .. n) = n
    BY <1>1, FS_Interval
  <2>3. Cardinality(1 .. n) = Cardinality(A) <=> s \in Surjection(1 .. n, A)
    BY <2>1, FS_Injection
  <2> QED
    BY <2>2, <2>3 DEF n
<1>6. \A a \in A : \E i \in 1 .. n : s[i] = a
  BY <1>5 DEF Surjection
<1> QED
  BY <1>4, <1>6 DEF s

LEMMA WatchesTransfer ==
    ASSUME NEW c, NEW d, d.aux = c.aux, d.lemmas = c.lemmas, WatchesOK(c, {}),
           \A w : WatchOK(c, w, FALSE) => WatchOK(d, w, FALSE)
    PROVE  WatchesOK(d, {})
<1>1. /\ \A i \in DOMAIN c.aux : WatchOK(c, c.aux[i], FALSE)
      /\ \A i \in DOMAIN c.lemmas : WatchOK(c, c.lemmas[i], FALSE)
  BY WatchesSplit
<1>2. /\ \A i \in DOMAIN d.aux : WatchOK(d, d.aux[i], FALSE)
      /\ \A i \in DOMAIN d.lemmas : WatchOK(d, d.lemmas[i], FALSE)
  BY <1>1
<1> QED
  BY <1>2, WatchesSplit

(* The loop of init_assumptions, which has assigned i of the assumptions.  *)
Assumed(start, s, i, x) ==
    /\ CtxInv(x) /\ WatchesOK(x, {})
    /\ x.formulas = start.formulas /\ x.scopes = start.scopes /\ x.base = start.base
    /\ x.fqhead = start.fqhead /\ x.search = start.search /\ x.assumptions = start.assumptions
    /\ Inconsistent(x) \/ \A j \in 1 .. i : True(x.trail, s[j])

LEMMA AssignType ==
    ASSUME NEW c \in ContextType, NEW l \in Literals, NEW why, why = {}
    PROVE  Assign(c, l, why) \in ContextType
<1> DEFINE e == [lit |-> l, lvl |-> ScopeLvl(c), why |-> why]
           K == {l} \cup {-a : a \in why}
           T == Append(c.trail, e)
<1>1. K \in Clauses
  BY DEF Clauses
<1>2. T \in Seq(Entries)
  <2>1. e \in Entries
    BY Types DEF Entries, Clauses
  <2>2. c.trail \in Seq(Entries)
    BY Fields
  <2> HIDE DEF e
  <2> QED
    BY <2>1, <2>2
<1>3. Assign(c, l, why) \in {c, [c EXCEPT !.conflict = K], [c EXCEPT !.trail = T]}
  BY DEF Assign
<1> HIDE DEF K, T
<1> QED
  BY <1>1, <1>2, <1>3 DEF ContextType

LEMMA AssumeStep ==
    ASSUME NEW start, ScopeLvl(start) = start.search, start.search > BaseLvl(start),
           start.assumptions \in SUBSET Literals,
           NEW s, NEW i, i \in Nat, i > 0, s[i] \in start.assumptions,
           NEW x, Assumed(start, s, i - 1, x), NEW none, none = {}
    PROVE  Assumed(start, s, i, Assign(x, s[i], none))
<1> DEFINE l == s[i]
           d == Assign(x, l, none)
           e == [lit |-> l, lvl |-> ScopeLvl(x), why |-> none]
<1>x. /\ CtxInv(x) /\ WatchesOK(x, {}) /\ x \in ContextType
      /\ ScopeLvl(x) = x.search /\ x.search > BaseLvl(x) /\ l \in x.assumptions /\ l \in Literals
  BY DEF Assumed, CtxInv, ScopeLvl, BaseLvl
<1>j. \A j \in 1 .. i : j = i \/ j \in 1 .. (i - 1)
  OBVIOUS
<1> SUFFICES Assumed(start, s, i, d)
  OBVIOUS
<1>1. CASE True(x.trail, l)
  <2>1. d = x
    BY <1>1 DEF Assign
  <2> HIDE DEF d
  <2> QED
    BY <1>1, <1>j, <2>1 DEF Assumed
<1>2. CASE ~True(x.trail, l) /\ False(x.trail, l) /\ Inconsistent(x)
  <2>1. d = x
    BY <1>2 DEF Assign
  <2> HIDE DEF d
  <2> QED
    BY <1>2, <2>1 DEF Assumed
<1>3. CASE ~True(x.trail, l) /\ False(x.trail, l) /\ ~Inconsistent(x)
  <2>1. d = [x EXCEPT !.conflict = {l}]
    <3>1. {l} \cup {-a : a \in none} = {l}
      OBVIOUS
    <3> QED
      BY <1>3, <3>1 DEF Assign
  <2> HIDE DEF d
  <2>2. /\ CtxInv(d) /\ Inconsistent(d)
        /\ \A w, pending : WatchOK(x, w, pending) => WatchOK(d, w, pending)
    <3>1. {l} \in SUBSET Literals /\ \A k \in {l} : False(x.trail, k)
      BY <1>3, <1>x
    <3>2. ScopeLvl(x) > BaseLvl(x) /\ \E k \in x.assumptions : {l} = {k}
      BY <1>x
    <3> HIDE DEF l
    <3> QED
      BY <1>3, <1>x, <2>1, <3>1, <3>2, ConflictKeeps
  <2>3. /\ d.formulas = x.formulas /\ d.scopes = x.scopes /\ d.base = x.base /\ d.aux = x.aux
        /\ d.lemmas = x.lemmas /\ d.fqhead = x.fqhead /\ d.search = x.search
        /\ d.assumptions = x.assumptions
    BY <1>x, <2>1 DEF ContextType
  <2>4. WatchesOK(d, {})
    BY <1>x, <2>2, <2>3, WatchesTransfer
  <2> QED
    BY <2>2, <2>3, <2>4 DEF Assumed
<1>4. CASE ~True(x.trail, l) /\ ~False(x.trail, l)
  <2>1. Assignable(x, l, none)
    BY <1>4, <1>x DEF Assignable, Assumes
  <2>2. /\ CtxInv(d)
        /\ d = [x EXCEPT !.trail = Append(x.trail, e)]
        /\ \A w, pending : WatchOK(x, w, pending) => WatchOK(d, w, pending)
    <3> HIDE DEF l
    <3> QED
      BY <1>x, <2>1, AssignKeeps
  <2>e. e \in Entries /\ e.lit = l
    BY <1>x, Types DEF Entries, Clauses
  <2> HIDE DEF d, e
  <2>3. /\ d.formulas = x.formulas /\ d.scopes = x.scopes /\ d.base = x.base /\ d.aux = x.aux
        /\ d.lemmas = x.lemmas /\ d.fqhead = x.fqhead /\ d.search = x.search
        /\ d.assumptions = x.assumptions /\ d.conflict = x.conflict /\ d.trail = Append(x.trail, e)
    BY <1>x, <2>2 DEF ContextType
  <2>4. WatchesOK(d, {})
    BY <1>x, <2>2, <2>3, WatchesTransfer
  <2>5. \A k : k = l \/ True(x.trail, k) => True(d.trail, k)
    <3>1. x.trail \in Seq(Entries) /\ DOMAIN x.trail = 1 .. Len(x.trail) /\ Len(x.trail) \in Nat
      BY <1>x, Fields, Types
    <3>2. /\ DOMAIN d.trail = 1 .. (Len(x.trail) + 1) /\ d.trail[Len(x.trail) + 1] = e
          /\ \A j \in 1 .. Len(x.trail) : d.trail[j] = x.trail[j]
      BY <2>3, <2>e, <3>1, AppendFacts
    <3>3. /\ Len(x.trail) + 1 \in DOMAIN d.trail
          /\ \A j \in DOMAIN x.trail : j \in DOMAIN d.trail /\ d.trail[j] = x.trail[j]
      BY <3>1, <3>2
    <3> QED
      BY <2>e, <3>2, <3>3 DEF True
  <2>6. Inconsistent(d) <=> Inconsistent(x)
    BY <2>3 DEF Inconsistent
  <2>7. Inconsistent(d) \/ \A j \in 1 .. i : True(d.trail, s[j])
    BY <1>j, <2>5, <2>6 DEF Assumed
  <2>8. CtxInv(d)
    BY <2>2
  <2>9. /\ d.formulas = start.formulas /\ d.scopes = start.scopes /\ d.base = start.base
        /\ d.fqhead = start.fqhead /\ d.search = start.search /\ d.assumptions = start.assumptions
    BY <2>3 DEF Assumed
  <2> QED
    BY <2>4, <2>7, <2>8, <2>9 DEF Assumed
<1> QED
  BY <1>1, <1>2, <1>3, <1>4

(* init_assumptions opens a scope for the assumptions, and assigns them in *)
(* it or ends in a conflict of that scope.                                 *)
LEMMA AssumeKeeps ==
    ASSUME NEW c, CtxInv(c), WatchesOK(c, {}), ~Inconsistent(c), ScopeLvl(c) = BaseLvl(c),
           c.qhead = Len(c.trail), c.fqhead = Len(c.formulas),
           NEW A \in SUBSET Literals, IsFiniteSet(A)
    PROVE  LET d == Assume(c, A)
           IN  /\ CtxInv(d) /\ WatchesOK(d, {})
               /\ SameFrames(c, d) /\ d.fqhead = c.fqhead
               /\ d.search = ScopeLvl(d) /\ d.search = BaseLvl(c) + 1 /\ d.assumptions = A
               /\ \/ Inconsistent(d)
                  \/ \A a \in A : \E i \in DOMAIN d.trail : d.trail[i].lit = a /\ d.trail[i].lvl <= d.search
<1> DEFINE s == SetToSeq(A)
           n == Len(s)
           b == [c EXCEPT !.assumptions = A, !.search = ScopeLvl(c) + 1]
           start == [PushScope(c) EXCEPT !.assumptions = A, !.search = ScopeLvl(c) + 1]
           none == {}
           IsUpto(f) == f = [i \in 0 .. n |-> IF i = 0 THEN start ELSE Assign(f[i - 1], s[i], {})]
<1>s. s \in Seq(A) /\ n \in Nat /\ \A a \in A : \E i \in 1 .. n : s[i] = a
  BY SetToSeqFacts
<1>t. \A i \in 1 .. n : s[i] \in A /\ s[i] \in Literals
  <2> HIDE DEF s
  <2> QED
    BY <1>s
<1> HIDE DEF s, n
<1>c. c \in ContextType /\ BaseLvl(c) \in Nat /\ ScopeLvl(c) \in Nat
  BY Types DEF CtxInv
<1>1. CtxInv(b) /\ \A w, pending : WatchOK(c, w, pending) => WatchOK(b, w, pending)
  <2> DEFINE u == ScopeLvl(c) + 1
  <2>1. u \in BaseLvl(c) .. (BaseLvl(c) + 1)
    BY <1>c
  <2> SUFFICES /\ CtxInv([c EXCEPT !.assumptions = A, !.search = u])
               /\ \A w, pending :
                     WatchOK(c, w, pending) => WatchOK([c EXCEPT !.assumptions = A, !.search = u], w, pending)
    OBVIOUS
  <2> HIDE DEF u
  <2> QED
    BY <2>1, SearchKeeps, Zenon
<1>2. start = PushScope(b)
  BY <1>c DEF PushScope, ContextType
<1>3. /\ b.formulas = c.formulas /\ b.scopes = c.scopes /\ b.base = c.base /\ b.aux = c.aux
      /\ b.lemmas = c.lemmas /\ b.fqhead = c.fqhead /\ b.search = ScopeLvl(c) + 1
      /\ b.trail = c.trail /\ b.qhead = c.qhead
      /\ b.assumptions = A /\ b.conflict = c.conflict
  BY <1>c DEF ContextType
<1> HIDE DEF b, start
<1>4. ~Inconsistent(b) /\ b.qhead = Len(b.trail) /\ b.fqhead = Len(b.formulas)
      /\ ScopeLvl(b) = ScopeLvl(c) /\ BaseLvl(b) = BaseLvl(c)
  BY <1>3 DEF Inconsistent, ScopeLvl, BaseLvl
<1>5. WatchesOK(b, {})
  BY <1>1, <1>3, WatchesTransfer
<1>6. CtxInv(start) /\ \A w : WatchOK(b, w, FALSE) => WatchOK(start, w, FALSE)
  BY <1>1, <1>2, <1>4, PushScopeKeeps
<1>7. /\ start.formulas = b.formulas /\ start.fqhead = b.fqhead /\ start.base = b.base
      /\ start.search = b.search /\ start.aux = b.aux /\ start.lemmas = b.lemmas
      /\ start.assumptions = b.assumptions /\ start \in ContextType
      /\ ScopeLvl(start) = ScopeLvl(b) + 1
      /\ \A j \in 1 .. ScopeLvl(b) : start.scopes[j] = b.scopes[j]
  BY <1>1, <1>2, <1>4, PushScopeFacts
<1>8. WatchesOK(start, {})
  BY <1>5, <1>6, <1>7, WatchesTransfer
<1>9. /\ ScopeLvl(start) = start.search /\ start.search > BaseLvl(start) /\ start.assumptions = A
      /\ BaseLvl(start) = BaseLvl(c) /\ start.search = BaseLvl(c) + 1
  BY <1>3, <1>4, <1>7, <1>c DEF BaseLvl
<1>10. SameFrames(c, start)
  <2>1. start.formulas = c.formulas /\ BaseLvl(start) = BaseLvl(c)
    BY <1>3, <1>7, <1>9
  <2>2. \A j \in 1 .. BaseLvl(c) : start.scopes[j] = c.scopes[j]
    BY <1>3, <1>4, <1>7
  <2>3. \A k \in 0 .. BaseLvl(c) : k < BaseLvl(c) => k + 1 \in 1 .. BaseLvl(c)
    BY <1>c
  <2>4. \A k \in 0 .. BaseLvl(c) : FormulasLimAt(start, k) = FormulasLimAt(c, k)
    BY <2>1, <2>2, <2>3 DEF FormulasLimAt
  <2> QED
    BY <2>1, <2>4 DEF SameFrames
<1>11. \E f : UpLoop(n, ContextType, start,
                     [i \in 1 .. n |-> [x \in ContextType |-> Assign(x, s[i], none)]], f)
  <2> DEFINE G == [i \in 1 .. n |-> [x \in ContextType |-> Assign(x, s[i], none)]]
  <2>1. \A i \in 1 .. n : \A x \in ContextType : Assign(x, s[i], none) \in ContextType
    BY <1>t, AssignType
  <2>2. G \in [1 .. n -> [ContextType -> ContextType]]
    <3> HIDE DEF none
    <3> QED
      BY <2>1
  <2> HIDE DEF G, none
  <2>3. \E f : UpLoop(n, ContextType, start, G, f)
    BY <1>s, <1>7, <2>2, UpRecursion
  <2> QED
    BY <2>3 DEF G
<1>12. PICK f : UpLoop(n, ContextType, start,
                       [i \in 1 .. n |-> [x \in ContextType |-> Assign(x, s[i], none)]], f)
  BY <1>11
<1>13. \E g : IsUpto(g)
  <2>1. \A i \in 1 .. n : f[i] = Assign(f[i - 1], s[i], none)
    <3> HIDE DEF none
    <3> TAKE i \in 1 .. n
    <3>1. f[i - 1] \in ContextType
      BY <1>s, <1>12 DEF UpLoop
    <3> QED
      BY <1>12, <3>1 DEF UpLoop
  <2>2. f[0] = start /\ f \in [0 .. n -> ContextType]
    BY <1>12 DEF UpLoop
  <2>3. \A i \in 0 .. n : f[i] = IF i = 0 THEN start ELSE Assign(f[i - 1], s[i], none)
    <3> HIDE DEF none
    <3> TAKE i \in 0 .. n
    <3>1. CASE i = 0
      BY <2>2, <3>1
    <3>2. CASE i # 0
      <4>1. i \in 1 .. n
        BY <1>s, <3>2
      <4> QED
        BY <2>1, <3>2, <4>1
    <3> QED
      BY <3>1, <3>2
  <2>4. IsUpto(f)
    BY <2>2, <2>3
  <2> QED
    BY <2>4
<1> DEFINE upto == CHOOSE g : IsUpto(g)
<1>14. IsUpto(upto)
  <2> HIDE DEF IsUpto
  <2> QED
    BY <1>13, Zenon
<1>15. Assume(c, A) = upto[n]
  BY Zenon DEF Assume, s, n, start
<1>16. upto[0] = start /\ \A i \in 1 .. n : upto[i] = Assign(upto[i - 1], s[i], none)
  <2> HIDE DEF upto
  <2>1. 0 \in 0 .. n /\ \A i \in 1 .. n : i \in 0 .. n /\ i # 0
    BY <1>s
  <2> QED
    BY <1>14, <2>1
<1> HIDE DEF upto, IsUpto
<1> DEFINE P == {i \in 0 .. n : Assumed(start, s, i, upto[i])}
<1>17. 0 \in P
  <2>1. Assumed(start, s, 0, start)
    <3>1. \A j \in 1 .. 0 : True(start.trail, s[j])
      OBVIOUS
    <3> QED
      BY <1>6, <1>8, <3>1 DEF Assumed
  <2> QED
    BY <1>s, <1>16, <2>1
<1>18. \A i \in 1 .. n : i - 1 \in P => i \in P
  <2> SUFFICES ASSUME NEW i \in 1 .. n, i - 1 \in P
               PROVE  i \in P
    OBVIOUS
  <2>1. i \in Nat /\ i > 0 /\ i \in 0 .. n
    BY <1>s
  <2>2. Assumed(start, s, i - 1, upto[i - 1]) /\ upto[i] = Assign(upto[i - 1], s[i], none)
    BY <1>16
  <2>3. s[i] \in start.assumptions /\ start.assumptions \in SUBSET Literals
    BY <1>9, <1>t
  <2>4. none = {}
    OBVIOUS
  <2> HIDE DEF none
  <2>5. Assumed(start, s, i, upto[i])
    BY <1>9, <2>1, <2>2, <2>3, <2>4, AssumeStep
  <2> QED
    BY <2>1, <2>5
<1> HIDE DEF P
<1>19. n \in P
  <2>1. 0 .. n \subseteq P
    BY <1>17, <1>18, <1>s, UpInduction
  <2> QED
    BY <1>s, <2>1
<1> DEFINE d == Assume(c, A)
<1>20. Assumed(start, s, n, d)
  BY <1>15, <1>19 DEF P
<1> HIDE DEF d
<1>21. CtxInv(d) /\ WatchesOK(d, {}) /\ d \in ContextType /\ LevelsOK(d)
  BY <1>20 DEF Assumed, CtxInv
<1>22. /\ d.formulas = start.formulas /\ d.scopes = start.scopes /\ d.base = start.base
       /\ d.fqhead = start.fqhead /\ d.search = start.search /\ d.assumptions = start.assumptions
  BY <1>20 DEF Assumed
<1>23. SameFrames(c, d)
  <2>1. /\ ScopeLvl(d) = ScopeLvl(start) /\ BaseLvl(d) = BaseLvl(start)
        /\ \A k : FormulasLimAt(d, k) = FormulasLimAt(start, k)
    BY <1>22, SameScopes
  <2> QED
    BY <1>10, <1>22, <2>1 DEF SameFrames
<1>24. d.search = ScopeLvl(d) /\ d.search = BaseLvl(c) + 1 /\ d.assumptions = A /\ d.fqhead = c.fqhead
  BY <1>3, <1>7, <1>9, <1>22 DEF ScopeLvl
<1>25. Inconsistent(d) \/ \A a \in A : \E i \in DOMAIN d.trail : d.trail[i].lit = a /\ d.trail[i].lvl <= d.search
  <2>1. \A i \in DOMAIN d.trail : d.trail[i].lvl <= d.search
    BY <1>21, <1>24 DEF LevelsOK
  <2>2. Inconsistent(d) \/ \A j \in 1 .. n : True(d.trail, s[j])
    BY <1>20 DEF Assumed
  <2> QED
    BY <1>s, <2>1, <2>2 DEF True
<1> QED
  BY <1>21, <1>23, <1>24, <1>25 DEF d

-----------------------------------------------------------------------------
(* The invariant is inductive.                                             *)

LEMMA VisitNone ==
    ASSUME NEW c, NEW V, V = {}
    PROVE  VisitOK(c, V)
BY DEF VisitOK

(* The type invariant follows from its parts.                              *)
LEMMA TypeParts ==
    ASSUME NEW c, CtxInv(c)
    PROVE  /\ c \in ContextType
           /\ BaseLvl(c) <= c.search /\ BaseLvl(c) <= ScopeLvl(c)
           /\ c.qhead <= Len(c.trail) /\ c.fqhead <= Len(c.formulas)
           /\ c.search \in BaseLvl(c) .. (BaseLvl(c) + 1)
           /\ BaseLvl(c) \in Nat /\ ScopeLvl(c) \in Nat /\ c.qhead \in Nat /\ c.search \in Nat
           /\ Len(c.trail) \in Nat /\ DOMAIN c.trail = 1 .. Len(c.trail) /\ Len(c.formulas) \in Nat
<1>1. c \in ContextType /\ ScopesOK(c)
  BY DEF CtxInv
<1>2. /\ BaseLvl(c) \in Nat /\ ScopeLvl(c) \in Nat /\ c.qhead \in Nat /\ c.search \in Nat
      /\ Len(c.trail) \in Nat /\ DOMAIN c.trail = 1 .. Len(c.trail) /\ Len(c.formulas) \in Nat
  BY <1>1, Types
<1>3. /\ c.search \in BaseLvl(c) .. (BaseLvl(c) + 1) /\ BaseLvl(c) <= ScopeLvl(c)
      /\ c.qhead <= Len(c.trail) /\ c.fqhead <= Len(c.formulas)
  BY <1>1 DEF ScopesOK
<1>4. BaseLvl(c) <= c.search
  BY <1>2, <1>3
<1> QED
  BY <1>1, <1>2, <1>3, <1>4

(* A check returns.                                                        *)
LEMMA ReturnKeeps ==
    ASSUME IInv, visit = {}, NEW r \in {"none", "sat", "unsat", "unknown"}, NEW k, k \subseteq asked,
           NEW c, CtxInv(c), WatchesOK(c, {}), Return(r, k, c)
    PROVE  IInv'
<1>1. /\ ctx' = c /\ answer' = r /\ core' = k /\ pc' = "idle" /\ canceled' = FALSE /\ visit' = {}
      /\ stage' = stage /\ asked' = asked /\ calls' = calls /\ deletions' = deletions
  BY DEF Return
<1>2. /\ stage \in {"push", "assume", "search"} /\ asked \in AssumptionSets \cup {{}}
      /\ calls \in 0 .. MaxCalls /\ deletions \in 0 .. MaxDeletions
  BY DEF IInv, TypeOK
<1>3. TypeOK'
  BY <1>1, <1>2, TypeParts DEF TypeOK
<1>4. ControlOK'
  BY <1>1 DEF ControlOK, Searching
<1>5. VisitOK(ctx', visit')
  BY <1>1, VisitNone
<1> QED
  BY <1>1, <1>3, <1>4, <1>5 DEF IInv

(* A step to a context c of the search, or to its start.                   *)
LEMMA SearchStep ==
    ASSUME IInv, visit = {}, visit' = visit, pc # "idle", stage # "push",
           NEW to \in {"propagate", "resolve", "learned", "decide"},
           NEW c, CtxInv(c), WatchesOK(c, {}), Go(to, c), stage' = "search",
           deletions' \in 0 .. MaxDeletions,
           ~canceled => c.fqhead = Len(c.formulas),
           to = "resolve" => Inconsistent(c),
           to = "learned" => ~Inconsistent(c),
           to = "decide" => ~Inconsistent(c) /\ c.qhead = Len(c.trail),
           \/ Started(c, asked)
           \/ /\ c.assumptions = {} /\ ScopeLvl(c) = BaseLvl(c)
              /\ to = "resolve" \/ (to = "propagate" /\ canceled)
    PROVE  IInv'
<1>1. /\ ctx' = c /\ answer' = answer /\ core' = core /\ pc' = to /\ canceled' = canceled /\ visit' = {}
      /\ asked' = asked /\ calls' = calls /\ qhead0' = c.qhead
  BY DEF Go
<1>2. /\ asked \in AssumptionSets \cup {{}} /\ answer \in {"none", "sat", "unsat", "unknown"}
      /\ core \subseteq asked /\ canceled \in BOOLEAN
      /\ calls \in 0 .. MaxCalls
  BY DEF IInv, TypeOK
<1>3. TypeOK'
  BY <1>1, <1>2, TypeParts DEF TypeOK
<1>4. ControlOK'
  <2>1. answer = "none" /\ core = {}
    BY DEF IInv, ControlOK
  <2>2. c.qhead \in 0 .. c.qhead
    BY TypeParts
  <2>3. ~Inconsistent(c) => \A i \in DOMAIN c.trail : i > c.qhead => c.trail[i].lvl = ScopeLvl(c)
    BY DEF CtxInv, QueueOK
  <2> QED
    BY <1>1, <2>1, <2>2, <2>3 DEF ControlOK, Searching
<1>5. VisitOK(ctx', visit')
  BY <1>1, VisitNone
<1> QED
  BY <1>1, <1>3, <1>4, <1>5 DEF IInv

(* Popping keeps the clauses that are left properly watched.               *)
LEMMA PoppedWatches ==
    ASSUME NEW c, CtxInv(c), WatchesOK(c, {}), NEW p, NEW lvl, Popped(c, p, lvl)
    PROVE  WatchesOK(p, {})
<1>1. /\ CtxInv(p) /\ \A w : WatchOK(c, w, FALSE) => WatchOK(p, w, FALSE)
      /\ Prefix(p.aux, c.aux) /\ Prefix(p.lemmas, c.lemmas)
  BY DEF Popped, PopPrefixes
<1>2. /\ DOMAIN p.aux = 1 .. Len(p.aux) /\ DOMAIN c.aux = 1 .. Len(c.aux)
      /\ DOMAIN p.lemmas = 1 .. Len(p.lemmas) /\ DOMAIN c.lemmas = 1 .. Len(c.lemmas)
      /\ Len(p.aux) \in Nat /\ Len(c.aux) \in Nat /\ Len(p.lemmas) \in Nat /\ Len(c.lemmas) \in Nat
  BY <1>1, Types DEF CtxInv
<1>3. \A i \in DOMAIN p.aux : i \in DOMAIN c.aux /\ p.aux[i] = c.aux[i]
  BY <1>1, <1>2 DEF Prefix
<1>4. \A i \in DOMAIN p.lemmas : i \in DOMAIN c.lemmas /\ p.lemmas[i] = c.lemmas[i]
  BY <1>1, <1>2 DEF Prefix
<1> QED
  BY <1>1, <1>3, <1>4, WatchesSplit

LEMMA PopToBaseKeeps ==
    ASSUME NEW c, CtxInv(c), WatchesOK(c, {})
    PROVE  LET d == PopToBase(c)
           IN  /\ CtxInv(d) /\ WatchesOK(d, {})
               /\ ScopeLvl(d) = BaseLvl(d) /\ SameFrames(c, d)
<1>1. BaseLvl(c) \in 0 .. ScopeLvl(c) /\ BaseLvl(c) \in Nat
  BY TypeParts
<1>2. Popped(c, PopTo(c, BaseLvl(c)), BaseLvl(c))
  BY <1>1, PopToKeeps
<1> DEFINE d == PopTo(c, BaseLvl(c))
<1>3. PopToBase(c) = d
  BY DEF PopToBase
<1> HIDE DEF d
<1>4. Popped(c, d, BaseLvl(c))
  BY <1>2 DEF d
<1>5. SameFrames(c, d)
  BY <1>1, <1>4, PoppedFrames
<1>6. CtxInv(d) /\ ScopeLvl(d) = BaseLvl(c)
  BY <1>4 DEF Popped
<1>7. BaseLvl(d) = BaseLvl(c)
  BY <1>5 DEF SameFrames
<1>8. WatchesOK(d, {})
  BY <1>4, PoppedWatches
<1> QED
  BY <1>3, <1>5, <1>6, <1>7, <1>8

(* The calls of the client.                                                *)
LEMMA CallFacts ==
    ASSUME IInv, Call
    PROVE  /\ pc = "idle" /\ visit = {} /\ visit' = {} /\ canceled = FALSE /\ canceled' = FALSE
           /\ deletions' \in 0 .. MaxDeletions /\ calls' \in 0 .. MaxCalls
           /\ CtxInv(ctx) /\ WatchesOK(ctx, {})
           /\ stage \in {"push", "assume", "search"} /\ asked \in AssumptionSets \cup {{}}
           /\ answer \in {"none", "sat", "unsat", "unknown"} /\ core \subseteq asked
<1>1. /\ pc = "idle" /\ calls < MaxCalls /\ calls' = calls + 1
      /\ visit' = visit /\ canceled' = canceled /\ deletions' = deletions
  BY DEF Call
<1>2. /\ calls \in 0 .. MaxCalls /\ deletions \in 0 .. MaxDeletions /\ canceled \in BOOLEAN
      /\ stage \in {"push", "assume", "search"} /\ asked \in AssumptionSets \cup {{}}
      /\ answer \in {"none", "sat", "unsat", "unknown"} /\ core \subseteq asked
  BY DEF IInv, TypeOK
<1>3. visit = {} /\ canceled = FALSE
  BY <1>1, <1>2 DEF IInv, ControlOK
<1>4. calls' \in 0 .. MaxCalls
  BY <1>1, <1>2, SmtContextAssumption
<1>5. CtxInv(ctx) /\ WatchesOK(ctx, visit)
  BY DEF IInv
<1> QED
  BY <1>1, <1>2, <1>3, <1>4, <1>5

(* A call ends in the idle state, or begins, with a context c.             *)
LEMMA CallKeeps ==
    ASSUME IInv, Call, NEW c, ctx' = c, CtxInv(c), WatchesOK(c, {}),
           stage' \in {"push", "assume", "search"}, asked' \in AssumptionSets \cup {{}},
           answer' \in {"none", "sat", "unsat", "unknown"}, core' \subseteq asked',
           \/ pc' = "idle"
           \/ pc' = "internalize" /\ stage' = "push" /\ ScopeLvl(c) = BaseLvl(c)
           \/ pc' = "begin" /\ stage' = "assume" /\ ScopeLvl(c) = BaseLvl(c) /\ answer' = "none" /\ core' = {}
    PROVE  IInv'
<1>1. /\ visit' = {} /\ canceled' = FALSE
      /\ deletions' \in 0 .. MaxDeletions /\ calls' \in 0 .. MaxCalls
  BY CallFacts
<1>2. TypeOK'
  BY <1>1, TypeParts DEF TypeOK
<1>3. ControlOK'
  BY <1>1 DEF ControlOK, Searching
<1>4. VisitOK(ctx', visit')
  BY <1>1, VisitNone
<1> QED
  BY <1>1, <1>2, <1>3, <1>4 DEF IInv

LEMMA AssertExprKeeps ==
    ASSUME IInv, NEW f \in Formulas, AssertExpr(f)
    PROVE  IInv'
<1> DEFINE p == PopToBase(ctx)
           d == [p EXCEPT !.formulas = Append(@, f)]
<1>1. Call /\ ctx' = d /\ answer' = "none" /\ core' = {} /\ pc' = pc /\ stage' = stage /\ asked' = asked
  BY DEF AssertExpr, Forget
<1>2. CtxInv(p) /\ WatchesOK(p, {}) /\ ScopeLvl(p) = BaseLvl(p)
  BY <1>1, CallFacts, PopToBaseKeeps
<1>3. f \in Clauses
  BY SmtContextAssumption
<1> HIDE DEF p
<1>4. CtxInv(d) /\ \A w, pending : WatchOK(p, w, pending) => WatchOK(d, w, pending)
  BY <1>2, <1>3, AssertKeeps
<1>5. d.aux = p.aux /\ d.lemmas = p.lemmas
  BY <1>2 DEF CtxInv, ContextType
<1> HIDE DEF d
<1>6. WatchesOK(d, {})
  BY <1>2, <1>4, <1>5, WatchesTransfer
<1>7. pc' = "idle" /\ stage' \in {"push", "assume", "search"} /\ asked' \in AssumptionSets \cup {{}}
  BY <1>1, CallFacts
<1> QED
  BY <1>1, <1>4, <1>6, <1>7, CallKeeps

LEMMA PushCallKeeps ==
    ASSUME IInv, Push
    PROVE  IInv'
<1> DEFINE p == PopToBase(ctx)
<1>1. /\ Call /\ ctx' = p /\ answer' = answer /\ core' = core /\ pc' = "internalize" /\ stage' = "push"
      /\ asked' = asked
  BY DEF Push
<1>2. CtxInv(p) /\ WatchesOK(p, {}) /\ ScopeLvl(p) = BaseLvl(p)
  BY <1>1, CallFacts, PopToBaseKeeps
<1> HIDE DEF p
<1>3. /\ answer \in {"none", "sat", "unsat", "unknown"} /\ core \subseteq asked
      /\ asked \in AssumptionSets \cup {{}}
  BY <1>1, CallFacts
<1> QED
  BY <1>1, <1>2, <1>3, CallKeeps

LEMMA PopCallKeeps ==
    ASSUME IInv, NEW n \in 1 .. BaseLvl(ctx), Pop(n)
    PROVE  IInv'
<1> DEFINE p == PopToBase(ctx)
           lvl == BaseLvl(ctx) - n
           d == PopTo(p, lvl)
<1>1. Call /\ ctx' = d /\ answer' = "none" /\ core' = {} /\ pc' = pc /\ stage' = stage /\ asked' = asked
  BY DEF Pop, Forget
<1>2. CtxInv(p) /\ WatchesOK(p, {}) /\ ScopeLvl(p) = BaseLvl(p) /\ SameFrames(ctx, p)
  BY <1>1, CallFacts, PopToBaseKeeps
<1> HIDE DEF p
<1>3. lvl \in 0 .. ScopeLvl(p)
  BY <1>2, TypeParts DEF SameFrames, IInv
<1>4. Popped(p, d, lvl)
  <2> HIDE DEF lvl
  <2> QED
    BY <1>2, <1>3, PopToKeeps
<1> HIDE DEF d
<1>5. CtxInv(d) /\ WatchesOK(d, {})
  BY <1>2, <1>4, PoppedWatches DEF Popped
<1>6. pc' = "idle" /\ stage' \in {"push", "assume", "search"} /\ asked' \in AssumptionSets \cup {{}}
  BY <1>1, CallFacts
<1> QED
  BY <1>1, <1>5, <1>6, CallKeeps

LEMMA CheckCallKeeps ==
    ASSUME IInv, NEW A \in AssumptionSets, Check(A)
    PROVE  IInv'
<1> DEFINE p == PopToBase(ctx)
<1>1. /\ Call /\ ctx' = p /\ answer' = "none" /\ core' = {} /\ pc' = "begin" /\ stage' = "assume"
      /\ asked' = A
  BY DEF Check, Forget
<1>2. CtxInv(p) /\ WatchesOK(p, {}) /\ ScopeLvl(p) = BaseLvl(p)
  BY <1>1, CallFacts, PopToBaseKeeps
<1> HIDE DEF p
<1> QED
  BY <1>1, <1>2, CallKeeps

(* The steps of a call before propagation.                                 *)
LEMMA BeginInconsistentKeeps ==
    ASSUME IInv, BeginInconsistent
    PROVE  IInv'
<1>1. pc = "begin" /\ Return("unsat", {}, ctx)
  BY DEF BeginInconsistent
<1>2. visit = {} /\ CtxInv(ctx) /\ WatchesOK(ctx, visit)
  BY <1>1 DEF IInv, ControlOK
<1>3. {} \subseteq asked
  OBVIOUS
<1> QED
  BY <1>1, <1>2, <1>3, ReturnKeeps

(* A step to a context c with formulas left to internalize.                *)
LEMMA InternalizeStep ==
    ASSUME IInv, visit = {}, visit' = visit, pc \in {"begin", "internalize"},
           NEW c, CtxInv(c), WatchesOK(c, {}), ScopeLvl(c) = BaseLvl(c), Go("internalize", c),
           stage' = stage, deletions' = deletions
    PROVE  IInv'
<1>1. /\ ctx' = c /\ answer' = answer /\ core' = core /\ pc' = "internalize" /\ canceled' = canceled
      /\ visit' = {} /\ asked' = asked /\ calls' = calls
  BY DEF Go
<1>2. /\ asked \in AssumptionSets \cup {{}} /\ answer \in {"none", "sat", "unsat", "unknown"}
      /\ core \subseteq asked /\ canceled \in BOOLEAN /\ stage \in {"push", "assume", "search"}
      /\ calls \in 0 .. MaxCalls /\ deletions \in 0 .. MaxDeletions
  BY DEF IInv, TypeOK
<1>3. TypeOK'
  BY <1>1, <1>2, TypeParts DEF TypeOK
<1>4. ControlOK'
  BY <1>1 DEF IInv, ControlOK, Searching
<1>5. VisitOK(ctx', visit')
  BY <1>1, VisitNone
<1> QED
  BY <1>1, <1>3, <1>4, <1>5 DEF IInv

LEMMA BeginInternalizeKeeps ==
    ASSUME IInv, BeginInternalize
    PROVE  IInv'
<1>1. pc = "begin" /\ Go("internalize", ctx) /\ visit' = visit /\ stage' = stage /\ deletions' = deletions
  BY DEF BeginInternalize
<1>2. visit = {} /\ CtxInv(ctx) /\ WatchesOK(ctx, visit) /\ ScopeLvl(ctx) = BaseLvl(ctx)
  BY <1>1 DEF IInv, ControlOK
<1> QED
  BY <1>1, <1>2, InternalizeStep

LEMMA InternalizeNextKeeps ==
    ASSUME IInv, InternalizeNext
    PROVE  IInv'
<1> DEFINE d == [MkAuxClause(ctx, ctx.formulas[ctx.fqhead + 1]) EXCEPT !.fqhead = @ + 1]
<1>1. /\ pc = "internalize" /\ Go("internalize", d) /\ ctx.fqhead < Len(ctx.formulas)
      /\ visit' = visit /\ stage' = stage /\ deletions' = deletions
  BY DEF InternalizeNext
<1>2. visit = {} /\ CtxInv(ctx) /\ WatchesOK(ctx, visit) /\ ScopeLvl(ctx) = BaseLvl(ctx)
  BY <1>1 DEF IInv, ControlOK
<1>3. CtxInv(d) /\ WatchesOK(d, {}) /\ d.scopes = ctx.scopes /\ d.base = ctx.base
  BY <1>1, <1>2, InternalizeKeeps
<1> HIDE DEF d
<1>4. ScopeLvl(d) = BaseLvl(d)
  BY <1>2, <1>3 DEF ScopeLvl, BaseLvl
<1> QED
  BY <1>1, <1>2, <1>3, <1>4, InternalizeStep

(* propagate begins, before the search.                                    *)
LEMMA PropagateStep ==
    ASSUME IInv, visit = {}, visit' = visit, pc # "idle",
           NEW c, CtxInv(c), WatchesOK(c, {}), ScopeLvl(c) = BaseLvl(c), Go("propagate", c),
           stage \in {"push", "assume"}, stage' = stage, deletions' = deletions,
           ~canceled => c.fqhead = Len(c.formulas),
           stage = "assume" => c.assumptions = {} /\ asked # {}
    PROVE  IInv'
<1>1. /\ ctx' = c /\ answer' = answer /\ core' = core /\ pc' = "propagate" /\ canceled' = canceled
      /\ visit' = {} /\ asked' = asked /\ calls' = calls /\ qhead0' = c.qhead
  BY DEF Go
<1>2. /\ asked \in AssumptionSets \cup {{}} /\ answer \in {"none", "sat", "unsat", "unknown"}
      /\ core \subseteq asked /\ canceled \in BOOLEAN
      /\ calls \in 0 .. MaxCalls /\ deletions \in 0 .. MaxDeletions
  BY DEF IInv, TypeOK
<1>3. TypeOK'
  BY <1>1, <1>2, TypeParts DEF TypeOK
<1>4. ControlOK'
  <2>1. /\ stage # "push" => answer = "none" /\ core = {}
        /\ canceled => stage # "push"
    BY DEF IInv, ControlOK
  <2>2. c.qhead \in 0 .. c.qhead
    BY TypeParts
  <2>3. ~Inconsistent(c) => \A i \in DOMAIN c.trail : i > c.qhead => c.trail[i].lvl = ScopeLvl(c)
    BY DEF CtxInv, QueueOK
  <2> QED
    BY <1>1, <2>1, <2>2, <2>3 DEF ControlOK, Searching
<1>5. VisitOK(ctx', visit')
  BY <1>1, VisitNone
<1> QED
  BY <1>1, <1>3, <1>4, <1>5 DEF IInv

(* A search level of its own, and other assumptions.                       *)
WithSearch(c, A, s) == [c EXCEPT !.assumptions = A, !.search = s]

LEMMA SearchFacts ==
    ASSUME NEW c, CtxInv(c), WatchesOK(c, {}), ScopeLvl(c) = BaseLvl(c),
           NEW A \in SUBSET Literals, NEW s \in BaseLvl(c) .. (BaseLvl(c) + 1),
           NEW d, d = WithSearch(c, A, s)
    PROVE  /\ CtxInv(d) /\ WatchesOK(d, {})
           /\ d.scopes = c.scopes /\ d.base = c.base /\ d.formulas = c.formulas
           /\ d.fqhead = c.fqhead /\ d.conflict = c.conflict /\ d.trail = c.trail
           /\ d.assumptions = A /\ d.search = s
<1>1. CtxInv(d) /\ \A w, pending : WatchOK(c, w, pending) => WatchOK(d, w, pending)
  BY SearchKeeps, Zenon DEF WithSearch
<1>2. c \in ContextType
  BY DEF CtxInv
<1>3. /\ d.scopes = c.scopes /\ d.base = c.base /\ d.formulas = c.formulas
      /\ d.fqhead = c.fqhead /\ d.conflict = c.conflict /\ d.trail = c.trail
      /\ d.assumptions = A /\ d.search = s /\ d.aux = c.aux /\ d.lemmas = c.lemmas
  BY <1>2 DEF ContextType, WithSearch
<1>4. WatchesOK(d, {})
  <2>1. d.aux = c.aux /\ d.lemmas = c.lemmas
    BY <1>3
  <2>2. \A w : WatchOK(c, w, FALSE) => WatchOK(d, w, FALSE)
    BY <1>1
  <2> QED
    BY <2>1, <2>2, WatchesTransfer
<1> QED
  BY <1>1, <1>3, <1>4

LEMMA InternalizeDoneKeeps ==
    ASSUME IInv, InternalizeDone
    PROVE  IInv'
<1> DEFINE e == [ctx EXCEPT !.assumptions = {}]
           d == IF stage = "push" THEN ctx ELSE e
<1>1. /\ pc = "internalize" /\ (canceled \/ ctx.fqhead = Len(ctx.formulas))
      /\ stage = "push" \/ asked # {}
      /\ Go("propagate", d) /\ visit' = visit /\ stage' = stage /\ deletions' = deletions
  BY DEF InternalizeDone, Internalized
<1>2. /\ visit = {} /\ CtxInv(ctx) /\ WatchesOK(ctx, {}) /\ ScopeLvl(ctx) = BaseLvl(ctx)
      /\ stage # "search"
  BY <1>1 DEF IInv, ControlOK
<1>3. stage \in {"push", "assume"}
  BY <1>2 DEF IInv, TypeOK
<1>4. CASE stage = "push"
  <2>1. d = ctx
    BY <1>4
  <2> HIDE DEF d
  <2> QED
    BY <1>1, <1>2, <1>3, <1>4, <2>1, PropagateStep
<1>5. CASE stage # "push"
  <2>1. d = [ctx EXCEPT !.assumptions = {}, !.search = ctx.search]
    BY <1>2, <1>5 DEF CtxInv, ContextType
  <2> HIDE DEF d, e
  <2>2. {} \in SUBSET Literals /\ ctx.search \in BaseLvl(ctx) .. (BaseLvl(ctx) + 1)
    BY <1>2, TypeParts
  <2>3. /\ CtxInv(d) /\ WatchesOK(d, {})
        /\ d.scopes = ctx.scopes /\ d.base = ctx.base /\ d.formulas = ctx.formulas
        /\ d.fqhead = ctx.fqhead /\ d.assumptions = {}
    <3> DEFINE none == {}
               s == ctx.search
    <3>1. /\ d = WithSearch(ctx, none, s) /\ none \in SUBSET Literals
          /\ s \in BaseLvl(ctx) .. (BaseLvl(ctx) + 1)
      BY <2>1, <2>2 DEF WithSearch
    <3> SUFFICES /\ CtxInv(d) /\ WatchesOK(d, {})
                 /\ d.scopes = ctx.scopes /\ d.base = ctx.base /\ d.formulas = ctx.formulas
                 /\ d.fqhead = ctx.fqhead /\ d.assumptions = none
      OBVIOUS
    <3> HIDE DEF none, s
    <3> QED
      BY <1>2, <3>1, SearchFacts
  <2>4. ScopeLvl(d) = BaseLvl(d)
    BY <1>2, <2>3 DEF ScopeLvl, BaseLvl
  <2> QED
    BY <1>1, <1>2, <1>3, <1>5, <2>3, <2>4, PropagateStep
<1> QED
  BY <1>4, <1>5

LEMMA InternalizeDoneNoAssumptionsKeeps ==
    ASSUME IInv, InternalizeDoneNoAssumptions
    PROVE  IInv'
<1> DEFINE d == [ctx EXCEPT !.assumptions = {}, !.search = ScopeLvl(ctx)]
           to == IF Inconsistent(d) THEN "resolve" ELSE "propagate"
<1>1. /\ pc = "internalize" /\ (canceled \/ ctx.fqhead = Len(ctx.formulas))
      /\ stage = "assume" /\ asked = {}
      /\ Go(to, d) /\ visit' = visit /\ stage' = "search" /\ deletions' = deletions
  BY DEF InternalizeDoneNoAssumptions, Internalized, StartSearch
<1>2. visit = {} /\ CtxInv(ctx) /\ WatchesOK(ctx, {}) /\ ScopeLvl(ctx) = BaseLvl(ctx)
  BY <1>1 DEF IInv, ControlOK
<1>3. /\ CtxInv(d) /\ WatchesOK(d, {})
      /\ d.scopes = ctx.scopes /\ d.base = ctx.base /\ d.formulas = ctx.formulas
      /\ d.fqhead = ctx.fqhead /\ d.assumptions = {} /\ d.search = ScopeLvl(ctx)
  <2> DEFINE none == {}
             s == ScopeLvl(ctx)
  <2>1. none \in SUBSET Literals /\ s \in BaseLvl(ctx) .. (BaseLvl(ctx) + 1)
    BY <1>2, TypeParts
  <2>2. d = WithSearch(ctx, none, s)
    BY DEF WithSearch
  <2> SUFFICES /\ CtxInv(d) /\ WatchesOK(d, {})
               /\ d.scopes = ctx.scopes /\ d.base = ctx.base /\ d.formulas = ctx.formulas
               /\ d.fqhead = ctx.fqhead /\ d.assumptions = none /\ d.search = s
    OBVIOUS
  <2> HIDE DEF none, s, d
  <2> QED
    BY <1>2, <2>1, <2>2, SearchFacts
<1> HIDE DEF d
<1>4. ScopeLvl(d) = ScopeLvl(ctx) /\ ScopeLvl(ctx) \in Nat
  BY <1>2, <1>3, TypeParts DEF ScopeLvl
<1>5. Started(d, asked)
  <2>1. d.search <= ScopeLvl(d)
    BY <1>3, <1>4
  <2> QED
    BY <1>1, <1>3, <2>1 DEF Started
<1>6. /\ to \in {"propagate", "resolve", "learned", "decide"} /\ to # "learned" /\ to # "decide"
      /\ to = "resolve" => Inconsistent(d)
  OBVIOUS
<1>7. deletions' \in 0 .. MaxDeletions /\ (~canceled => d.fqhead = Len(d.formulas))
  BY <1>1, <1>3 DEF IInv, TypeOK
<1> HIDE DEF to
<1>8. pc # "idle" /\ stage # "push"
  BY <1>1
<1> QED
  BY <1>1, <1>2, <1>3, <1>5, <1>6, <1>7, <1>8, SearchStep

(* Propagation.  What has been started stays so.                           *)
LEMMA StartedFrame ==
    ASSUME NEW c, NEW A, Started(c, A), NEW d,
           d.search = c.search, d.assumptions = c.assumptions, d.search <= ScopeLvl(d),
           ~Inconsistent(c) \/ (Inconsistent(d) /\ ScopeLvl(d) <= ScopeLvl(c)),
           \A i \in DOMAIN c.trail : c.trail[i].lvl <= c.search =>
               i \in DOMAIN d.trail /\ d.trail[i].lit = c.trail[i].lit /\ d.trail[i].lvl = c.trail[i].lvl,
           ScopeLvl(c) \in Nat, ScopeLvl(d) \in Nat, c.search \in Nat
    PROVE  Started(d, A)
<1>1. CASE \A a \in A : \E i \in DOMAIN c.trail : c.trail[i].lit = a /\ c.trail[i].lvl <= c.search
  <2>1. ASSUME NEW a \in A
        PROVE  \E i \in DOMAIN d.trail : d.trail[i].lit = a /\ d.trail[i].lvl <= d.search
    <3>1. PICK i \in DOMAIN c.trail : c.trail[i].lit = a /\ c.trail[i].lvl <= c.search
      BY <1>1, <2>1
    <3>2. i \in DOMAIN d.trail /\ d.trail[i].lit = a /\ d.trail[i].lvl <= d.search
      BY <3>1
    <3> QED
      BY <3>2
  <2> QED
    BY <2>1 DEF Started
<1>2. CASE Inconsistent(c) /\ ScopeLvl(c) <= c.search
  <2>1. Inconsistent(d) /\ ScopeLvl(d) <= d.search
    BY <1>2
  <2> QED
    BY <2>1 DEF Started
<1> QED
  BY <1>1, <1>2 DEF Started

(* A step of bcp, to a context d with the clauses V to visit.              *)
LEMMA BcpStep ==
    ASSUME IInv, pc = "propagate", ~Inconsistent(ctx),
           stage = "search" => Started(ctx, asked),
           NEW d, NEW V, Bcp(d), visit' = V, CtxInv(d), WatchesOK(d, V), VisitOK(d, V),
           BcpFrame(ctx, d), d.qhead \in {ctx.qhead, ctx.qhead + 1}
    PROVE  IInv'
<1>1. /\ ctx' = d /\ qhead0' = qhead0 /\ pc' = pc /\ stage' = stage /\ asked' = asked /\ answer' = answer
      /\ core' = core /\ canceled' = canceled /\ calls' = calls /\ deletions' = deletions
  BY DEF Bcp
<1>2. /\ stage \in {"push", "assume", "search"}
      /\ asked \in AssumptionSets \cup {{}} /\ answer \in {"none", "sat", "unsat", "unknown"}
      /\ core \subseteq asked /\ canceled \in BOOLEAN
      /\ calls \in 0 .. MaxCalls /\ deletions \in 0 .. MaxDeletions
      /\ CtxInv(ctx)
  BY DEF IInv, TypeOK
<1>3. V \subseteq ClauseRefs(d)
  BY DEF VisitOK
<1>4. TypeOK'
  BY <1>1, <1>2, <1>3, TypeParts DEF TypeOK
<1>f. /\ d.formulas = ctx.formulas /\ d.fqhead = ctx.fqhead /\ d.scopes = ctx.scopes /\ d.base = ctx.base
      /\ d.search = ctx.search /\ d.assumptions = ctx.assumptions
      /\ \A i \in DOMAIN ctx.trail : i \in DOMAIN d.trail /\ d.trail[i] = ctx.trail[i]
      /\ \A i \in DOMAIN d.trail : \/ i \in DOMAIN ctx.trail /\ d.trail[i] = ctx.trail[i]
                                   \/ d.trail[i].lvl = ScopeLvl(ctx)
  BY DEF BcpFrame
<1>s. ScopeLvl(d) = ScopeLvl(ctx) /\ BaseLvl(d) = BaseLvl(ctx)
  BY <1>f DEF ScopeLvl, BaseLvl
<1>c. /\ qhead0 \in 0 .. ctx.qhead
      /\ \A i \in DOMAIN ctx.trail : i > qhead0 => ctx.trail[i].lvl = ScopeLvl(ctx)
      /\ canceled => stage # "push"
      /\ stage # "push" => answer = "none" /\ core = {}
      /\ ~canceled => ctx.fqhead = Len(ctx.formulas)
      /\ stage # "search" => ScopeLvl(ctx) = BaseLvl(ctx)
      /\ stage = "assume" => ctx.assumptions = {} /\ asked # {}
  BY DEF IInv, ControlOK, Searching
<1>5. qhead0 \in 0 .. d.qhead
  BY <1>2, <1>c, TypeParts
<1>6. \A i \in DOMAIN d.trail : i > qhead0 => d.trail[i].lvl = ScopeLvl(d)
  BY <1>c, <1>f, <1>s
<1>7. stage = "search" => Started(d, asked)
  <2> SUFFICES ASSUME Started(ctx, asked)
               PROVE  Started(d, asked)
    OBVIOUS
  <2>1. d.search <= ScopeLvl(d)
    BY <1>f, <1>s DEF Started
  <2>2. ScopeLvl(ctx) \in Nat /\ ScopeLvl(d) \in Nat /\ ctx.search \in Nat
    BY <1>2, TypeParts
  <2> QED
    BY <1>f, <2>1, <2>2, StartedFrame
<1>8. ControlOK'
  BY <1>1, <1>c, <1>f, <1>s, <1>5, <1>6, <1>7 DEF ControlOK, Searching
<1> QED
  BY <1>1, <1>4, <1>8 DEF IInv

LEMMA BcpNextKeeps ==
    ASSUME IInv, BcpNext
    PROVE  IInv'
<1> DEFINE V == WatchList(ctx, -ctx.trail[ctx.qhead + 1].lit)
           d == [ctx EXCEPT !.qhead = @ + 1]
<1>1. /\ pc = "propagate" /\ visit = {} /\ ~Inconsistent(ctx) /\ ~canceled
      /\ ctx.qhead < Len(ctx.trail) /\ visit' = V /\ Bcp(d)
  BY DEF BcpNext
<1>2. CtxInv(ctx) /\ WatchesOK(ctx, {})
  BY <1>1 DEF IInv
<1>3. stage = "search" => Started(ctx, asked)
  BY <1>1 DEF IInv, ControlOK, Searching
<1>4. V = WatchList(ctx, -ctx.trail[ctx.qhead + 1].lit)
  OBVIOUS
<1>5. d = [ctx EXCEPT !.qhead = @ + 1]
  OBVIOUS
<1> HIDE DEF V, d
<1>6. /\ CtxInv(d) /\ WatchesOK(d, V) /\ VisitOK(d, V)
      /\ BcpFrame(ctx, d) /\ d.qhead = ctx.qhead + 1
  BY <1>1, <1>2, <1>4, <1>5, NextKeeps
<1> QED
  BY <1>1, <1>3, <1>6, BcpStep

LEMMA BcpVisitKeeps ==
    ASSUME IInv, NEW r \in visit, BcpVisit(r)
    PROVE  IInv'
<1>1. PICK d \in VisitClause(ctx, r, -ctx.trail[ctx.qhead].lit) :
          Bcp(d) /\ visit' = IF Inconsistent(d) THEN {} ELSE visit \ {r}
  BY DEF BcpVisit
<1>2. /\ CtxInv(ctx) /\ WatchesOK(ctx, visit) /\ VisitOK(ctx, visit) /\ pc = "propagate"
      /\ stage = "search" => Started(ctx, asked)
  BY DEF IInv, ControlOK, Searching
<1>3. ~Inconsistent(ctx)
  BY <1>2 DEF VisitOK
<1>4. Visited(ctx, IF Inconsistent(d) THEN {} ELSE visit \ {r}, d)
  BY <1>1, <1>2, VisitKeeps
<1> DEFINE V == IF Inconsistent(d) THEN {} ELSE visit \ {r}
<1>5. Visited(ctx, V, d) /\ visit' = V
  BY <1>1, <1>4
<1> HIDE DEF V
<1>6. CtxInv(d) /\ WatchesOK(d, V) /\ VisitOK(d, V) /\ BcpFrame(ctx, d) /\ d.qhead = ctx.qhead
  BY <1>5 DEF Visited
<1> QED
  BY <1>1, <1>2, <1>3, <1>5, <1>6, BcpStep

(* The ends of propagate.                                                  *)
LEMMA EndPushKeeps ==
    ASSUME IInv, EndPush
    PROVE  IInv'
<1> DEFINE d == UserPush(ctx)
<1>1. /\ pc = "propagate" /\ visit = {} /\ stage = "push"
      /\ Inconsistent(ctx) \/ canceled \/ ctx.qhead = Len(ctx.trail)
      /\ ctx' = d /\ pc' = "idle" /\ answer' = "none" /\ core' = {}
      /\ visit' = visit /\ stage' = stage /\ asked' = asked /\ canceled' = canceled /\ calls' = calls
      /\ deletions' = deletions
  BY DEF EndPush, Propagated, Forget, UserPush
<1>2. /\ CtxInv(ctx) /\ WatchesOK(ctx, {}) /\ ~canceled /\ ctx.fqhead = Len(ctx.formulas)
      /\ ScopeLvl(ctx) = BaseLvl(ctx)
  BY <1>1 DEF IInv, ControlOK, Searching
<1>3. ~Inconsistent(ctx) => ctx.qhead = Len(ctx.trail)
  BY <1>1, <1>2
<1>4. /\ CtxInv(d) /\ \A w : WatchOK(ctx, w, FALSE) => WatchOK(d, w, FALSE)
      /\ d.aux = ctx.aux /\ d.lemmas = ctx.lemmas
  BY <1>2, <1>3, UserPushKeeps
<1> HIDE DEF d
<1>5. WatchesOK(d, {})
  BY <1>2, <1>4, WatchesTransfer
<1>6. /\ asked \in AssumptionSets \cup {{}} /\ canceled \in BOOLEAN
      /\ calls \in 0 .. MaxCalls /\ deletions \in 0 .. MaxDeletions
  BY DEF IInv, TypeOK
<1>7. TypeOK'
  BY <1>1, <1>4, <1>6, TypeParts DEF TypeOK
<1>8. ControlOK'
  BY <1>1, <1>2 DEF ControlOK, Searching
<1>9. VisitOK(ctx', visit')
  BY <1>1, VisitNone
<1> QED
  BY <1>1, <1>4, <1>5, <1>7, <1>8, <1>9 DEF IInv

LEMMA RequeuedKeeps ==
    ASSUME IInv, Propagated
    PROVE  LET d == Requeued(ctx)
           IN  /\ CtxInv(d) /\ WatchesOK(d, {})
               /\ BcpFrame(ctx, d) /\ d.conflict = ctx.conflict
               /\ ~canceled \/ Inconsistent(ctx) => d = ctx
<1>1. /\ CtxInv(ctx) /\ WatchesOK(ctx, {}) /\ qhead0 \in 0 .. ctx.qhead
      /\ ~Inconsistent(ctx) => \A i \in DOMAIN ctx.trail : i > qhead0 => ctx.trail[i].lvl = ScopeLvl(ctx)
  BY DEF IInv, Propagated, ControlOK
<1>2. CASE canceled /\ ~Inconsistent(ctx)
  <2>1. Requeued(ctx) = [ctx EXCEPT !.qhead = qhead0]
    BY <1>2 DEF Requeued
  <2> QED
    BY <1>1, <1>2, <2>1, RequeueKeeps
<1>3. CASE ~(canceled /\ ~Inconsistent(ctx))
  <2>1. Requeued(ctx) = ctx
    BY <1>3 DEF Requeued
  <2> QED
    BY <1>1, <2>1 DEF BcpFrame
<1> QED
  BY <1>2, <1>3

LEMMA AskedFacts ==
    ASSUME IInv
    PROVE  asked \in SUBSET Literals /\ IsFiniteSet(asked)
<1>1. asked \in AssumptionSets \cup {{}}
  BY DEF IInv, TypeOK
<1> QED
  BY <1>1, SmtContextAssumption, FS_EmptySet

LEMMA EndAssumeKeeps ==
    ASSUME IInv, EndAssume
    PROVE  IInv'
<1> DEFINE p == Requeued(ctx)
           d == InitAssumptions(p)
           to == IF Inconsistent(d) THEN "resolve" ELSE "propagate"
<1>1. /\ Propagated /\ stage = "assume" /\ Go(to, d) /\ stage' = "search" /\ visit' = visit
      /\ deletions' = deletions
  BY DEF EndAssume, StartSearch
<1>2. /\ pc = "propagate" /\ visit = {}
      /\ Inconsistent(ctx) \/ canceled \/ ctx.qhead = Len(ctx.trail)
  BY <1>1 DEF Propagated
<1>3. /\ CtxInv(ctx) /\ WatchesOK(ctx, {}) /\ (~canceled => ctx.fqhead = Len(ctx.formulas))
      /\ ScopeLvl(ctx) = BaseLvl(ctx) /\ ctx.assumptions = {} /\ asked # {}
  BY <1>1, <1>2 DEF IInv, ControlOK, Searching
<1>4. /\ CtxInv(p) /\ WatchesOK(p, {}) /\ BcpFrame(ctx, p) /\ p.conflict = ctx.conflict
      /\ ~canceled \/ Inconsistent(ctx) => p = ctx
  BY <1>1, RequeuedKeeps
<1> HIDE DEF p
<1>5. /\ Inconsistent(p) <=> Inconsistent(ctx)
      /\ p.fqhead = ctx.fqhead /\ p.formulas = ctx.formulas
      /\ ScopeLvl(p) = ScopeLvl(ctx) /\ BaseLvl(p) = BaseLvl(ctx) /\ p.assumptions = ctx.assumptions
  BY <1>4 DEF Inconsistent, BcpFrame, ScopeLvl, BaseLvl
<1>6. /\ to \in {"propagate", "resolve", "learned", "decide"} /\ to # "learned" /\ to # "decide"
      /\ to = "resolve" <=> Inconsistent(d)
      /\ to = "propagate" <=> ~Inconsistent(d)
  OBVIOUS
<1>7. deletions' \in 0 .. MaxDeletions /\ pc # "idle" /\ stage # "push"
  BY <1>1, <1>2 DEF IInv, TypeOK
<1>8. CASE Inconsistent(ctx) \/ canceled
  <2>1. d = p
    BY <1>5, <1>8 DEF InitAssumptions
  <2> HIDE DEF d, to
  <2>2. /\ CtxInv(d) /\ WatchesOK(d, {}) /\ (~canceled => d.fqhead = Len(d.formulas))
        /\ d.assumptions = {} /\ ScopeLvl(d) = BaseLvl(d)
    BY <1>3, <1>4, <1>5, <2>1
  <2>3. to = "resolve" \/ (to = "propagate" /\ canceled)
    BY <1>5, <1>6, <1>8, <2>1
  <2> QED
    BY <1>1, <1>2, <1>6, <1>7, <2>2, <2>3, SearchStep
<1>9. CASE ~Inconsistent(ctx) /\ ~canceled
  <2>1. p = ctx
    BY <1>4, <1>9
  <2>2. d = Assume(ctx, asked)
    BY <1>9, <2>1 DEF InitAssumptions
  <2> HIDE DEF d, to
  <2>3. /\ CtxInv(d) /\ WatchesOK(d, {})
        /\ SameFrames(ctx, d) /\ d.fqhead = ctx.fqhead
        /\ d.search = ScopeLvl(d) /\ d.assumptions = asked
        /\ \/ Inconsistent(d)
           \/ \A a \in asked : \E i \in DOMAIN d.trail : d.trail[i].lit = a /\ d.trail[i].lvl <= d.search
    BY <1>2, <1>3, <1>9, <2>2, AskedFacts, AssumeKeeps
  <2>4. d.search <= ScopeLvl(d) /\ ScopeLvl(d) <= d.search
    BY <2>3, TypeParts
  <2>5. Started(d, asked)
    BY <2>3, <2>4 DEF Started
  <2>6. ~canceled => d.fqhead = Len(d.formulas)
    BY <1>3, <2>3 DEF SameFrames
  <2> QED
    BY <1>1, <1>2, <1>6, <1>7, <2>3, <2>5, <2>6, SearchStep
<1> QED
  BY <1>8, <1>9

LEMMA EndSearchKeeps ==
    ASSUME IInv, EndSearch
    PROVE  IInv'
<1>1. Propagated /\ stage = "search"
  BY DEF EndSearch
<1>2. /\ pc = "propagate" /\ visit = {}
      /\ Inconsistent(ctx) \/ canceled \/ ctx.qhead = Len(ctx.trail)
  BY <1>1 DEF Propagated
<1>3. /\ CtxInv(ctx) /\ WatchesOK(ctx, {}) /\ (~canceled => ctx.fqhead = Len(ctx.formulas))
      /\ \/ Started(ctx, asked)
         \/ ctx.assumptions = {} /\ ScopeLvl(ctx) = BaseLvl(ctx) /\ canceled
  BY <1>1, <1>2 DEF IInv, ControlOK, Searching
<1>4. deletions \in 0 .. MaxDeletions /\ pc # "idle" /\ stage # "push"
  BY <1>1, <1>2 DEF IInv, TypeOK
<1>5. CASE /\ Inconsistent(ctx) /\ Go("resolve", ctx)
           /\ UNCHANGED <<visit, stage, deletions>>
  <2>1. visit' = visit /\ stage' = "search" /\ deletions' \in 0 .. MaxDeletions
    BY <1>1, <1>4, <1>5
  <2> QED
    BY <1>2, <1>3, <1>4, <1>5, <2>1, SearchStep
<1>6. CASE ~Inconsistent(ctx) /\ canceled /\ Return("unknown", {}, Requeued(ctx))
  <2>1. CtxInv(Requeued(ctx)) /\ WatchesOK(Requeued(ctx), {})
    BY <1>1, RequeuedKeeps
  <2>2. {} \subseteq asked
    OBVIOUS
  <2> QED
    BY <1>2, <1>6, <2>1, <2>2, ReturnKeeps
<1>7. CASE /\ ~Inconsistent(ctx) /\ ~canceled /\ Go("decide", ctx)
           /\ UNCHANGED <<visit, stage, deletions>>
  <2>1. visit' = visit /\ stage' = "search" /\ deletions' \in 0 .. MaxDeletions
    BY <1>1, <1>4, <1>7
  <2>2. ctx.qhead = Len(ctx.trail) /\ Started(ctx, asked)
    BY <1>2, <1>3, <1>7
  <2> QED
    BY <1>2, <1>3, <1>4, <1>7, <2>1, <2>2, SearchStep
<1> QED
  BY <1>5, <1>6, <1>7 DEF EndSearch

(* The search.                                                             *)
LEMMA SearchingFacts ==
    ASSUME IInv, pc \in {"resolve", "learned", "decide"}
    PROVE  /\ stage = "search" /\ visit = {} /\ stage # "push" /\ pc # "idle"
           /\ CtxInv(ctx) /\ WatchesOK(ctx, {})
           /\ ~canceled => ctx.fqhead = Len(ctx.formulas)
           /\ \/ Started(ctx, asked)
              \/ pc = "resolve" /\ ctx.assumptions = {} /\ ScopeLvl(ctx) = BaseLvl(ctx)
           /\ pc = "resolve" => Inconsistent(ctx)
           /\ pc # "resolve" => ~Inconsistent(ctx)
           /\ pc = "decide" => ctx.qhead = Len(ctx.trail)
           /\ deletions \in 0 .. MaxDeletions
<1>1. pc # "propagate" /\ pc # "idle" /\ Searching
  BY DEF Searching
<1>2. visit = {} /\ stage = "search" /\ CtxInv(ctx) /\ WatchesOK(ctx, visit)
  BY <1>1 DEF IInv, ControlOK
<1> QED
  BY <1>1, <1>2 DEF IInv, ControlOK, TypeOK

(* The conflict is of a level that is open.                                *)
LEMMA ConflictLevelOpen ==
    ASSUME NEW c, CtxInv(c), Inconsistent(c)
    PROVE  /\ ConflictLevel(c.trail, c.conflict) \in Nat
           /\ ConflictLevel(c.trail, c.conflict) <= ScopeLvl(c)
<1>1. /\ c \in ContextType /\ LevelsOK(c) /\ c.trail \in Trails
      /\ c.conflict \in SUBSET Literals /\ \A l \in c.conflict : False(c.trail, l)
  BY DEF CtxInv, TrailOK, ConflictOK
<1>2. /\ ConflictLevel(c.trail, c.conflict) \in Nat
      /\ ConflictLevel(c.trail, c.conflict) # 0 =>
            \E l \in c.conflict : Level(c.trail, -l) = ConflictLevel(c.trail, c.conflict)
  BY <1>1, ConflictLevelFacts
<1>3. ScopeLvl(c) \in Nat
  BY TypeParts
<1>4. CASE ConflictLevel(c.trail, c.conflict) = 0
  BY <1>3, <1>4
<1>5. CASE ConflictLevel(c.trail, c.conflict) # 0
  <2>1. PICK l \in c.conflict : Level(c.trail, -l) = ConflictLevel(c.trail, c.conflict)
    BY <1>2, <1>5
  <2>2. PICK i \in DOMAIN c.trail : Level(c.trail, -l) = c.trail[i].lvl
    <3>1. True(c.trail, -l)
      BY <1>1 DEF False
    <3>2. PICK i \in 1 .. Len(c.trail) : Level(c.trail, -l) = c.trail[i].lvl
      BY <1>1, <3>1, TrueFacts, SMTT(30)
    <3>3. i \in DOMAIN c.trail
      BY TypeParts
    <3> QED
      BY <3>2, <3>3
  <2> QED
    BY <1>1, <1>2, <2>1, <2>2 DEF LevelsOK
<1> QED
  BY <1>2, <1>4, <1>5

LEMMA ResolveUnsatKeeps ==
    ASSUME IInv, ResolveUnsat
    PROVE  IInv'
<1>1. pc = "resolve"
  BY DEF ResolveUnsat
<1>2. visit = {} /\ CtxInv(ctx) /\ WatchesOK(ctx, {}) /\ ctx.assumptions \subseteq asked
  BY <1>1, SearchingFacts DEF Started
<1> DEFINE K == UnsatCore(ctx.trail, ctx.search, ctx.conflict, ctx.assumptions)
           p == PopToBase(ctx)
           d == [p EXCEPT !.search = BaseLvl(ctx), !.assumptions = {}]
<1>3. CASE Return("unsat", {}, ctx)
  <2>1. {} \subseteq asked
    OBVIOUS
  <2> QED
    BY <1>2, <1>3, <2>1, ReturnKeeps
<1>4. CASE Return("unsat", K, d)
  <2>1. K \subseteq asked
    BY <1>2 DEF UnsatCore
  <2>2. CtxInv(p) /\ WatchesOK(p, {}) /\ ScopeLvl(p) = BaseLvl(p) /\ SameFrames(ctx, p)
    BY <1>2, PopToBaseKeeps
  <2> HIDE DEF p, K
  <2>3. CtxInv(d) /\ WatchesOK(d, {})
    <3> DEFINE none == {}
               s == BaseLvl(ctx)
    <3>1. d = WithSearch(p, none, s)
      BY <2>2 DEF WithSearch, CtxInv, ContextType
    <3>2. none \in SUBSET Literals /\ s \in BaseLvl(p) .. (BaseLvl(p) + 1)
      BY <2>2, TypeParts DEF SameFrames
    <3> HIDE DEF none, s, d
    <3> QED
      BY <2>2, <3>1, <3>2, SearchFacts
  <2> HIDE DEF d
  <2> QED
    BY <1>2, <1>4, <2>1, <2>3, ReturnKeeps
<1> QED
  BY <1>3, <1>4 DEF ResolveUnsat

(* A conflict above the search level follows from the formulas: one that   *)
(* refutes an assumption is of the level of the assumptions.               *)
LEMMA LearnableConflict ==
    ASSUME IInv, pc = "resolve", ~AtSearchLevel(ctx)
    PROVE  Implied(ctx.conflict, ModelsAt(ctx, BaseLvl(ctx))) /\ Started(ctx, asked)
<1>1. /\ CtxInv(ctx) /\ Inconsistent(ctx)
      /\ Started(ctx, asked) \/ ScopeLvl(ctx) = BaseLvl(ctx)
  BY SearchingFacts
<1>2. /\ ConflictLevel(ctx.trail, ctx.conflict) \in Nat
      /\ ConflictLevel(ctx.trail, ctx.conflict) <= ScopeLvl(ctx)
      /\ ctx.search \in Nat /\ BaseLvl(ctx) <= ctx.search /\ ScopeLvl(ctx) \in Nat /\ BaseLvl(ctx) \in Nat
  BY <1>1, ConflictLevelOpen, TypeParts
<1>3. ~(ScopeLvl(ctx) <= ctx.search)
  BY <1>2 DEF AtSearchLevel
<1>4. Started(ctx, asked)
  BY <1>1, <1>2, <1>3
<1>5. \A a \in ctx.assumptions : \E i \in DOMAIN ctx.trail : ctx.trail[i].lit = a
  BY <1>3, <1>4 DEF Started
<1>6. /\ \A l \in ctx.conflict : False(ctx.trail, l)
      /\ \/ Implied(ctx.conflict, ModelsAt(ctx, BaseLvl(ctx)))
         \/ \E l \in ctx.assumptions : ctx.conflict = {l}
      /\ ctx.trail \in Trails
  BY <1>1 DEF CtxInv, ConflictOK, TrailOK
<1>7. ASSUME NEW l \in ctx.assumptions, ctx.conflict = {l}
      PROVE  FALSE
  <2>1. True(ctx.trail, l) /\ False(ctx.trail, l)
    BY <1>5, <1>6, <1>7 DEF True
  <2> QED
    BY <1>6, <2>1, TrueFacts
<1> QED
  BY <1>4, <1>6, <1>7

LEMMA ResolveLearnKeeps ==
    ASSUME IInv, ResolveLearn
    PROVE  IInv'
<1> DEFINE d == Learn(ctx)
<1>1. pc = "resolve" /\ ~AtSearchLevel(ctx) /\ Go("learned", d) /\ UNCHANGED <<visit, stage, deletions>>
  BY DEF ResolveLearn
<1>2. /\ stage = "search" /\ visit = {} /\ stage # "push" /\ pc # "idle"
      /\ CtxInv(ctx) /\ WatchesOK(ctx, {}) /\ Inconsistent(ctx)
      /\ ~canceled => ctx.fqhead = Len(ctx.formulas)
      /\ deletions \in 0 .. MaxDeletions
  BY <1>1, SearchingFacts
<1>3. Implied(ctx.conflict, ModelsAt(ctx, BaseLvl(ctx))) /\ Started(ctx, asked)
  BY <1>1, LearnableConflict
<1>4. /\ CtxInv(d) /\ WatchesOK(d, {}) /\ ~Inconsistent(d)
      /\ SameFrames(ctx, d) /\ d.fqhead = ctx.fqhead
      /\ d.search = ctx.search /\ d.assumptions = ctx.assumptions /\ d.search <= ScopeLvl(d)
      /\ \A i \in DOMAIN ctx.trail : ctx.trail[i].lvl <= ctx.search =>
            i \in DOMAIN d.trail /\ d.trail[i] = ctx.trail[i]
  BY <1>1, <1>2, <1>3, LearnKeeps
<1> HIDE DEF d
<1>5. \A a \in asked : \E i \in DOMAIN ctx.trail : ctx.trail[i].lit = a /\ ctx.trail[i].lvl <= ctx.search
  <2>1. ~(ScopeLvl(ctx) <= ctx.search)
    <3>1. /\ ConflictLevel(ctx.trail, ctx.conflict) \in Nat
          /\ ConflictLevel(ctx.trail, ctx.conflict) <= ScopeLvl(ctx)
          /\ ctx.search \in Nat /\ ScopeLvl(ctx) \in Nat
      BY <1>2, ConflictLevelOpen, TypeParts
    <3> QED
      BY <1>1, <3>1 DEF AtSearchLevel
  <2> QED
    BY <1>3, <2>1 DEF Started
<1>6. Started(d, asked)
  <2>1. d.assumptions = asked
    BY <1>3, <1>4 DEF Started
  <2> QED
    BY <1>4, <1>5, <2>1 DEF Started
<1>7. visit' = visit /\ stage' = "search" /\ deletions' \in 0 .. MaxDeletions
  BY <1>1, <1>2
<1>8. ~canceled => d.fqhead = Len(d.formulas)
  BY <1>2, <1>4 DEF SameFrames
<1> QED
  BY <1>1, <1>2, <1>4, <1>6, <1>7, <1>8, SearchStep

LEMMA LearnedCanceledKeeps ==
    ASSUME IInv, LearnedCanceled
    PROVE  IInv'
<1>1. pc = "learned" /\ Return("unknown", {}, ctx)
  BY DEF LearnedCanceled
<1>2. visit = {} /\ CtxInv(ctx) /\ WatchesOK(ctx, {})
  BY <1>1, SearchingFacts
<1>3. {} \subseteq asked
  OBVIOUS
<1> QED
  BY <1>1, <1>2, <1>3, ReturnKeeps

LEMMA SimplifiedStarted ==
    ASSUME NEW c, CtxInv(c), WatchesOK(c, {}), NEW A, Started(c, A)
    PROVE  Started(SimplifyClauses(c), A)
<1> DEFINE d == SimplifyClauses(c)
<1>1. /\ CtxInv(d)
      /\ d.scopes = c.scopes /\ d.search = c.search /\ d.conflict = c.conflict
      /\ d.assumptions = c.assumptions /\ Len(d.trail) = Len(c.trail)
      /\ \A i \in 1 .. Len(c.trail) :
            d.trail[i].lit = c.trail[i].lit /\ d.trail[i].lvl = c.trail[i].lvl
  BY SimplifyKeeps
<1> HIDE DEF d
<1>2. /\ DOMAIN c.trail = 1 .. Len(c.trail) /\ DOMAIN d.trail = 1 .. Len(d.trail)
      /\ ScopeLvl(c) \in Nat /\ ScopeLvl(d) \in Nat /\ c.search \in Nat
  BY <1>1, TypeParts
<1>3. ScopeLvl(d) = ScopeLvl(c) /\ (Inconsistent(d) <=> Inconsistent(c))
  BY <1>1 DEF ScopeLvl, Inconsistent
<1>4. d.search <= ScopeLvl(d) /\ ScopeLvl(d) <= ScopeLvl(c)
  BY <1>1, <1>2, <1>3 DEF Started
<1>5. \A i \in DOMAIN c.trail : /\ i \in DOMAIN d.trail
                                /\ d.trail[i].lit = c.trail[i].lit /\ d.trail[i].lvl = c.trail[i].lvl
  BY <1>1, <1>2
<1>6. Started(d, A)
  BY <1>1, <1>2, <1>3, <1>4, <1>5, StartedFrame
<1> QED
  BY <1>6 DEF d

LEMMA RestartKeeps ==
    ASSUME IInv, Restart
    PROVE  IInv'
<1> DEFINE p == PopTo(ctx, ctx.search)
           d == SimplifyClauses(p)
<1>1. pc = "learned" /\ ~canceled /\ Go("propagate", d) /\ UNCHANGED <<visit, stage, deletions>>
  BY DEF Restart
<1>2. /\ stage = "search" /\ visit = {} /\ stage # "push" /\ pc # "idle"
      /\ CtxInv(ctx) /\ WatchesOK(ctx, {}) /\ ~Inconsistent(ctx)
      /\ ctx.fqhead = Len(ctx.formulas) /\ Started(ctx, asked)
      /\ deletions \in 0 .. MaxDeletions
  BY <1>1, SearchingFacts
<1>3. /\ ctx.search \in 0 .. ScopeLvl(ctx) /\ ctx.search \in Nat /\ BaseLvl(ctx) <= ctx.search
      /\ BaseLvl(ctx) \in Nat /\ ScopeLvl(ctx) \in Nat
  BY <1>2, TypeParts DEF Started
<1>4. Popped(ctx, p, ctx.search)
  BY <1>2, <1>3, PopToKeeps
<1> HIDE DEF p
<1>5. ~(ctx.search < BaseLvl(ctx))
  BY <1>3
<1>6. /\ CtxInv(p) /\ ScopeLvl(p) = ctx.search /\ p.assumptions = ctx.assumptions
      /\ p.search = ctx.search /\ p.fqhead = ctx.fqhead /\ Len(p.formulas) = Len(ctx.formulas)
      /\ \A i \in DOMAIN p.trail : p.trail[i] = ctx.trail[i]
      /\ \A i \in DOMAIN ctx.trail : ctx.trail[i].lvl <= ctx.search => i \in DOMAIN p.trail
  BY <1>3, <1>4, <1>5 DEF Popped
<1>7. WatchesOK(p, {})
  BY <1>2, <1>4, PoppedWatches
<1>8. Started(p, asked)
  <2>1. /\ p.search <= ScopeLvl(p) /\ ScopeLvl(p) \in Nat
        /\ \A i \in DOMAIN ctx.trail : ctx.trail[i].lvl <= ctx.search =>
               i \in DOMAIN p.trail /\ p.trail[i].lit = ctx.trail[i].lit /\ p.trail[i].lvl = ctx.trail[i].lvl
    BY <1>3, <1>6
  <2> QED
    BY <1>2, <1>3, <1>6, <2>1, StartedFrame
<1>9. /\ CtxInv(d) /\ WatchesOK(d, {}) /\ d.fqhead = p.fqhead /\ d.formulas = p.formulas
  BY <1>6, <1>7, SimplifyKeeps
<1>10. Started(d, asked)
  BY <1>6, <1>7, <1>8, SimplifiedStarted
<1> HIDE DEF d
<1>11. visit' = visit /\ stage' = "search" /\ deletions' \in 0 .. MaxDeletions
  BY <1>1, <1>2
<1>12. d.fqhead = Len(d.formulas)
  BY <1>2, <1>6, <1>9
<1> QED
  BY <1>1, <1>2, <1>9, <1>10, <1>11, <1>12, SearchStep

LEMMA DelInactiveLemmasKeeps ==
    ASSUME IInv, NEW D \in SUBSET DOMAIN ctx.lemmas, DelInactiveLemmas(D)
    PROVE  IInv'
<1> DEFINE d == DeleteLemmas(ctx, D)
<1>1. /\ pc = "learned" /\ ~canceled /\ Go("propagate", d)
      /\ deletions < MaxDeletions /\ deletions' = deletions + 1
      /\ \A i \in D : CanDelete(ctx, i) /\ visit' = visit /\ stage' = stage
  BY DEF DelInactiveLemmas
<1>2. /\ stage = "search" /\ visit = {} /\ stage # "push" /\ pc # "idle"
      /\ CtxInv(ctx) /\ WatchesOK(ctx, {}) /\ ~Inconsistent(ctx)
      /\ ctx.fqhead = Len(ctx.formulas) /\ Started(ctx, asked)
      /\ deletions \in 0 .. MaxDeletions
  BY <1>1, SearchingFacts
<1>3. \A i \in D : i > LemmasLim(ctx)
  BY <1>1 DEF CanDelete
<1>4. /\ CtxInv(d) /\ WatchesOK(d, {})
      /\ d = [ctx EXCEPT !.lemmas = Kept(ctx.lemmas, DOMAIN ctx.lemmas \ D)]
  BY <1>2, <1>3, DeleteKeeps
<1> HIDE DEF d
<1>5. /\ d.formulas = ctx.formulas /\ d.fqhead = ctx.fqhead /\ d.trail = ctx.trail /\ d.search = ctx.search
      /\ d.assumptions = ctx.assumptions /\ d.scopes = ctx.scopes /\ d.conflict = ctx.conflict
  BY <1>2, <1>4 DEF CtxInv, ContextType
<1>6. Started(d, asked)
  BY <1>2, <1>5 DEF Started, ScopeLvl, Inconsistent
<1>7. visit' = visit /\ stage' = "search" /\ deletions' \in 0 .. MaxDeletions
  <2>1. deletions' \in 0 .. MaxDeletions
    BY <1>1, <1>2, SmtContextAssumption
  <2>2. visit' = visit /\ stage' = "search"
    <3>1. UNCHANGED <<visit, stage>>
      BY DEF DelInactiveLemmas
    <3> QED
      BY <1>2, <3>1
  <2> QED
    BY <2>1, <2>2
<1>8. d.fqhead = Len(d.formulas)
  BY <1>2, <1>5
<1> QED
  BY <1>1, <1>2, <1>4, <1>6, <1>7, <1>8, SearchStep

LEMMA ContinueKeeps ==
    ASSUME IInv, Continue
    PROVE  IInv'
<1>1. pc = "learned" /\ ~canceled /\ Go("propagate", ctx) /\ UNCHANGED <<visit, stage, deletions>>
  BY DEF Continue
<1>2. /\ stage = "search" /\ visit = {} /\ stage # "push" /\ pc # "idle"
      /\ CtxInv(ctx) /\ WatchesOK(ctx, {})
      /\ ctx.fqhead = Len(ctx.formulas) /\ Started(ctx, asked)
      /\ deletions \in 0 .. MaxDeletions
  BY <1>1, SearchingFacts
<1>3. visit' = visit /\ stage' = "search" /\ deletions' \in 0 .. MaxDeletions
  BY <1>1, <1>2
<1> QED
  BY <1>1, <1>2, <1>3, SearchStep

LEMMA SimplifyStepKeeps ==
    ASSUME IInv, Simplify
    PROVE  IInv'
<1> DEFINE d == SimplifyClauses(ctx)
<1>1. pc = "decide" /\ ~canceled /\ Go("decide", d) /\ UNCHANGED <<visit, stage, deletions>>
  BY DEF Simplify
<1>2. /\ stage = "search" /\ visit = {} /\ stage # "push" /\ pc # "idle"
      /\ CtxInv(ctx) /\ WatchesOK(ctx, {}) /\ ~Inconsistent(ctx) /\ ctx.qhead = Len(ctx.trail)
      /\ ctx.fqhead = Len(ctx.formulas) /\ Started(ctx, asked)
      /\ deletions \in 0 .. MaxDeletions
  BY <1>1, SearchingFacts
<1>3. /\ CtxInv(d) /\ WatchesOK(d, {}) /\ d.fqhead = ctx.fqhead /\ d.formulas = ctx.formulas
      /\ d.qhead = ctx.qhead /\ d.conflict = ctx.conflict /\ Len(d.trail) = Len(ctx.trail)
  BY <1>2, SimplifyKeeps
<1>4. Started(d, asked)
  BY <1>2, SimplifiedStarted
<1> HIDE DEF d
<1>5. ~Inconsistent(d) /\ d.qhead = Len(d.trail) /\ d.fqhead = Len(d.formulas)
  BY <1>2, <1>3 DEF Inconsistent
<1>6. visit' = visit /\ stage' = "search" /\ deletions' \in 0 .. MaxDeletions
  BY <1>1, <1>2
<1> QED
  BY <1>1, <1>2, <1>3, <1>4, <1>5, <1>6, SearchStep

LEMMA VarFacts ==
    ASSUME NEW l \in Literals
    PROVE  Var(l) \in Vars /\ Var(l) \in Nat \ {0} /\ (l = Var(l) \/ l = -Var(l))
<1>1. CASE l \in Vars
  <2>1. l \in Nat \ {0}
    BY <1>1, VarsAssumption
  <2> QED
    BY <1>1, <2>1 DEF Var
<1>2. CASE l \in {-v : v \in Vars}
  <2>1. PICK v \in Vars : l = -v
    BY <1>2
  <2>2. v \in Nat \ {0}
    BY VarsAssumption
  <2>3. l < 0 /\ -l = v
    BY <2>1, <2>2
  <2> QED
    BY <2>1, <2>2, <2>3 DEF Var
<1> QED
  BY <1>1, <1>2 DEF Literals

LEMMA AtomFacts ==
    ASSUME NEW c, CtxInv(c), NEW v \in Atoms(c)
    PROVE  v \in Vars /\ v \in Literals /\ -v \in Literals /\ -(-v) = v
<1>1. /\ \A i \in 1 .. c.fqhead : c.formulas[i] \in SUBSET Literals
      /\ c.assumptions \in SUBSET Literals
  <2>1. /\ \A i \in 1 .. Len(c.formulas) : c.formulas[i] \in SUBSET Literals
        /\ c.assumptions \in SUBSET Literals /\ c.fqhead \in Nat /\ Len(c.formulas) \in Nat
    BY Types DEF CtxInv
  <2>2. \A i \in 1 .. c.fqhead : i \in 1 .. Len(c.formulas)
    BY <2>1, TypeParts
  <2> QED
    BY <2>1, <2>2
<1>2. PICK l \in (UNION {c.formulas[i] : i \in 1 .. c.fqhead}) \cup c.assumptions : v = Var(l)
  BY DEF Atoms
<1>3. l \in Literals
  BY <1>1, <1>2
<1>4. v \in Vars
  BY <1>2, <1>3, VarFacts
<1>5. v \in Literals
  BY <1>4 DEF Literals
<1> QED
  BY <1>4, <1>5, LiteralFacts

(* decide opens a scope for a literal that is not assigned.                *)
LEMMA DecideFacts ==
    ASSUME NEW c, CtxInv(c), WatchesOK(c, {}), ~Inconsistent(c),
           c.qhead = Len(c.trail), c.fqhead = Len(c.formulas), c.search <= ScopeLvl(c),
           NEW l \in Literals, ~True(c.trail, l), ~False(c.trail, l), NEW none, none = {}
    PROVE  LET d == Assign(PushScope(c), l, none)
           IN  /\ CtxInv(d) /\ WatchesOK(d, {}) /\ ~Inconsistent(d) /\ SameFrames(c, d)
               /\ d.fqhead = c.fqhead /\ d.search = c.search /\ d.assumptions = c.assumptions
               /\ ScopeLvl(d) = ScopeLvl(c) + 1
               /\ \A i \in DOMAIN c.trail : i \in DOMAIN d.trail /\ d.trail[i] = c.trail[i]
<1> DEFINE p == PushScope(c)
           d == Assign(p, l, none)
           e == [lit |-> l, lvl |-> ScopeLvl(p), why |-> none]
<1>0. /\ ScopeLvl(c) \in Nat /\ BaseLvl(c) \in Nat /\ c.search \in Nat /\ BaseLvl(c) <= ScopeLvl(c)
      /\ DOMAIN c.trail = 1 .. Len(c.trail) /\ Len(c.trail) \in Nat
  BY TypeParts
<1>1. CtxInv(p) /\ \A w : WatchOK(c, w, FALSE) => WatchOK(p, w, FALSE)
  BY PushScopeKeeps
<1>2. /\ p.formulas = c.formulas /\ p.fqhead = c.fqhead /\ p.base = c.base
      /\ p.search = c.search /\ p.aux = c.aux /\ p.lemmas = c.lemmas
      /\ p.conflict = c.conflict /\ p.assumptions = c.assumptions /\ p.trail = c.trail
      /\ p \in ContextType /\ ScopeLvl(p) = ScopeLvl(c) + 1 /\ ScopeLvl(p) \in Nat
      /\ \A j \in 1 .. ScopeLvl(c) : p.scopes[j] = c.scopes[j]
  BY PushScopeFacts
<1> HIDE DEF p
<1>3. WatchesOK(p, {})
  BY <1>1, <1>2, WatchesTransfer
<1>4. Assignable(p, l, none)
  <2>1. \A i \in DOMAIN p.trail : p.trail[i].lvl < ScopeLvl(p)
    <3>1. \A i \in DOMAIN c.trail : c.trail[i].lvl <= ScopeLvl(c) /\ c.trail[i].lvl \in Nat
      BY Types DEF CtxInv, LevelsOK
    <3>n. \A x, y \in Nat : x <= y => x < y + 1
      OBVIOUS
    <3>2. \A i \in DOMAIN c.trail : c.trail[i].lvl < ScopeLvl(c) + 1
      BY <1>0, <3>1, <3>n
    <3> QED
      BY <1>2, <3>2
  <2>2. ScopeLvl(p) > p.search
    BY <1>0, <1>2
  <2>3. none \in SUBSET Literals /\ \A a \in none : True(p.trail, a)
    OBVIOUS
  <2> QED
    BY <1>2, <2>1, <2>2, <2>3 DEF Assignable, Decides
<1>5. /\ CtxInv(d) /\ d = [p EXCEPT !.trail = Append(p.trail, e)]
      /\ \A w, pending : WatchOK(p, w, pending) => WatchOK(d, w, pending)
  BY <1>1, <1>4, AssignKeeps
<1>e. e \in Entries
  BY <1>2 DEF Entries, Clauses
<1> HIDE DEF d, e
<1>6. /\ d.formulas = p.formulas /\ d.scopes = p.scopes /\ d.base = p.base /\ d.aux = p.aux
      /\ d.lemmas = p.lemmas /\ d.fqhead = p.fqhead /\ d.search = p.search
      /\ d.assumptions = p.assumptions /\ d.conflict = p.conflict /\ d.trail = Append(c.trail, e)
  BY <1>2, <1>5 DEF ContextType
<1>7. WatchesOK(d, {})
  <2>1. d.aux = p.aux /\ d.lemmas = p.lemmas
    BY <1>6
  <2>2. \A w : WatchOK(p, w, FALSE) => WatchOK(d, w, FALSE)
    BY <1>5
  <2> QED
    BY <1>3, <2>1, <2>2, WatchesTransfer
<1>8. \A i \in DOMAIN c.trail : i \in DOMAIN d.trail /\ d.trail[i] = c.trail[i]
  <2>1. c.trail \in Seq(Entries)
    BY Fields DEF CtxInv
  <2>2. /\ DOMAIN Append(c.trail, e) = 1 .. (Len(c.trail) + 1)
        /\ \A i \in 1 .. Len(c.trail) : Append(c.trail, e)[i] = c.trail[i]
    BY <1>e, <2>1, AppendFacts
  <2> QED
    BY <1>0, <1>6, <2>2
<1>9. /\ ScopeLvl(d) = ScopeLvl(p) /\ BaseLvl(d) = BaseLvl(p) /\ BaseLvl(p) = BaseLvl(c)
      /\ \A k : FormulasLimAt(d, k) = FormulasLimAt(p, k)
  <2>1. d.formulas = p.formulas /\ d.scopes = p.scopes /\ d.base = p.base
    BY <1>6
  <2> QED
    BY <1>2, <2>1, SameScopes DEF BaseLvl
<1>10. SameFrames(c, d)
  <2>1. \A j \in 1 .. BaseLvl(c) : p.scopes[j] = c.scopes[j]
    BY <1>0, <1>2
  <2>2. \A k \in 0 .. BaseLvl(c) : k < BaseLvl(c) => k + 1 \in 1 .. BaseLvl(c)
    BY <1>0
  <2>3. \A k \in 0 .. BaseLvl(c) : FormulasLimAt(p, k) = FormulasLimAt(c, k)
    BY <1>2, <1>9, <2>1, <2>2 DEF FormulasLimAt
  <2>4. d.formulas = c.formulas
    BY <1>2, <1>6
  <2> QED
    BY <1>9, <2>3, <2>4 DEF SameFrames
<1>11. ~Inconsistent(d)
  BY <1>2, <1>6 DEF Inconsistent
<1>12. CtxInv(d)
  BY <1>5
<1>13. /\ d.fqhead = c.fqhead /\ d.search = c.search /\ d.assumptions = c.assumptions
       /\ ScopeLvl(d) = ScopeLvl(c) + 1
  BY <1>2, <1>6, <1>9
<1> QED
  BY <1>7, <1>8, <1>10, <1>11, <1>12, <1>13 DEF d, p

LEMMA DecideKeeps ==
    ASSUME IInv, NEW v \in Undecided, Decide(v)
    PROVE  IInv'
<1> DEFINE none == {}
<1>1. /\ pc = "decide" /\ ~canceled /\ UNCHANGED <<visit, stage, deletions>>
      /\ \E l \in {v, -v} : Go("propagate", Assign(PushScope(ctx), l, none))
  BY DEF Decide
<1>2. PICK l \in {v, -v} : Go("propagate", Assign(PushScope(ctx), l, none))
  BY <1>1
<1>3. /\ stage = "search" /\ visit = {} /\ stage # "push" /\ pc # "idle"
      /\ CtxInv(ctx) /\ WatchesOK(ctx, {}) /\ ~Inconsistent(ctx) /\ ctx.qhead = Len(ctx.trail)
      /\ ctx.fqhead = Len(ctx.formulas) /\ Started(ctx, asked)
      /\ deletions \in 0 .. MaxDeletions
  BY <1>1, SearchingFacts
<1>4. /\ v \in Literals /\ -v \in Literals /\ -(-v) = v
  BY <1>3, AtomFacts DEF Undecided
<1>5. l \in Literals /\ ~True(ctx.trail, l) /\ ~False(ctx.trail, l)
  <2>1. ~True(ctx.trail, v) /\ ~True(ctx.trail, -v)
    BY DEF Undecided, Assigned, False
  <2>2. l = v \/ l = -v
    OBVIOUS
  <2> QED
    BY <1>4, <2>1, <2>2 DEF False
<1>6. ctx.search <= ScopeLvl(ctx) /\ none = {}
  BY <1>3 DEF Started
<1> HIDE DEF none
<1> DEFINE d == Assign(PushScope(ctx), l, none)
<1>7. /\ CtxInv(d) /\ WatchesOK(d, {}) /\ ~Inconsistent(d) /\ SameFrames(ctx, d)
      /\ d.fqhead = ctx.fqhead /\ d.search = ctx.search /\ d.assumptions = ctx.assumptions
      /\ ScopeLvl(d) = ScopeLvl(ctx) + 1
      /\ \A i \in DOMAIN ctx.trail : i \in DOMAIN d.trail /\ d.trail[i] = ctx.trail[i]
  BY <1>3, <1>5, <1>6, DecideFacts
<1>8. Go("propagate", d)
  BY <1>2
<1> HIDE DEF d
<1>9. Started(d, asked)
  <2>1. ScopeLvl(ctx) \in Nat /\ ScopeLvl(d) \in Nat /\ ctx.search \in Nat
    BY <1>3, <1>7, TypeParts
  <2>2. d.search <= ScopeLvl(d)
    BY <1>6, <1>7, <2>1
  <2> QED
    BY <1>3, <1>7, <2>1, <2>2, StartedFrame
<1>10. visit' = visit /\ stage' = "search" /\ deletions' \in 0 .. MaxDeletions
  BY <1>1, <1>3
<1>11. d.fqhead = Len(d.formulas)
  BY <1>3, <1>7 DEF SameFrames
<1> QED
  BY <1>3, <1>7, <1>8, <1>9, <1>10, <1>11, SearchStep

LEMMA FinalCheckKeeps ==
    ASSUME IInv, FinalCheck \/ DecideCanceled
    PROVE  IInv'
<1>1. pc = "decide" /\ \E r \in {"sat", "unknown"} : Return(r, {}, ctx)
  BY DEF FinalCheck, DecideCanceled
<1>2. PICK r \in {"sat", "unknown"} : Return(r, {}, ctx)
  BY <1>1
<1>3. visit = {} /\ CtxInv(ctx) /\ WatchesOK(ctx, {})
  BY <1>1, SearchingFacts
<1>4. {} \subseteq asked /\ r \in {"none", "sat", "unsat", "unknown"}
  OBVIOUS
<1> QED
  BY <1>2, <1>3, <1>4, ReturnKeeps

LEMMA CancelKeeps ==
    ASSUME IInv, Cancel
    PROVE  IInv'
<1>1. /\ pc # "idle" /\ stage # "push" /\ ~canceled /\ canceled' = TRUE
      /\ ctx' = ctx /\ visit' = visit /\ qhead0' = qhead0 /\ pc' = pc /\ stage' = stage
      /\ asked' = asked /\ answer' = answer /\ core' = core /\ calls' = calls /\ deletions' = deletions
  BY DEF Cancel
<1>2. TypeOK'
  BY <1>1 DEF IInv, TypeOK
<1>3. ControlOK'
  <2>1. ControlOK
    BY DEF IInv
  <2> QED
    BY <1>1, <2>1 DEF ControlOK, Searching
<1> QED
  BY <1>1, <1>2, <1>3 DEF IInv

(* A fresh context.                                                        *)
LEMMA InitialKeeps ==
    CtxInv(InitialContext) /\ WatchesOK(InitialContext, {})
<1> DEFINE c == InitialContext
<1>f. /\ c.formulas = Background /\ c.fqhead = 0 /\ c.scopes = <<>> /\ c.base = <<>> /\ c.search = 0
      /\ c.trail = <<>> /\ c.qhead = 0 /\ c.aux = <<>> /\ c.lemmas = <<>>
      /\ c.conflict = NoConflict /\ c.assumptions = {}
  BY DEF InitialContext
<1>t. c \in ContextType
  <2>1. Background \in Seq(Clauses)
    <3>1. Background \in Seq(Clauses \ {{}})
      BY SmtContextAssumption
    <3> QED
      BY <3>1
  <2> QED
    BY <2>1 DEF InitialContext, ContextType
<1> HIDE DEF c
<1>s. ScopeLvl(c) = 0 /\ BaseLvl(c) = 0 /\ ~Inconsistent(c) /\ 0 .. BaseLvl(c) = {0}
  BY <1>f DEF ScopeLvl, BaseLvl, Inconsistent
<1>l. AuxLimAt(c, 0) = 0 /\ LemmasLimAt(c, 0) = 0
  BY <1>f, <1>s DEF AuxLimAt, LemmasLimAt
<1>e. /\ DOMAIN c.trail = {} /\ DOMAIN c.aux = {} /\ DOMAIN c.lemmas = {} /\ Len(c.trail) = 0
      /\ Len(c.formulas) \in Nat
  BY <1>f, <1>t, Types
<1>1. ScopesOK(c) /\ LevelsOK(c)
  BY <1>e, <1>f, <1>s DEF ScopesOK, LevelsOK
<1>2. TrailOK(c)
  <2>1. c.trail \in Seq(Entries)
    BY <1>t, Fields
  <2> QED
    BY <1>e, <2>1 DEF TrailOK, Trails, Consistent, Ordered, AntecedentsBefore, AntecedentOfLevel, DecisionsFirst
<1>3. ClausesOK(c)
  BY <1>e, <1>l, <1>s DEF ClausesOK
<1>4. SoundOK(c) /\ JustifiedOK(c)
  BY <1>e, <1>l, <1>s DEF SoundOK, JustifiedOK, BaseImplied, WhyImplies, UnitsImplied
<1>5. ConflictOK(c) /\ QueueOK(c)
  BY <1>e, <1>s DEF ConflictOK, QueueOK
<1>6. RepresentedOK(c)
  <2>1. FormulasLimAt(c, 0) = Len(c.formulas)
    BY <1>s DEF FormulasLimAt
  <2>2. InternalizedAt(c, 0) = 0
    BY <1>e, <1>f, <2>1 DEF InternalizedAt
  <2> QED
    BY <1>s, <2>2 DEF RepresentedOK
<1>7. WatchesOK(c, {})
  BY <1>e, WatchesSplit
<1> QED
  BY <1>t, <1>1, <1>2, <1>3, <1>4, <1>5, <1>6, <1>7 DEF CtxInv, c

LEMMA InitInv == Init => IInv
<1> SUFFICES ASSUME Init
             PROVE  IInv
  OBVIOUS
<1>1. /\ ctx = InitialContext /\ visit = {} /\ pc = "idle" /\ stage = "search" /\ asked = {}
      /\ answer = "none" /\ core = {} /\ canceled = FALSE /\ calls = 0 /\ deletions = 0
  BY DEF Init
<1>2. CtxInv(ctx) /\ WatchesOK(ctx, visit)
  BY <1>1, InitialKeeps
<1>3. VisitOK(ctx, visit)
  BY <1>1, VisitNone
<1>4. TypeOK
  <2>1. calls \in 0 .. MaxCalls /\ deletions \in 0 .. MaxDeletions
    BY <1>1, SmtContextAssumption
  <2>2. /\ ctx \in ContextType
        /\ BaseLvl(ctx) <= ctx.search /\ BaseLvl(ctx) <= ScopeLvl(ctx)
        /\ ctx.qhead <= Len(ctx.trail) /\ ctx.fqhead <= Len(ctx.formulas)
    BY <1>2, TypeParts
  <2>3. /\ visit \subseteq ClauseRefs(ctx) /\ asked \in AssumptionSets \cup {{}}
        /\ core \subseteq asked /\ canceled \in BOOLEAN
    BY <1>1
  <2> QED
    BY <1>1, <2>1, <2>2, <2>3 DEF TypeOK
<1>5. ControlOK
  BY <1>1 DEF ControlOK, Searching
<1> QED
  BY <1>2, <1>3, <1>4, <1>5 DEF IInv

LEMMA NextInv == IInv /\ [Next]_vars => IInv'
<1> SUFFICES ASSUME IInv, [Next]_vars
             PROVE  IInv'
  OBVIOUS
<1>1. ASSUME NEW f \in Formulas, AssertExpr(f)
      PROVE  IInv'
  BY <1>1, AssertExprKeeps
<1>2. CASE Push
  BY <1>2, PushCallKeeps
<1>3. ASSUME NEW n \in 1 .. BaseLvl(ctx), Pop(n)
      PROVE  IInv'
  BY <1>3, PopCallKeeps
<1>4. ASSUME NEW A \in AssumptionSets, Check(A)
      PROVE  IInv'
  BY <1>4, CheckCallKeeps
<1>5. CASE BeginInconsistent
  BY <1>5, BeginInconsistentKeeps
<1>6. CASE BeginInternalize
  BY <1>6, BeginInternalizeKeeps
<1>7. CASE InternalizeNext
  BY <1>7, InternalizeNextKeeps
<1>8. CASE InternalizeDone
  BY <1>8, InternalizeDoneKeeps
<1>9. CASE InternalizeDoneNoAssumptions
  BY <1>9, InternalizeDoneNoAssumptionsKeeps
<1>10. CASE BcpNext
  BY <1>10, BcpNextKeeps
<1>11. ASSUME NEW r \in visit, BcpVisit(r)
       PROVE  IInv'
  BY <1>11, BcpVisitKeeps
<1>12. CASE EndPush
  BY <1>12, EndPushKeeps
<1>13. CASE EndAssume
  BY <1>13, EndAssumeKeeps
<1>14. CASE EndSearch
  BY <1>14, EndSearchKeeps
<1>15. CASE ResolveUnsat
  BY <1>15, ResolveUnsatKeeps
<1>16. CASE ResolveLearn
  BY <1>16, ResolveLearnKeeps
<1>17. CASE LearnedCanceled
  BY <1>17, LearnedCanceledKeeps
<1>18. CASE Restart
  BY <1>18, RestartKeeps
<1>19. CASE Continue
  BY <1>19, ContinueKeeps
<1>20. ASSUME NEW D \in SUBSET DOMAIN ctx.lemmas, DelInactiveLemmas(D)
       PROVE  IInv'
  BY <1>20, DelInactiveLemmasKeeps
<1>21. CASE Simplify
  BY <1>21, SimplifyStepKeeps
<1>22. ASSUME NEW v \in Undecided, Decide(v)
       PROVE  IInv'
  BY <1>22, DecideKeeps
<1>23. CASE FinalCheck \/ DecideCanceled
  BY <1>23, FinalCheckKeeps
<1>24. CASE Cancel
  BY <1>24, CancelKeeps
<1>25. CASE UNCHANGED vars
  BY <1>25 DEF vars, IInv, TypeOK, ControlOK, Searching
<1>26. ClientCall => IInv'
  BY <1>1, <1>2, <1>3, <1>4 DEF ClientCall
<1>27. Step => IInv'
  BY <1>5, <1>6, <1>7, <1>8, <1>9, <1>10, <1>11, <1>12, <1>13, <1>14, <1>15, <1>16, <1>17, <1>18,
     <1>19, <1>20, <1>21, <1>22, <1>23 DEF Step
<1> QED
  BY <1>24, <1>25, <1>26, <1>27 DEF Next, Idle

(* The inductive invariant holds in every reachable state of the context.  *)
THEOREM InvariantTheorem == Spec => []IInv
<1>1. Init => IInv
  BY InitInv
<1>2. IInv /\ [Next]_vars => IInv'
  BY NextInv
<1> QED
  BY <1>1, <1>2, PTL DEF Spec

(* The variables keep their types, and the levels of user scopes, search   *)
(* and decisions their order, in every state.                              *)
THEOREM TypeTheorem == Spec => []TypeOK
<1>1. IInv => TypeOK
  BY DEF IInv
<1> QED
  BY <1>1, InvariantTheorem, PTL

(* The models of a level are the valuations that satisfy its formulas.     *)
LEMMA ModelsFormulas ==
    ASSUME NEW c, CtxInv(c), NEW k \in 0 .. BaseLvl(c), NEW m
    PROVE  m \in ModelsAt(c, k) <=> m \in Valuations /\ Satisfies(m, FormulasAt(c, k))
<1> DEFINE n == FormulasLimAt(c, k)
           s == SubSeq(c.formulas, 1, n)
<1>1. n \in Nat /\ n <= Len(c.formulas) /\ c.formulas \in Seq(Clauses) /\ Len(c.formulas) \in Nat
  BY ModelsShrink, Fields, Types DEF CtxInv
<1> HIDE DEF n
<1>2. DOMAIN s = 1 .. n /\ \A i \in 1 .. n : s[i] = c.formulas[i]
  <2>1. n \in 0 .. Len(c.formulas)
    BY <1>1
  <2> QED
    BY <1>1, <2>1, PrefixFacts
<1> HIDE DEF s
<1>3. FormulasAt(c, k) = {s[i] : i \in 1 .. n}
  BY <1>2 DEF FormulasAt, Range, s, n
<1>4. Satisfies(m, FormulasAt(c, k)) <=> \A i \in 1 .. n : c.formulas[i] \cap m # {}
  BY <1>2, <1>3 DEF Satisfies
<1> QED
  BY <1>4 DEF ModelsAt, n

LEMMA SoundFacts ==
    ASSUME NEW c, CtxInv(c), NEW k \in 0 .. BaseLvl(c)
    PROVE  Entails(FormulasAt(c, k), AuxAt(c, k) \cup LemmasAt(c, k) \cup Units(LiteralsAt(c, k)))
<1> SUFFICES ASSUME NEW m \in Valuations, Satisfies(m, FormulasAt(c, k)),
                    NEW x \in AuxAt(c, k) \cup LemmasAt(c, k) \cup Units(LiteralsAt(c, k))
             PROVE  x \cap m # {}
  BY DEF Entails, Satisfies
<1>1. m \in ModelsAt(c, k)
  BY ModelsFormulas
<1>2. /\ BaseImplied(c.trail, k, ModelsAt(c, k))
      /\ \A i \in 1 .. AuxLimAt(c, k) : Implied(c.aux[i].lits, ModelsAt(c, k))
      /\ \A i \in 1 .. LemmasLimAt(c, k) : Implied(c.lemmas[i].lits, ModelsAt(c, k))
  BY DEF CtxInv, SoundOK
<1>3. CASE x \in AuxAt(c, k)
  BY <1>1, <1>2, <1>3 DEF AuxAt, Implied
<1>4. CASE x \in LemmasAt(c, k)
  BY <1>1, <1>2, <1>4 DEF LemmasAt, Implied
<1>5. CASE x \in Units(LiteralsAt(c, k))
  <2>1. PICK i \in DOMAIN c.trail : c.trail[i].lvl <= k /\ x = {c.trail[i].lit}
    BY <1>5 DEF Units, LiteralsAt, Range
  <2>2. c.trail[i].lit \in m
    BY <1>1, <1>2, <2>1 DEF BaseImplied
  <2> QED
    BY <2>1, <2>2
<1> QED
  BY <1>3, <1>4, <1>5

(* Whatever pop_scope_core keeps of a user scope follows from the formulas *)
(* asserted up to that scope: the lemmas, the simplified clauses and the   *)
(* literals that stay when scopes are popped depend on nothing that goes.  *)
THEOREM DatabaseSoundTheorem == Spec => []DatabaseSound
<1>1. IInv => DatabaseSound
  BY SoundFacts DEF IInv, DatabaseSound
<1> QED
  BY <1>1, InvariantTheorem, PTL

LEMMA RepresentedFacts ==
    ASSUME NEW c, CtxInv(c), NEW k \in 0 .. BaseLvl(c), ~InconsistentAt(c, k)
    PROVE  Entails(AuxAt(c, k) \cup Units(LiteralsAt(c, k)), {c.formulas[i] : i \in 1 .. InternalizedAt(c, k)})
<1>1. ~Dirty(c, k)
  BY DEF Dirty, InconsistentAt
<1>2. \A m \in Valuations : HoldsAt(c, k, m) => \A i \in 1 .. InternalizedAt(c, k) : c.formulas[i] \cap m # {}
  BY <1>1 DEF CtxInv, RepresentedOK
<1> SUFFICES ASSUME NEW m \in Valuations, Satisfies(m, AuxAt(c, k) \cup Units(LiteralsAt(c, k)))
             PROVE  HoldsAt(c, k, m)
  BY <1>2 DEF Entails, Satisfies
<1>3. \A i \in 1 .. AuxLimAt(c, k) : c.aux[i].lits \cap m # {}
  BY DEF Satisfies, AuxAt
<1>4. ASSUME NEW i \in DOMAIN c.trail, c.trail[i].lvl <= k
      PROVE  c.trail[i].lit \in m
  <2>1. {c.trail[i].lit} \in Units(LiteralsAt(c, k))
    BY <1>4 DEF Units, LiteralsAt, Range
  <2>2. {c.trail[i].lit} \cap m # {}
    BY <2>1 DEF Satisfies
  <2> QED
    BY <2>2
<1> QED
  BY <1>3, <1>4 DEF HoldsAt

(* Neither simplify_clauses nor a cancelled internalization loses a        *)
(* formula: the clauses and literals of each user scope entail what is     *)
(* counted as internalized there.                                          *)
THEOREM FormulasRepresentedTheorem == Spec => []FormulasRepresented
<1>1. IInv => FormulasRepresented
  BY RepresentedFacts DEF IInv, FormulasRepresented
<1> QED
  BY <1>1, InvariantTheorem, PTL

LEMMA BcpFacts ==
    ASSUME NEW c, CtxInv(c), WatchesOK(c, {}), ~Inconsistent(c), c.qhead = Len(c.trail),
           NEW r \in ClauseRefs(c), ~TrueClause(c, Clause(c, r))
    PROVE  \E k, l \in Clause(c, r).lits : k # l /\ ~False(c.trail, k) /\ ~False(c.trail, l)
<1> DEFINE w == Clause(c, r)
<1>1. PICK a, b \in w.lits : a # b /\ w.watch = {a, b}
  BY ClauseFacts DEF WatchesTwo
<1>2. WatchOK(c, w, FALSE)
  <2>1. (r \in {}) = FALSE
    OBVIOUS
  <2> QED
    BY <2>1 DEF WatchesOK
<1> HIDE DEF w
<1>3. ASSUME NEW x \in w.watch, False(c.trail, x)
      PROVE  FALSE
  <2>1. PICK p \in DOMAIN c.trail : c.trail[p].lit = -x
    BY <1>3 DEF False, True
  <2>2. Passed(c, p)
    <3>1. p \in 1 .. Len(c.trail) /\ Len(c.trail) \in Nat
      BY TypeParts
    <3> QED
      BY <3>1 DEF Passed
  <2>3. ~Dirty(c, c.trail[p].lvl)
    <3>1. /\ c.trail[p].lvl \in Nat /\ BaseLvl(c) \in Nat
      BY Types DEF CtxInv
    <3>2. c.trail[p].lvl < BaseLvl(c) => c.trail[p].lvl \in 0 .. (BaseLvl(c) - 1)
      BY <3>1
    <3> QED
      BY <3>2 DEF CtxInv, ConflictOK, Dirty
  <2>4. PICK y \in w.watch : \E q \in DOMAIN c.trail : c.trail[q].lit = y
    BY <1>2, <2>1, <2>2, <2>3 DEF WatchOK
  <2>5. y \in w.lits /\ True(c.trail, y)
    BY <1>1, <2>4 DEF True
  <2> QED
    BY <2>5 DEF TrueClause, w
<1>4. ~False(c.trail, a) /\ ~False(c.trail, b)
  BY <1>1, <1>3
<1> QED
  BY <1>1, <1>4 DEF w

(* bcp has missed nothing when the search decides: every clause has a true *)
(* literal or two that are not false, whatever backjumps, restarts, pops   *)
(* and cancelled propagations came before.                                 *)
THEOREM BcpCompleteTheorem == Spec => []BcpComplete
<1>1. IInv => BcpComplete
  <2> SUFFICES ASSUME IInv, pc = "decide", NEW r \in ClauseRefs(ctx), ~TrueClause(ctx, Clause(ctx, r))
               PROVE  \E k, l \in Clause(ctx, r).lits :
                          k # l /\ ~False(ctx.trail, k) /\ ~False(ctx.trail, l)
    BY DEF BcpComplete
  <2>1. CtxInv(ctx) /\ WatchesOK(ctx, {}) /\ ~Inconsistent(ctx) /\ ctx.qhead = Len(ctx.trail)
    BY SearchingFacts
  <2> QED
    BY <2>1, BcpFacts
<1> QED
  BY <1>1, InvariantTheorem, PTL

LEMMA JustifiedFacts ==
    ASSUME NEW c, CtxInv(c), NEW i \in DOMAIN c.trail
    PROVE  LET e == c.trail[i]
               before == {j \in 1 .. (i - 1) : c.trail[j].lit \in e.why}
               chosen == e.why = {} /\ (e.lit \in c.assumptions \/ e.lvl > c.search)
           IN  /\ e.why = {c.trail[j].lit : j \in before}
               /\ e.why # {} /\ e.lvl > BaseLvl(c) => e.lvl = Max({c.trail[j].lvl : j \in before})
               /\ chosen \/ Entails(FormulasAt(c, BaseLvl(c)), {{e.lit} \cup {-a : a \in e.why}})
<1> DEFINE T == c.trail
           e == T[i]
           before == {j \in 1 .. (i - 1) : T[j].lit \in e.why}
           B == BaseLvl(c)
           lvls == {T[j].lvl : j \in before}
           chosen == e.why = {} /\ (e.lit \in c.assumptions \/ e.lvl > c.search)
<1>1. /\ T \in Trails /\ AntecedentOfLevel(T, B) /\ WhyImplies(T, ModelsAt(c, B))
      /\ UnitsImplied(T, c.search, c.assumptions, ModelsAt(c, B)) /\ B \in Nat /\ c.search \in Nat
  BY TypeParts DEF CtxInv, TrailOK, JustifiedOK
<1>2. /\ i \in 1 .. Len(T) /\ Len(T) \in Nat /\ e.lit \in Literals /\ e.lvl \in Nat
      /\ e.why \in SUBSET Literals /\ DOMAIN T = 1 .. Len(T)
  BY <1>1, EntryFacts, TypeParts
<1>3. \A j \in 1 .. (i - 1) : j \in DOMAIN T /\ j <= i
  BY <1>2
<1>4. e.why = {T[j].lit : j \in before}
  <2>1. \A a \in e.why : \E j \in 1 .. (i - 1) : T[j].lit = a
    BY <1>1 DEF Trails, AntecedentsBefore
  <2> HIDE DEF e, T
  <2> QED
    BY <2>1
<1>5. ASSUME e.why # {}, e.lvl > B
      PROVE  e.lvl = Max(lvls)
  <2>1. PICK j \in 1 .. (i - 1) : T[j].lit \in e.why /\ T[j].lvl = e.lvl
    BY <1>1, <1>5 DEF AntecedentOfLevel
  <2>2. e.lvl \in lvls
    BY <2>1
  <2>3. \A k \in before : T[k].lvl \in 0 .. e.lvl
    <3> SUFFICES ASSUME NEW k \in before
                 PROVE  T[k].lvl \in 0 .. e.lvl
      OBVIOUS
    <3>1. k \in DOMAIN T /\ k <= i
      BY <1>3
    <3>2. T[k].lvl \in Nat
      BY <1>1, <3>1, EntryFacts
    <3>3. T[k].lvl <= T[i].lvl
      BY <1>1, <3>1 DEF Trails, Ordered
    <3> QED
      BY <1>2, <3>2, <3>3
  <2>4. lvls \in SUBSET (0 .. e.lvl) /\ lvls # {}
    <3> HIDE DEF before, e
    <3> QED
      BY <2>2, <2>3
  <2> DEFINE n == e.lvl
  <2>5. Max(lvls) \in lvls /\ \A y \in lvls : y <= Max(lvls)
    <3>1. n \in Nat /\ lvls \in SUBSET (0 .. n) /\ lvls # {}
      BY <1>2, <2>4
    <3> HIDE DEF n, lvls
    <3> QED
      BY <3>1, MaxNat
  <2>6. Max(lvls) \in 0 .. n /\ n <= Max(lvls)
    <3> HIDE DEF lvls
    <3> QED
      BY <2>2, <2>4, <2>5
  <2> HIDE DEF lvls, e
  <2>7. n \in Nat
    BY <1>2
  <2> HIDE DEF n
  <2>8. n = Max(lvls)
    BY <2>6, <2>7
  <2> QED
    BY <2>8 DEF n
<1>6. chosen \/ Entails(FormulasAt(c, B), {{e.lit} \cup {-a : a \in e.why}})
  <2> SUFFICES ASSUME ~chosen, NEW m \in Valuations, Satisfies(m, FormulasAt(c, B))
               PROVE  ({e.lit} \cup {-a : a \in e.why}) \cap m # {}
    BY DEF Entails, Satisfies
  <2>1. m \in ModelsAt(c, B)
    <3>1. B \in 0 .. BaseLvl(c)
      BY <1>1
    <3> QED
      BY <3>1, ModelsFormulas
  <2>2. CASE e.why = {}
    <3>1. ~(e.lvl > c.search) /\ e.lit \notin c.assumptions
      BY <2>2
    <3>2. e.lvl <= c.search
      BY <1>1, <1>2, <3>1
    <3>3. e.lit \in m
      BY <1>1, <2>1, <2>2, <3>1, <3>2 DEF UnitsImplied
    <3> QED
      BY <3>3
  <2>3. CASE e.why # {} /\ e.why \subseteq m
    <3>1. e.lit \in m
      BY <1>1, <2>1, <2>3 DEF WhyImplies
    <3> QED
      BY <3>1
  <2>4. CASE ~(e.why \subseteq m)
    <3>1. PICK a \in e.why : a \notin m
      BY <2>4
    <3>2. -a \in m
      BY <1>2, <3>1, LiteralFacts, ValuationFacts
    <3> QED
      BY <3>1, <3>2
  <2> QED
    BY <2>2, <2>3, <2>4
<1> QED
  BY <1>4, <1>5, <1>6

(* What conflict resolution relies on: each literal of the trail comes     *)
(* after its antecedents, at the level of the last of them, and follows    *)
(* from them and the formulas.                                             *)
THEOREM TrailJustifiedTheorem == Spec => []TrailJustified
<1>1. IInv => TrailJustified
  BY JustifiedFacts DEF IInv, TrailJustified
<1> QED
  BY <1>1, InvariantTheorem, PTL

-----------------------------------------------------------------------------
(* The frames of the abstract solver, for any context.                     *)
FrameStart(c, i) == IF i = 1 THEN 0 ELSE FormulasLimAt(c, i - 2)

FramesOf(c) ==
    [i \in 1 .. (BaseLvl(c) + 1) |->
        Range(SubSeq(c.formulas, FrameStart(c, i) + 1, FormulasLimAt(c, i - 1)))]

LEMMA FramesAre == Frames = FramesOf(ctx) /\ Frames' = FramesOf(ctx')
  BY DEF Frames, FramesOf, FrameStart

LEMMA RangeSubSeq ==
    ASSUME NEW S, NEW s \in Seq(S), NEW a \in Nat, NEW b \in Nat, a <= b, b <= Len(s)
    PROVE  Range(SubSeq(s, a + 1, b)) = {s[j] : j \in (a + 1) .. b}
<1> DEFINE t == SubSeq(s, a + 1, b)
<1>1. DOMAIN t = 1 .. (b - a) /\ \A i \in 1 .. (b - a) : t[i] = s[i + a]
  <2>1. Len(s) \in Nat /\ a + 1 \in 1 .. (Len(s) + 1) /\ b \in a .. Len(s)
    OBVIOUS
  <2>2. Len(t) = b - a /\ \A i \in 1 .. (b - a) : t[i] = s[a + 1 + i - 1]
    BY <2>1
  <2>3. t \in Seq(S)
    BY <2>1
  <2>4. DOMAIN t = 1 .. (b - a)
    BY <2>2, <2>3
  <2>5. \A i \in 1 .. (b - a) : a + 1 + i - 1 = i + a
    OBVIOUS
  <2> QED
    BY <2>2, <2>4, <2>5
<1> HIDE DEF t
<1>2. Range(t) = {t[i] : i \in 1 .. (b - a)}
  BY <1>1 DEF Range
<1>3. \A i \in 1 .. (b - a) : i + a \in (a + 1) .. b
  OBVIOUS
<1>4. \A j \in (a + 1) .. b : j - a \in 1 .. (b - a) /\ (j - a) + a = j
  OBVIOUS
<1>5. \A j \in (a + 1) .. b : t[j - a] = s[j]
  BY <1>1, <1>4
<1>6. Range(t) \subseteq {s[j] : j \in (a + 1) .. b}
  <2> SUFFICES ASSUME NEW i \in 1 .. (b - a)
               PROVE  \E j \in (a + 1) .. b : t[i] = s[j]
    BY <1>2
  <2> QED
    BY <1>1, <1>3
<1>7. \A j \in (a + 1) .. b : s[j] \in Range(t)
  BY <1>2, <1>4, <1>5
<1> QED
  BY <1>6, <1>7 DEF t

(* The limits of the frames.                                               *)
LEMMA FrameLimits ==
    ASSUME NEW c, CtxInv(c), NEW i \in 1 .. (BaseLvl(c) + 1)
    PROVE  /\ FrameStart(c, i) \in Nat /\ FormulasLimAt(c, i - 1) \in Nat
           /\ FrameStart(c, i) <= FormulasLimAt(c, i - 1)
           /\ FormulasLimAt(c, i - 1) <= Len(c.formulas)
           /\ FramesOf(c)[i] = {c.formulas[j] : j \in (FrameStart(c, i) + 1) .. FormulasLimAt(c, i - 1)}
<1>1. c \in ContextType /\ ScopesOK(c) /\ BaseLvl(c) \in Nat /\ Len(c.formulas) \in Nat
  BY Types DEF CtxInv
<1>2. i - 1 \in 0 .. BaseLvl(c)
  BY <1>1
<1>3. FormulasLimAt(c, i - 1) \in Nat /\ FormulasLimAt(c, i - 1) <= Len(c.formulas)
  BY <1>1, <1>2, ModelsShrink
<1>4. FrameStart(c, i) \in Nat /\ FrameStart(c, i) <= FormulasLimAt(c, i - 1)
  <2>1. CASE i = 1
    BY <1>3, <2>1 DEF FrameStart
  <2>2. CASE i # 1
    <3>1. /\ i - 2 \in 0 .. BaseLvl(c) /\ i - 2 < BaseLvl(c) /\ i - 2 + 1 = i - 1
          /\ i - 1 \in 1 .. BaseLvl(c)
      BY <1>1, <2>2
    <3>2. FormulasLimAt(c, i - 2) \in Nat /\ FormulasLimAt(c, i - 2) <= Len(c.formulas)
      BY <1>1, <3>1, ModelsShrink
    <3>3. FormulasLimAt(c, i - 2) = c.scopes[i - 1].formulas
      BY <3>1 DEF FormulasLimAt
    <3>4. FormulasLimAt(c, i - 2) <= FormulasLimAt(c, i - 1)
      <4>1. CASE i - 1 < BaseLvl(c)
        <5>1. FormulasLimAt(c, i - 1) = c.scopes[i].formulas
          <6>1. i - 1 + 1 = i
            OBVIOUS
          <6> QED
            BY <4>1, <6>1 DEF FormulasLimAt
        <5>2. i \in 1 .. ScopeLvl(c) /\ i - 1 \in 1 .. i
          BY <1>1, <3>1, <4>1, Types DEF ScopesOK
        <5> QED
          BY <1>1, <3>3, <5>1, <5>2 DEF ScopesOK
      <4>2. CASE ~(i - 1 < BaseLvl(c))
        BY <3>2, <4>2 DEF FormulasLimAt
      <4> QED
        BY <4>1, <4>2
    <3> QED
      BY <2>2, <3>2, <3>4 DEF FrameStart
  <2> QED
    BY <2>1, <2>2
<1>5. FramesOf(c)[i] = Range(SubSeq(c.formulas, FrameStart(c, i) + 1, FormulasLimAt(c, i - 1)))
  BY DEF FramesOf
<1>6. c.formulas \in Seq(Clauses)
  BY <1>1, Fields
<1>7. FramesOf(c)[i] = {c.formulas[j] : j \in (FrameStart(c, i) + 1) .. FormulasLimAt(c, i - 1)}
  <2> DEFINE a == FrameStart(c, i)
             b == FormulasLimAt(c, i - 1)
             s == c.formulas
  <2>1. a \in Nat /\ b \in Nat /\ a <= b /\ b <= Len(s) /\ s \in Seq(Clauses)
    BY <1>3, <1>4, <1>6
  <2> HIDE DEF a, b, s
  <2>2. Range(SubSeq(s, a + 1, b)) = {s[j] : j \in (a + 1) .. b}
    BY <2>1, RangeSubSeq
  <2> QED
    BY <1>5, <2>2 DEF a, b, s
<1> QED
  BY <1>3, <1>4, <1>7

LEMMA FramesKept ==
    ASSUME NEW c, CtxInv(c), NEW d, SameFrames(c, d)
    PROVE  FramesOf(d) = FramesOf(c)
<1>1. BaseLvl(c) \in Nat
  BY TypeParts
<1>2. \A i \in 1 .. (BaseLvl(c) + 1) : i - 1 \in 0 .. BaseLvl(c) /\ (i # 1 => i - 2 \in 0 .. BaseLvl(c))
  BY <1>1
<1>3. \A i \in 1 .. (BaseLvl(c) + 1) :
        FrameStart(d, i) = FrameStart(c, i) /\ FormulasLimAt(d, i - 1) = FormulasLimAt(c, i - 1)
  BY <1>2 DEF SameFrames, FrameStart
<1> QED
  BY <1>3 DEF SameFrames, FramesOf

(* The clauses of all frames are the formulas of the context.              *)
LEMMA AssertedAre ==
    ASSUME NEW c, CtxInv(c), NEW m
    PROVE  m \in ModelsAt(c, BaseLvl(c)) <=>
             m \in Valuations /\ \A i \in DOMAIN FramesOf(c) : Satisfies(m, FramesOf(c)[i])
<1>1. c \in ContextType /\ BaseLvl(c) \in Nat /\ Len(c.formulas) \in Nat
  BY Types DEF CtxInv
<1>2. DOMAIN FramesOf(c) = 1 .. (BaseLvl(c) + 1)
  BY DEF FramesOf
<1>3. FormulasLimAt(c, BaseLvl(c)) = Len(c.formulas)
  BY <1>1 DEF FormulasLimAt
<1>4. ASSUME m \in ModelsAt(c, BaseLvl(c)), NEW i \in 1 .. (BaseLvl(c) + 1)
      PROVE  Satisfies(m, FramesOf(c)[i])
  <2>1. \A j \in 1 .. Len(c.formulas) : c.formulas[j] \cap m # {}
    BY <1>3, <1>4 DEF ModelsAt
  <2>2. \A j \in (FrameStart(c, i) + 1) .. FormulasLimAt(c, i - 1) : j \in 1 .. Len(c.formulas)
    BY <1>1, <1>4, FrameLimits
  <2> QED
    BY <1>4, <2>1, <2>2, FrameLimits DEF Satisfies
<1>5. ASSUME \A i \in 1 .. (BaseLvl(c) + 1) : Satisfies(m, FramesOf(c)[i]),
             NEW j \in 1 .. Len(c.formulas)
      PROVE  c.formulas[j] \cap m # {}
  <2> DEFINE P == {k \in 0 .. BaseLvl(c) : j <= FormulasLimAt(c, k)}
  <2>1. P \in SUBSET Nat /\ BaseLvl(c) \in P
    BY <1>1, <1>3
  <2>2. PICK k \in P : \A y \in P : k <= y
    <3>1. P # {}
      BY <2>1
    <3> HIDE DEF P
    <3> QED
      BY <2>1, <3>1, LeastNat
  <2>3. k \in 0 .. BaseLvl(c) /\ j <= FormulasLimAt(c, k)
    BY <2>2
  <2>4. k + 1 \in 1 .. (BaseLvl(c) + 1) /\ k + 1 - 1 = k
    BY <1>1, <2>3
  <2>5. FrameStart(c, k + 1) < j
    <3>1. CASE k = 0
      BY <3>1 DEF FrameStart
    <3>2. CASE k # 0
      <4>1. k - 1 \in 0 .. BaseLvl(c) /\ k + 1 - 2 = k - 1 /\ ~(k <= k - 1) /\ k + 1 # 1
        BY <1>1, <2>3, <3>2
      <4>2. ~(j <= FormulasLimAt(c, k - 1))
        BY <2>2, <4>1
      <4>3. FormulasLimAt(c, k - 1) \in Nat
        BY <1>1, <4>1, ModelsShrink DEF CtxInv
      <4>4. FrameStart(c, k + 1) = FormulasLimAt(c, k - 1)
        BY <4>1 DEF FrameStart
      <4> QED
        BY <4>2, <4>3, <4>4
    <3> QED
      BY <3>1, <3>2
  <2>6. /\ FramesOf(c)[k + 1] = {c.formulas[x] : x \in (FrameStart(c, k + 1) + 1) .. FormulasLimAt(c, k)}
        /\ FrameStart(c, k + 1) \in Nat /\ FormulasLimAt(c, k) \in Nat
    BY <2>4, FrameLimits
  <2>7. j \in (FrameStart(c, k + 1) + 1) .. FormulasLimAt(c, k)
    BY <2>3, <2>5, <2>6
  <2>8. Satisfies(m, FramesOf(c)[k + 1])
    BY <1>5, <2>4
  <2> QED
    BY <2>6, <2>7, <2>8 DEF Satisfies
<1>6. m \in ModelsAt(c, BaseLvl(c)) => m \in Valuations
  BY DEF ModelsAt
<1>7. m \in Valuations /\ (\A j \in 1 .. Len(c.formulas) : c.formulas[j] \cap m # {})
      => m \in ModelsAt(c, BaseLvl(c))
  BY <1>3 DEF ModelsAt
<1> QED
  BY <1>2, <1>4, <1>5, <1>6, <1>7

-----------------------------------------------------------------------------
(* What the abstract solver says of its frames, in terms of the context.   *)
LEMMA SolverAsserted ==
    ASSUME CtxInv(ctx), NEW m, NEW K
    PROVE  m \in ModelsAt(ctx, BaseLvl(ctx)) /\ K \subseteq m <=>
             m \in Valuations /\ Solver!Satisfies(m, Solver!Asserted \cup Solver!Units(K))
<1>1. Solver!Asserted = UNION {FramesOf(ctx)[i] : i \in DOMAIN FramesOf(ctx)}
  BY FramesAre DEF Solver!Asserted
<1>2. m \in ModelsAt(ctx, BaseLvl(ctx)) <=>
        m \in Valuations /\ \A i \in DOMAIN FramesOf(ctx) : Satisfies(m, FramesOf(ctx)[i])
  BY AssertedAre
<1>3. Solver!Satisfies(m, Solver!Asserted) <=> \A i \in DOMAIN FramesOf(ctx) : Satisfies(m, FramesOf(ctx)[i])
  BY <1>1 DEF Solver!Satisfies, Satisfies
<1>4. Solver!Satisfies(m, Solver!Units(K)) <=> K \subseteq m
  <2>1. Solver!Satisfies(m, Solver!Units(K)) <=> \A l \in K : {l} \cap m # {}
    BY DEF Solver!Satisfies, Solver!Units
  <2>2. \A l : {l} \cap m # {} <=> l \in m
    OBVIOUS
  <2> QED
    BY <2>1, <2>2
<1>5. Solver!Satisfies(m, Solver!Asserted \cup Solver!Units(K)) <=>
        Solver!Satisfies(m, Solver!Asserted) /\ Solver!Satisfies(m, Solver!Units(K))
  BY DEF Solver!Satisfies
<1> QED
  BY <1>2, <1>3, <1>4, <1>5

LEMMA SolverSatisfiable ==
    ASSUME CtxInv(ctx), NEW K
    PROVE  Solver!Satisfiable(Solver!Asserted \cup Solver!Units(K)) <=>
             \E m \in ModelsAt(ctx, BaseLvl(ctx)) : K \subseteq m
<1>1. Solver!Valuations = Valuations
  BY DEF Solver!Valuations, Valuations
<1>2. Solver!Satisfiable(Solver!Asserted \cup Solver!Units(K)) <=>
        \E m \in Valuations : Solver!Satisfies(m, Solver!Asserted \cup Solver!Units(K))
  BY <1>1 DEF Solver!Satisfiable
<1> QED
  BY <1>2, SolverAsserted

(* A step that neither asserts, pushes, pops nor answers is a stutter.     *)
LEMMA SolverStutter ==
    ASSUME CtxInv(ctx), SameFrames(ctx, ctx'), UNCHANGED <<asked, answer, core>>
    PROVE  UNCHANGED Solver!vars
  BY FramesAre, FramesKept DEF Solver!vars

LEMMA SameFramesSelf ==
    ASSUME NEW c
    PROVE  SameFrames(c, c)
  BY DEF SameFrames

LEMMA SameFramesScopes ==
    ASSUME NEW c, NEW d, d.formulas = c.formulas, d.scopes = c.scopes, d.base = c.base
    PROVE  SameFrames(c, d)
  BY SameScopes DEF SameFrames

LEMMA SolverUnknown ==
    ASSUME CtxInv(ctx), NEW c, SameFrames(ctx, c), answer = "none", Return("unknown", {}, c)
    PROVE  Solver!Next
<1>1. ctx' = c /\ answer' = "unknown" /\ core' = {} /\ asked' = asked
  BY DEF Return
<1>2. Frames' = Frames
  BY <1>1, FramesAre, FramesKept
<1> QED
  BY <1>1, <1>2 DEF Solver!Next, Solver!AnswerUnknown

LEMMA SolverUnsat ==
    ASSUME CtxInv(ctx), NEW c, SameFrames(ctx, c), answer = "none", NEW K, Return("unsat", K, c),
           K \subseteq asked, \A m \in ModelsAt(ctx, BaseLvl(ctx)) : ~(K \subseteq m)
    PROVE  Solver!Next
<1>1. ctx' = c /\ answer' = "unsat" /\ core' = K /\ asked' = asked
  BY DEF Return
<1>2. Frames' = Frames
  BY <1>1, FramesAre, FramesKept
<1>3. ~Solver!Satisfiable(Solver!Asserted \cup Solver!Units(core'))
  BY <1>1, SolverSatisfiable
<1> QED
  BY <1>1, <1>2, <1>3 DEF Solver!Next, Solver!AnswerUnsat

LEMMA SolverSat ==
    ASSUME CtxInv(ctx), NEW c, SameFrames(ctx, c), answer = "none", Return("sat", {}, c),
           \E m \in ModelsAt(ctx, BaseLvl(ctx)) : asked \subseteq m
    PROVE  Solver!Next
<1>1. ctx' = c /\ answer' = "sat" /\ core' = {} /\ asked' = asked
  BY DEF Return
<1>2. Frames' = Frames
  BY <1>1, FramesAre, FramesKept
<1>3. Solver!Satisfiable(Solver!Asserted \cup Solver!Units(asked))
  BY SolverSatisfiable
<1> QED
  BY <1>1, <1>2, <1>3 DEF Solver!Next, Solver!AnswerSat

LEMMA AnswerNone ==
    ASSUME IInv, pc # "idle", stage # "push"
    PROVE  answer = "none" /\ CtxInv(ctx)
  BY DEF IInv, ControlOK

-----------------------------------------------------------------------------
(* The steps of a call that the client does not see.                       *)
Silent == SameFrames(ctx, ctx') /\ UNCHANGED <<asked, answer, core>>

LEMMA BeginSilent ==
    ASSUME IInv, Push \/ BeginInternalize \/ Continue \/ Cancel \/ UNCHANGED vars
    PROVE  Silent
<1>1. CASE Push
  <2>1. ctx' = PopToBase(ctx) /\ UNCHANGED <<asked, answer, core>> /\ Call
    BY <1>1 DEF Push
  <2>2. SameFrames(ctx, PopToBase(ctx))
    BY <2>1, CallFacts, PopToBaseKeeps
  <2> QED
    BY <2>1, <2>2 DEF Silent
<1>2. CASE BeginInternalize \/ Continue \/ Cancel \/ UNCHANGED vars
  <2>1. ctx' = ctx /\ UNCHANGED <<asked, answer, core>>
    BY <1>2 DEF BeginInternalize, Continue, Cancel, vars, Go
  <2> QED
    BY <2>1, SameFramesSelf DEF Silent
<1> QED
  BY <1>1, <1>2

LEMMA InternalizeSilent ==
    ASSUME IInv, InternalizeNext
    PROVE  Silent
<1> DEFINE d == [MkAuxClause(ctx, ctx.formulas[ctx.fqhead + 1]) EXCEPT !.fqhead = @ + 1]
<1>1. pc = "internalize" /\ ctx.fqhead < Len(ctx.formulas) /\ ctx' = d /\ UNCHANGED <<asked, answer, core>>
  BY DEF InternalizeNext, Go
<1>2. CtxInv(ctx) /\ ScopeLvl(ctx) = BaseLvl(ctx) /\ WatchesOK(ctx, {})
  BY <1>1 DEF IInv, ControlOK
<1>3. d.formulas = ctx.formulas /\ d.scopes = ctx.scopes /\ d.base = ctx.base
  BY <1>1, <1>2, InternalizeKeeps
<1> HIDE DEF d
<1> QED
  BY <1>1, <1>3, SameFramesScopes DEF Silent

LEMMA InternalizedSilent ==
    ASSUME IInv, InternalizeDone \/ InternalizeDoneNoAssumptions
    PROVE  Silent
<1>1. ctx \in ContextType
  BY DEF IInv, CtxInv
<1>2. UNCHANGED <<asked, answer, core>>
  BY DEF InternalizeDone, InternalizeDoneNoAssumptions, StartSearch, Go
<1>3. \/ ctx' = ctx \/ ctx' = [ctx EXCEPT !.assumptions = {}]
      \/ ctx' = [ctx EXCEPT !.assumptions = {}, !.search = ScopeLvl(ctx)]
  BY DEF InternalizeDone, InternalizeDoneNoAssumptions, StartSearch, Go
<1>4. ctx'.formulas = ctx.formulas /\ ctx'.scopes = ctx.scopes /\ ctx'.base = ctx.base
  BY <1>1, <1>3 DEF ContextType
<1> QED
  BY <1>2, <1>4, SameFramesScopes DEF Silent

LEMMA BcpSilent ==
    ASSUME IInv, BcpNext \/ \E r \in visit : BcpVisit(r)
    PROVE  Silent
<1>1. UNCHANGED <<asked, answer, core>>
  BY DEF BcpNext, BcpVisit, Bcp
<1>2. CtxInv(ctx) /\ WatchesOK(ctx, visit) /\ VisitOK(ctx, visit)
  BY DEF IInv
<1>3. CASE BcpNext
  <2>1. ctx' = [ctx EXCEPT !.qhead = @ + 1]
    BY <1>3 DEF BcpNext, Bcp
  <2>2. ctx'.formulas = ctx.formulas /\ ctx'.scopes = ctx.scopes /\ ctx'.base = ctx.base
    BY <1>2, <2>1 DEF CtxInv, ContextType
  <2> QED
    BY <1>1, <2>2, SameFramesScopes DEF Silent
<1>4. CASE \E r \in visit : BcpVisit(r)
  <2>1. PICK r \in visit : BcpVisit(r)
    BY <1>4
  <2>2. PICK d \in VisitClause(ctx, r, -ctx.trail[ctx.qhead].lit) : Bcp(d)
    BY <2>1 DEF BcpVisit
  <2>3. Visited(ctx, IF Inconsistent(d) THEN {} ELSE visit \ {r}, d)
    BY <1>2, <2>2, VisitKeeps
  <2>4. ctx' = d
    BY <2>2 DEF Bcp
  <2>5. d.formulas = ctx.formulas /\ d.scopes = ctx.scopes /\ d.base = ctx.base
    BY <2>3 DEF Visited, BcpFrame
  <2> QED
    BY <1>1, <2>4, <2>5, SameFramesScopes DEF Silent
<1> QED
  BY <1>3, <1>4

LEMMA RequeuedFrames ==
    ASSUME IInv, Propagated
    PROVE  SameFrames(ctx, Requeued(ctx))
<1>1. BcpFrame(ctx, Requeued(ctx))
  BY RequeuedKeeps
<1> DEFINE d == Requeued(ctx)
<1> HIDE DEF d
<1>2. d.formulas = ctx.formulas /\ d.scopes = ctx.scopes /\ d.base = ctx.base
  BY <1>1 DEF BcpFrame, d
<1> QED
  BY <1>2, SameFramesScopes DEF d

LEMMA EndAssumeSilent ==
    ASSUME IInv, EndAssume
    PROVE  Silent
<1> DEFINE q == Requeued(ctx)
<1>1. Propagated /\ stage = "assume" /\ ctx' = InitAssumptions(q) /\ UNCHANGED <<asked, answer, core>>
  BY DEF EndAssume, StartSearch, Go
<1>2. pc = "propagate" /\ visit = {}
      /\ (Inconsistent(ctx) \/ canceled \/ ctx.qhead = Len(ctx.trail))
  BY <1>1 DEF Propagated
<1>3. CASE InitAssumptions(q) = q
  BY <1>1, <1>3, RequeuedFrames DEF Silent
<1>4. CASE InitAssumptions(q) = Assume(q, asked) /\ ~(Inconsistent(q) \/ canceled)
  <2>1. q = ctx
    BY <1>4 DEF Requeued
  <2>2. ~Inconsistent(ctx) /\ ~canceled /\ ctx.qhead = Len(ctx.trail)
    BY <1>2, <1>4, <2>1
  <2>3. /\ CtxInv(ctx) /\ WatchesOK(ctx, {}) /\ ScopeLvl(ctx) = BaseLvl(ctx)
        /\ ctx.fqhead = Len(ctx.formulas)
    BY <1>1, <1>2, <2>2 DEF IInv, ControlOK, Searching
  <2>4. SameFrames(ctx, Assume(ctx, asked))
    BY <2>2, <2>3, AskedFacts, AssumeKeeps
  <2> QED
    BY <1>1, <1>4, <2>1, <2>4 DEF Silent
<1> QED
  BY <1>3, <1>4 DEF InitAssumptions

LEMMA ResolveLearnSilent ==
    ASSUME IInv, ResolveLearn
    PROVE  Silent
<1>1. pc = "resolve" /\ ~AtSearchLevel(ctx) /\ ctx' = Learn(ctx) /\ UNCHANGED <<asked, answer, core>>
  BY DEF ResolveLearn, Go
<1>2. CtxInv(ctx) /\ WatchesOK(ctx, {}) /\ Inconsistent(ctx)
  BY <1>1, SearchingFacts
<1>3. Implied(ctx.conflict, ModelsAt(ctx, BaseLvl(ctx)))
  BY <1>1, LearnableConflict
<1>4. SameFrames(ctx, Learn(ctx))
  BY <1>1, <1>2, <1>3, LearnKeeps
<1> QED
  BY <1>1, <1>4 DEF Silent

LEMMA SimplifyFrames ==
    ASSUME NEW c, CtxInv(c), WatchesOK(c, {})
    PROVE  SameFrames(c, SimplifyClauses(c))
<1> DEFINE d == SimplifyClauses(c)
<1>1. d.formulas = c.formulas /\ d.scopes = c.scopes /\ d.base = c.base
  BY SimplifyKeeps
<1> HIDE DEF d
<1>2. SameFrames(c, d)
  BY <1>1, SameFramesScopes
<1> QED
  BY <1>2 DEF d

LEMMA SameFramesTrans ==
    ASSUME NEW c, NEW d, NEW e, SameFrames(c, d), SameFrames(d, e)
    PROVE  SameFrames(c, e)
  BY DEF SameFrames

LEMMA RestartSilent ==
    ASSUME IInv, Restart \/ Simplify
    PROVE  Silent
<1>1. CtxInv(ctx) /\ WatchesOK(ctx, {}) /\ UNCHANGED <<asked, answer, core>>
  BY SearchingFacts DEF Restart, Simplify, Go
<1>2. CASE Simplify
  <2>1. ctx' = SimplifyClauses(ctx)
    BY <1>2 DEF Simplify, Go
  <2> QED
    BY <1>1, <2>1, SimplifyFrames DEF Silent
<1>3. CASE Restart
  <2> DEFINE p == PopTo(ctx, ctx.search)
  <2>1. ctx' = SimplifyClauses(p) /\ ScopeLvl(ctx) - BaseLvl(ctx) > 2
    BY <1>3 DEF Restart, Go
  <2>2. ctx.search \in 0 .. ScopeLvl(ctx) /\ ctx.search \in Nat /\ BaseLvl(ctx) <= ctx.search
    BY <1>1, <2>1, TypeParts
  <2>3. Popped(ctx, p, ctx.search)
    BY <1>1, <2>2, PopToKeeps
  <2> HIDE DEF p
  <2>4. SameFrames(ctx, p) /\ CtxInv(p) /\ WatchesOK(p, {})
    BY <1>1, <2>2, <2>3, PoppedFrames, PoppedWatches DEF Popped
  <2>5. SameFrames(ctx, SimplifyClauses(p))
    BY <2>4, SimplifyFrames, SameFramesTrans
  <2> QED
    BY <1>1, <2>1, <2>5 DEF Silent
<1> QED
  BY <1>2, <1>3

LEMMA DeleteSilent ==
    ASSUME IInv, NEW D, DelInactiveLemmas(D)
    PROVE  Silent
<1>1. ctx' = DeleteLemmas(ctx, D) /\ UNCHANGED <<asked, answer, core>>
  BY DEF DelInactiveLemmas, Go
<1>2. ctx'.formulas = ctx.formulas /\ ctx'.scopes = ctx.scopes /\ ctx'.base = ctx.base
  BY <1>1 DEF DeleteLemmas, IInv, CtxInv, ContextType
<1> QED
  BY <1>1, <1>2, SameFramesScopes DEF Silent

LEMMA DecideSilent ==
    ASSUME IInv, NEW v \in Undecided, Decide(v)
    PROVE  Silent
<1> DEFINE none == {}
<1>1. pc = "decide" /\ ~canceled
  BY DEF Decide
<1>2. PICK l \in {v, -v} : Go("propagate", Assign(PushScope(ctx), l, none))
  BY DEF Decide
<1> HIDE DEF none
<1>3. /\ CtxInv(ctx) /\ WatchesOK(ctx, {}) /\ ~Inconsistent(ctx) /\ ctx.qhead = Len(ctx.trail)
      /\ ctx.fqhead = Len(ctx.formulas) /\ ctx.search <= ScopeLvl(ctx)
  BY <1>1, SearchingFacts DEF Started
<1>4. l \in Literals /\ ~True(ctx.trail, l) /\ ~False(ctx.trail, l)
  <2>1. v \in Atoms(ctx) /\ ~True(ctx.trail, v) /\ ~True(ctx.trail, -v)
    BY DEF Undecided, Assigned, False
  <2>2. v \in Literals /\ -v \in Literals /\ -(-v) = v
    BY <1>3, <2>1, AtomFacts
  <2> QED
    BY <1>2, <2>1, <2>2 DEF False
<1>5. SameFrames(ctx, Assign(PushScope(ctx), l, none))
  <2>1. none = {}
    BY DEF none
  <2> QED
    BY <1>3, <1>4, <2>1, DecideFacts
<1> QED
  BY <1>2, <1>5 DEF Silent, Go

-----------------------------------------------------------------------------
(* The calls that change the frames, and the check.                        *)
LEMMA FramesLen ==
    ASSUME NEW c, CtxInv(c)
    PROVE  /\ DOMAIN FramesOf(c) = 1 .. (BaseLvl(c) + 1) /\ Len(FramesOf(c)) = BaseLvl(c) + 1
           /\ BaseLvl(c) \in Nat
<1>1. BaseLvl(c) \in Nat
  BY TypeParts
<1> DEFINE n == BaseLvl(c) + 1
<1>2. n \in Nat
  BY <1>1
<1> HIDE DEF n
<1>3. DOMAIN FramesOf(c) = 1 .. n /\ Len(FramesOf(c)) = n
  BY <1>2 DEF FramesOf, n
<1> QED
  BY <1>1, <1>3 DEF n

(* Two functions on the frames are equal when their frames are.            *)
LEMMA EqualFrames ==
    ASSUME NEW c, CtxInv(c), NEW F, F = [i \in DOMAIN F |-> F[i]],
           DOMAIN F = DOMAIN FramesOf(c), \A i \in DOMAIN F : F[i] = FramesOf(c)[i]
    PROVE  F = FramesOf(c)
<1>1. FramesOf(c) = [i \in DOMAIN FramesOf(c) |-> FramesOf(c)[i]]
  BY DEF FramesOf
<1> QED
  BY <1>1

LEMMA SeqFunction ==
    ASSUME NEW S, NEW s \in Seq(S)
    PROVE  s = [i \in DOMAIN s |-> s[i]]
  OBVIOUS

LEMMA AssertFrames ==
    ASSUME NEW c, CtxInv(c), NEW f, NEW d, CtxInv(d),
           d.formulas = Append(c.formulas, f), d.scopes = c.scopes, d.base = c.base
    PROVE  FramesOf(d) = [FramesOf(c) EXCEPT ![Len(FramesOf(c))] = @ \cup {f}]
<1> DEFINE n == BaseLvl(c) + 1
           F == FramesOf(c)
           G == [F EXCEPT ![n] = @ \cup {f}]
<1>1. DOMAIN F = 1 .. n /\ Len(F) = n /\ BaseLvl(c) \in Nat
  BY FramesLen
<1>2. d.scopes = c.scopes /\ d.base = c.base /\ d.formulas = Append(c.formulas, f)
  OBVIOUS
<1>3. BaseLvl(d) = BaseLvl(c)
  BY <1>2 DEF BaseLvl
<1>4. c.formulas \in Seq(Clauses) /\ d.formulas \in Seq(Clauses) /\ Len(c.formulas) \in Nat
  BY Fields, Types DEF CtxInv
<1>5. /\ Len(d.formulas) = Len(c.formulas) + 1
      /\ \A j \in 1 .. Len(c.formulas) : d.formulas[j] = c.formulas[j]
      /\ d.formulas[Len(c.formulas) + 1] = f
  BY <1>2, <1>4
<1>6. \A k : k < BaseLvl(c) => FormulasLimAt(d, k) = FormulasLimAt(c, k)
  BY <1>2, <1>3 DEF FormulasLimAt
<1>7. \A i \in 1 .. n : FrameStart(d, i) = FrameStart(c, i)
  <2>1. \A i \in 1 .. n : i - 2 < BaseLvl(c)
    BY <1>1
  <2> QED
    BY <1>6, <2>1 DEF FrameStart
<1>8. n \in 1 .. n /\ n - 1 = BaseLvl(c)
  BY <1>1
<1>9. DOMAIN FramesOf(d) = 1 .. n
  BY <1>3, FramesLen
<1> HIDE DEF n
<1>10. \A i \in 1 .. n : FramesOf(d)[i] = G[i]
  <2> SUFFICES ASSUME NEW i \in 1 .. n PROVE FramesOf(d)[i] = G[i]
    OBVIOUS
  <2>1. /\ FramesOf(c)[i] = {c.formulas[j] : j \in (FrameStart(c, i) + 1) .. FormulasLimAt(c, i - 1)}
        /\ FrameStart(c, i) \in Nat /\ FormulasLimAt(c, i - 1) \in Nat
        /\ FrameStart(c, i) <= FormulasLimAt(c, i - 1)
        /\ FormulasLimAt(c, i - 1) <= Len(c.formulas)
    BY FrameLimits DEF n
  <2>2. FramesOf(d)[i] = {d.formulas[j] : j \in (FrameStart(c, i) + 1) .. FormulasLimAt(d, i - 1)}
    <3>1. i \in 1 .. (BaseLvl(d) + 1)
      BY <1>3 DEF n
    <3>2. FramesOf(d)[i] = {d.formulas[j] : j \in (FrameStart(d, i) + 1) .. FormulasLimAt(d, i - 1)}
      BY <3>1, FrameLimits
    <3> QED
      BY <1>7, <3>2
  <2>3. CASE i # n
    <3>1. i - 1 < BaseLvl(c)
      BY <1>1, <2>3 DEF n
    <3>2. FormulasLimAt(d, i - 1) = FormulasLimAt(c, i - 1)
      BY <1>6, <3>1
    <3>3. \A j \in (FrameStart(c, i) + 1) .. FormulasLimAt(c, i - 1) : d.formulas[j] = c.formulas[j]
      BY <1>4, <1>5, <2>1
    <3>4. FramesOf(d)[i] = FramesOf(c)[i]
      BY <2>1, <2>2, <3>2, <3>3
    <3> QED
      BY <1>1, <2>3, <3>4
  <2>4. CASE i = n
    <3>1. FormulasLimAt(c, i - 1) = Len(c.formulas) /\ FormulasLimAt(d, i - 1) = Len(c.formulas) + 1
      BY <1>1, <1>3, <1>5, <1>8, <2>4 DEF FormulasLimAt
    <3> DEFINE a == FrameStart(c, i) + 1
               b == Len(c.formulas)
    <3>2. a \in Nat /\ b \in Nat /\ a <= b + 1 /\ a >= 1
      BY <1>4, <2>1, <3>1
    <3>3. /\ FramesOf(c)[i] = {c.formulas[j] : j \in a .. b}
          /\ FramesOf(d)[i] = {d.formulas[j] : j \in a .. (b + 1)}
          /\ \A j \in 1 .. b : d.formulas[j] = c.formulas[j]
          /\ d.formulas[b + 1] = f
      BY <1>5, <2>1, <2>2, <3>1
    <3> HIDE DEF a, b
    <3>4. /\ \A j \in a .. b : j \in 1 .. b /\ j \in a .. (b + 1)
          /\ \A j \in a .. (b + 1) : j \in a .. b \/ j = b + 1
          /\ b + 1 \in a .. (b + 1)
      BY <3>2
    <3>5. FramesOf(d)[i] = FramesOf(c)[i] \cup {f}
      BY <3>3, <3>4
    <3> QED
      BY <1>1, <2>4, <3>5
  <2> QED
    BY <2>3, <2>4
<1>11. DOMAIN G = 1 .. n /\ G = [i \in DOMAIN G |-> G[i]]
  BY <1>1
<1> HIDE DEF G, F
<1>12. DOMAIN G = DOMAIN FramesOf(d) /\ \A i \in DOMAIN G : G[i] = FramesOf(d)[i]
  BY <1>9, <1>10, <1>11
<1>13. G = FramesOf(d)
  BY <1>11, <1>12, EqualFrames
<1> QED
  BY <1>1, <1>13 DEF G, F

LEMMA AssertExprSolver ==
    ASSUME IInv, NEW f \in Formulas, AssertExpr(f)
    PROVE  Solver!Next
<1> DEFINE p == PopToBase(ctx)
           d == [p EXCEPT !.formulas = Append(@, f)]
<1>1. Call /\ ctx' = d /\ answer' = "none" /\ core' = {} /\ asked' = asked
  BY DEF AssertExpr, Forget
<1>2. CtxInv(ctx) /\ CtxInv(p) /\ ScopeLvl(p) = BaseLvl(p) /\ SameFrames(ctx, p)
  BY <1>1, CallFacts, PopToBaseKeeps
<1>3. f \in Clauses
  BY SmtContextAssumption
<1> HIDE DEF p
<1>4. CtxInv(d)
  BY <1>2, <1>3, AssertKeeps
<1>5. FramesOf(d) = [FramesOf(p) EXCEPT ![Len(FramesOf(p))] = @ \cup {f}]
  <2>1. d.formulas = Append(p.formulas, f) /\ d.scopes = p.scopes /\ d.base = p.base
    BY <1>2 DEF CtxInv, ContextType
  <2> HIDE DEF d
  <2> QED
    BY <1>2, <1>4, <2>1, AssertFrames
<1> HIDE DEF d
<1>6. FramesOf(p) = Frames
  BY <1>2, FramesAre, FramesKept
<1>7. Frames' = [Frames EXCEPT ![Len(Frames)] = @ \cup {f}]
  BY <1>1, <1>5, <1>6, FramesAre
<1>8. Solver!Assert(f)
  BY <1>1, <1>7 DEF Solver!Assert, Solver!Forget
<1> QED
  BY <1>8 DEF Solver!Next

LEMMA CheckSolver ==
    ASSUME IInv, NEW A \in AssumptionSets, Check(A)
    PROVE  Solver!Next
<1>1. Call /\ ctx' = PopToBase(ctx) /\ answer' = "none" /\ core' = {} /\ asked' = A
  BY DEF Check, Forget
<1>2. CtxInv(ctx) /\ SameFrames(ctx, PopToBase(ctx))
  BY <1>1, CallFacts, PopToBaseKeeps
<1>3. Frames' = Frames
  BY <1>1, <1>2, FramesAre, FramesKept
<1>4. Solver!Check(A)
  BY <1>1, <1>3 DEF Solver!Check, Solver!Forget
<1> QED
  BY <1>4 DEF Solver!Next

LEMMA PopFrames ==
    ASSUME NEW c, CtxInv(c), ScopeLvl(c) = BaseLvl(c), NEW lvl \in 0 .. BaseLvl(c),
           NEW d, Popped(c, d, lvl)
    PROVE  FramesOf(d) = SubSeq(FramesOf(c), 1, lvl + 1)
<1>1. /\ DOMAIN FramesOf(c) = 1 .. (BaseLvl(c) + 1) /\ Len(FramesOf(c)) = BaseLvl(c) + 1
      /\ BaseLvl(c) \in Nat
  BY FramesLen
<1>2. /\ CtxInv(d) /\ BaseLvl(d) = lvl /\ Prefix(d.formulas, c.formulas)
      /\ \A k \in 0 .. lvl : FormulasLimAt(d, k) = FormulasLimAt(c, k)
  BY <1>1 DEF Popped, PopPrefixes
<1>3. \A i \in 1 .. (lvl + 1) : FrameStart(d, i) = FrameStart(c, i) /\ FormulasLimAt(d, i - 1) = FormulasLimAt(c, i - 1)
  <2>1. \A i \in 1 .. (lvl + 1) : i - 1 \in 0 .. lvl /\ (i # 1 => i - 2 \in 0 .. lvl)
    BY <1>1
  <2> QED
    BY <1>2, <2>1 DEF FrameStart
<1>4. \A i \in 1 .. (lvl + 1) : FramesOf(d)[i] = FramesOf(c)[i]
  <2> SUFFICES ASSUME NEW i \in 1 .. (lvl + 1) PROVE FramesOf(d)[i] = FramesOf(c)[i]
    OBVIOUS
  <2>1. i \in 1 .. (BaseLvl(c) + 1)
    BY <1>1
  <2>2. /\ FramesOf(c)[i] = {c.formulas[j] : j \in (FrameStart(c, i) + 1) .. FormulasLimAt(c, i - 1)}
        /\ FrameStart(c, i) \in Nat
    BY <2>1, FrameLimits
  <2>3. /\ FramesOf(d)[i] = {d.formulas[j] : j \in (FrameStart(c, i) + 1) .. FormulasLimAt(c, i - 1)}
        /\ FormulasLimAt(c, i - 1) \in Nat /\ FormulasLimAt(c, i - 1) <= Len(d.formulas)
    BY <1>2, <1>3, FrameLimits
  <2>4. Len(d.formulas) \in Nat
    BY <1>2, TypeParts
  <2>5. \A j \in (FrameStart(c, i) + 1) .. FormulasLimAt(c, i - 1) : j \in 1 .. Len(d.formulas)
    BY <2>2, <2>3, <2>4
  <2>6. \A j \in (FrameStart(c, i) + 1) .. FormulasLimAt(c, i - 1) : d.formulas[j] = c.formulas[j]
    BY <1>2, <2>5 DEF Prefix
  <2> QED
    BY <2>2, <2>3, <2>6
<1> DEFINE G == SubSeq(FramesOf(c), 1, lvl + 1)
<1>5. DOMAIN G = 1 .. (lvl + 1) /\ G = [i \in DOMAIN G |-> G[i]] /\ \A i \in 1 .. (lvl + 1) : G[i] = FramesOf(c)[i]
  <2> DEFINE F == FramesOf(c)
             n == lvl + 1
  <2>1. F \in Seq(Range(F)) /\ n \in 0 .. Len(F)
    <3>1. F = [i \in 1 .. (BaseLvl(c) + 1) |-> F[i]] /\ \A i \in 1 .. (BaseLvl(c) + 1) : F[i] \in Range(F)
      BY <1>1 DEF FramesOf, Range
    <3> HIDE DEF F
    <3>2. F \in Seq(Range(F))
      BY <1>1, <3>1 DEF F
    <3> QED
      BY <1>1, <3>2 DEF F
  <2> HIDE DEF F, n
  <2>2. SubSeq(F, 1, n) \in Seq(Range(F)) /\ DOMAIN SubSeq(F, 1, n) = 1 .. n /\ \A i \in 1 .. n : SubSeq(F, 1, n)[i] = F[i]
    BY <2>1, PrefixFacts
  <2>3. SubSeq(F, 1, n) = [i \in DOMAIN SubSeq(F, 1, n) |-> SubSeq(F, 1, n)[i]]
    BY <2>2
  <2> QED
    BY <2>2, <2>3 DEF F, n
<1>6. DOMAIN FramesOf(d) = 1 .. (lvl + 1)
  BY <1>2, FramesLen
<1> HIDE DEF G
<1>7. G = FramesOf(d)
  BY <1>2, <1>4, <1>5, <1>6, EqualFrames
<1> QED
  BY <1>7 DEF G

LEMMA PopSolver ==
    ASSUME IInv, NEW n \in 1 .. BaseLvl(ctx), Pop(n)
    PROVE  Solver!Next
<1> DEFINE p == PopToBase(ctx)
           lvl == BaseLvl(ctx) - n
           d == PopTo(p, lvl)
<1>1. Call /\ ctx' = d /\ answer' = "none" /\ core' = {} /\ asked' = asked
  BY DEF Pop, Forget
<1>2. CtxInv(ctx) /\ CtxInv(p) /\ ScopeLvl(p) = BaseLvl(p) /\ SameFrames(ctx, p)
  BY <1>1, CallFacts, PopToBaseKeeps
<1> HIDE DEF p
<1>3. BaseLvl(ctx) \in Nat /\ BaseLvl(p) = BaseLvl(ctx)
  BY <1>2, TypeParts DEF SameFrames
<1>4. lvl \in 0 .. ScopeLvl(p) /\ lvl \in 0 .. BaseLvl(p)
  BY <1>2, <1>3
<1>5. FramesOf(d) = SubSeq(FramesOf(p), 1, lvl + 1)
  <2> HIDE DEF lvl
  <2>1. Popped(p, d, lvl)
    BY <1>2, <1>4, PopToKeeps
  <2> HIDE DEF d
  <2> QED
    BY <1>2, <1>4, <2>1, PopFrames
<1> HIDE DEF d
<1>6. FramesOf(p) = Frames /\ Frames' = FramesOf(d)
  BY <1>1, <1>2, FramesAre, FramesKept
<1>7. Len(Frames) = BaseLvl(ctx) + 1
  BY <1>2, FramesAre, FramesLen
<1>8. lvl + 1 = Len(Frames) - n /\ n \in 1 .. (Len(Frames) - 1)
  BY <1>3, <1>7
<1>9. Frames' = SubSeq(Frames, 1, Len(Frames) - n)
  BY <1>5, <1>6, <1>8
<1>10. Solver!Pop(n)
  BY <1>1, <1>9 DEF Solver!Pop, Solver!Forget
<1> QED
  BY <1>8, <1>10 DEF Solver!Next

LEMMA PushFrames ==
    ASSUME NEW c, CtxInv(c), NEW d, CtxInv(d), d.formulas = c.formulas, BaseLvl(d) = BaseLvl(c) + 1,
           \A k \in 0 .. BaseLvl(c) : FormulasLimAt(d, k) = FormulasLimAt(c, k)
    PROVE  FramesOf(d) = Append(FramesOf(c), {})
<1> DEFINE n == BaseLvl(c) + 1
           F == FramesOf(c)
           G == Append(F, {})
<1>1. DOMAIN F = 1 .. n /\ Len(F) = n /\ BaseLvl(c) \in Nat
  BY FramesLen
<1>2. DOMAIN FramesOf(d) = 1 .. (n + 1)
  BY FramesLen
<1>3. \A i \in 1 .. n : FramesOf(d)[i] = F[i]
  <2>1. \A i \in 1 .. n : i - 1 \in 0 .. BaseLvl(c) /\ (i # 1 => i - 2 \in 0 .. BaseLvl(c))
    BY <1>1
  <2>2. \A i \in 1 .. n : FrameStart(d, i) = FrameStart(c, i) /\ FormulasLimAt(d, i - 1) = FormulasLimAt(c, i - 1)
    BY <2>1 DEF FrameStart
  <2>3. \A i \in 1 .. n : i \in 1 .. (BaseLvl(d) + 1)
    BY <1>1
  <2> QED
    BY <2>2, <2>3 DEF FramesOf
<1>4. FramesOf(d)[n + 1] = {}
  <2>1. n + 1 \in 1 .. (BaseLvl(d) + 1) /\ n + 1 - 1 = BaseLvl(d) /\ n + 1 - 2 = BaseLvl(c) /\ n + 1 # 1
        /\ BaseLvl(c) \in 0 .. BaseLvl(c)
    BY <1>1
  <2>2. FrameStart(d, n + 1) = FormulasLimAt(d, BaseLvl(c))
    BY <2>1 DEF FrameStart
  <2>3. FormulasLimAt(d, BaseLvl(c)) = Len(c.formulas)
    BY <1>1, <2>1 DEF FormulasLimAt
  <2>4. FormulasLimAt(d, BaseLvl(d)) = Len(c.formulas) /\ Len(c.formulas) \in Nat
    BY <1>1, TypeParts DEF FormulasLimAt
  <2> DEFINE a == Len(c.formulas)
  <2>5. FramesOf(d)[n + 1] = {d.formulas[j] : j \in (a + 1) .. a}
    BY <2>1, <2>2, <2>3, <2>4, FrameLimits
  <2>6. (a + 1) .. a = {}
    BY <2>4
  <2> HIDE DEF a
  <2> QED
    BY <2>5, <2>6
<1>5. /\ DOMAIN G = 1 .. (n + 1) /\ G = [i \in DOMAIN G |-> G[i]]
      /\ \A i \in 1 .. n : G[i] = F[i]
      /\ G[n + 1] = {}
  <2> DEFINE S == Range(F) \cup {{}}
             e == {}
  <2>1. F \in Seq(S) /\ e \in S
    <3>1. F = [i \in 1 .. n |-> F[i]] /\ \A i \in 1 .. n : F[i] \in Range(F)
      BY <1>1 DEF FramesOf, Range
    <3>2. n \in Nat
      BY <1>1
    <3> HIDE DEF F, n
    <3> QED
      BY <3>1, <3>2
  <2> HIDE DEF F, S, e
  <2>2. /\ Append(F, e) \in Seq(S) /\ DOMAIN Append(F, e) = 1 .. (Len(F) + 1)
        /\ Append(F, e)[Len(F) + 1] = e /\ \A i \in 1 .. Len(F) : Append(F, e)[i] = F[i]
    BY <2>1, AppendFacts
  <2>3. Append(F, e) = [i \in DOMAIN Append(F, e) |-> Append(F, e)[i]]
    BY <2>2, SeqFunction
  <2> QED
    BY <1>1, <2>2, <2>3 DEF e
<1>6. \A i \in 1 .. (n + 1) : G[i] = FramesOf(d)[i]
  <2>1. \A i \in 1 .. (n + 1) : i \in 1 .. n \/ i = n + 1
    BY <1>1
  <2> HIDE DEF G, F, n
  <2> QED
    BY <1>3, <1>4, <1>5, <2>1
<1> HIDE DEF G, n, F
<1>7. DOMAIN G = DOMAIN FramesOf(d) /\ \A i \in DOMAIN G : G[i] = FramesOf(d)[i]
  BY <1>2, <1>5, <1>6
<1>8. G = FramesOf(d)
  BY <1>5, <1>7, EqualFrames
<1> QED
  BY <1>8 DEF G, F

LEMMA EndPushSolver ==
    ASSUME IInv, EndPush
    PROVE  Solver!Next
<1> DEFINE d == UserPush(ctx)
<1>1. Propagated /\ stage = "push" /\ ctx' = d /\ answer' = "none" /\ core' = {} /\ asked' = asked
  BY DEF EndPush, UserPush, Forget
<1>2. pc = "propagate" /\ (Inconsistent(ctx) \/ canceled \/ ctx.qhead = Len(ctx.trail))
  BY <1>1 DEF Propagated
<1>3. ~canceled
  BY <1>1 DEF IInv, ControlOK
<1>4. CtxInv(ctx) /\ ScopeLvl(ctx) = BaseLvl(ctx) /\ ctx.fqhead = Len(ctx.formulas)
  BY <1>1, <1>2, <1>3 DEF IInv, ControlOK, Searching
<1>5. /\ CtxInv(d) /\ d.formulas = ctx.formulas /\ BaseLvl(d) = BaseLvl(ctx) + 1
      /\ \A k \in 0 .. BaseLvl(ctx) : FormulasLimAt(d, k) = FormulasLimAt(ctx, k)
  BY <1>2, <1>3, <1>4, UserPushKeeps
<1> HIDE DEF d
<1>6. FramesOf(d) = Append(FramesOf(ctx), {})
  BY <1>4, <1>5, PushFrames
<1>7. Frames' = Append(Frames, {})
  BY <1>1, <1>6, FramesAre
<1>8. Solver!Push
  BY <1>1, <1>7 DEF Solver!Push, Solver!Forget
<1> QED
  BY <1>8 DEF Solver!Next

-----------------------------------------------------------------------------
(* The answers.  A conflict of the base level leaves no model.             *)
LEMMA NoModels ==
    ASSUME NEW c, CtxInv(c), Inconsistent(c), Implied(c.conflict, ModelsAt(c, BaseLvl(c))),
           ConflictLevel(c.trail, c.conflict) <= BaseLvl(c), NEW m \in ModelsAt(c, BaseLvl(c))
    PROVE  FALSE
<1>1. /\ c.trail \in Trails /\ c.conflict \in SUBSET Literals
      /\ \A l \in c.conflict : False(c.trail, l)
  BY DEF CtxInv, TrailOK, ConflictOK
<1>2. BaseLvl(c) \in Nat
  BY TypeParts
<1>3. BaseImplied(c.trail, BaseLvl(c), ModelsAt(c, BaseLvl(c)))
  <2>1. BaseLvl(c) \in 0 .. BaseLvl(c)
    BY <1>2
  <2> QED
    BY <2>1 DEF CtxInv, SoundOK
<1>4. PICK l \in c.conflict : l \in m
  BY DEF Implied
<1>5. m \in Valuations
  BY DEF ModelsAt
<1>6. True(c.trail, -l) /\ l \in Literals
  BY <1>1, <1>4 DEF False
<1>7. PICK i \in 1 .. Len(c.trail) : c.trail[i].lit = -l /\ Level(c.trail, -l) = c.trail[i].lvl
  BY <1>1, <1>6, TrueFacts
<1>8. /\ ConflictLevel(c.trail, c.conflict) \in Nat
      /\ Level(c.trail, -l) <= ConflictLevel(c.trail, c.conflict)
  BY <1>1, <1>4, ConflictLevelFacts
<1>9. i \in DOMAIN c.trail
  BY <1>7, TypeParts
<1>10. c.trail[i].lvl \in Nat
  BY <1>1, <1>9, EntryFacts
<1>11. c.trail[i].lvl <= BaseLvl(c)
  BY <1>2, <1>7, <1>8, <1>10
<1>12. -l \in m
  BY <1>3, <1>7, <1>9, <1>11 DEF BaseImplied
<1> QED
  BY <1>4, <1>5, <1>6, <1>12, ValuationFacts

LEMMA BeginInconsistentSolver ==
    ASSUME IInv, BeginInconsistent
    PROVE  Solver!Next
<1> DEFINE none == {}
<1>1. pc = "begin" /\ Inconsistent(ctx) /\ Return("unsat", none, ctx)
  BY DEF BeginInconsistent
<1>2. CtxInv(ctx) /\ answer = "none" /\ ScopeLvl(ctx) = BaseLvl(ctx)
  BY <1>1 DEF IInv, ControlOK
<1>3. BaseLvl(ctx) \in Nat
  BY <1>2, TypeParts
<1>4. Implied(ctx.conflict, ModelsAt(ctx, BaseLvl(ctx)))
  BY <1>1, <1>2, <1>3 DEF CtxInv, ConflictOK
<1>5. ConflictLevel(ctx.trail, ctx.conflict) <= BaseLvl(ctx)
  BY <1>1, <1>2, ConflictLevelOpen
<1>6. \A m \in ModelsAt(ctx, BaseLvl(ctx)) : ~(none \subseteq m)
  BY <1>1, <1>2, <1>4, <1>5, NoModels
<1>7. none \subseteq asked
  OBVIOUS
<1>8. SameFrames(ctx, ctx)
  BY SameFramesSelf
<1> HIDE DEF none
<1> QED
  BY <1>1, <1>2, <1>6, <1>7, <1>8, SolverUnsat

(* The conflict at which resolve_conflict fails, and its unsat core.       *)
LEMMA ResolveUnsatSolver ==
    ASSUME IInv, ResolveUnsat
    PROVE  Solver!Next
<1> DEFINE K == UnsatCore(ctx.trail, ctx.search, ctx.conflict, ctx.assumptions)
           p == PopToBase(ctx)
           d == [p EXCEPT !.search = BaseLvl(ctx), !.assumptions = {}]
           M == ModelsAt(ctx, BaseLvl(ctx))
           none == {}
<1>1. pc = "resolve" /\ AtSearchLevel(ctx)
  BY DEF ResolveUnsat
<1>2. /\ CtxInv(ctx) /\ WatchesOK(ctx, {}) /\ Inconsistent(ctx) /\ stage # "push" /\ pc # "idle"
      /\ Started(ctx, asked) \/ (ctx.assumptions = {} /\ ScopeLvl(ctx) = BaseLvl(ctx))
  BY <1>1, SearchingFacts
<1>3. answer = "none"
  BY <1>2, AnswerNone
<1>4. /\ ctx.trail \in Trails /\ ctx.conflict \in SUBSET Literals
      /\ \A l \in ctx.conflict : False(ctx.trail, l)
      /\ \/ Implied(ctx.conflict, M)
         \/ ScopeLvl(ctx) > BaseLvl(ctx) /\ \E l \in ctx.assumptions : ctx.conflict = {l}
  BY <1>2 DEF CtxInv, TrailOK, ConflictOK
<1>5. /\ BaseLvl(ctx) \in Nat /\ ctx.search \in BaseLvl(ctx) .. (BaseLvl(ctx) + 1)
      /\ ctx.search \in Nat /\ ScopeLvl(ctx) \in Nat
  BY <1>2, TypeParts
<1>6. ctx.assumptions \subseteq asked
  BY <1>2 DEF Started
<1>7. ConflictLevel(ctx.trail, ctx.conflict) <= ctx.search
  BY <1>1 DEF AtSearchLevel
<1>8. CASE ctx.search > BaseLvl(ctx) /\ Return("unsat", K, d)
  <2>1. CtxInv(p) /\ SameFrames(ctx, p)
    BY <1>2, PopToBaseKeeps
  <2> HIDE DEF p
  <2>2. d.formulas = p.formulas /\ d.scopes = p.scopes /\ d.base = p.base
    BY <2>1 DEF CtxInv, ContextType
  <2> HIDE DEF d
  <2>3. SameFrames(ctx, d)
    BY <2>1, <2>2, SameFramesScopes, SameFramesTrans
  <2>4. K \subseteq ctx.assumptions /\ \A m \in M : ~(K \subseteq m)
    <3>1. ctx \in ContextType /\ ScopesOK(ctx) /\ BaseLvl(ctx) \in 0 .. BaseLvl(ctx)
      BY <1>2, <1>5 DEF CtxInv
    <3>2. M \in SUBSET Valuations /\ ctx.assumptions \in SUBSET Literals
      BY <3>1, ModelsShrink, Types
    <3>3. /\ BaseImplied(ctx.trail, BaseLvl(ctx), M) /\ WhyImplies(ctx.trail, M)
          /\ UnitsImplied(ctx.trail, ctx.search, ctx.assumptions, M)
      BY <1>2, <3>1 DEF CtxInv, SoundOK, JustifiedOK
    <3>4. Implied(ctx.conflict, M) \/ \E l \in ctx.assumptions : ctx.conflict = {l}
      BY <1>4
    <3>5. ctx.search <= BaseLvl(ctx) + 1
      BY <1>5
    <3> HIDE DEF M
    <3> QED
      BY <1>4, <1>5, <1>7, <3>2, <3>3, <3>4, <3>5, UnsatCoreFacts
  <2>5. K \subseteq asked
    BY <1>6, <2>4
  <2> HIDE DEF K
  <2> QED
    BY <1>2, <1>3, <1>8, <2>3, <2>4, <2>5, SolverUnsat
<1>9. CASE ~(ctx.search > BaseLvl(ctx)) /\ Return("unsat", none, ctx)
  <2>1. ctx.search = BaseLvl(ctx)
    BY <1>5, <1>9
  <2>2. Implied(ctx.conflict, M)
    <3> SUFFICES ASSUME ScopeLvl(ctx) > BaseLvl(ctx), NEW l \in ctx.assumptions, ctx.conflict = {l}
                 PROVE  FALSE
      BY <1>4
    <3>1. \A a \in asked : \E i \in DOMAIN ctx.trail : ctx.trail[i].lit = a /\ ctx.trail[i].lvl <= ctx.search
      BY <1>2, <1>5, <2>1 DEF Started
    <3>2. True(ctx.trail, l) /\ False(ctx.trail, l)
      BY <1>4, <1>6, <3>1 DEF True
    <3> QED
      BY <1>4, <3>2, TrueFacts
  <2>3. \A m \in M : ~(none \subseteq m)
    BY <1>2, <1>7, <2>1, <2>2, NoModels
  <2>4. none \subseteq asked /\ SameFrames(ctx, ctx)
    BY SameFramesSelf
  <2> HIDE DEF none
  <2> QED
    BY <1>2, <1>3, <1>9, <2>3, <2>4, SolverUnsat
<1> QED
  BY <1>8, <1>9 DEF ResolveUnsat

(* The answers without a result.                                           *)
LEMMA UnknownSolver ==
    ASSUME IInv, LearnedCanceled \/ DecideCanceled
    PROVE  Solver!Next
<1>1. Return("unknown", {}, ctx) /\ pc \in {"learned", "decide"}
  BY DEF LearnedCanceled, DecideCanceled
<1>2. stage # "push" /\ pc # "idle"
  BY <1>1, SearchingFacts
<1>3. answer = "none" /\ CtxInv(ctx) /\ SameFrames(ctx, ctx)
  BY <1>2, AnswerNone, SameFramesSelf
<1> QED
  BY <1>1, <1>3, SolverUnknown

LEMMA EndSearchSolver ==
    ASSUME IInv, EndSearch
    PROVE  Solver!Next \/ Silent
<1>1. Propagated /\ stage = "search" /\ pc = "propagate"
  BY DEF EndSearch, Propagated
<1>2. answer = "none" /\ CtxInv(ctx)
  BY <1>1, AnswerNone
<1>3. CASE Return("unknown", {}, Requeued(ctx))
  <2> DEFINE q == Requeued(ctx)
  <2>1. SameFrames(ctx, q)
    BY <1>1, RequeuedFrames
  <2> HIDE DEF q
  <2>2. Return("unknown", {}, q)
    BY <1>3 DEF q
  <2> QED
    BY <1>2, <2>1, <2>2, SolverUnknown
<1>4. CASE Go("resolve", ctx) \/ Go("decide", ctx)
  <2>1. ctx' = ctx /\ UNCHANGED <<asked, answer, core>>
    BY <1>4 DEF Go
  <2> QED
    BY <2>1, SameFramesSelf DEF Silent
<1> QED
  BY <1>3, <1>4 DEF EndSearch

(* When every atom is assigned and nothing is left to propagate, the       *)
(* trail makes every clause true.                                          *)
LEMMA AuxTrue ==
    ASSUME NEW c, CtxInv(c), WatchesOK(c, {}), ~Inconsistent(c), c.qhead = Len(c.trail),
           c.fqhead = Len(c.formulas), \A v \in Atoms(c) : Assigned(c.trail, v),
           NEW i \in 1 .. Len(c.aux)
    PROVE  TrueClause(c, c.aux[i])
<1> SUFFICES ASSUME ~TrueClause(c, c.aux[i])
             PROVE  FALSE
  OBVIOUS
<1> DEFINE r == <<"aux", i>>
<1>1. r \in ClauseRefs(c) /\ Clause(c, r) = c.aux[i]
  <2>1. i \in DOMAIN c.aux
    BY Types DEF CtxInv
  <2> QED
    BY <2>1 DEF ClauseRefs, Clause
<1> HIDE DEF r
<1>2. PICK l \in c.aux[i].lits : ~False(c.trail, l)
  <2>1. \E k, l \in Clause(c, r).lits : k # l /\ ~False(c.trail, k) /\ ~False(c.trail, l)
    BY <1>1, BcpFacts
  <2> QED
    BY <1>1, <2>1
<1>3. /\ c \in ContextType /\ BaseLvl(c) \in Nat /\ Len(c.formulas) \in Nat
      /\ AuxLimAt(c, BaseLvl(c)) = Len(c.aux) /\ FormulasLimAt(c, BaseLvl(c)) = Len(c.formulas)
      /\ BaseLvl(c) \in 0 .. BaseLvl(c)
  BY Types DEF CtxInv, AuxLimAt, FormulasLimAt
<1>4. PICK j \in 1 .. Len(c.formulas) : c.aux[i].lits \subseteq c.formulas[j]
  BY <1>3 DEF CtxInv, ClausesOK
<1>5. l \in c.formulas[j] /\ j \in 1 .. c.fqhead
  BY <1>2, <1>4
<1>6. Var(l) \in Atoms(c)
  BY <1>5 DEF Atoms
<1>7. l \in Literals
  BY <1>3, <1>4, <1>5, Types
<1>8. True(c.trail, l) \/ False(c.trail, l)
  <2>1. True(c.trail, Var(l)) \/ True(c.trail, -Var(l))
    BY <1>6 DEF Assigned, False
  <2>2. (l = Var(l) \/ l = -Var(l)) /\ -(-Var(l)) = Var(l)
    BY <1>7, VarFacts
  <2> QED
    BY <2>1, <2>2 DEF False
<1> QED
  BY <1>2, <1>8 DEF TrueClause

LEMMA FinalModel ==
    ASSUME NEW c, CtxInv(c), WatchesOK(c, {}), ~Inconsistent(c), c.qhead = Len(c.trail),
           c.fqhead = Len(c.formulas), \A v \in Atoms(c) : Assigned(c.trail, v)
    PROVE  \E m \in ModelsAt(c, BaseLvl(c)) : \A i \in DOMAIN c.trail : c.trail[i].lit \in m
<1> DEFINE S == {c.trail[i].lit : i \in DOMAIN c.trail}
           b == BaseLvl(c)
<1>1. c.trail \in Trails /\ c \in ContextType
  BY DEF CtxInv, TrailOK
<1>2. /\ b \in Nat /\ Len(c.formulas) \in Nat
      /\ AuxLimAt(c, b) = Len(c.aux) /\ FormulasLimAt(c, b) = Len(c.formulas)
      /\ InternalizedAt(c, b) = Len(c.formulas)
  BY <1>1, Types DEF AuxLimAt, FormulasLimAt, InternalizedAt
<1>3. S \in SUBSET Literals
  BY <1>1, EntryFacts
<1>4. \A l \in S : -l \notin S
  <2> SUFFICES ASSUME NEW l \in S, -l \in S PROVE FALSE
    OBVIOUS
  <2>1. True(c.trail, l) /\ True(c.trail, -l)
    BY DEF True
  <2> QED
    BY <1>1, <2>1, TrueFacts
<1>5. PICK m \in Valuations : S \subseteq m
  <2> HIDE DEF S
  <2> QED
    BY <1>3, <1>4, ValuationExists
<1>6. HoldsAt(c, b, m)
  <2>1. \A i \in 1 .. Len(c.aux) : c.aux[i].lits \cap m # {}
    <3> SUFFICES ASSUME NEW i \in 1 .. Len(c.aux) PROVE c.aux[i].lits \cap m # {}
      OBVIOUS
    <3>1. TrueClause(c, c.aux[i])
      BY AuxTrue
    <3>2. PICK l \in c.aux[i].lits : True(c.trail, l)
      BY <3>1 DEF TrueClause
    <3>3. l \in S
      BY <3>2 DEF True
    <3> QED
      BY <1>5, <3>2, <3>3
  <2> QED
    BY <1>2, <1>5, <2>1 DEF HoldsAt
<1>7. ~Dirty(c, b)
  BY <1>2 DEF Dirty
<1>8. \A i \in 1 .. Len(c.formulas) : c.formulas[i] \cap m # {}
  <2>1. b \in 0 .. BaseLvl(c)
    BY <1>2
  <2> HIDE DEF b
  <2> QED
    BY <1>2, <1>5, <1>6, <1>7, <2>1 DEF CtxInv, RepresentedOK
<1>9. m \in ModelsAt(c, b)
  BY <1>2, <1>5, <1>8 DEF ModelsAt
<1> QED
  BY <1>5, <1>9

LEMMA FinalCheckSolver ==
    ASSUME IInv, FinalCheck
    PROVE  Solver!Next
<1>1. pc = "decide" /\ ~canceled /\ Undecided = {} /\ Return("sat", {}, ctx)
  BY DEF FinalCheck
<1>2. /\ CtxInv(ctx) /\ WatchesOK(ctx, {}) /\ ~Inconsistent(ctx) /\ ctx.qhead = Len(ctx.trail)
      /\ ctx.fqhead = Len(ctx.formulas) /\ Started(ctx, asked) /\ stage # "push" /\ pc # "idle"
  BY <1>1, SearchingFacts
<1>3. answer = "none" /\ SameFrames(ctx, ctx)
  BY <1>2, AnswerNone, SameFramesSelf
<1>4. \A v \in Atoms(ctx) : Assigned(ctx.trail, v)
  BY <1>1 DEF Undecided
<1>5. PICK m \in ModelsAt(ctx, BaseLvl(ctx)) : \A i \in DOMAIN ctx.trail : ctx.trail[i].lit \in m
  BY <1>2, <1>4, FinalModel
<1>6. asked \subseteq m
  <2>1. \A a \in asked : \E i \in DOMAIN ctx.trail : ctx.trail[i].lit = a
    BY <1>2 DEF Started
  <2> QED
    BY <1>5, <2>1
<1>7. \E n \in ModelsAt(ctx, BaseLvl(ctx)) : asked \subseteq n
  BY <1>5, <1>6
<1> QED
  BY <1>1, <1>2, <1>3, <1>7, SolverSat

-----------------------------------------------------------------------------
LEMMA SolverInitial == Init => Solver!Init
<1> SUFFICES ASSUME Init
             PROVE  Solver!Init
  OBVIOUS
<1>1. ctx = InitialContext /\ asked = {} /\ answer = "none" /\ core = {}
  BY DEF Init
<1>2. ctx.formulas = Background /\ BaseLvl(ctx) = 0
  BY <1>1 DEF InitialContext, BaseLvl
<1>3. CtxInv(ctx)
  BY <1>1, InitialKeeps
<1>4. FramesOf(ctx)[1] = Range(Background)
  <2>1. 1 \in 1 .. (BaseLvl(ctx) + 1) /\ 1 - 1 = 0
    BY <1>2
  <2>2. FrameStart(ctx, 1) = 0 /\ FormulasLimAt(ctx, 0) = Len(Background)
    BY <1>2 DEF FrameStart, FormulasLimAt
  <2>3. FramesOf(ctx)[1] = {Background[j] : j \in (0 + 1) .. Len(Background)}
    BY <1>2, <1>3, <2>1, <2>2, FrameLimits
  <2>4. DOMAIN Background = 1 .. Len(Background) /\ Len(Background) \in Nat
    BY SmtContextAssumption
  <2> QED
    BY <2>3, <2>4 DEF Range
<1>5. FramesOf(ctx) = [i \in 1 .. 1 |-> FramesOf(ctx)[i]]
  <2>1. BaseLvl(ctx) + 1 = 1
    BY <1>2
  <2> QED
    BY <2>1 DEF FramesOf
<1>6. Frames = <<Range(Background)>>
  <2> DEFINE F == FramesOf(ctx)
             B == Range(Background)
  <2>1. F = [i \in 1 .. 1 |-> F[i]] /\ F[1] = B /\ Frames = F
    BY <1>4, <1>5, FramesAre
  <2> HIDE DEF F, B
  <2>2. F = <<B>>
    BY <2>1
  <2> QED
    BY <2>1, <2>2 DEF B
<1> QED
  BY <1>1, <1>6 DEF Solver!Init

LEMMA SolverStep == IInv /\ [Next]_vars => [Solver!Next]_(Solver!vars)
<1> SUFFICES ASSUME IInv, [Next]_vars
             PROVE  Solver!Next \/ UNCHANGED Solver!vars
  OBVIOUS
<1>1. Silent => UNCHANGED Solver!vars
  BY SolverStutter DEF Silent, IInv
<1>2. ASSUME NEW f \in Formulas, AssertExpr(f)
      PROVE  Solver!Next
  BY <1>2, AssertExprSolver
<1>3. ASSUME NEW n \in 1 .. BaseLvl(ctx), Pop(n)
      PROVE  Solver!Next
  BY <1>3, PopSolver
<1>4. ASSUME NEW A \in AssumptionSets, Check(A)
      PROVE  Solver!Next
  BY <1>4, CheckSolver
<1>5. CASE Push \/ BeginInternalize \/ Continue \/ Cancel \/ UNCHANGED vars
  BY <1>1, <1>5, BeginSilent
<1>6. CASE BeginInconsistent
  BY <1>6, BeginInconsistentSolver
<1>7. CASE InternalizeNext
  BY <1>1, <1>7, InternalizeSilent
<1>8. CASE InternalizeDone \/ InternalizeDoneNoAssumptions
  BY <1>1, <1>8, InternalizedSilent
<1>9. CASE BcpNext \/ \E r \in visit : BcpVisit(r)
  BY <1>1, <1>9, BcpSilent
<1>10. CASE EndPush
  BY <1>10, EndPushSolver
<1>11. CASE EndAssume
  BY <1>1, <1>11, EndAssumeSilent
<1>12. CASE EndSearch
  BY <1>1, <1>12, EndSearchSolver
<1>13. CASE ResolveUnsat
  BY <1>13, ResolveUnsatSolver
<1>14. CASE ResolveLearn
  BY <1>1, <1>14, ResolveLearnSilent
<1>15. CASE LearnedCanceled \/ DecideCanceled
  BY <1>15, UnknownSolver
<1>16. CASE Restart \/ Simplify
  BY <1>1, <1>16, RestartSilent
<1>17. ASSUME NEW D, DelInactiveLemmas(D)
       PROVE  UNCHANGED Solver!vars
  BY <1>1, <1>17, DeleteSilent
<1>18. ASSUME NEW v \in Undecided, Decide(v)
       PROVE  UNCHANGED Solver!vars
  BY <1>1, <1>18, DecideSilent
<1>19. CASE FinalCheck
  BY <1>19, FinalCheckSolver
<1>20. ClientCall => Solver!Next \/ UNCHANGED Solver!vars
  BY <1>2, <1>3, <1>4, <1>5 DEF ClientCall
<1>21. Step => Solver!Next \/ UNCHANGED Solver!vars
  BY <1>5, <1>6, <1>7, <1>8, <1>9, <1>10, <1>11, <1>12, <1>13, <1>14, <1>15, <1>16, <1>17, <1>18, <1>19
  DEF Step
<1> QED
  BY <1>5, <1>20, <1>21 DEF Next, Idle

(***************************************************************************)
(* smt::context is an incremental solver: for any clauses, any assumptions *)
(* and any sequence of calls its answers and its unsat cores are right for *)
(* what the user scopes hold, whatever was learned, simplified, deleted,   *)
(* popped or cancelled before.                                             *)
(***************************************************************************)
THEOREM ContextRefines == Spec => Implements
<1>1. Init => IInv
  BY InitInv
<1>2. IInv /\ [Next]_vars => IInv'
  BY NextInv
<1>3. IInv /\ [Next]_vars => [Solver!Next]_(Solver!vars)
  BY SolverStep
<1> QED
  BY <1>1, <1>2, <1>3, SolverInitial, PTL DEF Spec, Implements, Solver!Spec
=============================================================================
