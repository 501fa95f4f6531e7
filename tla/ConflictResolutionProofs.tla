---------------------- MODULE ConflictResolutionProofs ----------------------
(***************************************************************************)
(* What conflict analysis guarantees of any trail: the lemma it derives    *)
(* follows from the clauses that justify the trail, also when it has been  *)
(* minimized, and the unsat core is enough for the conflict.               *)
(*                                                                         *)
(* The loops of the analysis are recursive functions on the positions of   *)
(* the trail.  That they are well defined, and what they compute, is       *)
(* shown with induction in the form of the least-element principle.        *)
(***************************************************************************)
EXTENDS ConflictResolution, FiniteSetTheorems, WellFoundedInduction, TLAPS

-----------------------------------------------------------------------------
(* Induction on positions.                                                 *)

(* A set of natural numbers with an element has a least one.               *)
LEMMA LeastNat ==
    ASSUME NEW S \in SUBSET Nat, S # {}
    PROVE  \E x \in S : \A y \in S : x <= y
<1>1. PICK x \in S : \A y \in S : ~(<<y, x>> \in OpToRel(<, Nat))
  BY NatLessThanWellFounded, WFMin, Zenon
<1>2. \A y \in S : x <= y
  <2> TAKE y \in S
  <2>1. <<y, x>> \notin OpToRel(<, Nat)
    BY <1>1
  <2>2. ~(y < x)
    BY <2>1 DEF OpToRel
  <2> QED
    BY <2>2
<1> QED
  BY <1>2

(* A bounded set of natural numbers with an element has a greatest one.    *)
LEMMA GreatestNat ==
    ASSUME NEW n \in Nat, NEW S \in SUBSET (0 .. n), S # {}
    PROVE  \E x \in S : \A y \in S : y <= x
<1> DEFINE R == {n - x : x \in S}
<1>1. R \in SUBSET Nat /\ R # {}
  <2>1. \A x \in S : n - x \in Nat
    OBVIOUS
  <2> QED
    BY <2>1, Zenon
<1>2. PICK r \in R : \A y \in R : r <= y
  <2> HIDE DEF R
  <2> QED
    BY <1>1, LeastNat
<1>3. PICK x \in S : r = n - x
  OBVIOUS
<1>4. \A y \in S : n - x <= n - y
  BY <1>2, <1>3
<1> QED
  BY <1>4

(* Max of such a set.                                                      *)
LEMMA MaxNat ==
    ASSUME NEW n \in Nat, NEW S \in SUBSET (0 .. n), S # {}
    PROVE  Max(S) \in S /\ \A y \in S : y <= Max(S)
<1>1. \E x \in S : \A y \in S : y <= x
  BY GreatestNat
<1>2. \E x \in S : \A y \in S : x >= y
  BY <1>1
<1>3. Max(S) \in S /\ \A y \in S : Max(S) >= y
  BY <1>2, Zenon DEF Max
<1> QED
  BY <1>3

LEMMA UpInduction ==
    ASSUME NEW n \in Nat, NEW P, 0 \in P,
           \A i \in 1 .. n : i - 1 \in P => i \in P
    PROVE  0 .. n \subseteq P
<1> DEFINE B == {i \in 0 .. n : i \notin P}
<1>1. ASSUME B # {}
      PROVE  FALSE
  <2>1. PICK i \in B : \A j \in B : i <= j
    <3>1. B \in SUBSET Nat
      OBVIOUS
    <3> HIDE DEF B
    <3> QED
      BY <1>1, <3>1, LeastNat
  <2>2. i # 0 /\ i \in 1 .. n /\ i - 1 \in 0 .. n /\ i - 1 \notin B
    BY <2>1
  <2> QED
    BY <2>1, <2>2
<1> QED
  BY <1>1

LEMMA DownInduction ==
    ASSUME NEW n \in Nat, NEW P, n + 1 \in P,
           \A i \in 1 .. n : i + 1 \in P => i \in P
    PROVE  1 .. (n + 1) \subseteq P
<1> DEFINE Q == {i \in 0 .. n : n + 1 - i \in P}
<1>1. 0 \in Q
  OBVIOUS
<1>2. \A i \in 1 .. n : i - 1 \in Q => i \in Q
  <2> TAKE i \in 1 .. n
  <2> HAVE i - 1 \in Q
  <2>1. n + 1 - i \in 1 .. n /\ (n + 1 - i) + 1 \in P
    OBVIOUS
  <2> QED
    BY <2>1
<1>3. 0 .. n \subseteq Q
  BY <1>1, <1>2, UpInduction
<1>4. ASSUME NEW i \in 1 .. (n + 1)
      PROVE  i \in P
  <2>1. n + 1 - i \in 0 .. n
    OBVIOUS
  <2>2. n + 1 - (n + 1 - i) \in P
    BY <2>1, <1>3
  <2> QED
    BY <2>2
<1> QED
  BY <1>4

(* A loop over the positions, upwards or downwards, that begins in s and   *)
(* whose step at position i is the function G[i], is a function of the     *)
(* positions.                                                              *)
UpLoop(n, S, s, G, f) ==
    /\ f \in [0 .. n -> S]
    /\ f[0] = s /\ \A i \in 1 .. n : f[i] = G[i][f[i - 1]]

DownLoop(n, S, s, G, f) ==
    /\ f \in [1 .. (n + 1) -> S]
    /\ f[n + 1] = s /\ \A i \in 1 .. n : f[i] = G[i][f[i + 1]]

LEMMA UpRecursion ==
    ASSUME NEW n \in Nat, NEW S, NEW s \in S, NEW G \in [1 .. n -> [S -> S]]
    PROVE  \E f : UpLoop(n, S, s, G, f)
<1> DEFINE P == {k \in 0 .. n : \E f \in [0 .. k -> S] :
                    f[0] = s /\ \A i \in 1 .. k : f[i] = G[i][f[i - 1]]}
<1>1. 0 \in P
  <2> SUFFICES \E f \in [0 .. 0 -> S] :
                  f[0] = s /\ \A i \in 1 .. 0 : f[i] = G[i][f[i - 1]]
    OBVIOUS
  <2> WITNESS [i \in 0 .. 0 |-> s] \in [0 .. 0 -> S]
  <2> QED
    OBVIOUS
<1>2. \A k \in 1 .. n : k - 1 \in P => k \in P
  <2> TAKE k \in 1 .. n
  <2> HAVE k - 1 \in P
  <2>1. PICK f \in [0 .. (k - 1) -> S] :
            f[0] = s /\ \A i \in 1 .. (k - 1) : f[i] = G[i][f[i - 1]]
    OBVIOUS
  <2> DEFINE g == [i \in 0 .. k |-> IF i = k THEN G[k][f[k - 1]] ELSE f[i]]
  <2>2. G[k][f[k - 1]] \in S
    BY f[k - 1] \in S
  <2>3. g \in [0 .. k -> S]
    BY <2>2
  <2>4. g[0] = s
    BY <2>1
  <2>5. \A i \in 1 .. k : g[i] = G[i][g[i - 1]]
    BY <2>1
  <2> HIDE DEF g
  <2> SUFFICES \E h \in [0 .. k -> S] :
                  h[0] = s /\ \A i \in 1 .. k : h[i] = G[i][h[i - 1]]
    <3>1. k \in 0 .. n
      OBVIOUS
    <3> QED
      BY <3>1, Zenon
  <2> WITNESS g \in [0 .. k -> S]
  <2> QED
    BY <2>4, <2>5
<1> HIDE DEF P
<1>3. 0 .. n \subseteq P
  BY <1>1, <1>2, UpInduction
<1>4. n \in P
  BY <1>3
<1> QED
  BY <1>4 DEF P, UpLoop

LEMMA DownRecursion ==
    ASSUME NEW n \in Nat, NEW S, NEW s \in S, NEW G \in [1 .. n -> [S -> S]]
    PROVE  \E f : DownLoop(n, S, s, G, f)
<1> DEFINE H == [i \in 1 .. n |-> G[n + 1 - i]]
<1>1. H \in [1 .. n -> [S -> S]]
  OBVIOUS
<1>2. PICK g : UpLoop(n, S, s, H, g)
  <2> HIDE DEF H
  <2> QED
    BY <1>1, UpRecursion
<1> USE DEF UpLoop
<1> DEFINE f == [i \in 1 .. (n + 1) |-> g[n + 1 - i]]
<1>3. f \in [1 .. (n + 1) -> S]
  BY <1>2
<1>4. f[n + 1] = s
  BY <1>2
<1>5. ASSUME NEW i \in 1 .. n
      PROVE  f[i] = G[i][f[i + 1]]
  <2>1. n + 1 - i \in 1 .. n /\ (n + 1 - i) - 1 = n + 1 - (i + 1) /\ n + 1 - (n + 1 - i) = i
    OBVIOUS
  <2>2. g[n + 1 - i] = H[n + 1 - i][g[(n + 1 - i) - 1]]
    BY <1>2, <2>1
  <2>3. H[n + 1 - i] = G[i]
    BY <2>1
  <2>4. f[i] = g[n + 1 - i] /\ f[i + 1] = g[n + 1 - (i + 1)]
    OBVIOUS
  <2> QED
    BY <2>1, <2>2, <2>3, <2>4
<1> HIDE DEF f
<1> QED
  BY <1>3, <1>4, <1>5 DEF DownLoop

-----------------------------------------------------------------------------
(* Literals and valuations.                                                *)
LEMMA LiteralFacts ==
    ASSUME NEW l \in Literals
    PROVE  l \in Int /\ l # 0 /\ -l \in Literals /\ -(-l) = l /\ -l # l
<1>1. CASE l \in Vars
  BY <1>1, VarsAssumption DEF Literals
<1>2. CASE l \in {-v : v \in Vars}
  <2>1. PICK v \in Vars : l = -v
    BY <1>2
  <2>2. v \in Nat \ {0}
    BY VarsAssumption
  <2>3. -l = v
    BY <2>1, <2>2
  <2> QED
    BY <2>1, <2>2, <2>3 DEF Literals
<1> QED
  BY <1>1, <1>2 DEF Literals

(* A valuation makes a literal or its complement true, and not both.       *)
LEMMA ValuationFacts ==
    ASSUME NEW m \in Valuations, NEW l \in Literals
    PROVE  l \in m <=> -l \notin m
<1>1. PICK f \in [Vars -> BOOLEAN] :
          m = {v \in Vars : f[v]} \cup {-v : v \in {w \in Vars : ~f[w]}}
  BY DEF Valuations
<1>2. \A v \in Vars : v \in Nat \ {0}
  BY VarsAssumption
<1>3. \A v \in Vars : v \in m <=> f[v]
  <2> TAKE v \in Vars
  <2>1. \A w \in Vars : v # -w
    BY <1>2
  <2> QED
    BY <1>1, <2>1
<1>4. \A v \in Vars : -v \in m <=> ~f[v]
  <2> TAKE v \in Vars
  <2>1. \A w \in Vars : w # -v
    BY <1>2
  <2>2. \A w \in Vars : -w = -v => w = v
    BY <1>2
  <2> QED
    BY <1>1, <2>1, <2>2
<1>5. CASE l \in Vars
  BY <1>3, <1>4, <1>5
<1>6. CASE l \in {-v : v \in Vars}
  <2>1. PICK v \in Vars : l = -v
    BY <1>6
  <2>2. -l = v
    BY <1>2, <2>1
  <2> QED
    BY <1>3, <1>4, <2>1, <2>2
<1> QED
  BY <1>5, <1>6 DEF Literals

(* A consistent set of literals is part of a valuation.                    *)
LEMMA ValuationExists ==
    ASSUME NEW S \in SUBSET Literals, \A l \in S : -l \notin S
    PROVE  \E m \in Valuations : S \subseteq m
<1> DEFINE f == [v \in Vars |-> v \in S]
<1> DEFINE m == {v \in Vars : f[v]} \cup {-v : v \in {w \in Vars : ~f[w]}}
<1>1. f \in [Vars -> BOOLEAN]
  OBVIOUS
<1>2. m \in Valuations
  <2> HIDE DEF f
  <2> QED
    BY <1>1 DEF Valuations
<1>3. S \subseteq m
  <2> SUFFICES ASSUME NEW l \in S
               PROVE  l \in m
    OBVIOUS
  <2>1. CASE l \in Vars
    BY <2>1
  <2>2. CASE l \notin Vars
    <3>1. PICK v \in Vars : l = -v
      BY <2>2 DEF Literals
    <3>2. -l = v
      BY <3>1, VarsAssumption
    <3>3. ~f[v]
      BY <3>2
    <3> QED
      BY <3>1, <3>3
  <2> QED
    BY <2>1, <2>2
<1> QED
  BY <1>2, <1>3

-----------------------------------------------------------------------------
(* The shape of a trail on which conflict analysis relies.                 *)

(* No variable is assigned twice.                                          *)
Consistent(T) ==
    \A i, j \in DOMAIN T : i # j => T[i].lit # T[j].lit /\ T[i].lit # -T[j].lit

(* The levels grow along the trail.                                        *)
Ordered(T) == \A i, j \in DOMAIN T : i <= j => T[i].lvl <= T[j].lvl

(* A literal comes after its antecedents ...                               *)
AntecedentsBefore(T) ==
    \A i \in DOMAIN T : \A a \in T[i].why : \E j \in 1 .. (i - 1) : T[j].lit = a

(* ... and, above the base level, is assigned at the level of one of them. *)
AntecedentOfLevel(T, base) ==
    \A i \in DOMAIN T : T[i].why # {} /\ T[i].lvl > base =>
        \E j \in 1 .. (i - 1) : T[j].lit \in T[i].why /\ T[j].lvl = T[i].lvl

(* Above the search level only decisions, which open a level, have no      *)
(* antecedents.                                                            *)
DecisionsFirst(T, search) ==
    \A i, j \in DOMAIN T :
        T[i].why = {} /\ T[i].lvl > search /\ T[j].lvl = T[i].lvl => i <= j

Trails == {T \in Seq(Entries) : Consistent(T) /\ Ordered(T) /\ AntecedentsBefore(T)}

(* The models M of the formulas make the literals of the base level true,  *)
(* every literal whose antecedents they make true, and what has no         *)
(* antecedents up to the search level, but for the assumptions A.          *)
BaseImplied(T, base, M) == \A i \in DOMAIN T : T[i].lvl <= base => \A m \in M : T[i].lit \in m

WhyImplies(T, M) ==
    \A i \in DOMAIN T : T[i].why # {} => \A m \in M : T[i].why \subseteq m => T[i].lit \in m

UnitsImplied(T, search, A, M) ==
    \A i \in DOMAIN T : T[i].why = {} /\ T[i].lvl <= search /\ T[i].lit \notin A =>
        \A m \in M : T[i].lit \in m

(* The models make one of the literals ls true.                            *)
Implied(ls, M) == \A m \in M : ls \cap m # {}

(* The position and the level of a true literal.                           *)
LEMMA EntryFacts ==
    ASSUME NEW T \in Trails, NEW i \in DOMAIN T
    PROVE  /\ i \in 1 .. Len(T) /\ Len(T) \in Nat
           /\ T[i] \in Entries
           /\ T[i].lit \in Literals /\ T[i].lvl \in Nat /\ T[i].why \in SUBSET Literals
           /\ Entry(T, T[i].lit) = i
           /\ Level(T, T[i].lit) = T[i].lvl
           /\ True(T, T[i].lit)
<1>1. T \in Seq(Entries) /\ Consistent(T)
  BY DEF Trails
<1>2. i \in 1 .. Len(T) /\ T[i] \in Entries /\ Len(T) \in Nat
  BY <1>1
<1>3. T[i].lit \in Literals /\ T[i].lvl \in Nat /\ T[i].why \in SUBSET Literals
  BY <1>2 DEF Entries, Clauses
<1>4. \A j \in DOMAIN T : T[j].lit = T[i].lit => j = i
  BY <1>1 DEF Consistent
<1>5. Entry(T, T[i].lit) = i
  BY <1>4 DEF Entry
<1> QED
  BY <1>2, <1>3, <1>5 DEF Level, True

(* A true literal has a position, and is not false.                        *)
LEMMA TrueFacts ==
    ASSUME NEW T \in Trails, NEW l, True(T, l)
    PROVE  /\ \E i \in 1 .. Len(T) : T[i].lit = l /\ Level(T, l) = T[i].lvl
           /\ l \in Literals /\ Level(T, l) \in Nat
           /\ ~False(T, l) /\ ~True(T, -l)
<1>1. PICK i \in DOMAIN T : T[i].lit = l
  BY DEF True
<1>2. i \in 1 .. Len(T) /\ l \in Literals /\ Level(T, l) = T[i].lvl /\ T[i].lvl \in Nat
  BY <1>1, EntryFacts
<1>3. ASSUME NEW j \in DOMAIN T, T[j].lit = -l
      PROVE  FALSE
  <2>1. Consistent(T)
    BY DEF Trails
  <2>2. j # i
    BY <1>1, <1>2, <1>3, LiteralFacts
  <2> QED
    BY <1>1, <1>3, <2>1, <2>2 DEF Consistent
<1> QED
  BY <1>1, <1>2, <1>3 DEF False, True

-----------------------------------------------------------------------------
(* resolve.                                                                *)
ResolveStates == [marked : SUBSET Literals, lemma : SUBSET Literals, uip : Int]

LEMMA ResolveStepType ==
    ASSUME NEW T, NEW base, NEW lvl, NEW e \in Entries, NEW st \in ResolveStates
    PROVE  ResolveStep(T, base, lvl, e, st) \in ResolveStates
<1>1. e.lit \in Literals /\ e.why \in SUBSET Literals
  BY DEF Entries, Clauses
<1>2. e.lit \in Int
  BY <1>1, LiteralFacts
<1>3. \A a \in e.why : -a \in Literals
  BY <1>1, LiteralFacts
<1> DEFINE new == {-a : a \in {b \in e.why : Level(T, b) \in (base + 1) .. (lvl - 1)}}
<1>4. new \in SUBSET Literals
  BY <1>3
<1> HIDE DEF new
<1>5. [st EXCEPT !.uip = e.lit] \in ResolveStates
  BY <1>2 DEF ResolveStates
<1>6. [st EXCEPT !.marked = (@ \ {e.lit}) \cup {a \in e.why : Level(T, a) = lvl},
                 !.lemma = @ \cup new] \in ResolveStates
  BY <1>1, <1>4 DEF ResolveStates
<1> QED
  BY <1>5, <1>6 DEF ResolveStep, new

(* The state of the loop of resolve when the entries from i on are done:   *)
(* the models satisfy the clause of the complements of the marked literals *)
(* and of the lemma; and what is marked lies before i, at the conflict's   *)
(* level.                                                                  *)
ResolveInv(T, base, lvl, M, i, st) ==
    /\ st \in ResolveStates
    /\ \A l \in st.lemma : \E j \in 1 .. Len(T) : T[j].lit = -l /\ T[j].lvl \in (base + 1) .. (lvl - 1)
    /\ st.marked # {}
    /\ \A a \in st.marked : \E j \in 1 .. Len(T) : T[j].lit = a /\ T[j].lvl = lvl
    /\ st.uip = 0 => \A a \in st.marked : \E j \in 1 .. (i - 1) : T[j].lit = a
    /\ st.uip # 0 => st.marked = {st.uip}
    /\ Implied({-a : a \in st.marked} \cup st.lemma, M)

LEMMA ResolveStepKeeps ==
    ASSUME NEW T \in Trails, NEW base \in Nat, NEW search \in Nat, NEW lvl \in Nat,
           base <= search, search < lvl,
           NEW M \in SUBSET Valuations,
           DecisionsFirst(T, search), BaseImplied(T, base, M), WhyImplies(T, M),
           NEW i \in 1 .. Len(T), NEW st, ResolveInv(T, base, lvl, M, i + 1, st)
    PROVE  ResolveInv(T, base, lvl, M, i, ResolveStep(T, base, lvl, T[i], st))
<1> DEFINE e == T[i]
           st1 == ResolveStep(T, base, lvl, e, st)
           new == {a \in e.why : Level(T, a) = lvl}
           low == {b \in e.why : Level(T, b) \in (base + 1) .. (lvl - 1)}
<1>0. /\ T \in Seq(Entries) /\ Len(T) \in Nat /\ DOMAIN T = 1 .. Len(T)
      /\ e \in Entries /\ e.lit \in Literals /\ e.lvl \in Nat /\ e.why \in SUBSET Literals
  <2>1. T \in Seq(Entries)
    BY DEF Trails
  <2>2. i \in DOMAIN T
    BY <2>1
  <2> QED
    BY <2>1, <2>2, EntryFacts
<1>1. /\ st \in ResolveStates
      /\ st.marked \in SUBSET Literals /\ st.lemma \in SUBSET Literals /\ st.uip \in Int
      /\ \A l \in st.lemma : \E j \in 1 .. Len(T) : T[j].lit = -l /\ T[j].lvl \in (base + 1) .. (lvl - 1)
      /\ st.marked # {}
      /\ \A a \in st.marked : \E j \in 1 .. Len(T) : T[j].lit = a /\ T[j].lvl = lvl
      /\ st.uip = 0 => \A a \in st.marked : \E j \in 1 .. i : T[j].lit = a
      /\ st.uip # 0 => st.marked = {st.uip}
      /\ Implied({-a : a \in st.marked} \cup st.lemma, M)
  <2>1. (i + 1) - 1 = i
    OBVIOUS
  <2> QED
    BY <2>1 DEF ResolveInv, ResolveStates
<1>2. \A j \in 1 .. i : T[j].lit # e.lit => j \in 1 .. (i - 1)
  BY <1>0
<1>3. CASE st.uip # 0 \/ e.lit \notin st.marked
  <2>1. st1 = st
    BY <1>3 DEF ResolveStep
  <2>2. st.uip = 0 => \A a \in st.marked : \E j \in 1 .. (i - 1) : T[j].lit = a
    BY <1>1, <1>2, <1>3
  <2> QED
    BY <1>1, <2>1, <2>2 DEF ResolveInv
<1>4. CASE st.uip = 0 /\ st.marked = {e.lit}
  <2>1. st1 = [st EXCEPT !.uip = e.lit]
    BY <1>4 DEF ResolveStep
  <2>2. e.lit # 0 /\ e.lit \in Int
    BY <1>0, LiteralFacts
  <2>3. st1 \in ResolveStates /\ st1.marked = {e.lit} /\ st1.lemma = st.lemma /\ st1.uip = e.lit
    BY <1>1, <1>4, <2>1, <2>2 DEF ResolveStates
  <2> HIDE DEF st1, e
  <2> QED
    BY <1>1, <1>4, <2>2, <2>3 DEF ResolveInv, st1, e
<1>5. CASE st.uip = 0 /\ e.lit \in st.marked /\ st.marked # {e.lit}
  <2> DEFINE down == {-a : a \in low}
  <2>1. st1 = [st EXCEPT !.marked = (@ \ {e.lit}) \cup new, !.lemma = @ \cup down]
    BY <1>5 DEF ResolveStep
  <2>2. /\ st1 \in ResolveStates
        /\ st1.marked = (st.marked \ {e.lit}) \cup new
        /\ st1.lemma = st.lemma \cup down
        /\ st1.uip = 0
    <3>1. st1 \in ResolveStates
      BY <1>0, <1>1, ResolveStepType
    <3> HIDE DEF new, down
    <3> QED
      BY <1>1, <1>5, <2>1, <3>1 DEF ResolveStates
  <2>3. e.lvl = lvl
    <3>1. PICK j \in 1 .. Len(T) : T[j].lit = e.lit /\ T[j].lvl = lvl
      BY <1>1, <1>5
    <3>2. j = i
      BY <1>0, <3>1 DEF Trails, Consistent
    <3> QED
      BY <3>1, <3>2
  <2>4. \A a \in e.why : \E j \in 1 .. (i - 1) : T[j].lit = a /\ T[j].lvl = Level(T, a) /\ T[j].lvl <= lvl
    <3> TAKE a \in e.why
    <3>1. PICK j \in 1 .. (i - 1) : T[j].lit = a
      BY <1>0 DEF Trails, AntecedentsBefore
    <3>2. j \in DOMAIN T /\ i \in DOMAIN T /\ j <= i
      BY <1>0
    <3>3. T[j].lvl <= e.lvl
      BY <3>2 DEF Trails, Ordered
    <3>4. Level(T, T[j].lit) = T[j].lvl
      BY <3>2, EntryFacts
    <3> QED
      BY <2>3, <3>1, <3>3, <3>4
  <2>5. st1.marked # {}
    BY <1>5, <2>2
  <2>6. \A a \in st1.marked : \E j \in 1 .. (i - 1) : T[j].lit = a
    BY <1>1, <1>2, <1>5, <2>2, <2>4
  <2>7. \A a \in st1.marked : \E j \in 1 .. Len(T) : T[j].lit = a /\ T[j].lvl = lvl
    <3>1. \A j \in 1 .. (i - 1) : j \in 1 .. Len(T)
      BY <1>0
    <3>2. \A a \in new : \E j \in 1 .. Len(T) : T[j].lit = a /\ T[j].lvl = lvl
      BY <2>4, <3>1
    <3> QED
      BY <1>1, <2>2, <3>2
  <2>8. \A l \in st1.lemma : \E j \in 1 .. Len(T) : T[j].lit = -l /\ T[j].lvl \in (base + 1) .. (lvl - 1)
    <3>1. \A j \in 1 .. (i - 1) : j \in 1 .. Len(T)
      BY <1>0
    <3>2. ASSUME NEW b \in low
          PROVE  \E j \in 1 .. Len(T) : T[j].lit = -(-b) /\ T[j].lvl \in (base + 1) .. (lvl - 1)
      <4>1. -(-b) = b
        BY <1>0, LiteralFacts
      <4> QED
        BY <2>4, <3>1, <4>1
    <3> QED
      BY <1>1, <2>2, <3>2
  <2>9. e.why # {}
    <3>1. PICK a \in st.marked : a # e.lit
      BY <1>5
    <3>2. PICK j \in 1 .. Len(T) : T[j].lit = a /\ T[j].lvl = lvl
      BY <1>1
    <3>3. PICK k \in 1 .. i : T[k].lit = a
      BY <1>1, <1>5
    <3>4. j = k
      BY <1>0, <3>2, <3>3 DEF Trails, Consistent
    <3>5. j # i
      BY <3>1, <3>2
    <3>6. j \in DOMAIN T /\ i \in DOMAIN T /\ ~(i <= j)
      BY <1>0, <3>4, <3>5
    <3> QED
      BY <2>3, <3>2, <3>6 DEF DecisionsFirst
  <2>10. ASSUME NEW m \in M
         PROVE  ({-a : a \in st1.marked} \cup st1.lemma) \cap m # {}
    <3>0. m \in Valuations
      OBVIOUS
    <3>1. PICK x \in {-a : a \in st.marked} \cup st.lemma : x \in m
      BY <1>1 DEF Implied
    <3>2. CASE x # -e.lit \/ x \in st.lemma
      BY <2>2, <3>1, <3>2
    <3>3. CASE x = -e.lit
      <4>1. e.lit \notin m
        BY <1>0, <3>0, <3>1, <3>3, ValuationFacts
      <4>2. i \in DOMAIN T
        BY <1>0
      <4>3. PICK a \in e.why : a \notin m
        BY <2>9, <4>1, <4>2 DEF WhyImplies
      <4>4. -a \in m
        BY <1>0, <3>0, <4>3, ValuationFacts
      <4>5. PICK j \in 1 .. (i - 1) : T[j].lit = a /\ T[j].lvl = Level(T, a) /\ T[j].lvl <= lvl
        BY <2>4
      <4>6. j \in DOMAIN T /\ T[j].lvl \in Nat
        BY <1>0, EntryFacts
      <4>7. ~(T[j].lvl <= base)
        BY <4>3, <4>5, <4>6 DEF BaseImplied
      <4>8. a \in new \/ a \in low
        BY <4>5, <4>6, <4>7
      <4>9. a \in st1.marked \/ -a \in st1.lemma
        BY <2>2, <4>8
      <4> QED
        BY <4>4, <4>9
    <3> QED
      BY <3>2, <3>3
  <2> HIDE DEF st1, e, new, low, down
  <2> QED
    BY <2>2, <2>5, <2>6, <2>7, <2>8, <2>10 DEF ResolveInv, Implied, st1, e
<1> QED
  BY <1>3, <1>4, <1>5

(* A conflict's level is that of one of its literals, and of none above.   *)
LEMMA ConflictLevelFacts ==
    ASSUME NEW T \in Trails, NEW conflict, \A l \in conflict : False(T, l)
    PROVE  /\ ConflictLevel(T, conflict) \in Nat
           /\ \A l \in conflict : Level(T, -l) <= ConflictLevel(T, conflict)
           /\ ConflictLevel(T, conflict) # 0 =>
                 \E l \in conflict : Level(T, -l) = ConflictLevel(T, conflict)
<1> DEFINE S == {0} \cup {Level(T, -l) : l \in conflict}
<1>0. T \in Seq(Entries) /\ Len(T) \in Nat /\ DOMAIN T = 1 .. Len(T)
  BY DEF Trails
<1>1. \A l \in conflict : \E i \in 1 .. Len(T) : Level(T, -l) = T[i].lvl
  BY TrueFacts DEF False
<1> DEFINE n == IF Len(T) = 0 THEN 0 ELSE T[Len(T)].lvl
<1>2. n \in Nat
  BY <1>0, EntryFacts
<1>3. \A i \in 1 .. Len(T) : T[i].lvl \in 0 .. n
  <2> TAKE i \in 1 .. Len(T)
  <2>1. i \in DOMAIN T /\ Len(T) \in DOMAIN T /\ i <= Len(T) /\ Len(T) # 0
    BY <1>0
  <2>2. T[i].lvl <= T[Len(T)].lvl
    BY <2>1 DEF Trails, Ordered
  <2>3. T[i].lvl \in Nat
    BY <2>1, EntryFacts
  <2> QED
    BY <1>2, <2>1, <2>2, <2>3
<1> HIDE DEF n
<1>4. S \in SUBSET (0 .. n) /\ S # {}
  BY <1>1, <1>2, <1>3
<1> HIDE DEF S
<1>5. Max(S) \in S /\ \A y \in S : y <= Max(S)
  BY <1>2, <1>4, MaxNat
<1>6. ConflictLevel(T, conflict) = Max(S)
  BY DEF ConflictLevel, S
<1>7. Max(S) \in Nat /\ Max(S) \in S
  <2>1. Max(S) \in 0 .. n
    BY <1>4, <1>5, Zenon
  <2> QED
    BY <1>2, <1>5, <2>1
<1>8. \A l \in conflict : Level(T, -l) \in S
  BY DEF S
<1>9. Max(S) = 0 \/ \E l \in conflict : Level(T, -l) = Max(S)
  BY <1>7 DEF S
<1> QED
  BY <1>5, <1>6, <1>7, <1>8, <1>9

(* The clause that resolve derives from a conflict above the search level  *)
(* has a first literal of the conflict's level, other literals of levels   *)
(* between the base level and that one, and holds in all models.           *)
LEMMA ResolveFacts ==
    ASSUME NEW T \in Trails, NEW base \in Nat, NEW search \in Nat, base <= search,
           NEW M \in SUBSET Valuations,
           DecisionsFirst(T, search), BaseImplied(T, base, M), WhyImplies(T, M),
           NEW conflict \in SUBSET Literals,
           \A l \in conflict : False(T, l),
           Implied(conflict, M),
           search < ConflictLevel(T, conflict)
    PROVE  LET st == Resolve(T, base, conflict)
               lvl == ConflictLevel(T, conflict)
           IN  /\ st.uip \in Literals /\ st.lemma \in SUBSET Literals
               /\ \E j \in 1 .. Len(T) : T[j].lit = st.uip /\ T[j].lvl = lvl
               /\ \A l \in st.lemma :
                     \E j \in 1 .. Len(T) : T[j].lit = -l /\ T[j].lvl \in (base + 1) .. (lvl - 1)
               /\ Implied({-st.uip} \cup st.lemma, M)
<1> DEFINE lvl == ConflictLevel(T, conflict)
           n == Len(T)
           start == [marked |-> {-l : l \in {k \in conflict : Level(T, -k) = lvl}},
                     lemma |-> {l \in conflict : Level(T, -l) \in (base + 1) .. (lvl - 1)},
                     uip |-> 0]
           IsFrom(f) == f = [i \in 1 .. (n + 1) |->
                               IF i > n THEN start ELSE ResolveStep(T, base, lvl, T[i], f[i + 1])]
<1>0. T \in Seq(Entries) /\ n \in Nat /\ DOMAIN T = 1 .. n
  BY DEF Trails
<1>1. /\ lvl \in Nat /\ search < lvl
      /\ \A l \in conflict : Level(T, -l) <= lvl
      /\ \E l \in conflict : Level(T, -l) = lvl
  BY ConflictLevelFacts
<1>2. \A l \in conflict : /\ -l \in Literals /\ -(-l) = l /\ Level(T, -l) \in Nat
                          /\ \E j \in 1 .. n : T[j].lit = -l /\ T[j].lvl = Level(T, -l)
  BY LiteralFacts, TrueFacts DEF False
<1>3. start \in ResolveStates
  BY <1>2 DEF ResolveStates
<1> HIDE DEF lvl
<1>4. \E f : IsFrom(f)
  <2> DEFINE G == [i \in 1 .. n |-> [st \in ResolveStates |-> ResolveStep(T, base, lvl, T[i], st)]]
  <2>1. \A i \in 1 .. n : \A st \in ResolveStates : ResolveStep(T, base, lvl, T[i], st) \in ResolveStates
    BY <1>0, ResolveStepType
  <2>2. G \in [1 .. n -> [ResolveStates -> ResolveStates]]
    BY <2>1
  <2> HIDE DEF start
  <2>3. PICK f : DownLoop(n, ResolveStates, start, G, f)
    <3> HIDE DEF G, n
    <3> QED
      BY <1>0, <1>3, <2>2, DownRecursion
  <2>4. \A i \in 1 .. n : f[i] = ResolveStep(T, base, lvl, T[i], f[i + 1])
    <3> TAKE i \in 1 .. n
    <3>1. f[i + 1] \in ResolveStates
      BY <1>0, <2>3 DEF DownLoop
    <3> QED
      BY <2>3, <3>1 DEF DownLoop
  <2>5. \A i \in 1 .. (n + 1) : f[i] = IF i > n THEN start ELSE ResolveStep(T, base, lvl, T[i], f[i + 1])
    BY <1>0, <2>3, <2>4 DEF DownLoop
  <2>6. IsFrom(f)
    BY <2>3, <2>5 DEF DownLoop
  <2> QED
    BY <2>6
<1> DEFINE from == CHOOSE f : IsFrom(f)
<1>5. IsFrom(from)
  <2> HIDE DEF IsFrom
  <2> QED
    BY <1>4, Zenon
<1>6. Resolve(T, base, conflict) = from[1]
  BY Zenon DEF Resolve, lvl
<1>7. from[n + 1] = start /\ \A i \in 1 .. n : from[i] = ResolveStep(T, base, lvl, T[i], from[i + 1])
  <2> HIDE DEF from, start
  <2>1. n + 1 \in 1 .. (n + 1) /\ n + 1 > n /\ \A i \in 1 .. n : i \in 1 .. (n + 1) /\ ~(i > n)
    BY <1>0
  <2> QED
    BY <1>5, <2>1
<1> HIDE DEF from
<1> DEFINE P == {i \in 1 .. (n + 1) : ResolveInv(T, base, lvl, M, i, from[i])}
<1>8. n + 1 \in P
  <2>1. /\ start.marked = {-l : l \in {k \in conflict : Level(T, -k) = lvl}}
        /\ start.lemma = {l \in conflict : Level(T, -l) \in (base + 1) .. (lvl - 1)}
        /\ start.uip = 0
    OBVIOUS
  <2>2. \A l \in start.lemma : \E j \in 1 .. n : T[j].lit = -l /\ T[j].lvl \in (base + 1) .. (lvl - 1)
    BY <1>2
  <2>3. start.marked # {}
    BY <1>1
  <2>4. \A a \in start.marked : \E j \in 1 .. n : T[j].lit = a /\ T[j].lvl = lvl
    BY <1>2
  <2>5. ASSUME NEW m \in M
        PROVE  ({-a : a \in start.marked} \cup start.lemma) \cap m # {}
    <3>1. PICK l \in conflict : l \in m
      BY DEF Implied
    <3>2. l \in Literals /\ -l \notin m
      BY <3>1, ValuationFacts
    <3>3. PICK j \in 1 .. n : T[j].lit = -l /\ T[j].lvl = Level(T, -l)
      BY <1>2
    <3>4. ~(Level(T, -l) <= base)
      BY <1>0, <3>2, <3>3 DEF BaseImplied
    <3>5. Level(T, -l) \in Nat /\ Level(T, -l) <= lvl /\ -(-l) = l
      BY <1>1, <1>2
    <3>6. CASE Level(T, -l) = lvl
      <4>1. -l \in start.marked
        BY <3>6
      <4> QED
        BY <3>1, <3>5, <4>1
    <3>7. CASE Level(T, -l) # lvl
      BY <1>1, <3>1, <3>4, <3>5, <3>7
    <3> QED
      BY <3>6, <3>7
  <2>6. (n + 1) - 1 = n /\ n + 1 \in 1 .. (n + 1)
    BY <1>0
  <2> HIDE DEF start
  <2>7. ResolveInv(T, base, lvl, M, n + 1, start)
    BY <1>3, <2>1, <2>2, <2>3, <2>4, <2>5, <2>6 DEF ResolveInv, Implied
  <2> QED
    BY <1>7, <2>6, <2>7
<1>9. \A i \in 1 .. n : i + 1 \in P => i \in P
  <2> TAKE i \in 1 .. n
  <2> HAVE i + 1 \in P
  <2>1. ResolveInv(T, base, lvl, M, i + 1, from[i + 1])
    OBVIOUS
  <2>2. ResolveInv(T, base, lvl, M, i, from[i])
    BY <1>1, <1>7, <2>1, ResolveStepKeeps
  <2> QED
    BY <1>0, <2>2
<1> HIDE DEF P
<1>10. 1 .. (n + 1) \subseteq P
  BY <1>0, <1>8, <1>9, DownInduction
<1> DEFINE st == from[1]
<1>11. ResolveInv(T, base, lvl, M, 1, st)
  BY <1>0, <1>10 DEF P
<1>12. st.uip # 0
  <2>1. ASSUME st.uip = 0
        PROVE  FALSE
    <3>1. PICK a \in st.marked : TRUE
      BY <1>11 DEF ResolveInv
    <3>2. \E j \in 1 .. (1 - 1) : T[j].lit = a
      BY <1>11, <2>1, <3>1 DEF ResolveInv
    <3> QED
      BY <3>2
  <2> QED
    BY <2>1
<1>13. st.marked = {st.uip} /\ st.marked \in SUBSET Literals /\ st.lemma \in SUBSET Literals
  BY <1>11, <1>12 DEF ResolveInv, ResolveStates
<1>14. {-a : a \in st.marked} = {-st.uip}
  BY <1>13
<1>15. \E j \in 1 .. n : T[j].lit = st.uip /\ T[j].lvl = lvl
  BY <1>11, <1>13 DEF ResolveInv
<1> QED
  BY <1>6, <1>11, <1>13, <1>14, <1>15 DEF ResolveInv, lvl

-----------------------------------------------------------------------------
(* minimize_lemma.                                                         *)

(* What implied_by_marked finds is marked, of the base level, or implied   *)
(* by what it found.                                                       *)
LEMMA ImpliedByMarkedFacts ==
    ASSUME NEW T \in Seq(Entries), NEW base, NEW marked, NEW lvls
    PROVE  LET implied == ImpliedByMarked(T, base, marked, lvls)
           IN  \A x \in implied : \E j \in DOMAIN T :
                  /\ T[j].lit = x
                  /\ \/ x \in marked
                     \/ T[j].lvl <= base
                     \/ T[j].why # {} /\ T[j].why \subseteq implied
<1> DEFINE n == Len(T)
           Found(e, S) == \/ e.lit \in marked
                          \/ e.lvl <= base
                          \/ e.why # {} /\ e.lvl \in lvls /\ e.why \subseteq S
           Add(i, S) == S \cup (IF Found(T[i], S) THEN {T[i].lit} ELSE {})
           IsUpto(f) == f = [i \in 0 .. n |-> IF i = 0 THEN {} ELSE Add(i, f[i - 1])]
           L == SUBSET Literals
<1>0. n \in Nat /\ DOMAIN T = 1 .. n /\ \A i \in 1 .. n : T[i].lit \in Literals
  <2>1. n \in Nat /\ DOMAIN T = 1 .. n /\ \A i \in 1 .. n : T[i] \in Entries
    OBVIOUS
  <2>2. \A e \in Entries : e.lit \in Literals
    BY DEF Entries
  <2> QED
    BY <2>1, <2>2
<1>1. \E f : IsUpto(f)
  <2> DEFINE G == [i \in 1 .. n |-> [S \in L |-> Add(i, S)]]
             none == {}
  <2>1. \A i \in 1 .. n : \A S \in L : Add(i, S) \in L
    BY <1>0
  <2>2. G \in [1 .. n -> [L -> L]] /\ none \in L
    <3> HIDE DEF Add, L
    <3>1. G \in [1 .. n -> [L -> L]]
      BY <2>1
    <3> QED
      BY <3>1 DEF L
  <2>3. PICK f : UpLoop(n, L, none, G, f)
    <3> HIDE DEF G, n, none, L
    <3> QED
      BY <1>0, <2>2, UpRecursion
  <2> HIDE DEF Add, L
  <2>4. \A i \in 1 .. n : f[i] = Add(i, f[i - 1])
    <3> TAKE i \in 1 .. n
    <3>1. f[i - 1] \in L
      BY <1>0, <2>3 DEF UpLoop
    <3> QED
      BY <2>3, <3>1 DEF UpLoop
  <2>5. \A i \in 0 .. n : f[i] = IF i = 0 THEN {} ELSE Add(i, f[i - 1])
    BY <1>0, <2>3, <2>4 DEF UpLoop
  <2>6. IsUpto(f)
    BY <2>3, <2>5 DEF UpLoop
  <2> QED
    BY <2>6
<1> DEFINE upto == CHOOSE f : IsUpto(f)
<1>2. IsUpto(upto)
  <2> HIDE DEF IsUpto
  <2> QED
    BY <1>1, Zenon
<1>3. ImpliedByMarked(T, base, marked, lvls) = upto[n]
  BY Zenon DEF ImpliedByMarked
<1>4. upto[0] = {} /\ \A i \in 1 .. n : upto[i] = Add(i, upto[i - 1])
  <2> HIDE DEF upto, Add
  <2>1. 0 \in 0 .. n /\ \A i \in 1 .. n : i \in 0 .. n /\ i # 0
    BY <1>0
  <2> QED
    BY <1>2, <2>1
<1> HIDE DEF upto
<1> DEFINE Good(S) == \A x \in S : \E j \in DOMAIN T :
                         /\ T[j].lit = x
                         /\ \/ x \in marked
                            \/ T[j].lvl <= base
                            \/ T[j].why # {} /\ T[j].why \subseteq S
           P == {i \in 0 .. n : Good(upto[i])}
<1>5. 0 \in P
  BY <1>0, <1>4
<1>6. \A i \in 1 .. n : i - 1 \in P => i \in P
  <2> TAKE i \in 1 .. n
  <2> HAVE i - 1 \in P
  <2>1. Good(upto[i - 1]) /\ upto[i] = Add(i, upto[i - 1]) /\ i \in DOMAIN T /\ i \in 0 .. n
    BY <1>0, <1>4
  <2>2. upto[i - 1] \subseteq upto[i]
    BY <2>1
  <2>3. ASSUME NEW x \in upto[i]
        PROVE  \E j \in DOMAIN T : /\ T[j].lit = x
                                   /\ \/ x \in marked
                                      \/ T[j].lvl <= base
                                      \/ T[j].why # {} /\ T[j].why \subseteq upto[i]
    <3>1. CASE x \in upto[i - 1]
      <4>1. PICK j \in DOMAIN T : /\ T[j].lit = x
                                  /\ \/ x \in marked
                                     \/ T[j].lvl <= base
                                     \/ T[j].why # {} /\ T[j].why \subseteq upto[i - 1]
        BY <2>1, <3>1
      <4> QED
        BY <2>2, <4>1
    <3>2. CASE x \notin upto[i - 1]
      <4>1. Found(T[i], upto[i - 1]) /\ x = T[i].lit
        BY <2>1, <3>2
      <4> QED
        BY <2>1, <2>2, <4>1
    <3> QED
      BY <3>1, <3>2
  <2>4. Good(upto[i])
    BY <2>3
  <2> QED
    BY <2>1, <2>4
<1> HIDE DEF P
<1>7. 0 .. n \subseteq P
  BY <1>0, <1>5, <1>6, UpInduction
<1>8. n \in P
  BY <1>0, <1>7
<1>9. Good(upto[n])
  BY <1>8 DEF P
<1> QED
  BY <1>3, <1>9

(* The minimized lemma still holds in all models.                          *)
LEMMA MinimizeFacts ==
    ASSUME NEW T \in Trails, NEW base \in Nat, NEW M \in SUBSET Valuations,
           BaseImplied(T, base, M), WhyImplies(T, M),
           NEW uip, NEW lemma \in SUBSET Literals,
           \A l \in lemma : False(T, l),
           Implied({-uip} \cup lemma, M)
    PROVE  /\ Minimize(T, base, uip, lemma) \subseteq lemma
           /\ Implied({-uip} \cup Minimize(T, base, uip, lemma), M)
<1> DEFINE marked == {-l : l \in lemma}
           lvls == {Level(T, a) : a \in marked \cup {uip}}
           implied == ImpliedByMarked(T, base, marked, lvls)
           rest == Minimize(T, base, uip, lemma)
<1>0. T \in Seq(Entries) /\ Len(T) \in Nat /\ DOMAIN T = 1 .. Len(T)
  BY DEF Trails
<1>1. rest = {l \in lemma : \/ T[Entry(T, -l)].why = {}
                            \/ ~(T[Entry(T, -l)].why \subseteq implied)}
  BY DEF Minimize
<1>2. \A x \in implied : \E j \in DOMAIN T :
          /\ T[j].lit = x
          /\ \/ x \in marked
             \/ T[j].lvl <= base
             \/ T[j].why # {} /\ T[j].why \subseteq implied
  BY <1>0, ImpliedByMarkedFacts
<1> HIDE DEF implied, rest
<1>3. ASSUME NEW m \in M, ({-uip} \cup rest) \cap m = {}
      PROVE  FALSE
  <2> DEFINE B == {j \in DOMAIN T : T[j].lit \in implied \cup marked /\ T[j].lit \notin m}
  <2>0. m \in Valuations
    OBVIOUS
  <2>1. ASSUME B # {}
        PROVE  FALSE
    <3>1. B \in SUBSET Nat
      BY <1>0
    <3>2. PICK i \in B : \A j \in B : i <= j
      <4> HIDE DEF B
      <4> QED
        BY <2>1, <3>1, LeastNat
    <3>3. i \in DOMAIN T /\ T[i].lit \notin m /\ T[i].lit \in implied \cup marked
      BY <3>2
    <3>4. ~(T[i].lvl <= base)
      BY <3>3 DEF BaseImplied
    <3>5. ASSUME T[i].why # {}, T[i].why \subseteq implied
          PROVE  FALSE
      <4>1. PICK a \in T[i].why : a \notin m
        BY <3>3, <3>5 DEF WhyImplies
      <4>2. PICK j \in 1 .. (i - 1) : T[j].lit = a
        BY <3>3 DEF Trails, AntecedentsBefore
      <4>3. j \in DOMAIN T /\ ~(i <= j)
        BY <1>0, <3>3
      <4>4. j \in B
        BY <3>5, <4>1, <4>2, <4>3
      <4> QED
        BY <3>2, <4>3, <4>4
    <3>6. T[i].lit \in marked
      <4>1. CASE T[i].lit \in implied
        <5>1. PICK j \in DOMAIN T :
                  /\ T[j].lit = T[i].lit
                  /\ \/ T[i].lit \in marked
                     \/ T[j].lvl <= base
                     \/ T[j].why # {} /\ T[j].why \subseteq implied
          BY <1>2, <4>1
        <5>2. j = i
          BY <3>3, <5>1 DEF Trails, Consistent
        <5> QED
          BY <3>4, <3>5, <5>1, <5>2
      <4> QED
        BY <3>3, <4>1
    <3>7. PICK l \in lemma : T[i].lit = -l
      BY <3>6
    <3>8. Entry(T, -l) = i
      BY <3>3, <3>7, EntryFacts
    <3>9. l \in rest
      BY <1>1, <3>5, <3>8
    <3>10. l \notin m
      BY <1>3, <3>9
    <3>11. -l \in m
      BY <2>0, <3>10, ValuationFacts
    <3> QED
      BY <3>3, <3>7, <3>11
  <2>2. \A l \in lemma : l \notin m
    <3> TAKE l \in lemma
    <3>1. PICK j \in DOMAIN T : T[j].lit = -l
      BY DEF False, True
    <3>2. T[j].lit \in m
      BY <2>1, <3>1
    <3> QED
      BY <2>0, <3>1, <3>2, ValuationFacts
  <2>3. PICK x \in {-uip} \cup lemma : x \in m
    BY DEF Implied
  <2> QED
    BY <1>3, <2>2, <2>3
<1>4. rest \subseteq lemma
  BY <1>1
<1> QED
  BY <1>3, <1>4 DEF Implied, rest

(* The lemma that conflict analysis returns.                               *)
LEMMA LemmaFacts ==
    ASSUME NEW T \in Trails, NEW base \in Nat, NEW search \in Nat, base <= search,
           NEW M \in SUBSET Valuations,
           DecisionsFirst(T, search), BaseImplied(T, base, M), WhyImplies(T, M),
           NEW conflict \in SUBSET Literals,
           \A l \in conflict : False(T, l),
           Implied(conflict, M),
           search < ConflictLevel(T, conflict)
    PROVE  LET lemma == Lemma(T, base, conflict)
               lvl == ConflictLevel(T, conflict)
           IN  /\ lemma.first \in Literals /\ lemma.rest \in SUBSET Literals
               /\ \E j \in 1 .. Len(T) : T[j].lit = -lemma.first /\ T[j].lvl = lvl
               /\ \A l \in lemma.rest :
                     \E j \in 1 .. Len(T) : T[j].lit = -l /\ T[j].lvl \in (base + 1) .. (lvl - 1)
               /\ Implied({lemma.first} \cup lemma.rest, M)
<1> DEFINE st == Resolve(T, base, conflict)
           lvl == ConflictLevel(T, conflict)
           lemma == Lemma(T, base, conflict)
<1>1. /\ st.uip \in Literals /\ st.lemma \in SUBSET Literals
      /\ \E j \in 1 .. Len(T) : T[j].lit = st.uip /\ T[j].lvl = lvl
      /\ \A l \in st.lemma :
            \E j \in 1 .. Len(T) : T[j].lit = -l /\ T[j].lvl \in (base + 1) .. (lvl - 1)
      /\ Implied({-st.uip} \cup st.lemma, M)
  BY ResolveFacts
<1>2. lemma.first = -st.uip /\ lemma.rest = Minimize(T, base, st.uip, st.lemma)
  BY DEF Lemma
<1> HIDE DEF st, lemma, lvl
<1>3. T \in Seq(Entries)
  BY DEF Trails
<1>4. \A l \in st.lemma : False(T, l)
  BY <1>1, <1>3 DEF False, True
<1>5. /\ Minimize(T, base, st.uip, st.lemma) \subseteq st.lemma
      /\ Implied({-st.uip} \cup Minimize(T, base, st.uip, st.lemma), M)
  BY <1>1, <1>4, MinimizeFacts
<1>6. -st.uip \in Literals /\ -(-st.uip) = st.uip
  BY <1>1, LiteralFacts
<1> QED
  BY <1>1, <1>2, <1>5, <1>6 DEF lemma, lvl

-----------------------------------------------------------------------------
(* mk_unsat_core.                                                          *)

(* The support of S contains S, is closed under the antecedents of entries *)
(* of level lvl and above, and has no literal of a higher level than S.    *)
LEMMA SupportFacts ==
    ASSUME NEW T \in Trails, NEW lvl \in Nat, NEW top \in Nat, NEW S \in SUBSET Literals,
           \A x \in S : \E j \in DOMAIN T : T[j].lit = x /\ T[j].lvl <= top
    PROVE  LET all == Support(T, lvl, S)
           IN  /\ S \subseteq all
               /\ \A x \in all : \E j \in DOMAIN T : T[j].lit = x /\ T[j].lvl <= top
               /\ \A j \in DOMAIN T : T[j].lit \in all /\ T[j].lvl >= lvl => T[j].why \subseteq all
<1> DEFINE n == Len(T)
           Add(i, R) == R \cup (IF T[i].lvl >= lvl /\ T[i].lit \in R THEN T[i].why ELSE {})
           IsFrom(f) == f = [i \in 1 .. (n + 1) |-> IF i > n THEN S ELSE Add(i, f[i + 1])]
           L == SUBSET Literals
<1>0. /\ T \in Seq(Entries) /\ n \in Nat /\ DOMAIN T = 1 .. n
      /\ \A i \in 1 .. n : T[i].why \in L
  <2>1. T \in Seq(Entries) /\ n \in Nat /\ DOMAIN T = 1 .. n
    BY DEF Trails
  <2> QED
    BY <2>1, EntryFacts
<1>1. \E f : IsFrom(f)
  <2> DEFINE G == [i \in 1 .. n |-> [R \in L |-> Add(i, R)]]
  <2>1. \A i \in 1 .. n : \A R \in L : Add(i, R) \in L
    BY <1>0
  <2> HIDE DEF Add, L
  <2>2. G \in [1 .. n -> [L -> L]]
    BY <2>1
  <2>3. PICK f : DownLoop(n, L, S, G, f)
    <3>1. S \in L
      BY DEF L
    <3> HIDE DEF G, n
    <3> QED
      BY <1>0, <2>2, <3>1, DownRecursion
  <2>4. \A i \in 1 .. n : f[i] = Add(i, f[i + 1])
    <3> TAKE i \in 1 .. n
    <3>1. f[i + 1] \in L
      BY <1>0, <2>3 DEF DownLoop
    <3> QED
      BY <2>3, <3>1 DEF DownLoop
  <2>5. \A i \in 1 .. (n + 1) : f[i] = IF i > n THEN S ELSE Add(i, f[i + 1])
    BY <1>0, <2>3, <2>4 DEF DownLoop
  <2>6. IsFrom(f)
    BY <2>3, <2>5 DEF DownLoop
  <2> QED
    BY <2>6
<1> DEFINE from == CHOOSE f : IsFrom(f)
<1>2. IsFrom(from)
  <2> HIDE DEF IsFrom
  <2> QED
    BY <1>1, Zenon
<1>3. Support(T, lvl, S) = from[1]
  BY Zenon DEF Support
<1>4. from[n + 1] = S /\ \A i \in 1 .. n : from[i] = Add(i, from[i + 1])
  <2> HIDE DEF from, Add
  <2>1. n + 1 \in 1 .. (n + 1) /\ n + 1 > n /\ \A i \in 1 .. n : i \in 1 .. (n + 1) /\ ~(i > n)
    BY <1>0
  <2> QED
    BY <1>2, <2>1
<1> HIDE DEF from
<1> DEFINE Low(R) == \A x \in R : \E j \in DOMAIN T : T[j].lit = x /\ T[j].lvl <= top
           Closed(i, R) == \A j \in DOMAIN T :
                              j >= i /\ T[j].lit \in R /\ T[j].lvl >= lvl => T[j].why \subseteq R
           P == {i \in 1 .. (n + 1) : S \subseteq from[i] /\ Low(from[i]) /\ Closed(i, from[i])}
<1>5. n + 1 \in P
  BY <1>0, <1>4
<1>6. \A i \in 1 .. n : i + 1 \in P => i \in P
  <2> TAKE i \in 1 .. n
  <2> HAVE i + 1 \in P
  <2> DEFINE R == from[i + 1]
  <2>1. S \subseteq R /\ Low(R) /\ Closed(i + 1, R) /\ from[i] = Add(i, R) /\ i \in DOMAIN T
    BY <1>0, <1>4
  <2>2. ASSUME NEW a \in T[i].why
        PROVE  \E j \in DOMAIN T : j < i /\ T[j].lit = a /\ T[j].lvl <= T[i].lvl
    <3>1. PICK j \in 1 .. (i - 1) : T[j].lit = a
      BY <2>1 DEF Trails, AntecedentsBefore
    <3>2. j \in DOMAIN T /\ j < i /\ j <= i
      BY <1>0
    <3>3. T[j].lvl <= T[i].lvl
      BY <2>1, <3>2 DEF Trails, Ordered
    <3> QED
      BY <3>1, <3>2, <3>3
  <2>3. \A j \in DOMAIN T : j >= i => T[j].lit \notin T[i].why
    <3> TAKE j \in DOMAIN T
    <3> HAVE j >= i
    <3>1. ASSUME T[j].lit \in T[i].why
          PROVE  FALSE
      <4>1. PICK k \in DOMAIN T : k < i /\ T[k].lit = T[j].lit
        BY <2>2, <3>1
      <4>2. k # j
        BY <1>0, <4>1
      <4> QED
        BY <4>1, <4>2 DEF Trails, Consistent
    <3> QED
      BY <3>1
  <2>4. R \subseteq from[i] /\ S \subseteq from[i]
    BY <2>1
  <2>5. Low(from[i])
    <3>1. ASSUME NEW x \in from[i], x \notin R
          PROVE  \E j \in DOMAIN T : T[j].lit = x /\ T[j].lvl <= top
      <4>1. T[i].lit \in R /\ x \in T[i].why
        BY <2>1, <3>1
      <4>2. PICK j \in DOMAIN T : T[j].lit = T[i].lit /\ T[j].lvl <= top
        BY <2>1, <4>1
      <4>3. j = i
        BY <2>1, <4>2 DEF Trails, Consistent
      <4>4. PICK k \in DOMAIN T : T[k].lit = x /\ T[k].lvl <= T[i].lvl
        BY <2>2, <4>1
      <4>5. T[i].lvl \in Nat /\ T[k].lvl \in Nat
        BY <2>1, EntryFacts
      <4> QED
        BY <4>2, <4>3, <4>4, <4>5
    <3> QED
      BY <2>1, <3>1
  <2>6. Closed(i, from[i])
    <3> SUFFICES ASSUME NEW j \in DOMAIN T, j >= i, T[j].lit \in from[i], T[j].lvl >= lvl
                 PROVE  T[j].why \subseteq from[i]
      OBVIOUS
    <3>1. T[j].lit \in R
      BY <2>1, <2>3
    <3>2. CASE j = i
      BY <2>1, <3>1, <3>2
    <3>3. CASE j # i
      <4>1. j >= i + 1
        BY <1>0, <3>3
      <4>2. T[j].why \subseteq R
        BY <2>1, <3>1, <4>1
      <4> QED
        BY <2>4, <4>2
    <3> QED
      BY <3>2, <3>3
  <2>7. i \in 1 .. (n + 1)
    BY <1>0
  <2> QED
    BY <2>4, <2>5, <2>6, <2>7
<1> HIDE DEF P
<1>7. 1 .. (n + 1) \subseteq P
  BY <1>0, <1>5, <1>6, DownInduction
<1>8. 1 \in P
  BY <1>0, <1>7
<1>9. S \subseteq from[1] /\ Low(from[1]) /\ Closed(1, from[1])
  BY <1>8 DEF P
<1>10. \A j \in DOMAIN T : j >= 1
  BY <1>0
<1> QED
  BY <1>3, <1>9, <1>10

(* The formulas and the unsat core have no common model: a conflict that   *)
(* no literal above the search level takes part in, and that follows from  *)
(* the formulas or refutes an assumption, comes about under the core.      *)
LEMMA UnsatCoreFacts ==
    ASSUME NEW T \in Trails, NEW base \in Nat, NEW search \in Nat, search <= base + 1,
           NEW M \in SUBSET Valuations, NEW A \in SUBSET Literals,
           BaseImplied(T, base, M), WhyImplies(T, M), UnitsImplied(T, search, A, M),
           NEW conflict \in SUBSET Literals,
           \A l \in conflict : False(T, l),
           Implied(conflict, M) \/ \E l \in A : conflict = {l},
           ConflictLevel(T, conflict) <= search
    PROVE  LET core == UnsatCore(T, search, conflict, A)
           IN  core \subseteq A /\ \A m \in M : ~(core \subseteq m)
<1> DEFINE S == {-l : l \in conflict}
           all == Support(T, search, S)
           core == UnsatCore(T, search, conflict, A)
<1>0. T \in Seq(Entries) /\ Len(T) \in Nat /\ DOMAIN T = 1 .. Len(T)
  BY DEF Trails
<1>1. core = {a \in A : a \in all \/ -a \in all}
  BY DEF UnsatCore
<1>2. S \in SUBSET Literals
  BY LiteralFacts
<1>3. \A x \in S : \E j \in DOMAIN T : T[j].lit = x /\ T[j].lvl <= search
  <2> SUFFICES ASSUME NEW l \in conflict
               PROVE  \E j \in DOMAIN T : T[j].lit = -l /\ T[j].lvl <= search
    OBVIOUS
  <2>1. PICK j \in 1 .. Len(T) : T[j].lit = -l /\ Level(T, -l) = T[j].lvl
    BY TrueFacts DEF False
  <2>2. T[j].lvl \in Nat /\ j \in DOMAIN T
    BY <1>0, EntryFacts
  <2>3. ConflictLevel(T, conflict) \in Nat /\ Level(T, -l) <= ConflictLevel(T, conflict)
    BY ConflictLevelFacts
  <2> QED
    BY <2>1, <2>2, <2>3
<1>4. /\ S \subseteq all
      /\ \A x \in all : \E j \in DOMAIN T : T[j].lit = x /\ T[j].lvl <= search
      /\ \A j \in DOMAIN T : T[j].lit \in all /\ T[j].lvl >= search => T[j].why \subseteq all
  <2> HIDE DEF S
  <2> QED
    BY <1>2, <1>3, SupportFacts
<1> HIDE DEF all, core
<1>5. ASSUME NEW m \in M, core \subseteq m
      PROVE  FALSE
  <2>0. m \in Valuations
    OBVIOUS
  <2> DEFINE B == {j \in DOMAIN T : T[j].lit \in all /\ T[j].lit \notin m}
  <2>1. ASSUME B # {}
        PROVE  FALSE
    <3>1. B \in SUBSET Nat
      BY <1>0
    <3>2. PICK i \in B : \A j \in B : i <= j
      <4> HIDE DEF B
      <4> QED
        BY <2>1, <3>1, LeastNat
    <3>3. i \in DOMAIN T /\ T[i].lit \notin m /\ T[i].lit \in all /\ T[i].lvl \in Nat
      BY <3>2, EntryFacts
    <3>4. ~(T[i].lvl <= base)
      BY <3>3 DEF BaseImplied
    <3>5. T[i].lvl <= search
      <4>1. PICK j \in DOMAIN T : T[j].lit = T[i].lit /\ T[j].lvl <= search
        BY <1>4, <3>3
      <4>2. j = i
        BY <3>3, <4>1 DEF Trails, Consistent
      <4> QED
        BY <4>1, <4>2
    <3>6. T[i].lvl >= search
      BY <3>3, <3>4
    <3>7. CASE T[i].why = {}
      <4>1. T[i].lit \in A
        BY <3>3, <3>5, <3>7 DEF UnitsImplied
      <4>2. T[i].lit \in core
        BY <1>1, <3>3, <4>1
      <4> QED
        BY <1>5, <3>3, <4>2
    <3>8. CASE T[i].why # {}
      <4>1. PICK a \in T[i].why : a \notin m
        BY <3>3, <3>8 DEF WhyImplies
      <4>2. PICK j \in 1 .. (i - 1) : T[j].lit = a
        BY <3>3 DEF Trails, AntecedentsBefore
      <4>3. j \in DOMAIN T /\ ~(i <= j)
        BY <1>0, <3>3
      <4>4. a \in all
        BY <1>4, <3>3, <3>6, <4>1
      <4> QED
        BY <3>2, <4>1, <4>2, <4>3, <4>4
    <3> QED
      BY <3>7, <3>8
  <2>2. \A l \in conflict : -l \in m /\ l \notin m
    <3> TAKE l \in conflict
    <3>1. -l \in all
      BY <1>4
    <3>2. PICK j \in DOMAIN T : T[j].lit = -l
      BY <1>4, <3>1
    <3>3. -l \in m
      BY <2>1, <3>1, <3>2
    <3> QED
      BY <2>0, <3>3, ValuationFacts
  <2>3. CASE Implied(conflict, M)
    BY <2>2, <2>3 DEF Implied
  <2>4. CASE \E l \in A : conflict = {l}
    <3>1. PICK l \in A : conflict = {l}
      BY <2>4
    <3>2. -l \in all
      BY <1>4, <3>1
    <3>3. l \in core
      BY <1>1, <3>2
    <3> QED
      BY <1>5, <2>2, <3>1, <3>3
  <2> QED
    BY <2>3, <2>4
<1>6. core \subseteq A
  BY <1>1
<1> QED
  BY <1>5, <1>6 DEF core
=============================================================================
