--------------------------- MODULE Propositional ---------------------------
(***************************************************************************)
(* Clauses over Boolean variables, and what it means that they have a      *)
(* model.  A variable is a positive integer and a literal a variable or    *)
(* its negation, so that -l is the complement of the literal l.            *)
(***************************************************************************)
EXTENDS Integers

CONSTANT Vars

ASSUME VarsAssumption == Vars \subseteq Nat \ {0}

Literals == Vars \cup {-v : v \in Vars}

Var(l) == IF l < 0 THEN -l ELSE l

Clauses == SUBSET Literals

(* A valuation is the set of the literals that it makes true.              *)
Valuations == {{v \in Vars : f[v]} \cup {-v : v \in {w \in Vars : ~f[w]}} : f \in [Vars -> BOOLEAN]}

Satisfies(m, cs) == \A c \in cs : c \cap m # {}

(* The conjunction of the clauses cs has a model; it entails the clauses   *)
(* ds.                                                                     *)
Satisfiable(cs) == \E m \in Valuations : Satisfies(m, cs)

Entails(cs, ds) == \A m \in Valuations : Satisfies(m, cs) => Satisfies(m, ds)

(* Literals as the unit clauses that assert them.                          *)
Units(ls) == {{l} : l \in ls}
=============================================================================
