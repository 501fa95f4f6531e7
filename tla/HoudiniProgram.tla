--------------------------- MODULE HoudiniProgram ---------------------------
(***************************************************************************)
(* The annotated Boogie program Houdini works on: implementations, the     *)
(* procedures they implement and call, and the candidate annotations, each *)
(* guarded by an existential Boolean constant (a candidate).               *)
(*                                                                         *)
(* A verification condition is abstracted to its proof obligations.  What  *)
(* is true of the program is the oracle "proofs": for an obligation, the   *)
(* sets of candidates from which it follows.  Logic is monotone: more      *)
(* hypotheses never invalidate a proof.  What the PROVER answers is        *)
(* modelled in Houdini.tla, and need not be complete.                      *)
(***************************************************************************)
EXTENDS Naturals, FiniteSets

CONSTANTS
    Impl,     \* implementations that are not SkipVerification
    Proc,     \* procedures
    Cand,     \* existential constants (houdiniConstants)
    ProcOf,   \* ProcOf[i]: the procedure that i implements
    Calls,    \* Calls[i]: the procedures called in the body of i
    Annot,    \* candidate annotations of the program
    NoCand    \* marks an obligation that no candidate guards

(* RefutedAnnotationKind *)
Kind == {"REQUIRES", "ENSURES", "ASSERT"}

(***************************************************************************)
(* An annotation "cand ==> condition": a precondition or a postcondition   *)
(* of a procedure, or an assertion or loop invariant of an implementation. *)
(***************************************************************************)
Annotation ==
         [cand: Cand, kind: {"REQUIRES", "ENSURES"}, at: Proc]
    \cup [cand: Cand, kind: {"ASSERT"}, at: Impl]

ASSUME ProgramAssumption ==
    /\ IsFiniteSet(Impl)
    /\ IsFiniteSet(Cand)
    /\ ProcOf \in [Impl -> Proc]
    /\ Calls \in [Impl -> SUBSET Proc]
    /\ Annot \subseteq Annotation
    /\ NoCand \notin Cand

(* callGraph of Program.BuildCallGraph: an edge to every implementation of *)
(* a called procedure.                                                     *)
Callees(i) == {j \in Impl : ProcOf[j] \in Calls[i]}
Callers(i) == {j \in Impl : ProcOf[i] \in Calls[j]}

(* Annotations that the VC of i asserts, and those it assumes.             *)
AssertsIn(i) == {a \in Annot :
    \/ a.kind = "REQUIRES" /\ a.at \in Calls[i]
    \/ a.kind = "ENSURES" /\ a.at = ProcOf[i]
    \/ a.kind = "ASSERT" /\ a.at = i}

AssumesIn(i) == {a \in Annot :
    \/ a.kind = "REQUIRES" /\ a.at = ProcOf[i]
    \/ a.kind = "ENSURES" /\ a.at \in Calls[i]
    \/ a.kind = "ASSERT" /\ a.at = i}

houdiniAssertConstants == [i \in Impl |-> {a.cand : a \in AssertsIn(i)}]
houdiniAssumeConstants == [i \in Impl |-> {a.cand : a \in AssumesIn(i)}]

(***************************************************************************)
(* The obligations of an implementation: one for each candidate annotation *)
(* its VC asserts, and one for the assertions that no candidate guards.    *)
(***************************************************************************)
CandidateObligation(i) ==
    {[impl |-> i, cand |-> a.cand, kind |-> a.kind, at |-> a.at] :
        a \in AssertsIn(i)}

RealObligation(i) == [impl |-> i, cand |-> NoCand, kind |-> "ASSERT", at |-> i]

ObligationsOf == [i \in Impl |-> CandidateObligation(i) \cup {RealObligation(i)}]

Obligation == UNION {ObligationsOf[i] : i \in Impl}

-----------------------------------------------------------------------------
(***************************************************************************)
(* VC validity under the candidates T assigned true.  The oracle is the    *)
(* parameter pf, of type [Obligation -> SUBSET SUBSET Cand].               *)
(***************************************************************************)
Provable(pf, o, T) ==
    \E N \in pf[o] : N \subseteq T \cap houdiniAssumeConstants[o.impl]

(* A candidate assigned false makes its own annotation vacuously true.     *)
Asserted(i, T) == {o \in ObligationsOf[i] : o.cand = NoCand \/ o.cand \in T}

Failing(pf, i, T) == {o \in Asserted(i, T) : ~Provable(pf, o, T)}

(* Every annotation in T follows from T: T is inductive.                   *)
Inductive(pf, T) ==
    \A i \in Impl : Failing(pf, i, T) \subseteq {RealObligation(i)}

(* T makes all verification conditions valid.                              *)
AllValid(pf, T) == \A i \in Impl : Failing(pf, i, T) = {}
=============================================================================
