------------------------ MODULE MCConcurrentHoudini ------------------------
(***************************************************************************)
(* Instances of ConcurrentHoudini for TLC.                                 *)
(***************************************************************************)
EXTENDS ConcurrentHoudini, TLC

CONSTANTS Main, P, R, h1, h2, cReqP, cEnsP, cInvMain, cInvR

(* Main calls P; R stands alone.  A precondition and a postcondition of P  *)
(* and a loop invariant of Main and of R are to be inferred.  Runs take    *)
(* all of it, or the part without R.                                       *)
Itself == [i \in Impl |-> i]
MainCallsP == [i \in Impl |-> IF i = Main THEN {P} ELSE {}]
AnnotOf == {a \in {
    [cand |-> cReqP, kind |-> "REQUIRES", at |-> P],
    [cand |-> cEnsP, kind |-> "ENSURES", at |-> P],
    [cand |-> cInvMain, kind |-> "ASSERT", at |-> Main],
    [cand |-> cInvR, kind |-> "ASSERT", at |-> R]} : a.cand \in Cand}

(* Every candidate obligation of i is unprovable, or follows from nothing  *)
(* or from one candidate that i assumes.  Assertions that no candidate     *)
(* guards hold, or in Main need all that Main assumes.                     *)
Proofs(i) ==
    {f \in [ObligationsOf[i] -> {{}, {{}}, {houdiniAssumeConstants[i]}}
                                    \cup {{{c}} : c \in houdiniAssumeConstants[i]}] :
        /\ f[RealObligation(i)] \in {{{}}, {houdiniAssumeConstants[Main]}}
        /\ \A o \in CandidateObligation(i) : i = Main => f[o] # {houdiniAssumeConstants[i]}}

DuoOracles == {f @@ g : f \in Proofs(Main), g \in Proofs(P)}

TrioOracles == {f @@ g @@ h : f \in Proofs(Main), g \in Proofs(P), h \in Proofs(R)}

(* The invariant of R is refuted, and Main's invariant needs the           *)
(* postcondition of P.                                                     *)
FewOracles ==
    {pf \in TrioOracles : \A o \in Obligation :
        /\ o.cand = cInvR => pf[o] = {}
        /\ o.cand = cInvMain => pf[o] = {{cEnsP}}}

(* Moreover the precondition of P is refuted, which refutes in turn its    *)
(* postcondition and the invariant of Main.                                *)
CascadeOracles ==
    {pf \in FewOracles : \A o \in Obligation :
        /\ o.cand = NoCand => pf[o] = {{}}
        /\ o.cand = cEnsP => pf[o] = {{cReqP}}
        /\ o.cand = cReqP => pf[o] = {}}

InBodies == [c \in Cand |-> MentionedIn(c)]

Symmetry == Permutations(Instance)
=============================================================================
