----------------------------- MODULE MCHoudini -----------------------------
(***************************************************************************)
(* Instances of Houdini for TLC: small annotated programs, and families of *)
(* oracles for their proof obligations.                                    *)
(***************************************************************************)
EXTENDS HoudiniRefinement, TLC

CONSTANTS Main, P, Q, Extra, cReqP, cEnsP, cEnsQ, cInvMain, cShared

(* Main calls P, P calls Q.  A precondition and a postcondition of P, a    *)
(* postcondition of Q and a loop invariant of Main are to be inferred.     *)
ChainImpl == {Main, P, Q}
ChainProc == ChainImpl
ChainProcOf == [i \in ChainImpl |-> i]
ChainCalls == [i \in ChainImpl |-> IF i = Main THEN {P} ELSE IF i = P THEN {Q} ELSE {}]
ChainCand == {cReqP, cEnsP, cEnsQ, cInvMain}
ChainAnnot == {
    [cand |-> cReqP, kind |-> "REQUIRES", at |-> P],
    [cand |-> cEnsP, kind |-> "ENSURES", at |-> P],
    [cand |-> cEnsQ, kind |-> "ENSURES", at |-> Q],
    [cand |-> cInvMain, kind |-> "ASSERT", at |-> Main]}

(* The same with a second caller of P, for which no VC is generated.       *)
FailImpl == ChainImpl \cup {Extra}
FailProcOf == [i \in FailImpl |-> i]
FailCalls == ChainCalls @@ (Extra :> {P})

(* Oracles in which each obligation of i needs nothing, everything that i  *)
(* assumes, or is unprovable.                                              *)
AllOrNothing(i) == [ObligationsOf[i] -> {{}, {{}}, {houdiniAssumeConstants[i]}}]

FewOracles == {f @@ g @@ h : f \in AllOrNothing(Main), g \in AllOrNothing(P), h \in AllOrNothing(Q)}

FailOracles ==
    {f @@ [o \in ObligationsOf[Extra] |-> {}] : f \in FewOracles}

(* Main calls P.  P has two implementations, P and Q; Q calls P, so that    *)
(* it is recursive.  One candidate guards assertions of both Main and P.   *)
RecImpl == {Main, P, Q}
RecProc == {Main, P}
RecProcOf == [i \in RecImpl |-> IF i = Main THEN Main ELSE P]
RecCalls == [i \in RecImpl |-> IF i = P THEN {} ELSE {P}]
RecCand == {cReqP, cEnsP, cShared}
RecAnnot == {
    [cand |-> cReqP, kind |-> "REQUIRES", at |-> P],
    [cand |-> cEnsP, kind |-> "ENSURES", at |-> P],
    [cand |-> cShared, kind |-> "ASSERT", at |-> Main],
    [cand |-> cShared, kind |-> "ASSERT", at |-> P]}

(* What proves the real obligation of i: any one of the candidates that it *)
(* assumes; all of them; or what the contract of P gives it, the           *)
(* postcondition at the call in Main and the precondition in the           *)
(* implementations of P.                                                   *)
AnyAssumed == [i \in RecImpl |-> {{c} : c \in houdiniAssumeConstants[i]}]
AllAssumed == [i \in RecImpl |-> {houdiniAssumeConstants[i]}]
OnlyContract == [i \in RecImpl |-> IF i = Main THEN {{cEnsP}} ELSE {{cReqP}}]

(* A candidate obligation of i is unprovable, needs nothing or, for one of *)
(* them at most, needs one candidate in particular.  Unless real asks for  *)
(* all of them, cores are smaller than what i assumes, and its VC can      *)
(* outlive the refutation of the others.                                   *)
OneHypothesis(i, real) ==
    LET Free == {{}, {{}}}
        Needy == {{{c}} : c \in houdiniAssumeConstants[i]}
    IN  {f @@ (RealObligation(i) :> real[i]) :
            f \in {g \in [CandidateObligation(i) -> Free \cup Needy] :
                \A o, p \in CandidateObligation(i) : o = p \/ g[o] \in Free \/ g[p] \in Free}}

RecOracles ==
    UNION {{f @@ g @@ h : f \in OneHypothesis(Main, real), g \in OneHypothesis(P, real),
                          h \in OneHypothesis(Q, real)} :
                real \in {AnyAssumed, AllAssumed, OnlyContract}}

(* What CrossDependencies finds when only bodies mention constants.        *)
InBodies == [c \in Cand |-> MentionedIn(c)]
=============================================================================
