-------------------------- MODULE MCStagedHoudini --------------------------
(***************************************************************************)
(* Instances of StagedHoudini for TLC.                                     *)
(***************************************************************************)
EXTENDS StagedHoudini, TLC

CONSTANTS Main, P, k1, k2, cReqP, cEnsP, cInvMain, cInvP

(* Main calls P.                                                           *)
Itself == [i \in Impl |-> i]
MainCallsP == [i \in Impl |-> IF i = Main THEN {P} ELSE {}]
AnnotOf == {
    [cand |-> cReqP, kind |-> "REQUIRES", at |-> P],
    [cand |-> cEnsP, kind |-> "ENSURES", at |-> P],
    [cand |-> cInvMain, kind |-> "ASSERT", at |-> Main],
    [cand |-> cInvP, kind |-> "ASSERT", at |-> P]}

(* Stage 0 holds no candidate, as in the plans of ApplyStages.  Stages 1   *)
(* and 3 are independent of each other.                                    *)
Stages == 0 .. 3
StageOf == [c \in Cand |-> IF c = cReqP THEN 1 ELSE IF c = cInvMain THEN 3 ELSE 2]
Dependences == [s \in Stages |-> IF s = 0 THEN {} ELSE IF s = 2 THEN {0, 1} ELSE {0}]

(* A candidate obligation is unprovable, or needs nothing or one candidate;*)
(* assertions that no candidate guards hold.                               *)
SafeOracles ==
    LET Choices(i) == {f \in [ObligationsOf[i] ->
                                {{}, {{}}} \cup {{{c}} : c \in houdiniAssumeConstants[i]}] :
                          f[RealObligation(i)] = {{}}}
    IN  {f @@ g : f \in Choices(Main), g \in Choices(P)}
=============================================================================
