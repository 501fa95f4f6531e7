------------------------- MODULE HoudiniRefinement -------------------------
(***************************************************************************)
(* The work-list algorithm implements HoudiniFixpoint, as long as the      *)
(* prover is complete and conclusive and every implementation has a VC.    *)
(***************************************************************************)
EXTENDS Houdini

(* Open while inferring; an abort rejects, an empty queue accepts.         *)
Verdict ==
    IF \E i \in Impl : nonCandidateErrors[i] # {} THEN "rejected"
    ELSE IF pc = "done" THEN "accepted"
    ELSE "open"

Fixpoint == INSTANCE HoudiniFixpoint WITH candidates <- assignment, verdict <- Verdict

(***************************************************************************)
(* Every step of the work list is a step of the chaotic iteration or a     *)
(* stutter: only candidates that fail under the current assignment go, an  *)
(* abort happens only when a real assertion fails under it, and the queue  *)
(* runs empty only when every VC is valid under the final assignment.      *)
(***************************************************************************)
ImplementsFixpoint == Fixpoint!FixSpec
=============================================================================
