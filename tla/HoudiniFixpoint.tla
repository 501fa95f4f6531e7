-------------------------- MODULE HoudiniFixpoint --------------------------
(***************************************************************************)
(* What Houdini promises, without work list, blacklist or unsat cores:     *)
(* remove refutable candidates in any order until every VC is valid, or    *)
(* until an obligation that no candidate guards fails.                     *)
(***************************************************************************)
EXTENDS HoudiniProgram

CONSTANT InitialAssignment

VARIABLES proofs, candidates, verdict

fixvars == <<proofs, candidates, verdict>>

FixInit ==
    /\ proofs \in [Obligation -> SUBSET SUBSET Cand]
    /\ candidates = InitialAssignment
    /\ verdict = "open"

(* Candidates with an annotation that does not follow from the candidates. *)
Refutable ==
    {o.cand : o \in UNION {Failing(proofs, i, candidates) : i \in Impl}} \ {NoCand}

Refute ==
    /\ verdict = "open"
    /\ \E R \in SUBSET Refutable : R # {} /\ candidates' = candidates \ R
    /\ UNCHANGED <<proofs, verdict>>

Reject ==
    /\ verdict = "open"
    /\ \E i \in Impl : RealObligation(i) \in Failing(proofs, i, candidates)
    /\ verdict' = "rejected"
    /\ UNCHANGED <<proofs, candidates>>

Accept ==
    /\ verdict = "open"
    /\ AllValid(proofs, candidates)
    /\ verdict' = "accepted"
    /\ UNCHANGED <<proofs, candidates>>

FixNext == Refute \/ Reject \/ Accept

FixSpec == FixInit /\ [][FixNext]_fixvars
=============================================================================
