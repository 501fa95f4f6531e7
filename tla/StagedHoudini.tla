--------------------------- MODULE StagedHoudini ---------------------------
(***************************************************************************)
(* Staged Houdini (StagedHoudini.cs): the candidates are split into stages *)
(* and one task per stage infers the candidates of its stage, when the     *)
(* stages it depends on have ended.  Tasks run in parallel on a fixed      *)
(* number of Houdini instances, guarded by their monitors.                 *)
(*                                                                         *)
(* In stage s the candidates of s are asserted and assumed, those of the   *)
(* stages s depends on are assumed only, and the others are switched off   *)
(* (the constants stage_active and stage_complete).  The inference of one  *)
(* stage is the iteration HoudiniFixpoint that Houdini implements; the     *)
(* prover is conclusive.                                                   *)
(***************************************************************************)
EXTENDS HoudiniProgram

CONSTANTS
    Stage,                  \* scheduled stages of the plan
    StageForCandidate,      \* [Cand -> Stage]
    GetDependences,         \* [Stage -> SUBSET Stage]: direct dependences
    Slot,                   \* houdiniInstances
    MayThrow,               \* stages whose inference may throw
    Oracles,                \* the oracles to consider
    None                    \* no stage; no outcome

ASSUME StagedAssumption ==
    /\ IsFiniteSet(Stage) /\ IsFiniteSet(Slot) /\ Slot # {}
    /\ StageForCandidate \in [Cand -> Stage]
    /\ GetDependences \in [Stage -> SUBSET Stage]
    /\ MayThrow \subseteq Stage
    /\ Oracles \subseteq [Obligation -> SUBSET SUBSET Cand]
    /\ None \notin Stage
    /\ \A a \in SUBSET Cand, r \in [Impl -> {"Correct", "Errors"}] :
          [assignment |-> a, implementationOutcomes |-> r] # None

(* The plan is acyclic: every set of stages has one without dependences    *)
(* in the set.                                                             *)
ASSUME PlanIsAcyclic ==
    \A S \in SUBSET Stage \ {{}} : \E s \in S : GetDependences[s] \cap S = {}

VARIABLES
    proofs,                 \* the oracle: chosen by Init, never changed
    task,                   \* what the task of a stage is doing
    monitor,                \* the stage whose task owns an instance, or None
    current,                \* assignment of the stage's inference
    outcomes,               \* assignment and outcomes a stage ended with, or None
    main                    \* PerformStagedHoudiniInference: waiting, done, failed

vars == <<proofs, task, monitor, current, outcomes, main>>

-----------------------------------------------------------------------------
(* The VC of i in stage s, under the candidates T assigned true            *)
(* (GetAssignmentWithStages and the rewriting by ApplyStages).             *)
AssertedInStage(i, s, T) ==
    {o \in ObligationsOf[i] :
        o.cand = NoCand \/ (o.cand \in T /\ StageForCandidate[o.cand] = s)}

(* Seeded fault: completed stages are not assumed.                         *)
BugAssumedInStage(s, T) == {c \in T : StageForCandidate[c] = s}

AssumedInStage(s, T) == {c \in T : StageForCandidate[c] \in {s} \cup GetDependences[s]}

FailingInStage(i, s, T) ==
    {o \in AssertedInStage(i, s, T) : ~Provable(proofs, o, AssumedInStage(s, T))}

RefutableInStage(s, T) ==
    {o.cand : o \in UNION {FailingInStage(i, s, T) : i \in Impl}} \ {NoCand}

(* An assertion that no candidate guards fails: Houdini aborts.            *)
RejectsStage(s, T) == \E i \in Impl : RealObligation(i) \in FailingInStage(i, s, T)

(* implementationOutcomes: Houdini ends with every VC valid, or aborts and *)
(* verifies what is queued once more (FlushWorkList).                      *)
ImplementationOutcomes(s, T) ==
    [i \in Impl |-> IF FailingInStage(i, s, T) = {} THEN "Correct" ELSE "Errors"]

-----------------------------------------------------------------------------
Ended == {s \in Stage : outcomes[s] # None}

Init ==
    /\ proofs \in Oracles
    /\ task = [s \in Stage |-> "waiting"]
    /\ monitor = [k \in Slot |-> None]
    /\ current = [s \in Stage |-> {}]
    /\ outcomes = [s \in Stage |-> None]
    /\ main = "waiting"

(* Seeded fault: the task does not wait for its dependences.               *)
BugWaitForDependences(s) ==
    /\ task[s] = "waiting"
    /\ task' = [task EXCEPT ![s] = "acquiring"]
    /\ UNCHANGED <<proofs, monitor, current, outcomes, main>>

(* ExecuteStage, Task.WaitAll for the dependences: it throws if one of     *)
(* them ended with an exception.                                           *)
WaitForDependences(s) ==
    /\ task[s] = "waiting"
    /\ \A d \in GetDependences[s] : task[d] \in {"ended", "faulted"}
    /\ task' = [task EXCEPT ![s] = IF \E d \in GetDependences[s] : task[d] = "faulted"
                                   THEN "faulted" ELSE "acquiring"]
    /\ UNCHANGED <<proofs, monitor, current, outcomes, main>>

(* AcquireHoudiniInstance: polls the monitors until one is free.           *)
AcquireHoudiniInstance(s) ==
    /\ task[s] = "acquiring"
    /\ \E k \in Slot :
          /\ monitor[k] = None
          /\ monitor' = [monitor EXCEPT ![k] = s]
    /\ task' = [task EXCEPT ![s] = "acquired"]
    /\ UNCHANGED <<proofs, current, outcomes, main>>

(* Seeded fault: no assignment when no stage has ended.                    *)
BugMergedAssignment(s) ==
    IF Ended = {} THEN {None}
    ELSE {c \in Cand : \A t \in Ended : c \in outcomes[t].assignment}

(* True in the outcome of every stage that ended so far.                   *)
MergedAssignment(s) == {c \in Cand : \A t \in Ended : c \in outcomes[t].assignment}

(* ExecuteStage reads the outcomes under their lock and starts to infer.   *)
StartStage(s) ==
    /\ task[s] = "acquired"
    /\ current' = [current EXCEPT ![s] = MergedAssignment(s)]
    /\ task' = [task EXCEPT ![s] = "inferring"]
    /\ UNCHANGED <<proofs, monitor, outcomes, main>>

(* PerformHoudiniInference of the stage refutes some candidates.           *)
Refute(s) ==
    /\ task[s] = "inferring"
    /\ \E X \in SUBSET RefutableInStage(s, current[s]) :
          /\ X # {}
          /\ current' = [current EXCEPT ![s] = @ \ X]
    /\ UNCHANGED <<proofs, task, monitor, outcomes, main>>

(* It ends: nothing is left to refute, or it aborted.  The outcome is      *)
(* stored under the lock.                                                  *)
StoreOutcome(s) ==
    /\ task[s] = "inferring"
    /\ RejectsStage(s, current[s]) \/ RefutableInStage(s, current[s]) = {}
    /\ outcomes' = [outcomes EXCEPT ![s] =
            [assignment |-> current[s],
             implementationOutcomes |-> ImplementationOutcomes(s, current[s])]]
    /\ task' = [task EXCEPT ![s] = "releasing"]
    /\ UNCHANGED <<proofs, monitor, current, main>>

(* Seeded fault: the monitor is not given back.                            *)
BugReleaseHoudiniInstance(s) ==
    /\ task[s] = "releasing"
    /\ task' = [task EXCEPT ![s] = "ended"]
    /\ UNCHANGED <<proofs, monitor, current, outcomes, main>>

ReleaseHoudiniInstance(s) ==
    /\ task[s] = "releasing"
    /\ monitor' = [k \in Slot |-> IF monitor[k] = s THEN None ELSE monitor[k]]
    /\ task' = [task EXCEPT ![s] = "ended"]
    /\ UNCHANGED <<proofs, current, outcomes, main>>

(* An exception while the task owns an instance: nobody releases it.       *)
Throw(s) ==
    /\ task[s] \in {"acquired", "inferring"}
    /\ s \in MayThrow
    /\ task' = [task EXCEPT ![s] = "faulted"]
    /\ UNCHANGED <<proofs, monitor, current, outcomes, main>>

(* PerformStagedHoudiniInference: Task.WaitAll throws if some task did.    *)
Join ==
    /\ main = "waiting"
    /\ \A s \in Stage : task[s] \in {"ended", "faulted"}
    /\ main' = IF \E s \in Stage : task[s] = "faulted" THEN "failed" ELSE "done"
    /\ UNCHANGED <<proofs, task, monitor, current, outcomes>>

Step(s) ==
    \/ WaitForDependences(s) \/ AcquireHoudiniInstance(s) \/ StartStage(s)
    \/ Refute(s) \/ StoreOutcome(s) \/ ReleaseHoudiniInstance(s) \/ Throw(s)

Next == Join \/ \E s \in Stage : Step(s)

Spec == Init /\ [][Next]_vars

(* Each task has a thread of its own (LongRunning).                        *)
FairSpec == Spec /\ WF_vars(Join) /\ \A s \in Stage : WF_vars(Step(s))

-----------------------------------------------------------------------------
(* UnifyOutcomes: a candidate is true if it is in every stage.             *)
UnifiedAssignment == {c \in Cand : \A s \in Stage : c \in outcomes[s].assignment}

(* ChooseOutcome: errors trump everything else.                            *)
UnifiedOutcome(i) ==
    IF \E s \in Stage : outcomes[s].implementationOutcomes[i] = "Errors"
    THEN "Errors" ELSE "Correct"

-----------------------------------------------------------------------------
TypeOK ==
    /\ task \in [Stage -> {"waiting", "acquiring", "acquired", "inferring",
                           "releasing", "ended", "faulted"}]
    /\ monitor \in [Slot -> Stage \cup {None}]
    /\ current \in [Stage -> SUBSET Cand]
    /\ \A s \in Ended : /\ outcomes[s].assignment \in SUBSET Cand
                        /\ outcomes[s].implementationOutcomes \in [Impl -> {"Correct", "Errors"}]
    /\ main \in {"waiting", "done", "failed"}

(***************************************************************************)
(* Staging is sound: if no stage reports errors, the unified assignment is *)
(* inductive in the original program, where no stage is switched off.      *)
(* Each stage assumed only candidates that no stage refuted later.         *)
(***************************************************************************)
StagedResultInductive ==
    main = "done" /\ (\A i \in Impl : UnifiedOutcome(i) = "Correct") =>
        Inductive(proofs, UnifiedAssignment)

(* The proofs of the candidates of a stage need candidates of that stage   *)
(* and of its direct dependences only.                                     *)
PlanCovers ==
    \A o \in Obligation : o.cand # NoCand =>
        \A N \in proofs[o], c \in Cand : c \in N =>
            StageForCandidate[c] \in {StageForCandidate[o.cand]}
                                         \cup GetDependences[StageForCandidate[o.cand]]

(* When the plan respects the dependences between candidates, staging      *)
(* loses nothing, in whatever order independent stages run and merge.      *)
StagedLosesNoInductiveSet ==
    main = "done" /\ PlanCovers =>
        \A S \in SUBSET Cand : Inductive(proofs, S) => S \subseteq UnifiedAssignment

(* PerformStagedHoudiniInference returns or throws, unless each Houdini    *)
(* instance is owned for ever by a task that threw.                        *)
EndsUnlessInstancesLeak ==
    <>(\/ main # "waiting"
       \/ \A k \in Slot : monitor[k] # None /\ task[monitor[k]] = "faulted")
=============================================================================
