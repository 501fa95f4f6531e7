------------------------ MODULE StagedHoudiniProofs ------------------------
(***************************************************************************)
(* Proofs about staged inference, for every program, plan, number of       *)
(* Houdini instances and order in which the tasks run.                     *)
(***************************************************************************)
EXTENDS StagedHoudini, TLAPS

(* The inference of s has started: current[s] means something.             *)
Started(s) == task[s] \in {"inferring", "releasing", "ended"}

(* What a stage stores.                                                    *)
Stored(s) == [assignment |-> current[s],
              implementationOutcomes |-> ImplementationOutcomes(s, current[s])]

(* The tasks: a stage has an outcome exactly when its task got so far, and *)
(* runs only when its dependences have ended.                              *)
Tasks ==
    /\ outcomes \in [Stage -> {None} \cup [assignment: SUBSET Cand,
                                implementationOutcomes: [Impl -> {"Correct", "Errors"}]]]
    /\ \A s \in Stage :
          /\ s \in Ended <=> task[s] \in {"releasing", "ended"}
          /\ s \in Ended => outcomes[s] = Stored(s)
          /\ task[s] \in {"acquiring", "acquired"} \/ Started(s) =>
                \A d \in GetDependences[s] : task[d] = "ended"
    /\ main = "done" => \A s \in Stage : task[s] = "ended"

TypeInv == TypeOK /\ Tasks

(***************************************************************************)
(* A candidate is given up by its own stage first; the others only take    *)
(* over what they read in the outcomes, and they read at least the         *)
(* outcomes of their dependences.                                          *)
(***************************************************************************)
Blame ==
    \A s \in Stage : Started(s) =>
        /\ \A c \in Cand \ current[s] :
              \/ StageForCandidate[c] = s
              \/ /\ StageForCandidate[c] \in Ended
                 /\ c \notin outcomes[StageForCandidate[c]].assignment
        /\ \A d \in GetDependences[s] : current[s] \subseteq outcomes[d].assignment

(* No stage has given up a candidate of an inductive set.                  *)
Kept ==
    PlanCovers =>
        \A S \in SUBSET Cand : Inductive(proofs, S) =>
            \A s \in Stage : Started(s) => S \subseteq current[s]

StagedInv == TypeInv /\ Blame /\ Kept

-----------------------------------------------------------------------------
LEMMA StoredType ==
    ASSUME NEW s \in Stage, TypeOK
    PROVE  /\ Stored(s) \in [assignment: SUBSET Cand,
                             implementationOutcomes: [Impl -> {"Correct", "Errors"}]]
           /\ Stored(s) # None
           /\ Stored(s).assignment = current[s]
<1>1. current[s] \in SUBSET Cand
  BY DEF TypeOK
<1>2. ImplementationOutcomes(s, current[s]) \in [Impl -> {"Correct", "Errors"}]
  BY DEF ImplementationOutcomes
<1> QED BY <1>1, <1>2, StagedAssumption DEF Stored

(* A stage refutes candidates of its own only.                             *)
LEMMA RefutesItsOwn ==
    ASSUME NEW s \in Stage, NEW T, NEW c \in RefutableInStage(s, T)
    PROVE  c \in T /\ StageForCandidate[c] = s
BY DEF RefutableInStage, FailingInStage, AssertedInStage

LEMMA StagedInit == Init => StagedInv
<1> SUFFICES ASSUME Init PROVE StagedInv
  OBVIOUS
<1>1. Ended = {} /\ \A s \in Stage : ~Started(s) /\ task[s] = "waiting"
  BY DEF Init, Ended, Started
<1>2. TypeOK
  BY <1>1 DEF Init, TypeOK
<1>3. Tasks
  BY <1>1 DEF Init, Tasks
<1> QED BY <1>1, <1>2, <1>3 DEF StagedInv, TypeInv, Blame, Kept

(* A task that ended or threw stays so, and what it stored stays.          *)
LEMMA EndedStays ==
    ASSUME TypeInv, NEW s \in Stage, Step(s)
    PROVE  /\ proofs' = proofs /\ main' = main
           /\ \A t \in Stage \ {s} : /\ task'[t] = task[t] /\ current'[t] = current[t]
                                     /\ outcomes'[t] = outcomes[t]
           /\ task[s] \notin {"ended", "faulted"}
           /\ s \notin Ended \/ (s \in Ended' /\ outcomes'[s] = outcomes[s] /\ current'[s] = current[s])
           /\ Ended \subseteq Ended'
<1>1. /\ proofs' = proofs /\ main' = main
      /\ \A t \in Stage \ {s} : /\ task'[t] = task[t] /\ current'[t] = current[t]
                                /\ outcomes'[t] = outcomes[t]
      /\ task[s] \notin {"ended", "faulted"}
  BY DEF Step, WaitForDependences, AcquireHoudiniInstance, StartStage, Refute, StoreOutcome,
         ReleaseHoudiniInstance, Throw, TypeInv, TypeOK, Tasks
<1>2. ASSUME s \in Ended PROVE s \in Ended' /\ outcomes'[s] = outcomes[s] /\ current'[s] = current[s]
  <2>1. task[s] = "releasing"
    BY <1>1, <1>2 DEF TypeInv, Tasks
  <2>2. UNCHANGED <<outcomes, current>>
    BY <2>1 DEF Step, WaitForDependences, AcquireHoudiniInstance, StartStage, Refute, StoreOutcome,
                ReleaseHoudiniInstance, Throw
  <2> QED BY <1>2, <2>2 DEF Ended
<1> QED BY <1>1, <1>2 DEF Ended

LEMMA TypeNext == TypeInv /\ [Next]_vars => TypeInv'
<1> SUFFICES ASSUME TypeInv, [Next]_vars PROVE TypeInv'
  OBVIOUS
<1>t. TypeOK /\ Tasks
  BY DEF TypeInv
<1>1. ASSUME NEW s \in Stage, Step(s) PROVE TypeInv'
  <2>f. /\ proofs' = proofs /\ main' = main
        /\ \A t \in Stage \ {s} : /\ task'[t] = task[t] /\ current'[t] = current[t]
                                  /\ outcomes'[t] = outcomes[t]
        /\ task[s] \notin {"ended", "faulted"}
        /\ s \notin Ended \/ (s \in Ended' /\ outcomes'[s] = outcomes[s] /\ current'[s] = current[s])
    BY <1>1, EndedStays
  <2>1. TypeOK' /\ outcomes' \in [Stage -> {None} \cup [assignment: SUBSET Cand,
                                    implementationOutcomes: [Impl -> {"Correct", "Errors"}]]]
    <3>1. CASE StoreOutcome(s)
      <4>1. outcomes' = [outcomes EXCEPT ![s] = Stored(s)]
        BY <3>1 DEF StoreOutcome, Stored
      <4>2. outcomes' \in [Stage -> {None} \cup [assignment: SUBSET Cand,
                                    implementationOutcomes: [Impl -> {"Correct", "Errors"}]]]
        BY <1>t, <4>1, StoredType DEF Tasks
      <4> QED BY <1>t, <3>1, <4>2 DEF StoreOutcome, TypeOK, Ended
    <3>2. CASE ~StoreOutcome(s)
      <4>1. outcomes' = outcomes /\ Ended' = Ended
        BY <1>1, <3>2 DEF Step, WaitForDependences, AcquireHoudiniInstance, StartStage, Refute,
                          ReleaseHoudiniInstance, Throw, Ended
      <4>2. MergedAssignment(s) \subseteq Cand
        BY DEF MergedAssignment
      <4>3. /\ task' \in [Stage -> {"waiting", "acquiring", "acquired", "inferring",
                                    "releasing", "ended", "faulted"}]
            /\ current' \in [Stage -> SUBSET Cand]
            /\ monitor' \in [Slot -> Stage \cup {None}]
        BY <1>t, <1>1, <3>2, <4>2
           DEF Step, WaitForDependences, AcquireHoudiniInstance, StartStage, Refute,
               ReleaseHoudiniInstance, Throw, TypeOK
      <4> QED BY <1>t, <2>f, <4>1, <4>3 DEF TypeOK, Tasks
    <3> QED BY <3>1, <3>2
  <2>2. ASSUME NEW t \in Stage
        PROVE  /\ t \in Ended' <=> task'[t] \in {"releasing", "ended"}
               /\ t \in Ended' => outcomes'[t] = Stored(t)'
    <3>1. CASE t # s
      <4>1. Stored(t)' = Stored(t)
        BY <2>f, <3>1 DEF Stored, ImplementationOutcomes, FailingInStage
      <4>2. task'[t] = task[t] /\ outcomes'[t] = outcomes[t] /\ (t \in Ended' <=> t \in Ended)
        BY <2>f, <3>1 DEF Ended
      <4> QED BY <1>t, <4>1, <4>2 DEF Tasks
    <3>2. CASE t = s /\ StoreOutcome(s)
      BY <1>t, <2>f, <3>2, StoredType
         DEF StoreOutcome, Stored, Ended, TypeOK, Tasks, ImplementationOutcomes, FailingInStage
    <3>3. CASE t = s /\ ~StoreOutcome(s)
      <4>1. outcomes' = outcomes /\ Ended' = Ended
        BY <1>1, <3>3 DEF Step, WaitForDependences, AcquireHoudiniInstance, StartStage, Refute,
                          ReleaseHoudiniInstance, Throw, Ended
      <4>2. task'[s] \in {"releasing", "ended"} <=> task[s] \in {"releasing", "ended"}
        BY <1>t, <1>1, <3>3
           DEF Step, WaitForDependences, AcquireHoudiniInstance, StartStage, Refute,
               ReleaseHoudiniInstance, Throw, TypeOK
      <4>3. s \in Ended => Stored(s)' = Stored(s)
        BY <2>f DEF Stored, ImplementationOutcomes, FailingInStage
      <4> QED BY <1>t, <3>3, <4>1, <4>2, <4>3 DEF Tasks
    <3> QED BY <3>1, <3>2, <3>3
  <2>3. ASSUME NEW t \in Stage, task'[t] \in {"acquiring", "acquired"} \/ Started(t)',
               NEW d \in GetDependences[t]
        PROVE  task'[d] = "ended"
    <3>1. d \in Stage
      BY StagedAssumption
    <3>2. task[d] = "ended"
      <4>1. CASE t # s
        BY <1>t, <2>f, <2>3, <4>1 DEF Tasks, Started
      <4>2. CASE t = s /\ task[s] = "waiting"
        BY <1>t, <1>1, <2>3, <3>1, <4>2
           DEF Step, WaitForDependences, AcquireHoudiniInstance, StartStage, Refute, StoreOutcome,
               ReleaseHoudiniInstance, Throw, TypeOK, Started
      <4>3. CASE t = s /\ task[s] # "waiting"
        BY <1>t, <2>f, <2>3, <4>3 DEF Tasks, Started, TypeOK
      <4> QED BY <4>1, <4>2, <4>3
    <3> QED BY <2>f, <3>1, <3>2
  <2>4. main' = "done" => \A t \in Stage : task'[t] = "ended"
    BY <1>t, <2>f DEF Tasks
  <2> QED BY <2>1, <2>2, <2>3, <2>4 DEF TypeInv, Tasks
<1>2. CASE Join
  BY <1>t, <1>2 DEF Join, TypeInv, TypeOK, Tasks, Ended, Started, Stored,
                    ImplementationOutcomes, FailingInStage
<1>3. CASE UNCHANGED vars
  BY <1>t, <1>3 DEF vars, TypeInv, TypeOK, Tasks, Ended, Started, Stored,
                    ImplementationOutcomes, FailingInStage
<1> QED BY <1>1, <1>2, <1>3 DEF Next

(* Type correctness of the tasks, the monitors and the stored outcomes.    *)
THEOREM Types == Spec => []TypeOK
<1>1. Init => TypeInv
  BY StagedInit DEF StagedInv
<1>2. TypeInv => TypeOK
  BY DEF TypeInv
<1> QED BY <1>1, <1>2, TypeNext, PTL DEF Spec

-----------------------------------------------------------------------------
(* A candidate is lost in its own stage first.                             *)
LEMMA BlameNext == TypeInv /\ Blame /\ [Next]_vars => Blame'
<1> SUFFICES ASSUME TypeInv, Blame, [Next]_vars, NEW t \in Stage, Started(t)'
             PROVE  /\ \A c \in Cand \ current'[t] :
                          \/ StageForCandidate[c] = t
                          \/ /\ StageForCandidate[c] \in Ended'
                             /\ c \notin outcomes'[StageForCandidate[c]].assignment
                    /\ \A d \in GetDependences[t] : current'[t] \subseteq outcomes'[d].assignment
  BY DEF Blame
<1>t. TypeOK /\ Tasks /\ TypeInv'
  BY TypeNext DEF TypeInv
<1> DEFINE Lost(c) == StageForCandidate[c] \in Ended /\ c \notin outcomes[StageForCandidate[c]].assignment
<1>1. ASSUME NEW s \in Stage, Step(s)
      PROVE  /\ \A c \in Cand \ current'[t] : StageForCandidate[c] = t \/ Lost(c)'
             /\ \A d \in GetDependences[t] : current'[t] \subseteq outcomes'[d].assignment
  <2>f. /\ \A u \in Stage \ {s} : /\ task'[u] = task[u] /\ current'[u] = current[u]
                                  /\ outcomes'[u] = outcomes[u]
        /\ s \notin Ended \/ (s \in Ended' /\ outcomes'[s] = outcomes[s] /\ current'[s] = current[s])
        /\ Ended \subseteq Ended'
    BY <1>1, EndedStays
  <2>1. \A u \in Ended : u \in Ended' /\ outcomes'[u] = outcomes[u]
    BY <2>f DEF Ended
  <2>2. \A c : Lost(c) => Lost(c)'
    BY <2>1
  <2>3. task[t] \in {"acquiring", "acquired"} \/ Started(t) =>
            \A d \in GetDependences[t] : d \in Ended /\ outcomes'[d] = outcomes[d]
    BY <1>t, <2>1, StagedAssumption DEF Tasks
  <2>4. CASE Started(t)
    <3>1. /\ \A c \in Cand \ current[t] : StageForCandidate[c] = t \/ Lost(c)
          /\ \A d \in GetDependences[t] : current[t] \subseteq outcomes[d].assignment
      BY <2>4 DEF Blame
    <3>2. current'[t] \subseteq current[t] /\ \A c \in current[t] \ current'[t] : StageForCandidate[c] = t
      <4>1. CASE t = s /\ Refute(s)
        BY <1>t, <4>1, RefutesItsOwn DEF Refute, TypeOK
      <4>2. CASE t = s /\ ~Refute(s)
        BY <1>1, <2>4, <4>2
           DEF Step, WaitForDependences, AcquireHoudiniInstance, StartStage, StoreOutcome,
               ReleaseHoudiniInstance, Throw, Started
      <4> QED BY <2>f, <4>1, <4>2
    <3> HIDE DEF Lost
    <3>3. \A c \in Cand \ current'[t] : StageForCandidate[c] = t \/ Lost(c)'
      BY <2>2, <3>1, <3>2
    <3>4. \A d \in GetDependences[t] : current'[t] \subseteq outcomes'[d].assignment
      BY <2>3, <2>4, <3>1, <3>2
    <3> QED BY <3>3, <3>4
  <2>5. CASE ~Started(t)
    <3>1. t = s /\ StartStage(s)
      BY <1>t, <1>1, <2>5, <2>f
         DEF Step, WaitForDependences, AcquireHoudiniInstance, Refute, StoreOutcome,
             ReleaseHoudiniInstance, Throw, Started, TypeOK
    <3>2. task[t] = "acquired" /\ current'[t] = MergedAssignment(t)
      BY <1>t, <3>1 DEF StartStage, TypeOK
    <3>3. ASSUME NEW c \in Cand \ current'[t] PROVE StageForCandidate[c] = t \/ Lost(c)
      <4>1. PICK u \in Ended : c \notin outcomes[u].assignment
        BY <3>2 DEF MergedAssignment
      <4>2. u \in Stage /\ Started(u) /\ outcomes[u].assignment = current[u]
        BY <1>t, <4>1 DEF Tasks, Ended, Started, Stored
      <4>3. StageForCandidate[c] = u \/ Lost(c)
        BY <4>1, <4>2 DEF Blame
      <4> QED BY <4>1, <4>3
    <3>4. ASSUME NEW d \in GetDependences[t] PROVE current'[t] \subseteq outcomes'[d].assignment
      <4>1. d \in Ended /\ outcomes'[d] = outcomes[d]
        BY <2>3, <3>2
      <4> QED BY <3>2, <4>1 DEF MergedAssignment
    <3> HIDE DEF Lost
    <3> QED BY <2>2, <3>3, <3>4
  <2> QED BY <2>4, <2>5
<1>2. CASE UNCHANGED <<proofs, task, monitor, current, outcomes>>
  BY <1>2 DEF Blame, Started, Ended
<1>3. Join \/ UNCHANGED vars => UNCHANGED <<proofs, task, monitor, current, outcomes>>
  BY DEF Join, vars
<1> QED BY <1>1, <1>2, <1>3 DEF Next

(* With a plan that covers the dependences, a candidate of an inductive    *)
(* set S is never refutable in its stage, as long as the stage assumes S.  *)
LEMMA StageSpares ==
    ASSUME PlanCovers, NEW S \in SUBSET Cand, Inductive(proofs, S), NEW s \in Stage,
           NEW T, S \subseteq T
    PROVE  RefutableInStage(s, T) \cap S = {}
<1> SUFFICES ASSUME NEW i \in Impl, NEW o \in FailingInStage(i, s, T), o.cand \in S PROVE FALSE
  BY DEF RefutableInStage
<1>1. o.cand # NoCand
  BY ProgramAssumption
<1>2. o \in ObligationsOf[i] /\ StageForCandidate[o.cand] = s
  BY <1>1 DEF FailingInStage, AssertedInStage
<1>3. o \in Asserted(i, S) /\ o # RealObligation(i) /\ o \in Obligation
  BY <1>1, <1>2 DEF Asserted, RealObligation, Obligation
<1>4. Provable(proofs, o, S)
  BY <1>3 DEF Inductive, Failing
<1>5. PICK N \in proofs[o] : N \subseteq S \cap houdiniAssumeConstants[o.impl]
  BY <1>4 DEF Provable
<1>6. N \subseteq AssumedInStage(s, T)
  BY <1>1, <1>2, <1>3, <1>5 DEF PlanCovers, AssumedInStage
<1>7. Provable(proofs, o, AssumedInStage(s, T))
  BY <1>5, <1>6 DEF Provable
<1> QED BY <1>7 DEF FailingInStage

LEMMA KeptNext == TypeInv /\ Kept /\ [Next]_vars => Kept'
<1> SUFFICES ASSUME TypeInv, Kept, [Next]_vars, PlanCovers', NEW S \in SUBSET Cand,
                    Inductive(proofs, S)', NEW t \in Stage, Started(t)'
             PROVE  S \subseteq current'[t]
  BY DEF Kept
<1>t. TypeOK /\ Tasks
  BY DEF TypeInv
<1>1. PlanCovers /\ Inductive(proofs, S)
  <2>1. proofs' = proofs
    BY EndedStays DEF Next, Join, vars
  <2> QED BY <2>1 DEF PlanCovers
<1>2. \A u \in Stage : Started(u) => S \subseteq current[u]
  BY <1>1 DEF Kept
<1>3. ASSUME NEW s \in Stage, Step(s) PROVE S \subseteq current'[t]
  <2>1. CASE t # s
    BY <1>2, <1>3, <2>1, EndedStays DEF Started
  <2>2. CASE t = s /\ Refute(s)
    <3>1. Started(s)
      BY <2>2 DEF Refute, Started
    <3>2. PICK X \in SUBSET RefutableInStage(s, current[s]) : current'[s] = current[s] \ X
      BY <1>t, <2>2 DEF Refute, TypeOK
    <3> QED BY <1>1, <1>2, <2>2, <3>1, <3>2, StageSpares
  <2>3. CASE t = s /\ StartStage(s)
    <3>1. current'[s] = MergedAssignment(s)
      BY <1>t, <2>3 DEF StartStage, TypeOK
    <3>2. ASSUME NEW u \in Ended PROVE S \subseteq outcomes[u].assignment
      <4>1. u \in Stage /\ Started(u) /\ outcomes[u].assignment = current[u]
        BY <1>t DEF Tasks, Ended, Started, Stored
      <4> QED BY <1>2, <4>1
    <3> QED BY <2>3, <3>1, <3>2 DEF MergedAssignment
  <2>4. CASE t = s /\ ~Refute(s) /\ ~StartStage(s)
    <3>1. current' = current /\ Started(s)
      BY <1>t, <1>3, <2>4 DEF Step, WaitForDependences, AcquireHoudiniInstance, StoreOutcome,
                              ReleaseHoudiniInstance, Throw, Started, TypeOK
    <3> QED BY <1>2, <2>4, <3>1
  <2> QED BY <2>1, <2>2, <2>3, <2>4
<1>4. CASE Join \/ UNCHANGED vars
  BY <1>2, <1>4 DEF Join, vars, Started
<1> QED BY <1>3, <1>4 DEF Next

LEMMA StagedNext == StagedInv /\ [Next]_vars => StagedInv'
BY TypeNext, BlameNext, KeptNext DEF StagedInv

-----------------------------------------------------------------------------
(* What a stage assumed survives to the end: the outcome that              *)
(* UnifyOutcomes computes contains all that the final inference of any     *)
(* stage relied on.                                                        *)
LEMMA AssumedSurvives ==
    ASSUME StagedInv, main = "done", NEW s \in Stage
    PROVE  AssumedInStage(s, outcomes[s].assignment) \cap Cand \subseteq UnifiedAssignment
<1> SUFFICES ASSUME NEW c \in Cand, c \in outcomes[s].assignment,
                    StageForCandidate[c] \in {s} \cup GetDependences[s], NEW t \in Stage
             PROVE  c \in outcomes[t].assignment
  BY DEF AssumedInStage, UnifiedAssignment
<1>1. \A u \in Stage : Started(u) /\ outcomes[u].assignment = current[u]
  BY DEF StagedInv, TypeInv, Tasks, Started, Stored
<1> DEFINE d == StageForCandidate[c]
<1>2. d \in Stage /\ c \in outcomes[d].assignment
  BY <1>1, StagedAssumption DEF StagedInv, Blame
<1> QED BY <1>1, <1>2 DEF StagedInv, Blame

(* Staging is sound: a plan may be poor, and independent stages may run in *)
(* any order and merge any of the outcomes stored so far, but what         *)
(* UnifyOutcomes returns without errors is inductive.                      *)
THEOREM StagingSound == Spec => []StagedResultInductive
<1>1. ASSUME StagedInv PROVE StagedResultInductive
  <2> SUFFICES ASSUME main = "done", \A i \in Impl : UnifiedOutcome(i) = "Correct",
                      NEW i \in Impl, NEW o \in Failing(proofs, i, UnifiedAssignment),
                      o # RealObligation(i)
               PROVE  FALSE
    BY DEF StagedResultInductive, Inductive
  <2> DEFINE s == StageForCandidate[o.cand]
             T == outcomes[s].assignment
  <2>1. o \in ObligationsOf[i] /\ o.cand \in UnifiedAssignment /\ o.cand \in Cand
    <3>1. PICK a \in AssertsIn(i) : o = [impl |-> i, cand |-> a.cand, kind |-> a.kind, at |-> a.at]
      BY DEF Failing, Asserted, ObligationsOf, CandidateObligation
    <3>2. o.cand \in Cand /\ o.cand # NoCand
      BY <3>1, ProgramAssumption DEF AssertsIn, Annotation
    <3> QED BY <3>2 DEF Failing, Asserted
  <2>2. s \in Stage
    BY <2>1, StagedAssumption
  <2>3. /\ T = current[s] /\ T \in SUBSET Cand
        /\ outcomes[s].implementationOutcomes = ImplementationOutcomes(s, current[s])
    BY <1>1, <2>2 DEF StagedInv, TypeInv, TypeOK, Tasks, Stored
  <2>4. FailingInStage(i, s, T) = {}
    <3>1. outcomes[s].implementationOutcomes[i] # "Errors"
      BY <2>2 DEF UnifiedOutcome
    <3> QED BY <2>3, <3>1 DEF ImplementationOutcomes
  <2>5. o \in AssertedInStage(i, s, T)
    BY <2>1, <2>2 DEF AssertedInStage, UnifiedAssignment
  <2>6. Provable(proofs, o, AssumedInStage(s, T))
    BY <2>4, <2>5 DEF FailingInStage
  <2>7. AssumedInStage(s, T) \subseteq UnifiedAssignment
    BY <1>1, <2>2, <2>3, AssumedSurvives DEF AssumedInStage
  <2>8. Provable(proofs, o, UnifiedAssignment)
    BY <2>6, <2>7 DEF Provable
  <2> QED BY <2>8 DEF Failing
<1> QED BY <1>1, StagedInit, StagedNext, PTL DEF Spec

(* Staging loses nothing when the plan covers the dependences between      *)
(* candidates: no stage refutes a candidate because of a stage that it did *)
(* not wait for.                                                           *)
THEOREM StagingComplete == Spec => []StagedLosesNoInductiveSet
<1>1. ASSUME StagedInv PROVE StagedLosesNoInductiveSet
  <2>1. main = "done" => \A s \in Stage : Started(s) /\ outcomes[s].assignment = current[s]
    BY <1>1 DEF StagedInv, TypeInv, Tasks, Started, Stored
  <2> QED BY <1>1, <2>1 DEF StagedInv, Kept, StagedLosesNoInductiveSet, UnifiedAssignment
<1> QED BY <1>1, StagedInit, StagedNext, PTL DEF Spec
=============================================================================
