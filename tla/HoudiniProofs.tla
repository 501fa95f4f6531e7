--------------------------- MODULE HoudiniProofs ---------------------------
(***************************************************************************)
(* Proofs about the Houdini work-list algorithm, for every program,        *)
(* oracle, prover behaviour and work-list order.                           *)
(***************************************************************************)
EXTENDS HoudiniRefinement, HoudiniSessionProofs

-----------------------------------------------------------------------------
(* Enqueue queues the members of S and keeps what is queued.               *)
LEMMA EnqueueFacts ==
    ASSUME queue \in Seq(Impl \ VcgenFailures), NEW S \in SUBSET (Impl \ VcgenFailures),
           Enqueue(S)
    PROVE  /\ queue' \in Seq(Impl \ VcgenFailures)
           /\ Range(queue') = Range(queue) \cup S
           /\ IsInjective(queue) => IsInjective(queue')
<1> DEFINE new == S \ Range(queue)
<1>1. PICK t \in Bijection(1 .. Cardinality(new), new) : queue' = queue \o t
  BY DEF Enqueue
<1> QED BY <1>1, EnqueueNew

-----------------------------------------------------------------------------
(* Types.                                                                  *)

TypeInv == TypeOK /\ VcgenFailures \subseteq blackList

(* The implementations a refutation queues have a VC.                      *)
LEMMA EnqueuedTypes ==
    ASSUME NEW i \in Impl, NEW errors \in SUBSET ObligationsOf[i], RealErrors(errors) = {},
           TypeInv
    PROVE  (UNION {FindImplementationsToEnqueue(unsatCore, o) : o \in errors}) \ blackList
               \in SUBSET (Impl \ VcgenFailures)
<1>1. ASSUME NEW o \in errors PROVE Visited(o) \subseteq Impl
  BY VisitedType DEF RealErrors
<1> QED BY <1>1 DEF FindImplementationsToEnqueue, TypeInv

LEMMA OutcomeTypes ==
    ASSUME TypeInv, NEW i \in Impl, NEW answer \in Verify(proofs, i, assignment),
           UpdateHoudiniOutcome(i, answer)
    PROVE  /\ outcomes' \in [Impl -> Outcome \cup {"None"}]
           /\ nonCandidateErrors' \in [Impl -> SUBSET Obligation]
<1>1. answer.outcome \in Outcome /\ RealErrors(answer.errors) \in SUBSET Obligation
  BY AnswerFacts DEF RealErrors
<1> QED BY <1>1 DEF TypeInv, TypeOK, UpdateHoudiniOutcome

LEMMA TypeInit == Init => TypeInv
<1> SUFFICES ASSUME Init PROVE TypeInv
  OBVIOUS
<1> DEFINE todo == Impl \ VcgenFailures
<1>1. queue \in Bijection(1 .. Cardinality(todo), todo)
  BY DEF Init, BuildWorkList
<1>2. queue \in Seq(todo)
  BY <1>1, EnumerationType
<1>3. proofs \in [Obligation -> SUBSET SUBSET Cand]
  BY HoudiniAssumption DEF Init
<1> QED BY <1>2, <1>3, SessionAssumption DEF Init, TypeInv, TypeOK

LEMMA TypeNext == TypeInv /\ [Next]_vars => TypeInv'
<1> SUFFICES ASSUME TypeInv, [Next]_vars PROVE TypeInv'
  OBVIOUS
<1>1. CASE Turn
  <2> DEFINE i == Head(queue)
  <2>1. queue \in Seq(Impl \ VcgenFailures) /\ queue # <<>>
    BY <1>1 DEF TypeInv, TypeOK, Turn
  <2>2. i \in Impl \ VcgenFailures /\ Tail(queue) \in Seq(Impl \ VcgenFailures)
    BY <2>1, DequeueFacts
  <2>3. PICK answer \in Verify(proofs, i, assignment) :
            \/ VerifyValid(i, answer) \/ VerifyRefuted(i, answer)
            \/ VerifyCrashes(i, answer) \/ VerifyAborts(i, answer)
            \/ VerifyInconclusive(i, answer) \/ FlushWorkList(i, answer)
    BY <1>1 DEF Turn
  <2>4. UpdateHoudiniOutcome(i, answer)
    BY <2>3 DEF VerifyValid, VerifyRefuted, VerifyCrashes, VerifyAborts,
                VerifyInconclusive, FlushWorkList
  <2>5. /\ outcomes' \in [Impl -> Outcome \cup {"None"}]
        /\ nonCandidateErrors' \in [Impl -> SUBSET Obligation]
    BY <2>2, <2>4, OutcomeTypes
  <2> HIDE DEF i
  <2>6. CASE VerifyValid(i, answer)
    <3>1. unsatCore' \in [Impl -> {NoCore} \cup SUBSET Cand]
      <4>1. CASE UseUnsatCore
        <5>1. PICK K \in UnsatCores(proofs, i, assignment) :
                  unsatCore' = [unsatCore EXCEPT ![i] = K]
          BY <2>6, <4>1 DEF VerifyValid
        <5>2. K \in SUBSET Cand
          BY <5>1, HoudiniAssumption DEF UnsatCores, TypeInv, TypeOK
        <5> QED BY <5>1, <5>2 DEF TypeInv, TypeOK
      <4>2. CASE ~UseUnsatCore
        BY <2>6, <4>2 DEF VerifyValid, TypeInv, TypeOK
      <4> QED BY <4>1, <4>2
    <3>2. queue' \in Seq(Impl \ VcgenFailures)
      BY <2>2, <2>6 DEF VerifyValid, Dequeue
    <3> QED BY <2>5, <2>6, <3>1, <3>2 DEF VerifyValid, TypeInv, TypeOK
  <2>7. CASE VerifyRefuted(i, answer)
    <3>1. queue' \in Seq(Impl \ VcgenFailures)
      <4>1. CASE answer.errors = {}
        BY <2>2, <2>7, <4>1 DEF VerifyRefuted, Dequeue
      <4>2. CASE answer.errors # {}
        <5>1. answer.errors \in SUBSET ObligationsOf[i] /\ RealErrors(answer.errors) = {}
          BY <2>2, <2>7, AnswerFacts DEF VerifyRefuted
        <5> DEFINE S == (UNION {FindImplementationsToEnqueue(unsatCore, o) :
                                    o \in answer.errors}) \ blackList
        <5>2. S \in SUBSET (Impl \ VcgenFailures)
          BY <2>2, <5>1, EnqueuedTypes
        <5>3. Enqueue(S)
          BY <2>7, <4>2 DEF VerifyRefuted
        <5> HIDE DEF S
        <5> QED BY <2>1, <5>2, <5>3, EnqueueFacts
      <4> QED BY <4>1, <4>2
    <3>2. assignment' \in SUBSET InitialAssignment
      BY <2>7 DEF VerifyRefuted, UpdateAssignment, TypeInv, TypeOK
    <3> QED BY <2>5, <2>7, <3>1, <3>2 DEF VerifyRefuted, TypeInv, TypeOK
  <2>8. CASE VerifyCrashes(i, answer)
    BY <2>5, <2>8 DEF VerifyCrashes, TypeInv, TypeOK
  <2>9. CASE VerifyAborts(i, answer)
    BY <2>2, <2>5, <2>9 DEF VerifyAborts, Dequeue, TypeInv, TypeOK, i
  <2>10. CASE VerifyInconclusive(i, answer)
    BY <2>2, <2>5, <2>10 DEF VerifyInconclusive, Dequeue, TypeInv, TypeOK, i
  <2>11. CASE FlushWorkList(i, answer)
    BY <2>2, <2>5, <2>11 DEF FlushWorkList, Dequeue, TypeInv, TypeOK, i
  <2> QED BY <2>3, <2>6, <2>7, <2>8, <2>9, <2>10, <2>11
<1>2. CASE Finish
  BY <1>2 DEF Finish, TypeInv, TypeOK
<1>3. CASE UNCHANGED vars
  BY <1>3 DEF vars, state, TypeInv, TypeOK
<1> QED BY <1>1, <1>2, <1>3 DEF Next

(* Type correctness of PerformHoudiniInference: in particular only         *)
(* implementations that have a session are ever queued.                    *)
THEOREM Types == Spec => []TypeOK
<1>1. TypeInv => TypeOK
  BY DEF TypeInv
<1> QED BY <1>1, TypeInit, TypeNext, PTL DEF Spec

-----------------------------------------------------------------------------
(***************************************************************************)
(* Soundness of the work list.  VerifiedUpToDate is not inductive: when an *)
(* unsat core kept an implementation off the queue, the next refutation    *)
(* must find that core still sufficient.                                   *)
(***************************************************************************)
CoresOnlyIfUsed == UseUnsatCore \/ \A i \in Impl : unsatCore[i] = NoCore

SoundInv ==
    /\ TypeInv
    /\ CoresOnlyIfUsed
    /\ VerifiedUpToDate
    /\ ~CoreQueryMayFail => UnsatCoreSuffices

LEMMA CoreSufficesIsSufficient ==
    ASSUME NEW i PROVE CoreSuffices(i) <=> SufficientCore(proofs, i, unsatCore[i], assignment)
BY DEF CoreSuffices, SufficientCore

LEMMA SoundInit == Init => SoundInv
<1> SUFFICES ASSUME Init PROVE SoundInv
  OBVIOUS
<1>1. \A i \in Impl : outcomes[i] # "Valid" /\ unsatCore[i] = NoCore
  BY DEF Init
<1> QED BY <1>1, TypeInit DEF SoundInv, CoresOnlyIfUsed, VerifiedUpToDate, UnsatCoreSuffices

LEMMA SoundNext == SoundInv /\ [Next]_vars => SoundInv'
<1> SUFFICES ASSUME SoundInv, [Next]_vars PROVE SoundInv'
  OBVIOUS
<1>t. TypeInv /\ TypeInv'
  BY TypeNext DEF SoundInv
<1> DEFINE Settled(j) == /\ Failing(proofs, j, assignment) = {}
                         /\ pc = "infer" /\ unsatCore[j] # NoCore => CoreSuffices(j)
<1>s. ASSUME NoTimeout, ~CoreQueryMayFail, NEW j \in Impl,
             outcomes[j] = "Valid", j \notin Range(queue)
      PROVE  Settled(j)
  BY <1>s DEF SoundInv, VerifiedUpToDate, UnsatCoreSuffices
<1>g. ASSUME CoresOnlyIfUsed',
             NoTimeout' /\ ~CoreQueryMayFail => \A j \in Impl :
                 outcomes'[j] = "Valid" /\ j \notin Range(queue') => Settled(j)'
      PROVE  SoundInv'
  BY <1>t, <1>g DEF SoundInv, VerifiedUpToDate, UnsatCoreSuffices
<1>1. CASE Turn
  <2>1. queue \in Seq(Impl \ VcgenFailures) /\ queue # <<>>
    BY <1>t, <1>1 DEF TypeInv, TypeOK, Turn
  <2>2. PICK i \in Impl \ VcgenFailures :
        /\ i = Head(queue)
        /\ i \in Range(queue)
        /\ Range(queue) \subseteq Range(Tail(queue)) \cup {i}
    BY <2>1, DequeueFacts
  <2>3. PICK answer \in Verify(proofs, i, assignment) :
            \/ VerifyValid(i, answer) \/ VerifyRefuted(i, answer)
            \/ VerifyCrashes(i, answer) \/ VerifyAborts(i, answer)
            \/ VerifyInconclusive(i, answer) \/ FlushWorkList(i, answer)
    BY <1>1, <2>2 DEF Turn
  <2>4. outcomes' = [outcomes EXCEPT ![i] = answer.outcome]
    BY <2>3 DEF VerifyValid, VerifyRefuted, VerifyCrashes, VerifyAborts,
                VerifyInconclusive, FlushWorkList, UpdateHoudiniOutcome
  <2>5. /\ outcomes'[i] = answer.outcome
        /\ \A j \in Impl : j # i => outcomes'[j] = outcomes[j]
    BY <1>t, <2>2, <2>4 DEF TypeInv, TypeOK
  \* No candidate is removed, i is dequeued and other sessions keep their cores.
  <2>6. ASSUME UNCHANGED <<proofs, assignment>>, Range(queue) \subseteq Range(queue') \cup {i},
               NoTimeout' => NoTimeout, pc' = "infer" => pc = "infer",
               \A j \in Impl : j # i => unsatCore'[j] = unsatCore[j],
               CoresOnlyIfUsed',
               answer.outcome = "Valid" /\ NoTimeout' /\ ~CoreQueryMayFail => Settled(i)'
        PROVE  SoundInv'
    <3>1. ASSUME NoTimeout', ~CoreQueryMayFail, NEW j \in Impl,
                 outcomes'[j] = "Valid", j \notin Range(queue')
          PROVE  Settled(j)'
      <4>1. CASE j = i
        BY <2>5, <2>6, <3>1, <4>1
      <4>2. CASE j # i
        <5>1. Settled(j)
          BY <1>s, <2>5, <2>6, <3>1, <4>2
        <5>2. unsatCore'[j] = unsatCore[j]
          BY <2>6, <4>2
        <5> QED BY <2>6, <5>1, <5>2 DEF CoreSuffices
      <4> QED BY <4>1, <4>2
    <3> HIDE DEF Settled
    <3> QED BY <1>g, <2>6, <3>1
  <2>7. CASE VerifyValid(i, answer)
    <3>1. /\ UNCHANGED <<proofs, assignment, blackList, pc>>
          /\ queue' = Tail(queue) /\ answer.outcome = "Valid" /\ pc = "infer"
      BY <2>7 DEF VerifyValid, Dequeue
    <3>2. Failing(proofs, i, assignment)' = {}
      BY <2>2, <3>1, AnswerFacts
    <3>3. CASE UseUnsatCore
      <4>1. PICK K \in UnsatCores(proofs, i, assignment) :
                unsatCore' = [unsatCore EXCEPT ![i] = K]
        BY <2>7, <3>3 DEF VerifyValid
      <4>2. /\ unsatCore'[i] = K
            /\ \A j \in Impl : j # i => unsatCore'[j] = unsatCore[j]
        BY <1>t, <2>2, <4>1 DEF TypeInv, TypeOK
      <4>3. ~CoreQueryMayFail => CoreSuffices(i)'
        <5> SUFFICES ASSUME ~CoreQueryMayFail PROVE CoreSuffices(i)'
          OBVIOUS
        <5>1. SufficientCore(proofs, i, K, assignment)
          BY NewCoreSuffices
        <5> QED BY <3>1, <4>2, <5>1 DEF CoreSuffices, SufficientCore
      <4>4. CoresOnlyIfUsed'
        BY <3>3 DEF CoresOnlyIfUsed
      <4>5. /\ Range(queue) \subseteq Range(queue') \cup {i}
            /\ NoTimeout' => NoTimeout
        BY <2>2, <3>1 DEF NoTimeout
      <4> QED BY <2>6, <3>1, <3>2, <4>2, <4>3, <4>4, <4>5
    <3>4. CASE ~UseUnsatCore
      <4>1. unsatCore' = unsatCore /\ unsatCore[i] = NoCore
        BY <2>2, <2>7, <3>4 DEF VerifyValid, SoundInv, CoresOnlyIfUsed
      <4>2. CoresOnlyIfUsed'
        BY <4>1 DEF SoundInv, CoresOnlyIfUsed
      <4>3. /\ Range(queue) \subseteq Range(queue') \cup {i}
            /\ NoTimeout' => NoTimeout
        BY <2>2, <3>1 DEF NoTimeout
      <4> QED BY <2>6, <3>1, <3>2, <4>1, <4>2, <4>3
    <3> QED BY <3>3, <3>4
  <2>8. CASE VerifyRefuted(i, answer)
    <3> DEFINE errors == answer.errors
               R == {o.cand : o \in errors}
               S == (UNION {FindImplementationsToEnqueue(unsatCore, o) : o \in errors}) \ blackList
    <3>1. /\ UNCHANGED <<proofs, blackList, unsatCore, pc>>
          /\ assignment' = assignment \ R
          /\ answer.outcome = "Invalid" /\ pc = "infer"
          /\ errors = {} => queue' = Tail(queue)
          /\ errors # {} => Enqueue(S)
          /\ \A o \in errors : ~NullSession(o)
          /\ RealErrors(errors) = {}
      BY <2>8 DEF VerifyRefuted, Dequeue, UpdateAssignment
    <3>2. errors \in SUBSET ObligationsOf[i]
      BY <2>2, AnswerFacts
    <3>3. S \in SUBSET (Impl \ VcgenFailures)
      BY <1>t, <2>2, <3>1, <3>2, EnqueuedTypes
    <3>4. CoresOnlyIfUsed'
      BY <3>1 DEF SoundInv, CoresOnlyIfUsed
    <3>5. ASSUME NoTimeout', ~CoreQueryMayFail, NEW j \in Impl,
                 outcomes'[j] = "Valid", j \notin Range(queue')
          PROVE  Settled(j)'
      <4>1. NoTimeout /\ j # i /\ outcomes[j] = "Valid"
        BY <2>5, <3>1, <3>5 DEF NoTimeout
      <4>2. j \notin Range(queue) /\ (errors # {} => j \notin S)
        <5>1. CASE errors = {}
          BY <2>2, <3>1, <3>5, <4>1, <5>1
        <5>2. CASE errors # {}
          <6> HIDE DEF S
          <6> QED BY <2>1, <3>1, <3>3, <3>5, <5>2, EnqueueFacts
        <5> QED BY <5>1, <5>2
      <4>3. Failing(proofs, j, assignment) = {} /\ (unsatCore[j] # NoCore => CoreSuffices(j))
        BY <1>s, <3>1, <3>5, <4>1, <4>2
      <4>4. ASSUME NEW c \in R \cap houdiniAssumeConstants[j]
            PROVE  ~InUnsatCore(unsatCore, j, c)
        <5>1. PICK o \in errors : o.cand = c
          OBVIOUS
        <5>2. o.cand # NoCand
          BY <3>1, <5>1 DEF RealErrors
        <5>3. j \in Visited(o)
          BY <2>2, <3>2, <4>1, <4>4, <5>1, <5>2, RefutationReaches
        <5>4. j \notin blackList
          BY <3>1, <4>1, <5>1, <5>3 DEF NullSession, NoTimeout
        <5>5. j \notin FindImplementationsToEnqueue(unsatCore, o)
          BY <4>2, <5>1, <5>4
        <5> QED BY <5>1, <5>3, <5>5 DEF FindImplementationsToEnqueue
      <4> HIDE DEF R
      <4>5. /\ Failing(proofs, j, assignment \ R) = {}
            /\ unsatCore[j] # NoCore => SufficientCore(proofs, j, unsatCore[j], assignment \ R)
        BY <4>3, <4>4, RefutationKeepsSettled, CoreSufficesIsSufficient
      <4>6. unsatCore[j] # NoCore => CoreSuffices(j)'
        BY <3>1, <4>5 DEF CoreSuffices, SufficientCore
      <4> QED BY <3>1, <4>5, <4>6
    <3> HIDE DEF Settled
    <3> QED BY <1>g, <3>4, <3>5
  <2>9. CASE VerifyCrashes(i, answer)
    <3>1. CoresOnlyIfUsed'
      BY <2>9 DEF VerifyCrashes, SoundInv, CoresOnlyIfUsed
    <3> QED BY <2>6, <2>9, <3>1 DEF VerifyCrashes, NoTimeout
  <2>10. CASE VerifyAborts(i, answer)
    <3>1. CoresOnlyIfUsed'
      BY <2>10 DEF VerifyAborts, SoundInv, CoresOnlyIfUsed
    <3>2. Range(queue) \subseteq Range(queue') \cup {i}
      BY <2>2, <2>10 DEF VerifyAborts, Dequeue
    <3> QED BY <2>6, <2>10, <3>1, <3>2 DEF VerifyAborts, NoTimeout
  <2>11. CASE VerifyInconclusive(i, answer)
    <3>1. CoresOnlyIfUsed'
      BY <2>11 DEF VerifyInconclusive, SoundInv, CoresOnlyIfUsed
    <3>2. ~NoTimeout'
      BY <2>2, <2>11 DEF VerifyInconclusive, NoTimeout
    <3> HIDE DEF Settled
    <3> QED BY <1>g, <3>1, <3>2
  <2>12. CASE FlushWorkList(i, answer)
    <3>1. CoresOnlyIfUsed'
      BY <2>12 DEF FlushWorkList, SoundInv, CoresOnlyIfUsed
    <3>2. Range(queue) \subseteq Range(queue') \cup {i}
      BY <2>2, <2>12 DEF FlushWorkList, Dequeue
    <3>3. answer.outcome = "Valid" => Failing(proofs, i, assignment)' = {}
      BY <2>2, <2>12, AnswerFacts DEF FlushWorkList
    <3> QED BY <2>6, <2>12, <3>1, <3>2, <3>3 DEF FlushWorkList, NoTimeout
  <2> QED BY <2>3, <2>7, <2>8, <2>9, <2>10, <2>11, <2>12
<1>2. CASE Finish
  <2>1. CoresOnlyIfUsed'
    BY <1>2 DEF Finish, SoundInv, CoresOnlyIfUsed
  <2>2. ASSUME NoTimeout', ~CoreQueryMayFail, NEW j \in Impl,
               outcomes'[j] = "Valid", j \notin Range(queue')
        PROVE  Settled(j)'
    <3>1. Settled(j)
      BY <1>s, <1>2, <2>2 DEF Finish, NoTimeout
    <3> QED BY <1>2, <3>1 DEF Finish
  <2> HIDE DEF Settled
  <2> QED BY <1>g, <2>1, <2>2
<1>3. CASE UNCHANGED vars
  BY <1>t, <1>3 DEF vars, state, SoundInv, CoresOnlyIfUsed, VerifiedUpToDate,
                    UnsatCoreSuffices, CoreSuffices, NoTimeout
<1> QED BY <1>1, <1>2, <1>3 DEF Next

(***************************************************************************)
(* An implementation that PerformHoudiniInference recorded as Valid and    *)
(* took off the queue has a valid VC under the current assignment, as long *)
(* as no query timed out and the unsat-core queries are answered.          *)
(***************************************************************************)
THEOREM WorkListSound == Spec => []VerifiedUpToDate
<1>1. SoundInv => VerifiedUpToDate
  BY DEF SoundInv
<1> QED BY <1>1, SoundInit, SoundNext, PTL DEF Spec

(* With session.UpdateUnsatCore answered, the set InUnsatCore consults is  *)
(* a core of the VC under every later assignment.                          *)
THEOREM CoresSound == Spec => [](~CoreQueryMayFail => UnsatCoreSuffices)
<1>1. SoundInv => (~CoreQueryMayFail => UnsatCoreSuffices)
  BY DEF SoundInv
<1> QED BY <1>1, SoundInit, SoundNext, PTL DEF Spec

-----------------------------------------------------------------------------
(* Houdini keeps the largest inductive set.                                *)

LargestInv == TypeInv /\ LosesNoInductiveSet

LEMMA LargestNext == LargestInv /\ [Next]_vars => LargestInv'
<1> SUFFICES ASSUME LargestInv, [Next]_vars PROVE LargestInv'
  OBVIOUS
<1>t. TypeInv /\ TypeInv'
  BY TypeNext DEF LargestInv
<1> SUFFICES ASSUME NoTimeout', ~Incomplete, NEW S \in SUBSET InitialAssignment,
                    Inductive(proofs, S)'
             PROVE  S \subseteq assignment'
  BY <1>t DEF LargestInv, LosesNoInductiveSet
<1>1. ASSUME NoTimeout, proofs' = proofs PROVE Inductive(proofs, S) /\ S \subseteq assignment
  <2>1. Inductive(proofs, S)
    BY <1>1
  <2> QED BY <1>1, <2>1 DEF LargestInv, LosesNoInductiveSet
<1>2. CASE Turn
  <2>1. queue \in Seq(Impl \ VcgenFailures) /\ queue # <<>>
    BY <1>t, <1>2 DEF TypeInv, TypeOK, Turn
  <2>2. PICK i \in Impl \ VcgenFailures : i = Head(queue)
    BY <2>1, DequeueFacts
  <2>3. PICK answer \in Verify(proofs, i, assignment) :
            \/ VerifyValid(i, answer) \/ VerifyRefuted(i, answer)
            \/ VerifyCrashes(i, answer) \/ VerifyAborts(i, answer)
            \/ VerifyInconclusive(i, answer) \/ FlushWorkList(i, answer)
    BY <1>2, <2>2 DEF Turn
  <2>4. CASE VerifyRefuted(i, answer)
    <3>1. /\ proofs' = proofs /\ NoTimeout
          /\ assignment' = assignment \ {o.cand : o \in answer.errors}
          /\ answer.outcome = "Invalid" /\ RealErrors(answer.errors) = {}
      BY <2>4 DEF VerifyRefuted, UpdateAssignment, NoTimeout
    <3>2. answer.errors \subseteq Failing(proofs, i, assignment)
      BY <3>1, AnswerFacts
    <3>3. S \subseteq assignment /\ Inductive(proofs, S)
      BY <1>1, <3>1
    <3>4. ASSUME NEW o \in answer.errors PROVE o.cand \notin S
      <4>1. o.cand # NoCand
        BY <3>1 DEF RealErrors
      <4> QED BY <3>2, <3>3, <4>1, RefutedOutside
    <3> QED BY <3>1, <3>3, <3>4
  <2>5. CASE VerifyInconclusive(i, answer)
    BY <1>t, <2>5 DEF VerifyInconclusive, NoTimeout, TypeInv
  <2>6. CASE VerifyValid(i, answer)
    BY <1>1, <2>6 DEF VerifyValid, NoTimeout
  <2>7. CASE VerifyCrashes(i, answer)
    BY <1>1, <2>7 DEF VerifyCrashes, NoTimeout
  <2>8. CASE VerifyAborts(i, answer)
    BY <1>1, <2>8 DEF VerifyAborts, NoTimeout
  <2>9. CASE FlushWorkList(i, answer)
    BY <1>1, <2>9 DEF FlushWorkList, NoTimeout
  <2> QED BY <2>3, <2>4, <2>5, <2>6, <2>7, <2>8, <2>9
<1>3. CASE Finish
  BY <1>1, <1>3 DEF Finish, NoTimeout
<1>4. CASE UNCHANGED vars
  BY <1>1, <1>4 DEF vars, state, NoTimeout
<1> QED BY <1>2, <1>3, <1>4 DEF Next

(* No candidate of an inductive set is ever refuted, whatever the order in *)
(* which the work list is processed, as long as the prover is complete and *)
(* conclusive: the result is the largest inductive set.                    *)
THEOREM KeepsInductiveSets == Spec => []LosesNoInductiveSet
<1>1. Init => LargestInv
  BY TypeInit DEF Init, LargestInv, LosesNoInductiveSet
<1>2. LargestInv => LosesNoInductiveSet
  BY DEF LargestInv
<1> QED BY <1>1, <1>2, LargestNext, PTL DEF Spec

-----------------------------------------------------------------------------
(* Houdini decides whether the program verifies.                           *)

Conclusive == VcgenFailures = {} /\ Inconclusive = {} /\ ~Incomplete

(* An assertion of i that no candidate guards fails, and i is reported.    *)
Rejected(i) ==
    RealObligation(i) \in Failing(proofs, i, assignment) /\ outcomes[i] = "Invalid"

(* The loop owes every implementation a verification, until it aborts.     *)
Owed ==
    /\ pc = "infer" => \A i \in Impl : i \in Range(queue) \/ outcomes[i] = "Valid"
    /\ pc = "flush" => \E i \in Impl : Rejected(i)
    /\ pc = "done" => \/ queue = <<>> /\ \A i \in Impl : outcomes[i] = "Valid"
                      \/ \E i \in Impl : Rejected(i)

OwedInv == TypeInv /\ (Conclusive => Owed)

LEMMA OwedInit == Init => OwedInv
<1> SUFFICES ASSUME Init, Conclusive PROVE Owed
  BY TypeInit DEF OwedInv
<1>1. queue \in Bijection(1 .. Cardinality(Impl), Impl)
  BY DEF Init, BuildWorkList, Conclusive
<1>2. Range(queue) = Impl
  BY <1>1, EnumerationType
<1> QED BY <1>2 DEF Init, Owed

LEMMA OwedNext == OwedInv /\ [Next]_vars => OwedInv'
<1> SUFFICES ASSUME OwedInv, [Next]_vars, Conclusive PROVE Owed'
  BY TypeNext DEF OwedInv, Conclusive
<1>t. TypeInv /\ Owed
  BY DEF OwedInv
<1>1. CASE Turn
  <2>1. queue \in Seq(Impl \ VcgenFailures) /\ queue # <<>>
    BY <1>t, <1>1 DEF TypeInv, TypeOK, Turn
  <2>2. PICK i \in Impl : i = Head(queue) /\ Range(queue) \subseteq Range(Tail(queue)) \cup {i}
    BY <2>1, DequeueFacts
  <2>3. PICK answer \in Verify(proofs, i, assignment) :
            \/ VerifyValid(i, answer) \/ VerifyRefuted(i, answer)
            \/ VerifyCrashes(i, answer) \/ VerifyAborts(i, answer)
            \/ VerifyInconclusive(i, answer) \/ FlushWorkList(i, answer)
    BY <1>1, <2>2 DEF Turn
  <2>4. outcomes' = [outcomes EXCEPT ![i] = answer.outcome]
    BY <2>3 DEF VerifyValid, VerifyRefuted, VerifyCrashes, VerifyAborts,
                VerifyInconclusive, FlushWorkList, UpdateHoudiniOutcome
  <2>5. /\ outcomes'[i] = answer.outcome
        /\ \A j \in Impl : j # i => outcomes'[j] = outcomes[j]
    BY <1>t, <2>2, <2>4 DEF TypeInv, TypeOK
  <2>6. answer.outcome = "Valid" \/ answer.outcome = "Invalid"
    BY DEF Verify, Conclusive
  <2>7. CASE VerifyValid(i, answer)
    <3>1. pc = "infer" /\ pc' = "infer" /\ queue' = Tail(queue) /\ answer.outcome = "Valid"
      BY <2>7 DEF VerifyValid, Dequeue
    <3> QED BY <1>t, <2>2, <2>5, <3>1 DEF Owed
  <2>8. CASE VerifyRefuted(i, answer)
    <3> DEFINE S == (UNION {FindImplementationsToEnqueue(unsatCore, o) :
                                o \in answer.errors}) \ blackList
    <3>1. /\ pc = "infer" /\ pc' = "infer"
          /\ answer.outcome = "Invalid" /\ RealErrors(answer.errors) = {}
          /\ answer.errors # {} => Enqueue(S)
      BY <2>8 DEF VerifyRefuted
    <3>2. answer.errors # {} /\ answer.errors \in SUBSET ObligationsOf[i]
      BY <3>1, AnswerFacts DEF Conclusive
    <3>3. S \in SUBSET (Impl \ VcgenFailures)
      BY <1>t, <3>1, <3>2, EnqueuedTypes
    <3>4. Range(queue) \subseteq Range(queue')
      <4> HIDE DEF S
      <4> QED BY <2>1, <3>1, <3>2, <3>3, EnqueueFacts
    <3>5. i \in Range(queue)
      BY <2>1, <2>2, DequeueFacts
    <3> QED BY <1>t, <2>5, <3>1, <3>4, <3>5 DEF Owed
  <2>9. CASE VerifyCrashes(i, answer)
    BY <2>9 DEF VerifyCrashes, NullSession, Conclusive
  <2>10. CASE VerifyAborts(i, answer)
    <3>1. /\ pc' = "flush" /\ UNCHANGED <<proofs, assignment>>
          /\ answer.outcome = "Invalid" /\ RealErrors(answer.errors) # {}
      BY <2>10 DEF VerifyAborts
    <3>2. RealObligation(i) \in answer.errors
      BY <3>1, AnswerFacts DEF RealErrors
    <3>3. RealObligation(i) \in Failing(proofs, i, assignment)
      BY <3>1, <3>2, AnswerFacts DEF Conclusive
    <3>4. Rejected(i)'
      BY <2>5, <3>1, <3>3 DEF Rejected
    <3> QED BY <3>1, <3>4 DEF Owed
  <2>11. CASE VerifyInconclusive(i, answer)
    BY <2>11 DEF VerifyInconclusive, Conclusive
  <2>12. CASE FlushWorkList(i, answer)
    <3>1. pc = "flush" /\ pc' = "flush" /\ UNCHANGED <<proofs, assignment>>
      BY <2>12 DEF FlushWorkList
    <3>2. PICK j \in Impl : Rejected(j)
      BY <1>t, <3>1 DEF Owed
    <3>3. j = i => answer.outcome = "Invalid"
      BY <2>6, <3>2, AnswerFacts DEF Rejected
    <3>4. Rejected(j)'
      BY <2>5, <3>1, <3>2, <3>3 DEF Rejected
    <3> QED BY <3>1, <3>4 DEF Owed
  <2> QED BY <2>3, <2>7, <2>8, <2>9, <2>10, <2>11, <2>12
<1>2. CASE Finish
  <2>1. queue = <<>> /\ UNCHANGED <<queue, proofs, assignment, outcomes>> /\ pc' = "done"
    BY <1>2 DEF Finish
  <2>2. Range(queue) = {}
    BY <2>1 DEF Range
  <2>3. CASE pc = "infer"
    BY <1>t, <2>1, <2>2, <2>3 DEF Owed
  <2>4. CASE pc = "flush"
    BY <1>t, <2>1, <2>4 DEF Owed, Rejected
  <2> QED BY <1>2, <2>3, <2>4 DEF Finish
<1>3. CASE UNCHANGED vars
  BY <1>t, <1>3 DEF vars, state, Owed, Rejected
<1> QED BY <1>1, <1>2, <1>3 DEF Next

(* The three invariants at the end of a conclusive run.                    *)
LEMMA DecisionAtEnd ==
    ASSUME SoundInv, LargestInv, OwedInv PROVE DecidesExistence
<1> SUFFICES ASSUME pc = "done", VcgenFailures = {}, NoTimeout, Inconclusive = {},
                    ~Incomplete, ~CoreQueryMayFail
             PROVE  /\ (\A i \in Impl : outcomes[i] = "Valid") <=>
                            \E S \in SUBSET InitialAssignment : AllValid(proofs, S)
                    /\ (\A i \in Impl : outcomes[i] = "Valid") => AllValid(proofs, assignment)
  BY DEF DecidesExistence
<1>1. Owed
  BY DEF OwedInv, Conclusive
<1>2. ASSUME queue = <<>>, \A i \in Impl : outcomes[i] = "Valid"
      PROVE  AllValid(proofs, assignment)
  <2>1. Range(queue) = {}
    BY <1>2 DEF Range
  <2> QED BY <1>2, <2>1 DEF SoundInv, VerifiedUpToDate, AllValid
<1>3. ASSUME NEW i \in Impl, Rejected(i), NEW S \in SUBSET InitialAssignment,
             AllValid(proofs, S)
      PROVE  FALSE
  <2>1. Inductive(proofs, S)
    BY <1>3 DEF AllValid, Inductive
  <2>2. S \subseteq assignment
    BY <2>1 DEF LargestInv, LosesNoInductiveSet
  <2>3. RealObligation(i) \in Asserted(i, S)
    BY DEF Asserted, ObligationsOf, RealObligation
  <2>4. Provable(proofs, RealObligation(i), S)
    BY <1>3, <2>3 DEF AllValid, Failing
  <2> QED BY <1>3, <2>2, <2>4, ProvableMonotone DEF Rejected, Failing
<1>4. assignment \in SUBSET InitialAssignment
  BY DEF SoundInv, TypeInv, TypeOK
<1>5. CASE queue = <<>> /\ \A i \in Impl : outcomes[i] = "Valid"
  BY <1>2, <1>4, <1>5
<1>6. CASE \E i \in Impl : Rejected(i)
  BY <1>3, <1>6 DEF Rejected
<1> QED BY <1>1, <1>5, <1>6 DEF Owed

(***************************************************************************)
(* The claim of the {:existential true} help text, for a prover that       *)
(* always decides: every implementation is reported Valid exactly if some  *)
(* assignment makes all VCs valid, and then the returned one does.         *)
(***************************************************************************)
THEOREM Decides == Spec => []DecidesExistence
<1>1. Init => LargestInv
  BY TypeInit DEF Init, LargestInv, LosesNoInductiveSet
<1> QED BY <1>1, SoundInit, SoundNext, LargestNext, OwedInit, OwedNext, DecisionAtEnd,
           PTL DEF Spec

-----------------------------------------------------------------------------
(* The blacklist and the report.                                           *)

GivenUpInv == TypeInv /\ GivenUpForGood

(* A step that takes the head off the queue, giving it up or not.          *)
LEMMA DequeueKeepsGivenUp ==
    ASSUME GivenUpInv, queue # <<>>, queue' = Tail(queue),
           blackList' \subseteq blackList \cup {Head(queue)}
    PROVE  GivenUpForGood'
<1>1. queue \in Seq(Impl \ VcgenFailures) /\ IsInjective(queue) /\ Range(queue) \cap blackList = {}
  BY DEF GivenUpInv, TypeInv, TypeOK, GivenUpForGood
<1>2. /\ Range(Tail(queue)) \subseteq Range(queue)
      /\ IsInjective(Tail(queue)) /\ Head(queue) \notin Range(Tail(queue))
  BY <1>1, DequeueFacts
<1> QED BY <1>1, <1>2 DEF GivenUpForGood

LEMMA GivenUpInit == Init => GivenUpInv
<1> SUFFICES ASSUME Init PROVE GivenUpForGood
  BY TypeInit DEF GivenUpInv
<1> DEFINE todo == Impl \ VcgenFailures
<1>1. queue \in Bijection(1 .. Cardinality(todo), todo) /\ blackList = VcgenFailures
  BY DEF Init, BuildWorkList
<1>2. Range(queue) = todo /\ IsInjective(queue)
  BY <1>1, EnumerationType
<1> QED BY <1>1, <1>2 DEF GivenUpForGood

LEMMA GivenUpNext == GivenUpInv /\ [Next]_vars => GivenUpInv'
<1> SUFFICES ASSUME GivenUpInv, [Next]_vars PROVE GivenUpForGood'
  BY TypeNext DEF GivenUpInv
<1>t. TypeInv /\ GivenUpForGood
  BY DEF GivenUpInv
<1>1. CASE Turn
  <2>1. queue \in Seq(Impl \ VcgenFailures) /\ queue # <<>>
    BY <1>t, <1>1 DEF TypeInv, TypeOK, Turn
  <2>2. PICK i \in Impl \ VcgenFailures : i = Head(queue)
    BY <2>1, DequeueFacts
  <2>3. PICK answer \in Verify(proofs, i, assignment) :
            \/ VerifyValid(i, answer) \/ VerifyRefuted(i, answer)
            \/ VerifyCrashes(i, answer) \/ VerifyAborts(i, answer)
            \/ VerifyInconclusive(i, answer) \/ FlushWorkList(i, answer)
    BY <1>1, <2>2 DEF Turn
  <2>4. CASE VerifyRefuted(i, answer)
    <3> DEFINE S == (UNION {FindImplementationsToEnqueue(unsatCore, o) :
                                o \in answer.errors}) \ blackList
    <3>1. /\ blackList' = blackList /\ RealErrors(answer.errors) = {}
          /\ answer.errors = {} => queue' = Tail(queue)
          /\ answer.errors # {} => Enqueue(S)
      BY <2>4 DEF VerifyRefuted, Dequeue
    <3>2. S \in SUBSET (Impl \ VcgenFailures)
      BY <1>t, <3>1, AnswerFacts, EnqueuedTypes
    <3>3. CASE answer.errors = {}
      BY <2>1, <3>1, <3>3, DequeueKeepsGivenUp
    <3>4. CASE answer.errors # {}
      <4>1. S \cap blackList = {}
        OBVIOUS
      <4> HIDE DEF S
      <4>2. Range(queue') = Range(queue) \cup S /\ IsInjective(queue')
        BY <1>t, <2>1, <3>1, <3>2, <3>4, EnqueueFacts DEF GivenUpForGood
      <4> QED BY <1>t, <3>1, <4>1, <4>2 DEF GivenUpForGood
    <3> QED BY <3>3, <3>4
  <2>5. CASE VerifyInconclusive(i, answer)
    BY <2>1, <2>2, <2>5, DequeueKeepsGivenUp DEF VerifyInconclusive, Dequeue
  <2>6. CASE VerifyValid(i, answer)
    BY <2>1, <2>6, DequeueKeepsGivenUp DEF VerifyValid, Dequeue
  <2>7. CASE VerifyCrashes(i, answer)
    BY <1>t, <2>7 DEF VerifyCrashes, GivenUpForGood
  <2>8. CASE VerifyAborts(i, answer)
    BY <2>1, <2>8, DequeueKeepsGivenUp DEF VerifyAborts, Dequeue
  <2>9. CASE FlushWorkList(i, answer)
    BY <2>1, <2>9, DequeueKeepsGivenUp DEF FlushWorkList, Dequeue
  <2> QED BY <2>3, <2>4, <2>5, <2>6, <2>7, <2>8, <2>9
<1>2. CASE Finish
  BY <1>t, <1>2 DEF Finish, GivenUpForGood
<1>3. CASE UNCHANGED vars
  BY <1>t, <1>3 DEF vars, state, GivenUpForGood
<1> QED BY <1>1, <1>2, <1>3 DEF Next

(* WorkQueue never holds an implementation twice, so that one Dequeue      *)
(* takes it off, and a blacklisted one is never verified again.            *)
THEOREM BlackListRespected == Spec => []GivenUpForGood
<1>1. GivenUpInv => GivenUpForGood
  BY DEF GivenUpInv
<1> QED BY <1>1, GivenUpInit, GivenUpNext, PTL DEF Spec

(***************************************************************************)
(* At every step an implementation with a VC waits or has an outcome, and  *)
(* asserts no remaining candidate once it is blacklisted.                  *)
(***************************************************************************)
Reported ==
    /\ \A i \in Impl \ VcgenFailures : i \in Range(queue) \/ outcomes[i] # "None"
    /\ \A i \in blackList \ VcgenFailures : houdiniAssertConstants[i] \cap assignment = {}
    /\ pc = "done" => queue = <<>>

ReportedInv == TypeInv /\ Reported

LEMMA ReportedInit == Init => ReportedInv
<1> SUFFICES ASSUME Init PROVE Reported
  BY TypeInit DEF ReportedInv
<1> DEFINE todo == Impl \ VcgenFailures
<1>1. queue \in Bijection(1 .. Cardinality(todo), todo)
  BY DEF Init, BuildWorkList
<1>2. Range(queue) = todo
  BY <1>1, EnumerationType
<1> QED BY <1>2 DEF Init, Reported

LEMMA ReportedNext == ReportedInv /\ [Next]_vars => ReportedInv'
<1> SUFFICES ASSUME ReportedInv, [Next]_vars PROVE Reported'
  BY TypeNext DEF ReportedInv
<1>t. TypeInv /\ Reported
  BY DEF ReportedInv
<1>1. CASE Turn
  <2>1. queue \in Seq(Impl \ VcgenFailures) /\ queue # <<>>
    BY <1>t, <1>1 DEF TypeInv, TypeOK, Turn
  <2>2. PICK i \in Impl \ VcgenFailures :
            i = Head(queue) /\ Range(queue) \subseteq Range(Tail(queue)) \cup {i}
    BY <2>1, DequeueFacts
  <2>3. PICK answer \in Verify(proofs, i, assignment) :
            \/ VerifyValid(i, answer) \/ VerifyRefuted(i, answer)
            \/ VerifyCrashes(i, answer) \/ VerifyAborts(i, answer)
            \/ VerifyInconclusive(i, answer) \/ FlushWorkList(i, answer)
    BY <1>1, <2>2 DEF Turn
  <2>4. outcomes' = [outcomes EXCEPT ![i] = answer.outcome]
    BY <2>3 DEF VerifyValid, VerifyRefuted, VerifyCrashes, VerifyAborts,
                VerifyInconclusive, FlushWorkList, UpdateHoudiniOutcome
  <2>5. answer.outcome # "None"
    BY <2>2, AnswerFacts DEF Outcome
  <2>6. /\ outcomes'[i] # "None"
        /\ \A j \in Impl : j # i => outcomes'[j] = outcomes[j]
    BY <1>t, <2>2, <2>4, <2>5 DEF TypeInv, TypeOK
  \* Nothing is forgotten, and the head may leave the queue.
  <2>7. ASSUME Range(queue) \subseteq Range(queue') \cup {i},
               assignment' \subseteq assignment, pc' # "done",
               \/ blackList' = blackList
               \/ /\ blackList' = blackList \cup {i}
                  /\ assignment' = assignment \ houdiniAssertConstants[i]
        PROVE  Reported'
    <3>1. \A j \in Impl \ VcgenFailures : j \in Range(queue') \/ outcomes'[j] # "None"
      BY <1>t, <2>6, <2>7 DEF Reported
    <3>2. \A j \in blackList' \ VcgenFailures : houdiniAssertConstants[j] \cap assignment' = {}
      BY <1>t, <2>7 DEF Reported
    <3> QED BY <2>7, <3>1, <3>2 DEF Reported
  <2>8. CASE VerifyRefuted(i, answer)
    <3> DEFINE S == (UNION {FindImplementationsToEnqueue(unsatCore, o) :
                                o \in answer.errors}) \ blackList
    <3>1. /\ blackList' = blackList /\ pc' = "infer" /\ RealErrors(answer.errors) = {}
          /\ assignment' \subseteq assignment
          /\ answer.errors = {} => queue' = Tail(queue)
          /\ answer.errors # {} => Enqueue(S)
      BY <2>8 DEF VerifyRefuted, Dequeue, UpdateAssignment
    <3>2. S \in SUBSET (Impl \ VcgenFailures)
      BY <1>t, <3>1, AnswerFacts, EnqueuedTypes
    <3> HIDE DEF S
    <3>3. Range(queue) \subseteq Range(queue') \cup {i}
      BY <2>1, <2>2, <3>1, <3>2, EnqueueFacts
    <3> QED BY <2>7, <3>1, <3>3
  <2>9. CASE VerifyValid(i, answer)
    BY <2>2, <2>7, <2>9 DEF VerifyValid, Dequeue
  <2>10. CASE VerifyCrashes(i, answer)
    BY <2>7, <2>10 DEF VerifyCrashes
  <2>11. CASE VerifyAborts(i, answer)
    BY <2>2, <2>7, <2>11 DEF VerifyAborts, Dequeue
  <2>12. CASE VerifyInconclusive(i, answer)
    BY <2>2, <2>7, <2>12 DEF VerifyInconclusive, Dequeue
  <2>13. CASE FlushWorkList(i, answer)
    BY <2>2, <2>7, <2>13 DEF FlushWorkList, Dequeue
  <2> QED BY <2>3, <2>8, <2>9, <2>10, <2>11, <2>12, <2>13
<1>2. CASE Finish
  BY <1>t, <1>2 DEF Finish, Reported
<1>3. CASE UNCHANGED vars
  BY <1>t, <1>3 DEF vars, state, Reported
<1> QED BY <1>1, <1>2, <1>3 DEF Next

(* Whatever the prover did, every implementation with a VC is reported     *)
(* when PerformHoudiniInference returns, and the ones it gave up assert    *)
(* nothing that is left.                                                   *)
THEOREM AllReported == Spec => []EveryImplementationReported
<1>1. ReportedInv => EveryImplementationReported
  <2> SUFFICES ASSUME Reported, pc = "done", NEW i \in Impl \ VcgenFailures
               PROVE  /\ outcomes[i] # "None"
                      /\ i \in blackList => houdiniAssertConstants[i] \cap assignment = {}
    BY DEF ReportedInv, EveryImplementationReported
  <2>1. Range(queue) = {}
    BY DEF Reported, Range
  <2> QED BY <2>1 DEF Reported
<1> QED BY <1>1, ReportedInit, ReportedNext, PTL DEF Spec

-----------------------------------------------------------------------------
(* The refinement of HoudiniFixpoint.                                      *)

(* VCs of the fixpoint are those of the work list.                         *)
LEMMA FixpointVCs ==
    /\ Fixpoint!Obligation = Obligation
    /\ \A i \in Impl : Fixpoint!RealObligation(i) = RealObligation(i)
    /\ \A pf, i, T : Fixpoint!Failing(pf, i, T) = Failing(pf, i, T)
<1>1. /\ Fixpoint!Obligation = Obligation
      /\ \A i : Fixpoint!RealObligation(i) = RealObligation(i)
      /\ Fixpoint!ObligationsOf = ObligationsOf
  BY DEF Fixpoint!Obligation, Obligation, Fixpoint!ObligationsOf, ObligationsOf,
         Fixpoint!CandidateObligation, CandidateObligation, Fixpoint!RealObligation,
         RealObligation, Fixpoint!AssertsIn, AssertsIn
<1>2. Fixpoint!houdiniAssumeConstants = houdiniAssumeConstants
  BY DEF Fixpoint!houdiniAssumeConstants, houdiniAssumeConstants,
         Fixpoint!AssumesIn, AssumesIn
<1>3. \A pf, o, T : Fixpoint!Provable(pf, o, T) <=> Provable(pf, o, T)
  BY <1>2 DEF Fixpoint!Provable, Provable
<1>4. \A i, T : Fixpoint!Asserted(i, T) = Asserted(i, T)
  BY <1>1 DEF Fixpoint!Asserted, Asserted
<1>5. \A pf, i, T : Fixpoint!Failing(pf, i, T) = Failing(pf, i, T)
  BY <1>3, <1>4 DEF Fixpoint!Failing, Failing
<1> QED BY <1>1, <1>5

(***************************************************************************)
(* The verdict and the control state agree.  An implementation for which   *)
(* the loop aborted is not verified again by FlushWorkList, which could    *)
(* erase its errors: it left the queue and waits there only once.          *)
(***************************************************************************)
VerdictAgrees ==
    /\ pc = "infer" => \A i \in Impl : nonCandidateErrors[i] = {}
    /\ pc = "flush" => \E i \in Impl : nonCandidateErrors[i] # {} /\ i \notin Range(queue)
    /\ pc # "crashed" /\ NoTimeout

VerdictInv == GivenUpInv /\ VerdictAgrees

(* What the invariants say in a state, of the step that leaves it.         *)
RefinementInv == SoundInv /\ OwedInv /\ VerdictInv

LEMMA VerdictNext ==
    ASSUME Conclusive, VerdictInv, [Next]_vars
    PROVE  VerdictInv'
<1> SUFFICES VerdictAgrees'
  BY GivenUpNext DEF VerdictInv
<1>t. TypeInv /\ GivenUpForGood /\ VerdictAgrees
  BY DEF VerdictInv, GivenUpInv
<1>1. CASE Turn
  <2>1. queue \in Seq(Impl \ VcgenFailures) /\ queue # <<>>
    BY <1>t, <1>1 DEF TypeInv, TypeOK, Turn
  <2>2. PICK i \in Impl :
            /\ i = Head(queue) /\ i \in Range(queue) /\ i \notin Range(Tail(queue))
            /\ Range(Tail(queue)) \subseteq Range(queue)
    BY <1>t, <2>1, DequeueFacts DEF GivenUpForGood
  <2>3. PICK answer \in Verify(proofs, i, assignment) :
            \/ VerifyValid(i, answer) \/ VerifyRefuted(i, answer)
            \/ VerifyCrashes(i, answer) \/ VerifyAborts(i, answer)
            \/ VerifyInconclusive(i, answer) \/ FlushWorkList(i, answer)
    BY <1>1, <2>2 DEF Turn
  <2>4. nonCandidateErrors' = [nonCandidateErrors EXCEPT ![i] = RealErrors(answer.errors)]
    BY <2>3 DEF VerifyValid, VerifyRefuted, VerifyCrashes, VerifyAborts,
                VerifyInconclusive, FlushWorkList, UpdateHoudiniOutcome
  <2>5. /\ nonCandidateErrors'[i] = RealErrors(answer.errors)
        /\ \A j \in Impl : j # i => nonCandidateErrors'[j] = nonCandidateErrors[j]
    BY <1>t, <2>2, <2>4 DEF TypeInv, TypeOK
  <2>6. CASE VerifyValid(i, answer)
    <3>1. RealErrors(answer.errors) = {}
      BY <2>6, AnswerFacts DEF VerifyValid, RealErrors
    <3> QED BY <1>t, <2>5, <2>6, <3>1 DEF VerifyValid, VerdictAgrees, NoTimeout
  <2>7. CASE VerifyRefuted(i, answer)
    BY <1>t, <2>5, <2>7 DEF VerifyRefuted, VerdictAgrees, NoTimeout
  <2>8. CASE VerifyCrashes(i, answer)
    BY <2>8 DEF VerifyCrashes, NullSession, Conclusive
  <2>9. CASE VerifyAborts(i, answer)
    BY <1>t, <2>2, <2>5, <2>9 DEF VerifyAborts, Dequeue, VerdictAgrees, NoTimeout
  <2>10. CASE VerifyInconclusive(i, answer)
    BY <2>10 DEF VerifyInconclusive, Conclusive
  <2>11. CASE FlushWorkList(i, answer)
    <3>1. pc = "flush" /\ pc' = "flush" /\ queue' = Tail(queue) /\ blackList' = blackList
      BY <2>11 DEF FlushWorkList, Dequeue
    <3>2. PICK j \in Impl : nonCandidateErrors[j] # {} /\ j \notin Range(queue)
      BY <1>t, <3>1 DEF VerdictAgrees
    <3> QED BY <1>t, <2>2, <2>5, <3>1, <3>2 DEF VerdictAgrees, NoTimeout
  <2> QED BY <2>3, <2>6, <2>7, <2>8, <2>9, <2>10, <2>11
<1>2. CASE Finish
  BY <1>t, <1>2 DEF Finish, VerdictAgrees, NoTimeout
<1>3. CASE UNCHANGED vars
  BY <1>t, <1>3 DEF vars, state, VerdictAgrees, NoTimeout
<1> QED BY <1>1, <1>2, <1>3 DEF Next

LEMMA RefinementInit == Init => RefinementInv /\ Fixpoint!FixInit
<1> SUFFICES ASSUME Init PROVE RefinementInv /\ Fixpoint!FixInit
  OBVIOUS
<1>1. RefinementInv
  BY SoundInit, OwedInit, GivenUpInit DEF Init, RefinementInv, VerdictInv, VerdictAgrees,
                                        NoTimeout
<1>2. Verdict = "open"
  BY DEF Init, Verdict
<1>3. proofs \in [Fixpoint!Obligation -> SUBSET SUBSET Cand]
  BY TypeInit, FixpointVCs DEF TypeInv, TypeOK
<1> QED BY <1>1, <1>2, <1>3 DEF Init, Fixpoint!FixInit

(* A step of the work list is a step of the fixpoint, or changes nothing   *)
(* of it.                                                                  *)
LEMMA RefinementStep ==
    ASSUME Conclusive, ~CoreQueryMayFail, RefinementInv, [Next]_vars
    PROVE  [Fixpoint!FixNext]_(Fixpoint!fixvars)
<1>t. TypeInv /\ GivenUpForGood /\ VerdictAgrees /\ VerdictAgrees'
  BY VerdictNext DEF RefinementInv, VerdictInv, GivenUpInv
<1>v. /\ pc = "infer" => Verdict = "open"
      /\ pc' = "infer" => Verdict' = "open"
      /\ pc = "flush" => Verdict = "rejected"
      /\ pc' = "flush" => Verdict' = "rejected"
  BY <1>t DEF VerdictAgrees, Verdict
<1>u. UNCHANGED <<proofs, assignment, Verdict>> => UNCHANGED Fixpoint!fixvars
  BY DEF Fixpoint!fixvars
<1>1. CASE Turn
  <2>1. queue \in Seq(Impl \ VcgenFailures) /\ queue # <<>>
    BY <1>t, <1>1 DEF TypeInv, TypeOK, Turn
  <2>2. PICK i \in Impl : i = Head(queue)
    BY <2>1, DequeueFacts
  <2>3. PICK answer \in Verify(proofs, i, assignment) :
            \/ VerifyValid(i, answer) \/ VerifyRefuted(i, answer)
            \/ VerifyCrashes(i, answer) \/ VerifyAborts(i, answer)
            \/ VerifyInconclusive(i, answer) \/ FlushWorkList(i, answer)
    BY <1>1, <2>2 DEF Turn
  <2>4. CASE VerifyValid(i, answer)
    BY <1>v, <1>u, <2>4 DEF VerifyValid
  <2>5. CASE VerifyRefuted(i, answer)
    <3> DEFINE R == {o.cand : o \in answer.errors}
    <3>1. /\ answer.outcome = "Invalid" /\ RealErrors(answer.errors) = {}
          /\ assignment' = assignment \ R
          /\ pc = "infer" /\ pc' = "infer" /\ proofs' = proofs
      BY <2>5 DEF VerifyRefuted, UpdateAssignment
    <3>2. answer.errors # {} /\ answer.errors \subseteq Failing(proofs, i, assignment)
      BY <3>1, AnswerFacts DEF Conclusive
    <3>3. R \in SUBSET Fixpoint!Refutable /\ R # {}
      BY <3>1, <3>2, FixpointVCs DEF Fixpoint!Refutable, RealErrors
    <3>4. Fixpoint!Refute
      BY <1>v, <3>1, <3>3 DEF Fixpoint!Refute
    <3> QED BY <3>4 DEF Fixpoint!FixNext
  <2>6. CASE VerifyCrashes(i, answer)
    BY <2>6 DEF VerifyCrashes, NullSession, Conclusive
  <2>7. CASE VerifyAborts(i, answer)
    <3>1. /\ answer.outcome = "Invalid" /\ RealErrors(answer.errors) # {}
          /\ pc = "infer" /\ pc' = "flush" /\ UNCHANGED <<proofs, assignment>>
      BY <2>7 DEF VerifyAborts
    <3>2. RealObligation(i) \in answer.errors
      BY <3>1, AnswerFacts DEF RealErrors
    <3>3. RealObligation(i) \in Failing(proofs, i, assignment)
      BY <3>1, <3>2, AnswerFacts DEF Conclusive
    <3>4. Fixpoint!Reject
      BY <1>v, <3>1, <3>3, FixpointVCs DEF Fixpoint!Reject
    <3> QED BY <3>4 DEF Fixpoint!FixNext
  <2>8. CASE VerifyInconclusive(i, answer)
    BY <2>8 DEF VerifyInconclusive, Conclusive
  <2>9. CASE FlushWorkList(i, answer)
    BY <1>v, <1>u, <2>9 DEF FlushWorkList
  <2> QED BY <2>3, <2>4, <2>5, <2>6, <2>7, <2>8, <2>9
<1>2. CASE Finish
  <2>1. /\ queue = <<>> /\ pc' = "done"
        /\ UNCHANGED <<proofs, blackList, assignment, outcomes, nonCandidateErrors>>
    BY <1>2 DEF Finish
  <2>2. CASE pc = "infer"
    <3>1. Range(queue) = {}
      BY <2>1 DEF Range
    <3>2. \A i \in Impl : outcomes[i] = "Valid"
      BY <2>2, <3>1 DEF RefinementInv, OwedInv, Owed
    <3>3. NoTimeout
      BY <1>t DEF VerdictAgrees
    <3>4. AllValid(proofs, assignment)
      BY <3>1, <3>2, <3>3 DEF RefinementInv, SoundInv, VerifiedUpToDate, AllValid
    <3>5. Verdict' = "accepted"
      BY <1>t, <2>1, <2>2 DEF VerdictAgrees, Verdict
    <3>6. Fixpoint!Accept
      BY <1>v, <2>1, <2>2, <3>4, <3>5, FixpointVCs DEF Fixpoint!Accept, Fixpoint!AllValid, AllValid
    <3> QED BY <3>6 DEF Fixpoint!FixNext
  <2>3. CASE pc = "flush"
    BY <1>t, <1>u, <2>1, <2>3 DEF VerdictAgrees, Verdict
  <2> QED BY <1>2, <2>2, <2>3 DEF Finish
<1>3. CASE UNCHANGED vars
  BY <1>u, <1>3 DEF vars, state, Verdict
<1> QED BY <1>1, <1>2, <1>3 DEF Next

(***************************************************************************)
(* With a prover that decides every query and a VC for every               *)
(* implementation, PerformHoudiniInference is the chaotic iteration of     *)
(* HoudiniFixpoint: work list, blacklist and unsat cores change nothing of *)
(* what is computed.                                                       *)
(***************************************************************************)
THEOREM Refines ==
    ASSUME Conclusive, ~CoreQueryMayFail
    PROVE  Spec => ImplementsFixpoint
<1>1. RefinementInv /\ [Next]_vars => RefinementInv'
  BY SoundNext, OwedNext, VerdictNext DEF RefinementInv
<1>2. RefinementInv /\ [Next]_vars => [Fixpoint!FixNext]_(Fixpoint!fixvars)
  BY RefinementStep
<1> QED BY <1>1, <1>2, RefinementInit, PTL DEF Spec, ImplementsFixpoint, Fixpoint!FixSpec
=============================================================================
