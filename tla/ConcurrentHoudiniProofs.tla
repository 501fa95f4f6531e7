---------------------- MODULE ConcurrentHoudiniProofs ----------------------
(***************************************************************************)
(* Proofs about Houdini instances that exchange refuted annotations, for   *)
(* every program, number of instances and interleaving.                    *)
(***************************************************************************)
EXTENDS ConcurrentHoudini, HoudiniSessionProofs

-----------------------------------------------------------------------------
(* Types and control.                                                      *)

(* Every entry of refutedSharedAnnotations is an annotation of its key.    *)
Dictionary == \A c \in Published : refutedSharedAnnotations[c].cand = c

(* What the control state of an instance says about its other state.  In a *)
(* turn that refutes, the current implementation is the head of the queue. *)
Control(h) ==
    /\ VcgenFailures \subseteq blackList[h]
    /\ pc[h] \in {"idle", "starting"} => \A i \in Impl : outcomes[h][i] = "None"
    /\ pc[h] = "update" =>
          /\ queue[h] # <<>>
          /\ outcomes[h][Head(queue[h])] = "Invalid"
          /\ pending[h] \subseteq ObligationsOf[Head(queue[h])]
          /\ RealErrors(pending[h]) = {}
          /\ found[h] \/ pending[h] # {} \/ Incomplete

TypeInv == TypeOK /\ Dictionary /\ \A h \in Instance : Control(h)

(* The implementations that ApplyRefutations queues.                       *)
Related(h, S) ==
    (UNION {FindImplementationsToEnqueue(unsatCore[h], o) : o \in S}) \ blackList[h]

(* Annotations that some implementation asserts.                           *)
Refutation == {o \in Obligation : o.cand # NoCand}

LEMMA RefutationFacts ==
    ASSUME NEW o \in Refutation
    PROVE  /\ o.impl \in Impl /\ o \in ObligationsOf[o.impl]
           /\ o.cand \in Cand /\ Visited(o) \subseteq Impl
<1>1. PICK i \in Impl : o \in ObligationsOf[i]
  BY DEF Refutation, Obligation
<1> QED BY <1>1, ObligationFacts, VisitedType DEF Refutation

LEMMA ForeignFacts ==
    ASSUME TypeInv, NEW h \in Instance
    PROVE  /\ Foreign(h) \in SUBSET Refutation
           /\ {o.cand : o \in Foreign(h)} = Published \cap assignment[h]
<1>1. \A c \in Published : /\ refutedSharedAnnotations[c] \in Obligation
                           /\ refutedSharedAnnotations[c].cand = c /\ c # NoCand
  BY ProgramAssumption DEF TypeInv, TypeOK, Dictionary, Published
<1> QED BY <1>1 DEF Foreign, Refutation

LEMMA ApplyFacts ==
    ASSUME TypeInv, NEW h \in Instance, NEW S \in SUBSET Refutation, ApplyRefutations(h, S)
    PROVE  /\ queue' \in [Instance -> Seq(Impl \ VcgenFailures)]
           /\ \A g \in Instance : g # h => queue'[g] = queue[g]
           /\ Range(queue'[h]) = Range(queue[h]) \cup Related(h, S)
           /\ queue[h] # <<>> => queue'[h] # <<>> /\ Head(queue'[h]) = Head(queue[h])
           /\ assignment' = [assignment EXCEPT ![h] = assignment[h] \ {o.cand : o \in S}]
<1>1. Related(h, S) \in SUBSET (Impl \ VcgenFailures)
  BY RefutationFacts DEF Related, FindImplementationsToEnqueue, TypeInv, Control
<1>2. queue[h] \in Seq(Impl \ VcgenFailures)
  BY DEF TypeInv, TypeOK
<1> DEFINE q == queue[h]
           new == Related(h, S) \ Range(q)
<1>3. PICK t \in Bijection(1 .. Cardinality(new), new) : queue' = [queue EXCEPT ![h] = q \o t]
  BY DEF ApplyRefutations, Related
<1>4. q \o t \in Seq(Impl \ VcgenFailures) /\ Range(q \o t) = Range(q) \cup Related(h, S)
  BY <1>1, <1>2, EnqueueNew
<1>5. queue'[h] = q \o t /\ queue' \in [Instance -> Seq(Impl \ VcgenFailures)]
  BY <1>3, <1>4 DEF TypeInv, TypeOK
<1>6. t \in Seq(Impl)
  <2>1. new \in SUBSET Impl
    BY <1>1
  <2>2. t \in Seq(new)
    BY <2>1, EnumerationType
  <2> QED BY <2>1, <2>2
<1>7. q # <<>> => q \o t # <<>> /\ Head(q \o t) = Head(q)
  <2> HIDE DEF q
  <2>1. q \in Seq(Impl)
    BY <1>2 DEF q
  <2> QED BY <1>6, <2>1
<1>8. assignment' = [assignment EXCEPT ![h] = assignment[h] \ {o.cand : o \in S}]
  BY DEF ApplyRefutations
<1> QED BY <1>3, <1>4, <1>5, <1>7, <1>8 DEF TypeInv, TypeOK

LEMMA TryAddFacts ==
    ASSUME TypeInv, NEW o \in Refutation, TryAdd(o)
    PROVE  /\ refutedSharedAnnotations' \in [Cand -> Obligation \cup {NotRefuted}]
           /\ Dictionary'
           /\ Published' = Published \cup {o.cand}
           /\ \A c \in Published : refutedSharedAnnotations'[c] = refutedSharedAnnotations[c]
           /\ o.cand \notin Published => refutedSharedAnnotations'[o.cand] = o
<1>1. o.cand \in Cand /\ o \in Obligation /\ o # NotRefuted
  BY RefutationFacts, ConcurrentAssumption DEF Refutation
<1>2. CASE o.cand \in Published
  BY <1>1, <1>2 DEF TryAdd, TypeInv, TypeOK, Dictionary, Published
<1>3. CASE o.cand \notin Published
  BY <1>1, <1>3 DEF TryAdd, TypeInv, TypeOK, Dictionary, Published
<1> QED BY <1>2, <1>3

LEMMA TypeInit == Init => TypeInv
<1> SUFFICES ASSUME Init PROVE TypeInv
  OBVIOUS
<1>1. TypeOK
  BY SessionAssumption DEF Init, TypeOK
<1>2. Dictionary
  BY DEF Init, Dictionary, Published
<1>3. \A h \in Instance : Control(h)
  BY DEF Init, Control
<1> QED BY <1>1, <1>2, <1>3 DEF TypeInv

-----------------------------------------------------------------------------
(* The steps of an instance.                                               *)

(* What a step of h leaves alone: the other instances, and what is         *)
(* published.                                                              *)
Frame(h) ==
    /\ proofs' = proofs
    /\ Published \subseteq Published'
    /\ \A c \in Published : refutedSharedAnnotations'[c] = refutedSharedAnnotations[c]
    /\ \A g \in Instance \ {h} :
          /\ queue'[g] = queue[g] /\ blackList'[g] = blackList[g]
          /\ assignment'[g] = assignment[g] /\ outcomes'[g] = outcomes[g]
          /\ unsatCore'[g] = unsatCore[g] /\ pending'[g] = pending[g]
          /\ found'[g] = found[g] /\ pc'[g] = pc[g]

(* The branches of a turn, with what they have in common.                  *)
LEMMA TurnFacts ==
    ASSUME TypeInv, NEW h \in Instance, Turn(h)
    PROVE  \E i \in Impl \ VcgenFailures, answer \in Verify(proofs, Head(queue[h]), assignment[h]) :
              /\ i = Head(queue[h]) /\ i \in Range(queue[h])
              /\ queue[h] \in Seq(Impl \ VcgenFailures) /\ queue[h] # <<>>
              /\ Tail(queue[h]) \in Seq(Impl \ VcgenFailures)
              /\ Range(queue[h]) \subseteq Range(Tail(queue[h])) \cup {i}
              /\ outcomes' = [outcomes EXCEPT ![h][i] = answer.outcome]
              /\ answer.outcome \in Outcome
              /\ \/ VerifyValid(h, i, answer) \/ VerifyRefuted(h, i, answer)
                 \/ VerifyAborts(h, i, answer) \/ VerifyInconclusive(h, i, answer)
                 \/ FlushWorkList(h, i, answer)
<1>1. queue[h] \in Seq(Impl \ VcgenFailures) /\ queue[h] # <<>>
  BY DEF TypeInv, TypeOK, Turn
<1>2. /\ Head(queue[h]) \in Impl \ VcgenFailures /\ Head(queue[h]) \in Range(queue[h])
      /\ Tail(queue[h]) \in Seq(Impl \ VcgenFailures)
      /\ Range(queue[h]) \subseteq Range(Tail(queue[h])) \cup {Head(queue[h])}
  BY <1>1, DequeueFacts
<1>3. PICK answer \in Verify(proofs, Head(queue[h]), assignment[h]) :
          \/ VerifyValid(h, Head(queue[h]), answer) \/ VerifyRefuted(h, Head(queue[h]), answer)
          \/ VerifyAborts(h, Head(queue[h]), answer)
          \/ VerifyInconclusive(h, Head(queue[h]), answer)
          \/ FlushWorkList(h, Head(queue[h]), answer)
  BY DEF Turn
<1>4. outcomes' = [outcomes EXCEPT ![h][Head(queue[h])] = answer.outcome]
  BY <1>3 DEF VerifyValid, VerifyRefuted, VerifyAborts, VerifyInconclusive, FlushWorkList,
              UpdateHoudiniOutcome
<1>5. answer.outcome \in Outcome
  BY <1>2, AnswerFacts
<1> QED BY <1>1, <1>2, <1>3, <1>4, <1>5

(* A counterexample that is handled is one of the head of the queue.       *)
LEMMA PendingFacts ==
    ASSUME TypeInv, NEW h \in Instance, pc[h] = "update", NEW o \in pending[h]
    PROVE  /\ o \in Refutation /\ o.cand # NoCand
           /\ Head(queue[h]) \in Impl /\ o \in ObligationsOf[Head(queue[h])]
<1>1. queue[h] \in Seq(Impl \ VcgenFailures) /\ queue[h] # <<>>
  BY DEF TypeInv, TypeOK, Control
<1>2. Head(queue[h]) \in Impl
  BY <1>1, DequeueFacts
<1>3. o \in ObligationsOf[Head(queue[h])] /\ o.cand # NoCand
  BY DEF TypeInv, Control, RealErrors
<1> QED BY <1>2, <1>3, ObligationFacts DEF Refutation

LEMMA StepFrame ==
    ASSUME TypeInv, NEW h \in Instance, Step(h)
    PROVE  Frame(h)
<1> USE DEF Frame
<1>1. CASE BeginInference(h)
  BY <1>1 DEF BeginInference, TypeInv, TypeOK, Published
<1>2. CASE StartInference(h)
  BY <1>2 DEF StartInference, TypeInv, TypeOK, Published
<1>3. CASE Turn(h)
  <2>1. PICK i \in Impl, answer \in Verify(proofs, Head(queue[h]), assignment[h]) :
            /\ outcomes' = [outcomes EXCEPT ![h][i] = answer.outcome]
            /\ \/ VerifyValid(h, i, answer) \/ VerifyRefuted(h, i, answer)
               \/ VerifyAborts(h, i, answer) \/ VerifyInconclusive(h, i, answer)
               \/ FlushWorkList(h, i, answer)
    BY <1>3, TurnFacts
  <2>2. \A g \in Instance \ {h} : outcomes'[g] = outcomes[g]
    BY <2>1 DEF TypeInv, TypeOK
  <2>3. CASE VerifyValid(h, i, answer)
    BY <2>2, <2>3 DEF VerifyValid, Dequeue, TypeInv, TypeOK, Published
  <2>4. CASE VerifyRefuted(h, i, answer)
    BY <2>2, <2>4 DEF VerifyRefuted, TypeInv, TypeOK, Published
  <2>5. CASE VerifyAborts(h, i, answer)
    BY <2>2, <2>5 DEF VerifyAborts, Dequeue, TypeInv, TypeOK, Published
  <2>6. CASE VerifyInconclusive(h, i, answer)
    BY <2>2, <2>6 DEF VerifyInconclusive, Dequeue, TypeInv, TypeOK, Published
  <2>7. CASE FlushWorkList(h, i, answer)
    BY <2>2, <2>7 DEF FlushWorkList, Dequeue, TypeInv, TypeOK, Published
  <2> QED BY <2>1, <2>3, <2>4, <2>5, <2>6, <2>7
<1>4. ASSUME NEW o \in pending[h], Publish(h, o) PROVE Frame(h)
  <2>1. o \in Refutation
    BY <1>4, PendingFacts DEF Publish
  <2>2. TryAdd(o) /\ ApplyRefutations(h, {o})
    BY <1>4 DEF Publish
  <2>3. /\ \A g \in Instance \ {h} : queue'[g] = queue[g]
        /\ assignment' = [assignment EXCEPT ![h] = assignment[h] \ {p.cand : p \in {o}}]
    BY <2>1, <2>2, ApplyFacts
  <2>4. /\ Published \subseteq Published'
        /\ \A c \in Published : refutedSharedAnnotations'[c] = refutedSharedAnnotations[c]
    BY <2>1, <2>2, TryAddFacts
  <2> QED BY <1>4, <2>3, <2>4 DEF Publish, TypeInv, TypeOK
<1>5. CASE ExchangeRefutedAnnotations(h)
  <2>1. /\ \A g \in Instance \ {h} : queue'[g] = queue[g]
        /\ \A g \in Instance \ {h} : assignment'[g] = assignment[g]
    <3>1. CASE ApplyRefutations(h, Foreign(h))
      BY <3>1, ForeignFacts, ApplyFacts DEF TypeInv, TypeOK
    <3>2. CASE ~ApplyRefutations(h, Foreign(h))
      BY <1>5, <3>2 DEF ExchangeRefutedAnnotations, Dequeue, TypeInv, TypeOK
    <3> QED BY <3>1, <3>2
  <2> QED BY <1>5, <2>1 DEF ExchangeRefutedAnnotations, TypeInv, TypeOK, Published
<1>6. CASE Crash(h)
  <2>1. /\ Published \subseteq Published'
        /\ \A c \in Published : refutedSharedAnnotations'[c] = refutedSharedAnnotations[c]
    <3>1. CASE \E o \in pending[h] : TryAdd(o)
      BY <1>6, <3>1, PendingFacts, TryAddFacts DEF Crash
    <3>2. CASE UNCHANGED refutedSharedAnnotations
      BY <3>2 DEF Published
    <3> QED BY <1>6, <3>1, <3>2 DEF Crash
  <2> QED BY <1>6, <2>1 DEF Crash, TypeInv, TypeOK
<1>7. CASE Finish(h)
  BY <1>7 DEF Finish, TypeInv, TypeOK, Published
<1> QED BY <1>1, <1>2, <1>3, <1>4, <1>5, <1>6, <1>7 DEF Step

LEMMA TypeNext == TypeInv /\ [Next]_vars => TypeInv'
<1> SUFFICES ASSUME TypeInv, [Next]_vars PROVE TypeInv'
  OBVIOUS
<1>t. TypeOK /\ Dictionary /\ \A g \in Instance : Control(g)
  BY DEF TypeInv
<1>1. ASSUME NEW h \in Instance, Step(h) PROVE TypeInv'
  <2>f. Frame(h)
    BY <1>1, StepFrame
  \* Other instances are as they were.
  <2>g. ASSUME TypeOK', Dictionary', Control(h)' PROVE TypeInv'
    <3>1. ASSUME NEW g \in Instance \ {h} PROVE Control(g)'
      BY <1>t, <2>f DEF Frame, Control
    <3> QED BY <2>g, <3>1 DEF TypeInv
  <2>d. UNCHANGED refutedSharedAnnotations => Dictionary'
    BY <1>t DEF Dictionary, Published
  <2>c. Control(h) /\ queue[h] \in Seq(Impl \ VcgenFailures)
    BY <1>t DEF TypeOK
  <2>1. CASE BeginInference(h)
    <3>1. PICK q \in BuildWorkList : queue' = [queue EXCEPT ![h] = q]
      BY <2>1 DEF BeginInference
    <3>2. q \in Seq(Impl \ VcgenFailures)
      <4> DEFINE todo == Impl \ VcgenFailures
      <4>1. q \in Bijection(1 .. Cardinality(todo), todo)
        BY DEF BuildWorkList
      <4> QED BY <4>1, EnumerationType
    <3>3. TypeOK'
      BY <1>t, <2>1, <3>1, <3>2 DEF BeginInference, TypeOK
    <3>4. Control(h)'
      BY <1>t, <2>1, <2>c DEF BeginInference, TypeOK, Control
    <3> QED BY <2>1, <2>d, <2>g, <3>3, <3>4 DEF BeginInference
  <2>2. CASE StartInference(h)
    <3>1. TypeOK'
      BY <1>t, <2>2 DEF StartInference, TypeOK
    <3>2. Control(h)'
      BY <1>t, <2>2, <2>c DEF StartInference, TypeOK, Control
    <3> QED BY <2>2, <2>d, <2>g, <3>1, <3>2 DEF StartInference
  <2>3. CASE Turn(h)
    <3>1. PICK i \in Impl \ VcgenFailures,
               answer \in Verify(proofs, Head(queue[h]), assignment[h]) :
              /\ i = Head(queue[h]) /\ queue[h] # <<>>
              /\ Tail(queue[h]) \in Seq(Impl \ VcgenFailures)
              /\ outcomes' = [outcomes EXCEPT ![h][i] = answer.outcome]
              /\ answer.outcome \in Outcome
              /\ \/ VerifyValid(h, i, answer) \/ VerifyRefuted(h, i, answer)
                 \/ VerifyAborts(h, i, answer) \/ VerifyInconclusive(h, i, answer)
                 \/ FlushWorkList(h, i, answer)
      BY <2>3, TurnFacts
    <3>2. /\ outcomes' \in [Instance -> [Impl -> Outcome \cup {"None"}]]
          /\ outcomes'[h][i] = answer.outcome
      BY <1>t, <3>1 DEF TypeOK
    <3>3. answer \in Verify(proofs, i, assignment[h])
      BY <3>1
    <3> HIDE DEF TypeOK
    <3>4. CASE VerifyValid(h, i, answer)
      <4>1. unsatCore' \in [Instance -> [Impl -> {NoCore} \cup SUBSET Cand]]
        <5>1. CASE UseUnsatCore
          <6>1. PICK K \in UnsatCores(proofs, i, assignment[h]) :
                    unsatCore' = [unsatCore EXCEPT ![h][i] = K]
            BY <3>4, <5>1 DEF VerifyValid
          <6>2. K \in SUBSET Cand
            BY <1>t, <6>1, ConcurrentAssumption DEF UnsatCores, TypeOK
          <6> QED BY <1>t, <6>1, <6>2 DEF TypeOK
        <5>2. CASE ~UseUnsatCore
          BY <1>t, <3>4, <5>2 DEF VerifyValid, TypeOK
        <5> QED BY <5>1, <5>2
      <4>2. TypeOK'
        BY <1>t, <3>1, <3>2, <3>4, <4>1 DEF VerifyValid, Dequeue, TypeOK
      <4>3. Control(h)'
        BY <2>c, <3>4 DEF VerifyValid, Control
      <4> QED BY <2>d, <2>g, <3>4, <4>2, <4>3 DEF VerifyValid
    <3>5. CASE VerifyRefuted(h, i, answer)
      <4>1. answer.errors \subseteq ObligationsOf[i] /\ answer.errors \subseteq Obligation
            /\ (answer.errors # {} \/ Incomplete)
        BY <3>3, <3>5, AnswerFacts DEF VerifyRefuted
      <4>2. TypeOK'
        BY <1>t, <3>1, <3>2, <3>5, <4>1 DEF VerifyRefuted, TypeOK
      <4>3. /\ pending'[h] = answer.errors /\ pc'[h] = "update" /\ queue' = queue
            /\ blackList' = blackList /\ answer.outcome = "Invalid"
            /\ RealErrors(answer.errors) = {}
        BY <1>t, <3>5 DEF VerifyRefuted, TypeOK
      <4>4. Control(h)'
        BY <2>c, <3>1, <3>2, <4>1, <4>3 DEF Control
      <4> QED BY <2>d, <2>g, <3>5, <4>2, <4>4 DEF VerifyRefuted
    <3>6. CASE VerifyAborts(h, i, answer)
      <4>1. TypeOK'
        BY <1>t, <3>1, <3>2, <3>6 DEF VerifyAborts, Dequeue, TypeOK
      <4>2. Control(h)'
        BY <1>t, <2>c, <3>6 DEF VerifyAborts, Control, TypeOK
      <4> QED BY <2>d, <2>g, <3>6, <4>1, <4>2 DEF VerifyAborts
    <3>7. CASE VerifyInconclusive(h, i, answer)
      <4>1. TypeOK'
        BY <1>t, <3>1, <3>2, <3>7 DEF VerifyInconclusive, Dequeue, TypeOK
      <4>2. Control(h)'
        BY <1>t, <2>c, <3>7 DEF VerifyInconclusive, Control, TypeOK
      <4> QED BY <2>d, <2>g, <3>7, <4>1, <4>2 DEF VerifyInconclusive
    <3>8. CASE FlushWorkList(h, i, answer)
      <4>1. TypeOK'
        BY <1>t, <3>1, <3>2, <3>8 DEF FlushWorkList, Dequeue, TypeOK
      <4>2. Control(h)'
        BY <1>t, <2>c, <3>8 DEF FlushWorkList, Control, TypeOK
      <4> QED BY <2>d, <2>g, <3>8, <4>1, <4>2 DEF FlushWorkList
    <3> QED BY <3>1, <3>4, <3>5, <3>6, <3>7, <3>8
  <2>4. ASSUME NEW o \in pending[h], Publish(h, o) PROVE TypeInv'
    <3>1. /\ pc[h] = "update" /\ TryAdd(o) /\ ApplyRefutations(h, {o})
          /\ pending' = [pending EXCEPT ![h] = @ \ {o}]
          /\ found' = [found EXCEPT ![h] = TRUE]
          /\ UNCHANGED <<proofs, blackList, outcomes, unsatCore, pc>>
      BY <2>4 DEF Publish
    <3>2. o \in Refutation
      BY <2>4, <3>1, PendingFacts
    <3>3. /\ queue' \in [Instance -> Seq(Impl \ VcgenFailures)]
          /\ queue[h] # <<>> => queue'[h] # <<>> /\ Head(queue'[h]) = Head(queue[h])
          /\ assignment' = [assignment EXCEPT ![h] = assignment[h] \ {p.cand : p \in {o}}]
      BY <3>1, <3>2, ApplyFacts
    <3>4. /\ refutedSharedAnnotations' \in [Cand -> Obligation \cup {NotRefuted}]
          /\ Dictionary'
      BY <3>1, <3>2, TryAddFacts
    <3>5. TypeOK'
      BY <1>t, <3>1, <3>3, <3>4 DEF TypeOK
    <3>6. pending'[h] \subseteq pending[h] /\ found'[h]
      BY <1>t, <3>1 DEF TypeOK
    <3>7. Control(h)'
      BY <2>c, <3>1, <3>3, <3>6 DEF Control, RealErrors
    <3> QED BY <2>g, <3>4, <3>5, <3>7
  <2>5. CASE ExchangeRefutedAnnotations(h)
    <3>1. /\ queue' \in [Instance -> Seq(Impl \ VcgenFailures)]
          /\ assignment' \in [Instance -> SUBSET InitialAssignment]
      <4>1. CASE ApplyRefutations(h, Foreign(h))
        BY <1>t, <4>1, ForeignFacts, ApplyFacts DEF TypeOK
      <4>2. CASE ~ApplyRefutations(h, Foreign(h))
        <5>1. queue' = [queue EXCEPT ![h] = Tail(queue[h])] /\ assignment' = assignment
          BY <2>5, <4>2 DEF ExchangeRefutedAnnotations, Dequeue
        <5>2. queue[h] # <<>>
          BY <2>5, <2>c DEF ExchangeRefutedAnnotations, Control
        <5>3. Tail(queue[h]) \in Seq(Impl \ VcgenFailures)
          BY <2>c, <5>2, DequeueFacts
        <5> QED BY <1>t, <5>1, <5>3 DEF TypeOK
      <4> QED BY <4>1, <4>2
    <3>2. TypeOK'
      BY <1>t, <2>5, <3>1 DEF ExchangeRefutedAnnotations, TypeOK
    <3>3. Control(h)'
      BY <1>t, <2>5, <2>c DEF ExchangeRefutedAnnotations, Control, TypeOK
    <3> QED BY <2>5, <2>d, <2>g, <3>2, <3>3 DEF ExchangeRefutedAnnotations
  <2>6. CASE Crash(h)
    <3>1. /\ refutedSharedAnnotations' \in [Cand -> Obligation \cup {NotRefuted}]
          /\ Dictionary'
      <4>1. CASE \E o \in pending[h] : TryAdd(o)
        BY <2>6, <4>1, PendingFacts, TryAddFacts DEF Crash
      <4>2. CASE UNCHANGED refutedSharedAnnotations
        BY <1>t, <2>d, <4>2 DEF TypeOK
      <4> QED BY <2>6, <4>1, <4>2 DEF Crash
    <3>2. TypeOK'
      BY <1>t, <2>6, <3>1 DEF Crash, TypeOK
    <3>3. Control(h)'
      BY <1>t, <2>6, <2>c DEF Crash, Control, TypeOK
    <3> QED BY <2>g, <3>1, <3>2, <3>3
  <2>7. CASE Finish(h)
    <3>1. TypeOK'
      BY <1>t, <2>7 DEF Finish, TypeOK
    <3>2. Control(h)'
      BY <1>t, <2>7, <2>c DEF Finish, Control, TypeOK
    <3> QED BY <2>7, <2>d, <2>g, <3>1, <3>2 DEF Finish
  <2> QED BY <1>1, <2>1, <2>2, <2>3, <2>4, <2>5, <2>6, <2>7 DEF Step
<1>2. CASE UNCHANGED vars
  BY <1>t, <1>2 DEF vars, local, TypeInv, TypeOK, Dictionary, Published, Control
<1> QED BY <1>1, <1>2 DEF Next

(* Type correctness of all instances and of the dictionary they share.     *)
THEOREM Types == Spec => []TypeOK
<1>1. TypeInv => TypeOK
  BY DEF TypeInv
<1> QED BY <1>1, TypeInit, TypeNext, PTL DEF Spec

-----------------------------------------------------------------------------
(* What is published.                                                      *)

(***************************************************************************)
(* What a step does to the candidates, with a complete prover and without  *)
(* timeouts: only a counterexample of the instance is published, only      *)
(* published candidates are given up, and counterexamples come from a      *)
(* query under the current assignment.                                     *)
(***************************************************************************)
Effect(h) ==
    /\ NoTimeout
    /\ \/ UNCHANGED refutedSharedAnnotations
       \/ /\ pc[h] = "update"
          /\ \E o \in pending[h] :
                /\ Published' = Published \cup {o.cand}
                /\ o.cand \notin Published => refutedSharedAnnotations'[o.cand] = o
    /\ assignment'[h] \subseteq assignment[h]
    /\ assignment[h] \subseteq assignment'[h] \cup Published'
    /\ pc'[h] = "update" =>
          \/ pc[h] = "update" /\ pending'[h] \subseteq pending[h]
          \/ /\ UNCHANGED refutedSharedAnnotations /\ Head(queue[h]) \in Impl
             /\ pending'[h] \subseteq Failing(proofs, Head(queue[h]), assignment[h])

LEMMA BlackListsGrow ==
    ASSUME TypeInv, NEW h \in Instance, Step(h), NoTimeout', blackList'[h] = blackList[h]
    PROVE  NoTimeout
BY StepFrame DEF Frame, NoTimeout

LEMMA StepEffect ==
    ASSUME TypeInv, NEW h \in Instance, Step(h), NoTimeout', ~Incomplete
    PROVE  Effect(h)
<1>t. TypeOK /\ Control(h)
  BY DEF TypeInv
<1> USE DEF Effect
<1>1. CASE BeginInference(h)
  <2>1. blackList' = blackList /\ UNCHANGED refutedSharedAnnotations /\ pc'[h] = "starting"
        /\ assignment'[h] = assignment[h] \ Published
    BY <1>t, <1>1 DEF BeginInference, TypeOK
  <2>2. Published' = Published
    BY <2>1 DEF Published
  <2> QED BY <2>1, <2>2, BlackListsGrow
<1>2. CASE StartInference(h)
  <2>1. blackList' = blackList /\ UNCHANGED refutedSharedAnnotations /\ pc'[h] = "infer"
    BY <1>t, <1>2 DEF StartInference, TypeOK
  <2>2. PICK R \in SUBSET (Published \cap assignment[h]) : assignment'[h] = assignment[h] \ R
    BY <1>t, <1>2 DEF StartInference, TypeOK
  <2>3. Published' = Published
    BY <2>1 DEF Published
  <2> QED BY <2>1, <2>2, <2>3, BlackListsGrow
<1>3. CASE Turn(h)
  <2>1. PICK i \in Impl \ VcgenFailures,
             answer \in Verify(proofs, Head(queue[h]), assignment[h]) :
            /\ i = Head(queue[h])
            /\ \/ VerifyValid(h, i, answer) \/ VerifyRefuted(h, i, answer)
               \/ VerifyAborts(h, i, answer) \/ VerifyInconclusive(h, i, answer)
               \/ FlushWorkList(h, i, answer)
    BY <1>3, TurnFacts
  <2>2. CASE VerifyValid(h, i, answer)
    BY <1>t, <2>2, BlackListsGrow DEF VerifyValid, TypeOK
  <2>3. CASE VerifyRefuted(h, i, answer)
    <3>1. answer.outcome = "Invalid" /\ pending'[h] = answer.errors
          /\ UNCHANGED <<refutedSharedAnnotations, assignment, blackList>>
      BY <1>t, <2>3 DEF VerifyRefuted, TypeOK
    <3>2. answer.errors \subseteq Failing(proofs, i, assignment[h])
      BY <2>1, <3>1, AnswerFacts
    <3> QED BY <2>1, <3>1, <3>2, BlackListsGrow
  <2>4. CASE VerifyAborts(h, i, answer)
    BY <1>t, <2>4, BlackListsGrow DEF VerifyAborts, TypeOK
  <2>5. CASE VerifyInconclusive(h, i, answer)
    BY <1>t, <2>1, <2>5 DEF VerifyInconclusive, TypeOK, NoTimeout
  <2>6. CASE FlushWorkList(h, i, answer)
    BY <1>t, <2>6, BlackListsGrow DEF FlushWorkList, TypeOK
  <2> QED BY <2>1, <2>2, <2>3, <2>4, <2>5, <2>6
<1>4. ASSUME NEW o \in pending[h], Publish(h, o) PROVE Effect(h)
  <2>1. /\ pc[h] = "update" /\ TryAdd(o) /\ ApplyRefutations(h, {o})
        /\ pending'[h] = pending[h] \ {o} /\ UNCHANGED blackList
    BY <1>t, <1>4 DEF Publish, TypeOK
  <2>2. o \in Refutation
    BY <1>4, <2>1, PendingFacts
  <2>3. assignment'[h] = assignment[h] \ {o.cand}
    <3>1. assignment'[h] = assignment[h] \ {e.cand : e \in {o}}
      BY <1>t, <2>1 DEF ApplyRefutations, TypeOK
    <3>2. {e.cand : e \in {o}} = {o.cand}
      OBVIOUS
    <3> QED BY <3>1, <3>2
  <2>4. /\ Published' = Published \cup {o.cand}
        /\ o.cand \notin Published => refutedSharedAnnotations'[o.cand] = o
    BY <2>1, <2>2, TryAddFacts
  <2>5. NoTimeout
    BY <2>1, BlackListsGrow
  <2>6. /\ assignment'[h] \subseteq assignment[h]
        /\ assignment[h] \subseteq assignment'[h] \cup Published'
    BY <2>3, <2>4
  <2>7. \E e \in pending[h] :
            /\ Published' = Published \cup {e.cand}
            /\ e.cand \notin Published => refutedSharedAnnotations'[e.cand] = e
    BY <1>4, <2>4
  <2>8. pc[h] = "update" /\ pending'[h] \subseteq pending[h]
    BY <2>1
  <2> QED BY <2>5, <2>6, <2>7, <2>8
<1>5. CASE ExchangeRefutedAnnotations(h)
  <2>1. UNCHANGED <<refutedSharedAnnotations, blackList>> /\ pc'[h] = "infer"
    BY <1>t, <1>5 DEF ExchangeRefutedAnnotations, TypeOK
  <2>2. Published' = Published
    BY <2>1 DEF Published
  <2>3. assignment'[h] \subseteq assignment[h] /\ assignment[h] \subseteq assignment'[h] \cup Published
    <3>1. CASE ApplyRefutations(h, Foreign(h))
      <4> DEFINE R == {o.cand : o \in Foreign(h)}
      <4>1. assignment'[h] = assignment[h] \ R
        BY <1>t, <3>1 DEF ApplyRefutations, TypeOK
      <4>2. R \subseteq Published
        BY ForeignFacts
      <4> HIDE DEF R
      <4> QED BY <4>1, <4>2
    <3>2. CASE ~ApplyRefutations(h, Foreign(h))
      BY <1>5, <3>2 DEF ExchangeRefutedAnnotations
    <3> QED BY <3>1, <3>2
  <2> QED BY <2>1, <2>2, <2>3, BlackListsGrow
<1>6. CASE Crash(h)
  <2>1. pc[h] = "update" /\ pc'[h] = "crashed" /\ UNCHANGED <<assignment, blackList>>
    BY <1>t, <1>6 DEF Crash, TypeOK
  <2>2. \/ UNCHANGED refutedSharedAnnotations
        \/ \E o \in pending[h] :
                /\ Published' = Published \cup {o.cand}
                /\ o.cand \notin Published => refutedSharedAnnotations'[o.cand] = o
    BY <1>6, <2>1, PendingFacts, TryAddFacts DEF Crash
  <2> QED BY <2>1, <2>2, BlackListsGrow
<1>7. CASE Finish(h)
  BY <1>t, <1>7, BlackListsGrow DEF Finish, TypeOK
<1> QED BY <1>1, <1>2, <1>3, <1>4, <1>5, <1>6, <1>7 DEF Step

-----------------------------------------------------------------------------
(* No instance loses an inductive set.                                     *)

(* No candidate of an inductive set is given up, published or about to be. *)
Kept ==
    \A S \in SUBSET InitialAssignment : Inductive(proofs, S) =>
        /\ S \cap Published = {}
        /\ \A h \in Instance :
              /\ S \subseteq assignment[h]
              /\ pc[h] = "update" => \A o \in pending[h] : o.cand \notin S

KeptInv == TypeInv /\ (NoTimeout /\ ~Incomplete => Kept)

LEMMA KeptInit == Init => KeptInv
<1> SUFFICES ASSUME Init PROVE Kept
  BY TypeInit DEF KeptInv
<1> QED BY DEF Init, Kept, Published

LEMMA KeptNext == KeptInv /\ [Next]_vars => KeptInv'
<1> SUFFICES ASSUME KeptInv, [Next]_vars, NoTimeout', ~Incomplete PROVE Kept'
  BY TypeNext DEF KeptInv
<1>t. TypeInv /\ TypeInv'
  BY TypeNext DEF KeptInv
<1>1. ASSUME NEW h \in Instance, Step(h) PROVE Kept'
  <2>1. Frame(h) /\ Effect(h)
    BY <1>t, <1>1, StepFrame, StepEffect
  <2>2. Kept /\ proofs' = proofs
    BY <2>1 DEF KeptInv, Effect, Frame
  <2> SUFFICES ASSUME NEW S \in SUBSET InitialAssignment, Inductive(proofs, S)'
               PROVE  /\ S \cap Published' = {}
                      /\ \A g \in Instance :
                            /\ S \subseteq assignment'[g]
                            /\ pc'[g] = "update" => \A o \in pending'[g] : o.cand \notin S
    BY DEF Kept
  <2>3. Inductive(proofs, S)
    BY <2>2
  <2>4. /\ S \cap Published = {}
        /\ \A g \in Instance :
              /\ S \subseteq assignment[g]
              /\ pc[g] = "update" => \A o \in pending[g] : o.cand \notin S
    BY <2>2, <2>3 DEF Kept
  <2>5. S \cap Published' = {}
    BY <2>1, <2>4 DEF Effect, Published
  <2>6. S \subseteq assignment'[h]
    BY <2>1, <2>4, <2>5 DEF Effect
  <2>7. ASSUME pc'[h] = "update", NEW o \in pending'[h] PROVE o.cand \notin S
    <3>1. CASE pc[h] = "update" /\ pending'[h] \subseteq pending[h]
      BY <2>4, <2>7, <3>1
    <3>2. CASE /\ Head(queue[h]) \in Impl
               /\ pending'[h] \subseteq Failing(proofs, Head(queue[h]), assignment[h])
      <4>1. o.cand \notin S \/ o.cand = NoCand
        BY <2>3, <2>4, <2>7, <3>2, RefutedOutside
      <4>2. o.cand # NoCand
        BY <1>t, <2>7 DEF TypeInv, Control, RealErrors
      <4> QED BY <4>1, <4>2
    <3> QED BY <2>1, <2>7, <3>1, <3>2 DEF Effect
  <2>8. ASSUME NEW g \in Instance, g # h
        PROVE  /\ S \subseteq assignment'[g]
               /\ pc'[g] = "update" => \A o \in pending'[g] : o.cand \notin S
    BY <2>1, <2>4, <2>8 DEF Frame
  <2> QED BY <2>5, <2>6, <2>7, <2>8
<1>2. CASE UNCHANGED vars
  BY <1>2 DEF vars, local, KeptInv, Kept, NoTimeout, Published
<1> QED BY <1>1, <1>2 DEF Next

(* No instance gives up a candidate of an inductive set because of what    *)
(* ExchangeRefutedAnnotations takes over, whatever the order and the       *)
(* assignments under which the others refuted it.                          *)
THEOREM InstancesKeepInductiveSets == Spec => []NoInstanceLosesInductiveSet
<1>1. KeptInv => NoInstanceLosesInductiveSet
  BY DEF KeptInv, Kept, NoInstanceLosesInductiveSet
<1> QED BY <1>1, KeptInit, KeptNext, PTL DEF Spec

-----------------------------------------------------------------------------
(* Why a refutation that is taken over needs no re-check of its own        *)
(* implementation.                                                         *)

(* What no instance has published yet.                                     *)
Unrefuted == InitialAssignment \ Published

(* Only published candidates are given up.                                 *)
Unpublished == \A h \in Instance : Unrefuted \subseteq assignment[h]

(* A counterexample that waits does not follow from what is unrefuted now. *)
PendingFail ==
    \A h \in Instance : pc[h] = "update" =>
        \A o \in pending[h] : o.cand \in InitialAssignment /\ ~Provable(proofs, o, Unrefuted)

(***************************************************************************)
(* Among any published candidates there is one, the first published, whose *)
(* refutation holds even with all of them and all that is unrefuted.       *)
(***************************************************************************)
Chain ==
    \A C \in SUBSET Published : C # {} =>
        \E c \in C : ~Provable(proofs, refutedSharedAnnotations[c], Unrefuted \cup C)

ChainInv == TypeInv /\ (NoTimeout /\ ~Incomplete => Unpublished /\ PendingFail /\ Chain)

LEMMA ChainInit == Init => ChainInv
<1> SUFFICES ASSUME Init PROVE Unpublished /\ PendingFail /\ Chain
  BY TypeInit DEF ChainInv
<1>1. Published = {}
  BY DEF Init, Published
<1> QED BY <1>1 DEF Init, Unpublished, PendingFail, Chain, Unrefuted

LEMMA ChainNext == ChainInv /\ [Next]_vars => ChainInv'
<1> SUFFICES ASSUME ChainInv, [Next]_vars, NoTimeout', ~Incomplete
             PROVE  Unpublished' /\ PendingFail' /\ Chain'
  BY TypeNext DEF ChainInv
<1>t. TypeInv /\ TypeInv'
  BY TypeNext DEF ChainInv
<1>1. ASSUME NEW h \in Instance, Step(h) PROVE Unpublished' /\ PendingFail' /\ Chain'
  <2>1. Frame(h) /\ Effect(h)
    BY <1>t, <1>1, StepFrame, StepEffect
  <2>2. Unpublished /\ PendingFail /\ Chain /\ proofs' = proofs
    BY <2>1 DEF ChainInv, Effect, Frame
  <2>3. Unrefuted' \subseteq Unrefuted
    BY <2>1 DEF Frame, Unrefuted
  <2>4. Unpublished'
    <3> SUFFICES ASSUME NEW g \in Instance PROVE Unrefuted' \subseteq assignment'[g]
      BY DEF Unpublished
    <3>1. Unrefuted \subseteq assignment[g]
      BY <2>2 DEF Unpublished
    <3>2. CASE g = h
      BY <2>1, <2>3, <3>1, <3>2 DEF Effect, Unrefuted
    <3>3. CASE g # h
      BY <2>1, <2>3, <3>1, <3>3 DEF Frame
    <3> QED BY <3>2, <3>3
  <2>5. PendingFail'
    <3> SUFFICES ASSUME NEW g \in Instance, pc'[g] = "update", NEW o \in pending'[g]
                 PROVE  o.cand \in InitialAssignment /\ ~Provable(proofs, o, Unrefuted')
      BY <2>2 DEF PendingFail
    <3>1. CASE pc[g] = "update" /\ o \in pending[g]
      BY <2>2, <2>3, <3>1, ProvableMonotone DEF PendingFail
    <3>2. CASE g = h /\ Head(queue[h]) \in Impl /\ o \in Failing(proofs, Head(queue[h]), assignment[h])
      <4>1. o.cand # NoCand
        BY <1>t DEF TypeInv, Control, RealErrors
      <4>2. o.cand \in assignment[h] /\ ~Provable(proofs, o, assignment[h])
        BY <3>2, <4>1 DEF Failing, Asserted
      <4>3. Unrefuted' \subseteq assignment[h] /\ assignment[h] \subseteq InitialAssignment
        BY <1>t, <2>2, <2>3 DEF Unpublished, TypeInv, TypeOK
      <4> QED BY <4>2, <4>3, ProvableMonotone
    <3>3. g # h => pc[g] = "update" /\ o \in pending[g]
      BY <2>1 DEF Frame
    <3>4. g = h => \/ pc[g] = "update" /\ o \in pending[g]
                   \/ Head(queue[h]) \in Impl /\ o \in Failing(proofs, Head(queue[h]), assignment[h])
      BY <2>1 DEF Effect
    <3> QED BY <3>1, <3>2, <3>3, <3>4
  <2>6. Chain'
    <3> SUFFICES ASSUME NEW C \in SUBSET Published', C # {}
                 PROVE  \E c \in C : ~Provable(proofs, refutedSharedAnnotations'[c],
                                               Unrefuted' \cup C)
      BY <2>2 DEF Chain
    <3>1. CASE C \subseteq Published
      <4>1. PICK c \in C : ~Provable(proofs, refutedSharedAnnotations[c], Unrefuted \cup C)
        BY <2>2, <3>1 DEF Chain
      <4>2. refutedSharedAnnotations'[c] = refutedSharedAnnotations[c]
        BY <2>1, <3>1 DEF Frame
      <4>3. Unrefuted' \cup C \subseteq Unrefuted \cup C
        BY <2>3
      <4> QED BY <4>1, <4>2, <4>3, ProvableMonotone
    <3>2. CASE ~(C \subseteq Published)
      <4>1. PICK o \in pending[h] : /\ pc[h] = "update" /\ Published' = Published \cup {o.cand}
                                    /\ o.cand \notin Published
                                    /\ refutedSharedAnnotations'[o.cand] = o
        BY <2>1, <3>2 DEF Effect, Published
      <4>2. o.cand \in InitialAssignment /\ ~Provable(proofs, o, Unrefuted)
        BY <2>2, <4>1 DEF PendingFail
      <4>3. o.cand \in C /\ C \ {o.cand} \subseteq Published
        BY <3>2, <4>1
      <4>4. Unrefuted' \cup C = Unrefuted \cup (C \ {o.cand})
        BY <4>1, <4>2, <4>3 DEF Unrefuted
      <4>5. CASE C \ {o.cand} = {}
        <5>1. Unrefuted' \cup C = Unrefuted
          BY <4>4, <4>5
        <5> QED BY <4>1, <4>2, <4>3, <5>1
      <4>6. CASE C \ {o.cand} # {}
        <5>1. PICK c \in C \ {o.cand} :
                  ~Provable(proofs, refutedSharedAnnotations[c], Unrefuted \cup (C \ {o.cand}))
          BY <2>2, <4>3, <4>6 DEF Chain
        <5>2. refutedSharedAnnotations'[c] = refutedSharedAnnotations[c]
          BY <2>1, <4>3 DEF Frame
        <5> QED BY <4>4, <5>1, <5>2
      <4> QED BY <4>5, <4>6
    <3> QED BY <3>1, <3>2
  <2> QED BY <2>4, <2>5, <2>6
<1>2. CASE UNCHANGED vars
  BY <1>2 DEF vars, local, ChainInv, Unpublished, PendingFail, Chain, Unrefuted, NoTimeout, Published
<1> QED BY <1>1, <1>2 DEF Next

(* An implementation that an instance may rely on.                         *)
Settled(h, i) ==
    /\ i \in Impl \ VcgenFailures
    /\ Failing(proofs, i, assignment[h]) = {}
    /\ unsatCore[h][i] # NoCore => SufficientCore(proofs, i, unsatCore[h][i], assignment[h])

(***************************************************************************)
(* If another instance refuted an annotation in a settled implementation,  *)
(* then an annotation that the implementation relies on was refuted        *)
(* elsewhere, and taking that one over queues the implementation.          *)
(***************************************************************************)
LEMMA ForeignQueues ==
    ASSUME ChainInv, NoTimeout, ~Incomplete, NEW h \in Instance, NEW k, Settled(h, k),
           NEW o \in Foreign(h), o.impl = k
    PROVE  k \in Related(h, Foreign(h))
<1> DEFINE A == assignment[h]
           C == {c \in Published \cap A : refutedSharedAnnotations[c].impl = k}
           K == IF unsatCore[h][k] = NoCore THEN A
                ELSE unsatCore[h][k] \cap houdiniAssumeConstants[k]
           S == (Unrefuted \cap A) \cup C \cup K
<1>t. TypeInv /\ Chain /\ k \in Impl \ VcgenFailures /\ A \subseteq InitialAssignment
  BY DEF ChainInv, TypeInv, TypeOK, Settled
<1>1. C \in SUBSET Published /\ C # {}
  BY DEF Foreign
<1>2. PICK c \in C : ~Provable(proofs, refutedSharedAnnotations[c], Unrefuted \cup C)
  BY <1>t, <1>1 DEF Chain
<1>3. S \subseteq A /\ C \subseteq S /\ Failing(proofs, k, S) = {}
  <2>1. CASE unsatCore[h][k] = NoCore
    <3>1. S = A
      BY <2>1
    <3> QED BY <3>1 DEF Settled
  <2>2. CASE unsatCore[h][k] # NoCore
    <3>1. K \subseteq A /\ \A X \in SUBSET A : K \subseteq X => Failing(proofs, k, X) = {}
      BY <2>2 DEF Settled, SufficientCore
    <3> HIDE DEF A, K, C
    <3>2. S \subseteq A /\ K \subseteq S /\ C \subseteq S
      BY <3>1 DEF C
    <3> QED BY <3>1, <3>2
  <2> QED BY <2>1, <2>2
<1> DEFINE r == refutedSharedAnnotations[c]
<1>4. r \in Refutation /\ r.impl = k /\ r.cand = c
  BY <1>t, <1>2, ProgramAssumption DEF TypeInv, TypeOK, Dictionary, Published, Refutation
<1>5. r \in Asserted(k, S)
  BY <1>2, <1>3, <1>4, RefutationFacts DEF Asserted
<1>6. Provable(proofs, r, S)
  BY <1>3, <1>5 DEF Failing
<1>7. PICK N \in proofs[r] : N \subseteq S \cap houdiniAssumeConstants[k]
  BY <1>4, <1>6 DEF Provable
<1>8. PICK n \in N : n \notin Unrefuted \cup C
  BY <1>2, <1>4, <1>7 DEF Provable
<1>9. n \in K /\ n \in A /\ n \in houdiniAssumeConstants[k]
  BY <1>3, <1>7, <1>8
<1>10. n \in Published /\ refutedSharedAnnotations[n].impl # k
  BY <1>t, <1>8, <1>9 DEF Unrefuted
<1> DEFINE p == refutedSharedAnnotations[n]
<1>11. p \in Foreign(h) /\ p \in Refutation /\ p.cand = n
  BY <1>t, <1>9, <1>10, ProgramAssumption
     DEF Foreign, TypeInv, TypeOK, Dictionary, Published, Refutation
<1>12. k \in Visited(p)
  BY <1>t, <1>9, <1>10, <1>11, RefutationFacts, RefutationReaches DEF Refutation
<1>13. InUnsatCore(unsatCore[h], k, p.cand)
  BY <1>9, <1>11 DEF InUnsatCore
<1>14. k \notin blackList[h]
  BY <1>t DEF NoTimeout
<1> QED BY <1>11, <1>12, <1>13, <1>14 DEF Related, FindImplementationsToEnqueue

(***************************************************************************)
(* The state of an instance whose queries are all answered: in the loop    *)
(* every implementation is queued or settled; after it all are valid, or   *)
(* some assertion that no candidate guards fails.                          *)
(***************************************************************************)
Sound(h) ==
    /\ \A i \in VcgenFailures : outcomes[h][i] = "None"
    /\ ~UseUnsatCore => \A i \in Impl : unsatCore[h][i] = NoCore
    /\ \A i \in Impl : outcomes[h][i] = "Valid" /\ i \notin Range(queue[h]) =>
          /\ Failing(proofs, i, assignment[h]) = {}
          /\ pc[h] \in {"infer", "update"} => Settled(h, i)
    /\ pc[h] = "starting" => Impl \ VcgenFailures \subseteq Range(queue[h])
    /\ pc[h] = "done" => queue[h] = <<>>
    /\ pc[h] \in {"infer", "update"} =>
          \A i \in Impl \ VcgenFailures : i \in Range(queue[h]) \/ outcomes[h][i] = "Valid"
    /\ pc[h] \in {"flush", "done"} =>
          \/ \E i \in Impl : RealObligation(i) \in Failing(proofs, i, assignment[h])
          \/ /\ queue[h] = <<>>
             /\ \A i \in Impl \ VcgenFailures : outcomes[h][i] = "Valid"

SoundInv ==
    /\ ChainInv /\ KeptInv
    /\ NoTimeout /\ ~Incomplete /\ ~CoreQueryMayFail => \A h \in Instance : Sound(h)

(* Applying refutations leaves settled what it does not queue, unless one  *)
(* of them was found in that implementation.                               *)
LEMMA ApplyKeepsSettled ==
    ASSUME TypeInv, NoTimeout, NEW h \in Instance, NEW S \in SUBSET Refutation,
           ApplyRefutations(h, S), UNCHANGED <<proofs, unsatCore>>,
           NEW j, Settled(h, j), j \notin Range(queue'[h]), \A o \in S : o.impl # j
    PROVE  Settled(h, j)'
<1> DEFINE R == {o.cand : o \in S}
           T == assignment[h]
<1>1. assignment'[h] = T \ R /\ j \notin Related(h, S) /\ j \in Impl \ VcgenFailures
  BY ApplyFacts DEF TypeInv, TypeOK, Settled
<1>2. \A c \in R \cap T \cap houdiniAssumeConstants[j] : ~InUnsatCore(unsatCore[h], j, c)
  <2> SUFFICES ASSUME NEW o \in S, o.cand \in houdiniAssumeConstants[j]
               PROVE  ~InUnsatCore(unsatCore[h], j, o.cand)
    OBVIOUS
  <2>1. j \in Visited(o)
    BY <1>1, RefutationFacts, RefutationReaches DEF Refutation
  <2>2. j \notin blackList[h]
    BY <1>1 DEF NoTimeout
  <2> QED BY <1>1, <2>1, <2>2 DEF Related, FindImplementationsToEnqueue
<1>3. /\ Failing(proofs, j, T \ R) = {}
      /\ unsatCore[h][j] # NoCore => SufficientCore(proofs, j, unsatCore[h][j], T \ R)
  <2>1. /\ Failing(proofs, j, T) = {}
        /\ unsatCore[h][j] # NoCore => SufficientCore(proofs, j, unsatCore[h][j], T)
    BY DEF Settled
  <2> HIDE DEF R, T
  <2> QED BY <1>1, <1>2, <2>1, RefutationKeepsSettled
<1>4. proofs' = proofs /\ unsatCore' = unsatCore
  OBVIOUS
<1> HIDE DEF R, T
<1> QED BY <1>1, <1>3, <1>4 DEF Settled

LEMMA SoundInit == Init => SoundInv
<1> SUFFICES ASSUME Init PROVE \A h \in Instance : Sound(h)
  BY ChainInit, KeptInit DEF SoundInv
<1> QED BY SessionAssumption DEF Init, Sound

(* A turn under sound answers keeps the instance sound.                    *)
LEMMA SoundTurn ==
    ASSUME TypeInv, TypeInv', NEW h \in Instance, Turn(h), NoTimeout', ~Incomplete,
           ~CoreQueryMayFail, Sound(h)
    PROVE  Sound(h)'
<1>t. TypeOK /\ TypeOK' /\ Control(h)
  BY DEF TypeInv
<1>1. PICK i \in Impl \ VcgenFailures,
           answer \in Verify(proofs, Head(queue[h]), assignment[h]) :
          /\ i = Head(queue[h]) /\ i \in Range(queue[h])
          /\ queue[h] \in Seq(Impl \ VcgenFailures) /\ queue[h] # <<>>
          /\ Range(queue[h]) \subseteq Range(Tail(queue[h])) \cup {i}
          /\ outcomes' = [outcomes EXCEPT ![h][i] = answer.outcome]
          /\ \/ VerifyValid(h, i, answer) \/ VerifyRefuted(h, i, answer)
             \/ VerifyAborts(h, i, answer) \/ VerifyInconclusive(h, i, answer)
             \/ FlushWorkList(h, i, answer)
  BY TurnFacts
<1>2. /\ outcomes'[h][i] = answer.outcome
      /\ \A k \in Impl : k # i => outcomes'[h][k] = outcomes[h][k]
  BY <1>t, <1>1 DEF TypeOK
<1>3. \A k \in VcgenFailures : outcomes'[h][k] = "None"
  BY <1>1, <1>2, SessionAssumption DEF Sound
<1>4. proofs' = proofs
  BY StepFrame DEF Step, Frame
<1>5. CASE VerifyValid(h, i, answer)
  <2>1. /\ answer.outcome = "Valid" /\ Failing(proofs, i, assignment[h]) = {}
        /\ pc[h] = "infer" /\ pc' = pc /\ queue'[h] = Tail(queue[h]) /\ assignment' = assignment
    BY <1>t, <1>1, <1>5, AnswerFacts DEF VerifyValid, Dequeue, TypeOK
  <2>2. /\ \A k \in Impl : k # i => unsatCore'[h][k] = unsatCore[h][k]
        /\ ~UseUnsatCore => unsatCore' = unsatCore
        /\ UseUnsatCore => unsatCore'[h][i] \in UnsatCores(proofs, i, assignment[h])
    BY <1>t, <1>5 DEF VerifyValid, TypeOK
  <2>3. Settled(h, i)'
    BY <1>1, <1>4, <2>1, <2>2, NewCoreSuffices DEF Sound, Settled
  <2>4. ASSUME NEW k \in Impl, k # i, outcomes'[h][k] = "Valid", k \notin Range(queue'[h])
        PROVE  Settled(h, k)'
    <3>1. Settled(h, k)
      BY <1>1, <1>2, <2>1, <2>4 DEF Sound
    <3> QED BY <1>4, <2>1, <2>2, <2>4, <3>1 DEF Settled
  <2>5. \A k \in Impl \ VcgenFailures : k \in Range(queue'[h]) \/ outcomes'[h][k] = "Valid"
    BY <1>1, <1>2, <2>1 DEF Sound
  <2>6. ~UseUnsatCore => \A k \in Impl : unsatCore'[h][k] = NoCore
    BY <2>2 DEF Sound
  <2>7. \A k \in Impl : outcomes'[h][k] = "Valid" /\ k \notin Range(queue'[h]) => Settled(h, k)'
    BY <2>3, <2>4
  <2>8. pc'[h] = "infer"
    BY <2>1
  <2> QED BY <1>3, <2>5, <2>6, <2>7, <2>8 DEF Sound, Settled
<1>6. CASE VerifyRefuted(h, i, answer)
  <2>1. /\ answer.outcome = "Invalid" /\ pc[h] = "infer" /\ pc'[h] = "update"
        /\ UNCHANGED <<queue, assignment, unsatCore>>
    BY <1>t, <1>6 DEF VerifyRefuted, TypeOK
  <2>2. \A k \in Impl : outcomes'[h][k] = "Valid" => outcomes[h][k] = "Valid"
    BY <1>2, <2>1
  <2>3. \A k \in Impl \ VcgenFailures : k \in Range(queue'[h]) \/ outcomes'[h][k] = "Valid"
    BY <1>1, <1>2, <2>1 DEF Sound
  <2> QED BY <1>3, <1>4, <2>1, <2>2, <2>3 DEF Sound, Settled
<1>7. CASE VerifyAborts(h, i, answer)
  <2>1. /\ RealErrors(answer.errors) # {} /\ pc[h] = "infer" /\ pc'[h] = "flush"
        /\ queue'[h] = Tail(queue[h]) /\ UNCHANGED <<assignment, unsatCore>>
    BY <1>t, <1>7 DEF VerifyAborts, Dequeue, TypeOK
  <2>2. answer.outcome = "Invalid" /\ RealObligation(i) \in Failing(proofs, i, assignment[h])
    <3>1. answer.outcome = "Invalid" /\ answer.errors \subseteq Failing(proofs, i, assignment[h])
      BY <1>1, <2>1, AnswerFacts
    <3>2. RealObligation(i) \in answer.errors
      BY <1>1, <2>1, AnswerFacts DEF RealErrors
    <3> QED BY <3>1, <3>2
  <2>3. \A k \in Impl : outcomes'[h][k] = "Valid" /\ k \notin Range(queue'[h]) =>
            outcomes[h][k] = "Valid" /\ k \notin Range(queue[h])
    BY <1>1, <1>2, <2>1, <2>2
  <2> QED BY <1>1, <1>3, <1>4, <2>1, <2>2, <2>3 DEF Sound
<1>8. CASE VerifyInconclusive(h, i, answer)
  BY <1>t, <1>1, <1>8 DEF VerifyInconclusive, TypeOK, NoTimeout
<1>9. CASE FlushWorkList(h, i, answer)
  <2>1. /\ pc[h] = "flush" /\ pc'[h] = "flush"
        /\ queue'[h] = Tail(queue[h]) /\ UNCHANGED <<assignment, unsatCore>>
    BY <1>t, <1>9 DEF FlushWorkList, Dequeue, TypeOK
  <2>2. \A k \in Impl : outcomes'[h][k] = "Valid" /\ k \notin Range(queue'[h]) =>
            Failing(proofs, k, assignment[h]) = {}
    BY <1>1, <1>2, <2>1, AnswerFacts DEF Sound
  <2>3. \E k \in Impl : RealObligation(k) \in Failing(proofs, k, assignment[h])
    BY <1>1, <2>1 DEF Sound
  <2> QED BY <1>3, <1>4, <2>1, <2>2, <2>3 DEF Sound
<1> QED BY <1>1, <1>5, <1>6, <1>7, <1>8, <1>9

(* So does handling a counterexample of its own or the others' ones.       *)
LEMMA SoundApply ==
    ASSUME TypeInv, TypeInv', NoTimeout, NEW h \in Instance, NEW S \in SUBSET Refutation,
           ApplyRefutations(h, S), UNCHANGED <<proofs, unsatCore, outcomes>>,
           pc[h] = "update", pc'[h] \in {"infer", "update"}, Sound(h),
           \A o \in S : Settled(h, o.impl) => o.impl \in Range(queue'[h])
    PROVE  Sound(h)'
<1>1. Range(queue[h]) \subseteq Range(queue'[h])
  BY ApplyFacts
<1>2. ASSUME NEW k \in Impl, outcomes[h][k] = "Valid", k \notin Range(queue'[h])
      PROVE  Settled(h, k)'
  <2>1. Settled(h, k)
    BY <1>1, <1>2 DEF Sound
  <2>2. \A o \in S : o.impl # k
    BY <1>2, <2>1
  <2> QED BY <1>2, <2>1, <2>2, ApplyKeepsSettled
<1>3. outcomes' = outcomes /\ unsatCore' = unsatCore
  OBVIOUS
<1>4. \A k \in Impl : outcomes'[h][k] = "Valid" /\ k \notin Range(queue'[h]) => Settled(h, k)'
  BY <1>2, <1>3
<1>5. \A k \in Impl \ VcgenFailures : k \in Range(queue'[h]) \/ outcomes'[h][k] = "Valid"
  BY <1>1, <1>3 DEF Sound
<1>6. /\ \A k \in VcgenFailures : outcomes'[h][k] = "None"
      /\ ~UseUnsatCore => \A k \in Impl : unsatCore'[h][k] = NoCore
  BY <1>3 DEF Sound
<1> QED BY <1>4, <1>5, <1>6 DEF Sound, Settled

(* In a turn that refutes, what another instance found in an               *)
(* implementation that is settled here queues it.                          *)
LEMMA ExchangeQueues ==
    ASSUME ChainInv, NoTimeout, ~Incomplete, NEW h \in Instance,
           ApplyRefutations(h, Foreign(h)), NEW o \in Foreign(h), Settled(h, o.impl)
    PROVE  o.impl \in Range(queue'[h])
<1>1. o.impl \in Related(h, Foreign(h))
  BY ForeignQueues
<1> QED BY <1>1, ForeignFacts, ApplyFacts DEF ChainInv

(* With a complete prover the turn that ends refuted some candidate.       *)
LEMMA ExchangeApplies ==
    ASSUME TypeInv, ~Incomplete, NEW h \in Instance, ExchangeRefutedAnnotations(h)
    PROVE  ApplyRefutations(h, Foreign(h))
BY DEF ExchangeRefutedAnnotations, TypeInv, Control

LEMMA SoundNext == SoundInv /\ [Next]_vars => SoundInv'
<1> SUFFICES ASSUME SoundInv, [Next]_vars, NoTimeout', ~Incomplete, ~CoreQueryMayFail,
                    NEW g \in Instance
             PROVE  Sound(g)'
  BY ChainNext, KeptNext DEF SoundInv
<1>t. TypeInv /\ TypeInv' /\ ChainInv
  BY TypeNext DEF SoundInv, ChainInv
<1>1. ASSUME NEW h \in Instance, Step(h) PROVE Sound(g)'
  <2>1. Frame(h) /\ NoTimeout
    BY <1>t, <1>1, StepFrame, StepEffect DEF Effect
  <2>2. \A k \in Instance : Sound(k)
    BY <2>1 DEF SoundInv
  <2>3. CASE g # h
    <3>1. /\ proofs' = proofs /\ queue'[g] = queue[g] /\ assignment'[g] = assignment[g]
          /\ outcomes'[g] = outcomes[g] /\ unsatCore'[g] = unsatCore[g] /\ pc'[g] = pc[g]
      BY <2>1, <2>3 DEF Frame
    <3>2. \A k : Settled(g, k) => Settled(g, k)'
      BY <3>1 DEF Settled
    <3> QED BY <2>2, <3>1, <3>2 DEF Sound
  <2> SUFFICES Sound(h)'
    BY <2>3
  <2>t. TypeOK /\ Control(h) /\ Sound(h)
    BY <1>t, <2>2 DEF TypeInv
  <2>4. CASE BeginInference(h)
    <3>1. /\ pc[h] = "idle" /\ pc'[h] = "starting"
          /\ UNCHANGED <<outcomes, unsatCore>> /\ queue'[h] \in BuildWorkList
      BY <2>t, <2>4 DEF BeginInference, TypeOK
    <3>2. Range(queue'[h]) = Impl \ VcgenFailures
      BY <3>1, EnumerationType DEF BuildWorkList
    <3> QED BY <2>t, <3>1, <3>2 DEF Sound, Control
  <2>5. CASE StartInference(h)
    <3>1. /\ pc[h] = "starting" /\ pc'[h] = "infer" /\ UNCHANGED <<outcomes, unsatCore, queue>>
      BY <2>t, <2>5 DEF StartInference, TypeOK
    <3> QED BY <2>t, <3>1 DEF Sound, Control
  <2>6. CASE Turn(h)
    BY <1>t, <2>t, <2>6, SoundTurn
  <2>7. ASSUME NEW o \in pending[h], Publish(h, o) PROVE Sound(h)'
    <3>1. /\ pc[h] = "update" /\ pc'[h] = "update" /\ ApplyRefutations(h, {o})
          /\ UNCHANGED <<proofs, unsatCore, outcomes>>
      BY <2>t, <2>7 DEF Publish, TypeOK
    <3>2. o \in Refutation /\ o.impl = Head(queue[h])
      BY <1>t, <3>1, PendingFacts, ObligationFacts
    <3>3. Head(queue[h]) \in Range(queue[h])
      BY <2>t, <3>1, DequeueFacts DEF TypeOK, Control
    <3>4. Range(queue[h]) \subseteq Range(queue'[h])
      BY <1>t, <3>1, <3>2, ApplyFacts
    <3>5. {o} \in SUBSET Refutation /\ \A e \in {o} : e.impl \in Range(queue'[h])
      BY <3>2, <3>3, <3>4
    <3> QED BY <1>t, <2>1, <2>t, <3>1, <3>5, SoundApply
  <2>8. CASE ExchangeRefutedAnnotations(h)
    <3>1. /\ pc[h] = "update" /\ pc'[h] = "infer" /\ UNCHANGED <<proofs, unsatCore, outcomes>>
      BY <2>t, <2>8 DEF ExchangeRefutedAnnotations, TypeOK
    <3>2. ApplyRefutations(h, Foreign(h))
      BY <1>t, <2>8, ExchangeApplies
    <3>3. \A o \in Foreign(h) : Settled(h, o.impl) => o.impl \in Range(queue'[h])
      BY <1>t, <2>1, <3>2, ExchangeQueues
    <3>4. Foreign(h) \in SUBSET Refutation
      BY <1>t, ForeignFacts
    <3> QED BY <1>t, <2>1, <2>t, <3>1, <3>2, <3>3, <3>4, SoundApply
  <2>9. CASE Crash(h)
    <3>1. /\ pc[h] = "update" /\ pc'[h] = "crashed"
          /\ UNCHANGED <<proofs, queue, assignment, outcomes, unsatCore>>
      BY <2>t, <2>9 DEF Crash, TypeOK
    <3> QED BY <2>t, <3>1 DEF Sound
  <2>10. CASE Finish(h)
    <3>1. /\ pc[h] \in {"infer", "flush"} /\ pc'[h] = "done" /\ queue[h] = <<>>
          /\ UNCHANGED <<proofs, queue, assignment, outcomes, unsatCore>>
      BY <2>t, <2>10 DEF Finish, TypeOK
    <3>2. Range(queue[h]) = {}
      BY <3>1 DEF Range
    <3> QED BY <2>t, <3>1, <3>2 DEF Sound
  <2> QED BY <1>1, <2>4, <2>5, <2>6, <2>7, <2>8, <2>9, <2>10 DEF Step
<1>2. CASE UNCHANGED vars
  BY <1>2 DEF vars, local, SoundInv, Sound, Settled, NoTimeout
<1> QED BY <1>1, <1>2 DEF Next

-----------------------------------------------------------------------------
(* What the exchange guarantees.                                           *)

(* An instance of ConcurrentHoudini that takes over the candidates others  *)
(* refuted still queues every implementation whose recorded Valid the      *)
(* loss of these candidates may invalidate.                                *)
THEOREM InstancesSound == Spec => []InstanceUpToDate
<1>1. SoundInv => InstanceUpToDate
  BY DEF SoundInv, Sound, InstanceUpToDate
<1> QED BY <1>1, SoundInit, SoundNext, PTL DEF Spec

(* Whatever the instances exchange, and in whatever order, those that end  *)
(* agree on the verdict and, if the program verifies, on the assignment.   *)
THEOREM VerdictsAgree == Spec => []InstancesAgree
<1>1. ASSUME SoundInv PROVE InstancesAgree
  <2> SUFFICES ASSUME NoTimeout, ~Incomplete, ~CoreQueryMayFail, VcgenFailures = {},
                      NEW g \in Instance, NEW h \in Instance,
                      pc[g] = "done", pc[h] = "done",
                      \A i \in Impl : outcomes[g][i] = "Valid"
               PROVE  /\ \A i \in Impl : outcomes[h][i] = "Valid"
                      /\ assignment[g] = assignment[h]
    BY DEF InstancesAgree
  <2>1. Kept /\ Sound(g) /\ Sound(h) /\ TypeInv
    BY <1>1 DEF SoundInv, KeptInv
  <2>2. assignment[g] \in SUBSET InitialAssignment /\ assignment[h] \in SUBSET InitialAssignment
    BY <2>1 DEF TypeInv, TypeOK
  <2>3. ASSUME NEW k \in Instance, Sound(k), queue[k] = <<>>,
               \A i \in Impl : outcomes[k][i] = "Valid"
        PROVE  \A i \in Impl : Failing(proofs, i, assignment[k]) = {}
    <3>1. Range(queue[k]) = {}
      BY <2>3 DEF Range
    <3> QED BY <2>3, <3>1 DEF Sound
  <2>4. \A i \in Impl : Failing(proofs, i, assignment[g]) = {}
    BY <2>1, <2>3 DEF Sound
  <2>5. Inductive(proofs, assignment[g])
    BY <2>4 DEF Inductive
  <2>6. assignment[g] \subseteq assignment[h]
    BY <2>1, <2>2, <2>5 DEF Kept
  <2>7. ASSUME NEW i \in Impl PROVE RealObligation(i) \notin Failing(proofs, i, assignment[h])
    <3>1. RealObligation(i) \in Asserted(i, assignment[g])
      BY DEF Asserted, ObligationsOf, RealObligation
    <3>2. Provable(proofs, RealObligation(i), assignment[g])
      BY <2>4, <3>1 DEF Failing
    <3>3. Provable(proofs, RealObligation(i), assignment[h])
      BY <2>6, <3>2, ProvableMonotone
    <3> QED BY <3>3 DEF Failing
  <2>8. queue[h] = <<>> /\ \A i \in Impl : outcomes[h][i] = "Valid"
    BY <2>1, <2>7 DEF Sound
  <2>9. \A i \in Impl : Failing(proofs, i, assignment[h]) = {}
    BY <2>1, <2>3, <2>8
  <2>10. Inductive(proofs, assignment[h])
    BY <2>9 DEF Inductive
  <2>11. assignment[h] \subseteq assignment[g]
    BY <2>1, <2>2, <2>10 DEF Kept
  <2> QED BY <2>6, <2>8, <2>11
<1> QED BY <1>1, SoundInit, SoundNext, PTL DEF Spec

(* Without inconclusive answers no implementation is given up.             *)
LEMMA NothingGivenUp ==
    ASSUME Inconclusive = {} PROVE TypeInv /\ NoTimeout /\ [Next]_vars => NoTimeout'
<1> SUFFICES ASSUME TypeInv, NoTimeout, [Next]_vars PROVE NoTimeout'
  OBVIOUS
<1>1. ASSUME NEW h \in Instance, Step(h) PROVE blackList' = blackList
  <2>1. CASE Turn(h)
    BY <2>1 DEF Turn, VerifyValid, VerifyRefuted, VerifyAborts, VerifyInconclusive, FlushWorkList
  <2> QED BY <1>1, <2>1 DEF Step, BeginInference, StartInference, Publish,
                            ExchangeRefutedAnnotations, Crash, Finish
<1> QED BY <1>1 DEF NoTimeout, Next, vars, local

(* FindImplementationsToEnqueue queues nothing for a refuted assertion:    *)
(* "the implementation is already in queue".  It is right even of an       *)
(* assertion that another instance refuted, as long as the prover is       *)
(* complete, always answers and delivers its cores.                        *)
THEOREM AssertionsQueued ==
    ASSUME Inconclusive = {}, ~Incomplete, ~CoreQueryMayFail
    PROVE  Spec => AssertSiteQueued
<1> DEFINE Inv == SoundInv /\ NoTimeout
           Queued == \A h \in Instance : pc[h] = "update" /\ pc'[h] = "infer" =>
                        \A o \in Foreign(h) : o.kind = "ASSERT" /\ o.impl \notin blackList[h] =>
                            o.impl \in Range(queue'[h])
<1>1. Init => Inv
  BY SoundInit DEF Init, NoTimeout
<1>2. Inv /\ [Next]_vars => Inv'
  BY SoundNext, NothingGivenUp DEF SoundInv, ChainInv
<1>3. Inv /\ [Next]_vars => [Queued]_vars
  <2> SUFFICES ASSUME Inv, NEW g \in Instance, Step(g), NEW h \in Instance, pc[h] = "update",
                      pc'[h] = "infer", NEW o \in Foreign(h), o.impl \notin blackList[h]
               PROVE  o.impl \in Range(queue'[h])
    BY DEF Next
  <2>t. TypeInv /\ TypeOK /\ ChainInv /\ Sound(h) /\ Foreign(h) \in SUBSET Refutation
    BY ForeignFacts DEF SoundInv, ChainInv, TypeInv
  <2>1. g = h
    BY <2>t, StepFrame DEF Frame
  <2>2. ExchangeRefutedAnnotations(h)
    BY <2>1, <2>t DEF Step, BeginInference, StartInference, Turn, Publish, Crash, Finish, TypeOK
  <2>3. ApplyRefutations(h, Foreign(h))
    BY <2>2, <2>t, ExchangeApplies
  <2>4. o.impl \in Impl \ VcgenFailures
    BY <2>t, RefutationFacts DEF NoTimeout
  <2>5. CASE o.impl \in Range(queue[h])
    BY <2>3, <2>5, <2>t, ApplyFacts
  <2>6. CASE o.impl \notin Range(queue[h])
    <3>1. Settled(h, o.impl)
      BY <2>4, <2>6, <2>t DEF Sound
    <3> QED BY <2>3, <2>t, <3>1, ExchangeQueues
  <2> QED BY <2>5, <2>6
<1> QED BY <1>1, <1>2, <1>3, PTL DEF Spec, AssertSiteQueued
=============================================================================
