------------------------- MODULE ConcurrentHoudini -------------------------
(***************************************************************************)
(* Several Houdini instances of one program (ConcurrentHoudini.cs), each   *)
(* on a thread and a prover of its own.  They share one dictionary of      *)
(* refuted annotations: an instance publishes each candidate it refutes,   *)
(* and takes over what the others published after a query that was         *)
(* answered Invalid.                                                       *)
(*                                                                         *)
(* Only the dictionary is shared, so a step here is one access to it with  *)
(* the local work around it.                                               *)
(***************************************************************************)
EXTENDS HoudiniSession, Sequences

CONSTANTS
    Instance,               \* the instances (their ids)
    InitialAssignment,      \* candidates initially true
    Oracles,                \* the oracles to consider
    NotRefuted              \* absent from refutedSharedAnnotations

VARIABLES
    proofs,                 \* the oracle: chosen by Init, never changed
    refutedSharedAnnotations, \* candidate -> the annotation that was refuted
    queue, blackList, assignment, outcomes, unsatCore, \* as in Houdini, by instance
    pending,                \* counterexamples not handled yet
    found,                  \* some candidate was refuted in this turn
    pc                      \* idle, starting, infer, update, flush, done, crashed

local == <<queue, blackList, assignment, outcomes, unsatCore, pending, found, pc>>
vars == <<proofs, refutedSharedAnnotations, local>>

ASSUME ConcurrentAssumption ==
    /\ InitialAssignment \subseteq Cand
    /\ Oracles \subseteq [Obligation -> SUBSET SUBSET Cand]
    /\ \A o \in Obligation : NotRefuted # o

Published == {c \in Cand : refutedSharedAnnotations[c] # NotRefuted}

-----------------------------------------------------------------------------
Init ==
    /\ proofs \in Oracles
    /\ refutedSharedAnnotations = [c \in Cand |-> NotRefuted]
    /\ queue = [h \in Instance |-> <<>>]
    /\ blackList = [h \in Instance |-> VcgenFailures]
    /\ assignment = [h \in Instance |-> InitialAssignment]
    /\ outcomes = [h \in Instance |-> [i \in Impl |-> "None"]]
    /\ unsatCore = [h \in Instance |-> [i \in Impl |-> NoCore]]
    /\ pending = [h \in Instance |-> {}]
    /\ found = [h \in Instance |-> FALSE]
    /\ pc = [h \in Instance |-> "idle"]

(* PerformHoudiniInference starts to look up its candidates in the         *)
(* dictionary; the others go on meanwhile.  What is published already is   *)
(* certainly found.                                                        *)
BeginInference(h) ==
    /\ pc[h] = "idle"
    /\ \E q \in BuildWorkList : queue' = [queue EXCEPT ![h] = q]
    /\ assignment' = [assignment EXCEPT ![h] = @ \ Published]
    /\ pc' = [pc EXCEPT ![h] = "starting"]
    /\ UNCHANGED <<proofs, refutedSharedAnnotations, blackList, outcomes, unsatCore,
                   pending, found>>

(* The look-ups end: any candidate published since may have been found.    *)
StartInference(h) ==
    /\ pc[h] = "starting"
    /\ \E R \in SUBSET (Published \cap assignment[h]) :
            assignment' = [assignment EXCEPT ![h] = @ \ R]
    /\ pc' = [pc EXCEPT ![h] = "infer"]
    /\ UNCHANGED <<proofs, refutedSharedAnnotations, queue, blackList, outcomes, unsatCore,
                   pending, found>>

-----------------------------------------------------------------------------
UpdateHoudiniOutcome(h, i, answer) ==
    outcomes' = [outcomes EXCEPT ![h][i] = answer.outcome]

Dequeue(h) == queue' = [queue EXCEPT ![h] = Tail(@)]

(* Seeded faults: nothing is queued; the candidates stay true; all that    *)
(* the refutation sites assert is removed.                                 *)
BugDropOnly(h, S) ==
    /\ assignment' = [assignment EXCEPT ![h] = @ \ {o.cand : o \in S}]
    /\ UNCHANGED queue
BugKeepTrue(h, S) == UNCHANGED <<queue, assignment>>
BugDropSites(h, S) ==
    /\ assignment' = [assignment EXCEPT ![h] =
                        @ \ (UNION {houdiniAssertConstants[o.impl] : o \in S})]
    /\ UNCHANGED queue

(* AddRelatedToWorkList and UpdateAssignment for the annotations in S.     *)
ApplyRefutations(h, S) ==
    LET related == (UNION {FindImplementationsToEnqueue(unsatCore[h], o) : o \in S})
                        \ blackList[h]
        new == related \ Range(queue[h])
    IN  /\ \E t \in Bijection(1 .. Cardinality(new), new) :
                queue' = [queue EXCEPT ![h] = @ \o t]
        /\ assignment' = [assignment EXCEPT ![h] = @ \ {o.cand : o \in S}]

(* refutedSharedAnnotations.TryAdd: the first refutation stays.            *)
TryAdd(o) ==
    refutedSharedAnnotations' =
        IF o.cand \in Published THEN refutedSharedAnnotations
        ELSE [refutedSharedAnnotations EXCEPT ![o.cand] = o]

-----------------------------------------------------------------------------
(* HoudiniVerifyCurrent, outcome Valid.                                    *)
VerifyValid(h, i, answer) ==
    /\ pc[h] = "infer"
    /\ answer.outcome = "Valid"
    /\ UpdateHoudiniOutcome(h, i, answer)
    /\ IF UseUnsatCore
       THEN \E K \in UnsatCores(proofs, i, assignment[h]) :
                unsatCore' = [unsatCore EXCEPT ![h][i] = K]
       ELSE UNCHANGED unsatCore
    /\ Dequeue(h)
    /\ UNCHANGED <<proofs, refutedSharedAnnotations, blackList, assignment, pending, found, pc>>

(* HoudiniVerifyCurrent, an error that refutes no candidate: abort.        *)
VerifyAborts(h, i, answer) ==
    /\ pc[h] = "infer"
    /\ RealErrors(answer.errors) # {}
    /\ UpdateHoudiniOutcome(h, i, answer)
    /\ Dequeue(h)
    /\ pc' = [pc EXCEPT ![h] = "flush"]
    /\ UNCHANGED <<proofs, refutedSharedAnnotations, blackList, assignment, unsatCore,
                   pending, found>>

(* HoudiniVerifyCurrent, timeout or spaceout.  Nothing is published.       *)
VerifyInconclusive(h, i, answer) ==
    /\ pc[h] = "infer"
    /\ answer.outcome \in Inconclusive
    /\ UpdateHoudiniOutcome(h, i, answer)
    /\ assignment' = [assignment EXCEPT ![h] = @ \ houdiniAssertConstants[i]]
    /\ blackList' = [blackList EXCEPT ![h] = @ \cup {i}]
    /\ Dequeue(h)
    /\ UNCHANGED <<proofs, refutedSharedAnnotations, unsatCore, pending, found, pc>>

(* HoudiniVerifyCurrent, outcome Invalid, without a real error:            *)
(* UpdateAssignmentWorkList begins to handle the counterexamples.          *)
VerifyRefuted(h, i, answer) ==
    /\ pc[h] = "infer"
    /\ answer.outcome = "Invalid"
    /\ RealErrors(answer.errors) = {}
    /\ UpdateHoudiniOutcome(h, i, answer)
    /\ pending' = [pending EXCEPT ![h] = answer.errors]
    /\ found' = [found EXCEPT ![h] = FALSE]
    /\ pc' = [pc EXCEPT ![h] = "update"]
    /\ UNCHANGED <<proofs, refutedSharedAnnotations, queue, blackList, assignment, unsatCore>>

(* One counterexample: publish the refuted annotation and apply it.        *)
Publish(h, o) ==
    /\ pc[h] = "update"
    /\ o \in pending[h]
    /\ ~NullSession(o)
    /\ TryAdd(o)
    /\ ApplyRefutations(h, {o})
    /\ pending' = [pending EXCEPT ![h] = @ \ {o}]
    /\ found' = [found EXCEPT ![h] = TRUE]
    /\ UNCHANGED <<proofs, blackList, outcomes, unsatCore, pc>>

(* The published annotations that h still has to take over.                *)
Foreign(h) == {refutedSharedAnnotations[c] : c \in Published \cap assignment[h]}

(* ExchangeRefutedAnnotations, on a snapshot of the keys, and the end of   *)
(* the turn: dequeue unless some candidate was refuted.                    *)
ExchangeRefutedAnnotations(h) ==
    LET S == Foreign(h)
    IN  /\ pc[h] = "update"
        /\ pending[h] = {}
        /\ \A o \in S : ~NullSession(o)
        /\ IF S = {} /\ ~found[h]
           THEN Dequeue(h) /\ UNCHANGED assignment
           ELSE ApplyRefutations(h, S)
        /\ pc' = [pc EXCEPT ![h] = "infer"]
        /\ UNCHANGED <<proofs, refutedSharedAnnotations, blackList, outcomes, unsatCore,
                       pending, found>>

(* FindImplementationsToEnqueue meets an implementation without session;   *)
(* the annotation it is called for is published by then.                   *)
Crash(h) ==
    /\ pc[h] = "update"
    /\ \/ \E o \in pending[h] : NullSession(o) /\ TryAdd(o)
       \/ /\ pending[h] = {}
          /\ \E o \in Foreign(h) : NullSession(o)
          /\ UNCHANGED refutedSharedAnnotations
    /\ pc' = [pc EXCEPT ![h] = "crashed"]
    /\ UNCHANGED <<proofs, queue, blackList, assignment, outcomes, unsatCore, pending, found>>

FlushWorkList(h, i, answer) ==
    /\ pc[h] = "flush"
    /\ UpdateHoudiniOutcome(h, i, answer)
    /\ Dequeue(h)
    /\ UNCHANGED <<proofs, refutedSharedAnnotations, blackList, assignment, unsatCore,
                   pending, found, pc>>

Finish(h) ==
    /\ pc[h] \in {"infer", "flush"}
    /\ queue[h] = <<>>
    /\ pc' = [pc EXCEPT ![h] = "done"]
    /\ UNCHANGED <<proofs, refutedSharedAnnotations, queue, blackList, assignment, outcomes,
                   unsatCore, pending, found>>

(* One prover query (TryCatchVerify) for the head of the queue.            *)
Turn(h) ==
    /\ pc[h] \in {"infer", "flush"}
    /\ queue[h] # <<>>
    /\ \E answer \in Verify(proofs, Head(queue[h]), assignment[h]) :
          \/ VerifyValid(h, Head(queue[h]), answer)
          \/ VerifyRefuted(h, Head(queue[h]), answer)
          \/ VerifyAborts(h, Head(queue[h]), answer)
          \/ VerifyInconclusive(h, Head(queue[h]), answer)
          \/ FlushWorkList(h, Head(queue[h]), answer)

Step(h) ==
    \/ BeginInference(h)
    \/ StartInference(h)
    \/ Turn(h)
    \/ \E o \in pending[h] : Publish(h, o)
    \/ ExchangeRefutedAnnotations(h)
    \/ Crash(h)
    \/ Finish(h)

Next == \E h \in Instance : Step(h)

Spec == Init /\ [][Next]_vars

(* Every instance has its own thread, and its queries return.              *)
FairSpec == Spec /\ \A h \in Instance : WF_vars(Step(h))

-----------------------------------------------------------------------------
TypeOK ==
    /\ refutedSharedAnnotations \in [Cand -> Obligation \cup {NotRefuted}]
    /\ queue \in [Instance -> Seq(Impl \ VcgenFailures)]
    /\ blackList \in [Instance -> SUBSET Impl]
    /\ assignment \in [Instance -> SUBSET InitialAssignment]
    /\ outcomes \in [Instance -> [Impl -> Outcome \cup {"None"}]]
    /\ unsatCore \in [Instance -> [Impl -> {NoCore} \cup SUBSET Cand]]
    /\ pending \in [Instance -> SUBSET Obligation]
    /\ found \in [Instance -> BOOLEAN]
    /\ pc \in [Instance -> {"idle", "starting", "infer", "update", "flush", "done", "crashed"}]

(* No instance gave up an implementation so far.                           *)
NoTimeout == \A h \in Instance : blackList[h] = VcgenFailures

(***************************************************************************)
(* Soundness of every instance's work list under the exchange: what h      *)
(* recorded as Valid and is not queued is valid under h's current          *)
(* assignment, although other instances, with other assignments, refuted   *)
(* some of the candidates that h gave up.  A candidate that an incomplete  *)
(* prover refutes without cause is taken over without its implementation   *)
(* being queued.                                                           *)
(***************************************************************************)
InstanceUpToDate ==
    NoTimeout /\ ~Incomplete /\ ~CoreQueryMayFail =>
        \A h \in Instance, i \in Impl :
            outcomes[h][i] = "Valid" /\ i \notin Range(queue[h]) =>
                Failing(proofs, i, assignment[h]) = {}

(* No instance gives up a candidate of an inductive set because of what    *)
(* the others publish, in whatever order and state they refuted it.        *)
NoInstanceLosesInductiveSet ==
    NoTimeout /\ ~Incomplete =>
        \A S \in SUBSET InitialAssignment : Inductive(proofs, S) =>
            \A h \in Instance : S \subseteq assignment[h]

(* Instances that end agree: either none of them verifies the program, or  *)
(* all do, with the same assignment.                                       *)
InstancesAgree ==
    NoTimeout /\ ~Incomplete /\ ~CoreQueryMayFail /\ VcgenFailures = {} =>
        \A g, h \in Instance :
            /\ pc[g] = "done" /\ pc[h] = "done"
            /\ \A i \in Impl : outcomes[g][i] = "Valid"
            => /\ \A i \in Impl : outcomes[h][i] = "Valid"
               /\ assignment[g] = assignment[h]

(***************************************************************************)
(* FindImplementationsToEnqueue queues nothing for a refuted assertion,    *)
(* saying "the implementation is already in queue".  Of an assertion taken *)
(* over from another instance: its implementation is queued afterwards,    *)
(* unless it is blacklisted.                                               *)
(***************************************************************************)
AssertSiteQueued ==
    [][\A h \in Instance : pc[h] = "update" /\ pc'[h] = "infer" =>
          \A o \in Foreign(h) : o.kind = "ASSERT" /\ o.impl \notin blackList[h] =>
              o.impl \in Range(queue'[h])]_vars

(* Every instance ends, whatever the others publish.                       *)
EveryInstanceEnds == \A h \in Instance : <>(pc[h] \in {"done", "crashed"})
=============================================================================
