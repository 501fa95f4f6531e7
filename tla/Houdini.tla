------------------------------ MODULE Houdini ------------------------------
(***************************************************************************)
(* The Houdini work-list algorithm of Houdini.cs on one prover: verify the *)
(* implementation at the head of the queue under the current assignment,   *)
(* drop the candidates its counterexamples refute, and queue again the     *)
(* implementations that assumed them.                                      *)
(***************************************************************************)
EXTENDS HoudiniSession, Sequences

CONSTANTS
    InitialAssignment,      \* candidates initially true
    Oracles                 \* the oracles to consider

VARIABLES
    proofs,                 \* the oracle: chosen by Init, never changed
    queue,                  \* WorkQueue; the head is the current Implementation
    blackList,              \* blackList
    assignment,             \* candidates assigned true
    outcomes,               \* implementationOutcomes[i].outcome
    nonCandidateErrors,     \* implementationOutcomes[i].errors
    unsatCore,              \* unsatCoreSet of the session of i
    pc                      \* infer, flush, done, or crashed on an exception

state == <<queue, blackList, assignment, outcomes, nonCandidateErrors, unsatCore, pc>>
vars == <<proofs, state>>

ASSUME HoudiniAssumption ==
    /\ InitialAssignment \subseteq Cand
    /\ Oracles \subseteq [Obligation -> SUBSET SUBSET Cand]

-----------------------------------------------------------------------------
Init ==
    /\ proofs \in Oracles
    /\ queue \in BuildWorkList
    /\ blackList = VcgenFailures
    /\ assignment = InitialAssignment
    /\ outcomes = [i \in Impl |-> "None"]
    /\ nonCandidateErrors = [i \in Impl |-> {}]
    /\ unsatCore = [i \in Impl |-> NoCore]
    /\ pc = "infer"

(* Seeded fault: only failures are recorded.                               *)
BugUpdateHoudiniOutcome(i, answer) ==
    IF answer.outcome = "Valid"
    THEN UNCHANGED <<outcomes, nonCandidateErrors>>
    ELSE /\ outcomes' = [outcomes EXCEPT ![i] = answer.outcome]
         /\ nonCandidateErrors' = [nonCandidateErrors EXCEPT ![i] = RealErrors(answer.errors)]

UpdateHoudiniOutcome(i, answer) ==
    /\ outcomes' = [outcomes EXCEPT ![i] = answer.outcome]
    /\ nonCandidateErrors' = [nonCandidateErrors EXCEPT ![i] = RealErrors(answer.errors)]

(* Seeded fault: Enqueue forgets to look whether S is queued already.      *)
BugEnqueue(S) ==
    \E t \in Bijection(1 .. Cardinality(S), S) : queue' = queue \o t

(* queue.Enqueue for each member of S, in an order the caller chooses.     *)
Enqueue(S) ==
    LET new == S \ Range(queue)
    IN  \E t \in Bijection(1 .. Cardinality(new), new) : queue' = queue \o t

(* Seeded faults: assertions stay, or everything i asserts is removed.     *)
BugKeepAsserts(i, errors) ==
    assignment' = assignment \ {o.cand : o \in {e \in errors : e.kind # "ASSERT"}}
BugRemoveAll(i, errors) == assignment' = assignment \ houdiniAssertConstants[i]

(* UpdateAssignment for each counterexample of i.                          *)
UpdateAssignment(i, errors) ==
    assignment' = assignment \ {o.cand : o \in errors}

Dequeue == queue' = Tail(queue)

(* HoudiniVerifyCurrent, outcome Valid: dequeue.                           *)
VerifyValid(i, answer) ==
    /\ pc = "infer"
    /\ answer.outcome = "Valid"
    /\ UpdateHoudiniOutcome(i, answer)
    /\ IF UseUnsatCore
       THEN \E K \in UnsatCores(proofs, i, assignment) :
                unsatCore' = [unsatCore EXCEPT ![i] = K]
       ELSE UNCHANGED unsatCore
    /\ Dequeue
    /\ UNCHANGED <<proofs, blackList, assignment, pc>>

(* HoudiniVerifyCurrent, only candidate errors: remove the candidates they *)
(* refute, queue the implementations related to them, and verify again.    *)
(* With no error at all the implementation is dequeued.                    *)
VerifyRefuted(i, answer) ==
    /\ pc = "infer"
    /\ answer.outcome = "Invalid"
    /\ RealErrors(answer.errors) = {}
    /\ \A o \in answer.errors : ~NullSession(o)
    /\ UpdateHoudiniOutcome(i, answer)
    /\ IF answer.errors = {}
       THEN Dequeue
       ELSE Enqueue((UNION {FindImplementationsToEnqueue(unsatCore, o) : o \in answer.errors})
                        \ blackList)
    /\ UpdateAssignment(i, answer.errors)
    /\ UNCHANGED <<proofs, blackList, unsatCore, pc>>

(* FindImplementationsToEnqueue meets an implementation without session:   *)
(* the NullReferenceException leaves PerformHoudiniInference; the state it *)
(* abandons half-updated is not used again.                                *)
VerifyCrashes(i, answer) ==
    /\ pc = "infer"
    /\ answer.outcome = "Invalid"
    /\ RealErrors(answer.errors) = {}
    /\ \E o \in answer.errors : NullSession(o)
    /\ UpdateHoudiniOutcome(i, answer)
    /\ pc' = "crashed"
    /\ UNCHANGED <<proofs, queue, blackList, assignment, unsatCore>>

(* HoudiniVerifyCurrent, an error that refutes no candidate: abort.        *)
VerifyAborts(i, answer) ==
    /\ pc = "infer"
    /\ answer.outcome = "Invalid"
    /\ RealErrors(answer.errors) # {}
    /\ UpdateHoudiniOutcome(i, answer)
    /\ Dequeue
    /\ pc' = "flush"
    /\ UNCHANGED <<proofs, blackList, assignment, unsatCore>>

(* Seeded fault: an implementation that timed out is tried again later.    *)
BugVerifyInconclusive(i, answer) ==
    /\ pc = "infer"
    /\ answer.outcome \in Inconclusive
    /\ UpdateHoudiniOutcome(i, answer)
    /\ assignment' = assignment \ houdiniAssertConstants[i]
    /\ queue' = Append(Tail(queue), i)
    /\ UNCHANGED <<proofs, blackList, unsatCore, pc>>

(* HoudiniVerifyCurrent, timeout or spaceout: give up the implementation   *)
(* and every candidate it asserts.                                         *)
VerifyInconclusive(i, answer) ==
    /\ pc = "infer"
    /\ answer.outcome \in Inconclusive
    /\ UpdateHoudiniOutcome(i, answer)
    /\ assignment' = assignment \ houdiniAssertConstants[i]
    /\ blackList' = blackList \cup {i}
    /\ Dequeue
    /\ UNCHANGED <<proofs, unsatCore, pc>>

(* FlushWorkList: verify what is left once, without refuting anything.     *)
FlushWorkList(i, answer) ==
    /\ pc = "flush"
    /\ UpdateHoudiniOutcome(i, answer)
    /\ Dequeue
    /\ UNCHANGED <<proofs, blackList, assignment, unsatCore, pc>>

(* The queue is empty: PerformHoudiniInference returns.                    *)
Finish ==
    /\ pc \in {"infer", "flush"}
    /\ queue = <<>>
    /\ pc' = "done"
    /\ UNCHANGED <<proofs, queue, blackList, assignment, outcomes,
                   nonCandidateErrors, unsatCore>>

(* One turn of the loop: query the prover for the current implementation,  *)
(* the head of the queue (TryCatchVerify), and handle its answer.          *)
Turn ==
    /\ queue # <<>>
    /\ \E answer \in Verify(proofs, Head(queue), assignment) :
          \/ VerifyValid(Head(queue), answer)
          \/ VerifyRefuted(Head(queue), answer)
          \/ VerifyCrashes(Head(queue), answer)
          \/ VerifyAborts(Head(queue), answer)
          \/ VerifyInconclusive(Head(queue), answer)
          \/ FlushWorkList(Head(queue), answer)

Next == Turn \/ Finish

Spec == Init /\ [][Next]_vars

(* The loop runs on its own thread and each prover query returns: it has a *)
(* time or memory limit, or is finite.                                     *)
FairSpec == Spec /\ WF_vars(Next)

-----------------------------------------------------------------------------
TypeOK ==
    /\ proofs \in [Obligation -> SUBSET SUBSET Cand]
    /\ queue \in Seq(Impl \ VcgenFailures)
    /\ blackList \in SUBSET Impl
    /\ assignment \in SUBSET InitialAssignment
    /\ outcomes \in [Impl -> Outcome \cup {"None"}]
    /\ nonCandidateErrors \in [Impl -> SUBSET Obligation]
    /\ unsatCore \in [Impl -> {NoCore} \cup SUBSET Cand]
    /\ pc \in {"infer", "flush", "done", "crashed"}

(* No implementation timed out so far in the inference loop.               *)
NoTimeout == blackList = VcgenFailures

(* WorkQueue's set and queue agree: an implementation waits at most once,  *)
(* so that one Dequeue takes it off, and a blacklisted one never comes     *)
(* back to be verified and time out again.                                 *)
GivenUpForGood ==
    /\ IsInjective(queue)
    /\ Range(queue) \cap blackList = {}

(***************************************************************************)
(* Soundness of the work list.  An implementation recorded as Valid that   *)
(* is not queued has a valid VC under the CURRENT assignment, not only     *)
(* under the one it was verified with: whatever was refuted since then     *)
(* queued it again, unless its VC did not depend on it.                    *)
(***************************************************************************)
VerifiedUpToDate ==
    NoTimeout /\ ~CoreQueryMayFail =>
        \A i \in Impl : outcomes[i] = "Valid" /\ i \notin Range(queue) =>
            Failing(proofs, i, assignment) = {}

(***************************************************************************)
(* "Updates the worklist and current assignment" (Houdini.cs:724), also    *)
(* when candidates are given up because an implementation times out.  So   *)
(* an implementation reported as verified, the one that timed out not      *)
(* among them, is valid under the assignment returned with it.             *)
(***************************************************************************)
ReportedVerifiedIsValid ==
    pc = "done" =>
        \A i \in Impl : outcomes[i] = "Valid" => Failing(proofs, i, assignment) = {}

(* The part of the unsat core of i that its VC assumes is still assigned   *)
(* true, and alone makes the VC valid.                                     *)
CoreSuffices(i) ==
    LET K == unsatCore[i] \cap houdiniAssumeConstants[i]
    IN  /\ K \subseteq assignment
        /\ \A S \in SUBSET assignment : K \subseteq S => Failing(proofs, i, S) = {}

(***************************************************************************)
(* The set in session.unsatCoreSet is an unsat core for as long as         *)
(* InUnsatCore is asked about it: it still makes the VC of a verified      *)
(* implementation valid, whichever other candidates are removed.  (Checker *)
(* .cs asserts that the query which computes it was answered Valid.)       *)
(***************************************************************************)
UnsatCoreSuffices ==
    NoTimeout /\ pc = "infer" =>
        \A i \in Impl :
            outcomes[i] = "Valid" /\ i \notin Range(queue) /\ unsatCore[i] # NoCore =>
                CoreSuffices(i)

(* Nothing is refuted without need: every inductive set of candidates      *)
(* survives, in whatever order the work list is processed and whichever    *)
(* counterexamples the prover finds.                                       *)
LosesNoInductiveSet ==
    NoTimeout /\ ~Incomplete =>
        \A S \in SUBSET InitialAssignment :
            Inductive(proofs, S) => S \subseteq assignment

(***************************************************************************)
(* The help text of {:existential true}: with /contractInfer, "Boogie will *)
(* check whether there exists a Boolean assignment to the existentials     *)
(* that makes all verification conditions valid".  When Houdini ends, each *)
(* implementation is Valid exactly if there is such an assignment, and the *)
(* one returned is one: aborting on the first real error loses nothing.    *)
(***************************************************************************)
DecidesExistence ==
    /\ pc = "done" /\ VcgenFailures = {} /\ NoTimeout
    /\ Inconclusive = {} /\ ~Incomplete /\ ~CoreQueryMayFail
    => LET verified == \A i \in Impl : outcomes[i] = "Valid"
       IN  /\ verified <=> \E S \in SUBSET InitialAssignment : AllValid(proofs, S)
           /\ verified => AllValid(proofs, assignment)

(* Whatever happened (timeouts, an abort, prover failures), every          *)
(* implementation with a VC has an outcome when Houdini returns, and an    *)
(* implementation given up in the loop asserts no remaining candidate.     *)
EveryImplementationReported ==
    pc = "done" =>
        \A i \in Impl \ VcgenFailures :
            /\ outcomes[i] # "None"
            /\ i \in blackList => houdiniAssertConstants[i] \cap assignment = {}

(* The inference ends: each query that does not shorten the queue refutes  *)
(* a candidate, even when refutations queue implementations again.         *)
Termination == <>(pc \in {"done", "crashed"})
=============================================================================
