--------------------------- MODULE HoudiniSession ---------------------------
(***************************************************************************)
(* What the inference loops (Houdini, ConcurrentHoudini) share and do not  *)
(* change: the prover session of an implementation and its answers, the    *)
(* implementations that a refutation concerns, and the first work list.    *)
(* The prover (Provers/SMTLib on Z3) is external: it is modelled by the    *)
(* answers the loops can get.                                              *)
(***************************************************************************)
EXTENDS HoudiniProgram, Functions

CONSTANTS
    VcgenFailures,          \* implementations whose VC generation threw
    AssumedInImpl,          \* crossDependencies.assumedInImpl
    UseCrossDependencies,   \* option /crossDependencies
    UseUnsatCore,           \* option /useUnsatCoreForContractInfer
    Inconclusive,           \* inconclusive outcomes the prover may give
    Incomplete,             \* may the prover fail to prove what is provable?
    CoreQueryMayFail,       \* may the unsat-core query be inconclusive?
    NoCore                  \* unsatCoreSet = null

Outcome == {"Valid", "Invalid", "TimeOut", "OutOfMemory", "Undetermined"}

(* CrossDependencies.VisitVariable adds the implementations whose body     *)
(* mentions the constant (and possibly others).                            *)
MentionedIn(c) == {i \in Impl : \E a \in Annot :
                        a.cand = c /\ a.kind = "ASSERT" /\ a.at = i}

ASSUME SessionAssumption ==
    /\ VcgenFailures \subseteq Impl
    /\ AssumedInImpl \in [Cand -> SUBSET Impl]
    /\ \A c \in Cand : MentionedIn(c) \subseteq AssumedInImpl[c]
    /\ UseCrossDependencies \in BOOLEAN
    /\ UseUnsatCore \in BOOLEAN
    /\ Incomplete \in BOOLEAN
    /\ CoreQueryMayFail \in BOOLEAN
    /\ Inconclusive \subseteq {"TimeOut", "OutOfMemory", "Undetermined"}
    /\ \A S \in SUBSET Cand : NoCore # S

(***************************************************************************)
(* How candidates are used: each guards one annotation, as in the programs *)
(* that pred-gen-*.js and pred-inject.js write, or only assertions when    *)
(* the option /crossDependencies is on.                                    *)
(***************************************************************************)
ASSUME CandidatesAreSeparate ==
    \A c \in Cand :
        \/ \A a, b \in Annot : a.cand = c /\ b.cand = c => a = b
        \/ UseCrossDependencies /\ \A a \in Annot : a.cand = c => a.kind = "ASSERT"

-----------------------------------------------------------------------------
(* Seeded fault: refuting a postcondition does not look at the callers.    *)
BugVisited(o) ==
    IF o.kind = "REQUIRES" THEN {j \in Callees(o.impl) : ProcOf[j] = o.at}
    ELSE {}

(* The implementations FindImplementationsToEnqueue visits for a refuted   *)
(* annotation; it asks the session of each for its unsat core.             *)
Visited(o) ==
    IF o.kind = "REQUIRES" THEN {j \in Callees(o.impl) : ProcOf[j] = o.at}
    ELSE IF o.kind = "ENSURES" THEN Callers(o.impl)
    ELSE IF UseCrossDependencies THEN AssumedInImpl[o.cand]
    ELSE {}   \* "the implementation is already in queue"

(* Seeded fault: a session with a core is never affected.                  *)
BugInUnsatCore(cores, j, c) == cores[j] = NoCore

InUnsatCore(cores, j, c) == cores[j] = NoCore \/ c \in cores[j]

FindImplementationsToEnqueue(cores, o) == {j \in Visited(o) : InUnsatCore(cores, j, o.cand)}

(* No session for a visited implementation: session.InUnsatCore throws.    *)
NullSession(o) == Visited(o) \cap VcgenFailures # {}

(***************************************************************************)
(* The answers of session.Verify for i under the assignment T.  A sound    *)
(* prover says Valid only when no obligation fails.  A complete one lists  *)
(* only failing obligations; Z3 answering "unknown", or timing out after   *)
(* the first model, is read as Invalid and may list others, or none.       *)
(***************************************************************************)
Verify(pf, i, T) ==
    {a \in [outcome: Outcome, errors: SUBSET Asserted(i, T)] :
        \/ /\ a.outcome = "Valid"
           /\ a.errors = {}
           /\ Failing(pf, i, T) = {}
        \/ /\ a.outcome = "Invalid"
           /\ Incomplete \/ (a.errors # {} /\ a.errors \subseteq Failing(pf, i, T))
        \/ /\ a.outcome \in Inconclusive
           /\ a.errors = {}}

(* The unsat cores of the VC of i: K alone makes it valid, whatever the    *)
(* other true candidates are.  An inconclusive query leaves the core empty.*)
UnsatCores(pf, i, T) ==
    {K \in SUBSET T : \A S \in SUBSET T : K \subseteq S => Failing(pf, i, S) = {}}
        \cup (IF CoreQueryMayFail THEN {{}} ELSE {})

-----------------------------------------------------------------------------
(* j is i, or is called by i directly or indirectly.                       *)
Reaches(i, j) ==
    \A S \in SUBSET Impl :
        i \in S /\ (\A k \in S : Callees(k) \subseteq S) => j \in S

(* Seeded fault: implementations without VC are queued as well.            *)
BugBuildWorkList == Bijection(1 .. Cardinality(Impl), Impl)

(***************************************************************************)
(* The work lists BuildWorkList may return: the strongly connected         *)
(* components of the call graph one after the other, callees first,        *)
(* without the implementations that have no VC.                            *)
(***************************************************************************)
BuildWorkList ==
    LET todo == Impl \ VcgenFailures
        Same(i, j) == Reaches(i, j) /\ Reaches(j, i)
    IN  {q \in Bijection(1 .. Cardinality(todo), todo) :
            \A m, n \in DOMAIN q : m < n =>
                /\ Reaches(q[m], q[n]) => Same(q[m], q[n])
                /\ Same(q[m], q[n]) => \A k \in m .. n : Same(q[m], q[k])}

(* Counterexamples from which ExtractRefutedAnnotation extracts nothing.   *)
RealErrors(errors) == {o \in errors : o.cand = NoCand}
=============================================================================
