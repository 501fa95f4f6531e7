# Houdini and its prover, modelled in TLA+

This directory specifies, model-checks and proves properties of the annotation
inference of this repository and of the layers it stands on: the Houdini
algorithm in `sources/Boogie/Source/Houdini`, with which the NPI artifact
(scripts `houdini.sh`, `heaps/*`, `quantifier/*`) selects inductive invariants
among candidate predicates; the SMT-LIB driver in
`sources/Boogie/Source/Provers/SMTLib`, which keeps a Z3 process for it; and the
part of Z3 (`sources/Z3`) that takes those commands: the check-sat command with
its timers, the combined solver, and the incremental context with its clause
learning. Boogie is started with `/contractInfer /errorLimit:100
/z3multipleErrors`, generates one verification condition (VC) per
implementation, and asks Z3.

## Inventory

| Part | State | Operations | Interaction |
|---|---|---|---|
| `Houdini` (Houdini.cs) | work queue, blacklist, assignment of the existential constants, outcome per implementation | `PerformHoudiniInference`, `HoudiniVerifyCurrent`, `UpdateAssignmentWorkList`, `FlushWorkList` | calls its sessions; called by `ExecutionEngine.RunHoudini` and by stages |
| `HoudiniSession` (Checker.cs) | VC of one implementation, constants it asserts and assumes, unsat core | `Verify`, `UpdateUnsatCore`, `InUnsatCore`, `Explain` | queries the prover |
| call graph, SCCs (Core/Absy.cs, Graph.cs) | immutable | `BuildCallGraph`, `StronglyConnectedComponents.Compute` | order of the first work list; who is queued after a refutation |
| `ConcurrentHoudini` | as `Houdini`, and one static dictionary of refuted annotations | `ExchangeRefutedAnnotations`, overrides of the loop | instances on threads of a client share the dictionary |
| `StagedHoudini` | tasks, monitors of the instances, outcome per stage | `ExecuteStage`, `AcquireHoudiniInstance`, `UnifyOutcomes` | one task per stage, waiting for other tasks; `lock (outcomes)` |
| `CandidateDependenceAnalyser` | dependence graph, plan | `Analyse`, `ApplyStages`, three plan algorithms | rewrites the program for the stages |
| SMT-LIB driver (Provers/SMTLib) | process, text kept for new processes (`common`), stack of known declarations | `DefineMacro`, `BeginCheck`, `CheckOutcomeCore`, `CheckAssumptions`, `PossiblyRestart` | commands to and answers of a process that may die |
| Z3 check-sat command (cmd_context, util) | cancellation count, handlers, timer threads, signal handler | `check_sat`, `scoped_timer`, `cancel_eh`, `reslimit` | timer threads and signals cancel the check |
| Z3 combined solver (solver) | two solvers, which of them is initialized, mode, whose results count | `assert_expr`, `push`, `pop`, `check_sat` | a second timeout, fallback from one solver to the other |
| Z3 context (smt) | assertions, scopes, trail, clauses, lemmas, conflict | `assert_expr`, `push`, `pop`, `check` | cancelled at any time; its lemmas outlive a check |
| `ExecutionEngine` | output collector, result cache, cancellation | `RunHoudini`, `VerifyImplementation` | reports outcomes |
| `AbstractHoudini`, `MLHoudini` | alternative inferences | | not used by the scripts |
| Z3 theories, benchmarks, generators | | | external, data, text generation |

What is hard here: an implementation verified under one assignment must be
verified again when that assignment shrinks, unless its VC cannot depend on the
change (call graph, cross dependencies, unsat cores); the prover may time out or
be wrong about counterexamples at any query; the order of the work list and of
counterexamples is arbitrary; instances exchange refutations made under
different assignments; stages merge whatever has ended, and compete for few
instances. Below, a process dies or is restarted between two commands that
belong together; two timers and a signal race the end of the check they are to
cancel; and what is learned under an assumption or in an inner scope must not
survive it. `PROJECT.json` lists each hazard at its line.

What makes it right: the result is the largest inductive subset of the
candidates; "verified" is true of the assignment that is returned; the verdict
answers the question of the help text of `{:existential true}`
(Core/CommandLineOptions.cs:1574); the inference ends. Of a driver and a solver:
answers are about exactly what is asserted now, and every call returns.

## Modules

| Module | Models |
|---|---|
| `HoudiniProgram` | The annotated program and its proof obligations. |
| `HoudiniSession` | What both loops share: answers of a session, which implementations a refutation concerns, the first work list. |
| `Houdini` | The work-list loop of `Houdini.cs`. |
| `HoudiniFixpoint` | Abstract specification: remove refutable candidates in any order until all is valid or a real assertion fails. |
| `HoudiniRefinement` | The refinement mapping from `Houdini` to `HoudiniFixpoint`. |
| `ConcurrentHoudini` | Several loops sharing the dictionary of refuted annotations. |
| `StagedHoudini` | The scheduler of stages. |
| `SMTLibProver` | The prover driver below Houdini's sessions, and the process by what commands do to it. |
| `Propositional` | Clauses, models and entailment. |
| `IncrementalSolver` | Abstract specification: what a client of Z3's `solver` interface may rely on. |
| `ConflictResolution` | Z3's conflict analysis, minimization and unsat cores, as operators. |
| `SmtContext` | Z3's `smt::context`, shown to implement `IncrementalSolver`. |
| `CheckSat` | `cmd_context::check_sat` and `combined_solver` with timers, Ctrl-C and cancellation; also shown to implement `IncrementalSolver`. |
| `...Proofs` | TLAPS proofs about the module named; `HoudiniSessionProofs` holds the lemmas that the proofs about the inference share, and `ConflictResolutionProofs` those about conflict analysis, which `SmtContextProofs` uses. |
| `MC...` | Instances for TLC. |

The layers meet in their promises. `HoudiniSession!Verify` assumes that Valid is
only answered for a valid VC, and that any other answer may come at any time;
`SMTLibProver!ValidIsSound` and `CallsReturn` are that assumption, shown for the
driver. The driver assumes of the process that (check-sat) answers for what is
asserted; that is `IncrementalSolver`, implemented by `CheckSat`, which in turn
takes it of its solver 2, for which `SmtContext` shows it.

**The program.** An annotation `cand ==> condition` is a record of its candidate,
its kind (`RefutedAnnotationKind`) and where it is. The VC of an implementation
is reduced to its obligations: one per candidate annotation it asserts and one
for all assertions that no candidate guards. The truth about the program is an
oracle, `proofs`: for an obligation, the sets of candidates it follows from. So
`Failing(proofs, i, T)` are the obligations of `i` that do not hold when exactly
the candidates `T` are assigned true. Init chooses the oracle from the set
`Oracles`; runs enumerate families of oracles, proofs quantify over all of them.

**The prover** is external. `Verify` is the set of answers the loop can get:
Valid only when nothing fails (soundness); Invalid with failing obligations, or,
if `Incomplete`, with any asserted obligation or none (Z3's `unknown` is read as
Invalid, and a timeout after the first model ends the list); an outcome of
`Inconclusive` at any time.

**The loop.** `assignment` is the set of constants assigned true; `queue` with
its head is `WorkQueue` and the current `Implementation`; one turn (a prover
query and everything `HoudiniVerifyCurrent` does with its answer) is one step,
since nothing else touches the state. `VerifyValid`, `VerifyRefuted`,
`VerifyAborts`, `VerifyInconclusive` and `FlushWorkList` are its branches.
`VerifyCrashes` is the call of `InUnsatCore` on the missing session of an
implementation whose VC generation failed; C# throws and the inference is over.

**Assumption on candidates** (`CandidatesAreSeparate`): a constant guards one
annotation, or, with `/crossDependencies`, only assertions. The generators of
this repository (`heaps/pred-gen-*.js`, `pred-inject.js`) write such programs.
For a constant that guards a postcondition of one and a precondition of another
procedure the loop queues the implementations related to the one refuted only,
and the soundness theorem is false; the assumption says where it applies.

**Instances.** In `ConcurrentHoudini` a step is one access to the dictionary with
the local work around it: `Publish` is one counterexample (`TryAdd`, then the
local update), `ExchangeRefutedAnnotations` works on the snapshot that
`ConcurrentDictionary.Keys` returns. The look-ups at the start of
`PerformHoudiniInference` are spread over two steps: what is published at the
beginning is found, what is published until the end may be.

**Stages.** A stage task waits for its dependences, takes an instance, merges the
outcomes stored so far, infers, stores and releases. `AssertedInStage` and
`AssumedInStage` are what the constants `stage_active` and `stage_complete`
leave of a VC after the rewriting of `ApplyStages`. The inference of a stage is
the abstract iteration, not the work list again.

**The driver.** `proc` is the process as a stack of frames with what it was told;
`common` and `known` are the driver's own memory of it. A symbol stands for the
declarations and axioms that `FlushAxioms` sends; a macro for an implementation's
conjecture; a query's assertions carry its number, so that left-over ones are
told apart. A dead process ignores what is written, or the write throws
(`Throw`). Whether a VC is valid is chosen per query; unsat can be answered only
with a negated valid VC, or with excluded counterexamples, in scope. The default
`UseLabels` path of `CheckOutcomeCore` is modelled.

**Z3's context.** Formulas are clauses, so `internalize_assertion` is `mk_clause`;
preprocessing is off, there are no theories, quantifiers, equalities or
relevancy, hence no atoms created during the search, and `reinit_clauses` and
`reassert_units` have nothing to do. All control of the check remains: each
early return, each place where cancellation is tested, and everything that
`pop_scope_core` restores. A step is one formula internalized, one literal or
one clause of `bcp`, one conflict, one decision. Left open (nondeterministic)
are the order of watch lists, the decisions, the thresholds for restarts and the
choice of lemmas to delete. Binary clauses are kept with the other ones. A literal
on the trail is justified by its set of antecedents and not by a reference to a
clause, so that the model cannot show what deleting a clause still referred to
would do (smt_context.h:1076).

**Check-sat.** Actors are the thread of the check (which runs the signal handler
too), two timer threads (the Linux branch of `scoped_timer`) and Ctrl-C. The
solvers answer rightly for what they hold, or unknown, at any time. Parameters
are chosen once. Two constants open windows that the code has:
`InitInterruptible` (a check may be cancelled while solver 2 is initialized) is
TRUE in run *check_sat_dropped*; `HandlersRace` (timer and Ctrl-C both find the
handler not cancelled yet, as `m_canceled` is a plain bool) is FALSE, and with
TRUE TLC finds a cancellation that outlives its check.

## Runs

Each file name is `<config>.cfg`; `PROJECT.json` has the details and a mutant
for every property.

| Run | Config | Shows |
|---|---|---|
| recursive | Houdini_recursive | Recursion, two implementations of a procedure, a candidate shared by two assertions, unsat cores that leave out candidates refuted later, cross dependencies; programs that verify, or fail, with a proper subset of the candidates. `VerifiedUpToDate`, `UnsatCoreSuffices`, `LosesNoInductiveSet`, `DecidesExistence`, `Termination`, `ImplementsFixpoint`. |
| failures | Houdini_failures | Main calls P calls Q, and a second caller of P without VC; timeouts and spurious or missing counterexamples. `TypeOK`, `GivenUpForGood`, `EveryImplementationReported`, `Termination`. |
| concurrent | ConcurrentHoudini | Two instances with unsat cores of their own. `InstanceUpToDate`, `NoInstanceLosesInductiveSet`, `InstancesAgree`, `AssertSiteQueued`. |
| concurrent_failures | ConcurrentHoudini_failures | `EveryInstanceEnds` with timeouts, a missing VC and spurious counterexamples. |
| staged | StagedHoudini | Four stages, two instances, exceptions. `StagedResultInductive`, `StagedLosesNoInductiveSet`, `EndsUnlessInstancesLeak`. |
| smtlib_prover | SMTLibProver | Dying and restarted processes, resource limits, two counterexamples per query, unsat cores. `NothingLeftBehind`, `ValidIsSound`, `DeclarationsKnown`, `TwoLostPerDeath`, `CallsReturn`. |
| smt_scopes | SmtContext_scopes | All sequences of six calls with one user scope. `DatabaseSound`, `FormulasRepresented`, `Implements`. |
| smt_search | SmtContext_search | Longer searches under an assumption. `BcpComplete`, `TrailJustified`, `CallsReturn`. |
| check_sat | CheckSat | All settings of the parameters, sequences of four calls; no check is cancelled while solver 2 is initialized, timer and Ctrl-C do not overlap in the handler. `Solver2UpToDate`, `HandlerAlive`, `CancelCleared`, `AuxTimeoutConfined`, `TimeoutHonoured`, `Implements`. |
| timeout | Houdini_timeout | Violation, see below. |
| check_sat_dropped | CheckSat_dropped | Violation. |
| smtlib_restart | SMTLibProver_restart | Violation. |

The inference is a batch computation, so its last state has no successor and
deadlock is not checked in the Houdini runs and for the driver, which stops
after `Close`; that calls end is what the liveness properties say. Z3's models
have an explicit step for a client that stops calling, and deadlock is checked.

**Findings.** (1) *timeout*: the comment of `UpdateAssignmentWorkList` says
"Updates the worklist and current assignment" (Houdini.cs:724). When an
implementation times out only the assignment is updated: the candidates it
asserts become false (Houdini.cs:774), and nobody is queued. In the trace P is
verified with the help of its precondition `cReqP`; then its caller Main, which
asserts `cReqP`, times out. Houdini ends and reports Main as timed out, but P as
verified, although the VC of P is not valid under the assignment returned.
(2) *smtlib_restart*: the VC of a session is
defined as a macro once, with `SendThisVC`; a restarted process is sent only
`common` (ProverInterface.cs:139) and does not know the macro. The assertion of
the VC is an error, and the query is answered about the axioms alone: Invalid,
without counterexamples, and Houdini takes the implementation off the queue. It
happens with `/restartProver`, and without it after a memory limit, which
`houdini.sh` sets, or the death of the process; `ValidIsSound` holds all the
same. The option for unsat cores is lost likewise; only because the VC is lost
too does nobody wait for a core that never comes (the mutant of `CallsReturn`
keeps the macros, and the driver hangs). (3) *check_sat_dropped*: assertions sent
to solver 2 by a cancelled check are dropped by `assert_expr_core`
(smt_context.cpp:2927) although solver 2 counts as initialized afterwards.

Four more observations, made with the same models, have no run of their own.
With `CoreQueryMayFail = TRUE` `UnsatCoreSuffices` fails: an inconclusive
unsat-core query leaves an empty core, against the `Debug.Assert` of
Checker.cs:436. With `Inconclusive` non-empty `AssertSiteQueued` fails: "the
implementation is already in queue" (Houdini.cs:930) is false of an assertion
taken over from an instance that timed out before. The same comment is false with
an incomplete prover (`Incomplete = TRUE`), and then `InstanceUpToDate` fails
without its premise: a candidate that one instance refutes without cause is taken
over by another that has verified its implementation with it. And staged inference
reports errors for programs that plain Houdini verifies, since an assertion that
no candidate guards is checked in every stage with only part of the candidates
(StagedHoudini.cs:200).

**Bounds.** Three implementations are the least in which a refutation travels
two calls (Q, P, Main), in which an SCC lies beside another component, and in
which an implementation unrelated to a refutation exists. Three or four
candidates cover each kind of annotation and a chain of dependent ones. In the
oracles of *recursive* a candidate obligation is unprovable, needs nothing or, one
per implementation, needs one candidate; a real obligation needs any one of those
its implementation assumes, all of them, or the one that P's contract gives it. So
an implementation is verified with a core that is smaller than what it assumes
and is not visited when another candidate is refuted; inferences end verified
with some of the three candidates left and others refuted; and some meet a real
error only after refutations, with candidates left. Two
instances suffice for each hazard listed, as each is about the state of one
instance and a refutation made by another. Four stages have a chain, two
independent stages and the empty first stage of `ApplyStages`; two instances are
fewer than the stages that may run. There are no counters to cap in these
models: queues do not exceed the number of implementations. Instances are
symmetric, and the runs that use the symmetry set check no liveness.

The driver has two implementations with a shared and a separate symbol, six
queries and three deaths: a death can hit a query, the query that discovers it
and the one after the restart. `SmtContext` has `MaxCalls` (six: assert, push,
assert, check, pop, check fits), `MaxScopes` one and `MaxDeletions` one; three
variables give conflicts with and without the assumption, and *smt_search* has
five, enough for a jump over several levels and for a restart, which needs more
than two. With one deletion of lemmas *smt_search* says little about deletions
that undo progress again and again; restarts are not bounded. `CheckSat` has four calls, one named assertion, and assertions that
contradict each other, so that an answer for the wrong set of them shows.

**Fairness.** `FairSpec` has weak fairness of the loop (of each instance, of each
task): they are threads that do not wait for anything but a prover query, which
returns since it is limited in time or memory, or finite. Tasks poll for an
instance with a sleep in between: a free one is eventually taken by somebody,
and weak fairness suffices because each task needs one once. Fairness is weak
of a task as a whole, `Throw` included: nothing forces a task to throw. In
`SMTLibProver` the steps of a call that has begun are weakly fair: the process
answers or dies, and its time or memory is limited. In `SmtContext` a call
keeps running; nothing is assumed of the choice of decisions or restarts. In
`CheckSat` threads that can run do run and time passes, but a search is fair only
once it is cancelled, since solvers test for that.

## Proofs

Every theorem holds for every value of the constants that satisfy the assumptions
named in the modules, which TLC evaluates for each instance; further premises are
part of the statements.

| Module | Theorem | States, under |
|---|---|---|
| `HoudiniProofs` | `Types` | `[]TypeOK` |
| | `WorkListSound` | `[]VerifiedUpToDate` |
| | `CoresSound` | `[](~CoreQueryMayFail => UnsatCoreSuffices)` |
| | `KeepsInductiveSets` | `[]LosesNoInductiveSet` |
| | `Decides` | `[]DecidesExistence` |
| | `BlackListRespected` | `[]GivenUpForGood` |
| | `AllReported` | `[]EveryImplementationReported` |
| | `Refines` | `ImplementsFixpoint`, if every implementation has a VC and the prover is complete and conclusive |
| `ConcurrentHoudiniProofs` | `Types` | `[]TypeOK` |
| | `InstancesKeepInductiveSets` | `[]NoInstanceLosesInductiveSet` |
| | `InstancesSound` | `[]InstanceUpToDate` |
| | `VerdictsAgree` | `[]InstancesAgree` |
| | `AssertionsQueued` | `AssertSiteQueued`, if the prover is complete and conclusive |
| `StagedHoudiniProofs` | `Types` | `[]TypeOK` |
| | `StagingSound` | `[]StagedResultInductive` |
| | `StagingComplete` | `[]StagedLosesNoInductiveSet` |
| `SMTLibProverProofs` | `Types` | `[]TypeOK` |
| | `CallsCleanUp` | `[]NothingLeftBehind` |
| | `ValidSound` | `[]ValidIsSound` |
| | `DeclarationsSent` | `[]DeclarationsKnown` |
| | `DeathsCostTwo` | `[]TwoLostPerDeath` |
| `CheckSatProofs` | `HandlersOutliveThreads` | `[]HandlerAlive` |
| | `AuxTimeoutStaysInSolver2` | `[]AuxTimeoutConfined` |
| | `CancellationEnds` | `[]CancelCleared`, if timer and Ctrl-C do not race |
| | `Types` | `[]TypeOK`, if they do not race |
| | `Solver2Follows` | `[]Solver2UpToDate`, if they do not race and no check is cancelled while solver 2 is initialized |
| | `Refines` | `Implements`, under the same |
| `SmtContextProofs` | `InvariantTheorem` | `[]IInv`, the inductive invariant |
| | `TypeTheorem` | `[]TypeOK` |
| | `DatabaseSoundTheorem` | `[]DatabaseSound` |
| | `FormulasRepresentedTheorem` | `[]FormulasRepresented` |
| | `BcpCompleteTheorem` | `[]BcpComplete` |
| | `TrailJustifiedTheorem` | `[]TrailJustified` |
| | `ContextRefines` | `Implements` |

The premises are where the code's guarantees end: with `HandlersRace` TLC finds a
cancellation that outlives its check, and with `InitInterruptible` the run
*check_sat_dropped* an assertion that is lost.

**The loop** (`HoudiniProofs`).

* *Types.* `TypeOK` is inductive together with the blacklist containing the
  implementations without VC. The lemmas on `Dequeue`, `Enqueue` and sequences
  made from bijections are used throughout.
* *Soundness.* `VerifiedUpToDate` is not inductive: that an implementation
  outside the queue stays valid when a candidate goes needs that the candidate
  is outside its core, and that the core suffices. `SoundInv` therefore says of
  every implementation that is Valid and not queued that its core suffices, and
  without a core that nothing fails. The central lemmas are `FailingFrame` (a VC
  depends only on the constants it mentions), `RefutationReaches` (an
  implementation that assumes a refuted candidate is visited, or is the current
  one) and `RefutationKeepsSettled`.
* *Completeness.* `LargestInv`: an inductive set stays inside the assignment,
  because by monotonicity (`ProvableMonotone`) an obligation of the set that
  fails under a larger assignment fails under the set as well.
* *Decision.* `OwedInv` adds that every implementation is queued, Valid, or
  rejected, and that the last happens only after an obligation that no candidate
  guards failed under an assignment containing all inductive sets. At the end
  (`DecisionAtEnd`) the two theorems above give both directions.
* *Refinement.* A removal maps to `Refute`, an abort to `Reject`, the empty queue
  to `Accept`. That the verdict, once open no more, stays as it is needs that an
  implementation with errors is not verified again by `FlushWorkList`.

**Instances** (`ConcurrentHoudiniProofs`). A refutation published by another
instance was made under another assignment, and taking it over does not queue
the implementation that asserts it. `ChainInv` says why that is harmless: among
any published candidates the one published first has a refutation that holds
even with all of them and everything unrefuted assigned true; so an
implementation that asserts a candidate in the dictionary fails under an
assignment that still has it, and cannot be settled as Valid (`SoundInv`).

**Stages** (`StagedHoudiniProofs`). `Blame`: a candidate missing in a stage was
given up by its own stage, whose outcome is stored, so a stage that ended knows
what its dependences gave up, and the union of what all gave up is inductive.

**The driver** (`SMTLibProverProofs`). `DriverInv` relates the step of the call to
the scopes open in the process (`Shaped`, by `Depth`) and to what it was told
(`Told`); everything asserted in these scopes belongs to the current query.
`KnownInv` does the same for the declarations. `LossInv` is an accounting: each
death pays for two lost calls, and what is `Owed` at a step is not yet spent. The
assumption `KindsAssumption` says that symbols, macros and assertions differ.

**Check-sat** (`CheckSatProofs`). `HandlerInv` bounds the life of each handler and
of its threads by the step of the check, and `CountInv` the cancellation count by
the handlers that raised it. `SolverInv` and `SentInv` follow the two solvers:
before solver 2 is initialized it holds nothing, while it is being initialized
what it holds and what is to be sent make up solver 1. For the refinement,
`NamesInv` shows that the assumptions of the solvers are the names of the live
named assertions after any pushes and pops (it needs `NamesAssumption`: the
parser defines names as new constants), and `AnswerInv` that a result of solver 2
is right for solver 1, and that solver 1, which ignores assumptions, is used
only without any.

**Conflict analysis** (`ConflictResolutionProofs`). `Resolve`, `ImpliedByMarked`
and `Support` are loops over the trail, written as recursive functions of the
position. `UpRecursion` and `DownRecursion` show that such functions exist and
`UpInduction` and `DownInduction` carry an invariant along them; these are stated
for sets of positions, without operator parameters. `LemmaFacts`: the clause
learned holds in the models of the formulas; its first literal is the negation
of one of the conflict level, and the others are false, at lower levels.
`UnsatCoreFacts`: no model of the formulas satisfies the core, provided that the
conflict lies at the search level or below.

**The context** (`SmtContextProofs`). `IInv` is the conjunction of `TypeOK` and

* `CtxInv(ctx)`, a predicate of the context alone, which each operation is shown
  to preserve (`...Keeps` lemmas: `Assign`, `PushScope`, `PopTo`, `MkAuxClause`,
  `SimplifyClauses`, `DeleteLemmas`, `Learn`, ...), whatever action calls it:
  the limits saved by scopes grow (`ScopesOK`), cut the trail where its levels do
  (`LevelsOK`), antecedents and decisions stand in order (`TrailOK`); what is kept
  at a user scope holds in the models of its formulas (`SoundOK`) and implies
  the internalized ones (`RepresentedOK`); above, literals hold in the models in
  which their antecedents do (`JustifiedOK`); a conflict is false on the trail and
  follows from the formulas or refutes an assumption (`ConflictOK`);
* `WatchesOK` and `VisitOK`: once propagation has gone past a false watched
  literal, the other watched literal of the clause is true at no higher level.
  The level is what `BcpComplete` lacks: without it, a backjump could undo the
  true literal and leave the false one, which nobody visits again. The second
  watch of a lemma, the unvisited clauses of a watch list that a conflict or a
  pop interrupts, and scopes opened while inconsistent (`Dirty`) are what makes
  its proof long;
* `ControlOK`: what each step of a call may rely on, such as that assumptions are
  in place, or a conflict says that they cannot be, when the search runs.

The checked invariants are corollaries. They are not inductive: that a pop keeps
`DatabaseSound` needs that the saved limits cut formulas, clauses, lemmas and
trail at the same level, that a lemma learned keeps it needs `JustifiedOK`, and
that deleting a satisfied clause keeps `FormulasRepresented` needs that the
literal satisfying it lives as long as the clause does.

For the refinement the frames of `IncrementalSolver` are the formulas between
the limits of two scopes. Calls map to its calls, steps of the search to
stuttering. Unsat: `ConflictOK` makes the core's literals inconsistent with the
formulas. Sat: at the final check all atoms are assigned, so by `BcpComplete`
every clause is true, and by `RepresentedOK` so is every formula, under the
assumptions. The proof needs `VarsAssumption` (variables are positive, so that
negation is the complement) and `SmtContextAssumption` (asserted clauses are not
empty, a check has finitely many assumptions, as a vector holds them).

Trying to prove `IInv` inductive showed a mistake of the model: every `propagate`
takes its own start of the queue (`unsigned qhead = m_qhead`,
smt_context.cpp:1756), to which a cancelled one returns. The model kept the start
of the propagation of the assumptions for the search that follows it; `Go` now
sets it whenever a propagation may begin.

Only model-checked: liveness (`Termination`, `EveryInstanceEnds`,
`EndsUnlessInstancesLeak`, `CallsReturn`, `TimeoutHonoured`), which is out of the
prover's reach. Every invariant, every action property and every refinement that
the passing runs check is a theorem.

## Plan

In order, after what exists:

1. `StagePlan`: the three plan algorithms of `CandidateDependenceAnalyser`;
   timeouts and unsat cores within stages.
2. The checker pool (`FindCheckerFor`), `OutputCollector` and the verification
   result cache of `ExecutionEngine`; `ApplyAssignment`.

## Not modelled

*Boogie.* Parsing, typing, VC generation and formula translation (no protocol
state; a VC is its obligations), `MLHoudini` (an external learner), `Inline`
(off in the scripts), `Explain` and its MAXSAT query (diagnostics), log files,
statistics and trace output. Proof obligations are monotone in the assumed
candidates, which is a property of logic and not of this code.

*Z3.* Nearly all of the repository's C++ is Z3: theories, quantifier
instantiation, rewriting, arithmetic, other engines, parsers and bindings. They
are libraries of decision procedures without protocol between them and Boogie;
what Boogie relies on is the solver interface. Modelled is the path that its
commands take to the clause-level search. Of that path, not modelled: theory
propagation and justifications, relevancy, `reinit_clauses`, phase selection and
activities (heuristics), `get_consequences`, changes of parameters between
calls, cancellation outside of checks, a second Ctrl-C, the timers of other
platforms.

*Scripts and benchmarks.* Text generation and shell loops.
