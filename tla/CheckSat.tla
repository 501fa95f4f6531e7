------------------------------ MODULE CheckSat ------------------------------
(***************************************************************************)
(* What happens around a search when Boogie sends (check-sat) to Z3:       *)
(* cmd_context::check_sat with its cancellation handler, its timer thread  *)
(* and Ctrl-C, and combined_solver, which keeps two solvers, gives the     *)
(* incremental one a timeout of its own and falls back to the other one.   *)
(*                                                                         *)
(* Solver 1 is a tactic2solver and solver 2 an smt_solver.  Each answers   *)
(* rightly for the assertions it holds, or unknown; for solver 2 that is   *)
(* what SmtContext shows.                                                  *)
(***************************************************************************)
EXTENDS Propositional, Sequences, FiniteSets, Functions

CONSTANTS
    Formulas,          \* the clauses that the client asserts
    Named,             \* the assertions that it names, as [clause, name]
    AssumptionSets,    \* the sets of literals under which it checks
    InitInterruptible, \* a check may be cancelled while assertions are sent to solver 2
    HandlersRace,      \* timer and Ctrl-C may both find the handler not yet cancelled
    MaxScopes,         \* bound on the scopes
    MaxCalls           \* bound on the calls of the client

ASSUME CheckSatAssumption ==
    /\ Formulas \subseteq Clauses
    /\ \A n \in Named : n.clause \in Clauses /\ n.name \in Literals
    /\ AssumptionSets \subseteq SUBSET Literals
    /\ InitInterruptible \in BOOLEAN /\ HandlersRace \in BOOLEAN
    /\ MaxScopes \in Nat /\ MaxCalls \in Nat

(* The parser defines a name, which is an error if it is in use: formulas  *)
(* do not mention the constants that stand for names.                      *)
ASSUME NamesAssumption ==
    \A n \in Named : \A f \in Formulas \cup {m.clause : m \in Named} : -n.name \notin f

VARIABLES
    params,  \* timeout, inc_timeout, ignore_solver1, use_solver1_when_undef
    s1, s2,  \* the two solvers
    flags,   \* the flags of combined_solver
    todo,    \* the assertions still to be sent to solver 2
    pc,      \* the step of the check under way
    given,   \* the assumptions passed to the check
    asked,   \* these and the names of the named assertions
    result,  \* what solver 2 returned
    core2,   \* the unsat core that solver 2 found last
    answer,  \* what the last call returned, "none" unless it was a check
    cancel,  \* reslimit::m_cancel
    eh,      \* the handlers: of the check and of the timeout of solver 2
    timer,   \* their timer threads
    sigint,  \* the state of the Ctrl-C handler
    calls

solvers == <<s1, s2, flags, todo>>
threads == <<timer, sigint>>
vars == <<params, solvers, pc, given, asked, result, core2, answer, cancel, eh, threads, calls>>

Params == [timeout : BOOLEAN, incTimeout : BOOLEAN, ignore1 : BOOLEAN, undef1 : BOOLEAN]

Handlers == {"cmd", "aux"}

-----------------------------------------------------------------------------
(* solver_na2as: the assertions since each push, the names of the named    *)
(* ones, and how many of these there were at each push.                    *)
EmptySolver == [frames |-> <<{}>>, assumptions |-> <<>>, lims |-> <<>>]

SolverType == [frames : Seq(SUBSET Clauses), assumptions : Seq(Literals), lims : Seq(Nat)]

Holds(s) == UNION Range(s.frames)

NaAssert(s, f) == [s EXCEPT !.frames[Len(s.frames)] = @ \cup {f}]

Guarded(n) == n.clause \cup {-n.name}

NaAssertNamed(s, n) == [NaAssert(s, Guarded(n)) EXCEPT !.assumptions = Append(@, n.name)]

NaPush(s) ==
    [s EXCEPT !.frames = Append(@, {}), !.lims = Append(@, Len(s.assumptions))]

NaPop(s, k) ==
    [s EXCEPT
        !.frames = SubSeq(@, 1, Len(@) - k),
        !.assumptions = SubSeq(@, 1, s.lims[Len(s.lims) - k + 1]),
        !.lims = SubSeq(@, 1, Len(@) - k)]

(* smt::context drops what is asserted to it while it is cancelled.        *)
SmtAssert(s, f) == IF cancel > 0 THEN s ELSE NaAssert(s, f)

(* The names of the client's live named assertions.                        *)
LiveNames(s) == {n.name : n \in {m \in Named : Guarded(m) \in Holds(s)}}

(* What a solver may answer for clauses cs and assumptions A: the answer   *)
(* and an unsat core.                                                      *)
Answers(cs, A) ==
    {<<"unknown", {}>>}
    \cup {<<"sat", {}>> : x \in {y \in {0} : Satisfiable(cs \cup Units(A))}}
    \cup {<<"unsat", k>> : k \in {j \in SUBSET A : ~Satisfiable(cs \cup Units(j))}}

-----------------------------------------------------------------------------
Init ==
    /\ params \in Params
    /\ s1 = EmptySolver /\ s2 = EmptySolver
    /\ flags = [inc |-> FALSE, executed |-> FALSE, use1 |-> TRUE, init2 |-> FALSE]
    /\ todo = {}
    /\ pc = "idle" /\ given = {} /\ asked = {}
    /\ result = "none" /\ core2 = {} /\ answer = "none"
    /\ cancel = 0
    /\ eh = [h \in Handlers |-> "dead"]
    /\ timer = [h \in Handlers |-> "done"]
    /\ sigint = "none"
    /\ calls = 0

Call ==
    /\ pc = "idle" /\ calls < MaxCalls
    /\ calls' = calls + 1

(* A call other than a check.  m_check_sat_result is reset.                *)
Update ==
    /\ Call
    /\ answer' = "none"
    /\ UNCHANGED <<params, todo, pc, given, asked, result, core2, cancel, eh, threads>>

(* switch_inc_mode outside of a check: solver 2 with the assertions of     *)
(* solver 1, which are still in one scope if it is not initialized.        *)
Initialized2(s) ==
    IF flags.init2 THEN s2
    ELSE [s2 EXCEPT !.frames[1] = @ \cup (IF cancel > 0 THEN {} ELSE Holds(s))]

SwitchIncMode == [flags EXCEPT !.inc = TRUE, !.init2 = TRUE]

AssertExpr(f) ==
    /\ Update
    /\ s1' = NaAssert(s1, f)
    /\ IF flags.executed
       THEN /\ flags' = SwitchIncMode
            /\ s2' = SmtAssert(Initialized2(s1), f)
       ELSE /\ UNCHANGED flags
            /\ s2' = IF flags.init2 THEN SmtAssert(s2, f) ELSE s2

(* The command context refuses a name that is in use.                      *)
AssertNamed(n) ==
    /\ Update
    /\ n.name \notin LiveNames(s1)
    /\ s1' = NaAssertNamed(s1, n)
    /\ s2' = [SmtAssert(Initialized2(s1'), Guarded(n)) EXCEPT !.assumptions = Append(@, n.name)]
    /\ flags' = [flags EXCEPT !.init2 = TRUE, !.inc = @ \/ flags.executed]

Push ==
    /\ Update
    /\ Len(s1.lims) < MaxScopes
    /\ s1' = NaPush(s1)
    /\ s2' = NaPush(Initialized2(s1))
    /\ flags' = SwitchIncMode

(* Seeded fault: solver 2 is not told.                                     *)
BugPop(k) ==
    /\ Update
    /\ s1' = NaPop(s1, k)
    /\ s2' = Initialized2(s1)
    /\ flags' = SwitchIncMode

Pop(k) ==
    /\ Update
    /\ s1' = NaPop(s1, k)
    /\ s2' = NaPop(Initialized2(s1), k)
    /\ flags' = SwitchIncMode

-----------------------------------------------------------------------------
(* The handlers.  A thread's own steps to raise the cancellation are two:  *)
(* it finds that m_canceled is not set, and it sets it.                    *)
(* Seeded fault: dec_cancel does not test for zero.                        *)
BugDecCancel(n) == n - 1

DecCancel(n) == IF n > 0 THEN n - 1 ELSE n

(* The cancellation count after the destructor of handler h.               *)
Released(h) == IF eh[h] = "canceled" THEN DecCancel(cancel) ELSE cancel

(* cmd_context::check_sat: cancel_eh, scoped_ctrl_c and scoped_timer.      *)
Check(A) ==
    /\ Call
    /\ given' = A /\ asked' = A \cup LiveNames(s1)
    /\ answer' = "none"
    /\ eh' = [eh EXCEPT !["cmd"] = "live"]
    /\ timer' = [timer EXCEPT !["cmd"] = IF params.timeout THEN "starting" ELSE "done"]
    /\ sigint' = "installed"
    /\ pc' = "limit"
    /\ UNCHANGED <<params, solvers, result, core2, cancel>>

(* A step of the thread of the check, which runs the Ctrl-C handler too.   *)
Main(from, to) ==
    /\ pc = from /\ pc' = to
    /\ sigint # "raising"
    /\ UNCHANGED <<params, given, asked, sigint, calls>>

(* scoped_rlimit: reslimit::push resets the cancellation.                  *)
LimitPush ==
    /\ Main("limit", "check")
    /\ cancel' = 0
    /\ UNCHANGED <<solvers, result, core2, answer, eh, timer>>

(* combined_solver::check_sat.                                             *)
MustUseSolver2 ==
    \/ s1.assumptions # <<>> \/ s2.assumptions # <<>>
    \/ given # {}
    \/ params.ignore1

(* Seeded fault: m_use_solver1_results keeps its value.                    *)
BugExecuted(f) == [f EXCEPT !.executed = TRUE]

Executed(f) == [f EXCEPT !.executed = TRUE, !.use1 = FALSE]

CheckWithSolver2 ==
    /\ MustUseSolver2
    /\ Main("check", IF flags.init2 THEN "solver2" ELSE "send")
    /\ flags' = [Executed(flags) EXCEPT !.inc = TRUE]
    /\ todo' = IF flags.init2 THEN {} ELSE Holds(s1)
    /\ UNCHANGED <<s1, s2, result, core2, answer, cancel, eh, timer>>

(* init_solver2_assertions.                                                *)
SendAssertion(f) ==
    /\ Main("send", "send")
    /\ todo' = todo \ {f}
    /\ s2' = SmtAssert(s2, f)
    /\ UNCHANGED <<s1, flags, result, core2, answer, cancel, eh, timer>>

AssertionsSent ==
    /\ Main("send", "solver2")
    /\ todo = {}
    /\ flags' = [flags EXCEPT !.init2 = TRUE]
    /\ UNCHANGED <<s1, s2, todo, result, core2, answer, cancel, eh, timer>>

(* Incremental mode, with a timeout for solver 2 or without one.           *)
CheckIncremental ==
    /\ ~MustUseSolver2 /\ flags.inc
    /\ Main("check", "solver2")
    /\ flags' = Executed(flags)
    /\ eh' = [eh EXCEPT !["aux"] = IF params.incTimeout THEN "live" ELSE @]
    /\ timer' = [timer EXCEPT !["aux"] = IF params.incTimeout THEN "starting" ELSE @]
    /\ UNCHANGED <<s1, s2, todo, result, core2, answer, cancel>>

UseSolver1 == flags' = [flags EXCEPT !.executed = TRUE, !.use1 = TRUE]

CheckNonIncremental ==
    /\ ~MustUseSolver2 /\ ~flags.inc
    /\ Main("check", "solver1")
    /\ UseSolver1
    /\ UNCHANGED <<s1, s2, todo, result, core2, answer, cancel, eh, timer>>

(* Solver 2 returns, or throws, which ends the check unless its own        *)
(* timeout expired.                                                        *)
AfterSolver2 == IF eh["aux"] = "dead" THEN "combine" ELSE "stop_aux"

Solver2Answers ==
    /\ Main("solver2", AfterSolver2)
    /\ \E a \in Answers(Holds(s2), given \cup Range(s2.assumptions)) :
        result' = a[1] /\ core2' = a[2]
    /\ UNCHANGED <<solvers, answer, cancel, eh, timer>>

Solver2Throws ==
    /\ Main("solver2", AfterSolver2)
    /\ result' = "exception" /\ core2' = {}
    /\ UNCHANGED <<solvers, answer, cancel, eh, timer>>

(* ~scoped_timer waits until the thread has started, tells it to stop and  *)
(* waits for its end; ~aux_timeout_eh withdraws its cancellation.          *)
StopAux ==
    /\ Main("stop_aux", "join_aux")
    /\ timer["aux"] # "starting"
    /\ UNCHANGED <<solvers, result, core2, answer, cancel, eh, timer>>

(* Seeded fault: the thread is not waited for.                             *)
BugJoined(h) == TRUE

Joined(h) == timer[h] = "done"

(* The exit of the branch with a timeout.                                  *)
Fallback2 ==
    \/ eh["aux"] = "canceled"
    \/ result = "unknown" /\ params.undef1

Reported == IF result = "exception" THEN "unknown" ELSE result

(* Seeded fault: all cancellations are withdrawn.                          *)
BugReleasedAux == IF eh["aux"] = "canceled" THEN 0 ELSE cancel

(* Seeded fault: none is withdrawn.                                        *)
BugKeptAux == cancel

ReleasedAux == Released("aux")

JoinAux ==
    /\ Joined("aux")
    /\ eh' = [eh EXCEPT !["aux"] = "dead"]
    /\ cancel' = ReleasedAux
    /\ IF Fallback2
       THEN Main("join_aux", "solver1") /\ UseSolver1 /\ UNCHANGED answer
       ELSE Main("join_aux", "limit_pop") /\ answer' = Reported /\ UNCHANGED flags
    /\ UNCHANGED <<s1, s2, todo, result, core2, timer>>

(* The exit of the other branches.                                         *)
Combine ==
    /\ IF ~MustUseSolver2 /\ result = "unknown" /\ params.undef1 /\ cancel = 0
       THEN Main("combine", "solver1") /\ UseSolver1 /\ UNCHANGED answer
       ELSE Main("combine", "limit_pop") /\ answer' = Reported /\ UNCHANGED flags
    /\ UNCHANGED <<s1, s2, todo, result, core2, cancel, eh, timer>>

(* tactic2solver, which is only used without assumptions.                  *)
Solver1Answers ==
    /\ Main("solver1", "limit_pop")
    /\ \E a \in Answers(Holds(s1), {}) : answer' = a[1]
    /\ UNCHANGED <<solvers, result, core2, cancel, eh, timer>>

(* The destructors of cmd_context::check_sat.                              *)
LimitPop ==
    /\ Main("limit_pop", "stop_cmd")
    /\ cancel' = 0
    /\ UNCHANGED <<solvers, result, core2, answer, eh, timer>>

StopCmd ==
    /\ Main("stop_cmd", "join_cmd")
    /\ timer["cmd"] # "starting"
    /\ UNCHANGED <<solvers, result, core2, answer, cancel, eh, timer>>

(* Seeded fault: the handler does not withdraw its cancellation.           *)
BugReleasedCmd == cancel

ReleasedCmd == Released("cmd")

JoinCmd ==
    /\ pc = "join_cmd" /\ pc' = "idle"
    /\ sigint # "raising" /\ sigint' = "none"
    /\ Joined("cmd")
    /\ eh' = [eh EXCEPT !["cmd"] = "dead"]
    /\ cancel' = ReleasedCmd
    /\ UNCHANGED <<params, solvers, given, asked, result, core2, answer, timer, calls>>

-----------------------------------------------------------------------------
(* The timer thread of handler h, and the signal handler.                  *)
Thread(h, from, to) ==
    /\ timer[h] = from
    /\ timer' = [timer EXCEPT ![h] = to]
    /\ UNCHANGED <<params, solvers, pc, given, asked, result, core2, answer, sigint, calls>>

TimerStarts(h) == Thread(h, "starting", "waiting") /\ UNCHANGED <<cancel, eh>>

TimerStops(h) ==
    /\ Thread(h, "waiting", "done")
    /\ pc = (IF h = "cmd" THEN "join_cmd" ELSE "join_aux")
    /\ UNCHANGED <<cancel, eh>>

TimerExpires(h) == Thread(h, "waiting", "expired") /\ UNCHANGED <<cancel, eh>>

(* While assertions are being sent to solver 2, or are about to be.        *)
Sending == pc = "send" \/ (pc = "check" /\ MustUseSolver2 /\ ~flags.init2)

MayRaise == InitInterruptible \/ ~Sending

Raise(h) ==
    /\ eh' = [eh EXCEPT ![h] = "canceled"]
    /\ cancel' = cancel + 1

(* cancel_eh tests m_canceled first, aux_timeout_eh does not.              *)
TimerTests ==
    /\ HandlersRace \/ sigint # "raising"
    /\ Thread("cmd", "expired", IF eh["cmd"] = "canceled" THEN "done" ELSE "raising")
    /\ UNCHANGED <<cancel, eh>>

TimerRaises(h) ==
    /\ MayRaise
    /\ Thread(h, IF h = "cmd" THEN "raising" ELSE "expired", "done")
    /\ Raise(h)

CtrlC ==
    /\ MayRaise /\ sigint = "installed"
    /\ HandlersRace \/ timer["cmd"] # "raising"
    /\ sigint' = IF eh["cmd"] = "canceled" THEN "taken" ELSE "raising"
    /\ UNCHANGED <<params, solvers, pc, given, asked, result, core2, answer, cancel, eh, timer, calls>>

CtrlCRaises ==
    /\ sigint = "raising" /\ sigint' = "taken"
    /\ Raise("cmd")
    /\ UNCHANGED <<params, solvers, pc, given, asked, result, core2, answer, timer, calls>>

-----------------------------------------------------------------------------
ClientCall ==
    \/ \E f \in Formulas : AssertExpr(f)
    \/ \E n \in Named : AssertNamed(n)
    \/ Push
    \/ \E k \in 1 .. Len(s1.lims) : Pop(k)
    \/ \E A \in AssumptionSets : Check(A)

(* The steps of the check itself, without the searches of the solvers.     *)
MainStep ==
    \/ LimitPush \/ CheckWithSolver2 \/ CheckIncremental \/ CheckNonIncremental
    \/ (\E f \in todo : SendAssertion(f)) \/ AssertionsSent
    \/ StopAux \/ JoinAux \/ Combine
    \/ LimitPop \/ StopCmd \/ JoinCmd

Search == Solver2Answers \/ Solver2Throws \/ Solver1Answers

ThreadStep ==
    \/ \E h \in Handlers : TimerStarts(h) \/ TimerStops(h) \/ TimerExpires(h) \/ TimerRaises(h)
    \/ TimerTests
    \/ CtrlCRaises

(* The client may stop calling.                                            *)
Idle ==
    /\ pc = "idle" /\ calls = MaxCalls
    /\ UNCHANGED vars

Next == ClientCall \/ MainStep \/ Search \/ ThreadStep \/ CtrlC \/ Idle

Spec == Init /\ [][Next]_vars

(* Threads that can run do run, and time passes.  A search may last        *)
(* forever, but not once it is cancelled.                                  *)
Fairness ==
    /\ WF_vars(MainStep)
    /\ WF_vars(ThreadStep)
    /\ WF_vars(cancel > 0 /\ Search)

FairSpec == Spec /\ Fairness

-----------------------------------------------------------------------------
(* The variables have the types of their declarations; in particular       *)
(* m_cancel, which is unsigned, counts no more than the two handlers.      *)
TypeOK ==
    /\ params \in Params
    /\ s1 \in SolverType /\ s2 \in SolverType
    /\ flags \in [inc : BOOLEAN, executed : BOOLEAN, use1 : BOOLEAN, init2 : BOOLEAN]
    /\ todo \subseteq Holds(s1)
    /\ pc \in {"idle", "limit", "check", "send", "solver2", "stop_aux", "join_aux", "combine",
               "solver1", "limit_pop", "stop_cmd", "join_cmd"}
    /\ given \subseteq Literals /\ asked \subseteq Literals /\ core2 \subseteq Literals
    /\ result \in {"none", "sat", "unsat", "unknown", "exception"}
    /\ answer \in {"none", "sat", "unsat", "unknown"}
    /\ cancel \in 0 .. Cardinality(Handlers)
    /\ eh \in [Handlers -> {"dead", "live", "canceled"}]
    /\ timer \in [Handlers -> {"starting", "waiting", "expired", "raising", "done"}]
    /\ sigint \in {"none", "installed", "raising", "taken"}
    /\ calls \in 0 .. MaxCalls

(* "We delay sending assertions to solver 2" (combined_solver.cpp:59):     *)
(* once solver 2 counts as initialized it holds what solver 1 holds,       *)
(* whatever was asserted, pushed, popped and checked, and whichever checks *)
(* were cancelled.  It is so if none is cancelled while the assertions are *)
(* being sent; with InitInterruptible the code breaks it.                  *)
Solver2UpToDate == flags.init2 => s2 = s1

(* The timer thread never calls a handler that is destroyed already, and   *)
(* neither does Ctrl-C: scoped_timer is destroyed before its handler and   *)
(* waits for the thread.                                                   *)
HandlerAlive ==
    /\ \A h \in Handlers : timer[h] \in {"expired", "raising"} => eh[h] # "dead"
    /\ sigint = "raising" => eh["cmd"] # "dead"

(* No cancellation outlives its check: a late one would make the next      *)
(* commands drop assertions.                                               *)
CancelCleared == pc = "idle" => cancel = 0

(* The timeout of solver 2 does not cut solver 1 short.                    *)
AuxTimeoutConfined == pc = "solver1" /\ cancel > 0 => eh["cmd"] = "canceled"

(* A timeout that expires after the check began ends it, whichever solver  *)
(* runs, also when the timeout of solver 2 or Ctrl-C comes before or       *)
(* after.  (One that expires before reslimit::push is lost, and so is a    *)
(* Ctrl-C, which takes the timeout with it.)                               *)
TimeoutHonoured ==
    pc = "check" /\ timer["cmd"] \in {"starting", "waiting"} /\ eh["cmd"] = "live" ~> pc = "idle"

(* Whatever its modes, and whichever timeouts expire except while solver 2 *)
(* is being initialized, the combined solver is one incremental solver,    *)
(* and its unsat core, taken from the solver that m_use_solver1_results    *)
(* names, belongs to the answer given.                                     *)
Solver == INSTANCE IncrementalSolver WITH
    Background <- {},
    Formulas <- Formulas \cup {Guarded(n) : n \in Named},
    AssumptionSets <- UNION {{A \cup N : N \in SUBSET {n.name : n \in Named}} : A \in AssumptionSets},
    frames <- s1.frames,
    core <- IF answer # "unsat" \/ flags.use1 THEN {} ELSE core2

Implements == Solver!Spec
=============================================================================
