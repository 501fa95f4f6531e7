---------------------------- MODULE SMTLibProver ----------------------------
(***************************************************************************)
(* The SMT-LIB prover driver (Provers/SMTLib) below one Houdini instance:  *)
(* what it sends to the prover process, what it keeps to send again to a   *)
(* new process, and how it reads the answers.  The client is the sessions  *)
(* of Houdini/Checker.cs.  The process (Z3) is external: a stack of scopes *)
(* that may answer, run out of a resource, or die.                         *)
(*                                                                         *)
(* The process is told three kinds of things: a symbol (the declarations   *)
(* and axioms of a part of the program), the macro of an implementation,   *)
(* written as the implementation, and the assertions of a query, which are *)
(* records.                                                                *)
(***************************************************************************)
EXTENDS Naturals, Sequences, SequencesExt

CONSTANTS
    Impl,                   \* the implementations with a session
    Symbol,                 \* what FlushAxioms declares and asserts
    Prelude,                \* the part of it that PrepareCommon sends
    Constants,              \* the part that BuildAxiom mentions
    SymbolsOf,              \* the part that the conjecture of i mentions
    ProverCCLimit,          \* counterexamples per query
    UseUnsatCore,           \* option /useUnsatCoreForContractInfer
    Limits,                 \* resource limits that the process may hit
    RestartProverPerVC,     \* option /restartProver
    MaxQueries, MaxDeaths   \* bounds: calls of Verify, deaths of a process

ASSUME DriverAssumption ==
    /\ Prelude \cup Constants \subseteq Symbol
    /\ SymbolsOf \in [Impl -> SUBSET Symbol]
    /\ Impl \cap Symbol = {}
    /\ ProverCCLimit \in Nat \ {0}
    /\ Limits \subseteq {"TimeOut", "OutOfMemory"}
    /\ RestartProverPerVC \in BOOLEAN /\ UseUnsatCore \in BOOLEAN
    /\ MaxQueries \in Nat /\ MaxDeaths \in Nat

VARIABLES
    proc,           \* Process, with the solver behind it
    common,         \* what SendCommon sent so far
    known,          \* the stack of DeclCollector
    sessions,       \* implementations whose session is constructed
    pc,             \* where the client's call is
    query,          \* the number, implementation, validity and kind of the query
    errorsLeft,     \* local variable of CheckOutcomeCore
    globalResult,   \* local variable of CheckOutcomeCore
    undetermined,   \* how many calls of Verify returned Undetermined
    deaths          \* how many processes died

vars == <<proc, common, known, sessions, pc, query, errorsLeft, globalResult,
          undetermined, deaths>>

Outcome == {"Valid", "Invalid", "TimeOut", "OutOfMemory", "Undetermined"}

(* A call of Verify (the 0th has not been made), and the core query after it. *)
Query == [number: 0 .. MaxQueries, impl: Impl, valid: BOOLEAN, kind: {"verify", "core"}]

Assertion == [kind: {"vc", "assumptions", "blocking"}, number: 1 .. MaxQueries,
              impl: Impl, valid: BOOLEAN]

ASSUME KindsAssumption == (Symbol \cup Impl) \cap Assertion = {}

-----------------------------------------------------------------------------
(* The process: what a command does to it.  A dead one ignores commands.   *)
Scope(p) == UNION {p.frames[n] : n \in DOMAIN p.frames}

Tell(p, items) ==
    IF p.alive THEN [p EXCEPT !.frames[Len(p.frames)] = @ \cup items] ELSE p

(* A term with an unknown symbol is an error, and asserts nothing.         *)
AssertTerm(p, mentions, items) == IF mentions \subseteq Scope(p) THEN Tell(p, items) ELSE p

PushScope(p) == IF p.alive THEN [p EXCEPT !.frames = Append(@, {})] ELSE p

PopScope(p) ==
    IF p.alive /\ Len(p.frames) > 1 THEN [p EXCEPT !.frames = Front(@)] ELSE p

(* What GetResponse can return for a (check-sat).  Declarations and axioms *)
(* are consistent, so that unsat needs the negation of a valid VC, or that *)
(* no counterexample is left when some were excluded.                      *)
Answers(p) ==
    IF ~p.alive THEN {"Undetermined"}
    ELSE {"Invalid"} \cup Limits
           \cup (IF \E a \in Scope(p) \cap Assertion :
                        a.kind = "blocking" \/ (a.kind = "vc" /\ a.valid)
                 THEN {"Valid"} ELSE {})

(* Are there labels in what is asserted?                                   *)
HasLabels(p) == p.alive /\ \E a \in Scope(p) \cap Assertion : a.kind = "vc"

-----------------------------------------------------------------------------
(* SetupProcess.                                                           *)
NewProcess(items, cores) ==
    [alive |-> TRUE, needsRestart |-> FALSE, cores |-> cores, frames |-> <<items>>]

(* The constructor, with /contractInfer: ask for unsat cores with          *)
(* SendThisVC, and send the prelude.                                       *)
Init ==
    /\ proc = NewProcess(Prelude, TRUE)
    /\ common = Prelude
    /\ known = <<Prelude>>
    /\ sessions = {}
    /\ pc = "idle"
    /\ query \in {q \in Query : q.number = 0 /\ ~q.valid /\ q.kind = "verify"}
    /\ errorsLeft = 0
    /\ globalResult = "Undetermined"
    /\ undetermined = 0
    /\ deaths = 0

(* DeclCollector.Collect: what it meets for the first time.                *)
NewSymbols(mentions) == mentions \ Last(known)

Collected(items) == [known EXCEPT ![Len(known)] = @ \cup items]

(* Seeded fault: new declarations are sent, but not kept.                  *)
BugFlushAxioms(new) == common' = common

(* FlushAxioms sends the new declarations with SendCommon.                 *)
FlushAxioms(new) == common' = common \cup new

(* Seeded fault: the macro is kept, to be sent to later processes.         *)
BugDefineMacro(i) ==
    LET new == NewSymbols(SymbolsOf[i])
    IN  /\ common' = common \cup new \cup {i}
        /\ known' = Collected(new \cup {i})
        /\ proc' = AssertTerm(Tell(proc, new), SymbolsOf[i], {i})

(* DefineMacro: the macro itself is sent with SendThisVC.                  *)
DefineMacro(i) ==
    LET new == NewSymbols(SymbolsOf[i])
    IN  /\ FlushAxioms(new)
        /\ known' = Collected(new \cup {i})
        /\ proc' = AssertTerm(Tell(proc, new), SymbolsOf[i], {i})

(* The constructor of HoudiniSession; all sessions are constructed before  *)
(* the inference starts.                                                   *)
NewSession(i) ==
    /\ pc = "idle" /\ query.number = 0
    /\ i \notin sessions
    /\ sessions' = sessions \cup {i}
    /\ DefineMacro(i)
    /\ UNCHANGED <<pc, query, errorsLeft, globalResult, undetermined, deaths>>

(* PossiblyRestart: a new process is sent what is in common.               *)
PossiblyRestart(p, prelude) ==
    IF p.needsRestart THEN NewProcess(prelude, FALSE) ELSE p

(* An assertion that query q adds.                                         *)
Asserted(q, kind) ==
    [kind |-> kind, number |-> q.number, impl |-> q.impl, valid |-> q.valid]

(***************************************************************************)
(* HoudiniSession.Verify of a VC that is valid or not, as far as           *)
(* BeginCheck sends it before it waits in PingPong.  The assignment names  *)
(* all constants.                                                          *)
(***************************************************************************)
BeginCheck(i, valid) ==
    LET new == NewSymbols(Constants)
        started == PossiblyRestart(Tell(proc, new), common \cup new)
    IN  /\ pc = "idle" /\ sessions = Impl
        /\ query.number < MaxQueries
        /\ query' = [number |-> query.number + 1,
                     impl |-> i, valid |-> valid, kind |-> "verify"]
        /\ FlushAxioms(new)
        /\ known' = Collected(new)
        /\ proc' = AssertTerm(PushScope(started), Constants \cup {i}, {Asserted(query', "vc")})
        /\ pc' = "ping"
        /\ UNCHANGED <<sessions, errorsLeft, globalResult, undetermined, deaths>>

(* Seeded fault: "Prover died" is reported, but nothing is restarted.      *)
BugPinged(p) == p

Pinged(p) == IF p.alive THEN p ELSE [p EXCEPT !.needsRestart = TRUE]

CheckOutcomeCore ==
    /\ pc' = "check"
    /\ errorsLeft' = ProverCCLimit
    /\ globalResult' = "Undetermined"

(* Process.PingPong, then (check-sat); CheckOutcome enters its loop.       *)
PingPong ==
    /\ pc = "ping"
    /\ proc' = Pinged(proc)
    /\ CheckOutcomeCore
    /\ UNCHANGED <<common, known, sessions, query, undetermined, deaths>>

(* Seeded fault: the last result counts, not the first.                    *)
BugGlobal(result) == result

Global(result) == IF globalResult = "Undetermined" THEN result ELSE globalResult

(* GetResponse, in the loop of CheckOutcomeCore.                           *)
GetResponse ==
    /\ pc = "check"
    /\ \E result \in Answers(proc) :
          /\ globalResult' = Global(result)
          /\ proc' = [proc EXCEPT !.needsRestart = @ \/ result = "OutOfMemory"]
          /\ pc' = IF result \in {"Invalid", "TimeOut", "OutOfMemory"}
                   THEN "labels" ELSE "outcome"
    /\ errorsLeft' = errorsLeft - 1
    /\ UNCHANGED <<common, known, sessions, query, undetermined, deaths>>

(* GetLabelsInfo found labels: exclude the counterexample and ask again.   *)
NextCounterexample ==
    /\ pc = "labels"
    /\ HasLabels(proc) /\ errorsLeft > 0
    /\ proc' = Tell(proc, {Asserted(query, "blocking")})
    /\ pc' = "check"
    /\ UNCHANGED <<common, known, sessions, query, errorsLeft, globalResult, undetermined, deaths>>

(* No labels, as after an unknown, or enough counterexamples.              *)
NoMoreCounterexamples ==
    /\ pc = "labels"
    /\ pc' = "outcome"
    /\ UNCHANGED <<proc, common, known, sessions, query, errorsLeft, globalResult,
                   undetermined, deaths>>

(* The end of CheckOutcomeCore, with the option /restartProver.            *)
Left(p) == [p EXCEPT !.needsRestart = @ \/ RestartProverPerVC]

(* Seeded fault: CheckOutcome calls Pop, which also takes off a scope of   *)
(* DeclCollector.                                                          *)
BugPopQuery == proc' = PopScope(Left(proc)) /\ known' = Front(known)

(* The end of CheckOutcome sends "(pop 1)".                                *)
PopQuery == proc' = PopScope(Left(proc)) /\ known' = known

(* Verify returns; after Valid, Houdini asks for the unsat core.           *)
EndVerify ==
    /\ pc = "outcome" /\ query.kind = "verify"
    /\ PopQuery
    /\ pc' = IF UseUnsatCore /\ globalResult = "Valid" THEN "verified" ELSE "idle"
    /\ undetermined' = undetermined + (IF globalResult = "Undetermined" THEN 1 ELSE 0)
    /\ UNCHANGED <<common, sessions, query, errorsLeft, globalResult, deaths>>

(***************************************************************************)
(* HoudiniSession.UpdateUnsatCore as far as the (check-sat) in             *)
(* CheckAssumptions: one scope for the negated conjecture and the false    *)
(* constants, one for the named assumptions.  All symbols are known.       *)
(***************************************************************************)
UpdateUnsatCore ==
    /\ pc = "verified"
    /\ query' = [query EXCEPT !.kind = "core"]
    /\ proc' = AssertTerm(PushScope(AssertTerm(PushScope(proc), {query.impl},
                                               {Asserted(query, "vc")})),
                          Constants, {Asserted(query, "assumptions")})
    /\ known' = known \o <<Last(known), Last(known)>>
    /\ CheckOutcomeCore
    /\ UNCHANGED <<common, sessions, undetermined, deaths>>

(* Seeded fault: the early return of CheckAssumptions forgets its Pop.     *)
BugPopCore == proc' = PopScope(Left(proc)) /\ known' = Front(known)

(* Pop, of CheckAssumptions and of UpdateUnsatCore.                        *)
PopCore == proc' = PopScope(PopScope(Left(proc))) /\ known' = Front(Front(known))

(* CheckAssumptions returns early; the session stores an empty core.       *)
EmptyCore ==
    /\ pc = "outcome" /\ query.kind = "core"
    /\ globalResult # "Valid"
    /\ PopCore
    /\ pc' = "idle"
    /\ UNCHANGED <<common, sessions, query, errorsLeft, globalResult, undetermined, deaths>>

(* CheckAssumptions sends (get-unsat-core) and waits, without a ping.      *)
GetUnsatCore ==
    /\ pc = "outcome" /\ query.kind = "core"
    /\ globalResult = "Valid"
    /\ pc' = "core"
    /\ UNCHANGED <<proc, common, known, sessions, query, errorsLeft, globalResult,
                   undetermined, deaths>>

(* The core arrives.  A process without the option produce-unsat-cores     *)
(* answers with an error, which GetProverResponse skips to go on waiting.  *)
CoreArrives ==
    /\ pc = "core"
    /\ proc.alive /\ proc.cores
    /\ PopCore
    /\ pc' = "idle"
    /\ UNCHANGED <<common, sessions, query, errorsLeft, globalResult, undetermined, deaths>>

(* The process is dead.  Writing to it can throw an IOException; waiting   *)
(* for the core ends with a null response, which CheckAssumptions uses.    *)
(* Neither exception is caught.                                            *)
Throw ==
    /\ ~proc.alive
    /\ pc \notin {"idle", "crashed", "closed"}
    /\ pc' = "crashed"
    /\ UNCHANGED <<proc, common, known, sessions, query, errorsLeft, globalResult,
                   undetermined, deaths>>

(* Houdini.Close, when the inference is over.                              *)
Close ==
    /\ pc = "idle" /\ sessions = Impl
    /\ proc' = [proc EXCEPT !.alive = FALSE]
    /\ pc' = "closed"
    /\ UNCHANGED <<common, known, sessions, query, errorsLeft, globalResult,
                   undetermined, deaths>>

(* The process dies: killed by the system, or by a fault of its own.       *)
Die ==
    /\ proc.alive /\ deaths < MaxDeaths
    /\ proc' = [proc EXCEPT !.alive = FALSE]
    /\ deaths' = deaths + 1
    /\ UNCHANGED <<common, known, sessions, pc, query, errorsLeft, globalResult, undetermined>>

(* The steps of a call that has begun.                                     *)
Proceed ==
    \/ PingPong \/ GetResponse \/ NextCounterexample \/ NoMoreCounterexamples
    \/ EndVerify \/ UpdateUnsatCore \/ EmptyCore \/ GetUnsatCore \/ CoreArrives
    \/ Throw

Next ==
    \/ \E i \in Impl : NewSession(i) \/ \E valid \in BOOLEAN : BeginCheck(i, valid)
    \/ Proceed
    \/ Close
    \/ Die

Spec == Init /\ [][Next]_vars

(* A live process answers every query: its time or memory is limited, or   *)
(* the query is decided.  How many queries there are is left open.         *)
FairSpec == Spec /\ WF_vars(Proceed)

-----------------------------------------------------------------------------
Process == [alive: BOOLEAN, needsRestart: BOOLEAN, cores: BOOLEAN,
            frames: Seq(SUBSET (Symbol \cup Impl \cup Assertion))]

(* The state is as the driver declares it.  DeclCollector keeps the scope  *)
(* it was created with ("Contract.Assert(_KnownFunctions.Count > 1)").     *)
TypeOK ==
    /\ proc \in Process /\ proc.frames # <<>>
    /\ common \in SUBSET (Symbol \cup Impl)
    /\ known \in Seq(SUBSET (Symbol \cup Impl)) /\ known # <<>>
    /\ sessions \in SUBSET Impl
    /\ pc \in {"idle", "ping", "check", "labels", "outcome", "verified", "core",
               "crashed", "closed"}
    /\ query \in Query
    /\ errorsLeft \in 0 .. ProverCCLimit
    /\ globalResult \in Outcome
    /\ undetermined \in 0 .. MaxQueries
    /\ deaths \in 0 .. MaxDeaths

(* Between calls a live process has no open scope and holds nothing of     *)
(* earlier queries (VCs, assumptions, excluded counterexamples), and       *)
(* DeclCollector is back in its outermost scope, on every path through     *)
(* CheckOutcome and CheckAssumptions and after every restart.              *)
NothingLeftBehind ==
    pc = "idle" =>
        /\ proc.alive => Len(proc.frames) = 1 /\ Scope(proc) \cap Assertion = {}
        /\ Len(known) = 1

(* Verify returns Valid only for a valid VC, whatever happened to the      *)
(* process, to earlier queries and to the later rounds of its own query:   *)
(* what the inference assumes of its prover.                               *)
ValidIsSound ==
    pc \in {"outcome", "verified", "core"} /\ globalResult = "Valid" => query.valid

(* What DeclCollector will not declare again is declared in the live       *)
(* process, which may have been started since.                             *)
DeclarationsKnown == proc.alive => Last(known) \cap Symbol \subseteq Scope(proc)

(* A process that died is replaced in time: its death costs the query it   *)
(* was working on and at most the next, the one whose ping discovers it.   *)
TwoLostPerDeath == undetermined <= 2 * deaths

(* Every call returns or ends with an exception, whatever the process      *)
(* does: the driver never waits for an answer that does not come.          *)
CallsReturn == pc # "idle" ~> pc \in {"idle", "crashed", "closed"}

(* What Houdini relies on: "/restartProver  Restart the prover after each  *)
(* query" (CommandLineOptions.cs:1870) restarts the process and changes    *)
(* nothing else, so that the VC of the query is asserted at the first      *)
(* (check-sat) of every Verify that reaches a live process.                *)
VcIsChecked ==
    pc = "check" /\ query.kind = "verify" /\ proc.alive =>
        Asserted(query, "vc") \in Scope(proc)
=============================================================================
