--------------------------- MODULE CheckSatProofs ---------------------------
(***************************************************************************)
(* Proofs about check-sat in Z3: the threads that may cancel a check, and  *)
(* the two solvers that answer it, for every client and every interleaving *)
(* of the check with its timers and Ctrl-C.                                *)
(***************************************************************************)
EXTENDS CheckSat, FiniteSetTheorems, TLAPS

Pcs == {"idle", "limit", "check", "send", "solver2", "stop_aux", "join_aux", "combine",
        "solver1", "limit_pop", "stop_cmd", "join_cmd"}

-----------------------------------------------------------------------------
(* Threads and handlers.                                                   *)

(***************************************************************************)
(* The handler of the check lives from Check to JoinCmd, that of the       *)
(* timeout of solver 2 at most from the search of solver 2 to JoinAux, and *)
(* no timer thread outlives its handler.                                   *)
(***************************************************************************)
ThreadInv ==
    /\ pc \in Pcs
    /\ eh \in [Handlers -> {"dead", "live", "canceled"}]
    /\ timer \in [Handlers -> {"starting", "waiting", "expired", "raising", "done"}]
    /\ sigint \in {"none", "installed", "raising", "taken"}
    /\ cancel \in Nat
    /\ pc = "idle" <=> eh["cmd"] = "dead"
    /\ pc = "idle" => sigint = "none" /\ timer["cmd"] = "done"
    /\ eh["aux"] # "dead" => pc \in {"solver2", "stop_aux", "join_aux"}
    /\ timer["aux"] # "done" => eh["aux"] = "live"
    /\ timer["aux"] # "raising"

(***************************************************************************)
(* Within a check only a live cancellation counts: that of the check       *)
(* handler, which may be raised twice, and at most one of the other.       *)
(***************************************************************************)
CancelInv ==
    pc \notin {"idle", "limit"} /\ eh["cmd"] # "canceled" =>
        cancel = 0 \/ (cancel = 1 /\ eh["aux"] = "canceled")

HandlerInv == ThreadInv /\ CancelInv

LEMMA HandlerInit == Init => HandlerInv
BY DEF Init, HandlerInv, ThreadInv, CancelInv, Handlers, Pcs

(* The calls of the client other than checks leave the threads alone.      *)
LEMMA UpdateFrame ==
    ASSUME ClientCall, ~\E A \in AssumptionSets : Check(A)
    PROVE  pc = "idle" /\ UNCHANGED <<pc, cancel, eh, timer, sigint>>
BY DEF ClientCall, AssertExpr, AssertNamed, Push, Pop, Update, Call, threads

LEMMA HandlerNext == HandlerInv /\ [Next]_vars => HandlerInv'
<1> SUFFICES ASSUME HandlerInv, [Next]_vars PROVE HandlerInv'
  OBVIOUS
<1> USE DEF HandlerInv, ThreadInv, CancelInv, Handlers, Pcs
<1>1. CASE ClientCall
  <2>1. CASE \E A \in AssumptionSets : Check(A)
    BY <2>1 DEF Check, Call
  <2>2. CASE ~\E A \in AssumptionSets : Check(A)
    BY <1>1, <2>2, UpdateFrame
  <2> QED BY <2>1, <2>2
<1>2. CASE MainStep
  <2>1. CASE LimitPush
    BY <2>1 DEF LimitPush, Main
  <2>2. CASE CheckWithSolver2 \/ CheckIncremental \/ CheckNonIncremental
    BY <2>2 DEF CheckWithSolver2, CheckIncremental, CheckNonIncremental, Main
  <2>3. CASE (\E f \in todo : SendAssertion(f)) \/ AssertionsSent
    BY <2>3 DEF SendAssertion, AssertionsSent, Main
  <2>4. CASE StopAux \/ StopCmd
    BY <2>4 DEF StopAux, StopCmd, Main
  <2>5. CASE JoinAux
    BY <2>5 DEF JoinAux, Main, Joined, ReleasedAux, Released, DecCancel
  <2>6. CASE Combine
    BY <2>6 DEF Combine, Main
  <2>7. CASE LimitPop
    BY <2>7 DEF LimitPop, Main
  <2>8. CASE JoinCmd
    BY <2>8 DEF JoinCmd, Joined, ReleasedCmd, Released, DecCancel
  <2> QED BY <1>2, <2>1, <2>2, <2>3, <2>4, <2>5, <2>6, <2>7, <2>8 DEF MainStep
<1>3. CASE Search
  BY <1>3 DEF Search, Solver2Answers, Solver2Throws, Solver1Answers, Main, AfterSolver2
<1>4. CASE ThreadStep
  <2>1. ASSUME NEW h \in Handlers, TimerStarts(h) \/ TimerStops(h) \/ TimerExpires(h)
        PROVE  HandlerInv'
    BY <2>1 DEF TimerStarts, TimerStops, TimerExpires, Thread
  <2>2. ASSUME NEW h \in Handlers, TimerRaises(h) PROVE HandlerInv'
    BY <2>2 DEF TimerRaises, Thread, Raise
  <2>3. CASE TimerTests
    BY <2>3 DEF TimerTests, Thread
  <2>4. CASE CtrlCRaises
    BY <2>4 DEF CtrlCRaises, Raise
  <2> QED BY <1>4, <2>1, <2>2, <2>3, <2>4 DEF ThreadStep
<1>5. CASE CtrlC
  BY <1>5 DEF CtrlC
<1>6. CASE Idle \/ UNCHANGED vars
  BY <1>6 DEF Idle, vars, threads
<1> QED BY <1>1, <1>2, <1>3, <1>4, <1>5, <1>6 DEF Next

(* No thread uses a handler after its destructor: scoped_timer and         *)
(* scoped_ctrl_c are destroyed first, and the timer thread is waited for.  *)
THEOREM HandlersOutliveThreads == Spec => []HandlerAlive
<1>1. HandlerInv => HandlerAlive
  BY DEF HandlerInv, ThreadInv, HandlerAlive, Handlers
<1> QED BY <1>1, HandlerInit, HandlerNext, PTL DEF Spec

(* When solver 1 runs, also as a fallback after the timeout of solver 2,   *)
(* only a cancellation of the whole check can stop it.                     *)
THEOREM AuxTimeoutStaysInSolver2 == Spec => []AuxTimeoutConfined
<1>1. HandlerInv => AuxTimeoutConfined
  BY DEF HandlerInv, ThreadInv, CancelInv, AuxTimeoutConfined
<1> QED BY <1>1, HandlerInit, HandlerNext, PTL DEF Spec

-----------------------------------------------------------------------------
(* Cancellation, when timer and Ctrl-C do not race.                        *)

(* How many of the handlers hold a cancellation.                           *)
Raised(h) == IF eh[h] = "canceled" THEN 1 ELSE 0

(***************************************************************************)
(* Each handler is raised at most once, so the destructors withdraw all    *)
(* that was raised: the counter never exceeds the handlers that hold a     *)
(* cancellation.                                                           *)
(***************************************************************************)
CountInv ==
    /\ HandlerInv
    /\ timer["cmd"] = "raising" \/ sigint = "raising" => eh["cmd"] = "live"
    /\ ~(timer["cmd"] = "raising" /\ sigint = "raising")
    /\ cancel <= Raised("cmd") + Raised("aux")

LEMMA CountInit == Init => CountInv
BY HandlerInit DEF Init, CountInv, Raised, Handlers

LEMMA CountNext ==
    ASSUME ~HandlersRace PROVE CountInv /\ [Next]_vars => CountInv'
<1> SUFFICES ASSUME CountInv, [Next]_vars
             PROVE  /\ timer'["cmd"] = "raising" \/ sigint' = "raising" => eh'["cmd"] = "live"
                    /\ ~(timer'["cmd"] = "raising" /\ sigint' = "raising")
                    /\ cancel' <= Raised("cmd")' + Raised("aux")'
  BY HandlerNext DEF CountInv
<1> USE DEF CountInv, HandlerInv, ThreadInv, Handlers, Raised
<1>1. CASE ClientCall
  <2>1. CASE \E A \in AssumptionSets : Check(A)
    BY <2>1 DEF Check, Call
  <2>2. CASE ~\E A \in AssumptionSets : Check(A)
    BY <1>1, <2>2, UpdateFrame
  <2> QED BY <2>1, <2>2
<1>2. CASE MainStep
  <2>1. CASE LimitPush
    BY <2>1 DEF LimitPush, Main
  <2>2. CASE CheckWithSolver2 \/ CheckIncremental \/ CheckNonIncremental
    BY <2>2 DEF CheckWithSolver2, CheckIncremental, CheckNonIncremental, Main
  <2>3. CASE (\E f \in todo : SendAssertion(f)) \/ AssertionsSent
    BY <2>3 DEF SendAssertion, AssertionsSent, Main
  <2>4. CASE StopAux \/ StopCmd
    BY <2>4 DEF StopAux, StopCmd, Main
  <2>5. CASE JoinAux
    BY <2>5 DEF JoinAux, Main, Joined, ReleasedAux, Released, DecCancel
  <2>6. CASE Combine
    BY <2>6 DEF Combine, Main
  <2>7. CASE LimitPop
    BY <2>7 DEF LimitPop, Main
  <2>8. CASE JoinCmd
    BY <2>8 DEF JoinCmd, Joined, ReleasedCmd, Released, DecCancel
  <2> QED BY <1>2, <2>1, <2>2, <2>3, <2>4, <2>5, <2>6, <2>7, <2>8 DEF MainStep
<1>3. CASE Search
  BY <1>3 DEF Search, Solver2Answers, Solver2Throws, Solver1Answers, Main
<1>4. CASE ThreadStep
  <2>1. ASSUME NEW h \in Handlers, TimerStarts(h) \/ TimerStops(h) \/ TimerExpires(h)
        PROVE  CountInv'
    BY <2>1, HandlerNext DEF TimerStarts, TimerStops, TimerExpires, Thread
  <2>2. ASSUME NEW h \in Handlers, TimerRaises(h) PROVE CountInv'
    BY <2>2, HandlerNext DEF TimerRaises, Thread, Raise
  <2>3. CASE TimerTests
    BY <2>3 DEF TimerTests, Thread
  <2>4. CASE CtrlCRaises
    BY <2>4 DEF CtrlCRaises, Raise
  <2> QED BY <1>4, <2>1, <2>2, <2>3, <2>4 DEF ThreadStep
<1>5. CASE CtrlC
  BY <1>5 DEF CtrlC
<1>6. CASE Idle \/ UNCHANGED vars
  BY <1>6 DEF Idle, vars, threads
<1> QED BY <1>1, <1>2, <1>3, <1>4, <1>5, <1>6 DEF Next

(* No cancellation outlives its check, unless timer and Ctrl-C find the    *)
(* handler not yet cancelled at the same time: then cancel_eh raises twice *)
(* and its destructor withdraws once.                                      *)
THEOREM CancellationEnds ==
    ASSUME ~HandlersRace PROVE Spec => []CancelCleared
<1>1. CountInv => CancelCleared
  BY DEF CountInv, HandlerInv, ThreadInv, CancelCleared, Raised
<1> QED BY <1>1, CountInit, CountNext, PTL DEF Spec

-----------------------------------------------------------------------------
(* Solvers.                                                                *)

(* A prefix of a sequence.                                                 *)
LEMMA PrefixFacts ==
    ASSUME NEW S, NEW q \in Seq(S), NEW n \in 0 .. Len(q)
    PROVE  /\ SubSeq(q, 1, n) \in Seq(S) /\ Len(SubSeq(q, 1, n)) = n
           /\ \A j \in 1 .. n : SubSeq(q, 1, n)[j] = q[j]
OBVIOUS

LEMMA AppendFacts ==
    ASSUME NEW S, NEW q \in Seq(S), NEW x \in S
    PROVE  /\ Append(q, x) \in Seq(S) /\ Len(Append(q, x)) = Len(q) + 1
           /\ Append(q, x)[Len(q) + 1] = x
           /\ \A j \in 1 .. Len(q) : Append(q, x)[j] = q[j]
OBVIOUS

LEMMA UpdateFacts ==
    ASSUME NEW S, NEW q \in Seq(S), NEW n \in 1 .. Len(q), NEW x \in S
    PROVE  /\ [q EXCEPT ![n] = x] \in Seq(S) /\ Len([q EXCEPT ![n] = x]) = Len(q)
           /\ \A j \in 1 .. Len(q) : [q EXCEPT ![n] = x][j] = IF j = n THEN x ELSE q[j]
OBVIOUS

(* A solver_na2as: one frame more than pushes, and for each push how many  *)
(* named assertions there were.                                            *)
Parts(F, A, L) ==
    /\ F \in Seq(SUBSET Clauses) /\ A \in Seq(Literals) /\ L \in Seq(Nat)
    /\ Len(F) = Len(L) + 1
    /\ \A j \in 1 .. Len(L) : L[j] <= Len(A)
    /\ \A i, j \in 1 .. Len(L) : i <= j => L[i] <= L[j]

WellFormed(s) ==
    /\ s \in SolverType
    /\ Parts(s.frames, s.assumptions, s.lims)

(* Two solvers that were given the same pushes, pops and names.            *)
SameShape(s, t) ==
    /\ Len(s.frames) = Len(t.frames)
    /\ s.assumptions = t.assumptions
    /\ s.lims = t.lims

LEMMA WellFormedType ==
    ASSUME NEW s, WellFormed(s) PROVE s \in SolverType /\ Holds(s) \subseteq Clauses
<1>1. s \in SolverType /\ s.frames \in Seq(SUBSET Clauses)
  BY DEF WellFormed, Parts, SolverType
<1>2. \A i \in DOMAIN s.frames : s.frames[i] \subseteq Clauses
  BY <1>1
<1> QED BY <1>1, <1>2 DEF Holds, Range

(* Solvers are equal when their fields are.                                *)
LEMMA SolverEqual ==
    ASSUME NEW s \in SolverType, NEW t \in SolverType,
           s.frames = t.frames, s.assumptions = t.assumptions, s.lims = t.lims
    PROVE  s = t
BY DEF SolverType

LEMMA NaAssertShape ==
    ASSUME NEW s, WellFormed(s), NEW f \in Clauses
    PROVE  /\ WellFormed(NaAssert(s, f)) /\ SameShape(NaAssert(s, f), s)
           /\ NaAssert(s, f).frames
                = [s.frames EXCEPT ![Len(s.frames)] = s.frames[Len(s.frames)] \cup {f}]
<1> DEFINE n == Len(s.frames)
           F == [s.frames EXCEPT ![n] = s.frames[n] \cup {f}]
           t == NaAssert(s, f)
<1>1. s.frames \in Seq(SUBSET Clauses) /\ n \in 1 .. n /\ s.frames[n] \in SUBSET Clauses
  BY DEF WellFormed, Parts
<1>2. F \in Seq(SUBSET Clauses) /\ Len(F) = Len(s.frames)
  <2>1. s.frames[n] \cup {f} \in SUBSET Clauses
    BY <1>1
  <2> QED BY <1>1, <2>1, UpdateFacts
<1>3. t = [s EXCEPT !.frames = F]
  BY DEF NaAssert, WellFormed, SolverType
<1> HIDE DEF F, t
<1>4. t.frames = F /\ t.assumptions = s.assumptions /\ t.lims = s.lims /\ t \in SolverType
  BY <1>2, <1>3 DEF WellFormed, SolverType
<1>5. Parts(F, s.assumptions, s.lims)
  BY <1>2 DEF WellFormed, Parts
<1>6. WellFormed(t) /\ SameShape(t, s) /\ t.frames = F
  BY <1>2, <1>4, <1>5 DEF WellFormed, SameShape
<1> QED BY <1>6 DEF t, F

LEMMA AppendNameShape ==
    ASSUME NEW s, WellFormed(s), NEW l \in Literals
    PROVE  /\ WellFormed([s EXCEPT !.assumptions = Append(@, l)])
           /\ [s EXCEPT !.assumptions = Append(@, l)].frames = s.frames
           /\ [s EXCEPT !.assumptions = Append(@, l)].assumptions = Append(s.assumptions, l)
           /\ [s EXCEPT !.assumptions = Append(@, l)].lims = s.lims
<1> DEFINE A == Append(s.assumptions, l)
           t == [s EXCEPT !.assumptions = Append(@, l)]
<1>1. A \in Seq(Literals) /\ Len(A) = Len(s.assumptions) + 1 /\ Len(s.assumptions) \in Nat
  BY AppendFacts DEF WellFormed, Parts
<1>2. t.frames = s.frames /\ t.assumptions = A /\ t.lims = s.lims /\ t \in SolverType
  BY <1>1 DEF WellFormed, SolverType
<1>3. Parts(s.frames, A, s.lims)
  <2>1. \A j \in 1 .. Len(s.lims) : s.lims[j] <= Len(A)
    <3> TAKE j \in 1 .. Len(s.lims)
    <3>1. s.lims[j] \in Nat /\ s.lims[j] <= Len(s.assumptions)
      BY DEF WellFormed, Parts
    <3> HIDE DEF A
    <3> QED BY <1>1, <3>1
  <2> HIDE DEF A
  <2> QED BY <1>1, <2>1 DEF WellFormed, Parts
<1> HIDE DEF t
<1>4. WellFormed(t)
  BY <1>2, <1>3 DEF WellFormed
<1> QED BY <1>2, <1>4 DEF t

LEMMA PushParts ==
    ASSUME NEW F, NEW A, NEW L, Parts(F, A, L)
    PROVE  Parts(Append(F, {}), A, Append(L, Len(A)))
<1> DEFINE n == Len(A)
           M == Append(L, n)
           G == Append(F, {})
<1>1. n \in Nat /\ Len(L) \in Nat /\ L \in Seq(Nat)
  BY DEF Parts
<1>2. G \in Seq(SUBSET Clauses) /\ Len(G) = Len(F) + 1
  BY AppendFacts DEF Parts
<1>3. M \in Seq(Nat) /\ Len(M) = Len(L) + 1 /\ M[Len(L) + 1] = n /\ \A j \in 1 .. Len(L) : M[j] = L[j]
  BY <1>1, AppendFacts
<1> HIDE DEF G, M
<1>4. \A j \in 1 .. Len(M) : M[j] <= n
  <2> TAKE j \in 1 .. Len(M)
  <2>1. CASE j = Len(L) + 1
    BY <1>1, <1>3, <2>1
  <2>2. CASE j \in 1 .. Len(L)
    BY <1>3, <2>2 DEF Parts
  <2> QED BY <1>1, <1>3, <2>1, <2>2
<1>5. \A i, j \in 1 .. Len(M) : i <= j => M[i] <= M[j]
  <2> TAKE i, j \in 1 .. Len(M)
  <2> HAVE i <= j
  <2>1. CASE j = Len(L) + 1
    BY <1>3, <1>4, <2>1
  <2>2. CASE j \in 1 .. Len(L)
    <3>1. i \in 1 .. Len(L)
      BY <1>1, <2>2
    <3> QED BY <1>3, <2>2, <3>1 DEF Parts
  <2> QED BY <1>1, <1>3, <2>1, <2>2
<1> QED BY <1>1, <1>2, <1>3, <1>4, <1>5 DEF Parts, G, M

LEMMA NaPushShape ==
    ASSUME NEW s, WellFormed(s)
    PROVE  /\ WellFormed(NaPush(s))
           /\ NaPush(s).frames = Append(s.frames, {})
           /\ NaPush(s).assumptions = s.assumptions
           /\ NaPush(s).lims = Append(s.lims, Len(s.assumptions))
<1> DEFINE t == NaPush(s)
           F == Append(s.frames, {})
           L == Append(s.lims, Len(s.assumptions))
<1>1. Parts(F, s.assumptions, L)
  BY PushParts DEF WellFormed
<1>2. t.frames = F /\ t.assumptions = s.assumptions /\ t.lims = L /\ t \in SolverType
  <2>1. t = [s EXCEPT !.frames = F, !.lims = L]
    BY DEF NaPush
  <2> HIDE DEF t, F, L
  <2> QED BY <1>1, <2>1 DEF Parts, WellFormed, SolverType
<1> HIDE DEF t
<1>3. WellFormed(t)
  BY <1>1, <1>2 DEF WellFormed
<1> QED BY <1>2, <1>3 DEF t

LEMMA PopParts ==
    ASSUME NEW F, NEW A, NEW L, Parts(F, A, L), NEW k \in 1 .. Len(L)
    PROVE  Parts(SubSeq(F, 1, Len(F) - k), SubSeq(A, 1, L[Len(L) - k + 1]), SubSeq(L, 1, Len(L) - k))
<1> DEFINE m == Len(L) - k
           n == L[m + 1]
<1>1. Len(L) \in Nat /\ k \in Nat /\ L \in Seq(Nat) /\ Len(F) = Len(L) + 1 /\ Len(A) \in Nat
  BY DEF Parts
<1>2. m \in 0 .. Len(L) /\ m + 1 \in 1 .. Len(L) /\ Len(F) - k = m + 1 /\ m + 1 \in 0 .. Len(F)
  BY <1>1
<1>3. n \in 0 .. Len(A)
  <2>1. n \in Nat
    BY <1>1, <1>2
  <2>2. n <= Len(A)
    BY <1>2 DEF Parts
  <2> QED BY <1>1, <2>1, <2>2
<1> DEFINE G == SubSeq(F, 1, m + 1)
           B == SubSeq(A, 1, n)
           M == SubSeq(L, 1, m)
<1>4. G \in Seq(SUBSET Clauses) /\ Len(G) = m + 1
  BY <1>2, PrefixFacts DEF Parts
<1>5. B \in Seq(Literals) /\ Len(B) = n
  BY <1>3, PrefixFacts DEF Parts
<1>6. M \in Seq(Nat) /\ Len(M) = m /\ \A j \in 1 .. m : M[j] = L[j]
  BY <1>1, <1>2, PrefixFacts
<1>7. \A j \in 1 .. m : j \in 1 .. Len(L) /\ j <= m + 1
  BY <1>1, <1>2
<1>8. Parts(G, B, M)
  <2> HIDE DEF G, B, M, m, n
  <2>1. \A i, j \in 1 .. m : i <= j => M[i] <= M[j]
    BY <1>6, <1>7 DEF Parts
  <2>2. \A j \in 1 .. m : M[j] <= L[m + 1]
    BY <1>2, <1>6, <1>7 DEF Parts
  <2> QED BY <1>4, <1>5, <1>6, <2>1, <2>2 DEF Parts, n
<1>9. Len(F) - k = m + 1
  BY <1>2
<1> QED BY <1>8, <1>9

LEMMA NaPopShape ==
    ASSUME NEW s, WellFormed(s), NEW k \in 1 .. Len(s.lims)
    PROVE  /\ WellFormed(NaPop(s, k))
           /\ NaPop(s, k).frames = SubSeq(s.frames, 1, Len(s.frames) - k)
           /\ NaPop(s, k).assumptions = SubSeq(s.assumptions, 1, s.lims[Len(s.lims) - k + 1])
           /\ NaPop(s, k).lims = SubSeq(s.lims, 1, Len(s.lims) - k)
<1> DEFINE t == NaPop(s, k)
           F == SubSeq(s.frames, 1, Len(s.frames) - k)
           A == SubSeq(s.assumptions, 1, s.lims[Len(s.lims) - k + 1])
           L == SubSeq(s.lims, 1, Len(s.lims) - k)
<1>1. Parts(F, A, L)
  BY PopParts DEF WellFormed
<1>2. t.frames = F /\ t.assumptions = A /\ t.lims = L /\ t \in SolverType
  <2>1. t = [s EXCEPT !.frames = F, !.assumptions = A, !.lims = L]
    BY DEF NaPop
  <2> HIDE DEF t, F, A, L
  <2> QED BY <1>1, <2>1 DEF Parts, WellFormed, SolverType
<1> HIDE DEF t
<1>3. WellFormed(t)
  BY <1>1, <1>2 DEF WellFormed
<1> QED BY <1>2, <1>3 DEF t

-----------------------------------------------------------------------------
(* Types of the solvers and of the check.                                  *)

Flags == [inc : BOOLEAN, executed : BOOLEAN, use1 : BOOLEAN, init2 : BOOLEAN]

(* Solver 2 follows the pushes, pops and names of solver 1 from the start, *)
(* and until it is initialized there are none.                             *)
SolverInv ==
    /\ params \in Params
    /\ flags \in Flags
    /\ WellFormed(s1) /\ WellFormed(s2) /\ SameShape(s1, s2)
    /\ ~flags.init2 => s1.lims = <<>> /\ s1.assumptions = <<>>
    /\ todo \subseteq Holds(s1)
    /\ pc # "send" => todo = {}

CallInv ==
    /\ given \subseteq Literals /\ asked \subseteq Literals /\ core2 \subseteq Literals
    /\ result \in {"none", "sat", "unsat", "unknown", "exception"}
    /\ answer \in {"none", "sat", "unsat", "unknown"}
    /\ calls \in 0 .. MaxCalls

LEMMA EmptySolverShape == WellFormed(EmptySolver) /\ Holds(EmptySolver) = {}
<1> DEFINE F == <<{}>>
<1>1. F \in Seq(SUBSET Clauses) /\ Len(F) = 1 /\ DOMAIN F = {1} /\ F[1] = {}
  OBVIOUS
<1>2. <<>> \in Seq(Literals) /\ <<>> \in Seq(Nat) /\ Len(<<>>) = 0
  OBVIOUS
<1>3. EmptySolver.frames = F /\ EmptySolver.assumptions = <<>> /\ EmptySolver.lims = <<>>
  BY DEF EmptySolver
<1>4. EmptySolver \in SolverType
  BY <1>1, <1>2 DEF EmptySolver, SolverType
<1> HIDE DEF F
<1>5. Parts(F, <<>>, <<>>)
  BY <1>1, <1>2 DEF Parts
<1> QED BY <1>1, <1>3, <1>4, <1>5 DEF WellFormed, Holds, Range

(* Sending assertions to solver 2 keeps its shape.                         *)
LEMMA InitializedShape ==
    ASSUME WellFormed(s2), NEW s, WellFormed(s)
    PROVE  WellFormed(Initialized2(s)) /\ SameShape(Initialized2(s), s2)
<1>1. CASE flags.init2
  BY <1>1 DEF Initialized2, SameShape
<1>2. CASE ~flags.init2
  <2> DEFINE X == IF cancel > 0 THEN {} ELSE Holds(s)
             F == [s2.frames EXCEPT ![1] = s2.frames[1] \cup X]
             t == Initialized2(s)
  <2>1. X \subseteq Clauses
    BY WellFormedType
  <2>2. s2.frames \in Seq(SUBSET Clauses) /\ 1 \in 1 .. Len(s2.frames)
    BY DEF WellFormed, Parts
  <2>3. s2.frames[1] \cup X \in SUBSET Clauses
    BY <2>1, <2>2
  <2>4. F \in Seq(SUBSET Clauses) /\ Len(F) = Len(s2.frames)
    <3> HIDE DEF X
    <3> QED BY <2>2, <2>3, UpdateFacts
  <2>5. t = [s2 EXCEPT !.frames = F]
    BY <1>2 DEF Initialized2, WellFormed, SolverType
  <2> HIDE DEF F, t
  <2>6. t.frames = F /\ t.assumptions = s2.assumptions /\ t.lims = s2.lims /\ t \in SolverType
    BY <2>4, <2>5 DEF WellFormed, SolverType
  <2>7. Parts(F, s2.assumptions, s2.lims)
    BY <2>4 DEF WellFormed, Parts
  <2>8. WellFormed(t) /\ SameShape(t, s2)
    BY <2>4, <2>6, <2>7 DEF WellFormed, SameShape
  <2> QED BY <2>8 DEF t
<1> QED BY <1>1, <1>2

LEMMA SmtAssertShape ==
    ASSUME NEW s, WellFormed(s), NEW f \in Clauses
    PROVE  WellFormed(SmtAssert(s, f)) /\ SameShape(SmtAssert(s, f), s)
BY NaAssertShape DEF SmtAssert, SameShape

LEMMA Complement == ASSUME NEW l \in Literals PROVE -l \in Literals
<1>1. CASE l \in Vars
  BY <1>1 DEF Literals
<1>2. ASSUME NEW v \in Vars, l = -v PROVE -l \in Literals
  <2>1. -l = v
    BY <1>2, VarsAssumption
  <2> QED BY <2>1 DEF Literals
<1> QED BY <1>1, <1>2 DEF Literals

LEMMA NamedFacts ==
    ASSUME NEW n \in Named PROVE n.name \in Literals /\ Guarded(n) \in Clauses
<1>1. n.clause \in Clauses /\ n.name \in Literals
  BY CheckSatAssumption
<1>2. -n.name \in Literals
  BY <1>1, Complement
<1> QED BY <1>1, <1>2 DEF Guarded, Clauses

(* What a call that asserts, pushes or pops does to the solvers.           *)
LEMMA CallShape ==
    ASSUME SolverInv, ClientCall, ~\E A \in AssumptionSets : Check(A)
    PROVE  /\ WellFormed(s1') /\ WellFormed(s2') /\ SameShape(s1', s2') /\ flags' \in Flags
           /\ ~flags'.init2 => s1'.lims = <<>> /\ s1'.assumptions = <<>>
<1> USE DEF SolverInv
<1>1. ASSUME NEW f \in Formulas, AssertExpr(f)
      PROVE  /\ WellFormed(s1') /\ WellFormed(s2') /\ SameShape(s1', s2') /\ flags' \in Flags
             /\ ~flags'.init2 => s1'.lims = <<>> /\ s1'.assumptions = <<>>
  <2>1. f \in Clauses /\ s1' = NaAssert(s1, f)
    BY <1>1, CheckSatAssumption DEF AssertExpr
  <2>2. WellFormed(s1') /\ SameShape(s1', s1)
    BY <2>1, NaAssertShape
  <2>3. WellFormed(s2') /\ SameShape(s2', s2)
    <3>1. CASE flags.executed
      <4>1. s2' = SmtAssert(Initialized2(s1), f)
        BY <1>1, <3>1 DEF AssertExpr
      <4>2. WellFormed(Initialized2(s1)) /\ SameShape(Initialized2(s1), s2)
        BY InitializedShape
      <4> QED BY <2>1, <4>1, <4>2, SmtAssertShape DEF SameShape
    <3>2. CASE ~flags.executed
      BY <1>1, <2>1, <3>2, SmtAssertShape DEF AssertExpr, SameShape
    <3> QED BY <3>1, <3>2
  <2>4. flags' \in Flags /\ (~flags'.init2 => ~flags.init2)
    BY <1>1 DEF AssertExpr, SwitchIncMode, Flags
  <2> QED BY <2>2, <2>3, <2>4 DEF SameShape
<1>2. ASSUME NEW n \in Named, AssertNamed(n)
      PROVE  /\ WellFormed(s1') /\ WellFormed(s2') /\ SameShape(s1', s2') /\ flags' \in Flags
             /\ flags'.init2
  <2> DEFINE g == Guarded(n)
             t == NaAssert(s1, g)
             u == SmtAssert(Initialized2(s1'), g)
  <2>1. /\ s1' = [t EXCEPT !.assumptions = Append(@, n.name)]
        /\ s2' = [u EXCEPT !.assumptions = Append(@, n.name)]
    BY <1>2 DEF AssertNamed, NaAssertNamed
  <2>2. g \in Clauses /\ n.name \in Literals
    BY NamedFacts
  <2>3. WellFormed(t) /\ SameShape(t, s1)
    BY <2>2, NaAssertShape
  <2>4. WellFormed(s1') /\ s1'.frames = t.frames /\ s1'.lims = t.lims
        /\ s1'.assumptions = Append(t.assumptions, n.name)
    <3> HIDE DEF t
    <3> QED BY <2>1, <2>2, <2>3, AppendNameShape
  <2>5. WellFormed(Initialized2(s1')) /\ SameShape(Initialized2(s1'), s2)
    BY <2>4, InitializedShape
  <2>6. WellFormed(u) /\ SameShape(u, s2)
    BY <2>2, <2>5, SmtAssertShape DEF SameShape
  <2>7. WellFormed(s2') /\ s2'.frames = u.frames /\ s2'.lims = u.lims
        /\ s2'.assumptions = Append(u.assumptions, n.name)
    <3> HIDE DEF u
    <3> QED BY <2>1, <2>2, <2>6, AppendNameShape
  <2>8. flags' \in Flags /\ flags'.init2
    BY <1>2 DEF AssertNamed, Flags
  <2> HIDE DEF t, u
  <2> QED BY <2>3, <2>4, <2>6, <2>7, <2>8 DEF SameShape
<1>3. CASE Push
  <2> DEFINE u == Initialized2(s1)
  <2>1. s1' = NaPush(s1) /\ s2' = NaPush(u)
    BY <1>3 DEF Push
  <2>2. WellFormed(u) /\ SameShape(u, s2)
    BY InitializedShape
  <2>3. WellFormed(s1') /\ WellFormed(s2')
    BY <2>1, <2>2, NaPushShape
  <2>4. SameShape(s1', s2')
    <3> HIDE DEF u
    <3>1. s1'.lims = s2'.lims /\ s1'.assumptions = s2'.assumptions
      BY <2>1, <2>2, NaPushShape DEF SameShape
    <3>2. Len(s1'.frames) = Len(s1'.lims) + 1 /\ Len(s2'.frames) = Len(s2'.lims) + 1
      BY <2>3 DEF WellFormed, Parts
    <3> QED BY <3>1, <3>2 DEF SameShape
  <2>5. flags' \in Flags /\ flags'.init2
    BY <1>3 DEF Push, SwitchIncMode, Flags
  <2> QED BY <2>3, <2>4, <2>5
<1>4. ASSUME NEW k \in 1 .. Len(s1.lims), Pop(k)
      PROVE  /\ WellFormed(s1') /\ WellFormed(s2') /\ SameShape(s1', s2') /\ flags' \in Flags
             /\ flags'.init2
  <2> DEFINE u == Initialized2(s1)
  <2>1. s1' = NaPop(s1, k) /\ s2' = NaPop(u, k)
    BY <1>4 DEF Pop
  <2>2. WellFormed(u) /\ SameShape(u, s2) /\ k \in 1 .. Len(u.lims)
    BY InitializedShape DEF SameShape
  <2>3. WellFormed(s1') /\ WellFormed(s2')
    BY <2>1, <2>2, NaPopShape
  <2>4. SameShape(s1', s2')
    <3> HIDE DEF u
    <3> DEFINE L == s1.lims
    <3>e. u.lims = L /\ u.assumptions = s1.assumptions
      BY <2>2 DEF SameShape
    <3>a. /\ s1'.lims = SubSeq(L, 1, Len(L) - k)
          /\ s1'.assumptions = SubSeq(s1.assumptions, 1, L[Len(L) - k + 1])
      BY <2>1, NaPopShape
    <3>b. /\ s2'.lims = SubSeq(u.lims, 1, Len(u.lims) - k)
          /\ s2'.assumptions = SubSeq(u.assumptions, 1, u.lims[Len(u.lims) - k + 1])
      BY <2>1, <2>2, NaPopShape
    <3> HIDE DEF L
    <3>1. s1'.lims = s2'.lims /\ s1'.assumptions = s2'.assumptions
      BY <3>e, <3>a, <3>b
    <3>2. Len(s1'.frames) = Len(s1'.lims) + 1 /\ Len(s2'.frames) = Len(s2'.lims) + 1
      BY <2>3 DEF WellFormed, Parts
    <3> QED BY <3>1, <3>2 DEF SameShape
  <2>5. flags' \in Flags /\ flags'.init2
    BY <1>4 DEF Pop, SwitchIncMode, Flags
  <2> QED BY <2>3, <2>4, <2>5
<1> QED BY <1>1, <1>2, <1>3, <1>4 DEF ClientCall

LEMMA SolverInit == Init => SolverInv /\ CallInv
<1> SUFFICES ASSUME Init PROVE SolverInv /\ CallInv
  OBVIOUS
<1>1. s1 = EmptySolver /\ s2 = EmptySolver /\ s1.lims = <<>> /\ s1.assumptions = <<>>
  BY DEF Init, EmptySolver
<1>2. WellFormed(s1) /\ WellFormed(s2) /\ SameShape(s1, s2)
  BY <1>1, EmptySolverShape DEF SameShape
<1>3. flags \in Flags
  BY DEF Init, Flags
<1>4. CallInv
  BY CheckSatAssumption DEF Init, CallInv
<1> QED BY <1>1, <1>2, <1>3, <1>4 DEF Init, SolverInv

(* The steps of a check leave solver 1 alone, and solver 2 except while    *)
(* assertions are sent to it.                                              *)
LEMMA CheckFrame ==
    ASSUME [Next]_vars, ~ClientCall, ~\E f \in todo : SendAssertion(f)
    PROVE  UNCHANGED <<params, s1, s2, given, asked, calls>>
<1>1. CASE MainStep
  BY <1>1 DEF MainStep, LimitPush, CheckWithSolver2, CheckIncremental, CheckNonIncremental,
              AssertionsSent, StopAux, JoinAux, Combine, LimitPop, StopCmd, JoinCmd, Main, solvers
<1>2. CASE Search
  BY <1>2 DEF Search, Solver2Answers, Solver2Throws, Solver1Answers, Main, solvers
<1>3. CASE ThreadStep \/ CtrlC
  BY <1>3 DEF ThreadStep, TimerStarts, TimerStops, TimerExpires, TimerRaises, TimerTests,
              CtrlC, CtrlCRaises, Thread, solvers
<1>4. CASE Idle \/ UNCHANGED vars
  BY <1>4 DEF Idle, vars, solvers
<1> QED BY <1>1, <1>2, <1>3, <1>4 DEF Next

(* They leave the flags alone, or set them as listed.                      *)
LEMMA CheckFlags ==
    ASSUME SolverInv, [Next]_vars, ~ClientCall, ~\E f \in todo : SendAssertion(f)
    PROVE  /\ flags' \in Flags /\ (flags.init2 => flags'.init2)
           /\ ~flags.init2 /\ flags'.init2 => pc = "send" /\ pc' = "solver2" /\ todo = {}
           /\ \/ todo' = todo
              \/ pc = "check" /\ pc' = "send" /\ ~flags.init2 /\ todo' = Holds(s1)
              \/ pc = "check" /\ pc' = "solver2" /\ todo' = {}
           /\ pc = "send" => pc' = "send" \/ (pc' = "solver2" /\ todo = {} /\ flags'.init2)
           /\ pc' = "send" => pc = "send" \/ (pc = "check" /\ todo' = Holds(s1) /\ ~flags'.init2)
<1> USE DEF SolverInv, Flags
<1>1. CASE MainStep
  <2>1. CASE CheckWithSolver2
    BY <2>1 DEF CheckWithSolver2, Main, Executed
  <2>2. CASE CheckIncremental \/ CheckNonIncremental
    BY <2>2 DEF CheckIncremental, CheckNonIncremental, Main, Executed, UseSolver1
  <2>3. CASE AssertionsSent
    BY <2>3 DEF AssertionsSent, Main
  <2>4. CASE JoinAux \/ Combine
    BY <2>4 DEF JoinAux, Combine, Main, UseSolver1
  <2>5. CASE LimitPush \/ StopAux \/ LimitPop \/ StopCmd \/ JoinCmd
    BY <2>5 DEF LimitPush, StopAux, LimitPop, StopCmd, JoinCmd, Main, solvers
  <2> QED BY <1>1, <2>1, <2>2, <2>3, <2>4, <2>5 DEF MainStep
<1>2. CASE Search
  BY <1>2 DEF Search, Solver2Answers, Solver2Throws, Solver1Answers, Main, solvers, AfterSolver2
<1>3. CASE ThreadStep \/ CtrlC
  BY <1>3 DEF ThreadStep, TimerStarts, TimerStops, TimerExpires, TimerRaises, TimerTests,
              CtrlC, CtrlCRaises, Thread, solvers
<1>4. CASE Idle \/ UNCHANGED vars
  BY <1>4 DEF Idle, vars, solvers
<1> QED BY <1>1, <1>2, <1>3, <1>4 DEF Next

LEMMA SolverNext == SolverInv /\ [Next]_vars => SolverInv'
<1> SUFFICES ASSUME SolverInv, [Next]_vars PROVE SolverInv'
  OBVIOUS
<1>1. CASE ClientCall /\ ~\E A \in AssumptionSets : Check(A)
  <2>1. pc = "idle" /\ UNCHANGED <<params, todo, pc>>
    BY <1>1 DEF ClientCall, AssertExpr, AssertNamed, Push, Pop, Update, Call
  <2> QED BY <1>1, <2>1, CallShape DEF SolverInv
<1>2. CASE \E A \in AssumptionSets : Check(A)
  BY <1>2 DEF Check, Call, solvers, SolverInv
<1>3. ASSUME NEW f \in todo, SendAssertion(f) PROVE SolverInv'
  <2>1. /\ UNCHANGED <<params, s1, flags>> /\ pc' = "send"
        /\ todo' = todo \ {f} /\ s2' = SmtAssert(s2, f)
    BY <1>3 DEF SendAssertion, Main
  <2>2. f \in Clauses
    BY WellFormedType DEF SolverInv
  <2>3. WellFormed(s2') /\ SameShape(s2', s2)
    BY <2>1, <2>2, SmtAssertShape DEF SolverInv
  <2> QED BY <2>1, <2>3 DEF SolverInv, SameShape
<1>4. CASE ~ClientCall /\ ~\E f \in todo : SendAssertion(f)
  <2>1. UNCHANGED <<params, s1, s2>>
    BY <1>4, CheckFrame
  <2>2. flags' \in Flags /\ (flags.init2 => flags'.init2)
    BY <1>4, CheckFlags
  <2>3. todo' \subseteq Holds(s1) /\ (pc' # "send" => todo' = {})
    BY <1>4, CheckFlags DEF SolverInv
  <2> QED BY <2>1, <2>2, <2>3 DEF SolverInv
<1> QED BY <1>1, <1>2, <1>3, <1>4 DEF ClientCall

LEMMA AnswerType ==
    ASSUME NEW cs, NEW A, NEW a \in Answers(cs, A)
    PROVE  /\ a[1] \in {"sat", "unsat", "unknown"} /\ a[2] \subseteq A
           /\ a[1] = "sat" => Satisfiable(cs \cup Units(A)) /\ a[2] = {}
           /\ a[1] = "unsat" => ~Satisfiable(cs \cup Units(a[2]))
           /\ a[1] = "unknown" => a[2] = {}
<1>1. CASE a = <<"unknown", {}>>
  BY <1>1
<1>2. ASSUME NEW x \in {y \in {0} : Satisfiable(cs \cup Units(A))}, a = <<"sat", {}>>
      PROVE  a[1] = "sat" /\ a[2] = {} /\ Satisfiable(cs \cup Units(A))
  BY <1>2
<1>3. ASSUME NEW k \in {j \in SUBSET A : ~Satisfiable(cs \cup Units(j))}, a = <<"unsat", k>>
      PROVE  a[1] = "unsat" /\ a[2] \subseteq A /\ ~Satisfiable(cs \cup Units(a[2]))
  BY <1>3
<1>4. \/ a = <<"unknown", {}>>
      \/ \E x \in {y \in {0} : Satisfiable(cs \cup Units(A))} : a = <<"sat", {}>>
      \/ \E k \in {j \in SUBSET A : ~Satisfiable(cs \cup Units(j))} : a = <<"unsat", k>>
  BY Zenon DEF Answers
<1> QED BY <1>1, <1>2, <1>3, <1>4

LEMMA CallNext == SolverInv /\ CallInv /\ [Next]_vars => CallInv'
<1> SUFFICES ASSUME SolverInv, CallInv, [Next]_vars PROVE CallInv'
  OBVIOUS
<1> USE DEF CallInv
<1>1. CASE ClientCall
  <2>1. calls' \in 0 .. MaxCalls
    BY <1>1, CheckSatAssumption DEF ClientCall, AssertExpr, AssertNamed, Push, Pop, Update, Check, Call
  <2>2. CASE ~\E A \in AssumptionSets : Check(A)
    BY <1>1, <2>1, <2>2 DEF ClientCall, AssertExpr, AssertNamed, Push, Pop, Update
  <2>3. ASSUME NEW A \in AssumptionSets, Check(A) PROVE CallInv'
    <3>1. A \subseteq Literals /\ LiveNames(s1) \subseteq Literals
      BY CheckSatAssumption DEF LiveNames
    <3> QED BY <2>1, <2>3, <3>1 DEF Check
  <2> QED BY <2>2, <2>3
<1>2. CASE Search
  <2>1. given \cup Range(s2.assumptions) \subseteq Literals
    <3>1. s2.assumptions \in Seq(Literals)
      BY DEF SolverInv, WellFormed, Parts
    <3>2. \A i \in DOMAIN s2.assumptions : s2.assumptions[i] \in Literals
      BY <3>1
    <3> QED BY <3>2 DEF Range
  <2>2. CASE Solver2Answers
    <3>1. PICK a \in Answers(Holds(s2), given \cup Range(s2.assumptions)) :
            result' = a[1] /\ core2' = a[2]
      BY <2>2 DEF Solver2Answers
    <3>2. result' \in {"sat", "unsat", "unknown"} /\ core2' \subseteq Literals
      BY <2>1, <3>1, AnswerType
    <3> QED BY <2>2, <3>2 DEF Solver2Answers, Main
  <2>3. CASE Solver2Throws
    BY <2>3 DEF Solver2Throws, Main
  <2>4. CASE Solver1Answers
    <3>1. PICK a \in Answers(Holds(s1), {}) : answer' = a[1]
      BY <2>4 DEF Solver1Answers
    <3>2. answer' \in {"sat", "unsat", "unknown"}
      BY <3>1, AnswerType
    <3> QED BY <2>4, <3>2 DEF Solver1Answers, Main
  <2> QED BY <1>2, <2>2, <2>3, <2>4 DEF Search
<1>3. CASE ~ClientCall /\ ~Search
  <2>1. UNCHANGED <<given, asked, calls, result, core2>>
    BY <1>3 DEF Next, MainStep, LimitPush, CheckWithSolver2, CheckIncremental, CheckNonIncremental,
                SendAssertion, AssertionsSent, StopAux, JoinAux, Combine, LimitPop, StopCmd, JoinCmd,
                Main, ThreadStep, TimerStarts, TimerStops, TimerExpires, TimerRaises, TimerTests,
                CtrlC, CtrlCRaises, Thread, Idle, vars
  <2>2. answer' = answer \/ (answer' = Reported /\ pc \in {"join_aux", "combine"})
    BY <1>3 DEF Next, MainStep, LimitPush, CheckWithSolver2, CheckIncremental, CheckNonIncremental,
                SendAssertion, AssertionsSent, StopAux, JoinAux, Combine, LimitPop, StopCmd, JoinCmd,
                Main, ThreadStep, TimerStarts, TimerStops, TimerExpires, TimerRaises, TimerTests,
                CtrlC, CtrlCRaises, Thread, Idle, vars
  <2> QED BY <2>1, <2>2 DEF Reported
<1> QED BY <1>1, <1>2, <1>3

(* Types of the check, its solvers and its threads; m_cancel counts at     *)
(* most the two handlers.                                                  *)
THEOREM Types ==
    ASSUME ~HandlersRace PROVE Spec => []TypeOK
<1> DEFINE Inv == CountInv /\ SolverInv /\ CallInv
<1>1. Init => Inv
  BY CountInit, SolverInit
<1>2. Inv /\ [Next]_vars => Inv'
  BY CountNext, SolverNext, CallNext
<1>3. Inv => TypeOK
  <2> SUFFICES ASSUME Inv PROVE TypeOK
    OBVIOUS
  <2>1. Cardinality(Handlers) = 2
    <3>1. Cardinality({"cmd"}) = 1 /\ IsFiniteSet({"cmd"})
      BY FS_Singleton
    <3>2. Cardinality({"cmd"} \cup {"aux"}) = 1 + 1
      BY <3>1, FS_AddElement
    <3> QED BY <3>2 DEF Handlers
  <2>2. cancel \in 0 .. 2
    BY DEF CountInv, HandlerInv, ThreadInv, Raised
  <2>3. s1 \in SolverType /\ s2 \in SolverType
    BY WellFormedType DEF SolverInv
  <2> QED BY <2>1, <2>2, <2>3 DEF TypeOK, CountInv, HandlerInv, ThreadInv, SolverInv, CallInv, Flags, Pcs
<1> QED BY <1>1, <1>2, <1>3, PTL DEF Spec

-----------------------------------------------------------------------------
(* The assertions of solver 2, when no check is cancelled while they are   *)
(* sent.                                                                   *)

LEMMA OneFrame ==
    ASSUME NEW s, WellFormed(s), s.lims = <<>>
    PROVE  s.frames \in Seq(SUBSET Clauses) /\ Len(s.frames) = 1 /\ Holds(s) = s.frames[1]
<1>1. s.frames \in Seq(SUBSET Clauses) /\ Len(s.frames) = 1
  BY DEF WellFormed, Parts
<1>2. DOMAIN s.frames = {1}
  BY <1>1
<1> QED BY <1>1, <1>2 DEF Holds, Range

LEMMA FramesEqual ==
    ASSUME NEW S, NEW F \in Seq(S), NEW G \in Seq(S), Len(F) = 1, Len(G) = 1, F[1] = G[1]
    PROVE  F = G
OBVIOUS

(***************************************************************************)
(* Before solver 2 is initialized it holds nothing, and while it is being  *)
(* initialized what it holds and what is still to be sent make up solver   *)
(* 1.  Nothing is dropped because a check that sends assertions is not     *)
(* cancelled, and no other call starts cancelled.                          *)
(***************************************************************************)
SentInv ==
    /\ flags.init2 => s2 = s1
    /\ ~flags.init2 /\ pc # "send" => s2.frames[1] = {}
    /\ pc = "send" => ~flags.init2 /\ s2.frames[1] \cup todo = s1.frames[1]
    /\ Sending => cancel = 0 /\ sigint # "raising"

(* init_solver2_assertions outside of a check gives solver 2 the frame of  *)
(* the solver passed to it.                                                *)
LEMMA InitializedFrames ==
    ASSUME SolverInv, SentInv, pc = "idle", cancel = 0, ~flags.init2,
           NEW s, WellFormed(s), s.lims = <<>>
    PROVE  Initialized2(s).frames = s.frames
<1> DEFINE t == Initialized2(s)
<1>1. WellFormed(s2) /\ s2.lims = <<>> /\ s2.frames[1] = {}
  BY DEF SolverInv, SameShape, SentInv
<1>2. WellFormed(t) /\ SameShape(t, s2)
  BY <1>1, InitializedShape
<1>3. t = [s2 EXCEPT !.frames[1] = s2.frames[1] \cup Holds(s)]
  BY DEF Initialized2
<1>4. t.frames[1] = Holds(s)
  BY <1>1, <1>3, OneFrame DEF WellFormed, SolverType
<1> HIDE DEF t
<1>5. t.lims = <<>>
  BY <1>1, <1>2 DEF SameShape
<1>6. t.frames[1] = s.frames[1]
  BY <1>4, OneFrame
<1>7. t.frames = s.frames
  BY <1>2, <1>5, <1>6, OneFrame, FramesEqual
<1> QED BY <1>7 DEF t

LEMMA InitializedEqual ==
    ASSUME SolverInv, SentInv, pc = "idle", cancel = 0
    PROVE  Initialized2(s1) = s1
<1>1. CASE flags.init2
  BY <1>1 DEF Initialized2, SentInv
<1>2. CASE ~flags.init2
  <2>1. Initialized2(s1).frames = s1.frames
    BY <1>2, InitializedFrames DEF SolverInv
  <2>2. WellFormed(Initialized2(s1)) /\ SameShape(Initialized2(s1), s2)
    BY InitializedShape DEF SolverInv
  <2>3. SameShape(s1, s2) /\ s1 \in SolverType /\ Initialized2(s1) \in SolverType
    BY <2>2, WellFormedType DEF SolverInv
  <2> QED BY <2>1, <2>2, <2>3, SolverEqual DEF SameShape
<1> QED BY <1>1, <1>2

(* Asserting what is in the last frame already changes nothing.            *)
LEMMA AssertAgain ==
    ASSUME NEW s, WellFormed(s), s.lims = <<>>, NEW f \in Clauses, f \in s.frames[1]
    PROVE  NaAssert(s, f).frames = s.frames
<1>1. s.frames \in Seq(SUBSET Clauses) /\ Len(s.frames) = 1
  BY OneFrame
<1>2. NaAssert(s, f).frames = [s.frames EXCEPT ![1] = s.frames[1] \cup {f}]
  BY <1>1, NaAssertShape
<1>3. s.frames[1] \cup {f} = s.frames[1]
  OBVIOUS
<1>4. ASSUME NEW F \in Seq(SUBSET Clauses), Len(F) = 1 PROVE [F EXCEPT ![1] = F[1]] = F
  OBVIOUS
<1> QED BY <1>1, <1>2, <1>3, <1>4

(* After a call of the client solver 2 is not initialized and still holds  *)
(* nothing, or it holds what solver 1 holds.                               *)
LEMMA CallSends ==
    ASSUME SolverInv, SentInv, pc = "idle", cancel = 0,
           ClientCall, ~\E A \in AssumptionSets : Check(A)
    PROVE  IF flags'.init2 THEN s2' = s1' ELSE ~flags.init2 /\ s2' = s2
<1>1. ASSUME NEW f \in Formulas, AssertExpr(f)
      PROVE  IF flags'.init2 THEN s2' = s1' ELSE ~flags.init2 /\ s2' = s2
  <2>1. \A s : SmtAssert(s, f) = NaAssert(s, f)
    BY DEF SmtAssert
  <2>2. CASE flags.executed
    BY <1>1, <2>1, <2>2, InitializedEqual DEF AssertExpr, SwitchIncMode, SolverInv, Flags
  <2>3. CASE ~flags.executed
    BY <1>1, <2>1, <2>3 DEF AssertExpr, SentInv
  <2> QED BY <2>2, <2>3
<1>2. ASSUME NEW n \in Named, AssertNamed(n) PROVE s2' = s1' /\ flags'.init2
  <2> DEFINE g == Guarded(n)
             t == NaAssert(s1, g)
             i == Initialized2(s1')
             u == NaAssert(i, g)
  <2>1. /\ s1' = [t EXCEPT !.assumptions = Append(@, n.name)]
        /\ s2' = [u EXCEPT !.assumptions = Append(@, n.name)]
    BY <1>2 DEF AssertNamed, NaAssertNamed, SmtAssert
  <2>2. flags'.init2
    BY <1>2 DEF AssertNamed, SolverInv, Flags
  <2>3. CASE flags.init2
    BY <2>1, <2>2, <2>3 DEF Initialized2, SentInv
  <2>4. CASE ~flags.init2
    <3>1. g \in Clauses /\ n.name \in Literals
      BY NamedFacts
    <3>2. WellFormed(t) /\ SameShape(t, s1) /\ t.frames = [s1.frames EXCEPT ![1] = s1.frames[1] \cup {g}]
      BY <2>4, <3>1, NaAssertShape, OneFrame DEF SolverInv
    <3>3. g \in t.frames[1]
      BY <2>4, <3>2, OneFrame DEF SolverInv
    <3>4. WellFormed(s1') /\ s1'.frames = t.frames /\ s1'.lims = <<>>
      <4>1. WellFormed(s1') /\ s1'.frames = t.frames /\ s1'.lims = t.lims
        <5> HIDE DEF t
        <5> QED BY <2>1, <3>1, <3>2, AppendNameShape
      <4> QED BY <2>4, <3>2, <4>1 DEF SameShape, SolverInv
    <3>5. WellFormed(i) /\ i.frames = s1'.frames /\ i.lims = <<>>
      <4>1. WellFormed(i) /\ SameShape(i, s2)
        BY <3>4, InitializedShape DEF SolverInv
      <4>2. i.frames = s1'.frames
        BY <2>4, <3>4, InitializedFrames
      <4> QED BY <2>4, <4>1, <4>2 DEF SameShape, SolverInv
    <3>6. WellFormed(u) /\ u.frames = i.frames
      <4> HIDE DEF i
      <4> QED BY <3>1, <3>3, <3>4, <3>5, NaAssertShape, AssertAgain
    <3>7. WellFormed(s2') /\ s2'.frames = u.frames
      <4> HIDE DEF u
      <4> QED BY <2>1, <3>1, <3>6, AppendNameShape
    <3>8. SameShape(s1', s2')
      BY <1>2, CallShape DEF ClientCall
    <3>9. s1'.frames = s2'.frames /\ s1' \in SolverType /\ s2' \in SolverType
      <4> HIDE DEF t, i, u
      <4> QED BY <3>4, <3>5, <3>6, <3>7, WellFormedType
    <3> QED BY <2>2, <3>8, <3>9, SolverEqual DEF SameShape
  <2> QED BY <2>3, <2>4
<1>3. CASE Push
  BY <1>3, InitializedEqual DEF Push, SwitchIncMode, SolverInv, Flags
<1>4. ASSUME NEW k \in 1 .. Len(s1.lims), Pop(k) PROVE s2' = s1' /\ flags'.init2
  BY <1>4, InitializedEqual DEF Pop, SwitchIncMode, SolverInv, Flags
<1> QED BY <1>1, <1>2, <1>3, <1>4 DEF ClientCall

(* A check that sends assertions is not cancelled.                         *)
LEMMA SendingNext ==
    ASSUME ~InitInterruptible, CountInv, SolverInv, SentInv, [Next]_vars
    PROVE  Sending' => cancel' = 0 /\ sigint' # "raising"
<1> SUFFICES ASSUME Sending' PROVE cancel' = 0 /\ sigint' # "raising"
  OBVIOUS
<1>1. CASE ClientCall
  BY <1>1 DEF ClientCall, AssertExpr, AssertNamed, Push, Pop, Update, Check, Call, Sending
<1>2. CASE LimitPush
  BY <1>2 DEF LimitPush, Main
<1>3. CASE MainStep /\ ~LimitPush
  <2>1. pc' = "send" /\ UNCHANGED <<cancel, sigint>> /\ Sending
    BY <1>3 DEF MainStep, CheckWithSolver2, CheckIncremental, CheckNonIncremental, SendAssertion,
                AssertionsSent, StopAux, JoinAux, Combine, LimitPop, StopCmd, JoinCmd, Main, Sending
  <2> QED BY <2>1 DEF SentInv
<1>4. CASE Search
  BY <1>4 DEF Search, Solver2Answers, Solver2Throws, Solver1Answers, Main, Sending, AfterSolver2
<1>5. CASE ThreadStep \/ CtrlC \/ Idle \/ UNCHANGED vars
  <2>1. Sending
    BY <1>5 DEF ThreadStep, TimerStarts, TimerStops, TimerExpires, TimerRaises, TimerTests, Thread,
                CtrlC, CtrlCRaises, Idle, vars, solvers, Sending, MustUseSolver2
  <2> QED BY <1>5, <2>1 DEF ThreadStep, TimerStarts, TimerStops, TimerExpires, TimerRaises, TimerTests,
                Thread, CtrlC, CtrlCRaises, Idle, vars, threads, MayRaise, SentInv
<1> QED BY <1>1, <1>2, <1>3, <1>4, <1>5 DEF Next

LEMMA SentNext ==
    ASSUME ~InitInterruptible, CountInv, SolverInv, SentInv, [Next]_vars PROVE SentInv'
<1> SUFFICES /\ flags'.init2 => s2' = s1'
             /\ ~flags'.init2 /\ pc' # "send" => s2'.frames[1] = {}
             /\ pc' = "send" => ~flags'.init2 /\ s2'.frames[1] \cup todo' = s1'.frames[1]
  BY SendingNext DEF SentInv
<1>1. CASE ClientCall /\ ~\E A \in AssumptionSets : Check(A)
  <2>1. pc = "idle" /\ pc' = "idle" /\ cancel = 0
    BY <1>1, UpdateFrame DEF CountInv, HandlerInv, ThreadInv, Raised
  <2> QED BY <1>1, <2>1, CallSends DEF SentInv
<1>2. CASE \E A \in AssumptionSets : Check(A)
  BY <1>2 DEF Check, Call, solvers, SentInv
<1>3. ASSUME NEW f \in todo, SendAssertion(f)
      PROVE  ~flags'.init2 /\ s2'.frames[1] \cup todo' = s1'.frames[1] /\ pc' = "send"
  <2>1. /\ UNCHANGED <<s1, flags>> /\ pc = "send" /\ pc' = "send"
        /\ todo' = todo \ {f} /\ s2' = NaAssert(s2, f)
    BY <1>3 DEF SendAssertion, Main, SmtAssert, SentInv, Sending
  <2>2. f \in Clauses /\ ~flags.init2 /\ WellFormed(s2) /\ s2.lims = <<>>
    BY <2>1, WellFormedType DEF SolverInv, SentInv, SameShape
  <2>3. s2'.frames[1] = s2.frames[1] \cup {f}
    <3>1. s2.frames \in Seq(SUBSET Clauses) /\ Len(s2.frames) = 1
      BY <2>2, OneFrame
    <3>2. NaAssert(s2, f).frames = [s2.frames EXCEPT ![1] = s2.frames[1] \cup {f}]
      BY <2>2, <3>1, NaAssertShape
    <3> QED BY <2>1, <3>1, <3>2
  <2> QED BY <2>1, <2>2, <2>3 DEF SentInv
<1>4. CASE ~ClientCall /\ ~\E f \in todo : SendAssertion(f)
  <2>1. UNCHANGED <<s1, s2>>
    BY <1>4, CheckFrame
  <2>2. ~flags.init2 => /\ s1.frames \in Seq(SUBSET Clauses) /\ Len(s1.frames) = 1
                        /\ Holds(s1) = s1.frames[1]
    BY OneFrame DEF SolverInv
  <2>3. CASE ~flags.init2 /\ flags'.init2
    <3>1. pc = "send" /\ todo = {}
      BY <1>4, <2>3, CheckFlags
    <3>2. s2.frames[1] = s1.frames[1]
      BY <3>1 DEF SentInv
    <3>3. WellFormed(s2) /\ s2.lims = <<>> /\ WellFormed(s1) /\ s1.lims = <<>> /\ SameShape(s1, s2)
      BY <2>3 DEF SolverInv, SameShape
    <3>4. s2.frames = s1.frames
      BY <3>2, <3>3, OneFrame, FramesEqual
    <3>5. s2 = s1
      BY <3>3, <3>4, WellFormedType, SolverEqual DEF SameShape
    <3>6. pc' # "send"
      BY <1>4, <2>3, CheckFlags
    <3> QED BY <2>1, <2>3, <3>5, <3>6
  <2>4. CASE flags.init2
    BY <1>4, <2>1, <2>4, CheckFlags DEF SentInv
  <2>5. CASE ~flags.init2 /\ ~flags'.init2
    <3>1. CASE pc = "send"
      BY <1>4, <2>1, <2>5, <3>1, CheckFlags DEF SentInv
    <3>2. CASE pc # "send"
      BY <1>4, <2>1, <2>2, <2>5, <3>2, CheckFlags DEF SentInv
    <3> QED BY <3>1, <3>2
  <2> QED BY <2>3, <2>4, <2>5
<1> QED BY <1>1, <1>2, <1>3, <1>4 DEF ClientCall

(* The delay in sending assertions to solver 2 loses none of them: once    *)
(* initialized it is solver 1, provided that no check is cancelled while   *)
(* it sends them (with that, CheckSat_dropped shows one lost) and that     *)
(* timer and Ctrl-C do not race.                                           *)
THEOREM Solver2Follows ==
    ASSUME ~InitInterruptible, ~HandlersRace PROVE Spec => []Solver2UpToDate
<1> DEFINE Inv == CountInv /\ SolverInv /\ SentInv
<1>1. Init => Inv
  <2> SUFFICES ASSUME Init PROVE SentInv
    BY CountInit, SolverInit
  <2>1. EmptySolver.frames[1] = {}
    BY DEF EmptySolver
  <2> QED BY <2>1 DEF Init, SentInv, Sending
<1>2. Inv /\ [Next]_vars => Inv'
  BY CountNext, SolverNext, SentNext
<1>3. Inv => Solver2UpToDate
  BY DEF SentInv, Solver2UpToDate
<1> QED BY <1>1, <1>2, <1>3, PTL DEF Spec

-----------------------------------------------------------------------------
(* The names that are passed to the solvers as assumptions.                *)

(***************************************************************************)
(* Names and named assertions come and go together: a name belongs to an   *)
(* assertion in a frame not younger than the name, and a named assertion   *)
(* of a frame to a name given before the next push.                        *)
(***************************************************************************)
NamesAsserted(F, A, L) ==
    \A k \in 1 .. Len(A) : \E n \in Named, j \in 1 .. Len(F) :
        n.name = A[k] /\ Guarded(n) \in F[j] /\ (j > 1 => L[j - 1] < k)

AssertedNames(F, A, L) ==
    \A n \in Named, j \in 1 .. Len(F) : Guarded(n) \in F[j] =>
        \E k \in 1 .. Len(A) : A[k] = n.name /\ (j <= Len(L) => k <= L[j])

NamesInv ==
    /\ NamesAsserted(s1.frames, s1.assumptions, s1.lims)
    /\ AssertedNames(s1.frames, s1.assumptions, s1.lims)

LEMMA NamesLive ==
    ASSUME SolverInv, NamesInv PROVE Range(s1.assumptions) = LiveNames(s1)
<1> DEFINE F == s1.frames
           A == s1.assumptions
           L == s1.lims
<1>1. F \in Seq(SUBSET Clauses) /\ A \in Seq(Literals)
  BY DEF SolverInv, WellFormed, Parts
<1>2. DOMAIN F = 1 .. Len(F) /\ DOMAIN A = 1 .. Len(A)
  BY <1>1
<1>3. ASSUME NEW l \in Range(A) PROVE l \in LiveNames(s1)
  <2>1. PICK k \in 1 .. Len(A) : l = A[k]
    BY <1>2, <1>3 DEF Range
  <2>2. PICK n \in Named, j \in 1 .. Len(F) : n.name = A[k] /\ Guarded(n) \in F[j]
    BY <2>1 DEF NamesInv, NamesAsserted
  <2>3. Guarded(n) \in Holds(s1)
    BY <1>2, <2>2 DEF Holds, Range
  <2> QED BY <2>1, <2>2, <2>3 DEF LiveNames
<1>4. ASSUME NEW l \in LiveNames(s1) PROVE l \in Range(A)
  <2>1. PICK n \in Named : Guarded(n) \in Holds(s1) /\ l = n.name
    BY <1>4 DEF LiveNames
  <2>2. PICK j \in 1 .. Len(F) : Guarded(n) \in F[j]
    BY <1>2, <2>1 DEF Holds, Range
  <2>3. PICK k \in 1 .. Len(A) : A[k] = n.name
    BY <2>2 DEF NamesInv, AssertedNames
  <2> QED BY <1>2, <2>1, <2>3 DEF Range
<1> QED BY <1>3, <1>4

(* Guarded assertions differ from all others, and have one name.           *)
LEMMA GuardedFacts ==
    ASSUME NEW n \in Named
    PROVE  /\ Guarded(n) \notin Formulas
           /\ \A m \in Named : Guarded(m) = Guarded(n) => m.name = n.name
<1>1. -n.name \in Guarded(n) /\ n.name \in Literals
  BY CheckSatAssumption DEF Guarded
<1>2. Guarded(n) \notin Formulas
  BY <1>1, NamesAssumption
<1>3. ASSUME NEW m \in Named, Guarded(m) = Guarded(n) PROVE m.name = n.name
  <2>1. -n.name \in m.clause \cup {-m.name}
    BY <1>1, <1>3 DEF Guarded
  <2>2. -n.name \notin m.clause
    BY NamesAssumption
  <2>3. \A l \in Literals : l \in Int
    BY VarsAssumption DEF Literals
  <2>4. n.name \in Int /\ m.name \in Int /\ -n.name = -m.name
    BY <1>1, <2>1, <2>2, <2>3, CheckSatAssumption
  <2> QED BY <2>4
<1> QED BY <1>2, <1>3

(* The frames G are those of F with f in the last one.                     *)
Extends(G, F, f) ==
    /\ Len(G) = Len(F)
    /\ \A j \in 1 .. Len(F) : \A c : c \in G[j] <=> c \in F[j] \/ (j = Len(F) /\ c = f)

LEMMA ExtendFacts ==
    ASSUME NEW F \in Seq(SUBSET Clauses), Len(F) > 0, NEW f \in Clauses
    PROVE  Extends([F EXCEPT ![Len(F)] = F[Len(F)] \cup {f}], F, f)
<1> DEFINE x == F[Len(F)] \cup {f}
           G == [F EXCEPT ![Len(F)] = x]
<1>1. x \in SUBSET Clauses /\ Len(F) \in 1 .. Len(F)
  OBVIOUS
<1> HIDE DEF x
<1>2. Len(G) = Len(F) /\ \A j \in 1 .. Len(F) : G[j] = IF j = Len(F) THEN x ELSE F[j]
  BY <1>1, UpdateFacts
<1> HIDE DEF G
<1>3. Extends(G, F, f)
  BY <1>2 DEF Extends, x
<1> QED BY <1>3 DEF G, x

LEMMA NamesAssert ==
    ASSUME NEW F, NEW A, NEW L, NamesAsserted(F, A, L), AssertedNames(F, A, L),
           NEW f \in Formulas, NEW G, Extends(G, F, f)
    PROVE  NamesAsserted(G, A, L) /\ AssertedNames(G, A, L)
<1>1. \A n \in Named, j \in 1 .. Len(F) : Guarded(n) \in G[j] <=> Guarded(n) \in F[j]
  BY GuardedFacts DEF Extends
<1> QED BY <1>1 DEF NamesAsserted, AssertedNames, Extends

LEMMA NamesAssertNamed ==
    ASSUME NEW F, NEW A, NEW L, Parts(F, A, L), NamesAsserted(F, A, L), AssertedNames(F, A, L),
           NEW n \in Named, NEW G, Extends(G, F, Guarded(n)),
           NEW B, Len(B) = Len(A) + 1, B[Len(A) + 1] = n.name, \A j \in 1 .. Len(A) : B[j] = A[j]
    PROVE  NamesAsserted(G, B, L) /\ AssertedNames(G, B, L)
<1> DEFINE g == Guarded(n)
<1>1. /\ Len(F) \in 1 .. Len(F) /\ Len(A) \in Nat /\ Len(F) = Len(L) + 1
      /\ L \in Seq(Nat) /\ Len(L) \in Nat
  BY DEF Parts
<1>2. NamesAsserted(G, B, L)
  <2> SUFFICES ASSUME NEW k \in 1 .. Len(B)
               PROVE  \E m \in Named, j \in 1 .. Len(G) :
                         m.name = B[k] /\ Guarded(m) \in G[j] /\ (j > 1 => L[j - 1] < k)
    BY DEF NamesAsserted
  <2>1. CASE k \in 1 .. Len(A)
    <3>1. PICK m \in Named, j \in 1 .. Len(F) :
            m.name = A[k] /\ Guarded(m) \in F[j] /\ (j > 1 => L[j - 1] < k)
      BY <2>1 DEF NamesAsserted
    <3>2. Guarded(m) \in G[j] /\ m.name = B[k] /\ j \in 1 .. Len(G)
      BY <2>1, <3>1 DEF Extends
    <3> QED BY <3>1, <3>2
  <2>2. CASE k = Len(A) + 1
    <3>1. Len(F) > 1 => L[Len(F) - 1] < k
      <4> SUFFICES ASSUME Len(F) > 1 PROVE L[Len(F) - 1] < k
        OBVIOUS
      <4>1. Len(F) - 1 = Len(L) /\ Len(L) \in 1 .. Len(L)
        BY <1>1
      <4>2. L[Len(L)] \in Nat /\ L[Len(L)] <= Len(A)
        BY <1>1, <4>1 DEF Parts
      <4> QED BY <1>1, <2>2, <4>1, <4>2
    <3>2. g \in G[Len(F)] /\ B[k] = n.name /\ Len(F) \in 1 .. Len(G)
      BY <1>1, <2>2 DEF Extends
    <3> QED BY <3>1, <3>2
  <2> QED BY <1>1, <2>1, <2>2
<1>3. AssertedNames(G, B, L)
  <2> SUFFICES ASSUME NEW m \in Named, NEW j \in 1 .. Len(G), Guarded(m) \in G[j]
               PROVE  \E k \in 1 .. Len(B) : B[k] = m.name /\ (j <= Len(L) => k <= L[j])
    BY DEF AssertedNames
  <2>1. CASE Guarded(m) \in F[j]
    <3>1. PICK k \in 1 .. Len(A) : A[k] = m.name /\ (j <= Len(L) => k <= L[j])
      BY <2>1 DEF AssertedNames, Extends
    <3>2. k \in 1 .. Len(B) /\ B[k] = m.name
      BY <1>1, <3>1
    <3> QED BY <3>1, <3>2
  <2>2. CASE Guarded(m) \notin F[j]
    <3>1. j = Len(F) /\ Guarded(m) = g
      BY <2>2 DEF Extends
    <3>2. m.name = n.name
      BY <3>1, GuardedFacts
    <3>3. ~(j <= Len(L)) /\ Len(A) + 1 \in 1 .. Len(B)
      BY <1>1, <3>1
    <3> QED BY <3>2, <3>3
  <2> QED BY <2>1, <2>2
<1> QED BY <1>2, <1>3

LEMMA NamesPush ==
    ASSUME NEW F, NEW A, NEW L, Parts(F, A, L), NamesAsserted(F, A, L), AssertedNames(F, A, L),
           NEW G, G = Append(F, {}), NEW M, M = Append(L, Len(A))
    PROVE  NamesAsserted(G, A, M) /\ AssertedNames(G, A, M)
<1>1. /\ F \in Seq(SUBSET Clauses) /\ {} \in SUBSET Clauses /\ Len(F) \in Nat /\ Len(F) = Len(L) + 1
      /\ L \in Seq(Nat) /\ Len(L) \in Nat /\ Len(A) \in Nat
  BY DEF Parts
<1>2. Len(G) = Len(F) + 1 /\ G[Len(F) + 1] = {} /\ \A j \in 1 .. Len(F) : G[j] = F[j]
  BY <1>1, AppendFacts
<1>3. Len(M) = Len(L) + 1 /\ M[Len(L) + 1] = Len(A) /\ \A j \in 1 .. Len(L) : M[j] = L[j]
  BY <1>1, AppendFacts
<1>4. NamesAsserted(G, A, M)
  <2> SUFFICES ASSUME NEW k \in 1 .. Len(A)
               PROVE  \E m \in Named, j \in 1 .. Len(G) :
                         m.name = A[k] /\ Guarded(m) \in G[j] /\ (j > 1 => M[j - 1] < k)
    BY DEF NamesAsserted
  <2>1. PICK m \in Named, j \in 1 .. Len(F) :
          m.name = A[k] /\ Guarded(m) \in F[j] /\ (j > 1 => L[j - 1] < k)
    BY DEF NamesAsserted
  <2>2. j \in 1 .. Len(G) /\ (j > 1 => j - 1 \in 1 .. Len(L))
    BY <1>1, <1>2
  <2>3. Guarded(m) \in G[j] /\ (j > 1 => M[j - 1] < k)
    BY <1>2, <1>3, <2>1, <2>2
  <2> QED BY <2>1, <2>2, <2>3
<1>5. AssertedNames(G, A, M)
  <2> SUFFICES ASSUME NEW m \in Named, NEW j \in 1 .. Len(G), Guarded(m) \in G[j]
               PROVE  \E k \in 1 .. Len(A) : A[k] = m.name /\ (j <= Len(M) => k <= M[j])
    BY DEF AssertedNames
  <2>1. j \in 1 .. Len(F) /\ Guarded(m) \in F[j]
    BY <1>1, <1>2
  <2>2. PICK k \in 1 .. Len(A) : A[k] = m.name /\ (j <= Len(L) => k <= L[j])
    BY <2>1 DEF AssertedNames
  <2>3. k <= M[j]
    <3>1. CASE j \in 1 .. Len(L)
      BY <1>3, <2>2, <3>1
    <3>2. CASE j = Len(L) + 1
      BY <1>1, <1>3, <3>2
    <3> QED BY <1>1, <2>1, <3>1, <3>2
  <2> QED BY <2>2, <2>3
<1> QED BY <1>4, <1>5

(* The first n elements of q.                                              *)
FirstOf(p, q, n) == Len(p) = n /\ \A j \in 1 .. n : p[j] = q[j]

LEMMA NamesPop ==
    ASSUME NEW F, NEW A, NEW L, Parts(F, A, L), NamesAsserted(F, A, L), AssertedNames(F, A, L),
           NEW m, m + 1 \in 1 .. Len(L), m \in Nat,
           NEW G, FirstOf(G, F, m + 1), NEW B, FirstOf(B, A, L[m + 1]), NEW M, FirstOf(M, L, m)
    PROVE  NamesAsserted(G, B, M) /\ AssertedNames(G, B, M)
<1> USE DEF FirstOf
<1>1. /\ Len(A) \in Nat /\ Len(F) = Len(L) + 1 /\ L \in Seq(Nat) /\ Len(L) \in Nat
      /\ L[m + 1] \in Nat /\ L[m + 1] <= Len(A)
  BY DEF Parts
<1>2. NamesAsserted(G, B, M)
  <2> SUFFICES ASSUME NEW k \in 1 .. Len(B)
               PROVE  \E n \in Named, j \in 1 .. Len(G) :
                         n.name = B[k] /\ Guarded(n) \in G[j] /\ (j > 1 => M[j - 1] < k)
    BY DEF NamesAsserted
  <2>1. k \in 1 .. Len(A) /\ k <= L[m + 1] /\ B[k] = A[k]
    BY <1>1
  <2>2. PICK n \in Named, j \in 1 .. Len(F) :
          n.name = A[k] /\ Guarded(n) \in F[j] /\ (j > 1 => L[j - 1] < k)
    BY <2>1 DEF NamesAsserted
  <2>3. j \in 1 .. m + 1
    <3> SUFFICES ASSUME j > m + 1 PROVE FALSE
      BY <1>1
    <3>1. j - 1 \in 1 .. Len(L) /\ m + 1 <= j - 1
      BY <1>1
    <3>2. L[m + 1] <= L[j - 1] /\ L[j - 1] \in Nat
      BY <1>1, <3>1 DEF Parts
    <3>3. L[j - 1] < k /\ k \in Nat
      BY <1>1, <2>1, <2>2
    <3>4. \A a, b, c \in Nat : ~(a <= b /\ b < c /\ c <= a)
      OBVIOUS
    <3>5. L[m + 1] \in Nat /\ k <= L[m + 1]
      BY <1>1, <2>1
    <3> QED BY ONLY <3>2, <3>3, <3>4, <3>5
  <2>4. j > 1 => M[j - 1] = L[j - 1]
    BY <2>3
  <2> QED BY <2>1, <2>2, <2>3, <2>4
<1>3. AssertedNames(G, B, M)
  <2> SUFFICES ASSUME NEW n \in Named, NEW j \in 1 .. Len(G), Guarded(n) \in G[j]
               PROVE  \E k \in 1 .. Len(B) : B[k] = n.name /\ (j <= Len(M) => k <= M[j])
    BY DEF AssertedNames
  <2>1. j \in 1 .. Len(F) /\ j \in 1 .. Len(L) /\ Guarded(n) \in F[j] /\ j <= m + 1
    BY <1>1
  <2>2. PICK k \in 1 .. Len(A) : A[k] = n.name /\ k <= L[j]
    BY <2>1 DEF AssertedNames
  <2>3. L[j] <= L[m + 1] /\ L[j] \in Nat
    BY <1>1, <2>1 DEF Parts
  <2>4. k \in 1 .. L[m + 1]
    BY <1>1, <2>2, <2>3
  <2>5. j <= m => M[j] = L[j]
    BY <2>1
  <2> QED BY <2>2, <2>4, <2>5
<1> QED BY <1>2, <1>3

LEMMA NamesPopBy ==
    ASSUME NEW F, NEW A, NEW L, Parts(F, A, L), NamesAsserted(F, A, L), AssertedNames(F, A, L),
           NEW k \in 1 .. Len(L)
    PROVE  LET G == SubSeq(F, 1, Len(F) - k)
               B == SubSeq(A, 1, L[Len(L) - k + 1])
               M == SubSeq(L, 1, Len(L) - k)
           IN  NamesAsserted(G, B, M) /\ AssertedNames(G, B, M)
<1> DEFINE m == Len(L) - k
           n == L[m + 1]
           G == SubSeq(F, 1, m + 1)
           B == SubSeq(A, 1, n)
           M == SubSeq(L, 1, m)
<1>0. A \in Seq(Literals) /\ F \in Seq(SUBSET Clauses)
  BY DEF Parts
<1>1. Len(L) \in Nat /\ k \in Nat /\ L \in Seq(Nat) /\ Len(F) = Len(L) + 1 /\ Len(A) \in Nat
  BY DEF Parts
<1>2. /\ m \in Nat /\ m \in 0 .. Len(L) /\ m + 1 \in 1 .. Len(L)
      /\ Len(F) - k = m + 1 /\ m + 1 \in 0 .. Len(F)
  BY <1>1
<1>3. n \in 0 .. Len(A)
  <2>1. n \in Nat
    <3>1. ASSUME NEW q \in Seq(Nat), NEW i \in 1 .. Len(q) PROVE q[i] \in Nat
      OBVIOUS
    <3> HIDE DEF m
    <3> QED BY <1>1, <1>2, <3>1
  <2>2. n <= Len(A)
    BY <1>2 DEF Parts
  <2> QED BY <1>1, <2>1, <2>2
<1>5. FirstOf(G, F, m + 1)
  BY <1>0, <1>2, PrefixFacts DEF FirstOf
<1>6. FirstOf(B, A, n)
  BY <1>0, <1>3, PrefixFacts DEF FirstOf
<1>7. FirstOf(M, L, m)
  BY <1>1, <1>2, PrefixFacts DEF FirstOf
<1>8. NamesAsserted(G, B, M) /\ AssertedNames(G, B, M)
  <2> HIDE DEF m, G, B, M
  <2> QED BY <1>2, <1>5, <1>6, <1>7, NamesPop
<1>9. Len(F) - k = m + 1
  BY <1>2
<1> QED BY <1>8, <1>9

LEMMA NamesInit == Init => NamesInv
<1> SUFFICES ASSUME Init PROVE NamesInv
  OBVIOUS
<1> DEFINE F == <<{}>>
           E == <<>>
<1>1. s1.frames = F /\ s1.assumptions = E /\ s1.lims = E
  BY DEF Init, EmptySolver
<1>2. Len(F) = 1 /\ F[1] = {} /\ Len(E) = 0
  OBVIOUS
<1> HIDE DEF F, E
<1>3. NamesAsserted(F, E, E) /\ AssertedNames(F, E, E)
  BY <1>2 DEF NamesAsserted, AssertedNames
<1> QED BY <1>1, <1>3 DEF NamesInv

LEMMA NamesNext == SolverInv /\ NamesInv /\ [Next]_vars => NamesInv'
<1> SUFFICES ASSUME SolverInv, NamesInv, [Next]_vars PROVE NamesInv'
  OBVIOUS
<1> DEFINE F == s1.frames
           A == s1.assumptions
           L == s1.lims
<1>0. /\ Parts(F, A, L) /\ WellFormed(s1) /\ F \in Seq(SUBSET Clauses) /\ Len(F) > 0
      /\ NamesAsserted(F, A, L) /\ AssertedNames(F, A, L)
  BY DEF SolverInv, WellFormed, Parts, NamesInv
<1>1. ASSUME NEW f \in Formulas, AssertExpr(f) PROVE NamesInv'
  <2>1. f \in Clauses /\ s1' = NaAssert(s1, f)
    BY <1>1, CheckSatAssumption DEF AssertExpr
  <2>2. /\ s1'.frames = [F EXCEPT ![Len(F)] = F[Len(F)] \cup {f}]
        /\ s1'.assumptions = A /\ s1'.lims = L
    BY <1>0, <2>1, NaAssertShape DEF SameShape
  <2>3. Extends(s1'.frames, F, f)
    <3> HIDE DEF F
    <3> QED BY <1>0, <2>1, <2>2, ExtendFacts
  <2>4. NamesAsserted(s1'.frames, A, L) /\ AssertedNames(s1'.frames, A, L)
    <3> HIDE DEF F, A, L
    <3> QED BY <1>0, <2>3, NamesAssert
  <2> QED BY <2>2, <2>4 DEF NamesInv
<1>2. ASSUME NEW n \in Named, AssertNamed(n) PROVE NamesInv'
  <2> DEFINE t == NaAssert(s1, Guarded(n))
  <2>1. Guarded(n) \in Clauses /\ n.name \in Literals
    BY NamedFacts
  <2>2. /\ WellFormed(t) /\ t.frames = [F EXCEPT ![Len(F)] = F[Len(F)] \cup {Guarded(n)}]
        /\ t.assumptions = A /\ t.lims = L
    BY <1>0, <2>1, NaAssertShape DEF SameShape
  <2>3. s1' = [t EXCEPT !.assumptions = Append(@, n.name)]
    BY <1>2 DEF AssertNamed, NaAssertNamed
  <2>4. s1'.frames = t.frames /\ s1'.assumptions = Append(A, n.name) /\ s1'.lims = L
    <3> HIDE DEF t, A, L
    <3> QED BY <2>1, <2>2, <2>3, AppendNameShape
  <2>5. Extends(s1'.frames, F, Guarded(n))
    <3> HIDE DEF t, F
    <3> QED BY <1>0, <2>1, <2>2, <2>4, ExtendFacts
  <2>6. /\ Len(s1'.assumptions) = Len(A) + 1 /\ s1'.assumptions[Len(A) + 1] = n.name
        /\ \A j \in 1 .. Len(A) : s1'.assumptions[j] = A[j]
    BY <1>0, <2>1, <2>4, AppendFacts DEF Parts
  <2>7. NamesAsserted(s1'.frames, s1'.assumptions, L) /\ AssertedNames(s1'.frames, s1'.assumptions, L)
    <3> HIDE DEF F, A, L
    <3> QED BY <1>0, <2>5, <2>6, NamesAssertNamed
  <2> QED BY <2>4, <2>7 DEF NamesInv
<1>3. CASE Push
  <2>1. /\ s1'.frames = Append(F, {}) /\ s1'.assumptions = A /\ s1'.lims = Append(L, Len(A))
    BY <1>0, <1>3, NaPushShape DEF Push
  <2>2. NamesAsserted(s1'.frames, A, s1'.lims) /\ AssertedNames(s1'.frames, A, s1'.lims)
    <3> HIDE DEF F, A, L
    <3> QED BY <1>0, <2>1, NamesPush
  <2> QED BY <2>1, <2>2 DEF NamesInv
<1>4. ASSUME NEW k \in 1 .. Len(s1.lims), Pop(k) PROVE NamesInv'
  <2>1. /\ s1'.frames = SubSeq(F, 1, Len(F) - k)
        /\ s1'.assumptions = SubSeq(A, 1, L[Len(L) - k + 1])
        /\ s1'.lims = SubSeq(L, 1, Len(L) - k)
    BY <1>0, <1>4, NaPopShape DEF Pop
  <2>2. k \in 1 .. Len(L)
    OBVIOUS
  <2> HIDE DEF F, A, L
  <2> DEFINE G == SubSeq(F, 1, Len(F) - k)
             B == SubSeq(A, 1, L[Len(L) - k + 1])
             M == SubSeq(L, 1, Len(L) - k)
  <2>3. NamesAsserted(G, B, M) /\ AssertedNames(G, B, M)
    BY <1>0, <2>2, NamesPopBy
  <2> HIDE DEF G, B, M
  <2> QED BY <2>1, <2>3 DEF NamesInv, G, B, M
<1>5. CASE \E B \in AssumptionSets : Check(B)
  BY <1>5 DEF Check, solvers, NamesInv
<1>6. CASE ~ClientCall
  <2>1. s1' = s1
    BY <1>6, CheckFrame DEF SendAssertion
  <2> QED BY <2>1 DEF NamesInv
<1> QED BY <1>1, <1>2, <1>3, <1>4, <1>5, <1>6 DEF ClientCall
-----------------------------------------------------------------------------
(* The combined solver implements one incremental solver.                  *)

Unanswered == {"limit", "check", "send", "solver2", "stop_aux", "join_aux", "combine", "solver1"}

Searched == {"stop_aux", "join_aux", "combine"}

(* The answer r with unsat core k is right for solver 1.                   *)
Right(r, k) ==
    /\ r = "sat" => Satisfiable(Holds(s1) \cup Units(asked))
    /\ r = "unsat" => k \subseteq asked /\ ~Satisfiable(Holds(s1) \cup Units(k))

(***************************************************************************)
(* Until a check answers nothing is reported.  A search of solver 2 finds  *)
(* it initialized, and its result is right for solver 1; solver 1 itself   *)
(* is searched only without assumptions, which it would ignore; and        *)
(* m_use_solver1_results tells which of the two was searched last.         *)
(***************************************************************************)
AnswerInv ==
    /\ pc \in Unanswered => answer = "none" /\ asked = given \cup LiveNames(s1)
    /\ flags.inc /\ pc # "send" => flags.init2
    /\ pc = "solver2" => flags.init2
    /\ pc \in {"send", "solver2"} \cup Searched => ~flags.use1
    /\ pc = "solver1" => flags.use1 /\ ~MustUseSolver2
    /\ pc \in {"stop_aux", "join_aux"} \/ eh["aux"] # "dead" => ~MustUseSolver2
    /\ pc \in Searched => result \in {"sat", "unsat", "unknown", "exception"} /\ Right(result, core2)

LEMMA AnswersRight ==
    ASSUME NEW cs, NEW A, NEW a \in Answers(cs, A)
    PROVE  /\ a[1] \in {"sat", "unsat", "unknown"}
           /\ a[1] = "sat" => Satisfiable(cs \cup Units(A))
           /\ a[1] = "unsat" => a[2] \subseteq A /\ ~Satisfiable(cs \cup Units(a[2]))
<1>1. CASE a = <<"unknown", {}>>
  BY <1>1
<1>2. CASE a = <<"sat", {}>> /\ Satisfiable(cs \cup Units(A))
  BY <1>2
<1>3. ASSUME NEW k \in SUBSET A, ~Satisfiable(cs \cup Units(k)), a = <<"unsat", k>>
      PROVE  a[1] = "unsat" /\ a[2] \subseteq A /\ ~Satisfiable(cs \cup Units(a[2]))
  BY <1>3
<1> QED BY <1>1, <1>2, <1>3 DEF Answers

(* Without assumptions and named assertions nothing is assumed.            *)
LEMMA NothingAsked ==
    ASSUME SolverInv, NamesInv, AnswerInv, pc \in Unanswered, ~MustUseSolver2 PROVE asked = {}
<1>1. s1.assumptions = <<>> /\ given = {}
  BY DEF MustUseSolver2
<1>2. Range(s1.assumptions) = {}
  BY <1>1 DEF Range
<1> QED BY <1>1, <1>2, NamesLive DEF AnswerInv

LEMMA AnswerInit == Init => AnswerInv
BY DEF Init, AnswerInv, Unanswered, Searched, Handlers

(* The calls of the client.                                                *)
LEMMA AnswerCall ==
    ASSUME HandlerInv, SolverInv, AnswerInv, ClientCall PROVE AnswerInv'
<1> USE DEF Unanswered, Searched
<1>1. ASSUME NEW A \in AssumptionSets, Check(A) PROVE AnswerInv'
  BY <1>1 DEF Check, Call, solvers, AnswerInv, HandlerInv, ThreadInv, Handlers
<1>2. CASE ~\E A \in AssumptionSets : Check(A)
  <2>1. pc = "idle" /\ pc' = "idle" /\ eh' = eh
    BY <1>2, UpdateFrame
  <2>2. flags'.inc => flags'.init2
    BY <1>2, <2>1 DEF ClientCall, AssertExpr, AssertNamed, Push, Pop, SwitchIncMode, SolverInv, Flags,
                      AnswerInv
  <2> QED BY <2>1, <2>2 DEF AnswerInv, HandlerInv, ThreadInv
<1> QED BY <1>1, <1>2 DEF ClientCall

(* The steps of the check, the searches aside.                             *)
LEMMA AnswerMain ==
    ASSUME HandlerInv, SolverInv, AnswerInv, MainStep PROVE AnswerInv'
<1> USE DEF Unanswered, Searched, AnswerInv, HandlerInv, ThreadInv, Handlers
<1>1. CASE CheckWithSolver2
  BY <1>1 DEF CheckWithSolver2, Main, Executed, SolverInv, Flags, MustUseSolver2
<1>2. CASE CheckIncremental
  BY <1>2 DEF CheckIncremental, Main, Executed, SolverInv, Flags, MustUseSolver2
<1>3. CASE CheckNonIncremental
  BY <1>3 DEF CheckNonIncremental, Main, UseSolver1, SolverInv, Flags, MustUseSolver2
<1>4. ASSUME NEW f \in todo, SendAssertion(f) PROVE AnswerInv'
  BY <1>4 DEF SendAssertion, Main, MustUseSolver2
<1>5. CASE AssertionsSent
  BY <1>5 DEF AssertionsSent, Main, SolverInv, Flags, MustUseSolver2
<1>6. CASE StopAux
  BY <1>6 DEF StopAux, Main, solvers, MustUseSolver2, Right
<1>7. CASE JoinAux
  BY <1>7 DEF JoinAux, Main, UseSolver1, SolverInv, Flags, MustUseSolver2
<1>8. CASE Combine
  BY <1>8 DEF Combine, Main, UseSolver1, SolverInv, Flags, MustUseSolver2
<1>9. CASE LimitPush \/ LimitPop \/ StopCmd \/ JoinCmd
  BY <1>9 DEF LimitPush, LimitPop, StopCmd, JoinCmd, Main, solvers, MustUseSolver2
<1> QED BY <1>1, <1>2, <1>3, <1>4, <1>5, <1>6, <1>7, <1>8, <1>9 DEF MainStep

LEMMA AnswerNext ==
    HandlerInv /\ SolverInv /\ SentInv /\ NamesInv /\ AnswerInv /\ [Next]_vars => AnswerInv'
<1> SUFFICES ASSUME HandlerInv, SolverInv, SentInv, NamesInv, AnswerInv, [Next]_vars PROVE AnswerInv'
  OBVIOUS
<1> USE DEF Unanswered, Searched
<1>1. CASE Solver2Answers
  <2>1. PICK a \in Answers(Holds(s2), given \cup Range(s2.assumptions)) :
          result' = a[1] /\ core2' = a[2]
    BY <1>1 DEF Solver2Answers
  <2>2. pc = "solver2" /\ pc' = AfterSolver2 /\ UNCHANGED <<params, s1, s2, flags, given, asked, answer, eh>>
    BY <1>1 DEF Solver2Answers, Main, solvers
  <2>3. s2 = s1 /\ given \cup Range(s2.assumptions) = asked
    BY <2>2, NamesLive DEF AnswerInv, SentInv
  <2>4. /\ a[1] \in {"sat", "unsat", "unknown"}
        /\ a[1] = "sat" => Satisfiable(Holds(s1) \cup Units(asked))
        /\ a[1] = "unsat" => a[2] \subseteq asked /\ ~Satisfiable(Holds(s1) \cup Units(a[2]))
    BY <2>1, <2>3, AnswersRight
  <2>5. Right(a[1], a[2])'
    BY <2>2, <2>4 DEF Right
  <2> QED BY <2>1, <2>2, <2>4, <2>5 DEF AnswerInv, AfterSolver2, MustUseSolver2, Right
<1>2. CASE Solver2Throws
  BY <1>2 DEF Solver2Throws, Main, solvers, AnswerInv, AfterSolver2, MustUseSolver2, Right
<1>3. CASE Solver1Answers
  BY <1>3 DEF Solver1Answers, Main, solvers, AnswerInv, MustUseSolver2, HandlerInv, ThreadInv
<1>4. CASE ThreadStep \/ CtrlC
  <2>1. UNCHANGED <<params, s1, s2, flags, pc, given, asked, result, core2, answer>>
    BY <1>4 DEF ThreadStep, TimerStarts, TimerStops, TimerExpires, TimerRaises, TimerTests,
                CtrlC, CtrlCRaises, Thread, solvers
  <2>2. eh'["aux"] # "dead" => eh["aux"] # "dead"
    BY <1>4 DEF ThreadStep, TimerStarts, TimerStops, TimerExpires, TimerRaises, TimerTests,
                CtrlC, CtrlCRaises, Thread, Raise, HandlerInv, ThreadInv, Handlers
  <2> QED BY <2>1, <2>2 DEF AnswerInv, MustUseSolver2, Right
<1>5. CASE Idle \/ UNCHANGED vars
  BY <1>5 DEF Idle, vars, solvers, AnswerInv, MustUseSolver2, Right
<1> QED BY <1>1, <1>2, <1>3, <1>4, <1>5, AnswerCall, AnswerMain DEF Next, Search

(* The abstract solver speaks of the same clauses, those of solver 1.      *)
LEMMA SolverTerms ==
    ASSUME SolverInv
    PROVE  /\ \A cs : Solver!Satisfiable(cs) <=> Satisfiable(cs)
           /\ \A ls : Solver!Units(ls) = Units(ls)
           /\ Solver!Asserted = Holds(s1)
<1>1. \A cs : Solver!Satisfiable(cs) <=> Satisfiable(cs)
  BY DEF Solver!Satisfiable, Satisfiable, Solver!Valuations, Valuations, Solver!Satisfies, Satisfies
<1>2. \A ls : Solver!Units(ls) = Units(ls)
  BY DEF Solver!Units, Units
<1>3. Solver!Asserted = Holds(s1)
  BY DEF Solver!Asserted, Holds, Range
<1> QED BY <1>1, <1>2, <1>3

(* The unsat core that combined_solver returns.                            *)
Core == IF answer # "unsat" \/ flags.use1 THEN {} ELSE core2

LEMMA SolverStutter ==
    ASSUME UNCHANGED <<s1, asked, answer, Core>> PROVE UNCHANGED Solver!vars
BY DEF Solver!vars, Core

(* A check answers rightly, with the core of the solver searched last.     *)
LEMMA SolverAnswer ==
    ASSUME SolverInv, UNCHANGED <<s1, asked>>, answer = "none",
           answer' \in {"sat", "unsat", "unknown"}, Right(answer', Core')
    PROVE  Solver!Next
<1>1. Core' = IF answer' = "unsat" THEN Core' ELSE {}
  BY DEF Core
<1>2. CASE answer' = "sat"
  <2>1. Solver!AnswerSat
    BY <1>1, <1>2, SolverTerms DEF Solver!AnswerSat, Right, Core
  <2> QED BY <2>1 DEF Solver!Next
<1>3. CASE answer' = "unsat"
  <2>1. Solver!AnswerUnsat
    BY <1>3, SolverTerms DEF Solver!AnswerUnsat, Right, Core
  <2> QED BY <2>1 DEF Solver!Next
<1>4. CASE answer' = "unknown"
  <2>1. Solver!AnswerUnknown
    BY <1>1, <1>4 DEF Solver!AnswerUnknown, Core
  <2> QED BY <2>1 DEF Solver!Next
<1> QED BY <1>2, <1>3, <1>4

LEMMA SolverInitial == Init => Solver!Init
BY DEF Init, Solver!Init, EmptySolver

LEMMA SolverCall ==
    ASSUME SolverInv, ClientCall PROVE Solver!Next
<1> USE DEF SolverInv
<1>1. ASSUME NEW f \in Formulas, AssertExpr(f) PROVE Solver!Next
  <2>1. f \in Clauses /\ s1' = NaAssert(s1, f) /\ answer' = "none" /\ asked' = asked
    BY <1>1, CheckSatAssumption DEF AssertExpr, Update
  <2>2. Solver!Assert(f)
    BY <2>1, NaAssertShape DEF Solver!Assert, Solver!Forget
  <2> QED BY <2>2 DEF Solver!Next
<1>2. ASSUME NEW n \in Named, AssertNamed(n) PROVE Solver!Next
  <2> DEFINE t == NaAssert(s1, Guarded(n))
  <2>1. Guarded(n) \in Clauses /\ n.name \in Literals
    BY NamedFacts
  <2>2. WellFormed(t) /\ t.frames
          = [s1.frames EXCEPT ![Len(s1.frames)] = s1.frames[Len(s1.frames)] \cup {Guarded(n)}]
    BY <2>1, NaAssertShape
  <2>3. s1' = [t EXCEPT !.assumptions = Append(@, n.name)] /\ answer' = "none" /\ asked' = asked
    BY <1>2 DEF AssertNamed, NaAssertNamed, Update
  <2>4. s1'.frames = t.frames
    <3> HIDE DEF t
    <3> QED BY <2>1, <2>2, <2>3, AppendNameShape
  <2>5. Solver!Assert(Guarded(n))
    BY <2>2, <2>3, <2>4 DEF Solver!Assert, Solver!Forget
  <2> QED BY <2>5 DEF Solver!Next
<1>3. CASE Push
  <2>1. s1'.frames = Append(s1.frames, {}) /\ answer' = "none" /\ asked' = asked
    BY <1>3, NaPushShape DEF Push, Update
  <2>2. Solver!Push
    BY <2>1 DEF Solver!Push, Solver!Forget
  <2> QED BY <2>2 DEF Solver!Next
<1>4. ASSUME NEW k \in 1 .. Len(s1.lims), Pop(k) PROVE Solver!Next
  <2>1. s1'.frames = SubSeq(s1.frames, 1, Len(s1.frames) - k) /\ answer' = "none" /\ asked' = asked
    BY <1>4, NaPopShape DEF Pop, Update
  <2>2. Solver!Pop(k)
    BY <2>1 DEF Solver!Pop, Solver!Forget
  <2>3. k \in 1 .. (Len(s1.frames) - 1)
    BY DEF WellFormed, Parts
  <2> QED BY <2>2, <2>3 DEF Solver!Next
<1>5. ASSUME NEW A \in AssumptionSets, Check(A) PROVE Solver!Next
  <2> DEFINE B == A \cup LiveNames(s1)
  <2>1. asked' = B /\ answer' = "none" /\ s1' = s1
    BY <1>5 DEF Check, solvers
  <2>2. LiveNames(s1) \in SUBSET {n.name : n \in Named}
    BY DEF LiveNames
  <2>3. B \in {A \cup N : N \in SUBSET {n.name : n \in Named}}
    BY <2>2
  <2>4. B \in UNION {{C \cup N : N \in SUBSET {n.name : n \in Named}} : C \in AssumptionSets}
    <3> DEFINE G(C) == {C \cup N : N \in SUBSET {n.name : n \in Named}}
    <3>1. B \in G(A)
      BY <2>3
    <3>2. B \in UNION {G(C) : C \in AssumptionSets}
      <4> HIDE DEF G, B
      <4> QED BY <3>1
    <3> QED BY <3>2
  <2>5. Solver!Check(B)
    BY <2>1 DEF Solver!Check, Solver!Forget
  <2> HIDE DEF B
  <2> QED BY <2>4, <2>5 DEF Solver!Next
<1> QED BY <1>1, <1>2, <1>3, <1>4, <1>5 DEF ClientCall

LEMMA SolverStep ==
    ASSUME HandlerInv, SolverInv, NamesInv, AnswerInv, [Next]_vars
    PROVE  [Solver!Next]_(Solver!vars)
<1> USE DEF Unanswered, Searched
<1>1. CASE JoinAux /\ ~Fallback2
  <2>1. /\ pc = "join_aux" /\ answer' = Reported /\ UNCHANGED <<s1, asked, flags, core2>>
    BY <1>1 DEF JoinAux, Main
  <2>2. Right(answer', Core')
    BY <2>1 DEF AnswerInv, Reported, Core, Right
  <2>3. answer = "none" /\ answer' \in {"sat", "unsat", "unknown"}
    BY <2>1 DEF AnswerInv, Reported
  <2> QED BY <2>1, <2>2, <2>3, SolverAnswer
<1>2. CASE Combine /\ pc' = "limit_pop"
  <2>1. /\ pc = "combine" /\ answer' = Reported /\ UNCHANGED <<s1, asked, flags, core2>>
    BY <1>2 DEF Combine, Main
  <2>2. Right(answer', Core')
    BY <2>1 DEF AnswerInv, Reported, Core, Right
  <2>3. answer = "none" /\ answer' \in {"sat", "unsat", "unknown"}
    BY <2>1 DEF AnswerInv, Reported
  <2> QED BY <2>1, <2>2, <2>3, SolverAnswer
<1>3. CASE Solver1Answers
  <2>1. PICK a \in Answers(Holds(s1), {}) : answer' = a[1]
    BY <1>3 DEF Solver1Answers
  <2>2. pc = "solver1" /\ UNCHANGED <<s1, asked, flags>>
    BY <1>3 DEF Solver1Answers, Main, solvers
  <2>3. asked = {} /\ Core' = {} /\ answer = "none"
    BY <2>2, NothingAsked DEF AnswerInv, Core
  <2>4. /\ a[1] \in {"sat", "unsat", "unknown"}
        /\ a[1] = "sat" => Satisfiable(Holds(s1) \cup Units({}))
        /\ a[1] = "unsat" => a[2] = {} /\ ~Satisfiable(Holds(s1) \cup Units(a[2]))
    <3> DEFINE E == {}
    <3>1. a \in Answers(Holds(s1), E)
      BY <2>1
    <3> HIDE DEF E
    <3>2. /\ a[1] \in {"sat", "unsat", "unknown"}
          /\ a[1] = "sat" => Satisfiable(Holds(s1) \cup Units(E))
          /\ a[1] = "unsat" => a[2] \subseteq E /\ ~Satisfiable(Holds(s1) \cup Units(a[2]))
      BY <3>1, AnswersRight
    <3> QED BY <3>2 DEF E
  <2>5. Right(a[1], {})
    BY <2>3, <2>4 DEF Right
  <2> QED BY <2>1, <2>2, <2>3, <2>4, <2>5, SolverAnswer
<1>4. CASE ClientCall
  BY <1>4, SolverCall
<1>5. CASE ~ClientCall /\ ~(JoinAux /\ ~Fallback2) /\ ~(Combine /\ pc' = "limit_pop") /\ ~Solver1Answers
  <2>1. UNCHANGED <<s1, asked, answer>>
    BY <1>5 DEF Next, MainStep, LimitPush, CheckWithSolver2, CheckIncremental, CheckNonIncremental,
                SendAssertion, AssertionsSent, StopAux, JoinAux, Combine, LimitPop, StopCmd, JoinCmd,
                Search, Solver2Answers, Solver2Throws, Main, solvers,
                ThreadStep, TimerStarts, TimerStops, TimerExpires, TimerRaises, TimerTests,
                CtrlC, CtrlCRaises, Thread, Idle, vars
  <2>2. pc \in Unanswered \/ UNCHANGED <<flags, core2>>
    BY <1>5 DEF Next, MainStep, LimitPush, CheckWithSolver2, CheckIncremental, CheckNonIncremental,
                SendAssertion, AssertionsSent, StopAux, JoinAux, Combine, LimitPop, StopCmd, JoinCmd,
                Search, Solver2Answers, Solver2Throws, Main, solvers,
                ThreadStep, TimerStarts, TimerStops, TimerExpires, TimerRaises, TimerTests,
                CtrlC, CtrlCRaises, Thread, Idle, vars
  <2>3. UNCHANGED Core
    BY <2>1, <2>2 DEF AnswerInv, Core
  <2> QED BY <2>1, <2>3, SolverStutter
<1> QED BY <1>1, <1>2, <1>3, <1>4, <1>5

(***************************************************************************)
(* combined_solver under cmd_context::check_sat is one incremental solver: *)
(* its answers and unsat cores are right for what the client has asserted, *)
(* whichever solver gave them, and whatever timed out or was interrupted,  *)
(* unless a check is cancelled while it sends assertions to solver 2, or   *)
(* timer and Ctrl-C race.                                                  *)
(***************************************************************************)
THEOREM Refines ==
    ASSUME ~InitInterruptible, ~HandlersRace PROVE Spec => Implements
<1> DEFINE Inv == CountInv /\ SolverInv /\ SentInv /\ NamesInv /\ AnswerInv
<1>1. Init => Inv
  <2> SUFFICES ASSUME Init PROVE SentInv
    BY CountInit, SolverInit, NamesInit, AnswerInit
  <2>1. EmptySolver.frames[1] = {}
    BY DEF EmptySolver
  <2> QED BY <2>1 DEF Init, SentInv, Sending
<1>2. Inv /\ [Next]_vars => Inv'
  BY CountNext, SolverNext, SentNext, NamesNext, AnswerNext DEF CountInv
<1>3. Inv /\ [Next]_vars => [Solver!Next]_(Solver!vars)
  BY SolverStep DEF CountInv
<1> QED BY <1>1, <1>2, <1>3, SolverInitial, PTL DEF Spec, Implements, Solver!Spec
=============================================================================
