------------------------- MODULE SMTLibProverProofs -------------------------
(***************************************************************************)
(* Proofs about the SMT-LIB prover driver, for every program, every number *)
(* of queries and processes that die at any time.                          *)
(***************************************************************************)
EXTENDS SMTLibProver, TLAPS

Item == Symbol \cup Impl \cup Assertion

Failed == {"Invalid", "TimeOut", "OutOfMemory"}

(* The client is in a call of Verify whose scope is open, or in a query    *)
(* for an unsat core, with its two scopes.                                 *)
InVerify == query.kind = "verify" /\ pc \in {"ping", "check", "labels", "outcome"}

InCore == query.kind = "core" /\ pc \in {"check", "labels", "outcome", "core"}

Depth == IF InCore THEN 3 ELSE IF InVerify THEN 2 ELSE 1

(***************************************************************************)
(* Where the call is, and the local variables of CheckOutcomeCore: its     *)
(* loop goes on only after an answer that is neither valid nor missing.    *)
(***************************************************************************)
ControlInv ==
    /\ sessions \in SUBSET Impl
    /\ pc \in {"idle", "ping", "check", "labels", "outcome", "verified", "core", "crashed", "closed"}
    /\ query \in Query
    /\ errorsLeft \in 0 .. ProverCCLimit
    /\ globalResult \in Outcome
    /\ pc \in {"ping", "verified"} => query.kind = "verify"
    /\ pc = "core" => query.kind = "core"
    /\ pc \notin {"idle", "closed"} => query.number > 0
    /\ pc = "check" => errorsLeft > 0 /\ globalResult # "Valid"
    /\ pc = "labels" => globalResult \in Failed
    /\ pc \in {"outcome", "verified", "core"} /\ globalResult = "Valid" => query.valid
    /\ pc = "verified" => globalResult = "Valid"
    /\ pc = "outcome" /\ globalResult = "Undetermined" => ~proc.alive
    /\ pc \in {"crashed", "closed"} => ~proc.alive

(***************************************************************************)
(* What the process has been told.  The outermost scope of a live process  *)
(* has no assertions.  The VCs in the inner scopes are those of the query  *)
(* under way, and counterexamples are excluded only after one was found.   *)
(***************************************************************************)
Told(p, d, valid, found) ==
    /\ Len(p.frames) = d
    /\ p.frames[1] \subseteq Symbol \cup Impl
    /\ \A n \in 2 .. d : \A a \in p.frames[n] :
          a \in Assertion /\ (a.kind = "vc" => a.valid = valid) /\ (a.kind = "blocking" => found)

Shaped(p, d, valid, found) ==
    /\ p \in Process /\ Len(p.frames) > 0
    /\ p.alive => Told(p, d, valid, found)

Found == pc # "ping" /\ globalResult \in Failed

ProcessInv == Shaped(proc, Depth, query.valid, Found)

(***************************************************************************)
(* DeclCollector opens scopes for a core query only, and these start as    *)
(* copies of the first.  What it knows has been sent with SendCommon, and  *)
(* to the live process.                                                    *)
(***************************************************************************)
KnownInv ==
    /\ known \in Seq(SUBSET (Symbol \cup Impl)) /\ Len(known) > 0
    /\ \A n \in 1 .. Len(known) : known[n] = known[1]
    /\ pc # "crashed" => Len(known) = IF InCore THEN 3 ELSE 1
    /\ common \subseteq Symbol
    /\ known[1] \cap Symbol \subseteq common
    /\ proc.alive => known[1] \cap Symbol \subseteq proc.frames[1]

(***************************************************************************)
(* Each death pays for two lost calls.  A dead process that is to be       *)
(* restarted has at most the call under way left to lose, one whose death  *)
(* is not yet noticed also the next one.                                   *)
(***************************************************************************)
Begun == IF InVerify THEN 1 ELSE 0

Owed ==
    IF proc.alive \/ pc \in {"crashed", "closed"} THEN 0
    ELSE Begun + (IF proc.needsRestart \/ pc = "ping" THEN 0 ELSE 1)

LossInv ==
    /\ deaths \in 0 .. MaxDeaths
    /\ undetermined \in Nat
    /\ undetermined + Owed <= 2 * deaths
    /\ undetermined + Begun <= query.number
    /\ pc = "ping" => ~proc.needsRestart

-----------------------------------------------------------------------------
(* What a command does to the process.                                     *)

(* Nothing changes but the scopes, and these only in a live process.       *)
Same(q, p) ==
    /\ q.alive = p.alive /\ q.needsRestart = p.needsRestart
    /\ p.alive => q.frames[1] = p.frames[1]

LEMMA ProcessFacts ==
    ASSUME NEW p \in Process
    PROVE  /\ p.alive \in BOOLEAN /\ p.needsRestart \in BOOLEAN /\ p.cores \in BOOLEAN
           /\ p.frames \in Seq(SUBSET Item)
BY DEF Process, Item

LEMMA AppendFacts ==
    ASSUME NEW S, NEW F \in Seq(S), NEW x \in S
    PROVE  /\ Append(F, x) \in Seq(S) /\ Len(Append(F, x)) = Len(F) + 1
           /\ Append(F, x)[Len(F) + 1] = x
           /\ \A j \in 1 .. Len(F) : Append(F, x)[j] = F[j]
OBVIOUS

LEMMA UpdateFacts ==
    ASSUME NEW S, NEW F \in Seq(S), Len(F) > 0, NEW x \in S
    PROVE  /\ [F EXCEPT ![Len(F)] = x] \in Seq(S)
           /\ Len([F EXCEPT ![Len(F)] = x]) = Len(F)
           /\ \A j \in 1 .. Len(F) : [F EXCEPT ![Len(F)] = x][j] = IF j = Len(F) THEN x ELSE F[j]
OBVIOUS

LEMMA UpdateOneFacts ==
    ASSUME NEW S, NEW F \in Seq(S), Len(F) = 1, NEW x \in S
    PROVE  /\ [F EXCEPT ![1] = x] \in Seq(S) /\ Len([F EXCEPT ![1] = x]) = 1
           /\ [F EXCEPT ![1] = x][1] = x
OBVIOUS

LEMMA ConcatFacts ==
    ASSUME NEW S, NEW F \in Seq(S), NEW G \in Seq(S)
    PROVE  /\ F \o G \in Seq(S) /\ Len(F \o G) = Len(F) + Len(G)
           /\ \A n \in 1 .. Len(F) + Len(G) : (F \o G)[n] = IF n <= Len(F) THEN F[n] ELSE G[n - Len(F)]
OBVIOUS

LEMMA FrontFacts ==
    ASSUME NEW S, NEW F \in Seq(S), Len(F) > 0
    PROVE  /\ Front(F) \in Seq(S) /\ Len(Front(F)) = Len(F) - 1
           /\ \A j \in 1 .. Len(F) - 1 : Front(F)[j] = F[j]
<1>1. Len(F) \in Nat /\ Len(F) - 1 \in 0 .. Len(F)
  OBVIOUS
<1>2. \A m \in 0 .. Len(F) : /\ SubSeq(F, 1, m) \in Seq(S) /\ Len(SubSeq(F, 1, m)) = m
                             /\ \A j \in 1 .. m : SubSeq(F, 1, m)[j] = F[j]
  OBVIOUS
<1> QED BY <1>1, <1>2 DEF Front

LEMMA TellFacts ==
    ASSUME NEW p \in Process, Len(p.frames) > 0, NEW items \in SUBSET Item
    PROVE  /\ Tell(p, items) \in Process /\ Len(Tell(p, items).frames) = Len(p.frames)
           /\ Tell(p, items).alive = p.alive /\ Tell(p, items).needsRestart = p.needsRestart
           /\ \A j \in 1 .. Len(p.frames) : Tell(p, items).frames[j] =
                IF j = Len(p.frames) /\ p.alive THEN p.frames[j] \cup items ELSE p.frames[j]
<1>1. CASE ~p.alive
  BY <1>1 DEF Tell
<1>2. CASE p.alive
  <2> DEFINE F == p.frames
             x == F[Len(F)] \cup items
             G == [F EXCEPT ![Len(F)] = x]
  <2>1. F \in Seq(SUBSET Item) /\ x \in SUBSET Item
    BY ProcessFacts
  <2>2. G \in Seq(SUBSET Item) /\ Len(G) = Len(F)
        /\ \A j \in 1 .. Len(F) : G[j] = IF j = Len(F) THEN x ELSE F[j]
    <3> HIDE DEF x, F
    <3> QED BY <2>1, UpdateFacts DEF F
  <2>3. Tell(p, items) = [p EXCEPT !.frames = G]
    BY <1>2 DEF Tell, Process
  <2> HIDE DEF G
  <2>4. /\ Tell(p, items) \in Process /\ Tell(p, items).frames = G
        /\ Tell(p, items).alive = p.alive /\ Tell(p, items).needsRestart = p.needsRestart
    BY <2>2, <2>3 DEF Process, Item
  <2> QED BY <1>2, <2>1, <2>2, <2>4
<1> QED BY <1>1, <1>2, ProcessFacts

LEMMA PushFacts ==
    ASSUME NEW p \in Process, Len(p.frames) > 0
    PROVE  /\ PushScope(p) \in Process /\ Len(PushScope(p).frames) > 0 /\ Same(PushScope(p), p)
           /\ p.alive => /\ Len(PushScope(p).frames) = Len(p.frames) + 1
                         /\ PushScope(p).frames[Len(p.frames) + 1] = {}
                         /\ \A j \in 1 .. Len(p.frames) : PushScope(p).frames[j] = p.frames[j]
<1>1. CASE ~p.alive
  BY <1>1 DEF PushScope, Same
<1>2. CASE p.alive
  <2> DEFINE F == p.frames
             G == Append(F, {})
  <2>1. F \in Seq(SUBSET Item) /\ {} \in SUBSET Item /\ Len(F) \in Nat
    BY ProcessFacts
  <2>2. G \in Seq(SUBSET Item) /\ Len(G) = Len(F) + 1 /\ G[Len(F) + 1] = {}
        /\ \A j \in 1 .. Len(F) : G[j] = F[j]
    <3> HIDE DEF F
    <3> QED BY <2>1, AppendFacts DEF F
  <2>3. PushScope(p) = [p EXCEPT !.frames = G]
    BY <1>2 DEF PushScope
  <2> HIDE DEF G
  <2>4. /\ PushScope(p) \in Process /\ PushScope(p).frames = G
        /\ PushScope(p).alive = p.alive /\ PushScope(p).needsRestart = p.needsRestart
    BY <2>2, <2>3 DEF Process, Item
  <2> QED BY <1>2, <2>1, <2>2, <2>4 DEF Same
<1> QED BY <1>1, <1>2, ProcessFacts

LEMMA PopFacts ==
    ASSUME NEW p \in Process, Len(p.frames) > 0
    PROVE  /\ PopScope(p) \in Process /\ Len(PopScope(p).frames) > 0 /\ Same(PopScope(p), p)
           /\ p.alive /\ Len(p.frames) > 1 =>
                /\ Len(PopScope(p).frames) = Len(p.frames) - 1
                /\ \A j \in 1 .. Len(p.frames) - 1 : PopScope(p).frames[j] = p.frames[j]
<1>1. CASE ~(p.alive /\ Len(p.frames) > 1)
  BY <1>1 DEF PopScope, Same
<1>2. CASE p.alive /\ Len(p.frames) > 1
  <2> DEFINE F == p.frames
             G == Front(F)
  <2>1. F \in Seq(SUBSET Item) /\ {} \in SUBSET Item /\ Len(F) \in Nat
    BY ProcessFacts
  <2>2. G \in Seq(SUBSET Item) /\ Len(G) = Len(F) - 1 /\ \A j \in 1 .. Len(F) - 1 : G[j] = F[j]
    <3> HIDE DEF F
    <3> QED BY <2>1, FrontFacts DEF F
  <2>3. PopScope(p) = [p EXCEPT !.frames = G]
    BY <1>2 DEF PopScope
  <2> HIDE DEF G
  <2>4. /\ PopScope(p) \in Process /\ PopScope(p).frames = G
        /\ PopScope(p).alive = p.alive /\ PopScope(p).needsRestart = p.needsRestart
    BY <2>2, <2>3 DEF Process, Item
  <2> QED BY <1>2, <2>1, <2>2, <2>4 DEF Same
<1> QED BY <1>1, <1>2, ProcessFacts

(* Declarations are sent in the outermost scope.                           *)
LEMMA TellOuter ==
    ASSUME NEW p, NEW v, NEW f, Shaped(p, 1, v, f), NEW items \in SUBSET (Symbol \cup Impl)
    PROVE  /\ Shaped(Tell(p, items), 1, v, f)
           /\ Tell(p, items).alive = p.alive /\ Tell(p, items).needsRestart = p.needsRestart
           /\ p.alive => Tell(p, items).frames[1] = p.frames[1] \cup items
<1> DEFINE q == Tell(p, items)
<1>1. p \in Process /\ Len(p.frames) > 0 /\ items \in SUBSET Item
  BY DEF Shaped, Item
<1>2. /\ q \in Process /\ Len(q.frames) = Len(p.frames)
      /\ q.alive = p.alive /\ q.needsRestart = p.needsRestart
      /\ \A j \in 1 .. Len(p.frames) : q.frames[j] =
            IF j = Len(p.frames) /\ p.alive THEN p.frames[j] \cup items ELSE p.frames[j]
  BY <1>1, TellFacts
<1> HIDE DEF q
<1>3. ASSUME p.alive PROVE Len(q.frames) = 1 /\ q.frames[1] = p.frames[1] \cup items
  <2>1. Len(p.frames) = 1
    BY <1>3 DEF Shaped, Told
  <2> QED BY <1>2, <1>3, <2>1
<1>4. ASSUME p.alive PROVE Told(q, 1, v, f)
  <2>1. q.frames[1] \subseteq Symbol \cup Impl /\ 2 .. 1 = {}
    BY <1>3, <1>4 DEF Shaped, Told
  <2> QED BY <1>3, <1>4, <2>1 DEF Told
<1> QED BY <1>1, <1>2, <1>3, <1>4 DEF q, Shaped

(* Assertions are sent in an inner one.                                    *)
LEMMA TellInner ==
    ASSUME NEW p, NEW d \in 2 .. 3, NEW v, NEW f, Shaped(p, d, v, f), NEW m, NEW a \in Assertion,
           a.kind = "vc" => a.valid = v, a.kind = "blocking" => f
    PROVE  /\ Shaped(Tell(p, {a}), d, v, f) /\ Same(Tell(p, {a}), p)
           /\ Shaped(AssertTerm(p, m, {a}), d, v, f) /\ Same(AssertTerm(p, m, {a}), p)
<1> DEFINE q == Tell(p, {a})
<1>1. p \in Process /\ Len(p.frames) > 0 /\ {a} \in SUBSET Item
  BY DEF Shaped, Item
<1>2. /\ q \in Process /\ Len(q.frames) = Len(p.frames)
      /\ q.alive = p.alive /\ q.needsRestart = p.needsRestart
      /\ \A j \in 1 .. Len(p.frames) : q.frames[j] =
            IF j = Len(p.frames) /\ p.alive THEN p.frames[j] \cup {a} ELSE p.frames[j]
  BY <1>1, TellFacts
<1> HIDE DEF q
<1>3. ASSUME p.alive PROVE Told(q, d, v, f) /\ q.frames[1] = p.frames[1]
  <2>1. Told(p, d, v, f) /\ Len(p.frames) = d
    BY <1>3 DEF Shaped, Told
  <2>2. q.frames[1] = p.frames[1] /\ \A j \in 2 .. d : q.frames[j] \subseteq p.frames[j] \cup {a}
    <3>1. 1 \in 1 .. d /\ 1 # d /\ \A j \in 2 .. d : j \in 1 .. d
      OBVIOUS
    <3> QED BY <1>2, <2>1, <3>1
  <2> QED BY <1>2, <2>1, <2>2 DEF Told
<1>4. Shaped(q, d, v, f) /\ Same(q, p)
  BY <1>1, <1>2, <1>3 DEF Shaped, Same
<1>5. AssertTerm(p, m, {a}) = p \/ AssertTerm(p, m, {a}) = q
  BY DEF AssertTerm, q
<1> QED BY <1>4, <1>5 DEF q, Same

LEMMA PushShaped ==
    ASSUME NEW p, NEW d \in 1 .. 2, NEW e, e = d + 1, NEW v, NEW f, Shaped(p, d, v, f)
    PROVE  Shaped(PushScope(p), e, v, f) /\ Same(PushScope(p), p)
<1> DEFINE q == PushScope(p)
<1>1. p \in Process /\ Len(p.frames) > 0
  BY DEF Shaped
<1>2. /\ q \in Process /\ Len(q.frames) > 0 /\ Same(q, p)
      /\ p.alive => /\ Len(q.frames) = Len(p.frames) + 1
                    /\ q.frames[Len(p.frames) + 1] = {}
                    /\ \A j \in 1 .. Len(p.frames) : q.frames[j] = p.frames[j]
  BY <1>1, PushFacts
<1> HIDE DEF q
<1>3. ASSUME p.alive PROVE Told(q, e, v, f)
  <2>1. Told(p, d, v, f) /\ Len(p.frames) = d
    BY <1>3 DEF Shaped, Told
  <2>2. q.frames[1] = p.frames[1]
    BY <1>2, <1>3, <2>1
  <2>3. \A j \in 2 .. e : \A a \in q.frames[j] : j \in 2 .. d /\ a \in p.frames[j]
    BY <1>2, <1>3, <2>1
  <2> QED BY <1>2, <1>3, <2>1, <2>2, <2>3 DEF Told
<1> QED BY <1>2, <1>3 DEF Shaped, Same, q

LEMMA PopShaped ==
    ASSUME NEW p, NEW d \in 1 .. 2, NEW e, e = d + 1, NEW v, NEW f, Shaped(p, e, v, f)
    PROVE  Shaped(PopScope(p), d, v, f) /\ Same(PopScope(p), p)
<1> DEFINE q == PopScope(p)
<1>1. p \in Process /\ Len(p.frames) > 0
  BY DEF Shaped
<1>2. /\ q \in Process /\ Len(q.frames) > 0 /\ Same(q, p)
      /\ p.alive /\ Len(p.frames) > 1 =>
            /\ Len(q.frames) = Len(p.frames) - 1
            /\ \A j \in 1 .. Len(p.frames) - 1 : q.frames[j] = p.frames[j]
  BY <1>1, PopFacts
<1> HIDE DEF q
<1>3. ASSUME p.alive PROVE Told(q, d, v, f)
  <2>1. Told(p, e, v, f) /\ Len(p.frames) = d + 1
    BY <1>3 DEF Shaped, Told
  <2>2. \A j \in 1 .. d : q.frames[j] = p.frames[j]
    <3>1. Len(p.frames) > 1 /\ Len(p.frames) - 1 = d
      BY <2>1
    <3> QED BY <1>2, <1>3, <3>1
  <2>3. \A j \in 2 .. d : j \in 1 .. d /\ j \in 2 .. e
    OBVIOUS
  <2> QED BY <1>2, <1>3, <2>1, <2>2, <2>3 DEF Told
<1> QED BY <1>2, <1>3 DEF Shaped, Same, q

(* A new process has been sent what is in common.                          *)
LEMMA NewShaped ==
    ASSUME NEW items \in SUBSET Symbol, NEW c \in BOOLEAN, NEW v, NEW f
    PROVE  /\ Shaped(NewProcess(items, c), 1, v, f)
           /\ NewProcess(items, c).alive /\ ~NewProcess(items, c).needsRestart
           /\ NewProcess(items, c).frames[1] = items
<1> DEFINE F == <<items>>
           q == NewProcess(items, c)
<1>1. F \in Seq(SUBSET Item) /\ Len(F) = 1 /\ F[1] = items
  BY DEF Item
<1>2. q.alive = TRUE /\ q.needsRestart = FALSE /\ q.frames = F /\ q.cores = c
  BY DEF NewProcess
<1>3. q \in Process
  <2> HIDE DEF F
  <2> QED BY <1>1 DEF NewProcess, Process, Item, F
<1> HIDE DEF q, F
<1>4. Shaped(q, 1, v, f)
  <2>1. Len(q.frames) = 1 /\ q.frames[1] \subseteq Symbol \cup Impl /\ 2 .. 1 = {}
    BY <1>1, <1>2
  <2> QED BY <1>3, <2>1 DEF Shaped, Told
<1> QED BY <1>1, <1>2, <1>4 DEF q

(* The flags of a process do not matter for what it was told.              *)
LEMMA FlagShaped ==
    ASSUME NEW p, NEW d, NEW v, NEW f, Shaped(p, d, v, f),
           NEW b \in BOOLEAN, NEW q, q = [p EXCEPT !.needsRestart = b]
    PROVE  Shaped(q, d, v, f) /\ q.alive = p.alive /\ q.needsRestart = b /\ q.frames = p.frames
<1>1. p \in Process /\ Len(p.frames) > 0
  BY DEF Shaped
<1>2. q \in Process /\ q.alive = p.alive /\ q.needsRestart = b /\ q.frames = p.frames
  BY <1>1 DEF Process
<1> QED BY <1>1, <1>2 DEF Shaped, Told

LEMMA DeadShaped ==
    ASSUME NEW p, NEW d, NEW v, NEW f, Shaped(p, d, v, f), NEW q, q = [p EXCEPT !.alive = FALSE],
           NEW e, NEW w, NEW g
    PROVE  Shaped(q, e, w, g) /\ ~q.alive /\ q.needsRestart = p.needsRestart
<1>1. p \in Process /\ Len(p.frames) > 0
  BY DEF Shaped
<1>2. q \in Process /\ q.alive = FALSE /\ q.needsRestart = p.needsRestart /\ q.frames = p.frames
  BY <1>1 DEF Process
<1> QED BY <1>1, <1>2 DEF Shaped, Told

-----------------------------------------------------------------------------
(* What the steps of the driver do to the process.                         *)

LEMMA QueryFacts ==
    ASSUME NEW q \in Query
    PROVE  /\ q.number \in 0 .. MaxQueries /\ q.impl \in Impl /\ q.valid \in BOOLEAN
           /\ q.kind \in {"verify", "core"}
           /\ q.number > 0 => \A k \in {"vc", "assumptions", "blocking"} :
                /\ Asserted(q, k) \in Assertion
                /\ Asserted(q, k).kind = k /\ Asserted(q, k).valid = q.valid
<1>1. q.number \in 0 .. MaxQueries /\ q.impl \in Impl /\ q.valid \in BOOLEAN /\ q.kind \in {"verify", "core"}
  BY DEF Query
<1>2. q.number > 0 => q.number \in 1 .. MaxQueries
  BY <1>1, DriverAssumption
<1> QED BY <1>1, <1>2 DEF Asserted, Assertion

(* What DeclCollector meets first is declared now.                         *)
LEMMA CollectFacts ==
    ASSUME KnownInv, Len(known) = 1,
           NEW mentions \in SUBSET Symbol, NEW extra \in SUBSET Impl
    PROVE  /\ NewSymbols(mentions) \subseteq Symbol
           /\ NewSymbols(mentions) = mentions \ known[1]
           /\ Collected(NewSymbols(mentions) \cup extra) \in Seq(SUBSET (Symbol \cup Impl))
           /\ Len(Collected(NewSymbols(mentions) \cup extra)) = 1
           /\ Collected(NewSymbols(mentions) \cup extra)[1]
                = known[1] \cup NewSymbols(mentions) \cup extra
<1> DEFINE new == NewSymbols(mentions)
           x == known[1] \cup (new \cup extra)
           T == SUBSET (Symbol \cup Impl)
<1>1. known \in Seq(T) /\ known[1] \in T
  BY DEF KnownInv
<1>2. new = mentions \ known[1]
  BY DEF NewSymbols, Last
<1>3. Collected(new \cup extra) = [known EXCEPT ![1] = x]
  BY DEF Collected
<1>4. x \in T /\ new \subseteq Symbol
  BY <1>1, <1>2
<1> HIDE DEF T, x, new
<1>5. /\ [known EXCEPT ![1] = x] \in Seq(T) /\ Len([known EXCEPT ![1] = x]) = 1
      /\ [known EXCEPT ![1] = x][1] = x
  BY <1>1, <1>4, UpdateOneFacts
<1> QED BY <1>2, <1>3, <1>4, <1>5 DEF T, x, new

LEMMA SessionProcess ==
    ASSUME ProcessInv, KnownInv, NEW i \in Impl, NewSession(i),
           NEW v, NEW f
    PROVE  /\ Shaped(proc', 1, v, f)
           /\ proc'.alive = proc.alive /\ proc'.needsRestart = proc.needsRestart
           /\ proc.alive => proc.frames[1] \cup NewSymbols(SymbolsOf[i]) \subseteq proc'.frames[1]
<1> DEFINE new == NewSymbols(SymbolsOf[i])
           q == Tell(proc, new)
<1>1. Shaped(proc, 1, v, f)
  BY DEF NewSession, ProcessInv, Depth, InCore, InVerify, Shaped, Told
<1>2. new \subseteq Symbol
  BY DriverAssumption, CollectFacts DEF NewSession, KnownInv, InCore
<1>3. /\ Shaped(q, 1, v, f) /\ q.alive = proc.alive /\ q.needsRestart = proc.needsRestart
      /\ proc.alive => q.frames[1] = proc.frames[1] \cup new
  BY <1>1, <1>2, TellOuter
<1>4. proc' = q \/ proc' = Tell(q, {i})
  BY DEF NewSession, DefineMacro, AssertTerm
<1>5. /\ Shaped(Tell(q, {i}), 1, v, f)
      /\ Tell(q, {i}).alive = q.alive /\ Tell(q, {i}).needsRestart = q.needsRestart
      /\ q.alive => Tell(q, {i}).frames[1] = q.frames[1] \cup {i}
  <2> HIDE DEF q
  <2> QED BY <1>3, TellOuter
<1> HIDE DEF q, new
<1>6. proc.alive => proc.frames[1] \cup new \subseteq proc'.frames[1]
  BY <1>3, <1>4, <1>5
<1> QED BY <1>3, <1>4, <1>5, <1>6 DEF new

LEMMA BeginProcess ==
    ASSUME ControlInv, ProcessInv, KnownInv, NEW i \in Impl, NEW valid \in BOOLEAN, BeginCheck(i, valid),
           NEW f
    PROVE  /\ query' \in Query /\ query'.number = query.number + 1 /\ query'.impl = i
           /\ query'.valid = valid /\ query'.kind = "verify"
           /\ Shaped(proc', 2, valid, f) /\ ~proc'.needsRestart
           /\ proc'.alive <=> proc.alive \/ proc.needsRestart
           /\ proc'.alive => (known[1] \cup NewSymbols(Constants)) \cap Symbol \subseteq proc'.frames[1]
<1> DEFINE new == NewSymbols(Constants)
           told == Tell(proc, new)
           started == PossiblyRestart(told, common \cup new)
           a == Asserted(query', "vc")
<1>1. Shaped(proc, 1, valid, f) /\ Len(known) = 1
  BY DEF BeginCheck, ProcessInv, Depth, InCore, InVerify, Shaped, Told, KnownInv
<1>2. new \subseteq Symbol /\ common \cup new \in SUBSET Symbol
  BY <1>1, DriverAssumption, CollectFacts DEF KnownInv
<1>3. /\ query' \in Query /\ query'.number = query.number + 1 /\ query'.impl = i
      /\ query'.valid = valid /\ query'.kind = "verify" /\ query'.number > 0
  <2>1. query' = [number |-> query.number + 1, impl |-> i, valid |-> valid, kind |-> "verify"]
        /\ query.number < MaxQueries /\ query.number \in 0 .. MaxQueries
    BY QueryFacts DEF BeginCheck, ControlInv
  <2>2. query.number + 1 \in 0 .. MaxQueries /\ query.number + 1 > 0
    BY <2>1, DriverAssumption
  <2> QED BY <2>1, <2>2 DEF Query
<1>4. /\ Shaped(told, 1, valid, f)
      /\ told.alive = proc.alive /\ told.needsRestart = proc.needsRestart
      /\ proc.alive => told.frames[1] = proc.frames[1] \cup new
  BY <1>1, <1>2, TellOuter
<1>5. /\ Shaped(started, 1, valid, f) /\ ~started.needsRestart
      /\ started.alive <=> proc.alive \/ proc.needsRestart
      /\ started.alive => (known[1] \cup new) \cap Symbol \subseteq started.frames[1]
  <2> HIDE DEF told, new
  <2>1. CASE proc.needsRestart
    <3>1. started = NewProcess(common \cup new, FALSE)
      BY <1>4, <2>1 DEF PossiblyRestart
    <3>2. /\ Shaped(started, 1, valid, f) /\ started.alive /\ ~started.needsRestart
          /\ started.frames[1] = common \cup new
      <4> HIDE DEF started
      <4> QED BY <1>2, <3>1, NewShaped
    <3> HIDE DEF started
    <3> QED BY <2>1, <3>2 DEF KnownInv
  <2>2. CASE ~proc.needsRestart
    <3>1. started = told
      BY <1>4, <2>2 DEF PossiblyRestart
    <3> HIDE DEF started
    <3> QED BY <1>4, <2>2, <3>1 DEF KnownInv
  <2> QED BY <2>1, <2>2
<1>6. a \in Assertion /\ a.kind = "vc" /\ a.valid = valid
  BY <1>3, QueryFacts
<1>7. proc' = AssertTerm(PushScope(started), Constants \cup {i}, {a})
  BY DEF BeginCheck
<1>8. Shaped(PushScope(started), 2, valid, f) /\ Same(PushScope(started), started)
  <2> HIDE DEF started
  <2> QED BY <1>5, PushShaped
<1>9. Shaped(proc', 2, valid, f) /\ Same(proc', PushScope(started))
  <2> HIDE DEF started, a
  <2> QED BY <1>6, <1>7, <1>8, TellInner
<1> HIDE DEF started, new, a
<1>10. proc'.needsRestart = started.needsRestart /\ proc'.alive = started.alive
       /\ (proc'.alive => proc'.frames[1] = started.frames[1])
  BY <1>8, <1>9 DEF Same
<1>11. proc'.alive => (known[1] \cup new) \cap Symbol \subseteq proc'.frames[1]
  BY <1>5, <1>10
<1> QED BY <1>3, <1>5, <1>9, <1>10, <1>11 DEF new

(* The scopes of the query are closed, whatever the answer was.            *)
LEMMA LeftFacts ==
    ASSUME NEW d, NEW v, NEW f, Shaped(proc, d, v, f)
    PROVE  /\ Shaped(Left(proc), d, v, f) /\ Left(proc).alive = proc.alive
           /\ Left(proc).frames = proc.frames
           /\ Left(proc).needsRestart = (proc.needsRestart \/ RestartProverPerVC)
<1> DEFINE b == proc.needsRestart \/ RestartProverPerVC
<1>1. b \in BOOLEAN /\ Left(proc) = [proc EXCEPT !.needsRestart = b]
  BY DEF Left
<1> HIDE DEF b
<1>2. /\ Shaped(Left(proc), d, v, f) /\ Left(proc).alive = proc.alive
      /\ Left(proc).needsRestart = b /\ Left(proc).frames = proc.frames
  BY <1>1, FlagShaped
<1> QED BY <1>2 DEF b

LEMMA PopQueryProcess ==
    ASSUME ProcessInv, InVerify, PopQuery, NEW v, NEW f
    PROVE  /\ Shaped(proc', 1, v, f) /\ proc'.alive = proc.alive
           /\ proc'.needsRestart = (proc.needsRestart \/ RestartProverPerVC)
           /\ proc.alive => proc'.frames[1] = proc.frames[1]
<1> DEFINE w == query.valid
           g == Found
           p == Left(proc)
           q == PopScope(p)
<1>1. Shaped(proc, 2, w, g)
  BY DEF ProcessInv, Depth, InVerify, InCore
<1>2. /\ Shaped(p, 2, w, g) /\ p.alive = proc.alive /\ p.frames = proc.frames
      /\ p.needsRestart = (proc.needsRestart \/ RestartProverPerVC)
  <2> HIDE DEF w, g
  <2> QED BY <1>1, LeftFacts
<1>3. Shaped(q, 1, w, g) /\ Same(q, p)
  <2> HIDE DEF w, g, p
  <2> QED BY <1>2, PopShaped
<1>4. proc' = q
  BY DEF PopQuery
<1> HIDE DEF q, p, w, g
<1>5. Shaped(q, 1, v, f)
  BY <1>3 DEF Shaped, Told
<1> QED BY <1>2, <1>3, <1>4, <1>5 DEF Same

LEMMA PopCoreProcess ==
    ASSUME ProcessInv, InCore, PopCore, NEW v, NEW f
    PROVE  /\ Shaped(proc', 1, v, f) /\ proc'.alive = proc.alive
           /\ proc'.needsRestart = (proc.needsRestart \/ RestartProverPerVC)
           /\ proc.alive => proc'.frames[1] = proc.frames[1]
<1> DEFINE w == query.valid
           g == Found
           p == Left(proc)
           q == PopScope(p)
           r == PopScope(q)
<1>1. Shaped(proc, 3, w, g)
  BY DEF ProcessInv, Depth, InVerify, InCore
<1>2. /\ Shaped(p, 3, w, g) /\ p.alive = proc.alive /\ p.frames = proc.frames
      /\ p.needsRestart = (proc.needsRestart \/ RestartProverPerVC)
  <2> HIDE DEF w, g
  <2> QED BY <1>1, LeftFacts
<1>3. Shaped(q, 2, w, g) /\ Same(q, p)
  <2> HIDE DEF w, g, p
  <2> QED BY <1>2, PopShaped
<1>4. Shaped(r, 1, w, g) /\ Same(r, q)
  <2> HIDE DEF w, g, q
  <2> QED BY <1>3, PopShaped
<1>5. proc' = r
  BY DEF PopCore
<1> HIDE DEF r, q, p, w, g
<1>6. Shaped(r, 1, v, f)
  BY <1>4 DEF Shaped, Told
<1> QED BY <1>2, <1>3, <1>4, <1>5, <1>6 DEF Same

LEMMA CoreProcess ==
    ASSUME ControlInv, ProcessInv, UpdateUnsatCore, NEW f
    PROVE  Shaped(proc', 3, query.valid, f) /\ Same(proc', proc)
<1> DEFINE w == query.valid
           a == Asserted(query, "vc")
           b == Asserted(query, "assumptions")
           m == {query.impl}
           p == PushScope(proc)
           q == AssertTerm(p, m, {a})
           r == PushScope(q)
<1>1. Shaped(proc, 1, w, f)
  BY DEF UpdateUnsatCore, ProcessInv, Depth, InCore, InVerify, Shaped, Told
<1>2. /\ a \in Assertion /\ a.kind = "vc" /\ a.valid = w
      /\ b \in Assertion /\ b.kind = "assumptions"
  BY QueryFacts DEF UpdateUnsatCore, ControlInv
<1> HIDE DEF w, a, b, m
<1>3. Shaped(p, 2, w, f) /\ Same(p, proc)
  BY <1>1, PushShaped
<1>4. Shaped(q, 2, w, f) /\ Same(q, p)
  <2> HIDE DEF p
  <2> QED BY <1>2, <1>3, TellInner
<1>5. Shaped(r, 3, w, f) /\ Same(r, q)
  <2> HIDE DEF q
  <2> QED BY <1>4, PushShaped
<1>6. proc' = AssertTerm(r, Constants, {b})
  BY DEF UpdateUnsatCore, w, a, b, m
<1>7. Shaped(proc', 3, w, f) /\ Same(proc', r)
  <2> HIDE DEF r
  <2> QED BY <1>2, <1>5, <1>6, TellInner
<1> HIDE DEF p, q, r
<1> QED BY <1>3, <1>4, <1>5, <1>7 DEF Same, w

-----------------------------------------------------------------------------
(* What the assertions of a live process are.                              *)
LEMMA ScopeFacts ==
    ASSUME ProcessInv, proc.alive, NEW a \in Scope(proc) \cap Assertion
    PROVE  /\ Depth > 1
           /\ a.kind = "vc" => a.valid = query.valid
           /\ a.kind = "blocking" => Found
<1>1. PICK n \in DOMAIN proc.frames : a \in proc.frames[n]
  BY DEF Scope
<1>2. proc.frames \in Seq(SUBSET Item) /\ Len(proc.frames) = Depth /\ n \in 1 .. Depth
  BY <1>1, ProcessFacts DEF ProcessInv, Shaped, Told
<1>3. n # 1
  BY <1>1, KindsAssumption DEF ProcessInv, Shaped, Told
<1>4. n \in 2 .. Depth /\ Depth \in 1 .. 3
  BY <1>2, <1>3 DEF Depth
<1> QED BY <1>1, <1>4 DEF ProcessInv, Shaped, Told

(* An answer that is valid is right in the first round of a query.         *)
LEMMA AnswerFacts ==
    ASSUME ProcessInv, NEW result \in Answers(proc)
    PROVE  /\ result \in Outcome
           /\ result = "Undetermined" <=> ~proc.alive
           /\ result = "Valid" => query.valid \/ Found
<1>1. CASE ~proc.alive
  BY <1>1 DEF Answers, Outcome
<1>2. CASE proc.alive
  <2>1. result \in {"Invalid", "Valid"} \cup Limits
    BY <1>2 DEF Answers
  <2>2. ASSUME result = "Valid" PROVE query.valid \/ Found
    <3>1. "Valid" \notin {"Invalid"} \cup Limits
      BY DriverAssumption
    <3>2. PICK a \in Scope(proc) \cap Assertion : a.kind = "blocking" \/ (a.kind = "vc" /\ a.valid)
      BY <1>2, <2>2, <3>1 DEF Answers
    <3> QED BY <1>2, <3>2, ScopeFacts
  <2> QED BY <1>2, <2>1, <2>2, DriverAssumption DEF Outcome
<1> QED BY <1>1, <1>2

LEMMA InvariantInit == Init => ControlInv /\ ProcessInv /\ KnownInv /\ LossInv
<1> SUFFICES ASSUME Init PROVE ControlInv /\ ProcessInv /\ KnownInv /\ LossInv
  OBVIOUS
<1>1. query \in Query /\ query.number = 0 /\ query.number \in Nat
  BY DEF Init
<1>2. ~InVerify /\ ~InCore /\ Depth = 1
  BY DEF Init, InVerify, InCore, Depth
<1>3. ControlInv
  BY <1>1, DriverAssumption DEF Init, ControlInv, Outcome
<1>4. proc = NewProcess(Prelude, TRUE) /\ Prelude \in SUBSET Symbol
  BY DriverAssumption DEF Init
<1> DEFINE v == query.valid
           f == Found
<1>5. Shaped(proc, 1, v, f) /\ proc.alive /\ ~proc.needsRestart /\ proc.frames[1] = Prelude
  <2> HIDE DEF v, f
  <2> QED BY <1>4, NewShaped
<1>6. ProcessInv
  BY <1>2, <1>5 DEF ProcessInv
<1>7. KnownInv
  <2>1. known = <<Prelude>> /\ common = Prelude /\ pc = "idle"
    BY DEF Init
  <2>2. /\ <<Prelude>> \in Seq(SUBSET (Symbol \cup Impl)) /\ Len(<<Prelude>>) = 1
        /\ <<Prelude>>[1] = Prelude
    BY <1>4
  <2>3. Len(known) = 1 /\ known[1] = Prelude /\ known \in Seq(SUBSET (Symbol \cup Impl))
    BY <2>1, <2>2
  <2>4. \A n \in 1 .. Len(known) : known[n] = known[1]
    <3>1. \A n \in 1 .. 1 : n = 1
      OBVIOUS
    <3> QED BY <2>3, <3>1
  <2>5. /\ known[1] \cap Symbol \subseteq common /\ known[1] \cap Symbol \subseteq proc.frames[1]
        /\ common \subseteq Symbol
    BY <1>4, <1>5, <2>1, <2>3
  <2> QED BY <1>2, <2>3, <2>4, <2>5 DEF KnownInv
<1>8. LossInv
  BY <1>1, <1>2, <1>5, DriverAssumption DEF Init, LossInv, Owed, Begun
<1> QED BY <1>3, <1>6, <1>7, <1>8

LEMMA ControlNext == ControlInv /\ ProcessInv /\ KnownInv /\ [Next]_vars => ControlInv'
<1> SUFFICES ASSUME ControlInv, ProcessInv, KnownInv, [Next]_vars PROVE ControlInv'
  OBVIOUS
<1>p. proc \in Process /\ proc.alive \in BOOLEAN
  BY ProcessFacts DEF ProcessInv, Shaped
<1>c. ProverCCLimit \in Nat /\ ProverCCLimit > 0
  BY DriverAssumption
<1>1. ASSUME NEW i \in Impl, NewSession(i) PROVE ControlInv'
  BY <1>1 DEF NewSession, ControlInv
<1>2. ASSUME NEW i \in Impl, NEW valid \in BOOLEAN, BeginCheck(i, valid) PROVE ControlInv'
  <2>1. query' \in Query /\ query'.number = query.number + 1 /\ query'.kind = "verify"
    BY <1>2, BeginProcess
  <2>2. query'.number > 0
    BY <2>1, QueryFacts DEF ControlInv
  <2> QED BY <1>2, <2>1, <2>2 DEF BeginCheck, ControlInv
<1>3. CASE PingPong
  BY <1>3, <1>c DEF PingPong, CheckOutcomeCore, ControlInv, Outcome
<1>4. CASE GetResponse
  <2>1. PICK result \in Answers(proc) :
          /\ globalResult' = Global(result)
          /\ proc' = [proc EXCEPT !.needsRestart = @ \/ result = "OutOfMemory"]
          /\ pc' = IF result \in {"Invalid", "TimeOut", "OutOfMemory"} THEN "labels" ELSE "outcome"
    BY <1>4 DEF GetResponse
  <2>2. proc'.alive = proc.alive
    BY <1>p, <2>1 DEF Process
  <2>3. /\ result \in Outcome /\ (result = "Undetermined" <=> ~proc.alive)
        /\ result = "Valid" => query.valid \/ Found
    BY <2>1, AnswerFacts
  <2>4. /\ pc = "check" /\ errorsLeft' = errorsLeft - 1
        /\ UNCHANGED <<sessions, query>> /\ errorsLeft > 0 /\ globalResult # "Valid"
    BY <1>4 DEF GetResponse, ControlInv
  <2>5. errorsLeft' \in 0 .. ProverCCLimit
    BY <1>c, <2>4 DEF ControlInv
  <2>6. globalResult' \in Outcome
    BY <2>1, <2>3 DEF Global, ControlInv
  <2>7. pc' = "labels" => globalResult' \in Failed
    BY <2>1, <2>3, <2>4 DEF Global, ControlInv, Failed, Outcome
  <2>8. pc' = "outcome" /\ globalResult' = "Valid" => query.valid
    BY <2>1, <2>3, <2>4 DEF Global, Found, Failed
  <2>9. pc' = "outcome" /\ globalResult' = "Undetermined" => ~proc'.alive
    BY <2>1, <2>2, <2>3, <2>4 DEF Global
  <2>10. pc' \in {"labels", "outcome"}
    BY <2>1
  <2> QED BY <2>4, <2>5, <2>6, <2>7, <2>8, <2>9, <2>10 DEF ControlInv
<1>5. CASE NextCounterexample
  BY <1>5 DEF NextCounterexample, ControlInv, Failed
<1>6. CASE NoMoreCounterexamples
  BY <1>6 DEF NoMoreCounterexamples, ControlInv, Failed
<1>7. CASE EndVerify
  BY <1>7 DEF EndVerify, ControlInv
<1>8. CASE UpdateUnsatCore
  <2>1. query' = [query EXCEPT !.kind = "core"] /\ query \in Query
    BY <1>8 DEF UpdateUnsatCore, ControlInv
  <2>2. query' \in Query /\ query'.kind = "core" /\ query'.number = query.number
    BY <2>1 DEF Query
  <2> QED BY <1>8, <1>c, <2>2 DEF UpdateUnsatCore, CheckOutcomeCore, ControlInv, Outcome
<1>9. CASE EmptyCore \/ CoreArrives
  BY <1>9 DEF EmptyCore, CoreArrives, ControlInv
<1>10. CASE GetUnsatCore
  BY <1>10 DEF GetUnsatCore, ControlInv
<1>11. CASE Throw
  BY <1>11 DEF Throw, ControlInv
<1>12. CASE Close \/ Die
  <2>1. ~proc'.alive
    BY <1>p, <1>12 DEF Close, Die, Process
  <2> QED BY <1>12, <2>1 DEF Close, Die, ControlInv
<1>13. CASE UNCHANGED vars
  BY <1>13 DEF vars, ControlInv
<1> QED BY <1>1, <1>2, <1>3, <1>4, <1>5, <1>6, <1>7, <1>8, <1>9, <1>10, <1>11, <1>12, <1>13
        DEF Next, Proceed

LEMMA ProcessNext == ControlInv /\ ProcessInv /\ KnownInv /\ [Next]_vars => ProcessInv'
<1> SUFFICES ASSUME ControlInv, ProcessInv, KnownInv, [Next]_vars PROVE ProcessInv'
  OBVIOUS
<1> DEFINE v == query.valid
           f == Found
           w == query'.valid
           g == Found'
<1> SUFFICES Shaped(proc', Depth', w, g)
  BY DEF ProcessInv
<1>s. Shaped(proc, Depth, v, f)
  BY DEF ProcessInv
<1>w. ASSUME NEW p, NEW d, Shaped(p, d, v, f), v = w, f => g PROVE Shaped(p, d, w, g)
  <2> HIDE DEF v, f, w, g
  <2> QED BY <1>w DEF Shaped, Told
<1>1. ASSUME NEW i \in Impl, NewSession(i) PROVE Shaped(proc', Depth', w, g)
  <2>1. Depth' = 1
    BY <1>1 DEF NewSession, Depth, InCore, InVerify
  <2> HIDE DEF w, g
  <2> QED BY <1>1, <2>1, SessionProcess
<1>2. ASSUME NEW i \in Impl, NEW valid \in BOOLEAN, BeginCheck(i, valid) PROVE Shaped(proc', Depth', w, g)
  <2>1. w = valid /\ query'.kind = "verify" /\ pc' = "ping"
    BY <1>2, BeginProcess DEF BeginCheck
  <2>2. Depth' = 2
    BY <2>1 DEF Depth, InCore, InVerify
  <2>3. Shaped(proc', 2, valid, g)
    <3> HIDE DEF g
    <3> QED BY <1>2, BeginProcess
  <2> QED BY <2>1, <2>2, <2>3
<1>3. CASE PingPong
  <2>1. /\ query' = query /\ Depth' = Depth /\ v = w /\ ~f /\ query.kind = "verify"
        /\ proc' = IF proc.alive THEN proc ELSE [proc EXCEPT !.needsRestart = TRUE]
    BY <1>3 DEF PingPong, Pinged, CheckOutcomeCore, Depth, InCore, InVerify, Found, ControlInv
  <2>2. Shaped(proc', Depth, v, f)
    <3> HIDE DEF v, f
    <3> QED BY <1>s, <2>1, FlagShaped
  <2> HIDE DEF v, f, w, g
  <2> QED BY <2>1, <2>2, <1>w
<1>4. CASE GetResponse
  <2>1. PICK result \in Answers(proc) :
          /\ globalResult' = Global(result)
          /\ proc' = [proc EXCEPT !.needsRestart = @ \/ result = "OutOfMemory"]
          /\ pc' = IF result \in {"Invalid", "TimeOut", "OutOfMemory"} THEN "labels" ELSE "outcome"
    BY <1>4 DEF GetResponse
  <2>2. query' = query /\ pc = "check" /\ Depth' = Depth /\ v = w /\ (f => g)
    BY <1>4, <2>1 DEF GetResponse, Depth, InCore, InVerify, Found, Global, Failed
  <2> DEFINE b == proc.needsRestart \/ result = "OutOfMemory"
  <2>3. b \in BOOLEAN /\ proc' = [proc EXCEPT !.needsRestart = b]
    BY <2>1
  <2>4. Shaped(proc', Depth, v, f)
    <3> HIDE DEF v, f, b
    <3> QED BY <1>s, <2>3, FlagShaped
  <2> HIDE DEF v, f, w, g
  <2> QED BY <2>2, <2>4, <1>w
<1>5. CASE NextCounterexample
  <2> DEFINE a == Asserted(query, "blocking")
  <2>1. /\ query' = query /\ Depth' = Depth /\ v = w /\ f /\ g /\ Depth \in 2 .. 3
        /\ proc' = Tell(proc, {a})
    BY <1>5 DEF NextCounterexample, Depth, InCore, InVerify, Found, ControlInv, Query
  <2>2. a \in Assertion /\ a.kind = "blocking"
    BY <1>5, QueryFacts DEF NextCounterexample, ControlInv
  <2>3. Shaped(proc', Depth, v, f)
    <3> HIDE DEF v, f, a
    <3> QED BY <1>s, <2>1, <2>2, TellInner
  <2> HIDE DEF v, f, w, g
  <2> QED BY <2>1, <2>3, <1>w
<1>6. CASE NoMoreCounterexamples \/ GetUnsatCore
  <2>1. query' = query /\ Depth' = Depth /\ v = w /\ (f => g) /\ proc' = proc
    BY <1>6 DEF NoMoreCounterexamples, GetUnsatCore, Depth, InCore, InVerify, Found, ControlInv
  <2> HIDE DEF v, f, w, g
  <2> QED BY <1>s, <2>1, <1>w
<1>7. CASE EndVerify
  <2>1. InVerify /\ PopQuery /\ Depth' = 1
    BY <1>7 DEF EndVerify, Depth, InCore, InVerify
  <2> HIDE DEF w, g
  <2> QED BY <2>1, PopQueryProcess
<1>8. CASE UpdateUnsatCore
  <2>1. query' = [query EXCEPT !.kind = "core"] /\ query \in Query /\ pc' = "check"
    BY <1>8 DEF UpdateUnsatCore, CheckOutcomeCore, ControlInv
  <2>2. query'.kind = "core" /\ w = v
    BY <2>1 DEF Query
  <2>3. Depth' = 3
    BY <2>1, <2>2 DEF Depth, InCore
  <2>4. Shaped(proc', 3, v, g)
    <3> HIDE DEF g
    <3> QED BY <1>8, CoreProcess
  <2> QED BY <2>2, <2>3, <2>4
<1>9. CASE EmptyCore \/ CoreArrives
  <2>1. InCore /\ PopCore /\ Depth' = 1
    BY <1>9 DEF EmptyCore, CoreArrives, Depth, InCore, InVerify, ControlInv
  <2> HIDE DEF w, g
  <2> QED BY <2>1, PopCoreProcess
<1>10. CASE Throw
  <2>1. proc' = proc /\ ~proc.alive
    BY <1>10 DEF Throw
  <2> QED BY <1>s, <2>1 DEF Shaped
<1>11. CASE Close \/ Die
  <2>1. proc' = [proc EXCEPT !.alive = FALSE]
    BY <1>11 DEF Close, Die
  <2> HIDE DEF v, f, w, g
  <2> QED BY <1>s, <2>1, DeadShaped
<1>12. CASE UNCHANGED vars
  <2>1. Depth' = Depth /\ v = w /\ (f => g) /\ proc' = proc
    BY <1>12 DEF vars, Depth, InCore, InVerify, Found
  <2> HIDE DEF v, f, w, g
  <2> QED BY <1>s, <2>1, <1>w
<1> QED BY <1>1, <1>2, <1>3, <1>4, <1>5, <1>6, <1>7, <1>8, <1>9, <1>10, <1>11, <1>12
        DEF Next, Proceed

(* A stack whose scopes are all alike, given two more or two less.         *)
LEMMA StackFacts ==
    ASSUME NEW S, NEW q \in Seq(S), \A n \in 1 .. Len(q) : q[n] = q[1]
    PROVE  /\ Len(q) = 1 => /\ q \o <<Last(q), Last(q)>> \in Seq(S) /\ Len(q \o <<Last(q), Last(q)>>) = 3
                            /\ \A n \in 1 .. 3 : (q \o <<Last(q), Last(q)>>)[n] = q[1]
           /\ Len(q) = 3 => /\ Front(Front(q)) \in Seq(S) /\ Len(Front(Front(q))) = 1
                            /\ Front(Front(q))[1] = q[1]
<1>1. ASSUME Len(q) = 1
      PROVE  /\ q \o <<Last(q), Last(q)>> \in Seq(S) /\ Len(q \o <<Last(q), Last(q)>>) = 3
             /\ \A n \in 1 .. 3 : (q \o <<Last(q), Last(q)>>)[n] = q[1]
  <2> DEFINE x == q[1]
             r == <<x, x>>
  <2>1. x \in S /\ Last(q) = x
    BY <1>1 DEF Last
  <2>2. r \in Seq(S) /\ Len(r) = 2 /\ r[1] = x /\ r[2] = x
    BY <2>1
  <2> HIDE DEF r
  <2>3. q \o r \in Seq(S) /\ Len(q \o r) = 3 /\ \A n \in 1 .. 3 : (q \o r)[n] = x
    <3>1. q \o r \in Seq(S) /\ Len(q \o r) = Len(q) + Len(r)
      BY <2>2, ConcatFacts
    <3>2. \A n \in 1 .. Len(q) + Len(r) : (q \o r)[n] = IF n <= Len(q) THEN q[n] ELSE r[n - Len(q)]
      BY <2>2, ConcatFacts
    <3>3. \A n \in 1 .. 3 : (n <= 1 => n = 1) /\ (~(n <= 1) => n - 1 \in 1 .. 2)
      OBVIOUS
    <3>4. \A n \in 1 .. 2 : r[n] = x
      BY <2>2
    <3>5. Len(q) + Len(r) = 3
      BY <1>1, <2>2
    <3> QED BY <1>1, <3>1, <3>2, <3>3, <3>4, <3>5
  <2> QED BY <2>1, <2>3 DEF r
<1>2. ASSUME Len(q) = 3
      PROVE  Front(Front(q)) \in Seq(S) /\ Len(Front(Front(q))) = 1 /\ Front(Front(q))[1] = q[1]
  <2> DEFINE p == Front(q)
  <2>1. p \in Seq(S) /\ Len(p) = Len(q) - 1 /\ \A j \in 1 .. Len(q) - 1 : p[j] = q[j]
    <3>1. Len(q) > 0
      BY <1>2
    <3> QED BY <3>1, FrontFacts
  <2> HIDE DEF p
  <2>2. Len(p) = 2 /\ p[1] = q[1]
    BY <1>2, <2>1
  <2>3. Front(p) \in Seq(S) /\ Len(Front(p)) = Len(p) - 1 /\ \A j \in 1 .. Len(p) - 1 : Front(p)[j] = p[j]
    BY <2>1, <2>2, FrontFacts
  <2>4. Len(Front(p)) = 1 /\ Front(p)[1] = p[1]
    BY <2>2, <2>3
  <2> QED BY <2>2, <2>3, <2>4 DEF p
<1> QED BY <1>1, <1>2

LEMMA KnownNext == ControlInv /\ ProcessInv /\ KnownInv /\ [Next]_vars => KnownInv'
<1> SUFFICES ASSUME ControlInv, ProcessInv, KnownInv, [Next]_vars PROVE KnownInv'
  OBVIOUS
<1> DEFINE T == SUBSET (Symbol \cup Impl)
<1>p. proc \in Process
  BY DEF ProcessInv, Shaped
<1>a. ASSUME known' \in Seq(T), Len(known') = 1, pc' # "crashed" => ~InCore',
             common' \subseteq Symbol, known'[1] \cap Symbol \subseteq common',
             proc'.alive => known'[1] \cap Symbol \subseteq proc'.frames[1]
      PROVE  KnownInv'
  <2>1. \A n \in 1 .. 1 : n = 1
    OBVIOUS
  <2>2. \A n \in 1 .. Len(known') : known'[n] = known'[1]
    BY <1>a, <2>1
  <2> QED BY <1>a, <2>2 DEF KnownInv
<1>b. ASSUME UNCHANGED <<known, common>>, InCore' = InCore, pc' # "crashed" => pc # "crashed",
             proc'.alive => proc.alive /\ proc'.frames[1] = proc.frames[1]
      PROVE  KnownInv'
  BY <1>b DEF KnownInv
<1>c. ASSUME pc # "crashed", ~InCore PROVE Len(known) = 1 /\ known \in Seq(T)
  BY <1>c DEF KnownInv
<1>1. ASSUME NEW i \in Impl, NewSession(i) PROVE KnownInv'
  <2> DEFINE new == NewSymbols(SymbolsOf[i])
  <2>1. pc = "idle" /\ pc' = "idle" /\ ~InCore' /\ ~InCore
    BY <1>1 DEF NewSession, InCore
  <2>2. SymbolsOf[i] \in SUBSET Symbol /\ {i} \in SUBSET Impl /\ i \notin Symbol
    BY DriverAssumption
  <2>3. common' = common \cup new /\ known' = Collected(new \cup {i})
    BY <1>1 DEF NewSession, DefineMacro, FlushAxioms
  <2>4. new \subseteq Symbol /\ known' \in Seq(T) /\ Len(known') = 1 /\ known'[1] = known[1] \cup new \cup {i}
    BY <1>c, <2>1, <2>2, <2>3, CollectFacts
  <2>5. proc'.alive => proc.alive /\ proc.frames[1] \cup new \subseteq proc'.frames[1]
    BY <1>1, SessionProcess
  <2> HIDE DEF new
  <2>6. common' \subseteq Symbol /\ known'[1] \cap Symbol \subseteq common'
    BY <2>2, <2>3, <2>4 DEF KnownInv
  <2>7. proc'.alive => known'[1] \cap Symbol \subseteq proc'.frames[1]
    BY <2>2, <2>4, <2>5 DEF KnownInv
  <2> QED BY <1>a, <2>1, <2>4, <2>6, <2>7
<1>2. ASSUME NEW i \in Impl, NEW valid \in BOOLEAN, BeginCheck(i, valid) PROVE KnownInv'
  <2> DEFINE new == NewSymbols(Constants)
  <2>1. pc = "idle" /\ pc' = "ping" /\ ~InCore' /\ ~InCore
    BY <1>2 DEF BeginCheck, InCore
  <2>2. Constants \in SUBSET Symbol /\ {} \in SUBSET Impl
    BY DriverAssumption
  <2>3. common' = common \cup new /\ known' = Collected(new \cup {})
    BY <1>2 DEF BeginCheck, FlushAxioms
  <2>4. new \subseteq Symbol /\ known' \in Seq(T) /\ Len(known') = 1 /\ known'[1] = known[1] \cup new \cup {}
    BY <1>c, <2>1, <2>2, <2>3, CollectFacts
  <2>5. proc'.alive => (known[1] \cup new) \cap Symbol \subseteq proc'.frames[1]
    BY <1>2, BeginProcess
  <2> HIDE DEF new
  <2>6. common' \subseteq Symbol /\ known'[1] \cap Symbol \subseteq common'
    BY <2>3, <2>4 DEF KnownInv
  <2>7. proc'.alive => known'[1] \cap Symbol \subseteq proc'.frames[1]
    BY <2>4, <2>5
  <2> QED BY <1>a, <2>1, <2>4, <2>6, <2>7
<1>3. CASE PingPong
  <2>1. proc'.alive => proc' = proc
    BY <1>p, <1>3 DEF PingPong, Pinged, Process
  <2>2. UNCHANGED <<known, common>> /\ InCore' = InCore /\ pc # "crashed"
    BY <1>3 DEF PingPong, CheckOutcomeCore, InCore, ControlInv
  <2> QED BY <1>b, <2>1, <2>2
<1>4. CASE GetResponse
  <2>1. proc'.alive = proc.alive /\ proc'.frames = proc.frames
    BY <1>p, <1>4 DEF GetResponse, Process
  <2>2. UNCHANGED <<known, common>> /\ InCore' = InCore /\ pc # "crashed"
    BY <1>4 DEF GetResponse, InCore
  <2> QED BY <1>b, <2>1, <2>2
<1>5. CASE NextCounterexample
  <2> DEFINE v == query.valid
             f == Found
             a == Asserted(query, "blocking")
  <2>1. /\ Shaped(proc, Depth, v, f) /\ Depth \in 2 .. 3 /\ f /\ a \in Assertion /\ a.kind = "blocking"
        /\ proc' = Tell(proc, {a})
    BY <1>5, QueryFacts DEF NextCounterexample, ProcessInv, Depth, InCore, InVerify, Found, ControlInv
  <2>2. Same(proc', proc)
    <3> HIDE DEF v, f, a
    <3> QED BY <2>1, TellInner
  <2>3. UNCHANGED <<known, common>> /\ InCore' = InCore /\ pc # "crashed"
    BY <1>5 DEF NextCounterexample, InCore
  <2> QED BY <1>b, <2>2, <2>3 DEF Same
<1>6. CASE NoMoreCounterexamples \/ GetUnsatCore
  <2>1. UNCHANGED <<known, common, proc>> /\ InCore' = InCore /\ pc # "crashed"
    BY <1>6 DEF NoMoreCounterexamples, GetUnsatCore, InCore, ControlInv
  <2> QED BY <1>b, <2>1
<1>7. CASE EndVerify
  <2>1. InVerify /\ PopQuery /\ UNCHANGED <<known, common>> /\ InCore' = InCore /\ pc # "crashed"
    BY <1>7 DEF EndVerify, PopQuery, InCore, InVerify
  <2>2. proc'.alive = proc.alive /\ (proc.alive => proc'.frames[1] = proc.frames[1])
    BY <2>1, PopQueryProcess
  <2> QED BY <1>b, <2>1, <2>2
<1>8. CASE UpdateUnsatCore
  <2>1. ~InCore /\ pc # "crashed" /\ common' = common /\ known' = known \o <<Last(known), Last(known)>>
    BY <1>8 DEF UpdateUnsatCore, InCore
  <2>2. InCore'
    BY <1>8 DEF UpdateUnsatCore, CheckOutcomeCore, InCore, ControlInv, Query
  <2>3. Same(proc', proc)
    BY <1>8, CoreProcess
  <2>4. known \in Seq(T) /\ Len(known) = 1 /\ \A n \in 1 .. Len(known) : known[n] = known[1]
    BY <1>c, <2>1 DEF KnownInv
  <2>5. known' \in Seq(T) /\ Len(known') = 3 /\ \A n \in 1 .. 3 : known'[n] = known[1]
    BY <2>1, <2>4, StackFacts
  <2>6. known'[1] = known[1]
    BY <2>5
  <2> QED BY <2>1, <2>2, <2>3, <2>5, <2>6 DEF KnownInv, Same
<1>9. CASE EmptyCore \/ CoreArrives
  <2>1. InCore /\ PopCore /\ ~InCore' /\ pc # "crashed" /\ common' = common /\ known' = Front(Front(known))
    BY <1>9 DEF EmptyCore, CoreArrives, PopCore, InCore, ControlInv
  <2>2. known \in Seq(T) /\ Len(known) = 3 /\ \A n \in 1 .. Len(known) : known[n] = known[1]
    BY <2>1 DEF KnownInv
  <2>3. known' \in Seq(T) /\ Len(known') = 1 /\ known'[1] = known[1]
    BY <2>1, <2>2, StackFacts
  <2>4. proc'.alive = proc.alive /\ (proc.alive => proc'.frames[1] = proc.frames[1])
    BY <2>1, PopCoreProcess
  <2>5. /\ common' \subseteq Symbol /\ known'[1] \cap Symbol \subseteq common'
        /\ proc'.alive => known'[1] \cap Symbol \subseteq proc'.frames[1]
    BY <2>1, <2>3, <2>4 DEF KnownInv
  <2> QED BY <1>a, <2>1, <2>3, <2>5
<1>10. CASE Throw
  BY <1>10 DEF Throw, KnownInv
<1>11. CASE Close \/ Die
  <2>1. ~proc'.alive
    BY <1>p, <1>11 DEF Close, Die, Process
  <2>2. UNCHANGED <<known, common>> /\ InCore' = InCore /\ (pc' # "crashed" => pc # "crashed")
    BY <1>11 DEF Close, Die, InCore
  <2> QED BY <1>b, <2>1, <2>2
<1>12. CASE UNCHANGED vars
  BY <1>12, <1>b DEF vars, InCore
<1> QED BY <1>1, <1>2, <1>3, <1>4, <1>5, <1>6, <1>7, <1>8, <1>9, <1>10, <1>11, <1>12
        DEF Next, Proceed

LEMMA Balance ==
    ASSUME NEW u \in Nat, NEW o \in Nat, NEW D \in Nat, u + o <= 2 * D, NEW p \in Nat
    PROVE  /\ p <= o => u + p <= 2 * D
           /\ p + 1 <= o => u + 1 + p <= 2 * D /\ u + p <= 2 * D
OBVIOUS

LEMMA LossNext ==
    ControlInv /\ ProcessInv /\ KnownInv /\ LossInv /\ [Next]_vars => LossInv'
<1> SUFFICES ASSUME ControlInv, ProcessInv, KnownInv, LossInv, [Next]_vars PROVE LossInv'
  OBVIOUS
<1>p. proc \in Process /\ proc.alive \in BOOLEAN /\ proc.needsRestart \in BOOLEAN
  BY ProcessFacts DEF ProcessInv, Shaped
<1>q. query.number \in Nat /\ query.kind \in {"verify", "core"}
  BY QueryFacts DEF ControlInv
<1>n. undetermined \in Nat /\ deaths \in Nat /\ MaxDeaths \in Nat
  BY DriverAssumption DEF LossInv
<1>d. 2 * deaths \in Nat /\ undetermined + Owed <= 2 * deaths
  BY <1>n DEF LossInv
(* A step at which nothing is lost and no one dies.                        *)
<1>a. ASSUME UNCHANGED <<undetermined, deaths>>, query'.number = query.number,
             InVerify' => InVerify, Owed' <= Owed, pc' = "ping" => pc = "ping" /\ proc' = proc,
             Owed \in Nat, Owed' \in Nat
      PROVE  LossInv'
  <2>1. Begun \in Nat /\ Begun' \in Nat /\ Begun' <= Begun
    BY <1>a DEF Begun
  <2>2. undetermined' + Owed' <= 2 * deaths'
    <3>1. undetermined' = undetermined /\ deaths' = deaths
      BY <1>a
    <3>2. undetermined + Owed' <= 2 * deaths
      BY <1>a, <1>n, <1>d, Balance
    <3> QED BY <3>1, <3>2
  <2>3. undetermined' + Begun' <= query'.number
    BY <1>a, <1>n, <1>q, <2>1 DEF LossInv
  <2> QED BY <1>a, <2>2, <2>3 DEF LossInv
<1>o. Owed \in Nat /\ Owed' \in Nat
  BY DEF Owed, Begun
<1>1. ASSUME NEW i \in Impl, NewSession(i) PROVE LossInv'
  <2>1. proc'.alive = proc.alive /\ proc'.needsRestart = proc.needsRestart
    BY <1>1, SessionProcess
  <2>2. Owed' = Owed
    BY <1>1, <2>1 DEF NewSession, Owed, Begun, InVerify
  <2> QED BY <1>1, <1>a, <1>n, <1>o, <2>2 DEF NewSession, InVerify
<1>2. ASSUME NEW i \in Impl, NEW valid \in BOOLEAN, BeginCheck(i, valid) PROVE LossInv'
  <2>1. /\ query'.number = query.number + 1 /\ query'.kind = "verify"
        /\ ~proc'.needsRestart /\ (proc'.alive <=> proc.alive \/ proc.needsRestart)
    BY <1>2, BeginProcess
  <2>2. pc = "idle" /\ pc' = "ping" /\ UNCHANGED <<undetermined, deaths>>
    BY <1>2 DEF BeginCheck
  <2>3. ~InVerify /\ InVerify'
    BY <2>1, <2>2 DEF InVerify
  <2>4. Owed' <= Owed /\ Begun = 0 /\ Begun' = 1
    BY <1>p, <2>1, <2>2, <2>3 DEF Owed, Begun
  <2>5. undetermined' + Owed' <= 2 * deaths'
    <3>1. undetermined + Owed' <= 2 * deaths
      BY <1>n, <1>d, <1>o, <2>4, Balance
    <3> QED BY <2>2, <3>1
  <2>6. undetermined' + Begun' <= query'.number
    BY <1>n, <1>q, <2>1, <2>2, <2>4 DEF LossInv
  <2> QED BY <2>1, <2>2, <2>5, <2>6 DEF LossInv
<1>3. CASE PingPong
  <2>1. /\ proc'.alive = proc.alive /\ (~proc.alive => proc'.needsRestart)
        /\ pc = "ping" /\ pc' = "check" /\ UNCHANGED <<query, undetermined, deaths>>
    BY <1>p, <1>3 DEF PingPong, Pinged, CheckOutcomeCore, Process
  <2>2. InVerify' = InVerify /\ Owed' <= Owed
    BY <2>1 DEF InVerify, Begun, Owed
  <2> QED BY <1>a, <1>o, <2>1, <2>2
<1>4. CASE GetResponse
  <2>1. PICK result \in Answers(proc) :
          /\ proc' = [proc EXCEPT !.needsRestart = @ \/ result = "OutOfMemory"]
          /\ pc' = IF result \in {"Invalid", "TimeOut", "OutOfMemory"} THEN "labels" ELSE "outcome"
    BY <1>4 DEF GetResponse
  <2>2. proc'.alive = proc.alive /\ (proc.needsRestart => proc'.needsRestart)
    BY <1>p, <2>1 DEF Process
  <2>3. pc = "check" /\ pc' \in {"labels", "outcome"} /\ UNCHANGED <<query, undetermined, deaths>>
    BY <1>4, <2>1 DEF GetResponse
  <2>4. InVerify' = InVerify /\ Owed' <= Owed
    BY <2>2, <2>3 DEF InVerify, Begun, Owed
  <2> QED BY <1>a, <1>o, <2>3, <2>4
<1>5. CASE NextCounterexample
  <2>1. proc.alive /\ pc = "labels" /\ pc' = "check" /\ UNCHANGED <<query, undetermined, deaths>>
    BY <1>5 DEF NextCounterexample, HasLabels
  <2> DEFINE items == {Asserted(query, "blocking")}
  <2>2. items \in SUBSET Item /\ proc' = Tell(proc, items)
    BY <1>5, <2>1, QueryFacts DEF NextCounterexample, ControlInv, Item
  <2>3. proc'.alive = proc.alive
    <3> HIDE DEF items
    <3> QED BY <2>2, TellFacts DEF ProcessInv, Shaped
  <2>4. InVerify' = InVerify /\ Owed' <= Owed
    BY <2>1, <2>3 DEF InVerify, Begun, Owed
  <2> QED BY <1>a, <1>o, <2>1, <2>4
<1>6. CASE NoMoreCounterexamples \/ GetUnsatCore
  <2>1. /\ proc' = proc /\ pc \in {"labels", "outcome"} /\ UNCHANGED <<query, undetermined, deaths>>
        /\ (pc' = "outcome" \/ (pc' = "core" /\ query.kind = "core"))
    BY <1>6 DEF NoMoreCounterexamples, GetUnsatCore
  <2>2. InVerify' = InVerify /\ Owed' <= Owed
    BY <2>1 DEF InVerify, Begun, Owed
  <2> QED BY <1>a, <1>o, <2>1, <2>2
<1>7. CASE EndVerify
  <2>1. InVerify /\ ~InVerify' /\ PopQuery /\ pc' \in {"idle", "verified"}
        /\ pc = "outcome" /\ UNCHANGED <<query, deaths>>
    BY <1>7 DEF EndVerify, InVerify
  <2>2. proc'.alive = proc.alive /\ (proc.needsRestart => proc'.needsRestart)
    BY <2>1, PopQueryProcess
  <2>3. undetermined' = undetermined \/ (undetermined' = undetermined + 1 /\ ~proc.alive)
    BY <1>7, <1>n DEF EndVerify, ControlInv
  <2>4. IF proc.alive THEN Owed' = 0 /\ Owed = 0 ELSE Owed' + 1 <= Owed
    BY <1>p, <2>1, <2>2 DEF Owed, Begun
  <2>5. Begun = 1 /\ Begun' = 0
    BY <2>1 DEF Begun
  <2>6. undetermined' \in Nat /\ undetermined' + Owed' <= 2 * deaths'
    <3>1. deaths' = deaths /\ undetermined' \in Nat
      BY <1>n, <2>1, <2>3
    <3>2. CASE proc.alive
      BY <1>n, <1>d, <2>3, <2>4, <3>1, <3>2
    <3>3. CASE ~proc.alive
      <4>1. Owed' + 1 <= Owed
        BY <2>4, <3>3
      <4>2. undetermined + 1 + Owed' <= 2 * deaths /\ undetermined + Owed' <= 2 * deaths
        BY <1>n, <1>d, <1>o, <4>1, Balance
      <4> QED BY <2>3, <3>1, <4>2
    <3> QED BY <3>1, <3>2, <3>3
  <2>7. undetermined' + Begun' <= query'.number
    BY <1>n, <1>q, <2>1, <2>3, <2>5 DEF LossInv
  <2> QED BY <2>1, <2>6, <2>7 DEF LossInv
<1>8. CASE UpdateUnsatCore
  <2>1. pc = "verified" /\ pc' = "check" /\ query' = [query EXCEPT !.kind = "core"]
        /\ UNCHANGED <<undetermined, deaths>>
    BY <1>8 DEF UpdateUnsatCore, CheckOutcomeCore
  <2>2. query'.kind = "core" /\ query'.number = query.number
    BY <2>1 DEF ControlInv, Query
  <2>3. proc'.alive = proc.alive /\ proc'.needsRestart = proc.needsRestart
    BY <1>8, CoreProcess DEF Same
  <2>4. ~InVerify' /\ Owed' <= Owed
    BY <2>1, <2>2, <2>3 DEF InVerify, Begun, Owed
  <2> QED BY <1>a, <1>o, <2>1, <2>2, <2>4
<1>9. CASE EmptyCore \/ CoreArrives
  <2>1. InCore /\ PopCore /\ pc' = "idle" /\ UNCHANGED <<query, undetermined, deaths>>
    BY <1>9 DEF EmptyCore, CoreArrives, InCore, ControlInv
  <2>2. proc'.alive = proc.alive /\ (proc.needsRestart => proc'.needsRestart)
    BY <2>1, PopCoreProcess
  <2>3. ~InVerify' /\ Owed' <= Owed
    BY <2>1, <2>2 DEF InVerify, Begun, Owed, InCore
  <2> QED BY <1>a, <1>o, <2>1, <2>3
<1>10. CASE Throw
  <2>1. pc' = "crashed" /\ UNCHANGED <<query, undetermined, deaths>>
    BY <1>10 DEF Throw
  <2>2. ~InVerify' /\ Owed' = 0
    BY <2>1 DEF InVerify, Begun, Owed
  <2> QED BY <1>a, <1>o, <2>1, <2>2
<1>11. CASE Close
  <2>1. pc = "idle" /\ pc' = "closed" /\ UNCHANGED <<query, undetermined, deaths>>
    BY <1>11 DEF Close
  <2>2. ~InVerify' /\ Owed' = 0
    BY <2>1 DEF InVerify, Begun, Owed
  <2> QED BY <1>a, <1>o, <2>1, <2>2
<1>12. CASE Die
  <2>1. /\ proc.alive /\ deaths < MaxDeaths /\ deaths' = deaths + 1
        /\ UNCHANGED <<pc, query, undetermined>> /\ proc' = [proc EXCEPT !.alive = FALSE]
    BY <1>12 DEF Die
  <2>2. proc'.needsRestart = proc.needsRestart
    BY <1>p, <2>1 DEF Process
  <2>3. InVerify' = InVerify /\ Owed = 0 /\ Owed' <= 2
    BY <2>1 DEF InVerify, Begun, Owed
  <2>4. Begun' = Begun
    BY <2>3 DEF Begun
  <2> QED BY <1>n, <1>o, <1>q, <2>1, <2>2, <2>3, <2>4 DEF LossInv
<1>13. CASE UNCHANGED vars
  BY <1>13 DEF vars, LossInv, Owed, Begun, InVerify
<1> QED BY <1>1, <1>2, <1>3, <1>4, <1>5, <1>6, <1>7, <1>8, <1>9, <1>10, <1>11, <1>12, <1>13
        DEF Next, Proceed

-----------------------------------------------------------------------------
DriverInv == ControlInv /\ ProcessInv /\ KnownInv /\ LossInv

LEMMA DriverInvariant == Spec => []DriverInv
<1>1. Init => DriverInv
  BY InvariantInit DEF DriverInv
<1>2. DriverInv /\ [Next]_vars => DriverInv'
  BY ControlNext, ProcessNext, KnownNext, LossNext DEF DriverInv
<1> QED BY <1>1, <1>2, PTL DEF Spec

(* Types of the driver's state and of the process; DeclCollector never     *)
(* pops its last scope, and the number of errors left never falls below 0. *)
THEOREM Types == Spec => []TypeOK
<1>1. DriverInv => TypeOK
  <2> SUFFICES ASSUME DriverInv PROVE TypeOK
    OBVIOUS
  <2>1. proc \in Process /\ proc.frames # <<>>
    BY DEF DriverInv, ProcessInv, Shaped
  <2>2. known \in Seq(SUBSET (Symbol \cup Impl)) /\ known # <<>>
    BY DEF DriverInv, KnownInv
  <2>3. undetermined \in 0 .. MaxQueries
    BY QueryFacts, DriverAssumption DEF DriverInv, LossInv, ControlInv, Begun
  <2>4. common \in SUBSET (Symbol \cup Impl)
    BY DEF DriverInv, KnownInv
  <2> QED BY <2>1, <2>2, <2>3, <2>4 DEF DriverInv, ControlInv, LossInv, TypeOK
<1> QED BY <1>1, DriverInvariant, PTL

(* Every way through CheckOutcome, CheckAssumptions and a restart closes   *)
(* the scopes it opened, in the process and in DeclCollector.              *)
THEOREM CallsCleanUp == Spec => []NothingLeftBehind
<1>1. DriverInv => NothingLeftBehind
  <2> SUFFICES ASSUME DriverInv, pc = "idle"
               PROVE  /\ proc.alive => Len(proc.frames) = 1 /\ Scope(proc) \cap Assertion = {}
                      /\ Len(known) = 1
    BY DEF NothingLeftBehind
  <2>1. ~InCore /\ Depth = 1
    BY DEF InCore, InVerify, Depth
  <2>2. Len(known) = 1
    BY <2>1 DEF DriverInv, KnownInv
  <2>3. proc.alive => Len(proc.frames) = 1
    BY <2>1 DEF DriverInv, ProcessInv, Shaped, Told
  <2>4. proc.alive => Scope(proc) \cap Assertion = {}
    BY <2>1, ScopeFacts DEF DriverInv
  <2> QED BY <2>2, <2>3, <2>4
<1> QED BY <1>1, DriverInvariant, PTL

(* Verify says Valid of valid VCs only: no assertion or excluded           *)
(* counterexample of another query, and none of an earlier round of its    *)
(* own, can make the process say unsat.                                    *)
THEOREM ValidSound == Spec => []ValidIsSound
<1>1. DriverInv => ValidIsSound
  BY DEF DriverInv, ControlInv, ValidIsSound
<1> QED BY <1>1, DriverInvariant, PTL

(* Nothing that DeclCollector skips is missing in the process, though the  *)
(* process may be newer than DeclCollector's memory.                       *)
THEOREM DeclarationsSent == Spec => []DeclarationsKnown
<1>1. DriverInv => DeclarationsKnown
  <2> SUFFICES ASSUME DriverInv, proc.alive PROVE Last(known) \cap Symbol \subseteq Scope(proc)
    BY DEF DeclarationsKnown
  <2>1. Last(known) = known[1]
    BY DEF Last, DriverInv, KnownInv
  <2>2. 1 \in DOMAIN proc.frames
    BY ProcessFacts DEF DriverInv, ProcessInv, Shaped
  <2>3. proc.frames[1] \subseteq Scope(proc)
    BY <2>2 DEF Scope
  <2> QED BY <2>1, <2>3 DEF DriverInv, KnownInv
<1> QED BY <1>1, DriverInvariant, PTL

(* However many processes die, and whenever: each death costs at most two  *)
(* calls of Verify their answer.                                           *)
THEOREM DeathsCostTwo == Spec => []TwoLostPerDeath
<1>1. DriverInv => TwoLostPerDeath
  <2> SUFFICES ASSUME DriverInv PROVE TwoLostPerDeath
    OBVIOUS
  <2>1. Owed \in Nat /\ undetermined \in Nat /\ deaths \in Nat
    BY DEF Owed, Begun, DriverInv, LossInv
  <2> QED BY <2>1 DEF DriverInv, LossInv, TwoLostPerDeath
<1> QED BY <1>1, DriverInvariant, PTL
=============================================================================
