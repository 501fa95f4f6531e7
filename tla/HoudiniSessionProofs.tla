----------------------- MODULE HoudiniSessionProofs -----------------------
(***************************************************************************)
(* Facts about programs and their VCs, sessions, refutations and work      *)
(* lists that the proofs about Houdini and ConcurrentHoudini share.        *)
(***************************************************************************)
EXTENDS HoudiniSession, Sequences, FiniteSetTheorems, TLAPS

(* An obligation of i belongs to i, and is guarded by a candidate that i   *)
(* asserts or by none.                                                     *)
LEMMA ObligationFacts ==
    ASSUME NEW i \in Impl, NEW o \in ObligationsOf[i]
    PROVE  /\ o.impl = i
           /\ o \in Obligation
           /\ o.cand # NoCand => /\ o.cand \in houdiniAssertConstants[i]
                                 /\ \E a \in AssertsIn(i) :
                                        o.cand = a.cand /\ o.kind = a.kind /\ o.at = a.at
           /\ o.cand = NoCand => o = RealObligation(i)
<1>1. o \in CandidateObligation(i) \/ o = RealObligation(i)
  BY DEF ObligationsOf
<1>2. o \in Obligation
  BY DEF Obligation
<1>3. CASE o = RealObligation(i)
  BY <1>2, <1>3 DEF RealObligation
<1>4. CASE o \in CandidateObligation(i)
  <2>1. PICK a \in AssertsIn(i) :
            o = [impl |-> i, cand |-> a.cand, kind |-> a.kind, at |-> a.at]
    BY <1>4 DEF CandidateObligation
  <2>2. a.cand \in Cand
    BY ProgramAssumption DEF AssertsIn, Annotation
  <2>3. o.cand \in houdiniAssertConstants[i]
    BY <2>1 DEF houdiniAssertConstants
  <2> QED BY <1>2, <2>1, <2>2, <2>3, ProgramAssumption
<1> QED BY <1>1, <1>3, <1>4

LEMMA CandidateTypes ==
    ASSUME NEW i \in Impl
    PROVE  /\ houdiniAssertConstants[i] \subseteq Cand
           /\ houdiniAssumeConstants[i] \subseteq Cand
BY ProgramAssumption DEF houdiniAssertConstants, houdiniAssumeConstants,
    AssertsIn, AssumesIn, Annotation

(* More true candidates never invalidate a proof.                          *)
LEMMA ProvableMonotone ==
    ASSUME NEW pf, NEW o, NEW S, NEW T, S \subseteq T, Provable(pf, o, S)
    PROVE  Provable(pf, o, T)
BY DEF Provable

(* Removing candidates that i does not assume breaks no obligation of i.   *)
LEMMA FailingFrame ==
    ASSUME NEW pf, NEW i \in Impl, NEW S, NEW T,
           S \subseteq T, T \cap houdiniAssumeConstants[i] \subseteq S
    PROVE  Failing(pf, i, S) \subseteq Failing(pf, i, T)
<1> SUFFICES ASSUME NEW o \in Failing(pf, i, S)
             PROVE  o \in Failing(pf, i, T)
  OBVIOUS
<1>1. o \in Asserted(i, T)
  BY DEF Failing, Asserted
<1>2. o.impl = i
  BY ObligationFacts DEF Failing, Asserted
<1>3. ASSUME Provable(pf, o, T) PROVE FALSE
  <2>1. PICK N \in pf[o] : N \subseteq T \cap houdiniAssumeConstants[i]
    BY <1>2, <1>3 DEF Provable
  <2>2. N \subseteq S \cap houdiniAssumeConstants[i]
    BY <2>1
  <2> QED BY <1>2, <2>2 DEF Provable, Failing
<1> QED BY <1>1, <1>3 DEF Failing

(* An obligation of an inductive set S that fails under a superset of S is *)
(* guarded by a candidate outside S, or by none.                           *)
LEMMA RefutedOutside ==
    ASSUME NEW pf, NEW i \in Impl, NEW S, NEW T, S \subseteq T, Inductive(pf, S),
           NEW o \in Failing(pf, i, T)
    PROVE  o.cand \notin S \/ o.cand = NoCand
<1> SUFFICES ASSUME o.cand \in S, o.cand # NoCand PROVE FALSE
  OBVIOUS
<1>1. o \in Asserted(i, S) /\ ~Provable(pf, o, T)
  BY DEF Failing, Asserted
<1>2. o # RealObligation(i)
  BY DEF RealObligation
<1>3. Provable(pf, o, S)
  BY <1>1, <1>2 DEF Inductive, Failing
<1> QED BY <1>1, <1>3, ProvableMonotone

(* Refuting an annotation of a candidate visits every implementation that  *)
(* assumes the candidate, except the refuting one.                         *)
LEMMA RefutationReaches ==
    ASSUME NEW i \in Impl, NEW o \in ObligationsOf[i], o.cand # NoCand,
           NEW j \in Impl, o.cand \in houdiniAssumeConstants[j]
    PROVE  j \in Visited(o) \/ j = i
<1>1. PICK a \in AssertsIn(i) : o.cand = a.cand /\ o.kind = a.kind /\ o.at = a.at
  BY ObligationFacts
<1>2. PICK b \in AssumesIn(j) : o.cand = b.cand
  BY DEF houdiniAssumeConstants
<1>3. a \in Annot /\ b \in Annot /\ a.cand = b.cand /\ a.cand \in Cand
  BY <1>1, <1>2, ProgramAssumption DEF AssertsIn, AssumesIn, Annotation
<1>4. o.impl = i
  BY ObligationFacts
<1>5. CASE a = b
  <2>1. CASE a.kind = "REQUIRES"
    BY <1>1, <1>2, <1>4, <1>5, <2>1 DEF AssertsIn, AssumesIn, Visited, Callees
  <2>2. CASE a.kind = "ENSURES"
    BY <1>1, <1>2, <1>4, <1>5, <2>2 DEF AssertsIn, AssumesIn, Visited, Callers
  <2>3. CASE a.kind = "ASSERT"
    BY <1>1, <1>2, <1>5, <2>3 DEF AssertsIn, AssumesIn
  <2> QED BY <1>3, <2>1, <2>2, <2>3, ProgramAssumption DEF Annotation
<1>6. CASE UseCrossDependencies /\ \A x \in Annot : x.cand = a.cand => x.kind = "ASSERT"
  <2>1. a.kind = "ASSERT" /\ b.kind = "ASSERT"
    BY <1>3, <1>6
  <2>2. j \in MentionedIn(a.cand)
    BY <1>2, <1>3, <2>1 DEF AssumesIn, MentionedIn
  <2>3. j \in AssumedInImpl[a.cand]
    BY <1>3, <2>2, SessionAssumption
  <2> QED BY <1>1, <1>6, <2>1, <2>3 DEF Visited
<1> QED BY <1>3, <1>5, <1>6, CandidatesAreSeparate

(* What session.Verify answers, and the obligations it can list.           *)
LEMMA AnswerFacts ==
    ASSUME NEW pf, NEW T, NEW i \in Impl, NEW answer \in Verify(pf, i, T)
    PROVE  /\ answer.outcome \in Outcome
           /\ answer.errors \subseteq Asserted(i, T)
           /\ answer.errors \subseteq ObligationsOf[i]
           /\ answer.errors \subseteq Obligation
           /\ RealErrors(answer.errors) \subseteq {RealObligation(i)}
           /\ RealErrors(answer.errors) # {} => answer.outcome = "Invalid"
           /\ answer.outcome = "Valid" => answer.errors = {} /\ Failing(pf, i, T) = {}
           /\ answer.outcome = "Invalid" /\ ~Incomplete =>
                  answer.errors # {} /\ answer.errors \subseteq Failing(pf, i, T)
<1>1. answer \in [outcome: Outcome, errors: SUBSET Asserted(i, T)]
  BY DEF Verify
<1>2. answer.errors \subseteq ObligationsOf[i]
  BY <1>1 DEF Asserted
<1>3. answer.errors \subseteq Obligation
  BY <1>2, ObligationFacts
<1>4. RealErrors(answer.errors) \subseteq {RealObligation(i)}
  BY <1>2, ObligationFacts DEF RealErrors
<1>5. answer.outcome = "Valid" => answer.errors = {} /\ Failing(pf, i, T) = {}
  BY SessionAssumption DEF Verify
<1>6. answer.outcome = "Invalid" /\ ~Incomplete =>
          answer.errors # {} /\ answer.errors \subseteq Failing(pf, i, T)
  BY SessionAssumption DEF Verify
<1>7. answer.errors # {} => answer.outcome = "Invalid"
  BY DEF Verify
<1> QED BY <1>1, <1>2, <1>3, <1>4, <1>5, <1>6, <1>7 DEF RealErrors

(* A refutation visits implementations.                                    *)
LEMMA VisitedType ==
    ASSUME NEW i \in Impl, NEW o \in ObligationsOf[i], o.cand # NoCand
    PROVE  o.cand \in Cand /\ Visited(o) \subseteq Impl
<1>1. o.cand \in Cand
  BY ObligationFacts, CandidateTypes
<1> QED BY <1>1, SessionAssumption DEF Visited, Callees, Callers

-----------------------------------------------------------------------------
(* Unsat cores.                                                            *)

(* The part of K that the VC of j assumes is still in T and alone makes    *)
(* the VC valid.                                                           *)
SufficientCore(pf, j, K, T) ==
    LET A == K \cap houdiniAssumeConstants[j]
    IN  /\ A \subseteq T
        /\ \A S \in SUBSET T : A \subseteq S => Failing(pf, j, S) = {}

(* A core that UpdateUnsatCore gets suffices without the candidates in it  *)
(* that the VC does not assume.                                            *)
LEMMA NewCoreSuffices ==
    ASSUME NEW pf, NEW i \in Impl, NEW T, NEW C \in UnsatCores(pf, i, T), ~CoreQueryMayFail
    PROVE  SufficientCore(pf, i, C, T)
<1>1. /\ C \subseteq T
      /\ \A S \in SUBSET T : C \subseteq S => Failing(pf, i, S) = {}
  BY DEF UnsatCores
<1>2. ASSUME NEW S \in SUBSET T, C \cap houdiniAssumeConstants[i] \subseteq S
      PROVE  Failing(pf, i, S) = {}
  <2>1. Failing(pf, i, S \cup C) = {}
    BY <1>1
  <2>2. (S \cup C) \cap houdiniAssumeConstants[i] \subseteq S
    BY <1>2
  <2> QED BY <2>1, <2>2, FailingFrame
<1> QED BY <1>1, <1>2 DEF SufficientCore

(* What removing candidates leaves settled: an implementation that assumes *)
(* none of them, or none of those in its core.                             *)
LEMMA RefutationKeepsSettled ==
    ASSUME NEW pf, NEW j \in Impl, NEW cores, NEW T, NEW R, Failing(pf, j, T) = {},
           cores[j] # NoCore => SufficientCore(pf, j, cores[j], T),
           \A c \in R \cap T \cap houdiniAssumeConstants[j] : ~InUnsatCore(cores, j, c)
    PROVE  /\ Failing(pf, j, T \ R) = {}
           /\ cores[j] # NoCore => SufficientCore(pf, j, cores[j], T \ R)
<1>1. CASE cores[j] = NoCore
  <2>1. /\ T \ R \subseteq T
        /\ T \cap houdiniAssumeConstants[j] \subseteq T \ R
    BY <1>1 DEF InUnsatCore
  <2> QED BY <1>1, <2>1, FailingFrame
<1>2. CASE cores[j] # NoCore
  <2> DEFINE K == cores[j] \cap houdiniAssumeConstants[j]
  <2>1. /\ K \subseteq T
        /\ \A S \in SUBSET T : K \subseteq S => Failing(pf, j, S) = {}
    BY <1>2 DEF SufficientCore
  <2>2. K \cap R = {}
    BY <2>1 DEF InUnsatCore
  <2>3. /\ K \subseteq T \ R
        /\ \A S \in SUBSET (T \ R) : K \subseteq S => Failing(pf, j, S) = {}
    BY <2>1, <2>2
  <2>4. Failing(pf, j, T \ R) = {}
    BY <2>3
  <2> QED BY <2>3, <2>4 DEF SufficientCore
<1> QED BY <1>1, <1>2

-----------------------------------------------------------------------------
(* Work lists.                                                             *)

(* Every enumeration of a set of implementations is a sequence of exactly  *)
(* its members.                                                            *)
LEMMA EnumerationType ==
    ASSUME NEW S \in SUBSET Impl, NEW t \in Bijection(1 .. Cardinality(S), S)
    PROVE  t \in Seq(S) /\ Range(t) = S /\ IsInjective(t)
<1>1. IsFiniteSet(S)
  BY FS_Subset, ProgramAssumption
<1>2. Cardinality(S) \in Nat
  BY <1>1, FS_CardinalityType
<1>3. t \in [1 .. Cardinality(S) -> S]
  BY DEF Bijection, Injection
<1>4. t \in Seq(S)
  BY <1>2, <1>3
<1>5. \A x \in S : \E n \in 1 .. Cardinality(S) : t[n] = x
  BY DEF Bijection, Surjection
<1>6. IsInjective(t)
  BY <1>3 DEF Bijection, Injection, IsInjective
<1> QED BY <1>3, <1>4, <1>5, <1>6 DEF Range

(* queue.Dequeue: the head goes, and of a queue in which nothing waits     *)
(* twice it is gone afterwards.                                            *)
LEMMA DequeueFacts ==
    ASSUME NEW S, NEW q \in Seq(S), q # <<>>
    PROVE  /\ Head(q) \in S
           /\ Head(q) \in Range(q)
           /\ Tail(q) \in Seq(S)
           /\ Range(q) \subseteq Range(Tail(q)) \cup {Head(q)}
           /\ Range(Tail(q)) \subseteq Range(q)
           /\ IsInjective(q) => IsInjective(Tail(q)) /\ Head(q) \notin Range(Tail(q))
<1>1. Len(q) \in Nat /\ Len(q) > 0 /\ Head(q) = q[1] /\ q \in [1 .. Len(q) -> S]
  OBVIOUS
<1>2. /\ Tail(q) \in Seq(S) /\ Len(Tail(q)) = Len(q) - 1
      /\ \A n \in 1 .. Len(q) - 1 : Tail(q)[n] = q[n + 1]
  BY <1>1
<1>3. DOMAIN q = 1 .. Len(q) /\ DOMAIN Tail(q) = 1 .. Len(q) - 1
  BY <1>1, <1>2
<1>4. Head(q) \in Range(q)
  BY <1>1, <1>3 DEF Range
<1>5. ASSUME NEW x \in Range(q), x # Head(q) PROVE x \in Range(Tail(q))
  <2>1. PICK n \in 1 .. Len(q) : q[n] = x
    BY <1>3 DEF Range
  <2>2. n - 1 \in 1 .. Len(q) - 1 /\ Tail(q)[n - 1] = x
    BY <1>1, <1>2, <1>5, <2>1
  <2> QED BY <1>3, <2>2 DEF Range
<1>6. ASSUME NEW x \in Range(Tail(q)) PROVE x \in Range(q)
  <2>1. PICK n \in 1 .. Len(q) - 1 : Tail(q)[n] = x
    BY <1>3 DEF Range
  <2>2. n + 1 \in 1 .. Len(q) /\ q[n + 1] = x
    BY <1>1, <1>2, <2>1
  <2> QED BY <1>3, <2>2 DEF Range
<1>7. ASSUME IsInjective(q) PROVE IsInjective(Tail(q)) /\ Head(q) \notin Range(Tail(q))
  <2>1. \A m, n \in 1 .. Len(q) : q[m] = q[n] => m = n
    BY <1>3, <1>7 DEF IsInjective
  <2>2. ASSUME NEW m \in 1 .. Len(q) - 1, NEW n \in 1 .. Len(q) - 1, Tail(q)[m] = Tail(q)[n]
        PROVE  m = n
    <3>1. m + 1 \in 1 .. Len(q) /\ n + 1 \in 1 .. Len(q) /\ q[m + 1] = q[n + 1]
      BY <1>1, <1>2, <2>2
    <3>2. m + 1 = n + 1
      BY <2>1, <3>1
    <3> QED BY <3>2
  <2>3. ASSUME NEW n \in 1 .. Len(q) - 1, Tail(q)[n] = q[1] PROVE FALSE
    <3>1. 1 \in 1 .. Len(q) /\ n + 1 \in 1 .. Len(q) /\ q[n + 1] = q[1]
      BY <1>1, <1>2, <2>3
    <3>2. n + 1 = 1
      BY <2>1, <3>1
    <3> QED BY <3>2
  <2>4. IsInjective(Tail(q))
    BY <1>3, <2>2 DEF IsInjective
  <2> QED BY <1>1, <1>3, <2>3, <2>4 DEF Range
<1> QED BY <1>1, <1>2, <1>4, <1>5, <1>6, <1>7

LEMMA AppendFacts ==
    ASSUME NEW S, NEW q \in Seq(S), NEW t \in Seq(S)
    PROVE  /\ q \o t \in Seq(S) /\ Range(q \o t) = Range(q) \cup Range(t)
           /\ IsInjective(q) /\ IsInjective(t) /\ Range(q) \cap Range(t) = {} =>
                  IsInjective(q \o t)
<1>1. /\ Len(q) \in Nat /\ Len(t) \in Nat
      /\ q \o t \in Seq(S) /\ Len(q \o t) = Len(q) + Len(t)
      /\ \A n \in 1 .. Len(q) : (q \o t)[n] = q[n]
      /\ \A n \in 1 .. Len(t) : (q \o t)[Len(q) + n] = t[n]
  OBVIOUS
<1>2. /\ DOMAIN q = 1 .. Len(q) /\ DOMAIN t = 1 .. Len(t)
      /\ DOMAIN (q \o t) = 1 .. Len(q) + Len(t)
  BY <1>1
<1>3. Range(q) \subseteq Range(q \o t)
  <2> SUFFICES ASSUME NEW n \in 1 .. Len(q) PROVE q[n] \in Range(q \o t)
    BY <1>2 DEF Range
  <2>1. n \in 1 .. Len(q) + Len(t) /\ (q \o t)[n] = q[n]
    BY <1>1
  <2> QED BY <1>2, <2>1 DEF Range
<1>4. Range(t) \subseteq Range(q \o t)
  <2> SUFFICES ASSUME NEW n \in 1 .. Len(t) PROVE t[n] \in Range(q \o t)
    BY <1>2 DEF Range
  <2>1. Len(q) + n \in 1 .. Len(q) + Len(t) /\ (q \o t)[Len(q) + n] = t[n]
    BY <1>1
  <2> QED BY <1>2, <2>1 DEF Range
<1>5. Range(q \o t) \subseteq Range(q) \cup Range(t)
  <2> SUFFICES ASSUME NEW n \in 1 .. Len(q) + Len(t)
               PROVE  (q \o t)[n] \in Range(q) \cup Range(t)
    BY <1>2 DEF Range
  <2>1. CASE n \in 1 .. Len(q)
    BY <1>1, <1>2, <2>1 DEF Range
  <2>2. CASE n \notin 1 .. Len(q)
    <3>1. n - Len(q) \in 1 .. Len(t) /\ (q \o t)[n] = t[n - Len(q)]
      BY <1>1, <2>2
    <3> QED BY <1>2, <3>1 DEF Range
  <2> QED BY <2>1, <2>2
<1>6. ASSUME IsInjective(q), IsInjective(t), Range(q) \cap Range(t) = {}
      PROVE  IsInjective(q \o t)
  <2> SUFFICES ASSUME NEW m \in 1 .. Len(q) + Len(t), NEW n \in 1 .. Len(q) + Len(t),
                      (q \o t)[m] = (q \o t)[n]
               PROVE  m = n
    BY <1>2 DEF IsInjective
  <2>1. \A k \in 1 .. Len(q) + Len(t) :
            \/ k \in 1 .. Len(q) /\ (q \o t)[k] = q[k]
            \/ k - Len(q) \in 1 .. Len(t) /\ (q \o t)[k] = t[k - Len(q)]
    <3> TAKE k \in 1 .. Len(q) + Len(t)
    <3>1. CASE k \in 1 .. Len(q)
      BY <1>1, <3>1
    <3>2. CASE k \notin 1 .. Len(q)
      BY <1>1, <3>2
    <3> QED BY <3>1, <3>2
  <2>2. \A k \in 1 .. Len(q), l \in 1 .. Len(t) : q[k] # t[l]
    BY <1>2, <1>6 DEF Range
  <2>3. CASE m \in 1 .. Len(q) /\ n \in 1 .. Len(q)
    <3>1. q[m] = q[n]
      BY <1>1, <2>3
    <3> QED BY <1>2, <1>6, <2>3, <3>1 DEF IsInjective
  <2>4. CASE m - Len(q) \in 1 .. Len(t) /\ n - Len(q) \in 1 .. Len(t)
    <3>1. ~(m \in 1 .. Len(q)) /\ ~(n \in 1 .. Len(q))
      BY <1>1, <2>4
    <3>2. t[m - Len(q)] = t[n - Len(q)]
      BY <2>1, <3>1
    <3>3. m - Len(q) = n - Len(q)
      BY <1>2, <1>6, <2>4, <3>2 DEF IsInjective
    <3> QED BY <1>1, <3>3
  <2> QED BY <2>1, <2>2, <2>3, <2>4
<1> QED BY <1>1, <1>3, <1>4, <1>5, <1>6

(* queue.Enqueue of the members of S that do not wait yet.                 *)
LEMMA EnqueueNew ==
    ASSUME NEW q \in Seq(Impl \ VcgenFailures), NEW S \in SUBSET (Impl \ VcgenFailures),
           NEW t \in Bijection(1 .. Cardinality(S \ Range(q)), S \ Range(q))
    PROVE  /\ q \o t \in Seq(Impl \ VcgenFailures)
           /\ Range(q \o t) = Range(q) \cup S
           /\ IsInjective(q) => IsInjective(q \o t)
<1> DEFINE new == S \ Range(q)
<1>1. new \in SUBSET Impl
  BY SessionAssumption
<1>2. t \in Seq(new) /\ Range(t) = new /\ IsInjective(t)
  BY <1>1, EnumerationType
<1>3. t \in Seq(Impl \ VcgenFailures)
  BY <1>2
<1> HIDE DEF new
<1>4. Range(q) \cap new = {} /\ Range(q) \cup new = Range(q) \cup S
  BY DEF new
<1> QED BY <1>2, <1>3, <1>4, AppendFacts
=============================================================================
