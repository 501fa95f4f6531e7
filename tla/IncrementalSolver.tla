------------------------- MODULE IncrementalSolver -------------------------
(***************************************************************************)
(* What a client of a solver may rely on: a stack of frames of asserted    *)
(* clauses, and checks whose answer is right for the assertions of all     *)
(* frames.  A check may always answer unknown.  This is the interface of   *)
(* class solver, which Boogie's prover driver uses through SMT-LIB.        *)
(***************************************************************************)
EXTENDS Propositional, Sequences

CONSTANTS
    Background,     \* the set of clauses that are asserted first
    Formulas,       \* the clauses that clients assert
    AssumptionSets  \* the sets of literals under which they check

VARIABLES
    frames,   \* the sets of clauses asserted since each push
    asked,    \* the assumptions of the check being made, or of the last one
    answer,   \* what the last call returned, "none" unless it was a check
    core      \* the assumptions that the last check found inconsistent

vars == <<frames, asked, answer, core>>

Asserted == UNION {frames[i] : i \in DOMAIN frames}

Init ==
    /\ frames = <<Background>>
    /\ asked = {}
    /\ answer = "none"
    /\ core = {}

(* A call other than a check, and a check that begins, forgets the answer  *)
(* of the check before.                                                    *)
Forget == answer' = "none" /\ core' = {}

Assert(f) ==
    /\ frames' = [frames EXCEPT ![Len(frames)] = @ \cup {f}]
    /\ Forget
    /\ UNCHANGED asked

Push ==
    /\ frames' = Append(frames, {})
    /\ Forget
    /\ UNCHANGED asked

Pop(n) ==
    /\ frames' = SubSeq(frames, 1, Len(frames) - n)
    /\ Forget
    /\ UNCHANGED asked

Check(A) ==
    /\ asked' = A
    /\ Forget
    /\ UNCHANGED frames

AnswerSat ==
    /\ Satisfiable(Asserted \cup Units(asked))
    /\ answer' = "sat"
    /\ core' = {}
    /\ UNCHANGED <<frames, asked>>

AnswerUnsat ==
    /\ core' \in SUBSET asked
    /\ ~Satisfiable(Asserted \cup Units(core'))
    /\ answer' = "unsat"
    /\ UNCHANGED <<frames, asked>>

AnswerUnknown ==
    /\ answer' = "unknown"
    /\ core' = {}
    /\ UNCHANGED <<frames, asked>>

Next ==
    \/ \E f \in Formulas : Assert(f)
    \/ Push
    \/ \E n \in 1 .. (Len(frames) - 1) : Pop(n)
    \/ \E A \in AssumptionSets : Check(A)
    \/ answer = "none" /\ (AnswerSat \/ AnswerUnsat \/ AnswerUnknown)

Spec == Init /\ [][Next]_vars
=============================================================================
