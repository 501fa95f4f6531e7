--------------------------- MODULE MCSMTLibProver ---------------------------
(***************************************************************************)
(* Two implementations that share a symbol, and each have one of their own;*)
(* the existential constants are first mentioned by the assignment.        *)
(***************************************************************************)
EXTENDS SMTLibProver, TLC

CONSTANTS i1, i2, background, shared, s1, s2, constants

TwoSymbols == i1 :> {shared, s1} @@ i2 :> {shared, s2}
=============================================================================
