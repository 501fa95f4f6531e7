----------------------------- MODULE MCCheckSat -----------------------------
(***************************************************************************)
(* Instances of CheckSat for TLC.                                          *)
(***************************************************************************)
EXTENDS CheckSat

(* Variable 2 names an assertion.  The assertions contradict each other,   *)
(* and so does the named one with the unnamed one.                         *)
MCVars == 1 .. 2
MCFormulas == {{1}, {-1}}
MCNamed == {[clause |-> {-1}, name |-> 2]}
MCAssumptions == {{}, {-1}}
=============================================================================
