---------------------------- MODULE MCSmtContext ----------------------------
(***************************************************************************)
(* Instances of SmtContext for TLC.                                        *)
(***************************************************************************)
EXTENDS SmtContext

(* In both instances variable 1 is an assumption, which guards a clause as *)
(* the labels of Boogie's candidate assertions do.                         *)
ScopesAssumptions == {{}, {1}}
SearchAssumptions == {{1}}

(* Clauses without a model under the assumption, or without one at all,    *)
(* asserted in any order and in any scopes.                                *)
ScopesVars == 1 .. 3
ScopesBackground == <<{2, 3}>>
ScopesFormulas == {{2, -3}, {-2, 3}, {-1, -2, -3}, {-2}}

(* A longer search: conflicts at levels from which the solver jumps back   *)
(* over several levels, and far enough from the base level to restart.     *)
SearchVars == 1 .. 5
SearchBackground == <<{-1, -2, -3, 4}, {-1, -2, -3, -4}, {2, 5}>>
SearchFormulas == {{2, -5}}
=============================================================================
