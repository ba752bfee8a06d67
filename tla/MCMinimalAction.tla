-------------------------- MODULE MCMinimalAction --------------------------
(* Instances of MinimalAction: two identifiers, one of them a builtin.     *)
EXTENDS MinimalAction, TLC

CONSTANTS x, int, e1, e2, e3, e4, e5

MCIdents   == {x, int}
MCBuiltins == {int}
MCIds      == {e1, e2, e3, e4, e5}

Symmetry == Permutations(MCIds)
=============================================================================
