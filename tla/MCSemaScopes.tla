---------------------------- MODULE MCSemaScopes ----------------------------
(* Instances of SemaScopes: two identifiers, one of them a builtin type.   *)
EXTENDS SemaScopes, TLC

CONSTANTS x, int, d1, d2, d3, d4

MCIdents   == {x, int}
MCBuiltins == {int}

(* Declarations alive at once: four with lists of two identifiers; three   *)
(* where scopes nest deeply.                                               *)
MCIds    == {d1, d2, d3, d4}
MCFewIds == {d1, d2, d3}

Symmetry    == Permutations(MCIds)
FewSymmetry == Permutations(MCFewIds)
=============================================================================
