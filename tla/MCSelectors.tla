---------------------------- MODULE MCSelectors -----------------------------
(* Sources for Selectors.                                                  *)
EXTENDS Selectors, TLC

CONSTANTS x, y, A, B, C, D

MCFieldNames == {x, y}
MCTypeNames  == <<A, B, C, D>>

(* Embedding: up to four structs, with a field x or none, that embed one   *)
(* another.                                                                *)
Embedding == [structs |-> 4, types |-> 4, specs |-> 5, idents |-> {<<x>>},
              kinds |-> {"int"}, embeds |-> {"name"}, renames |-> {}, uses |-> 2]
(* Names that clash: fields and embedded fields, through pointers and      *)
(* renamed types.                                                          *)
Clashes   == [structs |-> 2, types |-> 3, specs |-> 3, idents |-> {<<x>>, <<x, y>>, <<A>>},
              kinds |-> {"int"}, embeds |-> {"name", "pointer"},
              renames |-> {"int", "name"}, uses |-> 2]
(* Types of fields, for identity: named, nested and pointed to.            *)
Identity  == [structs |-> 3, types |-> 2, specs |-> 4, idents |-> {<<x>>, <<y, x>>},
              kinds |-> {"int", "name", "pointer", "struct"}, embeds |-> {},
              renames |-> {}, uses |-> 2]

MCSources == {Embedding, Clashes, Identity}
=============================================================================
