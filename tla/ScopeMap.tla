------------------------------ MODULE ScopeMap ------------------------------
(***************************************************************************)
(* What name lookup promises, without the machinery: a stack of blocks,    *)
(* each declaring a name at most once, and at every moment the view a      *)
(* program text has of the names, which is that of the innermost block     *)
(* declaring each.  SemaScopes, the scopes and identifier chains of        *)
(* lib/Sema, and MinimalAction, the lists of entries of lib/Parse,         *)
(* implement this specification.                                           *)
(*                                                                         *)
(* A block is closed in two stages: no further declaration may enter it,   *)
(* and its declarations are then forgotten in any order, each uncovering   *)
(* the one it shadowed; only an empty block is dropped.                    *)
(***************************************************************************)
EXTENDS Naturals, Sequences

CONSTANTS
  Idents,  (* names                                                        *)
  Ids,     (* identities of declarations                                   *)
  NoDecl   (* what an undeclared name means                                *)

VARIABLES
  blocks,   (* the open blocks, outermost first: sets of declarations      *)
  closing,  (* whether the innermost block is being closed                 *)
  view      (* what each name means                                        *)

vars == <<blocks, closing, view>>

Decls == [id : Ids, name : Idents]

DeclaredIn(n, block) == \E d \in block : d.name = n

(* The declaration of n in the innermost of the blocks bs that has one.    *)
Innermost(n, bs) ==
  IF \E i \in 1 .. Len(bs) : DeclaredIn(n, bs[i])
    THEN LET i == CHOOSE i \in 1 .. Len(bs) :
                    /\ DeclaredIn(n, bs[i])
                    /\ \A j \in i + 1 .. Len(bs) : ~ DeclaredIn(n, bs[j])
         IN  CHOOSE d \in bs[i] : d.name = n
    ELSE NoDecl

NamesDistinct(block) == \A d, e \in block : d.name = e.name => d = e

Init ==
  /\ Len(blocks) = 1
  /\ blocks[1] \subseteq Decls /\ NamesDistinct(blocks[1])
  /\ ~ closing
  /\ view = [n \in Idents |-> Innermost(n, blocks)]

Open ==
  /\ ~ closing
  /\ blocks' = Append(blocks, {})
  /\ UNCHANGED <<closing, view>>

Declare(d) ==
  LET top == Len(blocks) IN
  /\ top > 0 /\ ~ closing
  /\ \A i \in 1 .. top : d \notin blocks[i]
  /\ ~ DeclaredIn(d.name, blocks[top])
  /\ blocks' = [blocks EXCEPT ![top] = @ \cup {d}]
  /\ view' = [view EXCEPT ![d.name] = d]
  /\ UNCHANGED closing

Close ==
  /\ Len(blocks) > 0 /\ ~ closing
  /\ closing' = TRUE
  /\ UNCHANGED <<blocks, view>>

Forget(d) ==
  LET top == Len(blocks) IN
  /\ closing
  /\ d \in blocks[top]
  /\ blocks' = [blocks EXCEPT ![top] = @ \ {d}]
  /\ view' = [view EXCEPT ![d.name] = Innermost(d.name, blocks')]
  /\ UNCHANGED closing

Drop ==
  /\ closing
  /\ blocks[Len(blocks)] = {}
  /\ blocks' = SubSeq(blocks, 1, Len(blocks) - 1)
  /\ closing' = FALSE
  /\ UNCHANGED view

Next ==
  \/ Open \/ Close \/ Drop
  \/ \E d \in Decls : Declare(d) \/ Forget(d)

Spec == Init /\ [][Next]_vars
=============================================================================
