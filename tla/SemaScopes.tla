----------------------------- MODULE SemaScopes -----------------------------
(***************************************************************************)
(* Block scopes and name lookup: the scopes the parser enters and leaves   *)
(* (Parser::EnterScope/ExitScope), the declaration contexts and scope      *)
(* chains of Sema (lib/Sema/SemaDecl.cpp) and the per-identifier           *)
(* declaration chains (lib/Sema/IdentifierResolver.cpp), driven by any     *)
(* sequence of declarations and blocks the grammar admits.                 *)
(*                                                                         *)
(* A Scope* is an index into the stack of open scopes.  A declaration      *)
(* context is the path of context kinds from the translation unit to it;   *)
(* two contexts with one path never hold live declarations together.       *)
(* Types, initialisers and the member tables of contexts are left out.     *)
(***************************************************************************)
EXTENDS Naturals, FiniteSets, SequencesExt

CONSTANTS
  Idents,    (* identifiers                                                *)
  Builtins,  (* those Sema::Initialize declares: int, bool, float32        *)
  Ids,       (* bound: identities of the declarations alive at once        *)
  NoDecl,    (* an absent declaration                                      *)
  MaxScopes, (* bound: nesting of scopes                                   *)
  MaxIdents  (* bound: length of an identifier list                        *)

ASSUME ConstantsAssumption ==
  /\ Builtins \subseteq Idents
  /\ NoDecl \notin [id : Ids, name : Idents]
  /\ MaxScopes \in Nat /\ MaxIdents \in Nat

VARIABLES
  scopes,      (* open scopes, translation unit first                      *)
  slots,       (* IdResolver: what the FETokenInfo of an identifier holds  *)
  curContext,  (* Sema::CurContext                                         *)
  spec,        (* declaration context of the list being declared           *)
  todo,        (* identifiers of it still to be handled                    *)
  bodyNext,    (* whether a function declaration was just acted on         *)
  closing,     (* whether ActOnPopScope is running on the top scope        *)
  left,        (* declarations it still has to take off their chains       *)
  report       (* what the last step reported, and at which scope          *)

vars == <<scopes, slots, curContext, spec, todo, bodyNext, closing, left,
          report>>

-----------------------------------------------------------------------------
(* Declaration contexts.  The three lists of identifiers (ConstSpec,       *)
(* VarSpec, FieldSpec) share the context kind of a VarSpec.                *)

Transparent  == {"Declaration", "ConstSpec", "VarSpec", "FieldSpec"}
ContextKinds == {"TU", "Function", "Struct"} \cup Transparent
DeclKinds    == {"Const", "Var", "Type", "Func", "Field"}

Decls == [id : Ids, name : Idents, kind : DeclKinds, dc : Seq(ContextKinds)]

isTransparentContext(c) == Last(c) \in Transparent

getRedeclContext(c) ==
  SubSeq(c, 1, Max({i \in 1 .. Len(c) : c[i] \notin Transparent}))

Top == Len(scopes)

(* The scope a declaration made in scope s goes to.                        *)
HasTransparentEntity(s) ==
  scopes[s].entity # << >> /\ isTransparentContext(scopes[s].entity)
TargetScope(s) == Max({i \in 1 .. s : ~ HasTransparentEntity(i)})

isDeclScope(s, d) == d \in scopes[s].decls

(* Mutant: by context, also in a function.                                 *)
isDeclInScope_ByContext(d, dc, s) ==
  getRedeclContext(d.dc) = getRedeclContext(dc)
isDeclInScope(d, dc, s) ==
  LET ctx == getRedeclContext(dc) IN
  IF Last(ctx) = "Function" THEN isDeclScope(TargetScope(s), d)
                            ELSE getRedeclContext(d.dc) = ctx

-----------------------------------------------------------------------------
(* IdentifierResolver.  A slot holds nothing, a declaration, or a list,    *)
(* the last added at its end; once there was a second declaration it stays *)
(* a list, if an empty one.                                                *)

Slots == [kind : {"none", "decl", "list"}, decls : Seq(Decls)]

NoSlot == [kind |-> "none", decls |-> << >>]

(* Mutant: at the wrong end.                                               *)
AddDecl_Front(slot, d) ==
  [kind |-> IF slot.kind = "none" THEN "decl" ELSE "list", decls |-> <<d>> \o slot.decls]
AddDecl(slot, d) ==
  [kind |-> IF slot.kind = "none" THEN "decl" ELSE "list", decls |-> Append(slot.decls, d)]

(* A list is searched from its end.  That d is the declaration in the      *)
(* slot, or in the list, is asserted.                                      *)
Holds(slot, d) == \E i \in 1 .. Len(slot.decls) : slot.decls[i] = d
RemoveDecl(slot, d) ==
  IF slot.kind = "decl" THEN NoSlot
  ELSE [slot EXCEPT !.decls =
          RemoveAt(@, Max({i \in 1 .. Len(slot.decls) : slot.decls[i] = d}))]

-----------------------------------------------------------------------------
(* Lookup of n from scope s: the last declaration of the chain, and those  *)
(* before it as long as they are of the same scope, or, when no scope from *)
(* s outwards holds the first, of the same context.                        *)

LookupName(n, s) ==
  IF slots[n].decls = << >> THEN << >> ELSE
    LET c     == slots[n].decls
        homes == {i \in 1 .. s : isDeclScope(i, Last(c))}
        Joins(d) == IF homes # {}
                      THEN isDeclScope(Max(homes), d)
                      ELSE getRedeclContext(d.dc)
                           = getRedeclContext(Last(c).dc)
        first == Min({i \in 1 .. Len(c) :
                        \A j \in i .. Len(c) - 1 : Joins(c[j])})
    IN  Reverse(SubSeq(c, first, Len(c)))

NoReport == [what |-> "nothing", old |-> {}, scope |-> 0]

Live    == UNION {scopes[i].decls : i \in 1 .. Top}
FreeIds == {id \in Ids : \A d \in Live : d.id # id}

(* PushOnScopeChains: into the scope set and onto the identifier's chain.  *)
(* Mutant: into the scope it is called with.                               *)
PushOnScopeChains_Innermost(d, s) ==
  /\ scopes' = [scopes EXCEPT ![s].decls = @ \cup {d}]
  /\ slots'  = [slots EXCEPT ![d.name] = AddDecl(@, d)]
PushOnScopeChains(d, s) ==
  /\ scopes' = [scopes EXCEPT ![TargetScope(s)].decls = @ \cup {d}]
  /\ slots'  = [slots EXCEPT ![d.name] = AddDecl(@, d)]

(* CheckRedefinitionAndPushOnScope of a new declaration d; dc is the       *)
(* context its caller passes.                                              *)
CheckRedefinitionAndPushOnScope(d, dc, s) ==
  LET previous == LookupName(d.name, s) IN
  IF previous # << >> /\ isDeclInScope(previous[1], dc, s)
    THEN /\ report' = [what |-> "redefinition", old |-> {previous[1]},
                       scope |-> TargetScope(s)]
         /\ UNCHANGED <<scopes, slots>>
    ELSE /\ PushOnScopeChains(d, s)
         /\ report' = NoReport

-----------------------------------------------------------------------------
(* The parser is between two statements, declarations or fields.           *)
Idle ==
  /\ Top > 0 /\ todo = << >> /\ ~ closing /\ ~ HasTransparentEntity(Top)
InStruct == scopes[Top].entity # << >> /\ Last(scopes[Top].entity) = "Struct"

EnterScope(entity) ==
  /\ Top < MaxScopes
  /\ scopes' = Append(scopes, [entity |-> entity, decls |-> {}])

(* PushDeclContext on a new scope, of a context made in the current one.   *)
PushDeclContext(kind) ==
  /\ EnterScope(Append(curContext, kind))
  /\ curContext' = Append(curContext, kind)

(* "func" at the top level, up to its signature.                           *)
ActOnFunctionDecl(n) ==
  /\ Idle /\ Top = 1
  /\ \E id \in FreeIds :
       CheckRedefinitionAndPushOnScope(
         [id |-> id, name |-> n, kind |-> "Func", dc |-> curContext],
         curContext, Top)
  /\ bodyNext' = TRUE
  /\ UNCHANGED <<curContext, spec, todo, closing, left>>

(* The body: also of a function whose name was already declared.           *)
ActOnStartOfFunctionDef ==
  /\ Idle /\ bodyNext
  /\ PushDeclContext("Function")
  /\ bodyNext' = FALSE /\ report' = NoReport
  /\ UNCHANGED <<slots, spec, todo, closing, left>>

(* Every other block: those of statements and clauses, and the bodies of   *)
(* methods and of function literals, which ParseBody treats the same way.  *)
(* In a struct type it is a literal in an array length.                    *)
ParseBlock ==
  /\ Idle
  /\ EnterScope(<< >>)
  /\ bodyNext' = FALSE /\ report' = NoReport
  /\ UNCHANGED <<slots, curContext, spec, todo, closing, left>>

ActOnStartOfStructType ==
  /\ Idle
  /\ PushDeclContext("Struct")
  /\ bodyNext' = FALSE /\ report' = NoReport
  /\ UNCHANGED <<slots, spec, todo, closing, left>>

-----------------------------------------------------------------------------
(* Lists of identifiers.  A handler's loop over its list is one step per   *)
(* identifier; nothing else happens until the list is done.                *)

IdentLists == UNION {[1 .. k -> Idents] : k \in 1 .. MaxIdents}

BeginList(idents, dc, old) ==
  /\ Len(idents) <= Cardinality(FreeIds)  \* bound
  /\ spec' = dc
  /\ todo' = [i \in 1 .. Len(idents) |->
                [name |-> idents[i], old |-> idents[i] \in old]]
  /\ bodyNext' = FALSE /\ report' = NoReport

ActOnConstSpec(idents) ==
  /\ Idle /\ ~ InStruct
  /\ BeginList(idents, curContext \o <<"Declaration", "ConstSpec">>, {})
  /\ UNCHANGED <<scopes, slots, curContext, closing, left>>

ActOnVarSpec(idents) ==
  /\ Idle /\ ~ InStruct
  /\ BeginList(idents, curContext \o <<"Declaration", "VarSpec">>, {})
  /\ UNCHANGED <<scopes, slots, curContext, closing, left>>

ActOnTypeSpec(n) ==
  /\ Idle /\ ~ InStruct
  /\ LET dc == Append(curContext, "Declaration") IN
     \E id \in FreeIds :
       CheckRedefinitionAndPushOnScope(
         [id |-> id, name |-> n, kind |-> "Type", dc |-> dc], dc, Top)
  /\ bodyNext' = FALSE
  /\ UNCHANGED <<curContext, spec, todo, closing, left>>

(* a, b := ...: the names already declared in this scope are assigned, the *)
(* others declared; an error when all are old.                             *)
AlreadyHere(n) ==
  LET previous == LookupName(n, Top) IN
  previous # << >> /\ isDeclInScope(previous[1], curContext, Top)

ActOnShortVarDeclStmt(idents) ==
  /\ Idle /\ Top > 1 /\ ~ InStruct
  /\ IF \A i \in 1 .. Len(idents) : AlreadyHere(idents[i])
       THEN /\ report' = [what |-> "no_new_vars", scope |-> Top,
                          old  |-> {LookupName(idents[i], Top)[1] :
                                      i \in 1 .. Len(idents)}]
            /\ bodyNext' = FALSE
            /\ UNCHANGED <<spec, todo>>
       ELSE BeginList(idents, Append(curContext, "VarSpec"),
                      {n \in Idents : AlreadyHere(n)})
  /\ UNCHANGED <<scopes, slots, curContext, closing, left>>

(* A field list has a scope of its own, whose entity is transparent.       *)
ActOnFieldDecl(idents) ==
  /\ Idle /\ InStruct
  /\ PushDeclContext("FieldSpec")
  /\ BeginList(idents, Append(curContext, "FieldSpec"), {})
  /\ UNCHANGED <<slots, closing, left>>

(* An embedded field is named by its type, which must resolve to one.      *)
NamesAType(n, s) ==
  LookupName(n, s) # << >> /\ LookupName(n, s)[1].kind = "Type"

ActOnAnonymousField(n) == NamesAType(n, Top) /\ ActOnFieldDecl(<<n>>)

KindOf(dc) == CASE Last(dc) = "ConstSpec" -> "Const"
                [] Last(dc) = "VarSpec"   -> "Var"
                [] Last(dc) = "FieldSpec" -> "Field"

(* The context handed to the redefinition check with the list's entries.   *)
ContextOfCheck(dc) == IF Last(dc) = "ConstSpec" THEN Front(dc) ELSE dc

DeclareIdent ==
  /\ todo # << >>
  /\ todo' = Tail(todo)
  /\ spec' = IF Len(todo) = 1 THEN << >> ELSE spec
  /\ IF Head(todo).old
       THEN report' = NoReport /\ UNCHANGED <<scopes, slots>>
       ELSE \E id \in FreeIds :
              CheckRedefinitionAndPushOnScope(
                [id |-> id, name |-> Head(todo).name, kind |-> KindOf(spec),
                 dc |-> spec], ContextOfCheck(spec), Top)
  /\ UNCHANGED <<curContext, bodyNext, closing, left>>

(* End of ActOnFieldDecl or ActOnAnonymousField and exit of its scope,     *)
(* which holds no declaration.                                             *)
(* Mutant: the context is not popped.                                      *)
FinishFieldDecl_KeepsContext ==
  /\ Top > 0 /\ HasTransparentEntity(Top) /\ todo = << >>
  /\ scopes' = Front(scopes)
  /\ report' = NoReport
  /\ UNCHANGED <<slots, curContext, spec, todo, bodyNext, closing, left>>
FinishFieldDecl ==
  /\ Top > 0 /\ HasTransparentEntity(Top) /\ todo = << >>
  /\ curContext' = Front(curContext)
  /\ scopes' = Front(scopes)
  /\ report' = NoReport
  /\ UNCHANGED <<slots, spec, todo, bodyNext, closing, left>>

-----------------------------------------------------------------------------
(* Leaving a scope: ActOnFinishFunctionBody or ActOnFinishStructType,      *)
(* which pop the context, then ExitScope.  ActOnPopScope goes through a    *)
(* set ordered by address, hence in any order.                             *)

(* Mutant: leaving a plain block pops a context too.                       *)
LeaveContext_Always == Front(curContext)
LeaveContext ==
  IF Top > 1 /\ scopes[Top].entity # << >> THEN Front(curContext)
                                           ELSE curContext

ExitScope ==
  /\ Idle
  /\ curContext' = LeaveContext
  /\ closing' = TRUE /\ left' = scopes[Top].decls
  /\ bodyNext' = FALSE /\ report' = NoReport
  /\ UNCHANGED <<scopes, slots, spec, todo>>

(* ActOnPopScope, one declaration of the set.                              *)
Forget(d) ==
  /\ closing /\ d \in left
  /\ Holds(slots[d.name], d)
  /\ slots' = [slots EXCEPT ![d.name] = RemoveDecl(@, d)]
  /\ left' = left \ {d}
  /\ UNCHANGED <<scopes, curContext, spec, todo, bodyNext, closing, report>>

PopScope ==
  /\ closing /\ left = {}
  /\ scopes' = Front(scopes)
  /\ closing' = FALSE
  /\ UNCHANGED <<slots, curContext, spec, todo, bodyNext, left, report>>

-----------------------------------------------------------------------------
(* ParseSourceFile has entered the translation unit's scope and            *)
(* Sema::Initialize has declared the builtin types in it.                  *)
Init ==
  \E b \in [Builtins -> Ids] :
    LET Builtin(n) == [id |-> b[n], name |-> n, kind |-> "Type",
                       dc |-> <<"TU">>] IN
    /\ \A m, n \in Builtins : b[m] = b[n] => m = n
    /\ scopes = << [entity |-> <<"TU">>,
                    decls  |-> {Builtin(n) : n \in Builtins}] >>
    /\ slots = [n \in Idents |->
                  IF n \in Builtins THEN AddDecl(NoSlot, Builtin(n)) ELSE NoSlot]
    /\ curContext = <<"TU">>
    /\ spec = << >> /\ todo = << >>
    /\ bodyNext = FALSE
    /\ closing = FALSE /\ left = {}
    /\ report = NoReport

Next ==
  \/ \E n \in Idents : ActOnFunctionDecl(n) \/ ActOnTypeSpec(n)
                       \/ ActOnAnonymousField(n)
  \/ \E idents \in IdentLists :
       \/ ActOnConstSpec(idents) \/ ActOnVarSpec(idents)
       \/ ActOnShortVarDeclStmt(idents) \/ ActOnFieldDecl(idents)
  \/ ActOnStartOfFunctionDef \/ ParseBlock \/ ActOnStartOfStructType
  \/ DeclareIdent \/ FinishFieldDecl
  \/ ExitScope \/ PopScope
  \/ \E d \in left : Forget(d)

Spec == Init /\ [][Next]_vars

-----------------------------------------------------------------------------
(* Type invariant; a slot that holds a declaration holds one, and only an  *)
(* empty slot or a list holds none.                                        *)
Contexts == Seq(ContextKinds)
TypeOK ==
  /\ scopes \in Seq([entity : Contexts, decls : SUBSET Decls])
  /\ slots \in [Idents -> Slots]
  /\ \A n \in Idents : /\ slots[n].kind = "none" => slots[n].decls = << >>
                       /\ slots[n].kind = "decl" => Len(slots[n].decls) = 1
  /\ curContext \in Contexts \ {<< >>}
  /\ spec \in Contexts
  /\ todo \in Seq([name : Idents, old : BOOLEAN])
  /\ bodyNext \in BOOLEAN /\ closing \in BOOLEAN
  /\ left \in SUBSET Decls
  /\ report \in [what : {"nothing", "redefinition", "no_new_vars"},
                 old : SUBSET Decls, scope : Nat]

(* The declarations an open scope still has on the chains.                 *)
Held(i) == IF closing /\ i = Top THEN left ELSE scopes[i].decls

(* The slots and the scopes agree: a slot holds exactly the declarations *)
(* of its identifier that open scopes hold, those of inner scopes after    *)
(* those of outer ones and no two of one scope.  Everything about lookup   *)
(* rests on it, and it is kept up by PushOnScopeChains and ActOnPopScope   *)
(* together with the redefinition check.                                   *)
ChainsMirrorScopes ==
  /\ \A n \in Idents : \A i \in 1 .. Len(slots[n].decls) :
       /\ slots[n].decls[i].name = n
       /\ \E s \in 1 .. Top : slots[n].decls[i] \in Held(s)
  /\ \A s \in 1 .. Top : \A d \in Held(s) :
       \E i \in 1 .. Len(slots[d.name].decls) : slots[d.name].decls[i] = d
  /\ \A n \in Idents : \A i, j \in 1 .. Len(slots[n].decls) :
       \A s, t \in 1 .. Top :
         (i < j /\ slots[n].decls[i] \in Held(s) /\ slots[n].decls[j] \in Held(t))
           => s < t

(* CurContext is the context of the innermost scope that has one: the      *)
(* pushes and pops of the handlers stay paired with the scopes the parser  *)
(* opens and closes, so that PopDeclContext leaves the function or struct  *)
(* it is meant to leave and never the translation unit.                    *)
Owner(s) ==
  scopes[Max({i \in 1 .. s : scopes[i].entity # << >>})].entity
ContextFollowsScopes ==
  LET s == IF closing THEN Top - 1 ELSE Top IN
  curContext = IF s > 0 THEN Owner(s) ELSE <<"TU">>

(* When the current context is a function, or the scope declared into has  *)
(* a context of its own, a redefinition (or an assignment taken for a      *)
(* redeclaration) is reported only against declarations of the very scope  *)
(* the new name was headed for; outer ones are shadowed in silence.        *)
ScopedContext ==
  \/ Last(getRedeclContext(curContext)) = "Function"
  \/ scopes[report.scope].entity # << >>
RedefinitionIsLocal ==
  report.what # "nothing" /\ ScopedContext =>
    report.old \subseteq scopes[report.scope].decls

(* The comment in CheckRedefinitionAndPushOnScope: the check is whether    *)
(* the result of the lookup "is in the topmost scope".                     *)
RedefinitionInTopmostScope ==
  report.what # "nothing" => report.old \subseteq scopes[report.scope].decls

(* The scopes and chains implement ScopeMap: what a name resolves to is    *)
(* always the declaration of the innermost open block, entering a block    *)
(* changes the meaning of nothing, a block declares a name at most once    *)
(* and leaving it brings back what it shadowed.                            *)
Abs(d) == [id |-> d.id, name |-> d.name]
Blocks ==
  [s \in 1 .. (IF Top > 0 /\ HasTransparentEntity(Top) THEN Top - 1 ELSE Top)
     |-> {Abs(d) : d \in Held(s)}]
View ==
  [n \in Idents |-> IF LookupName(n, Top) = << >> THEN NoDecl
                    ELSE Abs(LookupName(n, Top)[1])]

Map == INSTANCE ScopeMap WITH blocks <- Blocks, view <- View
ImplementsScopeMap == Map!Spec
=============================================================================
