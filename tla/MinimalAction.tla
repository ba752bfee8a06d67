---------------------------- MODULE MinimalAction ---------------------------
(***************************************************************************)
(* What an identifier is without Sema: MinimalAction                       *)
(* (lib/Parse/MinimalAction.cpp) keeps a list of TypeNameInfo entries for  *)
(* each identifier, one for each declaration of a type, function or        *)
(* package, and pops them as scopes are left.  The scopes are the parser's *)
(* (include/gong/Parse/Scope.h), whose objects are recycled through a      *)
(* cache of fixed size (lib/Parse/Parser.cpp).                             *)
(*                                                                         *)
(* A scope remembers the identifiers declared in it as a set, the lists    *)
(* one entry per declaration: a second declaration of a name in one scope  *)
(* leaves an entry behind.  As long as there is none this implements       *)
(* ScopeMap, as SemaScopes does.                                           *)
(***************************************************************************)
EXTENDS Naturals, FiniteSets, SequencesExt

CONSTANTS
  Idents,         (* identifiers                                           *)
  Builtins,       (* those that are declared from the start, as types      *)
  Ids,            (* bound: identities of the entries alive at once        *)
  NoDecl,         (* an absent declaration                                 *)
  ScopeCacheSize, (* capacity of the cache                                 *)
  MaxScopes,      (* bound: nesting of scopes                              *)
  MaxAgain        (* bound: redeclarations of a name                       *)

ASSUME ConstantsAssumption ==
  /\ Builtins \subseteq Idents
  /\ NoDecl \notin [id : Ids, name : Idents]
  /\ ScopeCacheSize \in Nat /\ MaxScopes \in Nat \ {0} /\ MaxAgain \in Nat

VARIABLES
  objects,   (* the Scope objects there are, by address                    *)
  CurScope,  (* address of the innermost open scope, or 0                  *)
  cache,     (* ScopeCache: addresses of the objects to be used again      *)
  entries,   (* the TypeNameInfo list of each identifier, last first added *)
  importing, (* whether the import declarations may still go on            *)
  bodyNext,  (* whether a function declaration was just acted on           *)
  closing,   (* whether ActOnPopScope is running on the current scope      *)
  left,      (* identifiers it has not come to                             *)
  valid,     (* whether the source declares no name twice in one scope     *)
  again      (* of each identifier: how often it did so                    *)

vars == <<objects, CurScope, cache, entries, importing, bodyNext, closing,
          left, valid, again>>

-----------------------------------------------------------------------------
(* Scope objects.  Of their flags the program sets FnScope, ClassScope and *)
(* DeclScope, hence of their parent links only FnParent is ever used.      *)

None      == 0
Addresses == 1 .. MaxScopes + ScopeCacheSize
Flags     == {"FnScope", "ClassScope", "DeclScope"}

(* Scope::Init.  Mutant: the function link is set in scopes of functions   *)
(* only.                                                                   *)
ScopeInit_KeepsFnParent(addr, flags) ==
  [AnyParent    |-> CurScope,
   Depth        |-> IF CurScope = None THEN 0 ELSE objects[CurScope].Depth + 1,
   Flags        |-> flags,
   FnParent     |-> IF "FnScope" \in flags THEN addr
                    ELSE IF addr \in DOMAIN objects THEN objects[addr].FnParent ELSE None,
   DeclsInScope |-> {}]
ScopeInit(addr, flags) ==
  [AnyParent    |-> CurScope,
   Depth        |-> IF CurScope = None THEN 0 ELSE objects[CurScope].Depth + 1,
   Flags        |-> flags,
   FnParent     |-> IF "FnScope" \in flags THEN addr
                    ELSE IF CurScope = None THEN None ELSE objects[CurScope].FnParent,
   DeclsInScope |-> {}]

(* The open scopes, translation unit first.                                *)
Stack ==
  LET Path[d \in 0 .. MaxScopes] ==
        IF d = 0 THEN <<CurScope>>
        ELSE LET p == Path[d - 1] IN
             IF Head(p) = None THEN p ELSE <<objects[Head(p)].AnyParent>> \o p
  IN  Tail(Path[MaxScopes])
Top == Len(Stack)

EnterScope(flags) ==
  /\ CurScope # None => objects[CurScope].Depth + 1 < MaxScopes  \* bound
  /\ IF cache # << >>
       THEN /\ CurScope' = Last(cache)
            /\ cache' = Front(cache)
       ELSE /\ CurScope' = Min(Addresses \ DOMAIN objects)
            /\ UNCHANGED cache
  /\ objects' = [a \in DOMAIN objects \cup {CurScope'} |->
                   IF a = CurScope' THEN ScopeInit(a, flags) ELSE objects[a]]

-----------------------------------------------------------------------------
(* The lists of entries.                                                   *)

Kinds   == {"Type", "Func", "Package"}
Entries == [id : Ids, kind : Kinds]

InUse   == UNION {{entries[n][i].id : i \in 1 .. Len(entries[n])} : n \in Idents}
FreeIds == Ids \ InUse

(* classifyIdentifier.                                                     *)
classifyIdentifier(n) == IF entries[n] = << >> THEN "Unknown" ELSE Last(entries[n]).kind

(* AddEntry, and AddDecl on the scope s.  Mutant: the entry is put below    *)
(* those there are.                                                        *)
Declare_Below(n, kind, s) ==
  /\ \E id \in FreeIds :
       entries' = [entries EXCEPT ![n] = <<[id |-> id, kind |-> kind]>> \o @]
  /\ objects' = [objects EXCEPT ![s].DeclsInScope = @ \cup {n}]
  /\ again' = [again EXCEPT ![n] = IF n \in objects[s].DeclsInScope THEN @ + 1 ELSE @]
Declare(n, kind, s) ==
  /\ \E id \in FreeIds :
       entries' = [entries EXCEPT ![n] = Append(@, [id |-> id, kind |-> kind])]
  /\ objects' = [objects EXCEPT ![s].DeclsInScope = @ \cup {n}]
  /\ again' = [again EXCEPT ![n] = IF n \in objects[s].DeclsInScope THEN @ + 1 ELSE @]

MayDeclare(n, s) ==
  /\ CurScope # None /\ ~ closing
  /\ n \in objects[s].DeclsInScope => ~ valid /\ again[n] < MaxAgain  \* bound

TUScope == Stack[1]

(* Of a package; "import . path" declares nothing.                         *)
ActOnImportSpec(n) ==
  /\ importing /\ MayDeclare(n, TUScope)
  /\ Declare(n, "Package", TUScope)
  /\ UNCHANGED <<CurScope, cache, importing, bodyNext, closing, left, valid>>

ActOnTypeSpec(n) ==
  /\ MayDeclare(n, CurScope)
  /\ "ClassScope" \notin objects[CurScope].Flags
  /\ Declare(n, "Type", CurScope)
  /\ importing' = FALSE /\ bodyNext' = FALSE
  /\ UNCHANGED <<CurScope, cache, closing, left, valid>>

ActOnFunctionDecl(n) ==
  /\ MayDeclare(n, CurScope) /\ Top = 1
  /\ Declare(n, "Func", CurScope)
  /\ importing' = FALSE /\ bodyNext' = TRUE
  /\ UNCHANGED <<CurScope, cache, closing, left, valid>>

-----------------------------------------------------------------------------
(* The scopes the parser opens.                                            *)

Open(flags) ==
  /\ CurScope # None /\ ~ closing
  /\ EnterScope(flags)
  /\ importing' = FALSE /\ bodyNext' = FALSE
  /\ UNCHANGED <<entries, closing, left, valid, again>>

ParseFunctionBody == bodyNext /\ Open({"FnScope", "DeclScope"})
(* Statements, clauses and fields; bodies of methods and literals.         *)
ParseBlock        == Open({"DeclScope"})
ParseStructType   == Open({"ClassScope", "DeclScope"})

(* ExitScope calls ActOnPopScope if the scope declares anything, which     *)
(* goes through the set in an order of its own.                            *)
ExitScope ==
  /\ CurScope # None /\ ~ closing
  /\ closing' = TRUE
  /\ left' = objects[CurScope].DeclsInScope
  /\ importing' = FALSE /\ bodyNext' = FALSE
  /\ UNCHANGED <<objects, CurScope, cache, entries, valid, again>>

(* One identifier of the set: its last entry goes.                         *)
(* Mutant: all its entries.                                                *)
ActOnPopScope_All(n) ==
  /\ closing /\ n \in left
  /\ entries' = [entries EXCEPT ![n] = << >>]
  /\ left' = left \ {n}
  /\ UNCHANGED <<objects, CurScope, cache, importing, bodyNext, closing, valid, again>>
ActOnPopScope(n) ==
  /\ closing /\ n \in left
  /\ entries' = [entries EXCEPT ![n] = Front(@)]
  /\ left' = left \ {n}
  /\ UNCHANGED <<objects, CurScope, cache, importing, bodyNext, closing, valid, again>>

(* The rest of ExitScope: the object goes to the cache if there is room.   *)
RecycleScope ==
  /\ closing /\ left = {}
  /\ CurScope' = objects[CurScope].AnyParent
  /\ IF Len(cache) = ScopeCacheSize
       THEN /\ objects' = [a \in DOMAIN objects \ {CurScope} |-> objects[a]]
            /\ UNCHANGED cache
       ELSE /\ cache' = Append(cache, CurScope)
            /\ UNCHANGED objects
  /\ closing' = FALSE
  /\ UNCHANGED <<entries, importing, bodyNext, left, valid, again>>

(* A source that does not start with "package": ParseSourceFile returns    *)
(* before anything is declared, and leaves its scope open.                 *)
ReturnedAtOnce ==
  /\ importing /\ Top = 1 /\ ~ closing
  /\ objects[CurScope].DeclsInScope = Builtins
  /\ \A n \in Idents : again[n] = 0

(* ~Parser, which deletes the scope that may be open, without leaving it:  *)
(* the entries of the builtins stay.                                       *)
DestroyParser ==
  /\ CurScope = None \/ ReturnedAtOnce
  /\ objects' = [a \in DOMAIN objects \ ({CurScope} \cup ToSet(cache)) |-> objects[a]]
  /\ CurScope' = None
  /\ cache' = << >>
  /\ UNCHANGED <<entries, importing, bodyNext, closing, left, valid, again>>

(* Whether that is how the parser went.                                    *)
Abandoned == CurScope = None /\ importing

(* Initialize has entered the scope of the translation unit and            *)
(* ActOnTranslationUnitScope has declared the builtins in it.              *)
Init ==
  /\ objects = [a \in {1} |-> [AnyParent |-> None, Depth |-> 0, Flags |-> {"DeclScope"},
                               FnParent |-> None, DeclsInScope |-> Builtins]]
  /\ CurScope = 1 /\ cache = << >>
  /\ \E id \in [Builtins -> Ids] :
       /\ \A m, n \in Builtins : id[m] = id[n] => m = n
       /\ entries = [n \in Idents |-> IF n \in Builtins
                       THEN <<[id |-> id[n], kind |-> "Type"]>> ELSE << >>]
  /\ importing = TRUE /\ bodyNext = FALSE
  /\ closing = FALSE /\ left = {}
  /\ valid \in BOOLEAN /\ again = [n \in Idents |-> 0]

Next ==
  \/ \E n \in Idents : \/ ActOnImportSpec(n) \/ ActOnTypeSpec(n) \/ ActOnFunctionDecl(n)
                       \/ ActOnPopScope(n)
  \/ ParseFunctionBody \/ ParseBlock \/ ParseStructType
  \/ ExitScope \/ RecycleScope \/ DestroyParser

Spec == Init /\ [][Next]_vars

-----------------------------------------------------------------------------
(* Every Scope object is either open or in the cache, once, so that none   *)
(* leaks or is in use twice; and an open one holds nothing of an earlier   *)
(* life: it is as deep as it is nested and its function is the innermost   *)
(* one around it.                                                          *)
Around(i) == {j \in 1 .. i : "FnScope" \in objects[Stack[j]].Flags}
RecycledScopesAreFresh ==
  /\ Len(cache) <= ScopeCacheSize
  /\ DOMAIN objects = ToSet(Stack) \cup ToSet(cache)
  /\ ToSet(Stack) \cap ToSet(cache) = {}
  /\ Cardinality(DOMAIN objects) = Top + Len(cache)
  /\ \A i \in 1 .. Top :
       /\ objects[Stack[i]].Depth = i - 1
       /\ objects[Stack[i]].FnParent =
            IF Around(i) = {} THEN None ELSE Stack[Max(Around(i))]

(* The names the i-th open scope still has entries for.                    *)
Held(i) == IF closing /\ i = Top THEN left ELSE objects[Stack[i]].DeclsInScope

(* Each name has just one entry for every open scope that declares it, and *)
(* one more for each time a scope declared it again: ActOnPopScope always  *)
(* finds an entry ("This decl didn't get pushed??"), and what it leaves    *)
(* behind, to be taken for a declaration in scope, is what redeclarations  *)
(* pushed and nothing else; only a parser that returned at once leaves the *)
(* builtins', which no scope holds any more.                               *)
LeftBehind(n) == IF Abandoned /\ n \in Builtins THEN 1 ELSE 0
EntriesAccounted ==
  \A n \in Idents :
    Len(entries[n]) = Cardinality({i \in 1 .. Top : n \in Held(i)}) + again[n] + LeftBehind(n)

(* In a source that declares no name twice in a scope, the lists implement *)
(* ScopeMap: an identifier is classified by its declaration in the         *)
(* innermost scope that has one, and a scope that is left is forgotten.    *)
(* One that was deleted without being left is still a block to them.       *)
Entry(n, i) == [id |-> entries[n][i].id, name |-> n]
Blocks ==
  IF Abandoned THEN << {Entry(n, 1) : n \in Builtins} >>
  ELSE [i \in 1 .. Top |->
          {Entry(n, Cardinality({j \in 1 .. i : n \in Held(j)})) : n \in Held(i)}]
View ==
  [n \in Idents |-> IF classifyIdentifier(n) = "Unknown" THEN NoDecl
                    ELSE Entry(n, Len(entries[n]))]

Map == INSTANCE ScopeMap WITH
         blocks  <- IF valid THEN Blocks ELSE << {} >>,
         view    <- IF valid THEN View ELSE [n \in Idents |-> NoDecl],
         closing <- valid /\ closing
ImplementsScopeMap == Map!Spec
=============================================================================
