----------------------------- MODULE StructTypes ----------------------------
(***************************************************************************)
(* Struct types as Sema builds them (lib/Sema/SemaDecl.cpp): declaration   *)
(* contexts with their list of members and the lookup table built lazily   *)
(* from it (lib/AST/DeclBase.cpp), the iterators over fields (AST/Decl.h)  *)
(* and the types made from the declarations (lib/AST/ASTContext.cpp).      *)
(*                                                                         *)
(* A struct is a number, in the order they are opened in the source; its   *)
(* members are FieldSpecs, each the sequence of the fields it declares.    *)
(* A member is named by its struct and its place in it.  Only the parts of *)
(* a type that these operations look at are kept: int stands for every     *)
(* type that is no struct, and nothing is recursive, because a type's name *)
(* is declared after the type itself.                                      *)
(***************************************************************************)
EXTENDS Naturals, SequencesExt

CONSTANTS
  FieldNames, (* identifiers used for fields only                          *)
  TypeNames,  (* the identifiers declared as types, in that order          *)
  Sources     (* bounds: what a source may be made of, see SourceFields    *)

Names == FieldNames \cup ToSet(TypeNames)

SourceFields ==
  [structs : Nat,                   (* struct types in it                  *)
   types   : 0 .. Len(TypeNames),   (* names it declares for types         *)
   specs   : Nat,                   (* field declarations, in all of them  *)
   idents  : SUBSET Seq(Names),     (* identifier lists of these           *)
   kinds   : SUBSET {"int", "name", "pointer", "struct"},  (* their types  *)
   embeds  : SUBSET {"name", "pointer"},  (* types of anonymous fields     *)
   renames : SUBSET {"int", "name"},  (* other types it declares names for *)
   uses    : Nat]                   (* variables and selectors             *)

ASSUME SourcesAssumption == \A s \in Sources : s \in SourceFields
ASSUME NamesAssumption ==
  /\ TypeNames \in Seq(ToSet(TypeNames)) /\ TypeNames # << >>
  /\ IsInjective(TypeNames)

VARIABLES
  source,   (* the member of Sources at hand                               *)
  structs,  (* the StructTypeDecls: sequences of sequences of fields       *)
  tables,   (* LookupPtr of each: its flag, whether there is a table, it   *)
  open,     (* the structs being parsed, innermost first                   *)
  made,     (* the struct just parsed, whose use comes next, or 0          *)
  types,    (* TypeSpecDecls: the type each name was declared for          *)
  canon,    (* canonical struct of each type made from a struct, or 0      *)
  variable, (* type of the variable declared last, as a set of one or none *)
  uses      (* number of variables and selectors so far                    *)

structVars == <<source, structs, tables, open, made, types, canon, variable,
                uses>>

-----------------------------------------------------------------------------
(* Types: int, a named type (by its place in types), a struct, and         *)
(* pointers to the latter two.                                             *)

IntType      == [kind |-> "int", of |-> 0, named |-> FALSE]
Name(k)      == [kind |-> "name", of |-> k, named |-> TRUE]
Struct(s)    == [kind |-> "struct", of |-> s, named |-> FALSE]
PointerTo(t) == [kind |-> "pointer", of |-> t.of, named |-> t.named]
Pointee(t)   == IF t.named THEN Name(t.of) ELSE Struct(t.of)

Pointed(t) == IF t.kind = "pointer" THEN Pointee(t) ELSE t

(* NameType's UnderlyingType: resolved when the type is made, through      *)
(* names of names.                                                         *)
Resolved(t, specs) ==
  LET Of[k \in DOMAIN specs] ==
        IF specs[k].kind = "name" THEN Of[specs[k].of] ELSE specs[k]
  IN  IF t.kind = "name" THEN Of[t.of] ELSE t
Underlying(t) == Resolved(t, types)

(* getAs<StructType>: the struct of a type, or 0.                          *)
StructOf(t) == IF Underlying(t).kind = "struct" THEN Underlying(t).of ELSE 0

getCanonicalType(t) ==
  CASE t.kind = "struct"                  -> Struct(canon[t.of])
    [] t.kind = "pointer" /\ ~ t.named    -> PointerTo(Struct(canon[t.of]))
    [] OTHER                              -> t

(* getAnonFieldDecl's name: that of its type.                              *)
EmbeddedName(t) == TypeNames[t.of]

-----------------------------------------------------------------------------
(* The members of a struct and its lookup table.                           *)

(* The items of a sequence that are in S, in their order: SelectSeq for a  *)
(* set, written so because the prover knows nothing of SelectSeq.          *)
Among(items, S) ==
  FlattenSeq([i \in DOMAIN items |->
                IF items[i] \in S THEN <<items[i]>> ELSE << >>])

Members(s) ==
  FlattenSeq([i \in DOMAIN structs[s] |->
                [j \in DOMAIN structs[s][i] |-> <<i, j>>]])
Member(s, m) == structs[s][m[1]][m[2]]

Named(s, n) ==
  LET ms == Members(s) IN Among(ms, {m \in ToSet(ms) : Member(s, m).name = n})

EmptyMap == [n \in Names |-> << >>]
NewTable == [lazy |-> FALSE, exists |-> FALSE, map |-> EmptyMap]

(* buildLookup, through the transparent FieldSpecs.                        *)
buildLookup(s) ==
  IF tables[s].lazy
    THEN [lazy |-> FALSE, exists |-> TRUE, map |-> [n \in Names |-> Named(s, n)]]
    ELSE tables[s]

(* What DeclContext::lookup returns.                                       *)
lookup(s, n) == buildLookup(s).map[n]

(* makeDeclVisibleInContextWithFlags of the members ms just added: a table *)
(* that exists is kept up, else a later lookup will build it.              *)
(* Mutant: a FieldSpec keeps it to itself.                                 *)
makeDeclVisible_FieldSpecOnly(table, s, added) == table
makeDeclVisible(table, s, added) ==
  IF table.exists
    THEN [table EXCEPT !.map =
            [n \in Names |->
               @[n] \o Among(added, {m \in ToSet(added) : Member(s, m).name' = n})]]
    ELSE [table EXCEPT !.lazy = @ \/ added # << >>]

-----------------------------------------------------------------------------
(* The iterators.  Both go from FieldSpec to FieldSpec; one of them takes  *)
(* the first member of each for granted, to the other a FieldSpec without  *)
(* members is the end.                                                     *)

Intact(s)    == \A i \in DOMAIN structs[s] : structs[s][i] # << >>
FirstGap(s)  == SelectInSeq(structs[s], LAMBDA spec : spec = << >>)
UpToGap(s)   == IF Intact(s) THEN Len(structs[s]) ELSE FirstGap(s) - 1

(* Members field_iterator visits.                                          *)
fields(s) ==
  LET ms   == Members(s)
      last == UpToGap(s)
  IN  Among(ms, {m \in ToSet(ms) : m[1] <= last})

(* Members anon_field_iterator visits, before it ends or dereferences the  *)
(* missing member of a FieldSpec.                                          *)
anon_fields(s) ==
  LET ms == fields(s) IN Among(ms, {m \in ToSet(ms) : Member(s, m).anon /\ m[2] = 1})

-----------------------------------------------------------------------------
(* Uniquing: getStructType finds a struct with the same profile, or makes  *)
(* this one canonical.                                                     *)

(* Mutant: the names of the fields are not part of it.                     *)
Profile_Nameless(s) ==
  LET fs == fields(s) IN
  [i \in DOMAIN fs |-> <<0, getCanonicalType(Member(s, fs[i]).type)>>]
Profile(s) ==
  LET fs == fields(s) IN
  [i \in DOMAIN fs |-> <<Member(s, fs[i]).name,
                         getCanonicalType(Member(s, fs[i]).type)>>]

(* ASTContext::getStructType: the canonical type is the first one made.    *)
getStructType(s) ==
  LET same == {r \in DOMAIN structs :
                 canon[r] = r /\ Profile(r) = Profile(s)} IN
  IF s = 0 \/ canon[s] # 0 THEN canon
  ELSE [canon EXCEPT ![s] = IF same = {} THEN s ELSE Min(same)]

(* getTypeDeclType: makes the types behind a type declaration.             *)
getTypeDeclType(t) == getStructType(StructOf(Pointed(t)))

-----------------------------------------------------------------------------
(* Struct types in the source.                                             *)

ActOnStartOfStructType ==
  /\ made = 0
  /\ Len(structs) < source.structs /\ uses = 0  \* bound: types come first
  /\ open # << >> => "struct" \in source.kinds
  /\ structs' = Append(structs, << >>)
  /\ tables' = Append(tables, NewTable)
  /\ canon' = Append(canon, 0)
  /\ open' = <<Len(structs) + 1>> \o open
  /\ UNCHANGED <<source, made, types, variable, uses>>

(* ActOnTypeName finds the type of a name unless a field of a struct still *)
(* open hides it; that is an error, and nothing is declared.               *)
Visible == {k \in DOMAIN types :
              \A s \in ToSet(open) : Named(s, TypeNames[k]) = << >>}

(* The type written after a list of fields, or after a name: the struct    *)
(* just parsed, if one was.                                                *)
WrittenTypes(kinds) ==
  IF made # 0 THEN {Struct(made)} \cup
                   (IF "pointer" \in kinds THEN {PointerTo(Struct(made))} ELSE {})
  ELSE (IF "int" \in kinds THEN {IntType} ELSE {})
       \cup (IF "name" \in kinds THEN {Name(k) : k \in Visible} ELSE {})
       \cup (IF "pointer" \in kinds THEN {PointerTo(Name(k)) : k \in Visible}
             ELSE {})

SpecsMade == Len(FlattenSeq(structs))

(* A FieldSpec of the innermost open struct: CheckRedefinition... drops a  *)
(* field whose name the struct has, or the list before it; the FieldSpec   *)
(* stays.                                                                  *)
NewFields(idents, t, anon) ==
  LET fresh == {k \in DOMAIN idents : /\ Named(Head(open), idents[k]) = << >>
                                      /\ \A j \in 1 .. k - 1 : idents[j] # idents[k]}
      kept  == Among([k \in DOMAIN idents |-> k], fresh)
  IN  [i \in DOMAIN kept |-> [name |-> idents[kept[i]], type |-> t, anon |-> anon]]

AddFieldSpec(idents, t, anon) ==
  LET s   == Head(open)
      new == NewFields(idents, t, anon)
  IN
  /\ SpecsMade < source.specs  \* bound
  /\ structs' = [structs EXCEPT ![s] = Append(@, new)]
  /\ tables' = [tables EXCEPT ![s] =
       makeDeclVisible(@, s, [j \in DOMAIN new |-> <<Len(structs[s]) + 1, j>>])]
  /\ canon' = getTypeDeclType(t)
  /\ made' = 0
  /\ UNCHANGED <<source, open, types, variable, uses>>

ActOnFieldDecl ==
  /\ open # << >>
  /\ \E idents \in source.idents, t \in WrittenTypes(source.kinds) :
       AddFieldSpec(idents, t, FALSE)

ActOnAnonymousField ==
  /\ open # << >> /\ made = 0
  /\ \E t \in WrittenTypes(source.embeds) : AddFieldSpec(<<EmbeddedName(t)>>, t, TRUE)

ActOnFinishStructType ==
  /\ open # << >> /\ made = 0
  /\ made' = Head(open)
  /\ open' = Tail(open)
  /\ UNCHANGED <<source, structs, tables, types, canon, variable,
                uses>>

(* "type N T"; the type itself is made when the name is first used.        *)
ActOnTypeSpec ==
  /\ open = << >> /\ Len(types) < source.types  \* bound
  /\ \E t \in WrittenTypes(source.renames) :
       /\ types' = Append(types, t)
       /\ made' = 0
  /\ UNCHANGED <<source, structs, tables, open, canon, variable,
                uses>>

(* "var v T"                                                               *)
ActOnVarSpec ==
  /\ open = << >> /\ uses < source.uses  \* bound
  /\ uses' = uses + 1
  /\ \E t \in WrittenTypes({"name", "pointer"}) :
       canon' = getTypeDeclType(t) /\ variable' = {t}
  /\ made' = 0
  /\ UNCHANGED <<source, structs, tables, open, types>>

StructInit ==
  /\ source \in Sources
  /\ structs = << >> /\ tables = << >> /\ open = << >>
  /\ made = 0 /\ types = << >> /\ canon = << >>
  /\ variable = {} /\ uses = 0

StructNext ==
  \/ ActOnStartOfStructType \/ ActOnFieldDecl \/ ActOnAnonymousField
  \/ ActOnFinishStructType \/ ActOnTypeSpec \/ ActOnVarSpec
=============================================================================
