------------------------------ MODULE Selectors -----------------------------
(***************************************************************************)
(* Selectors, x.f, on the struct types of StructTypes: the search for a    *)
(* promoted field (lib/AST/PromotedFields.cpp), the LookupResult it fills  *)
(* (Sema/Lookup.h, lib/Sema/SemaLookup.cpp), and what ActOnSelectorExpr    *)
(* reports (lib/Sema/SemaExprMember.cpp).                                  *)
(***************************************************************************)
EXTENDS StructTypes, FiniteSets

VARIABLE answer  (* what the last selector was, and what became of it      *)

vars == <<structVars, answer>>

-----------------------------------------------------------------------------
(* PromotedFieldPaths.  A path is the sequence of embedded fields it goes  *)
(* through, and the declarations found at its end.                         *)

Hop(s, m)   == [struct |-> s, member |-> m]
Decls(s, n) == {Hop(s, m) : m \in ToSet(lookup(s, n))}

Target(s, m) == StructOf(Pointed(Member(s, m).type))

(* lookupInBases: depth first, in order of declaration; a struct that has  *)
(* the field is not searched further.                                      *)
PathsThrough(found, s, m, n) ==
  LET t == Target(s, m) IN
  IF t = 0 THEN << >>
  ELSE IF Decls(t, n) # {} THEN << [hops |-> <<Hop(s, m)>>, decls |-> Decls(t, n)] >>
  ELSE [i \in DOMAIN found[t] |-> [found[t][i] EXCEPT !.hops = <<Hop(s, m)>> \o @]]

lookupInBases(from, n) ==
  LET Search[s \in 1 .. from] ==
        LET ms == anon_fields(s) IN
        FlattenSeq([i \in DOMAIN ms |-> PathsThrough(Search, s, ms[i], n)])
  IN  Search[from]

(* The structs whose table that search consults, and those whose embedded  *)
(* fields it goes through.                                                 *)
Consulted(from, n) ==
  LET Below[s \in 1 .. from] ==
        LET next == {Target(s, m) : m \in ToSet(anon_fields(s))} \ {0} IN
        next \cup UNION {Below[t] : t \in {u \in next : Decls(u, n) = {}}}
  IN  {from} \cup IF Decls(from, n) = {} THEN Below[from] ELSE {}
Searched(from, n) == {s \in Consulted(from, n) : Decls(s, n) = {}}

(* Mutant: the longest.                                                    *)
shortestPaths_Longest(paths) ==
  Among(paths, {p \in ToSet(paths) :
                  \A q \in ToSet(paths) : Len(p.hops) >= Len(q.hops)})
shortestPaths(paths) ==
  Among(paths, {p \in ToSet(paths) :
                  \A q \in ToSet(paths) : Len(p.hops) <= Len(q.hops)})

-----------------------------------------------------------------------------
(* LookupResult.  The kind is settled by resolveKind; the ambiguity and    *)
(* the paths are set by setAmbiguousPromotedFields only.                   *)

NotFound == [kind |-> "NotFound", ambiguity |-> "none", decls |-> {}, paths |-> << >>]

resolveKind(decls) ==
  [NotFound EXCEPT !.decls = decls,
     !.kind = IF decls = {} THEN "NotFound"
              ELSE IF Cardinality(decls) = 1 THEN "Found" ELSE "Ambiguous",
     !.ambiguity = IF Cardinality(decls) > 1 THEN "Reference" ELSE "none"]

(* Mutant: a single declaration at the end of all paths resolves.          *)
setAmbiguousPromotedFields_Resolved(paths) ==
  resolveKind(UNION {paths[i].decls : i \in DOMAIN paths})
setAmbiguousPromotedFields(paths) ==
  [resolveKind(UNION {paths[i].decls : i \in DOMAIN paths}) EXCEPT
     !.kind = "Ambiguous", !.ambiguity = "PromotedFields", !.paths = paths]

LookupQualifiedName(s, n) ==
  LET shortest == shortestPaths(lookupInBases(s, n)) IN
  IF Decls(s, n) # {} THEN resolveKind(Decls(s, n))
  ELSE IF shortest = << >> THEN NotFound
  ELSE IF Len(shortest) > 1 THEN setAmbiguousPromotedFields(shortest)
  ELSE resolveKind(shortest[1].decls)

(* DiagnoseAmbiguousLookup, from the destructor of the LookupResult.       *)
AmbiguityNotes(r) == [i \in DOMAIN r.paths |-> r.paths[i].hops]

-----------------------------------------------------------------------------
(* ActOnSelectorExpr.                                                      *)

NoAnswer == [asked |-> FALSE, struct |-> 0, name |-> TypeNames[1], result |-> NotFound,
             member |-> {}, errors |-> << >>, notes |-> << >>, crashed |-> FALSE]

(* BuildMemberReferenceExpr of a result: the member, or what is reported.  *)
(* Mutant: an ambiguous result is missing, too.                            *)
Errors_Twice(r) ==
  (IF r.decls = {} \/ r.ambiguity = "PromotedFields" THEN <<"no_field">> ELSE << >>)
  \o (IF r.ambiguity = "PromotedFields" THEN <<"ambiguous_name">> ELSE << >>)
Errors(r) ==
  (IF r.decls = {} THEN <<"no_field">> ELSE << >>)
  \o (IF r.ambiguity = "PromotedFields" THEN <<"ambiguous_name">> ELSE << >>)

LookupMember(s, n) ==
  LET r == LookupQualifiedName(s, n) IN
  /\ tables' = [t \in DOMAIN tables |->
                  IF t \in Consulted(s, n) THEN buildLookup(t) ELSE tables[t]]
  /\ answer' = [NoAnswer EXCEPT !.asked = TRUE, !.struct = s, !.name = n,
                  !.result = r, !.errors = Errors(r), !.notes = AmbiguityNotes(r),
                  !.member = IF r.kind = "Found" THEN r.decls ELSE {}]

(* A missing member is dereferenced: the process ends.                     *)
Crash(s, n) ==
  /\ answer' = [NoAnswer EXCEPT !.asked = TRUE, !.struct = s, !.name = n,
                  !.crashed = TRUE]
  /\ UNCHANGED tables

NotAStruct(n) ==
  /\ answer' = [NoAnswer EXCEPT !.asked = TRUE, !.name = n,
                  !.errors = <<"typecheck_field_reference_struct">>]
  /\ UNCHANGED tables

ActOnSelectorExpr ==
  /\ open = << >> /\ made = 0 /\ uses < source.uses  \* bound
  /\ uses' = uses + 1
  /\ \E t \in variable, n \in Names :
       LET s == StructOf(Pointed(t)) IN
       IF s = 0 THEN NotAStruct(n)
       ELSE IF \A u \in Searched(s, n) : Intact(u) THEN LookupMember(s, n)
       ELSE Crash(s, n)
  /\ UNCHANGED <<source, structs, open, made, types, canon, variable>>

Init == StructInit /\ answer = NoAnswer
Next ==
  /\ ~ answer.crashed
  /\ \/ StructNext /\ answer' = NoAnswer
     \/ ActOnSelectorExpr

Spec == Init /\ [][Next]_vars

-----------------------------------------------------------------------------
(* The assertions of LookupResult::sanityImpl and the llvm_unreachable of  *)
(* DiagnoseAmbiguousLookup: kind, declarations and paths of a result agree *)
(* and two declarations never compete in one struct.                       *)
ResultSane(r) ==
  /\ r.kind = "NotFound" => r.decls = {}
  /\ r.kind = "Found" => Cardinality(r.decls) = 1
  /\ r.kind = "Ambiguous" => r.decls # {} /\ r.ambiguity = "PromotedFields"
  /\ (r.paths # << >>) <=> (r.kind = "Ambiguous")

(* Types, canonical types and members refer to what exists, and the result *)
(* of the last lookup is one that its class allows.                        *)
Types   == {IntType} \cup {Name(k) : k \in DOMAIN types}
           \cup {PointerTo(Name(k)) : k \in DOMAIN types}
           \cup {Struct(s) : s \in DOMAIN structs}
           \cup {PointerTo(Struct(s)) : s \in DOMAIN structs}
Fields  == [name : Names, type : Types, anon : BOOLEAN]
TypeOK ==
  /\ source \in Sources
  /\ structs \in Seq(Seq(Seq(Fields)))
  /\ tables \in [DOMAIN structs -> [lazy : BOOLEAN, exists : BOOLEAN,
                                    map : [Names -> Seq(Nat \X Nat)]]]
  /\ canon \in [DOMAIN structs -> 0 .. Len(structs)]
  /\ open \in Seq(DOMAIN structs)
  /\ made \in 0 .. Len(structs)
  /\ types \in Seq(Types) /\ variable \in SUBSET Types
  /\ uses \in Nat
  /\ answer.struct \in 0 .. Len(structs) /\ answer.name \in Names
  /\ ResultSane(answer.result)

(* A lookup in the lazily built table of a struct is a search of the list  *)
(* of its members, through its FieldSpecs, at any time; and finds one      *)
(* declaration at most.                                                    *)
TablesFollowLists ==
  \A s \in DOMAIN structs : \A n \in Names :
    lookup(s, n) = Named(s, n) /\ Len(Named(s, n)) <= 1

(* Go's rule for selectors: x.f is the field f at the shallowest depth     *)
(* where there is one, level by level through the embedded fields; there   *)
(* must be exactly one at that depth, counted by the ways to reach it.     *)
Embedded(s) == {m \in ToSet(Members(s)) :
                  Member(s, m).anon /\ Target(s, m) # 0}
Ways(from) ==   \* the chains of embedded fields, by their length
  LET Of[d \in 0 .. Len(structs)] ==
        IF d = 0 THEN {[hops |-> << >>, end |-> from]}
        ELSE UNION {{[hops |-> Append(w.hops, Hop(w.end, m)),
                      end  |-> Target(w.end, m)] : m \in Embedded(w.end)}
                      : w \in Of[d - 1]}
  IN  Of
Shallowest(s, n) ==
  LET ways   == Ways(s)
      At(d)  == {w \in ways[d] : Named(w.end, n) # << >>}
      depths == {d \in 0 .. Len(structs) : At(d) # {}}
  IN  IF depths = {} THEN {} ELSE At(Min(depths))

Answered == answer.asked /\ answer.struct # 0 /\ ~ answer.crashed

SelectorRule ==
  Answered =>
    LET ways == Shallowest(answer.struct, answer.name) IN
    answer.member = IF Cardinality(ways) = 1
                      THEN {Hop(w.end, m) : w \in ways,
                              m \in ToSet(Named((CHOOSE w \in ways : TRUE).end,
                                                answer.name))}
                      ELSE {}

(* A selector without a member is reported once, and one that is ambiguous *)
(* with a note for each of the fields that compete, by each way to it.     *)
FailureExplained ==
  answer.asked /\ ~ answer.crashed =>
    /\ Len(answer.errors) = IF answer.member = {} THEN 1 ELSE 0
    /\ answer.errors = <<"ambiguous_name">> =>
         /\ Len(answer.notes) > 1
         /\ Len(answer.notes) = Cardinality(ToSet(answer.notes))
         /\ ToSet(answer.notes) =
              {w.hops : w \in Shallowest(answer.struct, answer.name)}

(* Two struct types have one canonical type just when they have the same   *)
(* sequence of fields, with the same names and identical types; in which   *)
(* order the types were made does not matter.  An embedded field counts as *)
(* one with the name of its type.                                          *)
SameFields ==
  LET n == Len(structs)
      Same[p \in (1 .. n) \X (1 .. n)] ==
        LET ms == Members(p[1])
            mt == Members(p[2])
            Agree(a, b) ==
              /\ a.kind = b.kind /\ a.named = b.named
              /\ IF a.kind = "int" \/ a.named THEN a.of = b.of
                 ELSE Same[<<a.of, b.of>>]
        IN  /\ Len(ms) = Len(mt)
            /\ \A i \in DOMAIN ms :
                 /\ Member(p[1], ms[i]).name = Member(p[2], mt[i]).name
                 /\ Agree(Member(p[1], ms[i]).type, Member(p[2], mt[i]).type)
  IN  Same
IdenticalTypes ==
  (\A s \in DOMAIN structs : Intact(s)) =>
    \A s, t \in {u \in DOMAIN structs : canon[u] # 0} :
      canon[s] = canon[t] <=> SameFields[<<s, t>>]

(* The comments of the iterators, "Iterates over FieldDecls." and          *)
(* "Iterates over AnonFieldDecls.": in a finished struct they reach all.   *)
IteratorsReachFields ==
  \A s \in DOMAIN structs \ ToSet(open) :
    /\ fields(s) = Members(s)
    /\ ToSet(anon_fields(s)) = {m \in ToSet(Members(s)) : Member(s, m).anon}
=============================================================================
