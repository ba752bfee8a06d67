-------------------------- MODULE SemaScopesProofs --------------------------
(***************************************************************************)
(* What holds of the scopes and chains for any set of identifiers and any  *)
(* nesting: contexts, scopes and chains stay in step.                      *)
(***************************************************************************)
EXTENDS SemaScopes, SharedLemmas, TLAPS, SequenceTheorems

-----------------------------------------------------------------------------
(* The inductive invariant.                                                *)

(* The context of the innermost scope, from the s-th outwards, that has    *)
(* one: Owner of any sequence of scopes.                                   *)
OwnerIn(sc, s) == sc[Max({i \in 1 .. s : sc[i].entity # << >>})].entity

Entity(i) == scopes[i].entity

(* Each context was made in the one around it; only the scope of a list of *)
(* fields, which is always the innermost, has a transparent one.           *)
EntitiesInv ==
  /\ Top > 0 => Entity(1) = <<"TU">>
  /\ \A i \in 2 .. Top : Entity(i) # << >> =>
       \E k \in {"Function", "Struct", "FieldSpec"} :
         Entity(i) = Append(OwnerIn(scopes, i - 1), k) /\ (k = "FieldSpec" => i = Top)
  /\ \A i, j \in 1 .. Top : i < j /\ Entity(j) # << >> => Len(Entity(i)) < Len(Entity(j))

(* Declarations have identities of their own and are in one scope, that of *)
(* the context they belong to; the scope of a field list has none.         *)
DeclsInv ==
  /\ \A i \in 1 .. Top : \A d \in scopes[i].decls :
       getRedeclContext(d.dc) = OwnerIn(scopes, i)
  /\ \A i, j \in 1 .. Top : \A d \in scopes[i].decls : \A e \in scopes[j].decls :
       d.id = e.id => i = j /\ d = e
  /\ Top > 0 /\ HasTransparentEntity(Top) => scopes[Top].decls = {}

(* While a scope is being left nothing else goes on.                       *)
ClosingInv ==
  /\ closing => /\ Top > 0 /\ ~ HasTransparentEntity(Top) /\ todo = << >>
                /\ left \subseteq scopes[Top].decls
                /\ report.what = "nothing"
  /\ ~ closing => left = {}

(* A list is declared in a context made for it in the current one.         *)
TodoInv ==
  todo # << >> =>
    /\ Top > 0
    /\ IF HasTransparentEntity(Top) THEN spec = curContext
       ELSE spec \in {curContext \o <<"Declaration", "ConstSpec">>,
                      curContext \o <<"Declaration", "VarSpec">>,
                      Append(curContext, "VarSpec")}

IInv ==
  /\ TypeOK /\ EntitiesInv /\ ContextFollowsScopes /\ DeclsInv /\ ClosingInv /\ TodoInv
  /\ ChainsMirrorScopes /\ RedefinitionIsLocal
-----------------------------------------------------------------------------
(* Contexts.                                                               *)

ScopeRecords == [entity : Contexts, decls : SUBSET Decls]

(* k is the innermost of the first s scopes to have a context.             *)
IsOwner(sc, s, k) ==
  k \in 1 .. s /\ sc[k].entity # << >> /\ \A j \in k + 1 .. s : sc[j].entity = << >>

LEMMA OwnerIs ==
  ASSUME NEW sc \in Seq(ScopeRecords), NEW s \in 1 .. Len(sc), NEW k, IsOwner(sc, s, k)
  PROVE  OwnerIn(sc, s) = sc[k].entity
<1> DEFINE S == {i \in 1 .. s : sc[i].entity # << >>}
<1>1. Len(sc) \in Nat
  BY LenProperties
<1>2. s \in Nat /\ k \in S /\ S \in SUBSET (1 .. s) /\ \A y \in S : k >= y
  BY <1>1 DEF IsOwner
<1>3. Max(S) = k
  <2> HIDE DEF S
  <2> QED
    BY <1>2, MaxIsGreatest
<1> QED
  BY <1>3 DEF OwnerIn

LEMMA OwnerExists ==
  ASSUME NEW sc \in Seq(ScopeRecords), NEW s \in 1 .. Len(sc), sc[1].entity # << >>
  PROVE  \E k : IsOwner(sc, s, k) /\ OwnerIn(sc, s) = sc[k].entity
<1> DEFINE S == {i \in 1 .. s : sc[i].entity # << >>}
<1>1. Len(sc) \in Nat
  BY LenProperties
<1>2. s \in Nat /\ 1 \in S /\ S \in SUBSET (1 .. s)
  BY <1>1
<1>3. Max(S) \in S /\ \A y \in S : Max(S) >= y
  <2> HIDE DEF S
  <2> QED
    BY <1>2, MaxIsGreatest
<1>4. PICK k \in S : k = Max(S)
  BY <1>3
<1>5. ASSUME NEW j \in k + 1 .. s PROVE sc[j].entity = << >>
  <2>1. j \notin S
    BY <1>2, <1>3, <1>4
  <2> QED
    BY <2>1, <1>2, <1>4
<1> QED
  BY <1>4, <1>5 DEF OwnerIn, IsOwner

LEMMA OwnerOfPrefix ==
  ASSUME NEW sc \in Seq(ScopeRecords), NEW sd \in Seq(ScopeRecords),
         NEW s \in 1 .. Len(sc), s <= Len(sd), sc[1].entity # << >>,
         \A i \in 1 .. s : sc[i].entity = sd[i].entity
  PROVE  OwnerIn(sc, s) = OwnerIn(sd, s)
<1>1. PICK k : IsOwner(sc, s, k) /\ OwnerIn(sc, s) = sc[k].entity
  BY OwnerExists
<1>2. Len(sc) \in Nat /\ Len(sd) \in Nat
  BY LenProperties
<1>3. IsOwner(sd, s, k)
  BY <1>1, <1>2 DEF IsOwner
<1>4. s \in 1 .. Len(sd)
  BY <1>2
<1>5. OwnerIn(sd, s) = sd[k].entity
  BY <1>3, <1>4, OwnerIs
<1> QED
  BY <1>1, <1>2, <1>5 DEF IsOwner

LEMMA TransparentKinds == Transparent \subseteq ContextKinds
BY DEF ContextKinds

(* The redeclaration context of one made inside another by transparent     *)
(* steps only.                                                             *)
LEMMA RedeclContext ==
  ASSUME NEW c \in Contexts, c # << >>, c[Len(c)] \notin Transparent,
         NEW t \in Seq(Transparent)
  PROVE  getRedeclContext(c \o t) = c
<1>1. t \in Contexts
  BY TransparentKinds, SeqMonotonic DEF Contexts
<1> DEFINE u == c \o t
           S == {i \in 1 .. Len(u) : u[i] \notin Transparent}
<1>2. /\ Len(c) \in Nat \ {0} /\ Len(t) \in Nat
      /\ \A i \in 1 .. Len(t) : t[i] \in Transparent
  BY EmptySeq, LenProperties, ElementOfSeq DEF Contexts
<1>3. /\ u \in Contexts /\ Len(u) = Len(c) + Len(t)
      /\ \A i \in 1 .. Len(u) : u[i] = IF i <= Len(c) THEN c[i] ELSE t[i - Len(c)]
  BY <1>1, ConcatProperties DEF Contexts
<1> HIDE DEF u
<1>4. Len(c) \in S
  BY <1>2, <1>3
<1>5. \A i \in S : Len(c) >= i
  <2> SUFFICES ASSUME NEW i \in S, ~(Len(c) >= i) PROVE FALSE
    BY <1>2, <1>3
  <2>1. i - Len(c) \in 1 .. Len(t) /\ u[i] = t[i - Len(c)]
    BY <1>2, <1>3
  <2> QED
    BY <1>2, <2>1
<1>6. Len(u) \in Nat /\ S \in SUBSET (1 .. Len(u))
  BY <1>2, <1>3
<1>7. Max(S) = Len(c)
  <2> HIDE DEF S
  <2> QED
    BY <1>4, <1>5, <1>6, MaxIsGreatest
<1>8. SubSeq(u, 1, Len(c)) = c
  <2>1. \A i \in 1 .. Len(c) : u[i] \in ContextKinds
    BY <1>2, <1>3, ElementOfSeq DEF Contexts
  <2>2. /\ SubSeq(u, 1, Len(c)) \in Contexts
        /\ Len(SubSeq(u, 1, Len(c))) = Len(c)
        /\ \A i \in 1 .. Len(c) : SubSeq(u, 1, Len(c))[i] = u[i]
    BY <2>1, <1>2, SubSeqProperties DEF Contexts
  <2> QED
    BY <2>2, <1>2, <1>3, SeqEqual DEF Contexts
<1> QED
  BY <1>7, <1>8 DEF getRedeclContext, u

LEMMA AppendContext ==
  ASSUME NEW c \in Contexts, NEW k \in ContextKinds
  PROVE  /\ Append(c, k) \in Contexts /\ Append(c, k) # << >>
         /\ Append(c, k) = c \o <<k>>
         /\ Len(Append(c, k)) = Len(c) + 1
         /\ Last(Append(c, k)) = k
         /\ Front(Append(c, k)) = c
<1>1. /\ Append(c, k) \in Contexts /\ Append(c, k) # << >>
      /\ Len(Append(c, k)) = Len(c) + 1 /\ Len(c) \in Nat
      /\ \A i \in 1 .. Len(c) : Append(c, k)[i] = c[i]
      /\ Append(c, k)[Len(c) + 1] = k
      /\ \A i \in 1 .. Len(c) : c[i] \in ContextKinds
      /\ Append(c, k) = c \o <<k>>
  BY AppendProperties, LenProperties, ElementOfSeq, AppendIsConcat DEF Contexts
<1>2. /\ SubSeq(Append(c, k), 1, Len(c)) \in Contexts
      /\ Len(SubSeq(Append(c, k), 1, Len(c))) = Len(c)
      /\ \A i \in 1 .. Len(c) : SubSeq(Append(c, k), 1, Len(c))[i] = Append(c, k)[i]
  BY <1>1, SubSeqProperties DEF Contexts
<1>3. SubSeq(Append(c, k), 1, Len(c)) = c
  BY <1>1, <1>2, SeqEqual DEF Contexts
<1> QED
  BY <1>1, <1>3 DEF Last, Front

LEMMA ScopeTypes ==
  ASSUME TypeOK
  PROVE  /\ Top \in Nat /\ scopes \in Seq(ScopeRecords)
         /\ \A i \in 1 .. Top : /\ scopes[i] \in ScopeRecords /\ Entity(i) \in Contexts
                                /\ scopes[i].decls \in SUBSET Decls
<1>1. scopes \in Seq(ScopeRecords)
  BY DEF TypeOK, ScopeRecords
<1>2. Top \in Nat /\ \A i \in 1 .. Top : scopes[i] \in ScopeRecords
  BY <1>1, LenProperties, ElementOfSeq DEF Top
<1> QED
  BY <1>1, <1>2 DEF ScopeRecords, Entity

LEMMA TUContext ==
  /\ <<"TU">> \in Contexts /\ <<"TU">> # << >> /\ Last(<<"TU">>) = "TU"
  /\ Len(<<"TU">>) = 1 /\ "TU" \notin Transparent
BY DEF Contexts, ContextKinds, Last, Transparent

(* Every owner is a context, and a scope's own context ends in its kind.   *)
LEMMA OwnerTypes ==
  ASSUME TypeOK, EntitiesInv, NEW s \in 1 .. Top
  PROVE  /\ OwnerIn(scopes, s) \in Contexts /\ OwnerIn(scopes, s) # << >>
         /\ \E k : IsOwner(scopes, s, k) /\ OwnerIn(scopes, s) = Entity(k)
<1>1. 1 \in 1 .. Top /\ Top \in Nat
  BY ScopeTypes
<1>2. scopes[1].entity # << >>
  BY <1>1, TUContext DEF EntitiesInv, Entity
<1>3. PICK k : IsOwner(scopes, s, k) /\ OwnerIn(scopes, s) = Entity(k)
  BY <1>2, ScopeTypes, OwnerExists DEF Top, Entity
<1>4. k \in 1 .. Top /\ Entity(k) # << >>
  BY <1>1, <1>3 DEF IsOwner, Entity
<1> QED
  BY <1>3, <1>4, ScopeTypes

LEMMA EntityKind ==
  ASSUME TypeOK, EntitiesInv, NEW i \in 2 .. Top, Entity(i) # << >>
  PROVE  \E k \in {"Function", "Struct", "FieldSpec"} :
           /\ Entity(i) = Append(OwnerIn(scopes, i - 1), k) /\ (k = "FieldSpec" => i = Top)
           /\ k \in ContextKinds /\ (k \in Transparent <=> k = "FieldSpec")
           /\ i - 1 \in 1 .. Top /\ OwnerIn(scopes, i - 1) \in Contexts
           /\ Last(Entity(i)) = k /\ Front(Entity(i)) = OwnerIn(scopes, i - 1)
           /\ Len(Entity(i)) = Len(OwnerIn(scopes, i - 1)) + 1
<1>1. PICK k \in {"Function", "Struct", "FieldSpec"} :
           Entity(i) = Append(OwnerIn(scopes, i - 1), k) /\ (k = "FieldSpec" => i = Top)
  BY DEF EntitiesInv
<1>2. k \in ContextKinds /\ (k \in Transparent <=> k = "FieldSpec")
  BY DEF ContextKinds, Transparent
<1>3. i - 1 \in 1 .. Top
  BY ScopeTypes
<1>4. OwnerIn(scopes, i - 1) \in Contexts
  BY <1>3, OwnerTypes
<1> QED
  BY <1>1, <1>2, <1>3, <1>4, AppendContext

(* Only the innermost scope may be transparent, and it is not the only one.*)
LEMMA OnlyTopTransparent ==
  ASSUME TypeOK, EntitiesInv, NEW i \in 1 .. Top, HasTransparentEntity(i)
  PROVE  i = Top /\ Top > 1
<1>1. Entity(i) # << >> /\ Last(Entity(i)) \in Transparent
  BY DEF HasTransparentEntity, isTransparentContext, Entity
<1>2. Top \in Nat
  BY ScopeTypes
<1>3. i # 1
  BY <1>1, <1>2, TUContext DEF EntitiesInv
<1>4. i \in 2 .. Top
  BY <1>2, <1>3
<1> QED
  BY <1>1, <1>2, <1>4, EntityKind

LEMMA TargetScopeIs ==
  ASSUME TypeOK, EntitiesInv, Top > 0
  PROVE  /\ TargetScope(Top) = IF HasTransparentEntity(Top) THEN Top - 1 ELSE Top
         /\ TargetScope(Top) \in 1 .. Top
         /\ ~ HasTransparentEntity(TargetScope(Top))
<1> DEFINE S == {i \in 1 .. Top : ~ HasTransparentEntity(i)}
           T == IF HasTransparentEntity(Top) THEN Top - 1 ELSE Top
<1>1. Top \in Nat /\ S \in SUBSET (1 .. Top)
  BY ScopeTypes
<1>2. HasTransparentEntity(Top) => Top > 1
  BY <1>1, OnlyTopTransparent
<1>3. T \in 1 .. Top /\ ~ HasTransparentEntity(T)
  BY <1>1, <1>2, OnlyTopTransparent
<1>4. T \in S /\ \A i \in S : T >= i
  BY <1>1, <1>3
<1>5. Max(S) = T
  <2> HIDE DEF S, T
  <2> QED
    BY <1>1, <1>4, MaxIsGreatest
<1> QED
  BY <1>3, <1>5 DEF TargetScope

(* The context of a scope that is not transparent is not.                  *)
LEMMA OwnerSolid ==
  ASSUME TypeOK, EntitiesInv, NEW s \in 1 .. Top, ~ HasTransparentEntity(s)
  PROVE  /\ OwnerIn(scopes, s)[Len(OwnerIn(scopes, s))] \notin Transparent
         /\ getRedeclContext(OwnerIn(scopes, s)) = OwnerIn(scopes, s)
         /\ \A t \in Seq(Transparent) :
              getRedeclContext(OwnerIn(scopes, s) \o t) = OwnerIn(scopes, s)
<1>1. Top \in Nat
  BY ScopeTypes
<1>2. PICK k : IsOwner(scopes, s, k) /\ OwnerIn(scopes, s) = Entity(k)
  BY OwnerTypes
<1>3. k \in 1 .. s /\ Entity(k) # << >> /\ \A j \in k + 1 .. s : Entity(j) = << >>
  BY <1>2 DEF IsOwner, Entity
<1>4. Last(Entity(k)) \notin Transparent
  <2>1. CASE k = 1
    BY <2>1, <1>1, TUContext DEF EntitiesInv
  <2>2. CASE k # 1
    <3>1. k \in 2 .. Top
      BY <2>2, <1>1, <1>3
    <3>2. SUFFICES ASSUME Last(Entity(k)) \in Transparent PROVE FALSE
      OBVIOUS
    <3>3. k = Top
      BY <3>1, <3>2, <1>3, EntityKind
    <3>4. s = k
      BY <3>3, <1>1, <1>3
    <3> QED
      BY <3>2, <3>4, <1>3 DEF HasTransparentEntity, isTransparentContext, Entity
  <2> QED
    BY <2>1, <2>2
<1>5. OwnerIn(scopes, s) \in Contexts /\ OwnerIn(scopes, s) # << >>
  BY OwnerTypes
<1>6. \A t \in Seq(Transparent) :
         getRedeclContext(OwnerIn(scopes, s) \o t) = OwnerIn(scopes, s)
  BY <1>2, <1>4, <1>5, RedeclContext DEF Last
<1>7. << >> \in Seq(Transparent) /\ OwnerIn(scopes, s) \o << >> = OwnerIn(scopes, s)
  BY <1>5, EmptySeq, ConcatEmptySeq DEF Contexts
<1> QED
  BY <1>2, <1>4, <1>6, <1>7 DEF Last

-----------------------------------------------------------------------------
(* Lookup trusts the last declaration of a chain.                          *)

LEMMA ReverseHead ==
  ASSUME NEW S, NEW t \in Seq(S), t # << >>
  PROVE  Reverse(t) \in Seq(S) /\ Reverse(t) # << >> /\ Reverse(t)[1] = t[Len(t)]
<1>1. Len(t) \in Nat \ {0}
  BY EmptySeq
<1>2. \A i \in 1 .. Len(t) : t[Len(t) - i + 1] \in S
  BY <1>1, ElementOfSeq
<1>3. Reverse(t) \in [1 .. Len(t) -> S]
  BY <1>2 DEF Reverse
<1>4. Reverse(t) \in Seq(S)
  BY <1>1, <1>3, SeqDef
<1>5. DOMAIN Reverse(t) = 1 .. Len(t)
  BY DEF Reverse
<1>6. Reverse(t) # << >>
  BY <1>1, <1>5
<1>7. Reverse(t)[1] = t[Len(t) - 1 + 1]
  BY <1>1 DEF Reverse
<1> QED
  BY <1>1, <1>4, <1>6, <1>7

LEMMA LookupHead ==
  ASSUME slots \in [Idents -> Slots], NEW n \in Idents, NEW s
  PROVE  /\ LookupName(n, s) # << >> <=> slots[n].decls # << >>
         /\ slots[n].decls # << >> =>
              /\ LookupName(n, s)[1] = Last(slots[n].decls)
              /\ Last(slots[n].decls) \in Decls
<1>1. CASE slots[n].decls = << >>
  BY <1>1 DEF LookupName
<1>2. CASE slots[n].decls # << >>
  <2> DEFINE c == slots[n].decls
             homes == {i \in 1 .. s : isDeclScope(i, Last(c))}
             Joins(d) == IF homes # {}
                           THEN isDeclScope(Max(homes), d)
                           ELSE getRedeclContext(d.dc) = getRedeclContext(Last(c).dc)
             F == {i \in 1 .. Len(c) : \A j \in i .. Len(c) - 1 : Joins(c[j])}
  <2>1. c \in Seq(Decls)
    BY DEF Slots
  <2>2. LookupName(n, s) = Reverse(SubSeq(c, Min(F), Len(c)))
    BY <1>2 DEF LookupName
  <2> HIDE DEF c
  <2>3. c # << >>
    BY <1>2 DEF c
  <2>4. Len(c) \in Nat \ {0} /\ \A i \in 1 .. Len(c) : c[i] \in Decls
    BY <2>1, <2>3, EmptySeq, ElementOfSeq
  <2>5. Len(c) \in F /\ F \in SUBSET (1 .. Len(c))
    BY <2>4
  <2> HIDE DEF F
  <2>6. F \in SUBSET Nat /\ F # {}
    BY <2>5, <2>4
  <2>7. PICK m \in 1 .. Len(c) : m = Min(F)
    BY <2>5, <2>6, MinIsLeast
  <2>8. /\ SubSeq(c, m, Len(c)) \in Seq(Decls)
        /\ Len(SubSeq(c, m, Len(c))) = Len(c) - m + 1
        /\ \A i \in 1 .. Len(c) - m + 1 : SubSeq(c, m, Len(c))[i] = c[m + i - 1]
    BY <2>4, SubSeqProperties
  <2>9. SubSeq(c, m, Len(c)) # << >>
    <3>1. Len(SubSeq(c, m, Len(c))) # 0
      BY <2>4, <2>8
    <3>2. Len(<< >>) = 0
      BY EmptySeq
    <3> QED
      BY <3>1, <3>2
  <2>10. SubSeq(c, m, Len(c))[Len(c) - m + 1] = c[Len(c)]
    BY <2>4, <2>8
  <2>11. LookupName(n, s) # << >> /\ LookupName(n, s)[1] = Last(c)
    BY <2>2, <2>7, <2>8, <2>9, <2>10, ReverseHead DEF Last
  <2>12. Last(c) \in Decls
    BY <2>4 DEF Last
  <2> QED
    BY <1>2, <2>11, <2>12 DEF c
<1> QED
  BY <1>1, <1>2

(* The parts of ChainsMirrorScopes.                                        *)
ChainsHeld ==
  \A n \in Idents : \A i \in 1 .. Len(slots[n].decls) :
    /\ slots[n].decls[i].name = n
    /\ \E s \in 1 .. Top : slots[n].decls[i] \in Held(s)
HeldChained ==
  \A s \in 1 .. Top : \A d \in Held(s) :
    \E i \in 1 .. Len(slots[d.name].decls) : slots[d.name].decls[i] = d
ChainsOrdered ==
  \A n \in Idents : \A i, j \in 1 .. Len(slots[n].decls) : \A s, t \in 1 .. Top :
    (i < j /\ slots[n].decls[i] \in Held(s) /\ slots[n].decls[j] \in Held(t)) => s < t

LEMMA ChainsParts == ChainsMirrorScopes <=> ChainsHeld /\ HeldChained /\ ChainsOrdered
BY DEF ChainsMirrorScopes, ChainsHeld, HeldChained, ChainsOrdered

(* Where a chain ends, seen from the scopes.                               *)
LEMMA HeldDecls ==
  ASSUME TypeOK, ClosingInv, NEW s \in 1 .. Top
  PROVE  Held(s) \subseteq scopes[s].decls /\ Held(s) \in SUBSET Decls
BY ScopeTypes DEF Held, ClosingInv

(* The last declaration of a chain is that of the innermost scope holding  *)
(* one of its name.                                                        *)
LEMMA LastIsInnermost ==
  ASSUME TypeOK, ClosingInv, ChainsMirrorScopes, NEW t \in 1 .. Top, NEW d \in Held(t)
  PROVE  /\ slots[d.name].decls # << >>
         /\ \E s \in 1 .. Top : t <= s /\ Last(slots[d.name].decls) \in Held(s)
         /\ Last(slots[d.name].decls).name = d.name
<1>1. d \in Decls /\ d.name \in Idents
  BY HeldDecls DEF Decls
<1> DEFINE c == slots[d.name].decls
<1>2. c \in Seq(Decls)
  BY <1>1 DEF TypeOK, Slots
<1>3. PICK i \in 1 .. Len(c) : c[i] = d
  BY DEF ChainsMirrorScopes
<1>4. Len(c) \in Nat /\ Len(c) \in 1 .. Len(c) /\ c # << >>
  BY <1>2, <1>3, LenProperties, EmptySeq
<1>5. c[Len(c)].name = d.name
  BY <1>1, <1>4 DEF ChainsMirrorScopes
<1>6. PICK s \in 1 .. Top : c[Len(c)] \in Held(s)
  BY <1>1, <1>4 DEF ChainsMirrorScopes
<1>7. i < Len(c) => t < s
  <2>1. c[i] \in Held(t)
    BY <1>3
  <2>2. ChainsOrdered
    BY ChainsParts
  <2> QED
    BY <1>1, <1>4, <1>6, <2>1, <2>2 DEF ChainsOrdered
<1>8. CASE i < Len(c)
  BY <1>4, <1>5, <1>6, <1>7, <1>8, ScopeTypes DEF Last
<1>9. CASE i = Len(c)
  BY <1>3, <1>4, <1>5, <1>9, ScopeTypes DEF Last
<1> QED
  BY <1>4, <1>8, <1>9

-----------------------------------------------------------------------------
(* The redefinition check.                                                 *)

(* The redeclaration context of what is declared now.                      *)
LEMMA CurrentRedeclContext ==
  ASSUME TypeOK, EntitiesInv, ContextFollowsScopes, ~ closing, Top > 0
  PROVE  /\ curContext = OwnerIn(scopes, Top)
         /\ \A t \in Seq(Transparent) :
              getRedeclContext(curContext \o t) = OwnerIn(scopes, TargetScope(Top))
         /\ getRedeclContext(curContext) = OwnerIn(scopes, TargetScope(Top))
<1>1. Top \in Nat /\ Top \in 1 .. Top
  BY ScopeTypes
<1>2. curContext = OwnerIn(scopes, Top)
  BY <1>1 DEF ContextFollowsScopes, Owner, OwnerIn
<1>3. << >> \in Seq(Transparent) /\ curContext \o << >> = curContext
  BY EmptySeq, ConcatEmptySeq DEF TypeOK, Contexts
<1>4. CASE ~ HasTransparentEntity(Top)
  BY <1>1, <1>2, <1>3, <1>4, TargetScopeIs, OwnerSolid
<1>5. CASE HasTransparentEntity(Top)
  <2>1. Top \in 2 .. Top
    BY <1>1, <1>5, OnlyTopTransparent
  <2>2. Entity(Top) # << >> /\ Last(Entity(Top)) \in Transparent
    BY <1>5 DEF HasTransparentEntity, isTransparentContext, Entity
  <2>3. IsOwner(scopes, Top, Top)
    BY <1>1, <2>2 DEF IsOwner, Entity
  <2>4. curContext = Entity(Top)
    BY <1>1, <1>2, <2>3, OwnerIs, ScopeTypes DEF Top, Entity
  <2> DEFINE o == OwnerIn(scopes, Top - 1)
  <2>5. TargetScope(Top) = Top - 1
    BY <1>5, TargetScopeIs
  <2>6. o \in Contexts /\ curContext = Append(o, "FieldSpec")
    BY <2>1, <2>2, <2>4, EntityKind
  <2>7. "FieldSpec" \in ContextKinds /\ "FieldSpec" \in Transparent
    BY DEF ContextKinds, Transparent
  <2> HIDE DEF o
  <2>8. curContext = o \o <<"FieldSpec">>
    BY <2>6, <2>7, AppendContext
  <2>9. ASSUME NEW t \in Seq(Transparent) PROVE getRedeclContext(curContext \o t) = o
    <3>1. <<"FieldSpec">> \in Seq(Transparent) /\ <<"FieldSpec">> \in Contexts
      BY <2>7 DEF Contexts
    <3>2. t \in Contexts
      BY TransparentKinds, SeqMonotonic DEF Contexts
    <3>3. curContext \o t = o \o (<<"FieldSpec">> \o t)
      BY <2>6, <2>8, <3>1, <3>2, ConcatAssociative DEF Contexts
    <3>4. <<"FieldSpec">> \o t \in Seq(Transparent)
      BY <3>1, ConcatProperties
    <3>5. Top - 1 \in 1 .. Top /\ ~ HasTransparentEntity(Top - 1)
      BY <2>5, TargetScopeIs
    <3>6. getRedeclContext(o \o (<<"FieldSpec">> \o t)) = o
      BY <3>4, <3>5, OwnerSolid DEF o
    <3> QED
      BY <3>3, <3>6
  <2>10. TargetScope(Top) = Top - 1 /\ o = OwnerIn(scopes, TargetScope(Top))
    BY <2>5 DEF o
  <2>11. getRedeclContext(curContext) = o
    BY <1>3, <2>9
  <2> QED
    BY <1>2, <2>9, <2>10, <2>11
<1> QED
  BY <1>4, <1>5

(* Scopes inside the one declared into hold nothing.                       *)
LEMMA InnermostHolder ==
  ASSUME TypeOK, EntitiesInv, DeclsInv, ~ closing, Top > 0,
         NEW s \in 1 .. Top, NEW e \in Held(s)
  PROVE  e \in scopes[s].decls /\ s <= TargetScope(Top)
<1>1. Top \in Nat
  BY ScopeTypes
<1>2. e \in scopes[s].decls
  BY DEF Held
<1>3. ~(s = Top /\ HasTransparentEntity(Top))
  BY <1>2 DEF DeclsInv
<1> QED
  BY <1>1, <1>2, <1>3, TargetScopeIs

(* What passes the check is new to the scope it goes to.                   *)
LEMMA CheckFindsAll ==
  ASSUME TypeOK, EntitiesInv, DeclsInv, ClosingInv, ChainsMirrorScopes, ~ closing, Top > 0,
         NEW n \in Idents, NEW dc, getRedeclContext(dc) = OwnerIn(scopes, TargetScope(Top)),
         ~(LookupName(n, Top) # << >> /\ isDeclInScope(LookupName(n, Top)[1], dc, Top)),
         NEW e \in scopes[TargetScope(Top)].decls
  PROVE  e.name # n
<1> DEFINE T == TargetScope(Top)
<1> SUFFICES ASSUME e.name = n PROVE FALSE
  OBVIOUS
<1>1. T \in 1 .. Top /\ Top \in Nat
  BY TargetScopeIs, ScopeTypes
<1>2. e \in Held(T)
  BY <1>1 DEF Held
<1>3. slots[n].decls # << >>
  BY <1>1, <1>2, LastIsInnermost
<1>4. PICK s \in 1 .. Top : T <= s /\ Last(slots[n].decls) \in Held(s)
  BY <1>1, <1>2, LastIsInnermost
<1>5. s = T /\ Last(slots[n].decls) \in scopes[T].decls
  BY <1>1, <1>4, InnermostHolder
<1>6. LookupName(n, Top) # << >> /\ LookupName(n, Top)[1] = Last(slots[n].decls)
  BY <1>3, LookupHead DEF TypeOK
<1>7. getRedeclContext(Last(slots[n].decls).dc) = OwnerIn(scopes, T)
  BY <1>1, <1>5 DEF DeclsInv
<1>8. isDeclInScope(Last(slots[n].decls), dc, Top)
  BY <1>5, <1>7 DEF isDeclInScope, isDeclScope
<1> QED
  BY <1>6, <1>8

(* What it reports, in a function or in a scope with a context of its own, *)
(* is of the scope declared into.                                          *)
LEMMA CheckFindsLocal ==
  ASSUME TypeOK, EntitiesInv, ContextFollowsScopes, DeclsInv, ClosingInv, ChainsMirrorScopes,
         ~ closing, Top > 0,
         NEW n \in Idents, NEW dc, getRedeclContext(dc) = OwnerIn(scopes, TargetScope(Top)),
         LookupName(n, Top) # << >>, isDeclInScope(LookupName(n, Top)[1], dc, Top),
         \/ Last(getRedeclContext(curContext)) = "Function"
         \/ Entity(TargetScope(Top)) # << >>
  PROVE  LookupName(n, Top)[1] \in scopes[TargetScope(Top)].decls
<1> DEFINE T == TargetScope(Top)
           o == OwnerIn(scopes, T)
<1>1. T \in 1 .. Top /\ Top \in Nat
  BY TargetScopeIs, ScopeTypes
<1>2. getRedeclContext(curContext) = o
  BY CurrentRedeclContext
<1>3. CASE Last(o) = "Function"
  BY <1>3 DEF isDeclInScope, isDeclScope
<1>4. CASE Last(o) # "Function"
  <2>1. Entity(T) # << >>
    BY <1>2, <1>4
  <2> DEFINE p == LookupName(n, Top)[1]
             c == slots[n].decls
  <2>2. c # << >> /\ p = c[Len(c)]
    BY LookupHead DEF TypeOK, Last
  <2>3. c \in Seq(Decls)
    BY DEF TypeOK, Slots
  <2>4. Len(c) \in 1 .. Len(c)
    BY <2>2, <2>3, EmptySeq
  <2>5. PICK s \in 1 .. Top : p \in Held(s)
    BY <2>2, <2>4 DEF ChainsMirrorScopes
  <2> HIDE DEF p, c
  <2>6. p \in scopes[s].decls /\ s <= T
    BY <2>5, InnermostHolder
  <2>7. getRedeclContext(p.dc) = o
    BY <1>4 DEF isDeclInScope, p
  <2>8. IsOwner(scopes, T, T)
    BY <1>1, <2>1 DEF IsOwner, Entity
  <2>9. o = Entity(T)
    BY <1>1, <2>8, OwnerIs, ScopeTypes DEF Top, Entity
  <2>10. getRedeclContext(p.dc) = OwnerIn(scopes, s)
    BY <2>6 DEF DeclsInv
  <2>11. PICK k : IsOwner(scopes, s, k) /\ OwnerIn(scopes, s) = Entity(k)
    BY OwnerTypes
  <2>12. k \in 1 .. s /\ Entity(k) = Entity(T) /\ k \in 1 .. Top
    BY <1>1, <2>7, <2>9, <2>10, <2>11 DEF IsOwner
  <2>13. s = T
    <3> SUFFICES ASSUME s # T PROVE FALSE
      OBVIOUS
    <3>1. k < T
      BY <1>1, <2>6, <2>12
    <3>2. Len(Entity(k)) < Len(Entity(T))
      BY <1>1, <2>1, <2>12, <3>1 DEF EntitiesInv
    <3>3. Len(Entity(T)) \in Nat
      BY <1>1, ScopeTypes, LenProperties DEF Contexts
    <3> QED
      BY <2>12, <3>2, <3>3
  <2> QED
    BY <2>6, <2>13 DEF p
<1> QED
  BY <1>3, <1>4

-----------------------------------------------------------------------------
(* Steps that keep the scopes and their contexts.                          *)

LEMMA EntitiesSame ==
  ASSUME TypeOK, EntitiesInv, scopes' \in Seq(ScopeRecords), Len(scopes') = Len(scopes),
         \A i \in 1 .. Top : scopes'[i].entity = scopes[i].entity
  PROVE  /\ Top' = Top /\ EntitiesInv'
         /\ \A s \in 1 .. Top : /\ OwnerIn(scopes', s) = OwnerIn(scopes, s)
                                /\ HasTransparentEntity(s)' <=> HasTransparentEntity(s)
                                /\ Entity(s)' = Entity(s)
<1>1. Top' = Top /\ Top \in Nat
  BY ScopeTypes DEF Top
<1>2. \A s \in 1 .. Top : Entity(s)' = Entity(s)
  BY DEF Entity
<1>3. \A s \in 1 .. Top : HasTransparentEntity(s)' <=> HasTransparentEntity(s)
  BY DEF HasTransparentEntity, isTransparentContext
<1>4. ASSUME NEW s \in 1 .. Top PROVE OwnerIn(scopes', s) = OwnerIn(scopes, s)
  <2>1. Top > 0 /\ 1 \in 1 .. Top /\ Entity(1) # << >>
    <3>1. Top > 0 /\ 1 \in 1 .. Top
      BY <1>1
    <3>2. Entity(1) = <<"TU">>
      BY <3>1 DEF EntitiesInv
    <3> QED
      BY <3>1, <3>2, TUContext
  <2>2. scopes'[1].entity # << >>
    BY <2>1 DEF Entity
  <2>3. scopes \in Seq(ScopeRecords) /\ s \in 1 .. Len(scopes') /\ s <= Len(scopes)
    BY <1>1, ScopeTypes DEF Top
  <2>4. \A i \in 1 .. s : scopes'[i].entity = scopes[i].entity
    BY <1>1
  <2> QED
    BY <2>2, <2>3, <2>4, OwnerOfPrefix
<1>5. EntitiesInv'
  <2>1. Top' > 0 => Entity(1)' = <<"TU">>
    BY <1>1, <1>2 DEF EntitiesInv
  <2>2. ASSUME NEW i \in 2 .. Top', Entity(i)' # << >>
        PROVE  \E k \in {"Function", "Struct", "FieldSpec"} :
                 /\ Entity(i)' = Append(OwnerIn(scopes', i - 1), k)
                 /\ k = "FieldSpec" => i = Top'
    <3>1. i \in 1 .. Top /\ i - 1 \in 1 .. Top /\ i \in 2 .. Top
      BY <1>1
    <3> QED
      BY <1>1, <1>2, <1>4, <2>2, <3>1 DEF EntitiesInv
  <2>3. \A i, j \in 1 .. Top' :
           i < j /\ Entity(j)' # << >> => Len(Entity(i)') < Len(Entity(j)')
    BY <1>1, <1>2 DEF EntitiesInv
  <2> QED
    BY <2>1, <2>2, <2>3 DEF EntitiesInv
<1> QED
  BY <1>1, <1>2, <1>3, <1>4, <1>5

(* What the scopes hold, and what the chains are, may stay too.            *)
LEMMA ChainsSame ==
  ASSUME ChainsMirrorScopes, slots' = slots,
         Top' <= Top, Top \in Nat, Top' \in Nat,
         \A s \in 1 .. Top' : Held(s)' = Held(s),
         \A s \in 1 .. Top : s > Top' => Held(s) = {}
  PROVE  ChainsMirrorScopes'
<1>1. ChainsHeld'
  <2> SUFFICES ASSUME NEW n \in Idents, NEW i \in 1 .. Len(slots[n].decls)
      PROVE /\ slots[n].decls[i].name = n
            /\ \E s \in 1 .. Top' : slots[n].decls[i] \in Held(s)'
    BY DEF ChainsHeld
  <2>1. slots[n].decls[i].name = n
    BY ChainsParts DEF ChainsHeld
  <2>2. PICK s \in 1 .. Top : slots[n].decls[i] \in Held(s)
    BY ChainsParts DEF ChainsHeld
  <2>3. s \in 1 .. Top'
    BY <2>2
  <2> QED
    BY <2>1, <2>2, <2>3
<1>2. HeldChained'
  BY ChainsParts DEF HeldChained
<1>3. ChainsOrdered'
  BY ChainsParts DEF ChainsOrdered
<1>4. ChainsMirrorScopes' <=> (ChainsHeld /\ HeldChained /\ ChainsOrdered)'
  BY DEF ChainsMirrorScopes, ChainsHeld, HeldChained, ChainsOrdered
<1> QED
  BY <1>1, <1>2, <1>3, <1>4

Holding(sc, t, D) == [sc EXCEPT ![t].decls = D]

LEMMA ScopesHolding ==
  ASSUME NEW sc \in Seq(ScopeRecords), NEW t \in 1 .. Len(sc), NEW D \in SUBSET Decls
  PROVE  /\ Holding(sc, t, D) \in Seq(ScopeRecords) /\ Len(Holding(sc, t, D)) = Len(sc)
         /\ \A i \in 1 .. Len(sc) : Holding(sc, t, D)[i].entity = sc[i].entity
         /\ \A i \in 1 .. Len(sc) : i # t => Holding(sc, t, D)[i].decls = sc[i].decls
         /\ Holding(sc, t, D)[t].decls = D
<1> DEFINE sd == Holding(sc, t, D)
<1> DEFINE r == [sc[t] EXCEPT !.decls = D]
<1>1. sc[t] \in ScopeRecords
  BY ElementOfSeq
<1>2. r \in ScopeRecords /\ r.entity = sc[t].entity /\ r.decls = D
  BY <1>1 DEF ScopeRecords
<1>3. sd = [sc EXCEPT ![t] = r]
  BY DEF Holding
<1> HIDE DEF r, sd
<1>4. /\ sd \in Seq(ScopeRecords) /\ Len(sd) = Len(sc)
      /\ \A i \in 1 .. Len(sc) : sd[i] = IF i = t THEN r ELSE sc[i]
  <2>1. /\ [sc EXCEPT ![t] = r] \in Seq(ScopeRecords)
        /\ Len([sc EXCEPT ![t] = r]) = Len(sc)
        /\ \A j \in 1 .. Len(sc) : [sc EXCEPT ![t] = r][j] = IF j = t THEN r ELSE sc[j]
    BY <1>2, ExceptSeq
  <2> QED
    BY <1>3, <2>1
<1>5. sd[t] = r /\ \A i \in 1 .. Len(sc) : i # t => sd[i] = sc[i]
  BY <1>4
<1>6. sd[t].decls = D /\ sd[t].entity = sc[t].entity
  BY <1>2, <1>5, Zenon
<1>7. \A i \in 1 .. Len(sc) : i # t => sd[i].decls = sc[i].decls /\ sd[i].entity = sc[i].entity
  BY <1>5, Zenon
<1>8. /\ sd \in Seq(ScopeRecords) /\ Len(sd) = Len(sc)
      /\ \A i \in 1 .. Len(sc) : sd[i].entity = sc[i].entity
      /\ \A i \in 1 .. Len(sc) : i # t => sd[i].decls = sc[i].decls
      /\ sd[t].decls = D
  BY <1>4, <1>6, <1>7, Zenon
<1> QED
  BY <1>8 DEF sd

(* PushOnScopeChains of a declaration that is new.                         *)
LEMMA PushScopes ==
  ASSUME TypeOK, EntitiesInv, DeclsInv, ~ closing, Top > 0,
         NEW d \in Decls, d.id \in FreeIds,
         getRedeclContext(d.dc) = OwnerIn(scopes, TargetScope(Top)),
         scopes' = Holding(scopes, TargetScope(Top), scopes[TargetScope(Top)].decls \cup {d})
  PROVE  /\ scopes' \in Seq(ScopeRecords) /\ Len(scopes') = Len(scopes)
         /\ \A i \in 1 .. Top : scopes'[i].entity = scopes[i].entity
         /\ \A i \in 1 .. Top : i # TargetScope(Top) => scopes'[i].decls = scopes[i].decls
         /\ scopes'[TargetScope(Top)].decls = scopes[TargetScope(Top)].decls \cup {d}
         /\ Top' = Top /\ EntitiesInv' /\ DeclsInv'
<1> DEFINE T == TargetScope(Top)
           D == scopes[T].decls \cup {d}
<1>1. T \in 1 .. Top /\ Top \in Nat /\ Top = Len(scopes) /\ scopes \in Seq(ScopeRecords)
      /\ ~ HasTransparentEntity(T)
  BY TargetScopeIs, ScopeTypes DEF Top
<1>2. D \in SUBSET Decls
  BY <1>1, ScopeTypes
<1>3. scopes' = Holding(scopes, T, D)
  OBVIOUS
<1> HIDE DEF T, D
<1>4. T \in 1 .. Len(scopes)
  BY <1>1
<1>5. /\ scopes' \in Seq(ScopeRecords) /\ Len(scopes') = Len(scopes)
      /\ \A i \in 1 .. Len(scopes) : scopes'[i].entity = scopes[i].entity
      /\ \A i \in 1 .. Len(scopes) : i # T => scopes'[i].decls = scopes[i].decls
      /\ scopes'[T].decls = D
  <2>1. /\ Holding(scopes, T, D) \in Seq(ScopeRecords)
        /\ Len(Holding(scopes, T, D)) = Len(scopes)
    BY <1>1, <1>2, <1>4, ScopesHolding
  <2>2. \A i \in 1 .. Len(scopes) : Holding(scopes, T, D)[i].entity = scopes[i].entity
    BY <1>1, <1>2, <1>4, ScopesHolding
  <2>3. \A i \in 1 .. Len(scopes) : i # T => Holding(scopes, T, D)[i].decls = scopes[i].decls
    BY <1>1, <1>2, <1>4, ScopesHolding
  <2>4. Holding(scopes, T, D)[T].decls = D
    BY <1>1, <1>2, <1>4, ScopesHolding
  <2> QED
    BY <1>3, <2>1, <2>2, <2>3, <2>4, Zenon
<1>6. /\ \A i \in 1 .. Top : scopes'[i].entity = scopes[i].entity
      /\ \A i \in 1 .. Top : i # T => scopes'[i].decls = scopes[i].decls
      /\ scopes'[T].decls = scopes[T].decls \cup {d}
  BY <1>1, <1>5 DEF D
<1>7. /\ Top' = Top /\ EntitiesInv'
      /\ \A s \in 1 .. Top : /\ OwnerIn(scopes', s) = OwnerIn(scopes, s)
                             /\ HasTransparentEntity(s)' <=> HasTransparentEntity(s)
  BY <1>5, <1>6, EntitiesSame
<1>8. DeclsInv'
  <2>1. ASSUME NEW i \in 1 .. Top, NEW e \in scopes'[i].decls
        PROVE  getRedeclContext(e.dc) = OwnerIn(scopes', i)
    <3>1. CASE e \in scopes[i].decls
      BY <1>7, <3>1 DEF DeclsInv
    <3>2. CASE e \notin scopes[i].decls
      <4>1. i = T /\ e = d
        BY <1>6, <2>1, <3>2
      <4> QED
        BY <1>1, <1>7, <4>1 DEF T
    <3> QED
      BY <3>1, <3>2
  <2>2. ASSUME NEW i \in 1 .. Top, NEW j \in 1 .. Top,
               NEW e \in scopes'[i].decls, NEW f \in scopes'[j].decls, e.id = f.id
        PROVE  i = j /\ e = f
    <3>1. \A k \in 1 .. Top : \A g \in scopes[k].decls : g.id # d.id
      <4> SUFFICES ASSUME NEW k \in 1 .. Top, NEW g \in scopes[k].decls PROVE g.id # d.id
        OBVIOUS
      <4>1. g \in Live
        BY DEF Live
      <4> QED
        BY <4>1 DEF FreeIds
    <3>2. e \in scopes[i].decls \/ (i = T /\ e = d)
      BY <1>6
    <3>3. f \in scopes[j].decls \/ (j = T /\ f = d)
      BY <1>6
    <3> QED
      BY <2>2, <3>1, <3>2, <3>3 DEF DeclsInv
  <2>3. Top > 0 /\ HasTransparentEntity(Top)' => scopes'[Top].decls = {}
    <3>1. Top \in 1 .. Top
      BY <1>1
    <3>2. CASE HasTransparentEntity(Top)
      <4>1. Top # T
        BY <1>1, <3>2
      <4> QED
        BY <1>6, <3>1, <3>2, <4>1 DEF DeclsInv
    <3> QED
      BY <1>7, <3>1, <3>2
  <2> QED
    BY <1>7, <2>1, <2>2, <2>3 DEF DeclsInv
<1> QED
  BY <1>5, <1>6, <1>7, <1>8 DEF T

SlotOK(slot) == /\ slot.kind = "none" => slot.decls = << >>
                /\ slot.kind = "decl" => Len(slot.decls) = 1

LEMMA AddDeclIs ==
  ASSUME NEW slot \in Slots, SlotOK(slot), NEW d \in Decls
  PROVE  /\ AddDecl(slot, d) \in Slots /\ SlotOK(AddDecl(slot, d))
         /\ Len(slot.decls) \in Nat
         /\ Len(AddDecl(slot, d).decls) = Len(slot.decls) + 1
         /\ \A i \in 1 .. Len(slot.decls) : AddDecl(slot, d).decls[i] = slot.decls[i]
         /\ AddDecl(slot, d).decls[Len(slot.decls) + 1] = d
<1> DEFINE c == slot.decls
           a == Append(c, d)
           k == IF slot.kind = "none" THEN "decl" ELSE "list"
<1>1. c \in Seq(Decls)
  BY DEF Slots
<1>2. Len(c) \in Nat
  BY <1>1, LenProperties
<1>3. /\ a \in Seq(Decls) /\ a # << >> /\ Len(a) = Len(c) + 1
      /\ \A i \in 1 .. Len(c) : a[i] = c[i]
      /\ a[Len(c) + 1] = d
  BY <1>1, AppendProperties
<1>4. k = "decl" => Len(c) = 0
  <2>1. Len(<< >>) = 0
    BY EmptySeq
  <2> QED
    BY <2>1 DEF SlotOK
<1>5. k \in {"decl", "list"} /\ AddDecl(slot, d) = [kind |-> k, decls |-> a]
  BY DEF AddDecl
<1> HIDE DEF k, a
<1>6. AddDecl(slot, d) \in Slots
  BY <1>3, <1>5 DEF Slots
<1>7. AddDecl(slot, d).kind = k /\ AddDecl(slot, d).decls = a
  BY <1>5
<1>8. SlotOK(AddDecl(slot, d))
  <2>1. k # "none"
    BY <1>5
  <2>2. k = "decl" => Len(a) = 1
    BY <1>3, <1>4
  <2> QED
    BY <1>7, <2>1, <2>2, Zenon DEF SlotOK
<1> QED
  BY <1>2, <1>3, <1>6, <1>7, <1>8

LEMMA PushChains ==
  ASSUME TypeOK, EntitiesInv, DeclsInv, ClosingInv, ChainsMirrorScopes, ~ closing, Top > 0,
         NEW d \in Decls, d.id \in FreeIds,
         NEW T, T = TargetScope(Top),
         \A e \in scopes[T].decls : e.name # d.name,
         Top' = Top, closing' = closing,
         \A i \in 1 .. Top : i # T => scopes'[i].decls = scopes[i].decls,
         scopes'[T].decls = scopes[T].decls \cup {d},
         slots' = [slots EXCEPT ![d.name] = AddDecl(@, d)]
  PROVE  /\ slots' \in [Idents -> Slots] /\ \A n \in Idents : SlotOK(slots'[n])
         /\ ChainsMirrorScopes'
<1> DEFINE m == d.name
           c(n) == slots[n].decls
           cp(n) == slots'[n].decls
<1>1. Top \in Nat /\ T \in 1 .. Top /\ m \in Idents
  BY ScopeTypes, TargetScopeIs DEF Decls
<1>2. \A n \in Idents : slots[n] \in Slots /\ SlotOK(slots[n])
  BY DEF TypeOK, SlotOK
<1>3. slots' \in [Idents -> Slots] /\ \A n \in Idents : SlotOK(slots'[n])
  <2>1. AddDecl(slots[m], d) \in Slots /\ SlotOK(AddDecl(slots[m], d))
    BY <1>1, <1>2, AddDeclIs
  <2>2. slots \in [Idents -> Slots]
    BY DEF TypeOK
  <2> QED
    BY <1>1, <1>2, <2>1, <2>2
<1>4. /\ Len(c(m)) \in Nat /\ Len(cp(m)) = Len(c(m)) + 1
      /\ \A i \in 1 .. Len(c(m)) : cp(m)[i] = c(m)[i]
      /\ cp(m)[Len(c(m)) + 1] = d
  <2>1. slots'[m] = AddDecl(slots[m], d)
    BY <1>1 DEF TypeOK
  <2>2. slots[m] \in Slots /\ SlotOK(slots[m])
    BY <1>1, <1>2
  <2> QED
    BY <2>1, <2>2, AddDeclIs
<1>5. \A n \in Idents : n # m => cp(n) = c(n)
  BY DEF TypeOK
<1>6. ASSUME NEW s \in 1 .. Top, NEW e
      PROVE  e \in Held(s)' <=> e \in Held(s) \/ (s = T /\ e = d)
  <2>1. Held(s)' = scopes'[s].decls /\ Held(s) = scopes[s].decls
    BY DEF Held
  <2> QED
    BY <2>1
<1>7. \A s \in 1 .. Top : d \notin Held(s)
  <2> SUFFICES ASSUME NEW s \in 1 .. Top, d \in Held(s) PROVE FALSE
    OBVIOUS
  <2>1. d \in Live
    BY HeldDecls DEF Live
  <2> QED
    BY <2>1 DEF FreeIds
<1>8. ASSUME NEW n \in Idents, NEW i \in 1 .. Len(c(n))
      PROVE  c(n)[i].name = n /\ c(n)[i] # d /\ \E s \in 1 .. Top : c(n)[i] \in Held(s)
  <2>1. c(n)[i].name = n /\ \E s \in 1 .. Top : c(n)[i] \in Held(s)
    BY ChainsParts DEF ChainsHeld
  <2> QED
    BY <2>1, <1>7
<1> HIDE DEF cp
<1>9. ASSUME NEW n \in Idents, NEW i \in 1 .. Len(cp(n))
      PROVE  \/ i \in 1 .. Len(c(n)) /\ cp(n)[i] = c(n)[i]
             \/ n = m /\ i = Len(c(m)) + 1 /\ cp(n)[i] = d
  <2>1. CASE n # m
    BY <1>5, <2>1
  <2>2. CASE n = m
    BY <1>4, <2>2
  <2> QED
    BY <2>1, <2>2
<1>10. ChainsHeld'
  <2>1. ASSUME NEW n \in Idents, NEW i \in 1 .. Len(cp(n))
        PROVE  cp(n)[i].name = n /\ \E s \in 1 .. Top : cp(n)[i] \in Held(s)'
    <3>1. CASE i \in 1 .. Len(c(n)) /\ cp(n)[i] = c(n)[i]
      BY <1>6, <1>8, <3>1
    <3>2. CASE n = m /\ i = Len(c(m)) + 1 /\ cp(n)[i] = d
      BY <1>1, <1>6, <3>2
    <3> QED
      BY <1>9, <3>1, <3>2
  <2> QED
    BY <2>1 DEF ChainsHeld, cp
<1>11. HeldChained'
  <2>1. ASSUME NEW s \in 1 .. Top, NEW e \in Held(s)'
        PROVE  \E i \in 1 .. Len(cp(e.name)) : cp(e.name)[i] = e
    <3>1. CASE e = d
      BY <1>4, <3>1
    <3>2. CASE e # d
      <4>1. e \in Held(s)
        BY <1>6, <3>2
      <4>2. PICK i \in 1 .. Len(c(e.name)) : c(e.name)[i] = e
        BY <4>1, ChainsParts DEF HeldChained
      <4>3. e.name \in Idents
        BY <4>1, HeldDecls DEF Decls
      <4>4. CASE e.name # m
        BY <1>5, <4>2, <4>3, <4>4
      <4>5. CASE e.name = m
        BY <1>4, <4>2, <4>5
      <4> QED
        BY <4>4, <4>5
    <3> QED
      BY <3>1, <3>2
  <2> QED
    BY <2>1 DEF HeldChained, cp
<1>12. ChainsOrdered'
  <2>1. ASSUME NEW n \in Idents, NEW i \in 1 .. Len(cp(n)), NEW j \in 1 .. Len(cp(n)),
               NEW s \in 1 .. Top, NEW t \in 1 .. Top,
               i < j, cp(n)[i] \in Held(s)', cp(n)[j] \in Held(t)'
        PROVE  s < t
    <3>1. i \in 1 .. Len(c(n)) /\ cp(n)[i] = c(n)[i]
      BY <1>4, <1>9, <2>1
    <3>2. c(n)[i] \in Held(s)
      BY <1>6, <1>8, <2>1, <3>1
    <3>3. CASE j \in 1 .. Len(c(n)) /\ cp(n)[j] = c(n)[j]
      <4>1. c(n)[j] \in Held(t)
        BY <1>6, <1>8, <2>1, <3>3
      <4> QED
        BY <2>1, <3>1, <3>2, <3>3, <4>1, ChainsParts DEF ChainsOrdered
    <3>4. CASE n = m /\ j = Len(c(m)) + 1 /\ cp(n)[j] = d
      <4>1. t = T
        BY <1>6, <1>7, <2>1, <3>4
      <4>2. c(n)[i] \in scopes[s].decls /\ s <= T
        BY <3>2, InnermostHolder
      <4>3. c(n)[i].name = m
        BY <1>8, <3>1, <3>4
      <4>4. s # T
        BY <4>2, <4>3
      <4> QED
        BY <1>1, <4>1, <4>2, <4>4
    <3> QED
      BY <1>9, <3>3, <3>4
  <2> QED
    BY <2>1 DEF ChainsOrdered, cp
<1>13. ChainsMirrorScopes' <=> (ChainsHeld /\ HeldChained /\ ChainsOrdered)'
  BY DEF ChainsMirrorScopes, ChainsHeld, HeldChained, ChainsOrdered
<1> QED
  BY <1>3, <1>10, <1>11, <1>12, <1>13

(* A report that RedefinitionIsLocal is about.                             *)
ReportTypes == [what : {"nothing", "redefinition", "no_new_vars"},
                old : SUBSET Decls, scope : Nat]

LEMMA NoReportIs == NoReport \in ReportTypes /\ NoReport.what = "nothing"
BY DEF NoReport, ReportTypes

(* Types of the state a declaration changes.                               *)
Typed(sc, sl, rep) ==
  /\ sc \in Seq(ScopeRecords)
  /\ sl \in [Idents -> Slots] /\ \A n \in Idents : SlotOK(sl[n])
  /\ rep \in ReportTypes

LEMMA TypedIs ==
  TypeOK <=> /\ Typed(scopes, slots, report)
             /\ curContext \in Contexts \ {<< >>} /\ spec \in Contexts
             /\ todo \in Seq([name : Idents, old : BOOLEAN])
             /\ bodyNext \in BOOLEAN /\ closing \in BOOLEAN /\ left \in SUBSET Decls
BY DEF TypeOK, Typed, ScopeRecords, SlotOK, ReportTypes

LEMMA TypedNext ==
  ASSUME Typed(scopes, slots, report)',
         curContext' \in Contexts \ {<< >>}, spec' \in Contexts,
         todo' \in Seq([name : Idents, old : BOOLEAN]),
         bodyNext' \in BOOLEAN, closing' \in BOOLEAN, left' \in SUBSET Decls
  PROVE  TypeOK'
BY DEF TypeOK, Typed, ScopeRecords, SlotOK, ReportTypes

(* A new declaration d of the scope declared into, checked in context dc.  *)
Declares(d, dc) ==
  /\ ~ closing /\ Top > 0 /\ d.id \in FreeIds
  /\ getRedeclContext(d.dc) = OwnerIn(scopes, TargetScope(Top))
  /\ getRedeclContext(dc) = OwnerIn(scopes, TargetScope(Top))
  /\ CheckRedefinitionAndPushOnScope(d, dc, Top)
  /\ UNCHANGED <<curContext, closing, left>>

(* Whether it is reported or pushed.                                       *)
LEMMA CheckStep ==
  ASSUME IInv, NEW d \in Decls, NEW dc, Declares(d, dc)
  PROVE  /\ Typed(scopes, slots, report)' /\ Top' = Top
         /\ HasTransparentEntity(Top)' <=> HasTransparentEntity(Top)
         /\ EntitiesInv' /\ ContextFollowsScopes' /\ DeclsInv'
         /\ ChainsMirrorScopes' /\ RedefinitionIsLocal'
<1> DEFINE T == TargetScope(Top)
           p == LookupName(d.name, Top)
<1> USE DEF Declares
<1>1. T \in 1 .. Top /\ Top \in Nat /\ d.name \in Idents
  BY TargetScopeIs, ScopeTypes DEF IInv, Decls
<1>2. Top' = Top => (ContextFollowsScopes' <=> curContext' = OwnerIn(scopes', Top'))
  <2> HAVE Top' = Top
  <2>1. closing' = FALSE /\ Top' > 0
    BY <1>1 DEF IInv, TypeOK
  <2> QED
    BY <2>1 DEF ContextFollowsScopes, Owner, OwnerIn
<1>3. curContext = OwnerIn(scopes, Top)
  BY CurrentRedeclContext DEF IInv
<1>4. CASE p # << >> /\ isDeclInScope(p[1], dc, Top)
  <2>1. /\ report' = [what |-> "redefinition", old |-> {p[1]}, scope |-> T]
        /\ scopes' = scopes /\ slots' = slots
    BY <1>4 DEF CheckRedefinitionAndPushOnScope
  <2>2. p[1] \in Decls
    BY <1>1, <1>4, LookupHead DEF IInv, TypeOK
  <2>3. report' \in ReportTypes
    BY <1>1, <2>1, <2>2 DEF ReportTypes
  <2>4. Typed(scopes, slots, report)'
    BY <2>1, <2>3, TypedIs DEF IInv, Typed
  <2>5. Top' = Top /\ \A s : HasTransparentEntity(s)' <=> HasTransparentEntity(s)
    BY <2>1 DEF Top, HasTransparentEntity, isTransparentContext
  <2>6. EntitiesInv' /\ DeclsInv'
    BY <2>1, <2>5 DEF IInv, EntitiesInv, DeclsInv, Entity
  <2>7. ChainsMirrorScopes'
    BY <2>1, <2>5 DEF IInv, ChainsMirrorScopes, Held
  <2>8. ContextFollowsScopes'
    BY <1>2, <1>3, <2>1, <2>5
  <2>9. RedefinitionIsLocal'
    <3>1. report'.scope = T /\ report'.old = {p[1]}
      BY <2>1
    <3>2. SUFFICES ASSUME ScopedContext' PROVE p[1] \in scopes[T].decls
      BY <2>1, <3>1 DEF RedefinitionIsLocal
    <3>3. Last(getRedeclContext(curContext)) = "Function" \/ Entity(T) # << >>
      BY <2>1, <3>1, <3>2 DEF ScopedContext, Entity
    <3> QED
      BY <1>1, <1>4, <3>3, CheckFindsLocal DEF IInv
  <2> QED
    BY <2>4, <2>5, <2>6, <2>7, <2>8, <2>9
<1>5. CASE ~(p # << >> /\ isDeclInScope(p[1], dc, Top))
  <2>1. PushOnScopeChains(d, Top) /\ report' = NoReport
    BY <1>5 DEF CheckRedefinitionAndPushOnScope
  <2>2. scopes' = Holding(scopes, T, scopes[T].decls \cup {d})
    BY <2>1 DEF PushOnScopeChains, Holding
  <2>3. slots' = [slots EXCEPT ![d.name] = AddDecl(@, d)]
    BY <2>1 DEF PushOnScopeChains
  <2>4. /\ scopes' \in Seq(ScopeRecords)
        /\ Len(scopes') = Len(scopes)
        /\ \A i \in 1 .. Top : scopes'[i].entity = scopes[i].entity
        /\ \A i \in 1 .. Top : i # T => scopes'[i].decls = scopes[i].decls
        /\ scopes'[T].decls = scopes[T].decls \cup {d}
        /\ Top' = Top /\ EntitiesInv' /\ DeclsInv'
    BY <2>2, PushScopes DEF IInv
  <2>5. \A s \in 1 .. Top : /\ OwnerIn(scopes', s) = OwnerIn(scopes, s)
                            /\ HasTransparentEntity(s)' <=> HasTransparentEntity(s)
    BY <2>4, EntitiesSame DEF IInv
  <2>6. \A e \in scopes[T].decls : e.name # d.name
    BY <1>1, <1>5, CheckFindsAll DEF IInv
  <2> HIDE DEF T
  <2>7. T = TargetScope(Top)
    BY DEF T
  <2>8. /\ slots' \in [Idents -> Slots] /\ \A n \in Idents : SlotOK(slots'[n])
        /\ ChainsMirrorScopes'
    BY <2>3, <2>4, <2>6, <2>7, PushChains DEF IInv
  <2>9. Typed(scopes, slots, report)'
    BY <2>1, <2>4, <2>8, NoReportIs DEF Typed
  <2>10. ContextFollowsScopes'
    BY <1>1, <1>2, <1>3, <2>4, <2>5
  <2>11. RedefinitionIsLocal'
    BY <2>1, NoReportIs DEF RedefinitionIsLocal
  <2>12. Top \in 1 .. Top
    BY <1>1
  <2> QED
    BY <2>4, <2>5, <2>8, <2>9, <2>10, <2>11, <2>12
<1> QED
  BY <1>4, <1>5

-----------------------------------------------------------------------------
(* The steps.  First those that declare.                                   *)

LEMMA IdleIs ==
  ASSUME IInv, Idle
  PROVE  /\ Top > 0 /\ Top \in Nat /\ todo = << >> /\ ~ closing /\ left = {}
         /\ ~ HasTransparentEntity(Top) /\ TargetScope(Top) = Top
         /\ curContext \in Contexts /\ curContext # << >>
         /\ curContext = OwnerIn(scopes, Top) /\ getRedeclContext(curContext) = curContext
BY ScopeTypes, TargetScopeIs, CurrentRedeclContext DEF IInv, Idle, ClosingInv, TypeOK

(* A context made in the current one by transparent steps only.            *)
LEMMA TransparentContext ==
  ASSUME IInv, ~ closing, Top > 0, NEW t \in Seq(Transparent)
  PROVE  /\ curContext \o t \in Contexts
         /\ getRedeclContext(curContext \o t) = OwnerIn(scopes, TargetScope(Top))
<1>1. t \in Contexts
  BY TransparentKinds, SeqMonotonic DEF Contexts
<1>2. curContext \o t \in Contexts
  BY <1>1, ConcatProperties DEF IInv, TypeOK, Contexts
<1> QED
  BY <1>2, CurrentRedeclContext DEF IInv

LEMMA FunctionDeclares ==
  ASSUME IInv, NEW n \in Idents, ActOnFunctionDecl(n)
  PROVE  \E d \in Decls : Declares(d, curContext)
<1>1. Idle /\ UNCHANGED <<curContext, closing, left>>
  BY DEF ActOnFunctionDecl
<1>2. PICK id \in FreeIds : CheckRedefinitionAndPushOnScope(
         [id |-> id, name |-> n, kind |-> "Func", dc |-> curContext], curContext, Top)
  BY DEF ActOnFunctionDecl
<1> DEFINE d == [id |-> id, name |-> n, kind |-> "Func", dc |-> curContext]
<1>3. d \in Decls /\ d.id \in FreeIds /\ d.dc = curContext
  BY IdleIs, <1>1 DEF Decls, DeclKinds, FreeIds, Contexts
<1>4. CheckRedefinitionAndPushOnScope(d, curContext, Top)
  BY <1>2
<1> HIDE DEF d
<1>5. Declares(d, curContext)
  BY <1>1, <1>3, <1>4, IdleIs DEF Declares
<1> QED
  BY <1>3, <1>5

(* Between two lists a declaration leaves the rest of the state alone.     *)
LEMMA DeclareStep ==
  ASSUME IInv, Idle, NEW d \in Decls, NEW dc, Declares(d, dc), UNCHANGED <<spec, todo>>,
         bodyNext' \in BOOLEAN
  PROVE  IInv'
<1>1. UNCHANGED <<curContext, closing, left>>
  BY DEF Declares
<1>2. /\ Typed(scopes, slots, report)' /\ Top' = Top
      /\ EntitiesInv' /\ ContextFollowsScopes' /\ DeclsInv'
      /\ ChainsMirrorScopes' /\ RedefinitionIsLocal'
  BY CheckStep
<1>3. todo = << >> /\ ~ closing /\ left = {}
  BY IdleIs
<1>4. TypeOK'
  <2>1. /\ curContext' \in Contexts \ {<< >>} /\ spec' \in Contexts
        /\ todo' \in Seq([name : Idents, old : BOOLEAN])
        /\ bodyNext' \in BOOLEAN /\ closing' \in BOOLEAN /\ left' \in SUBSET Decls
    BY <1>1 DEF IInv, TypeOK
  <2> QED
    BY <1>2, <2>1, TypedNext
<1>5. ClosingInv' /\ TodoInv'
  BY <1>1, <1>3 DEF ClosingInv, TodoInv
<1> QED
  BY <1>2, <1>4, <1>5 DEF IInv

LEMMA FunctionDeclStep ==
  ASSUME IInv, NEW n \in Idents, ActOnFunctionDecl(n)
  PROVE  IInv'
<1>1. Idle /\ UNCHANGED <<spec, todo>> /\ bodyNext' \in BOOLEAN
  BY DEF ActOnFunctionDecl
<1> QED
  BY <1>1, FunctionDeclares, DeclareStep

LEMMA TypeDeclares ==
  ASSUME IInv, NEW n \in Idents, ActOnTypeSpec(n)
  PROVE  \E d \in Decls : Declares(d, Append(curContext, "Declaration"))
<1>1. Idle /\ UNCHANGED <<curContext, closing, left>>
  BY DEF ActOnTypeSpec
<1> DEFINE dc == Append(curContext, "Declaration")
<1>2. PICK id \in FreeIds : CheckRedefinitionAndPushOnScope(
         [id |-> id, name |-> n, kind |-> "Type", dc |-> dc], dc, Top)
  BY DEF ActOnTypeSpec
<1>3. dc \in Contexts /\ getRedeclContext(dc) = OwnerIn(scopes, TargetScope(Top))
  <2>1. "Declaration" \in ContextKinds /\ <<"Declaration">> \in Seq(Transparent)
    BY DEF ContextKinds, Transparent
  <2>2. dc = curContext \o <<"Declaration">>
    BY <1>1, <2>1, IdleIs, AppendContext
  <2> QED
    BY <1>1, <2>1, <2>2, IdleIs, TransparentContext
<1> DEFINE d == [id |-> id, name |-> n, kind |-> "Type", dc |-> dc]
<1>4. CheckRedefinitionAndPushOnScope(d, dc, Top)
  BY <1>2
<1>5. d \in Decls /\ d.id \in FreeIds /\ d.dc = dc
  <2> HIDE DEF dc
  <2> QED
    BY <1>3 DEF Decls, DeclKinds, FreeIds, Contexts
<1> HIDE DEF d, dc
<1>6. Declares(d, dc)
  BY <1>1, <1>3, <1>4, <1>5, IdleIs DEF Declares
<1> QED
  BY <1>5, <1>6 DEF dc

LEMMA TypeSpecStep ==
  ASSUME IInv, NEW n \in Idents, ActOnTypeSpec(n)
  PROVE  IInv'
<1>1. Idle /\ UNCHANGED <<spec, todo>> /\ bodyNext' \in BOOLEAN
  BY DEF ActOnTypeSpec
<1> QED
  BY <1>1, TypeDeclares, DeclareStep

(* The context of a list is one of the four its handlers make.             *)
LEMMA SpecContext ==
  ASSUME IInv, todo # << >>
  PROVE  /\ Top > 0 /\ Top \in Nat /\ ~ closing /\ left = {}
         /\ spec \in Contexts /\ KindOf(spec) \in DeclKinds
         /\ getRedeclContext(spec) = OwnerIn(scopes, TargetScope(Top))
         /\ getRedeclContext(ContextOfCheck(spec)) = OwnerIn(scopes, TargetScope(Top))
<1>1. Top > 0 /\ Top \in Nat /\ ~ closing /\ left = {}
  BY ScopeTypes DEF IInv, TodoInv, ClosingInv
<1>2. spec \in Contexts /\ curContext \in Contexts
  BY DEF IInv, TypeOK
<1>3. \A k \in Transparent : k \in ContextKinds /\ <<k>> \in Seq(Transparent)
  BY TransparentKinds
<1>4. CASE HasTransparentEntity(Top)
  <2>1. spec = curContext
    BY <1>4 DEF IInv, TodoInv
  <2>2. Top \in 2 .. Top /\ Top \in 1 .. Top
    BY <1>1, <1>4, OnlyTopTransparent DEF IInv
  <2>3. Entity(Top) # << >> /\ Last(Entity(Top)) \in Transparent
    BY <1>4 DEF HasTransparentEntity, isTransparentContext, Entity
  <2>4. Last(Entity(Top)) = "FieldSpec"
    BY <2>2, <2>3, EntityKind DEF IInv
  <2>5. curContext = Entity(Top)
    <3>1. IsOwner(scopes, Top, Top)
      BY <1>1, <2>2, <2>3 DEF IsOwner, Entity
    <3>2. OwnerIn(scopes, Top) = Entity(Top)
      BY <2>2, <3>1, OwnerIs, ScopeTypes DEF Top, Entity, IInv
    <3> QED
      BY <1>1, <3>2, CurrentRedeclContext DEF IInv
  <2>6. KindOf(spec) = "Field" /\ ContextOfCheck(spec) = spec
    BY <2>1, <2>4, <2>5 DEF KindOf, ContextOfCheck
  <2> QED
    BY <1>1, <1>2, <2>1, <2>6, CurrentRedeclContext DEF DeclKinds, IInv
<1>5. CASE ~ HasTransparentEntity(Top)
  <2>1. spec \in {curContext \o <<"Declaration", "ConstSpec">>,
                  curContext \o <<"Declaration", "VarSpec">>, Append(curContext, "VarSpec")}
    BY <1>5 DEF IInv, TodoInv
  <2> DEFINE c == curContext \o <<"Declaration">>
  <2>2. c \in Contexts /\ getRedeclContext(c) = OwnerIn(scopes, TargetScope(Top))
    BY <1>1, <1>3, TransparentContext DEF Transparent
  <2>3. ASSUME NEW k \in {"ConstSpec", "VarSpec"}
        PROVE  /\ curContext \o <<"Declaration", k>> = Append(c, k)
               /\ Last(Append(c, k)) = k /\ Front(Append(c, k)) = c
               /\ getRedeclContext(Append(c, k)) = OwnerIn(scopes, TargetScope(Top))
    <3>1. <<"Declaration">> \in Contexts /\ <<k>> \in Contexts /\ k \in ContextKinds
          /\ <<"Declaration", k>> \in Seq(Transparent)
      BY DEF Contexts, ContextKinds, Transparent
    <3>2. <<"Declaration", k>> = <<"Declaration">> \o <<k>>
      OBVIOUS
    <3>3. Append(c, k) = c \o <<k>>
      BY <2>2, <3>1, AppendContext
    <3>4. c \o <<k>> = curContext \o (<<"Declaration">> \o <<k>>)
      BY <1>2, <3>1, ConcatAssociative DEF Contexts
    <3>5. getRedeclContext(curContext \o <<"Declaration", k>>)
            = OwnerIn(scopes, TargetScope(Top))
      BY <1>1, <3>1, TransparentContext
    <3> HIDE DEF c
    <3>6. Last(Append(c, k)) = k /\ Front(Append(c, k)) = c
      BY <2>2, <3>1, AppendContext
    <3> QED
      BY <3>2, <3>3, <3>4, <3>5, <3>6
  <2>4. /\ Append(curContext, "VarSpec") = curContext \o <<"VarSpec">>
        /\ Last(Append(curContext, "VarSpec")) = "VarSpec"
    BY <1>2, <1>3, AppendContext DEF Transparent
  <2>5. getRedeclContext(Append(curContext, "VarSpec")) = OwnerIn(scopes, TargetScope(Top))
    BY <1>1, <1>3, <2>4, TransparentContext DEF Transparent
  <2> HIDE DEF c
  <2>6. CASE spec = curContext \o <<"Declaration", "ConstSpec">>
    BY <1>1, <1>2, <2>2, <2>3, <2>6 DEF KindOf, ContextOfCheck, DeclKinds
  <2>7. CASE spec = curContext \o <<"Declaration", "VarSpec">>
    BY <1>1, <1>2, <2>3, <2>7 DEF KindOf, ContextOfCheck, DeclKinds
  <2>8. CASE spec = Append(curContext, "VarSpec")
    BY <1>1, <1>2, <2>4, <2>5, <2>8 DEF KindOf, ContextOfCheck, DeclKinds
  <2> QED
    BY <2>1, <2>6, <2>7, <2>8
<1> QED
  BY <1>4, <1>5

LEMMA TailOfTodo ==
  ASSUME NEW S, NEW t \in Seq(S), t # << >>
  PROVE  /\ Tail(t) \in Seq(S) /\ Head(t) \in S
         /\ Len(t) = 1 => Tail(t) = << >>
<1>1. Tail(t) \in Seq(S) /\ Head(t) \in S /\ Len(Tail(t)) = Len(t) - 1
  BY HeadTailProperties
<1> QED
  BY <1>1, EmptySeq

(* A step that leaves the scopes and the chains alone.                     *)
LEMMA SameScopes ==
  ASSUME IInv, UNCHANGED <<scopes, slots, curContext, closing, left>>, report' \in ReportTypes
  PROVE  /\ Typed(scopes, slots, report)' /\ Top' = Top
         /\ HasTransparentEntity(Top)' <=> HasTransparentEntity(Top)
         /\ EntitiesInv' /\ ContextFollowsScopes' /\ DeclsInv' /\ ChainsMirrorScopes'
<1>1. Top' = Top /\ \A s : HasTransparentEntity(s)' <=> HasTransparentEntity(s)
  BY DEF Top, HasTransparentEntity, isTransparentContext
<1>2. Typed(scopes, slots, report)'
  BY TypedIs DEF IInv, Typed
<1>3. EntitiesInv' /\ DeclsInv'
  BY <1>1 DEF IInv, EntitiesInv, DeclsInv, Entity
<1>4. ContextFollowsScopes'
  BY <1>1 DEF IInv, ContextFollowsScopes, Owner
<1>5. ChainsMirrorScopes'
  BY <1>1 DEF IInv, ChainsMirrorScopes, Held
<1> QED
  BY <1>1, <1>2, <1>3, <1>4, <1>5

LEMMA IdentDeclares ==
  ASSUME IInv, DeclareIdent, ~ Head(todo).old
  PROVE  \E d \in Decls : Declares(d, ContextOfCheck(spec))
<1>1. todo # << >> /\ UNCHANGED <<curContext, closing, left>>
  BY DEF DeclareIdent
<1>2. /\ Top > 0 /\ ~ closing /\ spec \in Contexts /\ KindOf(spec) \in DeclKinds
      /\ getRedeclContext(spec) = OwnerIn(scopes, TargetScope(Top))
      /\ getRedeclContext(ContextOfCheck(spec)) = OwnerIn(scopes, TargetScope(Top))
  BY <1>1, SpecContext
<1>3. Head(todo) \in [name : Idents, old : BOOLEAN]
  BY <1>1, TailOfTodo DEF IInv, TypeOK
<1>4. PICK id \in FreeIds : CheckRedefinitionAndPushOnScope(
         [id |-> id, name |-> Head(todo).name, kind |-> KindOf(spec), dc |-> spec],
         ContextOfCheck(spec), Top)
  BY DEF DeclareIdent
<1> DEFINE d == [id |-> id, name |-> Head(todo).name, kind |-> KindOf(spec), dc |-> spec]
<1>5. d \in Decls /\ d.id \in FreeIds /\ d.dc = spec
  BY <1>2, <1>3 DEF Decls, FreeIds, Contexts
<1>6. CheckRedefinitionAndPushOnScope(d, ContextOfCheck(spec), Top)
  BY <1>4
<1> HIDE DEF d
<1>7. Declares(d, ContextOfCheck(spec))
  BY <1>1, <1>2, <1>5, <1>6 DEF Declares
<1> QED
  BY <1>5, <1>7

LEMMA DeclareIdentStep ==
  ASSUME IInv, DeclareIdent
  PROVE  IInv'
<1>1. todo # << >> /\ todo' = Tail(todo) /\ spec' = IF Len(todo) = 1 THEN << >> ELSE spec
  BY DEF DeclareIdent
<1>2. UNCHANGED <<curContext, bodyNext, closing, left>>
  BY DEF DeclareIdent
<1>3. /\ Top > 0 /\ Top \in Nat /\ ~ closing /\ left = {}
      /\ spec \in Contexts /\ KindOf(spec) \in DeclKinds
      /\ getRedeclContext(spec) = OwnerIn(scopes, TargetScope(Top))
      /\ getRedeclContext(ContextOfCheck(spec)) = OwnerIn(scopes, TargetScope(Top))
  BY <1>1, SpecContext
<1>4. /\ todo' \in Seq([name : Idents, old : BOOLEAN])
      /\ Head(todo) \in [name : Idents, old : BOOLEAN]
      /\ Len(todo) = 1 => todo' = << >>
  BY <1>1, TailOfTodo DEF IInv, TypeOK
<1>5. /\ Typed(scopes, slots, report)' /\ Top' = Top
      /\ HasTransparentEntity(Top)' <=> HasTransparentEntity(Top)
      /\ EntitiesInv' /\ ContextFollowsScopes' /\ DeclsInv'
      /\ ChainsMirrorScopes' /\ RedefinitionIsLocal'
  <2>1. CASE Head(todo).old
    <3>1. report' = NoReport /\ UNCHANGED <<scopes, slots>>
      BY <2>1 DEF DeclareIdent
    <3>2. RedefinitionIsLocal'
      BY <3>1, NoReportIs DEF RedefinitionIsLocal
    <3> QED
      BY <1>2, <3>1, <3>2, NoReportIs, SameScopes
  <2>2. CASE ~ Head(todo).old
    BY <2>2, IdentDeclares, CheckStep
  <2> QED
    BY <2>1, <2>2
<1>6. TypeOK'
  <2>1. << >> \in Contexts
    BY DEF Contexts
  <2>2. /\ curContext' \in Contexts \ {<< >>} /\ spec' \in Contexts
        /\ bodyNext' \in BOOLEAN /\ closing' \in BOOLEAN /\ left' \in SUBSET Decls
    BY <1>1, <1>2, <1>3, <2>1 DEF IInv, TypeOK
  <2> QED
    BY <1>4, <1>5, <2>2, TypedNext
<1>7. ClosingInv'
  BY <1>2, <1>3 DEF ClosingInv
<1>8. TodoInv'
  <2> SUFFICES ASSUME todo' # << >> PROVE TodoInv'
    BY DEF TodoInv
  <2>1. spec' = spec
    BY <1>1, <1>4
  <2> QED
    BY <1>1, <1>2, <1>3, <1>5, <2>1 DEF IInv, TodoInv
<1> QED
  BY <1>5, <1>6, <1>7, <1>8 DEF IInv

LEMMA IdentListsAreSeqs == IdentLists \subseteq Seq(Idents)
<1> SUFFICES ASSUME NEW idents \in IdentLists PROVE idents \in Seq(Idents)
  OBVIOUS
<1>1. PICK k \in 1 .. MaxIdents : idents \in [1 .. k -> Idents]
  BY DEF IdentLists
<1>2. k \in Nat
  BY ConstantsAssumption
<1> QED
  BY <1>1, <1>2, SeqDef

LEMMA FunctionIsSeq ==
  ASSUME NEW S, NEW k \in Nat, NEW t \in [1 .. k -> S]
  PROVE  t \in Seq(S)
BY SeqDef

LEMMA ListIs ==
  ASSUME NEW idents \in Seq(Idents), NEW old \in SUBSET Idents
  PROVE  /\ [i \in 1 .. Len(idents) |-> [name |-> idents[i], old |-> idents[i] \in old]]
              \in Seq([name : Idents, old : BOOLEAN])
         /\ Len(idents) \in Nat
         /\ \A i \in 1 .. Len(idents) : idents[i] \in Idents
<1>1. Len(idents) \in Nat /\ \A i \in 1 .. Len(idents) : idents[i] \in Idents
  BY LenProperties, ElementOfSeq
<1> DEFINE t == [i \in 1 .. Len(idents) |-> [name |-> idents[i], old |-> idents[i] \in old]]
<1>2. t \in [1 .. Len(idents) -> [name : Idents, old : BOOLEAN]]
  BY <1>1
<1>3. t \in Seq([name : Idents, old : BOOLEAN])
  <2> HIDE DEF t
  <2>1. PICK k \in Nat : t \in [1 .. k -> [name : Idents, old : BOOLEAN]]
    BY <1>1, <1>2
  <2> QED
    BY <2>1, FunctionIsSeq
<1> QED
  BY <1>1, <1>3

(* The start of a list outside a struct type.                              *)
LEMMA ListStep ==
  ASSUME IInv, Idle, NEW idents \in Seq(Idents), NEW old \in SUBSET Idents, NEW dc,
         BeginList(idents, dc, old), UNCHANGED <<scopes, slots, curContext, closing, left>>,
         dc \in {curContext \o <<"Declaration", "ConstSpec">>,
                 curContext \o <<"Declaration", "VarSpec">>, Append(curContext, "VarSpec")}
  PROVE  IInv'
<1>1. /\ spec' = dc /\ bodyNext' = FALSE /\ report' = NoReport
      /\ todo' \in Seq([name : Idents, old : BOOLEAN])
  BY ListIs DEF BeginList
<1>2. dc \in Contexts
  <2>1. \A k \in Transparent : k \in ContextKinds
    BY TransparentKinds
  <2>2. <<"Declaration", "ConstSpec">> \in Contexts /\ <<"Declaration", "VarSpec">> \in Contexts
    BY <2>1 DEF Contexts, Transparent
  <2>3. \A t \in Contexts : curContext \o t \in Contexts
    BY IdleIs, ConcatProperties DEF Contexts
  <2>4. Append(curContext, "VarSpec") \in Contexts
    BY <2>1, IdleIs, AppendContext DEF Transparent
  <2> QED
    BY <2>2, <2>3, <2>4
<1>3. /\ Typed(scopes, slots, report)' /\ Top' = Top
      /\ HasTransparentEntity(Top)' <=> HasTransparentEntity(Top)
      /\ EntitiesInv' /\ ContextFollowsScopes' /\ DeclsInv' /\ ChainsMirrorScopes'
  BY <1>1, NoReportIs, SameScopes
<1>4. TypeOK'
  <2>1. /\ curContext' \in Contexts \ {<< >>} /\ spec' \in Contexts
        /\ bodyNext' \in BOOLEAN /\ closing' \in BOOLEAN /\ left' \in SUBSET Decls
    BY <1>1, <1>2 DEF IInv, TypeOK
  <2> QED
    BY <1>1, <1>3, <2>1, TypedNext
<1>5. ClosingInv'
  BY IdleIs DEF ClosingInv
<1>6. TodoInv'
  <2>1. Top' > 0 /\ ~ HasTransparentEntity(Top)'
    BY <1>3, IdleIs
  <2>2. spec' \in {curContext' \o <<"Declaration", "ConstSpec">>,
                   curContext' \o <<"Declaration", "VarSpec">>, Append(curContext', "VarSpec")}
    BY <1>1
  <2> QED
    BY <2>1, <2>2 DEF TodoInv
<1>7. RedefinitionIsLocal'
  BY <1>1, NoReportIs DEF RedefinitionIsLocal
<1> QED
  BY <1>3, <1>4, <1>5, <1>6, <1>7 DEF IInv

LEMMA ConstSpecStep ==
  ASSUME IInv, NEW idents \in Seq(Idents), ActOnConstSpec(idents)
  PROVE  IInv'
<1> DEFINE dc == curContext \o <<"Declaration", "ConstSpec">>
<1>1. Idle /\ BeginList(idents, dc, {}) /\ UNCHANGED <<scopes, slots, curContext, closing, left>>
  BY DEF ActOnConstSpec
<1>2. dc \in {curContext \o <<"Declaration", "ConstSpec">>,
              curContext \o <<"Declaration", "VarSpec">>, Append(curContext, "VarSpec")}
  OBVIOUS
<1> HIDE DEF dc
<1> QED
  BY <1>1, <1>2, ListStep

LEMMA VarSpecStep ==
  ASSUME IInv, NEW idents \in Seq(Idents), ActOnVarSpec(idents)
  PROVE  IInv'
<1> DEFINE dc == curContext \o <<"Declaration", "VarSpec">>
<1>1. Idle /\ BeginList(idents, dc, {}) /\ UNCHANGED <<scopes, slots, curContext, closing, left>>
  BY DEF ActOnVarSpec
<1>2. dc \in {curContext \o <<"Declaration", "ConstSpec">>,
              curContext \o <<"Declaration", "VarSpec">>, Append(curContext, "VarSpec")}
  OBVIOUS
<1> HIDE DEF dc
<1> QED
  BY <1>1, <1>2, ListStep

LEMMA ShortVarDeclStep ==
  ASSUME IInv, NEW idents \in Seq(Idents), ActOnShortVarDeclStmt(idents)
  PROVE  IInv'
<1>1. Idle /\ UNCHANGED <<scopes, slots, curContext, closing, left>>
  BY DEF ActOnShortVarDeclStmt
<1>2. CASE \A i \in 1 .. Len(idents) : AlreadyHere(idents[i])
  <2> DEFINE old == {LookupName(idents[i], Top)[1] : i \in 1 .. Len(idents)}
  <2>1. /\ report' = [what |-> "no_new_vars", scope |-> Top, old |-> old]
        /\ bodyNext' = FALSE /\ UNCHANGED <<spec, todo>>
    BY <1>2 DEF ActOnShortVarDeclStmt
  <2>2. ASSUME NEW i \in 1 .. Len(idents)
        PROVE  /\ LookupName(idents[i], Top)[1] \in Decls
               /\ \/ Last(getRedeclContext(curContext)) = "Function"
                  \/ Entity(Top) # << >>
                  => LookupName(idents[i], Top)[1] \in scopes[Top].decls
    <3>1. idents[i] \in Idents
      BY ListIs
    <3>2. LookupName(idents[i], Top) # << >>
          /\ isDeclInScope(LookupName(idents[i], Top)[1], curContext, Top)
      BY <1>2 DEF AlreadyHere
    <3>3. LookupName(idents[i], Top)[1] \in Decls
      BY <3>1, <3>2, LookupHead DEF IInv, TypeOK
    <3>4. getRedeclContext(curContext) = OwnerIn(scopes, TargetScope(Top)) /\ TargetScope(Top) = Top
          /\ ~ closing /\ Top > 0
      BY <1>1, IdleIs
    <3> SUFFICES ASSUME \/ Last(getRedeclContext(curContext)) = "Function"
                        \/ Entity(TargetScope(Top)) # << >>
                 PROVE  LookupName(idents[i], Top)[1] \in scopes[TargetScope(Top)].decls
      BY <3>3, <3>4
    <3> QED
      BY <3>1, <3>2, <3>4, CheckFindsLocal DEF IInv
  <2>3. old \in SUBSET Decls
    BY <2>2
  <2> HIDE DEF old
  <2>4. report' \in ReportTypes
    BY <1>1, <2>1, <2>3, IdleIs DEF ReportTypes
  <2>5. /\ Typed(scopes, slots, report)' /\ Top' = Top
        /\ HasTransparentEntity(Top)' <=> HasTransparentEntity(Top)
        /\ EntitiesInv' /\ ContextFollowsScopes' /\ DeclsInv' /\ ChainsMirrorScopes'
    BY <1>1, <2>4, SameScopes
  <2>6. TypeOK'
    <3>1. /\ curContext' \in Contexts \ {<< >>} /\ spec' \in Contexts
          /\ todo' \in Seq([name : Idents, old : BOOLEAN])
          /\ bodyNext' \in BOOLEAN /\ closing' \in BOOLEAN /\ left' \in SUBSET Decls
      BY <1>1, <2>1 DEF IInv, TypeOK
    <3> QED
      BY <2>5, <3>1, TypedNext
  <2>7. ClosingInv' /\ TodoInv'
    BY <1>1, <2>1, IdleIs DEF ClosingInv, TodoInv
  <2>8. RedefinitionIsLocal'
    <3>1. report'.scope = Top /\ report'.old = old
      BY <2>1
    <3> SUFFICES ASSUME ScopedContext' PROVE old \subseteq scopes[Top].decls
      BY <1>1, <3>1 DEF RedefinitionIsLocal
    <3>2. Last(getRedeclContext(curContext)) = "Function" \/ Entity(Top) # << >>
      BY <1>1, <3>1 DEF ScopedContext, Entity
    <3> QED
      BY <2>2, <3>2 DEF old
  <2> QED
    BY <2>5, <2>6, <2>7, <2>8 DEF IInv
<1>3. CASE ~ (\A i \in 1 .. Len(idents) : AlreadyHere(idents[i]))
  <2> DEFINE old == {n \in Idents : AlreadyHere(n)}
             dc  == Append(curContext, "VarSpec")
  <2>1. BeginList(idents, dc, old)
    BY <1>3 DEF ActOnShortVarDeclStmt
  <2>2. old \in SUBSET Idents
        /\ dc \in {curContext \o <<"Declaration", "ConstSpec">>,
                   curContext \o <<"Declaration", "VarSpec">>, Append(curContext, "VarSpec")}
    OBVIOUS
  <2> HIDE DEF old, dc
  <2> QED
    BY <1>1, <2>1, <2>2, ListStep
<1> QED
  BY <1>2, <1>3

-----------------------------------------------------------------------------
(* Then those that open a scope: one without a context, or with one made   *)
(* in the current one.                                                     *)

LEMMA EnterStep ==
  ASSUME IInv, Idle, NEW N, N = Top + 1, NEW e \in Contexts, EnterScope(e),
         UNCHANGED <<slots, closing, left>>,
         \/ e = << >> /\ curContext' = curContext
         \/ curContext' = e /\ \E k \in {"Function", "Struct", "FieldSpec"} :
                                 e = Append(curContext, k)
  PROVE  /\ scopes' \in Seq(ScopeRecords) /\ Top' = N /\ Entity(N)' = e
         /\ curContext' \in Contexts \ {<< >>}
         /\ Held(N)' = {} /\ \A s \in 1 .. Top : Held(s)' = Held(s)
         /\ EntitiesInv' /\ ContextFollowsScopes' /\ DeclsInv' /\ ChainsMirrorScopes'
<1> DEFINE r == [entity |-> e, decls |-> {}]
<1>1. /\ Top > 0 /\ Top \in Nat /\ N = Top + 1 /\ ~ closing /\ ~ HasTransparentEntity(Top)
      /\ curContext \in Contexts /\ curContext # << >> /\ curContext = OwnerIn(scopes, Top)
      /\ Top = Len(scopes) /\ scopes \in Seq(ScopeRecords)
  BY IdleIs, ScopeTypes DEF Top, IInv
<1>2. r \in ScopeRecords /\ scopes' = Append(scopes, r) /\ r.entity = e /\ r.decls = {}
  BY DEF EnterScope, ScopeRecords
<1> HIDE DEF r
<1>3. /\ scopes' \in Seq(ScopeRecords) /\ Top' = N /\ Len(scopes') = N
      /\ \A i \in 1 .. Top : scopes'[i] = scopes[i]
      /\ scopes'[N] = r
  BY <1>1, <1>2, AppendProperties DEF Top
<1>4. /\ \A i \in 1 .. Top : Entity(i)' = Entity(i) /\ scopes'[i].decls = scopes[i].decls
      /\ Entity(N)' = e /\ scopes'[N].decls = {}
  BY <1>2, <1>3 DEF Entity
<1>5. PICK k \in 1 .. Top : /\ curContext = Entity(k) /\ Entity(k) # << >>
                            /\ \A j \in k + 1 .. Top : Entity(j) = << >>
  <2>1. Top \in 1 .. Top
    BY <1>1
  <2>2. PICK k : IsOwner(scopes, Top, k) /\ OwnerIn(scopes, Top) = Entity(k)
    BY <2>1, OwnerTypes DEF IInv
  <2> QED
    BY <1>1, <2>2 DEF IsOwner, Entity
<1>6. ASSUME NEW s \in 1 .. Top PROVE OwnerIn(scopes', s) = OwnerIn(scopes, s)
  <2>1. Entity(1) # << >> /\ 1 \in 1 .. Top
    <3>1. 1 \in 1 .. Top /\ Top > 0
      BY <1>1
    <3>2. Entity(1) = <<"TU">>
      BY <3>1 DEF IInv, EntitiesInv
    <3> QED
      BY <3>1, <3>2, TUContext
  <2>2. scopes[1].entity # << >> /\ \A i \in 1 .. s : scopes[i].entity = scopes'[i].entity
    BY <1>1, <1>4, <2>1 DEF Entity
  <2>3. s \in 1 .. Len(scopes) /\ s <= Len(scopes')
    BY <1>1, <1>3 DEF Top
  <2> QED
    BY <1>1, <1>3, <2>2, <2>3, OwnerOfPrefix
<1>7. OwnerIn(scopes', N) = curContext'
  <2>1. N \in 1 .. Len(scopes')
    BY <1>1, <1>3
  <2>2. CASE e = << >>
    <3>1. curContext' = curContext
      <4>1. \A x \in ContextKinds : Append(curContext, x) # << >>
        BY <1>1, AppendContext
      <4> QED
        BY <2>2, <4>1 DEF ContextKinds
    <3>2. IsOwner(scopes', N, k)
      <4>1. scopes'[k].entity # << >>
        BY <1>4, <1>5 DEF Entity
      <4>2. ASSUME NEW j \in k + 1 .. N PROVE scopes'[j].entity = << >>
        <5>1. CASE j = N
          BY <1>4, <2>2, <5>1 DEF Entity
        <5>2. CASE j # N
          <6>1. j \in k + 1 .. Top /\ j \in 1 .. Top
            BY <1>1, <5>2
          <6> QED
            BY <1>4, <1>5, <6>1 DEF Entity
        <5> QED
          BY <5>1, <5>2
      <4> QED
        BY <1>1, <4>1, <4>2 DEF IsOwner
    <3>3. OwnerIn(scopes', N) = scopes'[k].entity
      BY <1>3, <2>1, <3>2, OwnerIs
    <3> QED
      BY <1>4, <1>5, <3>1, <3>3 DEF Entity
  <2>3. CASE e # << >>
    <3>1. IsOwner(scopes', N, N)
      BY <1>1, <1>4, <2>3 DEF IsOwner, Entity
    <3>2. OwnerIn(scopes', N) = scopes'[N].entity
      BY <1>3, <2>1, <3>1, OwnerIs
    <3> QED
      BY <1>4, <2>3, <3>2 DEF Entity
  <2> QED
    BY <2>2, <2>3
<1>8. curContext' \in Contexts \ {<< >>}
  <2>1. \A x \in ContextKinds : Append(curContext, x) # << >>
    BY <1>1, AppendContext
  <2> QED
    BY <1>1, <2>1 DEF ContextKinds
<1>9. EntitiesInv'
  <2>1. Entity(1)' = <<"TU">>
    BY <1>1, <1>4 DEF IInv, EntitiesInv
  <2>2. ASSUME NEW i \in 2 .. N, Entity(i)' # << >>
        PROVE  \E x \in {"Function", "Struct", "FieldSpec"} :
                 /\ Entity(i)' = Append(OwnerIn(scopes', i - 1), x)
                 /\ x = "FieldSpec" => i = N
    <3>1. CASE i = N
      <4>1. PICK x \in {"Function", "Struct", "FieldSpec"} : e = Append(curContext, x)
        BY <1>4, <2>2, <3>1
      <4>2. OwnerIn(scopes', i - 1) = curContext
        BY <1>1, <1>6, <3>1
      <4> QED
        BY <1>4, <3>1, <4>1, <4>2
    <3>2. CASE i # N
      <4>1. i \in 2 .. Top /\ i \in 1 .. Top /\ i - 1 \in 1 .. Top
        BY <1>1, <3>2
      <4>2. Entity(i) # << >>
        BY <1>4, <2>2, <4>1
      <4>3. PICK x \in {"Function", "Struct", "FieldSpec"} :
              /\ Entity(i) = Append(OwnerIn(scopes, i - 1), x)
              /\ x = "FieldSpec" => i = Top
              /\ x \in Transparent <=> x = "FieldSpec"
              /\ Last(Entity(i)) = x
        BY <4>1, <4>2, EntityKind DEF IInv
      <4>4. x # "FieldSpec"
        BY <1>1, <4>2, <4>3 DEF HasTransparentEntity, isTransparentContext, Entity
      <4> QED
        BY <1>4, <1>6, <4>1, <4>3, <4>4
    <3> QED
      BY <3>1, <3>2
  <2>3. ASSUME NEW i \in 1 .. N, NEW j \in 1 .. N, i < j, Entity(j)' # << >>
        PROVE  Len(Entity(i)') < Len(Entity(j)')
    <3>1. i \in 1 .. Top
      BY <1>1, <2>3
    <3>2. CASE j = N
      <4>1. PICK x \in {"Function", "Struct", "FieldSpec"} : e = Append(curContext, x)
        BY <1>4, <2>3, <3>2
      <4>2. x \in ContextKinds
        BY DEF ContextKinds, Transparent
      <4>3. Len(e) = Len(curContext) + 1 /\ Len(curContext) \in Nat
        BY <1>1, <4>1, <4>2, AppendContext, LenProperties DEF Contexts
      <4>4. Len(Entity(i)) <= Len(curContext)
        <5>1. CASE i < k
          <6>1. Len(Entity(i)) < Len(Entity(k)) /\ Len(Entity(i)) \in Nat
            BY <1>5, <3>1, <5>1, ScopeTypes, LenProperties DEF IInv, EntitiesInv, Contexts
          <6> QED
            BY <1>5, <4>3, <6>1
        <5>2. CASE i = k
          BY <1>5, <4>3, <5>2
        <5>3. CASE i > k
          <6>1. Entity(i) = << >>
            BY <1>1, <1>5, <3>1, <5>3
          <6>2. Len(Entity(i)) = 0
            BY <6>1, EmptySeq
          <6> QED
            BY <4>3, <6>2
        <5> QED
          BY <1>1, <1>5, <3>1, <5>1, <5>2, <5>3
      <4>5. Entity(i)' = Entity(i) /\ Len(Entity(i)) \in Nat
        BY <1>4, <3>1, ScopeTypes, LenProperties DEF IInv, Contexts
      <4> QED
        BY <1>4, <3>2, <4>3, <4>4, <4>5
    <3>3. CASE j # N
      <4>1. j \in 1 .. Top
        BY <1>1, <3>3
      <4> QED
        BY <1>4, <2>3, <3>1, <4>1 DEF IInv, EntitiesInv
    <3> QED
      BY <3>2, <3>3
  <2> QED
    BY <1>3, <2>1, <2>2, <2>3 DEF EntitiesInv
<1>10. ContextFollowsScopes'
  <2>1. ~ closing' /\ Top' > 0 /\ Top' = N
    BY <1>1, <1>3
  <2> QED
    BY <1>7, <2>1 DEF ContextFollowsScopes, Owner, OwnerIn
<1>11. DeclsInv'
  <2>1. ASSUME NEW i \in 1 .. N, NEW d \in scopes'[i].decls
        PROVE  i \in 1 .. Top /\ d \in scopes[i].decls
    BY <1>1, <1>4
  <2> QED
    BY <1>3, <1>4, <1>6, <2>1 DEF IInv, DeclsInv
<1>12. /\ \A s \in 1 .. Top : Held(s)' = Held(s)
       /\ Held(N)' = {}
  BY <1>1, <1>4 DEF Held
<1>13. ChainsMirrorScopes'
  <2>1. ASSUME NEW s \in 1 .. N, NEW d \in Held(s)' PROVE s \in 1 .. Top /\ d \in Held(s)
    BY <1>1, <1>12
  <2>2. ChainsHeld'
    <3> SUFFICES ASSUME NEW n \in Idents, NEW i \in 1 .. Len(slots[n].decls)
                 PROVE  /\ slots[n].decls[i].name = n
                        /\ \E s \in 1 .. Top' : slots[n].decls[i] \in Held(s)'
      BY DEF ChainsHeld
    <3>1. slots[n].decls[i].name = n
      BY ChainsParts DEF ChainsHeld, IInv
    <3>2. PICK s \in 1 .. Top : slots[n].decls[i] \in Held(s)
      BY ChainsParts DEF ChainsHeld, IInv
    <3>3. s \in 1 .. Top'
      BY <1>1, <1>3
    <3> QED
      BY <1>12, <3>1, <3>2, <3>3
  <2>3. HeldChained'
    BY <1>3, <2>1, ChainsParts DEF HeldChained, IInv
  <2>4. ChainsOrdered'
    BY <1>3, <2>1, ChainsParts DEF ChainsOrdered, IInv
  <2>5. ChainsMirrorScopes' <=> (ChainsHeld /\ HeldChained /\ ChainsOrdered)'
    BY DEF ChainsMirrorScopes, ChainsHeld, HeldChained, ChainsOrdered
  <2> QED
    BY <2>2, <2>3, <2>4, <2>5
<1> QED
  BY <1>3, <1>4, <1>8, <1>9, <1>10, <1>11, <1>12, <1>13

(* A scope without a list to declare in it.                                *)
LEMMA EnterBlock ==
  ASSUME IInv, Idle, NEW e \in Contexts, EnterScope(e),
         UNCHANGED <<slots, spec, todo, closing, left>>,
         \/ e = << >> /\ curContext' = curContext
         \/ curContext' = e /\ \E k \in {"Function", "Struct", "FieldSpec"} :
                                 e = Append(curContext, k),
         bodyNext' = FALSE, report' = NoReport
  PROVE  IInv'
<1>1. PICK N : N = Top + 1
  OBVIOUS
<1>2. /\ scopes' \in Seq(ScopeRecords) /\ Top' = N /\ Entity(N)' = e
      /\ curContext' \in Contexts \ {<< >>}
      /\ EntitiesInv' /\ ContextFollowsScopes' /\ DeclsInv' /\ ChainsMirrorScopes'
  BY <1>1, EnterStep
<1>3. Typed(scopes, slots, report)'
  BY <1>2, NoReportIs, TypedIs DEF IInv, Typed
<1>4. TypeOK'
  <2>1. /\ curContext' \in Contexts \ {<< >>} /\ spec' \in Contexts
        /\ todo' \in Seq([name : Idents, old : BOOLEAN])
        /\ bodyNext' \in BOOLEAN /\ closing' \in BOOLEAN /\ left' \in SUBSET Decls
    BY <1>2 DEF IInv, TypeOK
  <2> QED
    BY <1>3, <2>1, TypedNext
<1>5. ClosingInv' /\ TodoInv'
  BY IdleIs DEF ClosingInv, TodoInv
<1>6. RedefinitionIsLocal'
  BY NoReportIs DEF RedefinitionIsLocal
<1> QED
  BY <1>2, <1>4, <1>5, <1>6 DEF IInv

LEMMA FunctionDefStep ==
  ASSUME IInv, ActOnStartOfFunctionDef
  PROVE  IInv'
<1> DEFINE e == Append(curContext, "Function")
<1>1. /\ Idle /\ EnterScope(e) /\ curContext' = e
      /\ UNCHANGED <<slots, spec, todo, closing, left>> /\ bodyNext' = FALSE /\ report' = NoReport
  BY DEF ActOnStartOfFunctionDef, PushDeclContext
<1>2. e \in Contexts
  BY <1>1, IdleIs, AppendContext DEF ContextKinds
<1>3. \E k \in {"Function", "Struct", "FieldSpec"} : e = Append(curContext, k)
  OBVIOUS
<1> HIDE DEF e
<1> QED
  BY <1>1, <1>2, <1>3, EnterBlock

LEMMA StructTypeStep ==
  ASSUME IInv, ActOnStartOfStructType
  PROVE  IInv'
<1> DEFINE e == Append(curContext, "Struct")
<1>1. /\ Idle /\ EnterScope(e) /\ curContext' = e
      /\ UNCHANGED <<slots, spec, todo, closing, left>> /\ bodyNext' = FALSE /\ report' = NoReport
  BY DEF ActOnStartOfStructType, PushDeclContext
<1>2. e \in Contexts
  BY <1>1, IdleIs, AppendContext DEF ContextKinds
<1>3. \E k \in {"Function", "Struct", "FieldSpec"} : e = Append(curContext, k)
  OBVIOUS
<1> HIDE DEF e
<1> QED
  BY <1>1, <1>2, <1>3, EnterBlock

LEMMA BlockStep ==
  ASSUME IInv, ParseBlock
  PROVE  IInv'
<1>1. /\ Idle /\ EnterScope(<< >>) /\ curContext' = curContext
      /\ UNCHANGED <<slots, spec, todo, closing, left>> /\ bodyNext' = FALSE /\ report' = NoReport
  BY DEF ParseBlock
<1>2. << >> \in Contexts
  BY DEF Contexts
<1> QED
  BY <1>1, <1>2, EnterBlock

LEMMA FieldDeclStep ==
  ASSUME IInv, NEW idents \in Seq(Idents), ActOnFieldDecl(idents)
  PROVE  IInv'
<1> DEFINE e == Append(curContext, "FieldSpec")
<1>1. /\ Idle /\ EnterScope(e) /\ curContext' = e /\ BeginList(idents, e, {})
      /\ UNCHANGED <<slots, closing, left>>
  BY DEF ActOnFieldDecl, PushDeclContext
<1>2. e \in Contexts /\ Last(e) \in Transparent /\ e # << >>
  BY <1>1, IdleIs, AppendContext DEF ContextKinds, Transparent
<1>3. \E k \in {"Function", "Struct", "FieldSpec"} : e = Append(curContext, k)
  OBVIOUS
<1> HIDE DEF e
<1>4. PICK N : N = Top + 1
  OBVIOUS
<1>5. /\ scopes' \in Seq(ScopeRecords) /\ Top' = N /\ Entity(N)' = e
      /\ curContext' \in Contexts \ {<< >>}
      /\ EntitiesInv' /\ ContextFollowsScopes' /\ DeclsInv' /\ ChainsMirrorScopes'
  BY <1>1, <1>2, <1>3, <1>4, EnterStep
<1>6. /\ spec' = e /\ bodyNext' = FALSE /\ report' = NoReport
      /\ todo' \in Seq([name : Idents, old : BOOLEAN])
  BY <1>1, ListIs DEF BeginList
<1>7. Typed(scopes, slots, report)'
  BY <1>1, <1>5, <1>6, NoReportIs, TypedIs DEF IInv, Typed
<1>8. TypeOK'
  <2>1. /\ curContext' \in Contexts \ {<< >>} /\ spec' \in Contexts
        /\ todo' \in Seq([name : Idents, old : BOOLEAN])
        /\ bodyNext' \in BOOLEAN /\ closing' \in BOOLEAN /\ left' \in SUBSET Decls
    BY <1>1, <1>2, <1>5, <1>6 DEF IInv, TypeOK
  <2> QED
    BY <1>7, <2>1, TypedNext
<1>9. ClosingInv'
  BY <1>1, IdleIs DEF ClosingInv
<1>10. TodoInv'
  <2>1. HasTransparentEntity(Top)'
    <3>1. scopes'[Top'].entity = e
      BY <1>5 DEF Entity
    <3> QED
      BY <1>2, <3>1 DEF HasTransparentEntity, isTransparentContext
  <2>2. Top' > 0
    BY <1>1, <1>4, <1>5, IdleIs
  <2> QED
    BY <1>1, <1>6, <2>1, <2>2 DEF TodoInv
<1>11. RedefinitionIsLocal'
  BY <1>6, NoReportIs DEF RedefinitionIsLocal
<1> QED
  BY <1>5, <1>8, <1>9, <1>10, <1>11 DEF IInv

LEMMA AnonymousFieldStep ==
  ASSUME IInv, NEW n \in Idents, ActOnAnonymousField(n)
  PROVE  IInv'
<1>1. <<n>> \in Seq(Idents)
  OBVIOUS
<1> QED
  BY <1>1, FieldDeclStep DEF ActOnAnonymousField

-----------------------------------------------------------------------------
(* Last those that close one.                                              *)

(* The context a scope was opened in, when it is the innermost.            *)
LEMMA ContextOutside ==
  ASSUME IInv, ~ closing, Top > 0
  PROVE  /\ Top = 1 => curContext = <<"TU">>
         /\ Top > 1 => /\ OwnerIn(scopes, Top - 1) \in Contexts
                       /\ OwnerIn(scopes, Top - 1) # << >>
                       /\ Entity(Top) # << >> => Front(curContext) = OwnerIn(scopes, Top - 1)
                       /\ Entity(Top) = << >> => curContext = OwnerIn(scopes, Top - 1)
<1>1. Top \in Nat /\ Top \in 1 .. Top /\ curContext = OwnerIn(scopes, Top) /\ Top = Len(scopes)
      /\ scopes \in Seq(ScopeRecords)
  BY ScopeTypes, CurrentRedeclContext DEF IInv, Top
<1>2. Entity(Top) # << >> => curContext = Entity(Top)
  <2> HAVE Entity(Top) # << >>
  <2>1. IsOwner(scopes, Top, Top)
    BY <1>1 DEF IsOwner, Entity
  <2> QED
    BY <1>1, <2>1, OwnerIs DEF Entity
<1>3. CASE Top = 1
  <2>1. Entity(1) = <<"TU">>
    BY DEF IInv, EntitiesInv
  <2> QED
    BY <1>2, <1>3, <2>1, TUContext
<1>4. CASE Top > 1
  <2>1. Top - 1 \in 1 .. Top /\ Top \in 2 .. Top
    BY <1>1, <1>4
  <2>2. OwnerIn(scopes, Top - 1) \in Contexts /\ OwnerIn(scopes, Top - 1) # << >>
    BY <2>1, OwnerTypes DEF IInv
  <2>3. Entity(Top) # << >> => Front(curContext) = OwnerIn(scopes, Top - 1)
    BY <1>2, <2>1, EntityKind DEF IInv
  <2>4. ASSUME Entity(Top) = << >> PROVE curContext = OwnerIn(scopes, Top - 1)
    <3>1. PICK k : IsOwner(scopes, Top - 1, k) /\ OwnerIn(scopes, Top - 1) = Entity(k)
      BY <2>1, OwnerTypes DEF IInv
    <3>2. IsOwner(scopes, Top, k)
      BY <1>1, <2>4, <3>1 DEF IsOwner, Entity
    <3>3. OwnerIn(scopes, Top) = scopes[k].entity
      BY <1>1, <3>2, OwnerIs
    <3> QED
      BY <1>1, <3>1, <3>3 DEF Entity
  <2> QED
    BY <1>1, <1>4, <2>2, <2>3, <2>4
<1> QED
  BY <1>1, <1>3, <1>4

(* The innermost scope goes, which the chains hold nothing of any more.    *)
LEMMA LeaveStep ==
  ASSUME IInv, Top > 0, Held(Top) = {}, NEW N, N = Top - 1,
         scopes' = Front(scopes), slots' = slots, closing' = FALSE
  PROVE  /\ scopes' \in Seq(ScopeRecords) /\ Top' = N /\ N \in Nat
         /\ N > 0 => OwnerIn(scopes', N) = OwnerIn(scopes, N) /\ ~ HasTransparentEntity(Top)'
         /\ \A s \in 1 .. N : Held(s)' = Held(s)
         /\ EntitiesInv' /\ DeclsInv' /\ ChainsMirrorScopes'
<1>1. /\ Top \in Nat /\ N \in Nat /\ Top = N + 1 /\ Top = Len(scopes)
      /\ scopes \in Seq(ScopeRecords) /\ 1 .. N \subseteq 1 .. Top
  BY ScopeTypes DEF IInv, Top
<1>2. scopes # << >>
  BY <1>1, EmptySeq
<1>3. /\ scopes' \in Seq(ScopeRecords) /\ Len(scopes') = N /\ Top' = N
      /\ \A i \in 1 .. N : scopes'[i] = scopes[i]
  BY <1>1, <1>2, FrontIs DEF Top
<1>4. \A i \in 1 .. N : Entity(i)' = Entity(i) /\ scopes'[i].decls = scopes[i].decls
  BY <1>3 DEF Entity
<1>5. ASSUME NEW s \in 1 .. N PROVE OwnerIn(scopes', s) = OwnerIn(scopes, s)
  <2>1. Entity(1) # << >> /\ 1 \in 1 .. N
    <3>1. 1 \in 1 .. N /\ Top > 0
      BY <1>1
    <3>2. Entity(1) = <<"TU">>
      BY <3>1 DEF IInv, EntitiesInv
    <3> QED
      BY <3>1, <3>2, TUContext
  <2>2. scopes[1].entity # << >> /\ \A i \in 1 .. s : scopes[i].entity = scopes'[i].entity
    BY <1>1, <1>4, <2>1 DEF Entity
  <2>3. s \in 1 .. Len(scopes) /\ s <= Len(scopes')
    BY <1>1, <1>3
  <2> QED
    BY <1>1, <1>3, <2>2, <2>3, OwnerOfPrefix
<1>6. ASSUME NEW i \in 1 .. N PROVE ~ HasTransparentEntity(i)
  BY <1>1, OnlyTopTransparent DEF IInv
<1>7. EntitiesInv'
  <2>1. Top' > 0 => Entity(1)' = <<"TU">>
    BY <1>1, <1>3, <1>4 DEF IInv, EntitiesInv
  <2>2. ASSUME NEW i \in 2 .. N, Entity(i)' # << >>
        PROVE  \E x \in {"Function", "Struct", "FieldSpec"} :
                 /\ Entity(i)' = Append(OwnerIn(scopes', i - 1), x)
                 /\ x = "FieldSpec" => i = N
    <3>1. i \in 1 .. N /\ i \in 2 .. Top /\ i - 1 \in 1 .. N /\ i # Top
      BY <1>1
    <3>2. Entity(i) # << >>
      BY <1>4, <2>2, <3>1
    <3>3. PICK x \in {"Function", "Struct", "FieldSpec"} :
            Entity(i) = Append(OwnerIn(scopes, i - 1), x) /\ (x = "FieldSpec" => i = Top)
      BY <3>1, <3>2 DEF IInv, EntitiesInv
    <3> QED
      BY <1>4, <1>5, <3>1, <3>3
  <2>3. \A i, j \in 1 .. N :
           i < j /\ Entity(j)' # << >> => Len(Entity(i)') < Len(Entity(j)')
    BY <1>1, <1>4 DEF IInv, EntitiesInv
  <2> QED
    BY <1>3, <2>1, <2>2, <2>3 DEF EntitiesInv
<1>8. N > 0 => ~ HasTransparentEntity(Top)'
  <2> HAVE N > 0
  <2>1. N \in 1 .. N
    BY <1>1
  <2>2. scopes'[N] = scopes[N] /\ ~ HasTransparentEntity(N)
    BY <1>3, <1>6, <2>1
  <2> QED
    BY <1>3, <2>2 DEF HasTransparentEntity, isTransparentContext
<1>9. DeclsInv'
  <2>1. \A i \in 1 .. N : \A d \in scopes'[i].decls :
           getRedeclContext(d.dc) = OwnerIn(scopes', i)
    BY <1>1, <1>4, <1>5 DEF IInv, DeclsInv
  <2>2. \A i, j \in 1 .. N : \A d \in scopes'[i].decls : \A e \in scopes'[j].decls :
           d.id = e.id => i = j /\ d = e
    BY <1>1, <1>4 DEF IInv, DeclsInv
  <2> QED
    BY <1>3, <1>8, <2>1, <2>2 DEF DeclsInv
<1>10. \A s \in 1 .. N : Held(s)' = Held(s)
  BY <1>1, <1>3, <1>4 DEF Held
<1>11. ChainsMirrorScopes'
  <2>1. \A s \in 1 .. Top' : Held(s)' = Held(s)
    BY <1>3, <1>10
  <2>2. \A s \in 1 .. Top : s > Top' => Held(s) = {}
    <3>1. \A s \in 1 .. Top : s > Top' => s = Top
      BY <1>1, <1>3
    <3> QED
      BY <3>1
  <2>3. Top' <= Top /\ Top' \in Nat
    BY <1>1, <1>3
  <2> QED
    BY <1>1, <2>1, <2>2, <2>3, ChainsSame DEF IInv
<1>12. N > 0 => OwnerIn(scopes', N) = OwnerIn(scopes, N)
  BY <1>1, <1>5
<1> QED
  BY <1>1, <1>3, <1>7, <1>8, <1>9, <1>10, <1>11, <1>12

LEMMA FinishFieldStep ==
  ASSUME IInv, FinishFieldDecl
  PROVE  IInv'
<1>1. /\ Top > 0 /\ HasTransparentEntity(Top) /\ todo = << >>
      /\ curContext' = Front(curContext) /\ scopes' = Front(scopes) /\ report' = NoReport
      /\ UNCHANGED <<slots, spec, todo, bodyNext, closing, left>>
  BY DEF FinishFieldDecl
<1>2. /\ ~ closing /\ left = {} /\ Top > 1 /\ Top \in Nat /\ Top \in 1 .. Top
      /\ Entity(Top) # << >>
  <2>1. ~ closing /\ left = {} /\ Top \in Nat /\ Top \in 1 .. Top
    BY <1>1, ScopeTypes DEF IInv, ClosingInv
  <2> QED
    BY <1>1, <2>1, OnlyTopTransparent DEF IInv, HasTransparentEntity, Entity
<1>3. Held(Top) = {}
  BY <1>1, <1>2 DEF Held, IInv, DeclsInv
<1>4. PICK N : N = Top - 1
  OBVIOUS
<1>5. /\ scopes' \in Seq(ScopeRecords) /\ Top' = N /\ N \in Nat
      /\ N > 0 => OwnerIn(scopes', N) = OwnerIn(scopes, N) /\ ~ HasTransparentEntity(Top)'
      /\ EntitiesInv' /\ DeclsInv' /\ ChainsMirrorScopes'
  <2>1. closing' = FALSE
    BY <1>1, <1>2 DEF IInv, TypeOK
  <2> QED
    BY <1>1, <1>2, <1>3, <1>4, <2>1, LeaveStep
<1>6. N > 0 /\ curContext' = OwnerIn(scopes', N) /\ curContext' \in Contexts \ {<< >>}
  <2>1. N > 0 /\ Front(curContext) = OwnerIn(scopes, N)
        /\ OwnerIn(scopes, N) \in Contexts /\ OwnerIn(scopes, N) # << >>
    BY <1>2, <1>4, ContextOutside
  <2> QED
    BY <1>1, <1>5, <2>1
<1>7. ContextFollowsScopes'
  BY <1>1, <1>2, <1>5, <1>6 DEF ContextFollowsScopes, Owner, OwnerIn
<1>8. TypeOK'
  <2>1. Typed(scopes, slots, report)'
    BY <1>1, <1>5, NoReportIs, TypedIs DEF IInv, Typed
  <2>2. /\ spec' \in Contexts /\ todo' \in Seq([name : Idents, old : BOOLEAN])
        /\ bodyNext' \in BOOLEAN /\ closing' \in BOOLEAN /\ left' \in SUBSET Decls
    BY <1>1 DEF IInv, TypeOK
  <2> QED
    BY <1>6, <2>1, <2>2, TypedNext
<1>9. ClosingInv' /\ TodoInv'
  BY <1>1, <1>2 DEF ClosingInv, TodoInv
<1>10. RedefinitionIsLocal'
  BY <1>1, NoReportIs DEF RedefinitionIsLocal
<1> QED
  BY <1>5, <1>7, <1>8, <1>9, <1>10 DEF IInv

LEMMA PopScopeStep ==
  ASSUME IInv, PopScope
  PROVE  IInv'
<1>1. /\ closing /\ left = {} /\ scopes' = Front(scopes) /\ closing' = FALSE
      /\ UNCHANGED <<slots, curContext, spec, todo, bodyNext, left, report>>
  BY DEF PopScope
<1>2. Top > 0 /\ todo = << >> /\ report.what = "nothing" /\ Held(Top) = {}
  BY <1>1 DEF IInv, ClosingInv, Held
<1>3. PICK N : N = Top - 1
  OBVIOUS
<1>4. /\ scopes' \in Seq(ScopeRecords) /\ Top' = N /\ N \in Nat
      /\ N > 0 => OwnerIn(scopes', N) = OwnerIn(scopes, N) /\ ~ HasTransparentEntity(Top)'
      /\ EntitiesInv' /\ DeclsInv' /\ ChainsMirrorScopes'
  BY <1>1, <1>2, <1>3, LeaveStep
<1>5. ContextFollowsScopes'
  <2>1. curContext = IF N > 0 THEN OwnerIn(scopes, N) ELSE <<"TU">>
    BY <1>1, <1>3 DEF IInv, ContextFollowsScopes, Owner, OwnerIn
  <2>2. ContextFollowsScopes'
          <=> curContext' = IF N > 0 THEN OwnerIn(scopes', N) ELSE <<"TU">>
    BY <1>1, <1>4 DEF ContextFollowsScopes, Owner, OwnerIn
  <2> QED
    BY <1>1, <1>4, <2>1, <2>2
<1>6. TypeOK'
  <2>1. Typed(scopes, slots, report)'
    BY <1>1, <1>4, TypedIs DEF IInv, Typed
  <2>2. /\ curContext' \in Contexts \ {<< >>} /\ spec' \in Contexts
        /\ todo' \in Seq([name : Idents, old : BOOLEAN])
        /\ bodyNext' \in BOOLEAN /\ closing' \in BOOLEAN /\ left' \in SUBSET Decls
    BY <1>1 DEF IInv, TypeOK
  <2> QED
    BY <2>1, <2>2, TypedNext
<1>7. ClosingInv' /\ TodoInv' /\ RedefinitionIsLocal'
  BY <1>1, <1>2 DEF ClosingInv, TodoInv, RedefinitionIsLocal
<1> QED
  BY <1>4, <1>5, <1>6, <1>7 DEF IInv

LEMMA ExitScopeStep ==
  ASSUME IInv, ExitScope
  PROVE  IInv'
<1>1. /\ Idle /\ curContext' = LeaveContext /\ closing' = TRUE /\ left' = scopes[Top].decls
      /\ bodyNext' = FALSE /\ report' = NoReport /\ UNCHANGED <<scopes, slots, spec, todo>>
  BY DEF ExitScope
<1>2. /\ Top > 0 /\ Top \in Nat /\ todo = << >> /\ ~ closing /\ ~ HasTransparentEntity(Top)
      /\ curContext \in Contexts /\ curContext # << >>
  BY <1>1, IdleIs
<1>3. Top' = Top /\ \A s : (HasTransparentEntity(s)' <=> HasTransparentEntity(s))
  BY <1>1 DEF Top, HasTransparentEntity, isTransparentContext
<1>4. LeaveContext = IF Top > 1 THEN OwnerIn(scopes, Top - 1) ELSE <<"TU">>
  BY <1>2, ContextOutside DEF LeaveContext, Entity
<1>5. ContextFollowsScopes' /\ curContext' \in Contexts \ {<< >>}
  <2>1. ContextFollowsScopes'
          <=> curContext' = IF Top - 1 > 0 THEN OwnerIn(scopes, Top - 1) ELSE <<"TU">>
    BY <1>1, <1>3 DEF ContextFollowsScopes, Owner, OwnerIn
  <2>2. LeaveContext \in Contexts /\ LeaveContext # << >>
    <3>1. CASE Top > 1
      BY <1>2, <1>4, <3>1, ContextOutside
    <3>2. CASE ~ (Top > 1)
      BY <1>4, <3>2, TUContext
    <3> QED
      BY <3>1, <3>2
  <2> QED
    BY <1>1, <1>2, <1>4, <2>1, <2>2
<1>6. TypeOK'
  <2>1. Typed(scopes, slots, report)'
    BY <1>1, NoReportIs, TypedIs DEF IInv, Typed
  <2>2. left' \in SUBSET Decls
    BY <1>1, <1>2, ScopeTypes DEF IInv
  <2>3. /\ spec' \in Contexts /\ todo' \in Seq([name : Idents, old : BOOLEAN])
        /\ bodyNext' \in BOOLEAN /\ closing' \in BOOLEAN
    BY <1>1 DEF IInv, TypeOK
  <2> QED
    BY <1>5, <2>1, <2>2, <2>3, TypedNext
<1>7. EntitiesInv' /\ DeclsInv'
  BY <1>1, <1>3 DEF IInv, EntitiesInv, DeclsInv, Entity
<1>8. ChainsMirrorScopes'
  <2>1. \A s \in 1 .. Top : Held(s)' = Held(s)
    BY <1>1, <1>2, <1>3 DEF Held
  <2>2. Top' <= Top /\ Top' \in Nat /\ \A s \in 1 .. Top : ~ (s > Top')
    BY <1>2, <1>3
  <2> QED
    BY <1>1, <1>2, <1>3, <2>1, <2>2, ChainsSame DEF IInv
<1>9. ClosingInv' /\ TodoInv'
  <2>1. ~ HasTransparentEntity(Top)'
    BY <1>2, <1>3
  <2> QED
    BY <1>1, <1>2, <1>3, <2>1, NoReportIs DEF ClosingInv, TodoInv
<1>10. RedefinitionIsLocal'
  BY <1>1, NoReportIs DEF RedefinitionIsLocal
<1> QED
  BY <1>5, <1>6, <1>7, <1>8, <1>9, <1>10 DEF IInv

(* What is left of a sequence when one element goes.                       *)
LEMMA RemoveAtIs ==
  ASSUME NEW S, NEW t \in Seq(S), NEW i \in 1 .. Len(t)
  PROVE  /\ RemoveAt(t, i) \in Seq(S) /\ Len(t) \in Nat /\ Len(RemoveAt(t, i)) = Len(t) - 1
         /\ \A j \in 1 .. Len(t) - 1 :
              RemoveAt(t, i)[j] = t[IF j < i THEN j ELSE j + 1]
<1> DEFINE n == Len(t)
           u == SubSeq(t, 1, i - 1)
           v == SubSeq(t, i + 1, n)
<1>1. n \in Nat /\ i \in 1 .. n /\ \A j \in 1 .. n : t[j] \in S
  BY LenProperties, ElementOfSeq
<1> HIDE DEF n
<1>2. u \in Seq(S) /\ Len(u) = i - 1 /\ \A j \in 1 .. i - 1 : u[j] = t[j]
  <2> DEFINE m == i - 1
  <2>1. m \in Nat /\ \A j \in 1 .. m : t[j] \in S
    BY <1>1
  <2> HIDE DEF m
  <2>2. /\ SubSeq(t, 1, m) \in Seq(S)
        /\ Len(SubSeq(t, 1, m)) = IF 1 <= m THEN m - 1 + 1 ELSE 0
        /\ \A j \in 1 .. m - 1 + 1 : SubSeq(t, 1, m)[j] = t[1 + j - 1]
    BY <2>1, SubSeqProperties
  <2>3. Len(SubSeq(t, 1, m)) = m /\ \A j \in 1 .. m : SubSeq(t, 1, m)[j] = t[j]
    BY <2>1, <2>2
  <2> QED
    BY <2>2, <2>3 DEF m
<1>3. v \in Seq(S) /\ Len(v) = n - i /\ \A j \in 1 .. n - i : v[j] = t[i + j]
  <2> DEFINE m == i + 1
  <2>1. m \in 2 .. n + 1 /\ \A j \in m .. n : t[j] \in S
    BY <1>1
  <2>2. m = i + 1
    OBVIOUS
  <2> HIDE DEF m
  <2>3. /\ SubSeq(t, m, n) \in Seq(S)
        /\ Len(SubSeq(t, m, n)) = IF m <= n THEN n - m + 1 ELSE 0
        /\ \A j \in 1 .. n - m + 1 : SubSeq(t, m, n)[j] = t[m + j - 1]
    BY <1>1, <2>1, SubSeqProperties
  <2>4. Len(SubSeq(t, m, n)) = n - i
    BY <1>1, <2>1, <2>2, <2>3
  <2>5. ASSUME NEW j \in 1 .. n - i PROVE SubSeq(t, m, n)[j] = t[i + j]
    <3>1. j \in 1 .. n - m + 1 /\ m + j - 1 = i + j
      BY <1>1, <2>1, <2>2
    <3> QED
      BY <2>3, <3>1
  <2> QED
    BY <2>3, <2>4, <2>5 DEF m
<1> HIDE DEF u, v
<1>4. /\ u \o v \in Seq(S) /\ Len(u \o v) = Len(u) + Len(v)
      /\ \A j \in 1 .. Len(u) + Len(v) :
           (u \o v)[j] = IF j <= Len(u) THEN u[j] ELSE v[j - Len(u)]
  BY <1>2, <1>3, ConcatProperties
<1>5. Len(u) + Len(v) = n - 1
  BY <1>1, <1>2, <1>3
<1>6. ASSUME NEW j \in 1 .. n - 1 PROVE (u \o v)[j] = t[IF j < i THEN j ELSE j + 1]
  <2>1. CASE j < i
    <3>1. j \in 1 .. i - 1 /\ j <= Len(u)
      BY <1>1, <1>2, <2>1
    <3> QED
      BY <1>2, <1>4, <1>5, <2>1, <3>1
  <2>2. CASE ~(j < i)
    <3>1. ~(j <= Len(u)) /\ j - Len(u) = j - i + 1 /\ j - i + 1 \in 1 .. n - i
          /\ i + (j - i + 1) = j + 1
      BY <1>1, <1>2, <2>2
    <3>2. (u \o v)[j] = v[j - i + 1]
      BY <1>4, <1>5, <3>1
    <3>3. v[j - i + 1] = t[i + (j - i + 1)]
      BY <1>3, <3>1
    <3> QED
      BY <2>2, <3>1, <3>2, <3>3
  <2> QED
    BY <2>1, <2>2
<1>7. RemoveAt(t, i) = u \o v
  BY DEF RemoveAt, u, v, n
<1> QED
  BY <1>1, <1>4, <1>5, <1>6, <1>7 DEF n

LEMMA RemoveDeclIs ==
  ASSUME NEW slot \in Slots, SlotOK(slot), NEW d, Holds(slot, d)
  PROVE  /\ RemoveDecl(slot, d) \in Slots /\ SlotOK(RemoveDecl(slot, d))
         /\ \E i \in 1 .. Len(slot.decls) :
              /\ slot.decls[i] = d
              /\ Len(RemoveDecl(slot, d).decls) = Len(slot.decls) - 1
              /\ \A j \in 1 .. Len(slot.decls) - 1 :
                   RemoveDecl(slot, d).decls[j] = slot.decls[IF j < i THEN j ELSE j + 1]
<1> DEFINE c == slot.decls
           S == {i \in 1 .. Len(c) : c[i] = d}
<1>1. c \in Seq(Decls) /\ Len(c) \in Nat /\ slot.kind \in {"none", "decl", "list"}
  BY LenProperties DEF Slots
<1>2. PICK i0 \in 1 .. Len(c) : c[i0] = d
  BY DEF Holds
<1>3. slot.kind # "none"
  <2>1. Len(<< >>) = 0
    BY EmptySeq
  <2> QED
    BY <1>1, <1>2, <2>1 DEF SlotOK
<1>4. CASE slot.kind = "decl"
  <2>1. Len(c) = 1 /\ i0 = 1
    BY <1>1, <1>2, <1>4 DEF SlotOK
  <2>2. RemoveDecl(slot, d) = NoSlot
    BY <1>4 DEF RemoveDecl
  <2>3. NoSlot \in Slots /\ NoSlot.kind = "none" /\ NoSlot.decls = << >>
    BY DEF NoSlot, Slots
  <2>4. Len(<< >>) = 0
    BY EmptySeq
  <2>5. RemoveDecl(slot, d) \in Slots /\ SlotOK(RemoveDecl(slot, d))
    BY <2>2, <2>3 DEF SlotOK
  <2>6. Len(RemoveDecl(slot, d).decls) = 0
    BY <2>2, <2>3, <2>4
  <2> QED
    BY <1>2, <2>1, <2>5, <2>6
<1>5. CASE slot.kind = "list"
  <2> DEFINE m == Max(S)
             r == RemoveAt(c, m)
  <2>1. S \in SUBSET (1 .. Len(c)) /\ S # {}
    BY <1>2
  <2>2. m \in S
    <3> HIDE DEF S
    <3> QED
      BY <1>1, <2>1, MaxIsGreatest
  <2>3. m \in 1 .. Len(c) /\ c[m] = d
    BY <2>2
  <2>4. RemoveDecl(slot, d) = [slot EXCEPT !.decls = r]
    BY <1>5 DEF RemoveDecl
  <2> HIDE DEF m, c
  <2>5. /\ r \in Seq(Decls) /\ Len(r) = Len(c) - 1
        /\ \A j \in 1 .. Len(c) - 1 : r[j] = c[IF j < m THEN j ELSE j + 1]
    BY <1>1, <2>3, RemoveAtIs
  <2> HIDE DEF r
  <2>6. RemoveDecl(slot, d).decls = r /\ RemoveDecl(slot, d).kind = "list"
        /\ RemoveDecl(slot, d) \in Slots
    BY <1>5, <2>4, <2>5 DEF Slots
  <2>7. SlotOK(RemoveDecl(slot, d))
    BY <2>6 DEF SlotOK
  <2> QED
    BY <2>3, <2>5, <2>6, <2>7 DEF c
<1> QED
  BY <1>1, <1>3, <1>4, <1>5

(* The declaration is held by the scope being left and by no other.        *)
LEMMA ForgetHeld ==
  ASSUME IInv, NEW d \in left, Forget(d)
  PROVE  /\ Top' = Top /\ Top \in Nat /\ Top \in 1 .. Top /\ closing /\ closing' = closing
         /\ d \in scopes[Top].decls /\ d \in Decls /\ d \in Held(Top)
         /\ ~ HasTransparentEntity(Top)
         /\ \A s : HasTransparentEntity(s)' <=> HasTransparentEntity(s)
         /\ \A s \in 1 .. Top : \A e : e \in Held(s)' <=> e \in Held(s) /\ e # d
<1>1. closing /\ left' = left \ {d} /\ UNCHANGED <<scopes, closing>>
  BY DEF Forget
<1>2. /\ Top \in Nat /\ Top \in 1 .. Top /\ left \subseteq scopes[Top].decls
      /\ ~ HasTransparentEntity(Top)
  BY <1>1, ScopeTypes DEF IInv, ClosingInv
<1>3. d \in Decls /\ d \in scopes[Top].decls /\ d \in Held(Top)
  BY <1>1, <1>2, ScopeTypes DEF IInv, Held
<1>4. Top' = Top /\ \A s : (HasTransparentEntity(s)' <=> HasTransparentEntity(s))
  BY <1>1 DEF Top, HasTransparentEntity, isTransparentContext
<1>5. ASSUME NEW s \in 1 .. Top, NEW e PROVE e \in Held(s)' <=> e \in Held(s) /\ e # d
  <2>1. CASE s = Top
    <3>1. Held(s)' = left' /\ Held(s) = left
      BY <1>1, <1>4, <2>1 DEF Held
    <3> QED
      BY <1>1, <3>1
  <2>2. CASE s # Top
    <3>1. Held(s)' = scopes[s].decls /\ Held(s) = scopes[s].decls
      BY <1>1, <1>4, <2>2 DEF Held
    <3>2. d \notin scopes[s].decls
      BY <1>2, <1>3, <2>2 DEF IInv, DeclsInv
    <3> QED
      BY <3>1, <3>2
  <2> QED
    BY <2>1, <2>2
<1> QED
  BY <1>1, <1>2, <1>3, <1>4, <1>5

LEMMA ForgetStep ==
  ASSUME IInv, NEW d \in left, Forget(d)
  PROVE  IInv'
<1> DEFINE m == d.name
           c(n) == slots[n].decls
           cp(n) == slots'[n].decls
<1>1. /\ closing /\ Holds(slots[m], d)
      /\ slots' = [slots EXCEPT ![m] = RemoveDecl(@, d)] /\ left' = left \ {d}
      /\ UNCHANGED <<scopes, curContext, spec, todo, bodyNext, closing, report>>
  BY DEF Forget
<1>2. /\ Top \in Nat /\ Top \in 1 .. Top /\ d \in Decls /\ m \in Idents /\ d \in Held(Top)
  BY ForgetHeld DEF Decls
<1>3. Top' = Top /\ \A s : (HasTransparentEntity(s)' <=> HasTransparentEntity(s))
  BY ForgetHeld
<1>4. \A n \in Idents : slots[n] \in Slots /\ SlotOK(slots[n])
  BY DEF IInv, TypeOK, SlotOK
<1>5. /\ RemoveDecl(slots[m], d) \in Slots /\ SlotOK(RemoveDecl(slots[m], d))
      /\ \E i \in 1 .. Len(c(m)) :
           /\ c(m)[i] = d
           /\ Len(RemoveDecl(slots[m], d).decls) = Len(c(m)) - 1
           /\ \A j \in 1 .. Len(c(m)) - 1 :
                RemoveDecl(slots[m], d).decls[j] = c(m)[IF j < i THEN j ELSE j + 1]
  <2>1. PICK sl \in Slots : sl = slots[m] /\ SlotOK(sl) /\ Holds(sl, d)
    BY <1>1, <1>2, <1>4
  <2>2. RemoveDecl(sl, d) \in Slots /\ SlotOK(RemoveDecl(sl, d))
    BY <2>1, RemoveDeclIs
  <2>3. \E i \in 1 .. Len(sl.decls) :
           /\ sl.decls[i] = d
           /\ Len(RemoveDecl(sl, d).decls) = Len(sl.decls) - 1
           /\ \A j \in 1 .. Len(sl.decls) - 1 :
                RemoveDecl(sl, d).decls[j] = sl.decls[IF j < i THEN j ELSE j + 1]
    BY <2>1, RemoveDeclIs
  <2> QED
    BY <2>1, <2>2, <2>3
<1>6. /\ slots' \in [Idents -> Slots] /\ \A n \in Idents : SlotOK(slots'[n])
      /\ slots'[m] = RemoveDecl(slots[m], d)
      /\ \A n \in Idents : n # m => cp(n) = c(n)
  <2>1. slots \in [Idents -> Slots]
    BY DEF IInv, TypeOK
  <2> QED
    BY <1>1, <1>2, <1>4, <1>5, <2>1
<1>7. PICK i \in 1 .. Len(c(m)) :
        /\ c(m)[i] = d /\ Len(cp(m)) = Len(c(m)) - 1
        /\ \A j \in 1 .. Len(c(m)) - 1 : cp(m)[j] = c(m)[IF j < i THEN j ELSE j + 1]
  BY <1>5, <1>6
<1>8. \A n \in Idents : Len(c(n)) \in Nat
  BY <1>4, LenProperties DEF Slots
<1>9. ASSUME NEW s \in 1 .. Top, NEW e PROVE e \in Held(s)' <=> e \in Held(s) /\ e # d
  BY ForgetHeld
<1>10. \A j \in 1 .. Len(c(m)) : c(m)[j] = d => j = i
  <2> SUFFICES ASSUME NEW j \in 1 .. Len(c(m)), c(m)[j] = d, j # i PROVE FALSE
    OBVIOUS
  <2>1. ChainsOrdered /\ c(m)[i] \in Held(Top) /\ c(m)[j] \in Held(Top) /\ ~(Top < Top)
    BY <1>2, <1>7, ChainsParts DEF IInv
  <2>2. i < j \/ j < i
    BY <1>2, <1>8
  <2>3. CASE i < j
    BY <1>2, <2>1, <2>3 DEF ChainsOrdered
  <2>4. CASE j < i
    BY <1>2, <2>1, <2>4 DEF ChainsOrdered
  <2> QED
    BY <2>2, <2>3, <2>4
<1> HIDE DEF cp
(* Where an element of the new chain comes from, and where one of the old  *)
(* chain goes.                                                             *)
<1> DEFINE From(n, j) == IF n = m /\ ~(j < i) THEN j + 1 ELSE j
<1>11. ASSUME NEW n \in Idents, NEW j \in 1 .. Len(cp(n))
       PROVE  /\ From(n, j) \in 1 .. Len(c(n)) /\ cp(n)[j] = c(n)[From(n, j)]
              /\ cp(n)[j] # d
  <2>1. CASE n = m
    <3>1. j \in 1 .. Len(c(m)) - 1
      BY <1>7, <2>1
    <3>2. From(n, j) = IF j < i THEN j ELSE j + 1
      BY <2>1
    <3>3. From(n, j) \in 1 .. Len(c(m)) /\ From(n, j) # i
      BY <1>2, <1>8, <3>1, <3>2
    <3>4. cp(m)[j] = c(m)[From(n, j)]
      BY <1>7, <3>1, <3>2
    <3> QED
      BY <1>10, <2>1, <3>3, <3>4
  <2>2. CASE n # m
    <3>1. From(n, j) = j /\ cp(n) = c(n)
      BY <1>6, <2>2
    <3>2. c(n)[j].name = n
      BY <3>1, ChainsParts DEF IInv, ChainsHeld
    <3> QED
      BY <2>2, <3>1, <3>2
  <2> QED
    BY <2>1, <2>2
<1>12. ASSUME NEW n \in Idents, NEW j \in 1 .. Len(cp(n)), NEW k \in 1 .. Len(cp(n)), j < k
       PROVE  From(n, j) < From(n, k)
  <2>1. Len(cp(n)) \in Nat
    BY <1>6, LenProperties DEF Slots, cp
  <2>2. j \in Nat /\ k \in Nat /\ i \in Nat
    BY <1>2, <1>8, <2>1
  <2> QED
    BY <1>12, <2>2
<1>13. ASSUME NEW n \in Idents, NEW j \in 1 .. Len(c(n)), c(n)[j] # d
       PROVE  \E k \in 1 .. Len(cp(n)) : cp(n)[k] = c(n)[j]
  <2>1. CASE n # m
    BY <1>6, <2>1 DEF cp
  <2>2. CASE n = m
    <3>1. j # i /\ j \in Nat /\ i \in Nat /\ Len(c(m)) \in Nat
      BY <1>2, <1>7, <1>8, <1>13, <2>2
    <3>2. CASE j < i
      <4>1. j \in 1 .. Len(c(m)) - 1
        BY <2>2, <3>1, <3>2
      <4> QED
        BY <1>7, <2>2, <3>2, <4>1
    <3>3. CASE i < j
      <4>1. j - 1 \in 1 .. Len(c(m)) - 1 /\ ~(j - 1 < i) /\ j - 1 + 1 = j
        BY <2>2, <3>1, <3>3
      <4>2. cp(m)[j - 1] = c(m)[j]
        BY <1>7, <4>1
      <4> QED
        BY <1>7, <2>2, <4>1, <4>2
    <3> QED
      BY <3>1, <3>2, <3>3
  <2> QED
    BY <2>1, <2>2
<1> HIDE DEF From
<1>14. ChainsHeld'
  <2>1. ASSUME NEW n \in Idents, NEW j \in 1 .. Len(cp(n))
        PROVE  cp(n)[j].name = n /\ \E s \in 1 .. Top : cp(n)[j] \in Held(s)'
    <3>1. c(n)[From(n, j)].name = n /\ \E s \in 1 .. Top : c(n)[From(n, j)] \in Held(s)
      BY <1>11, ChainsParts DEF IInv, ChainsHeld
    <3> QED
      BY <1>9, <1>11, <3>1
  <2> QED
    BY <1>3, <2>1 DEF ChainsHeld, cp
<1>15. HeldChained'
  <2>1. ASSUME NEW s \in 1 .. Top, NEW e \in Held(s)'
        PROVE  \E j \in 1 .. Len(cp(e.name)) : cp(e.name)[j] = e
    <3>1. e \in Held(s) /\ e # d
      BY <1>9
    <3>2. e.name \in Idents
      BY <3>1, HeldDecls DEF IInv, Decls
    <3>3. PICK j \in 1 .. Len(c(e.name)) : c(e.name)[j] = e
      BY <3>1, ChainsParts DEF IInv, HeldChained
    <3> QED
      BY <1>13, <3>1, <3>2, <3>3
  <2> QED
    BY <1>3, <2>1 DEF HeldChained, cp
<1>16. ChainsOrdered'
  <2>1. ASSUME NEW n \in Idents, NEW j \in 1 .. Len(cp(n)), NEW k \in 1 .. Len(cp(n)),
               NEW s \in 1 .. Top, NEW t \in 1 .. Top,
               j < k, cp(n)[j] \in Held(s)', cp(n)[k] \in Held(t)'
        PROVE  s < t
    <3>1. From(n, j) < From(n, k)
      BY <1>12, <2>1
    <3>2. c(n)[From(n, j)] \in Held(s) /\ c(n)[From(n, k)] \in Held(t)
      BY <1>9, <1>11, <2>1
    <3>3. From(n, j) \in 1 .. Len(c(n)) /\ From(n, k) \in 1 .. Len(c(n))
      BY <1>11
    <3> QED
      BY <3>1, <3>2, <3>3, ChainsParts DEF IInv, ChainsOrdered
  <2> QED
    BY <1>3, <2>1 DEF ChainsOrdered, cp
<1>17. ChainsMirrorScopes'
  <2>1. ChainsMirrorScopes' <=> (ChainsHeld /\ HeldChained /\ ChainsOrdered)'
    BY DEF ChainsMirrorScopes, ChainsHeld, HeldChained, ChainsOrdered
  <2> QED
    BY <1>14, <1>15, <1>16, <2>1
<1>18. TypeOK'
  <2>1. Typed(scopes, slots, report)'
    BY <1>1, <1>6, TypedIs DEF IInv, Typed
  <2>2. /\ curContext' \in Contexts \ {<< >>} /\ spec' \in Contexts
        /\ todo' \in Seq([name : Idents, old : BOOLEAN])
        /\ bodyNext' \in BOOLEAN /\ closing' \in BOOLEAN /\ left' \in SUBSET Decls
    BY <1>1 DEF IInv, TypeOK
  <2> QED
    BY <2>1, <2>2, TypedNext
<1>19. EntitiesInv' /\ DeclsInv'
  BY <1>1, <1>3 DEF IInv, EntitiesInv, DeclsInv, Entity
<1>20. ContextFollowsScopes'
  BY <1>1, <1>3 DEF IInv, ContextFollowsScopes, Owner
<1>21. ClosingInv' /\ TodoInv' /\ RedefinitionIsLocal'
  BY <1>1, <1>3 DEF IInv, ClosingInv, TodoInv, RedefinitionIsLocal
<1> QED
  BY <1>17, <1>18, <1>19, <1>20, <1>21 DEF IInv

-----------------------------------------------------------------------------
LEMMA InitInv == Init => IInv
<1> SUFFICES ASSUME Init PROVE IInv
  OBVIOUS
<1>1. PICK b \in [Builtins -> Ids] :
        /\ \A x, y \in Builtins : b[x] = b[y] => x = y
        /\ scopes = << [entity |-> <<"TU">>,
                        decls  |-> {[id |-> b[n], name |-> n, kind |-> "Type",
                                     dc |-> <<"TU">>] : n \in Builtins}] >>
        /\ slots = [n \in Idents |->
                      IF n \in Builtins
                        THEN AddDecl(NoSlot, [id |-> b[n], name |-> n, kind |-> "Type",
                                              dc |-> <<"TU">>])
                        ELSE NoSlot]
        /\ curContext = <<"TU">> /\ spec = << >> /\ todo = << >>
        /\ bodyNext = FALSE /\ closing = FALSE /\ left = {} /\ report = NoReport
  BY DEF Init
<1> DEFINE Builtin(n) == [id |-> b[n], name |-> n, kind |-> "Type", dc |-> <<"TU">>]
           D == {Builtin(n) : n \in Builtins}
           r == [entity |-> <<"TU">>, decls |-> D]
<1>2. \A n \in Builtins : /\ Builtin(n) \in Decls /\ Builtin(n).name = n
                          /\ Builtin(n).id = b[n] /\ Builtin(n).dc = <<"TU">>
  BY ConstantsAssumption DEF Decls, DeclKinds, ContextKinds
<1>3. scopes = <<r>> /\ \A n \in Idents : slots[n] = IF n \in Builtins
                                                       THEN AddDecl(NoSlot, Builtin(n)) ELSE NoSlot
  BY <1>1
<1>4. DOMAIN slots = Idents /\ slots = [n \in Idents |-> slots[n]]
  BY <1>1
<1>5. \A x, y \in Builtins : Builtin(x).id = Builtin(y).id => x = y
  BY <1>1, <1>2
<1> HIDE DEF Builtin
<1>6. D \in SUBSET Decls /\ \A d \in D : d.dc = <<"TU">> /\ d.name \in Builtins
                                         /\ d = Builtin(d.name)
  BY <1>2
<1>7. r \in ScopeRecords /\ r.entity = <<"TU">> /\ r.decls = D
  BY <1>6, TUContext DEF ScopeRecords
<1>8. \A d, e \in D : d.id = e.id => d = e
  BY <1>5, <1>6
<1>9. \A n \in Builtins : n \in Idents /\ Builtin(n) \in D
  BY ConstantsAssumption
<1> HIDE DEF D, r
<1>10. /\ scopes \in Seq(ScopeRecords) /\ Top = 1 /\ Entity(1) = <<"TU">>
       /\ scopes[1].entity = <<"TU">> /\ scopes[1].decls = D
  BY <1>3, <1>7 DEF Top, Entity
<1>11. NoSlot \in Slots /\ SlotOK(NoSlot) /\ NoSlot.decls = << >> /\ Len(NoSlot.decls) = 0
  <2>1. << >> \in Seq(Decls) /\ Len(<< >>) = 0
    BY EmptySeq
  <2> QED
    BY <2>1 DEF NoSlot, Slots, SlotOK
<1>12. ASSUME NEW n \in Idents
       PROVE  /\ slots[n] \in Slots /\ SlotOK(slots[n])
              /\ n \in Builtins => Len(slots[n].decls) = 1 /\ slots[n].decls[1] = Builtin(n)
              /\ n \notin Builtins => Len(slots[n].decls) = 0
  <2>1. CASE n \in Builtins
    <3>1. PICK sl \in Slots : sl = NoSlot /\ SlotOK(sl) /\ Len(sl.decls) = 0
      BY <1>11
    <3>2. Builtin(n) \in Decls
      BY <1>2, <2>1
    <3>3. AddDecl(sl, Builtin(n)) \in Slots /\ SlotOK(AddDecl(sl, Builtin(n)))
      BY <3>1, <3>2, AddDeclIs
    <3>4. /\ Len(AddDecl(sl, Builtin(n)).decls) = Len(sl.decls) + 1
          /\ AddDecl(sl, Builtin(n)).decls[Len(sl.decls) + 1] = Builtin(n)
      BY <3>1, <3>2, AddDeclIs
    <3> QED
      BY <1>3, <2>1, <3>1, <3>3, <3>4
  <2>2. CASE n \notin Builtins
    BY <1>3, <1>11, <2>2
  <2> QED
    BY <2>1, <2>2
<1>13. TypeOK
  <2>1. slots \in [Idents -> Slots]
    BY <1>4, <1>12
  <2>2. Typed(scopes, slots, report)
    BY <1>1, <1>10, <1>12, <2>1, NoReportIs DEF Typed
  <2>3. /\ curContext \in Contexts \ {<< >>} /\ spec \in Contexts
        /\ todo \in Seq([name : Idents, old : BOOLEAN])
        /\ bodyNext \in BOOLEAN /\ closing \in BOOLEAN /\ left \in SUBSET Decls
    <3>1. << >> \in Contexts /\ << >> \in Seq([name : Idents, old : BOOLEAN])
      BY EmptySeq DEF Contexts
    <3>2. {} \in SUBSET Decls
      OBVIOUS
    <3> QED
      BY <1>1, <3>1, <3>2, TUContext, Zenon
  <2> QED
    BY <2>2, <2>3, TypedIs
<1>14. OwnerIn(scopes, 1) = <<"TU">>
  <2>1. IsOwner(scopes, 1, 1)
    BY <1>10, TUContext DEF IsOwner
  <2>2. 1 \in 1 .. Len(scopes)
    BY <1>10 DEF Top
  <2> QED
    BY <1>10, <2>1, <2>2, OwnerIs
<1>15. EntitiesInv
  <2>1. \A i, j \in 1 .. Top : ~(i < j)
    BY <1>10
  <2> QED
    BY <1>10, <2>1 DEF EntitiesInv
<1>16. ContextFollowsScopes
  BY <1>1, <1>10, <1>14 DEF ContextFollowsScopes, Owner, OwnerIn
<1>17. DeclsInv
  <2>1. getRedeclContext(<<"TU">>) = <<"TU">>
    <3>1. << >> \in Seq(Transparent) /\ <<"TU">> \o << >> = <<"TU">>
      BY EmptySeq
    <3>2. <<"TU">>[Len(<<"TU">>)] \notin Transparent
      BY TUContext DEF Last
    <3>3. getRedeclContext(<<"TU">> \o << >>) = <<"TU">>
      BY <3>1, <3>2, TUContext, RedeclContext
    <3> QED
      BY <3>1, <3>3
  <2>2. ~ HasTransparentEntity(1)
    BY <1>10, TUContext DEF HasTransparentEntity, isTransparentContext
  <2> QED
    BY <1>6, <1>8, <1>10, <1>14, <2>1, <2>2 DEF DeclsInv
<1>18. \A i \in 1 .. Top : i = 1 /\ Held(i) = D
  BY <1>1, <1>10 DEF Held
<1>19. ASSUME NEW n \in Idents, NEW i \in 1 .. Len(slots[n].decls)
       PROVE  n \in Builtins /\ i = 1 /\ slots[n].decls[i] = Builtin(n)
  <2>1. CASE n \in Builtins
    <3>1. Len(slots[n].decls) = 1 /\ slots[n].decls[1] = Builtin(n)
      BY <1>12, <2>1
    <3>2. i = 1
      BY <3>1
    <3> QED
      BY <2>1, <3>1, <3>2
  <2>2. CASE n \notin Builtins
    <3>1. Len(slots[n].decls) = 0
      BY <1>12, <2>2
    <3>2. i \in 1 .. 0
      BY <3>1
    <3> QED
      BY <3>2
  <2> QED
    BY <2>1, <2>2
<1>20. ChainsMirrorScopes
  <2>1. 1 \in 1 .. Top
    BY <1>10
  <2>2. ChainsHeld
    BY <1>2, <1>9, <1>18, <1>19, <2>1 DEF ChainsHeld
  <2>3. HeldChained
    <3> SUFFICES ASSUME NEW s \in 1 .. Top, NEW d \in Held(s)
                 PROVE  \E i \in 1 .. Len(slots[d.name].decls) : slots[d.name].decls[i] = d
      BY DEF HeldChained
    <3>1. d \in D /\ d.name \in Builtins /\ d = Builtin(d.name) /\ d.name \in Idents
      BY <1>6, <1>9, <1>18
    <3>2. Len(slots[d.name].decls) = 1 /\ slots[d.name].decls[1] = Builtin(d.name)
      BY <1>12, <3>1
    <3>3. 1 \in 1 .. Len(slots[d.name].decls)
      BY <3>2
    <3> QED
      BY <3>1, <3>2, <3>3
  <2>4. ChainsOrdered
    BY <1>19 DEF ChainsOrdered
  <2> QED
    BY <2>2, <2>3, <2>4, ChainsParts
<1>21. ClosingInv /\ TodoInv /\ RedefinitionIsLocal
  BY <1>1, NoReportIs DEF ClosingInv, TodoInv, RedefinitionIsLocal
<1> QED
  BY <1>13, <1>15, <1>16, <1>17, <1>20, <1>21 DEF IInv

LEMMA StutterStep ==
  ASSUME IInv, UNCHANGED vars
  PROVE  IInv'
<1>1. /\ UNCHANGED <<scopes, slots, curContext, spec, todo, bodyNext, closing, left, report>>
      /\ report \in ReportTypes
  BY TypedIs DEF vars, IInv, Typed
<1>2. /\ Typed(scopes, slots, report)' /\ Top' = Top
      /\ HasTransparentEntity(Top)' <=> HasTransparentEntity(Top)
      /\ EntitiesInv' /\ ContextFollowsScopes' /\ DeclsInv' /\ ChainsMirrorScopes'
  BY <1>1, SameScopes
<1>3. TypeOK'
  <2>1. /\ curContext' \in Contexts \ {<< >>} /\ spec' \in Contexts
        /\ todo' \in Seq([name : Idents, old : BOOLEAN])
        /\ bodyNext' \in BOOLEAN /\ closing' \in BOOLEAN /\ left' \in SUBSET Decls
    BY <1>1 DEF IInv, TypeOK
  <2> QED
    BY <1>2, <2>1, TypedNext
<1>4. ClosingInv' /\ TodoInv' /\ RedefinitionIsLocal'
  BY <1>1, <1>2 DEF IInv, ClosingInv, TodoInv, RedefinitionIsLocal, ScopedContext
<1> QED
  BY <1>2, <1>3, <1>4 DEF IInv

LEMMA NextInv == IInv /\ [Next]_vars => IInv'
<1> SUFFICES ASSUME IInv, [Next]_vars PROVE IInv'
  OBVIOUS
<1>1. CASE \E n \in Idents : ActOnFunctionDecl(n) \/ ActOnTypeSpec(n) \/ ActOnAnonymousField(n)
  BY <1>1, FunctionDeclStep, TypeSpecStep, AnonymousFieldStep
<1>2. CASE \E idents \in IdentLists :
             \/ ActOnConstSpec(idents) \/ ActOnVarSpec(idents)
             \/ ActOnShortVarDeclStmt(idents) \/ ActOnFieldDecl(idents)
  <2>1. PICK idents \in Seq(Idents) :
             \/ ActOnConstSpec(idents) \/ ActOnVarSpec(idents)
             \/ ActOnShortVarDeclStmt(idents) \/ ActOnFieldDecl(idents)
    BY <1>2, IdentListsAreSeqs
  <2> QED
    BY <2>1, ConstSpecStep, VarSpecStep, ShortVarDeclStep, FieldDeclStep
<1>3. CASE ActOnStartOfFunctionDef \/ ParseBlock \/ ActOnStartOfStructType
  BY <1>3, FunctionDefStep, BlockStep, StructTypeStep
<1>4. CASE DeclareIdent \/ FinishFieldDecl
  BY <1>4, DeclareIdentStep, FinishFieldStep
<1>5. CASE ExitScope \/ PopScope
  BY <1>5, ExitScopeStep, PopScopeStep
<1>6. CASE \E d \in left : Forget(d)
  BY <1>6, ForgetStep
<1>7. CASE UNCHANGED vars
  BY <1>7, StutterStep
<1> QED
  BY <1>1, <1>2, <1>3, <1>4, <1>5, <1>6, <1>7 DEF Next

LEMMA Invariant == Spec => []IInv
BY InitInv, NextInv, PTL DEF Spec

(* The state keeps its types, in particular the three encodings of a slot. *)
THEOREM TypeCorrect == Spec => []TypeOK
<1>1. IInv => TypeOK
  BY DEF IInv
<1> QED
  BY <1>1, Invariant, PTL

(* PushDeclContext and PopDeclContext stay paired with the scopes: Sema's  *)
(* current context is always that of the innermost scope that has one.     *)
THEOREM ContextsCorrect == Spec => []ContextFollowsScopes
<1>1. IInv => ContextFollowsScopes
  BY DEF IInv
<1> QED
  BY <1>1, Invariant, PTL

(* What IdResolver holds of an identifier is what the open scopes declare, *)
(* at most one declaration of each, inner after outer: the assertion of    *)
(* RemoveDecl and what every lookup relies on.                             *)
THEOREM ChainsCorrect == Spec => []ChainsMirrorScopes
<1>1. IInv => ChainsMirrorScopes
  BY DEF IInv
<1> QED
  BY <1>1, Invariant, PTL

(* In a function, and in any scope with a context of its own, only what    *)
(* the very scope already declares is reported as redefined.               *)
THEOREM RedefinitionCorrect == Spec => []RedefinitionIsLocal
<1>1. IInv => RedefinitionIsLocal
  BY DEF IInv
<1> QED
  BY <1>1, Invariant, PTL


-----------------------------------------------------------------------------
(* What a name means in a stack of blocks, as a relation.                  *)

Unnamed(n, block) == \A e \in block : e.name # n

Means(n, bs, x) ==
  \/ x = NoDecl /\ \A i \in 1 .. Len(bs) : Unnamed(n, bs[i])
  \/ \E i \in 1 .. Len(bs) : /\ x \in bs[i] /\ x.name = n
                             /\ \A e \in bs[i] : e.name = n => e = x
                             /\ \A j \in i + 1 .. Len(bs) : Unnamed(n, bs[j])

LEMMA MeansInnermost ==
  ASSUME NEW n, NEW bs, Len(bs) \in Nat, NEW x, Means(n, bs, x)
  PROVE  Map!Innermost(n, bs) = x
<1>1. CASE x = NoDecl /\ \A i \in 1 .. Len(bs) : Unnamed(n, bs[i])
  <2>1. ~(\E i \in 1 .. Len(bs) : Map!DeclaredIn(n, bs[i]))
    BY <1>1 DEF Map!DeclaredIn, Unnamed
  <2> QED
    BY <1>1, <2>1 DEF Map!Innermost
<1>2. ASSUME NEW i \in 1 .. Len(bs), x \in bs[i], x.name = n,
             \A e \in bs[i] : e.name = n => e = x,
             \A j \in i + 1 .. Len(bs) : Unnamed(n, bs[j])
      PROVE  Map!Innermost(n, bs) = x
  <2> DEFINE P(k) == /\ Map!DeclaredIn(n, bs[k])
                     /\ \A j \in k + 1 .. Len(bs) : ~ Map!DeclaredIn(n, bs[j])
             m == CHOOSE k \in 1 .. Len(bs) : P(k)
  <2>1. P(i)
    BY <1>2 DEF Map!DeclaredIn, Unnamed
  <2>2. m \in 1 .. Len(bs) /\ P(m)
    <3> HIDE DEF P
    <3> QED
      BY <2>1
  <2>3. m = i
    <3> HIDE DEF m
    <3>1. ~(m < i)
      BY <2>1, <2>2
    <3>2. ~(i < m)
      BY <2>1, <2>2
    <3> QED
      BY <2>2, <3>1, <3>2
  <2>4. Map!Innermost(n, bs) = CHOOSE d \in bs[m] : d.name = n
    BY <2>1 DEF Map!Innermost
  <2> HIDE DEF m
  <2>5. (CHOOSE d \in bs[i] : d.name = n) \in bs[i]
        /\ (CHOOSE d \in bs[i] : d.name = n).name = n
    BY <1>2
  <2> QED
    BY <1>2, <2>3, <2>4, <2>5
<1> QED
  BY <1>1, <1>2 DEF Means

LEMMA MeansUnique ==
  ASSUME NEW n, NEW bs, Len(bs) \in Nat, NEW x, NEW y, Means(n, bs, x), Means(n, bs, y)
  PROVE  x = y
BY MeansInnermost

(* It depends on nothing but the declarations of the name.                 *)
SameNamed(n, bs, cs) ==
  \A i \in Nat : \A e : e.name = n =>
    (i \in 1 .. Len(cs) /\ e \in cs[i] <=> i \in 1 .. Len(bs) /\ e \in bs[i])

LEMMA MeansSame ==
  ASSUME NEW n, NEW bs, NEW cs, Len(bs) \in Nat, Len(cs) \in Nat, SameNamed(n, bs, cs),
         NEW x, Means(n, bs, x)
  PROVE  Means(n, cs, x)
<1>1. CASE x = NoDecl /\ \A i \in 1 .. Len(bs) : Unnamed(n, bs[i])
  <2>1. ASSUME NEW i \in 1 .. Len(cs), NEW e \in cs[i], e.name = n PROVE FALSE
    <3>1. i \in Nat
      OBVIOUS
    <3>2. i \in 1 .. Len(bs) /\ e \in bs[i]
      BY <2>1, <3>1 DEF SameNamed
    <3> QED
      BY <1>1, <2>1, <3>2 DEF Unnamed
  <2> QED
    BY <1>1, <2>1 DEF Means, Unnamed
<1>2. ASSUME NEW i \in 1 .. Len(bs), x \in bs[i], x.name = n,
             \A e \in bs[i] : e.name = n => e = x,
             \A j \in i + 1 .. Len(bs) : Unnamed(n, bs[j])
      PROVE  Means(n, cs, x)
  <2>1. i \in Nat
    OBVIOUS
  <2>2. i \in 1 .. Len(cs) /\ x \in cs[i]
    BY <1>2, <2>1 DEF SameNamed
  <2>3. \A e \in cs[i] : e.name = n => e = x
    BY <1>2, <2>1, <2>2 DEF SameNamed
  <2>4. ASSUME NEW j \in i + 1 .. Len(cs), NEW e \in cs[j], e.name = n PROVE FALSE
    <3>1. j \in Nat /\ j \in 1 .. Len(cs)
      BY <2>1
    <3>2. j \in 1 .. Len(bs) /\ e \in bs[j]
      BY <2>4, <3>1 DEF SameNamed
    <3>3. j \in i + 1 .. Len(bs)
      BY <2>1, <3>2
    <3> QED
      BY <1>2, <2>4, <3>2, <3>3 DEF Unnamed
  <2> QED
    BY <1>2, <2>2, <2>3, <2>4 DEF Means, Unnamed
<1> QED
  BY <1>1, <1>2 DEF Means

-----------------------------------------------------------------------------
(* The blocks and the view of a state.                                     *)

BlockCount == IF Top > 0 /\ HasTransparentEntity(Top) THEN Top - 1 ELSE Top
BlockOf(s) == {Abs(d) : d \in Held(s)}

BlocksInv ==
  /\ BlockCount \in Nat /\ Blocks = [s \in 1 .. BlockCount |-> BlockOf(s)]
  /\ Blocks \in Seq(SUBSET Map!Decls) /\ Len(Blocks) = BlockCount

ViewInv ==
  /\ View = [n \in Idents |-> View[n]]
  /\ \A n \in Idents : Means(n, Blocks, View[n])

LEMMA BlocksOK == IInv => BlocksInv
<1> SUFFICES ASSUME IInv PROVE BlocksInv
  OBVIOUS
<1>1. Top \in Nat /\ BlockCount \in Nat /\ 1 .. BlockCount \subseteq 1 .. Top
  BY ScopeTypes DEF IInv, BlockCount
<1>2. Blocks = [s \in 1 .. BlockCount |-> BlockOf(s)]
  BY DEF Blocks, BlockCount, BlockOf
<1>3. \A s \in 1 .. BlockCount : BlockOf(s) \in SUBSET Map!Decls
  <2> SUFFICES ASSUME NEW s \in 1 .. BlockCount, NEW d \in Held(s) PROVE Abs(d) \in Map!Decls
    BY DEF BlockOf
  <2>1. d \in Decls
    BY <1>1, HeldDecls DEF IInv
  <2> QED
    BY <2>1 DEF Decls, Abs, Map!Decls
<1>4. Blocks \in [1 .. BlockCount -> SUBSET Map!Decls]
  BY <1>2, <1>3
<1>5. Blocks \in Seq(SUBSET Map!Decls) /\ Len(Blocks) = BlockCount
  <2>1. Blocks \in Seq(SUBSET Map!Decls)
    BY <1>1, <1>4, FunctionIsSeq
  <2>2. DOMAIN Blocks = 1 .. BlockCount
    BY <1>4
  <2> QED
    BY <1>1, <2>1, <2>2, LenProperties
<1> QED
  BY <1>1, <1>2, <1>5 DEF BlocksInv

(* A scope holds one declaration of a name at most.                        *)
LEMMA HeldDistinct ==
  ASSUME IInv, NEW s \in 1 .. Top, NEW d \in Held(s), NEW e \in Held(s), d.name = e.name
  PROVE  d = e
<1> DEFINE c == slots[d.name].decls
<1>1. d.name \in Idents /\ Top \in Nat
  BY HeldDecls, ScopeTypes DEF IInv, Decls
<1>2. ChainsOrdered /\ HeldChained
  BY ChainsParts DEF IInv
<1>3. PICK i \in 1 .. Len(c) : c[i] = d
  BY <1>2 DEF HeldChained
<1>4. PICK j \in 1 .. Len(c) : c[j] = e
  BY <1>2 DEF HeldChained
<1>5. Len(c) \in Nat
  BY <1>1, LenProperties DEF IInv, TypeOK, Slots
<1>6. ~(i < j)
  BY <1>1, <1>2, <1>3, <1>4 DEF ChainsOrdered
<1>7. ~(j < i)
  BY <1>1, <1>2, <1>3, <1>4 DEF ChainsOrdered
<1>8. i = j
  BY <1>5, <1>6, <1>7
<1> QED
  BY <1>3, <1>4, <1>8

(* Only scopes that count as blocks hold anything.                         *)
LEMMA HeldByBlocks ==
  ASSUME IInv, NEW s \in 1 .. Top, NEW d \in Held(s)
  PROVE  s \in 1 .. BlockCount
<1>1. Top \in Nat /\ d \in scopes[s].decls
  BY HeldDecls, ScopeTypes DEF IInv
<1> QED
  BY <1>1 DEF IInv, DeclsInv, BlockCount

(* What a lookup from the innermost scope finds is what the name means.    *)
LEMMA ViewOK == IInv => ViewInv
<1> SUFFICES ASSUME IInv PROVE ViewInv
  OBVIOUS
<1>1. /\ BlockCount \in Nat /\ Top \in Nat /\ Len(Blocks) = BlockCount
      /\ 1 .. BlockCount \subseteq 1 .. Top
      /\ \A s \in 1 .. BlockCount : Blocks[s] = BlockOf(s)
  BY BlocksOK, ScopeTypes DEF IInv, BlocksInv, BlockCount
<1>2. View = [n \in Idents |-> View[n]]
  BY DEF View
<1>3. ASSUME NEW n \in Idents PROVE Means(n, Blocks, View[n])
  <2> DEFINE c == slots[n].decls
  <2>1. c # << >> => View[n] = Abs(Last(c))
    BY LookupHead DEF View, IInv, TypeOK
  <2>2. c = << >> => View[n] = NoDecl
    BY LookupHead DEF View, IInv, TypeOK
  <2>3. c \in Seq(Decls)
    BY DEF IInv, TypeOK, Slots
  <2>4. CASE c = << >>
    <3>1. ASSUME NEW s \in 1 .. BlockCount PROVE Unnamed(n, Blocks[s])
      <4> SUFFICES ASSUME NEW d \in Held(s), Abs(d).name = n PROVE FALSE
        BY <1>1 DEF Unnamed, BlockOf
      <4>1. d.name = n
        BY DEF Abs
      <4>2. slots[d.name].decls # << >>
        BY <1>1, LastIsInnermost DEF IInv
      <4> QED
        BY <2>4, <4>1, <4>2
    <3> QED
      BY <1>1, <2>2, <2>4, <3>1 DEF Means
  <2>5. CASE c # << >>
    <3> DEFINE l == Last(c)
    <3>1. Len(c) \in 1 .. Len(c) /\ l = c[Len(c)]
      BY <2>3, <2>5, EmptySeq DEF Last
    <3>2. l.name = n
      BY <3>1 DEF IInv, ChainsMirrorScopes
    <3>3. PICK s \in 1 .. Top : l \in Held(s)
      BY <3>1 DEF IInv, ChainsMirrorScopes
    <3> HIDE DEF l
    <3>4. s \in 1 .. BlockCount
      BY <3>3, HeldByBlocks
    <3>5. Abs(l) \in Blocks[s] /\ Abs(l).name = n
      BY <1>1, <3>2, <3>3, <3>4 DEF BlockOf, Abs
    <3>6. ASSUME NEW e \in Blocks[s], e.name = n PROVE e = Abs(l)
      <4>1. PICK d \in Held(s) : e = Abs(d)
        BY <1>1, <3>4 DEF BlockOf
      <4>2. d.name = n
        BY <3>6, <4>1 DEF Abs
      <4> QED
        BY <3>2, <3>3, <4>1, <4>2, HeldDistinct
    <3>7. ASSUME NEW j \in s + 1 .. BlockCount PROVE Unnamed(n, Blocks[j])
      <4>1. j \in 1 .. BlockCount /\ j \in 1 .. Top /\ s < j
        BY <1>1
      <4> SUFFICES ASSUME NEW d \in Held(j), Abs(d).name = n PROVE FALSE
        BY <1>1, <4>1 DEF Unnamed, BlockOf
      <4>2. d.name = n
        BY DEF Abs
      <4>3. PICK t \in 1 .. Top : j <= t /\ Last(slots[d.name].decls) \in Held(t)
        BY <4>1, LastIsInnermost DEF IInv
      <4>4. l \in Held(t)
        BY <4>2, <4>3 DEF l
      <4>5. l \in scopes[t].decls /\ l \in scopes[s].decls
        BY <3>3, <4>4, HeldDecls DEF IInv
      <4>6. t = s
        BY <4>5 DEF IInv, DeclsInv
      <4> QED
        BY <1>1, <4>1, <4>3, <4>6
    <3>8. View[n] = Abs(l)
      BY <2>1, <2>5 DEF l
    <3> QED
      BY <1>1, <3>4, <3>5, <3>6, <3>7, <3>8 DEF Means
  <2> QED
    BY <2>4, <2>5
<1> QED
  BY <1>2, <1>3 DEF ViewInv

(* The same in the next state.                                             *)
LEMMA NextOK == IInv' => BlocksInv' /\ ViewInv'
<1>1. IInv => BlocksInv /\ ViewInv
  BY BlocksOK, ViewOK
<1> QED
  BY <1>1, PTL

-----------------------------------------------------------------------------
(* Steps of the map.                                                       *)

MapStep == [Map!Next]_(Map!vars)

(* The view of the next state, a name at a time.                           *)
LEMMA ViewNext ==
  ASSUME IInv', NEW n \in Idents, NEW x, Means(n, Blocks', x)
  PROVE  View'[n] = x
<1>1. Len(Blocks') \in Nat /\ Means(n, Blocks', View'[n])
  BY NextOK DEF BlocksInv, ViewInv
<1> QED
  BY <1>1, MeansUnique

LEMMA ViewStays ==
  ASSUME IInv, IInv', \A n \in Idents : Means(n, Blocks', View[n])
  PROVE  View' = View
<1>1. View = [n \in Idents |-> View[n]] /\ View' = [n \in Idents |-> View'[n]]
  BY ViewOK, NextOK DEF ViewInv
<1>2. \A n \in Idents : View'[n] = View[n]
  BY ViewNext
<1> HIDE DEF View
<1>3. [n \in Idents |-> View'[n]] = [n \in Idents |-> View[n]]
  BY <1>2
<1> QED
  BY <1>1, <1>3

LEMMA MapStutter ==
  ASSUME IInv, IInv', Blocks' = Blocks, closing' = closing
  PROVE  MapStep
<1>1. \A n \in Idents : Means(n, Blocks', View[n])
  BY ViewOK DEF ViewInv
<1>2. View' = View
  BY <1>1, ViewStays
<1> QED
  BY <1>2 DEF MapStep, Map!vars

(* What the scopes hold decides what the blocks are.                       *)
LEMMA SameBlocks ==
  ASSUME IInv, IInv', BlockCount' = BlockCount,
         \A s \in 1 .. BlockCount : Held(s)' = Held(s)
  PROVE  Blocks' = Blocks
<1>1. /\ Blocks = [s \in 1 .. BlockCount |-> BlockOf(s)]
      /\ Blocks' = [s \in 1 .. BlockCount' |-> BlockOf(s)']
  BY BlocksOK, NextOK DEF BlocksInv
<1>2. \A s \in 1 .. BlockCount : BlockOf(s)' = BlockOf(s)
  BY DEF BlockOf
<1> HIDE DEF Blocks, BlockOf, BlockCount
<1> QED
  BY <1>1, <1>2

(* Steps that only begin a list or report.                                 *)
LEMMA SilentStep ==
  ASSUME IInv, IInv', UNCHANGED <<scopes, closing, left>>
  PROVE  MapStep
<1>1. Top' = Top /\ BlockCount' = BlockCount /\ \A s : Held(s)' = Held(s)
  BY DEF Top, BlockCount, HasTransparentEntity, isTransparentContext, Held
<1>2. Blocks' = Blocks
  BY <1>1, SameBlocks
<1> QED
  BY <1>2, MapStutter

LEMMA TargetIsBlock ==
  ASSUME IInv, Top > 0
  PROVE  BlockCount = TargetScope(Top) /\ BlockCount \in 1 .. Top /\ Top \in Nat
BY TargetScopeIs, ScopeTypes DEF IInv, BlockCount

(* A declaration that is not reported is new to the innermost block.       *)
LEMMA DeclareMaps ==
  ASSUME IInv, IInv', NEW d \in Decls, NEW dc, Declares(d, dc)
  PROVE  MapStep
<1> DEFINE p == LookupName(d.name, Top)
<1>1. CASE p # << >> /\ isDeclInScope(p[1], dc, Top)
  <2>1. UNCHANGED <<scopes, closing, left>>
    BY <1>1 DEF Declares, CheckRedefinitionAndPushOnScope
  <2> QED
    BY <2>1, SilentStep
<1>2. CASE ~(p # << >> /\ isDeclInScope(p[1], dc, Top))
  <2>1. PICK T : T = TargetScope(Top)
    OBVIOUS
  <2>2. /\ ~ closing /\ closing' = closing /\ Top > 0 /\ d.id \in FreeIds
        /\ getRedeclContext(d.dc) = OwnerIn(scopes, TargetScope(Top))
        /\ getRedeclContext(dc) = OwnerIn(scopes, TargetScope(Top))
        /\ scopes' = Holding(scopes, TargetScope(Top),
                             scopes[TargetScope(Top)].decls \cup {d})
    BY <1>2 DEF Declares, CheckRedefinitionAndPushOnScope, PushOnScopeChains, Holding
  <2>3. /\ T = BlockCount /\ T \in 1 .. Top /\ Top \in Nat /\ 1 .. T \subseteq 1 .. Top
        /\ T \in 1 .. T /\ d.name \in Idents
    BY <2>1, <2>2, TargetIsBlock DEF Decls
  <2>4. BlockCount' = T
    <3>1. Top' = Top /\ (HasTransparentEntity(Top)' <=> HasTransparentEntity(Top))
      BY CheckStep
    <3> QED
      BY <2>3, <3>1 DEF BlockCount
  <2>5. /\ \A i \in 1 .. Top : i # T => scopes'[i].decls = scopes[i].decls
        /\ scopes'[T].decls = scopes[T].decls \cup {d}
    <3>1. \A i \in 1 .. Top : i # TargetScope(Top) => scopes'[i].decls = scopes[i].decls
      BY <2>2, PushScopes DEF IInv
    <3>2. scopes'[TargetScope(Top)].decls = scopes[TargetScope(Top)].decls \cup {d}
      BY <2>2, PushScopes DEF IInv
    <3> QED
      BY <2>1, <3>1, <3>2
  <2>6. \A e \in scopes[T].decls : e.name # d.name
    BY <1>2, <2>1, <2>2, <2>3, CheckFindsAll DEF IInv
  <2>7. \A s \in 1 .. Top : Held(s) = scopes[s].decls /\ Held(s)' = scopes'[s].decls
    BY <2>2 DEF Held
  <2>8. /\ \A s \in 1 .. T : s # T => BlockOf(s)' = BlockOf(s)
        /\ BlockOf(T)' = BlockOf(T) \cup {Abs(d)}
    <3>1. \A s \in 1 .. T : s # T => Held(s)' = Held(s)
      BY <2>3, <2>5, <2>7
    <3>2. Held(T)' = Held(T) \cup {d}
      BY <2>3, <2>5, <2>7
    <3> QED
      BY <3>1, <3>2 DEF BlockOf
  <2>9. /\ Blocks = [s \in 1 .. T |-> BlockOf(s)] /\ Len(Blocks) = T
        /\ Blocks' = [s \in 1 .. T |-> BlockOf(s)'] /\ Len(Blocks') = T
    BY <2>3, <2>4, BlocksOK, NextOK DEF BlocksInv
  <2> DEFINE x == Abs(d)
  <2>10. x \in Map!Decls /\ x.name = d.name /\ x.id = d.id
    BY DEF Decls, Abs, Map!Decls
  <2>11. ASSUME NEW i \in 1 .. T PROVE x \notin Blocks[i]
    <3> SUFFICES ASSUME NEW e \in Held(i), x = Abs(e) PROVE FALSE
      BY <2>9 DEF BlockOf
    <3>1. e.id = d.id
      BY DEF Abs
    <3>2. e \in Live
      BY <2>3, <2>7 DEF Live
    <3> QED
      BY <2>2, <3>1, <3>2 DEF FreeIds
  <2>12. \A e \in Blocks[T] : e.name # x.name
    <3>1. \A e \in Held(T) : Abs(e).name = e.name /\ e.name # d.name
      BY <2>3, <2>6, <2>7 DEF Abs
    <3> QED
      BY <2>3, <2>9, <2>10, <3>1 DEF BlockOf
  <2> HIDE DEF x
  <2>13. /\ \A i \in 1 .. T : i # T => Blocks'[i] = Blocks[i]
         /\ Blocks'[T] = Blocks[T] \cup {x}
    BY <2>3, <2>8, <2>9 DEF x
  <2>14. Blocks' = [Blocks EXCEPT ![T] = @ \cup {x}]
    BY <2>9, <2>13
  <2>15. \A n \in Idents : n # x.name => View'[n] = View[n]
    <3> SUFFICES ASSUME NEW n \in Idents, n # x.name PROVE View'[n] = View[n]
      OBVIOUS
    <3>1. Means(n, Blocks, View[n])
      BY ViewOK DEF ViewInv
    <3>2. SameNamed(n, Blocks, Blocks')
      BY <2>3, <2>9, <2>13 DEF SameNamed
    <3>3. Means(n, Blocks', View[n])
      BY <2>3, <2>9, <3>1, <3>2, MeansSame
    <3> QED
      BY <3>3, ViewNext
  <2>16. View'[x.name] = x
    <3>1. x \in Blocks'[T] /\ \A e \in Blocks'[T] : e.name = x.name => e = x
      BY <2>12, <2>13
    <3>2. \A j \in T + 1 .. T : FALSE
      BY <2>3
    <3>3. Means(x.name, Blocks', x)
      BY <2>3, <2>9, <3>1, <3>2 DEF Means
    <3> QED
      BY <2>3, <2>10, <3>3, ViewNext
  <2>17. View' = [View EXCEPT ![x.name] = x]
    <3>1. View = [n \in Idents |-> View[n]] /\ View' = [n \in Idents |-> View'[n]]
      BY ViewOK, NextOK DEF ViewInv
    <3>2. DOMAIN View = Idents /\ DOMAIN View' = Idents
      BY <3>1
    <3> HIDE DEF View
    <3>3. \A n \in Idents : View'[n] = [View EXCEPT ![x.name] = x][n]
      BY <2>15, <2>16, <3>2
    <3> QED
      BY <3>1, <3>2, <3>3
  <2>18. Map!Declare(x)
    <3>1. Len(Blocks) > 0 /\ ~ Map!DeclaredIn(x.name, Blocks[T])
      BY <2>3, <2>9, <2>12 DEF Map!DeclaredIn
    <3> QED
      BY <2>2, <2>9, <2>11, <2>14, <2>17, <3>1 DEF Map!Declare
  <2> QED
    BY <2>10, <2>18 DEF MapStep, Map!Next
<1> QED
  BY <1>1, <1>2

-----------------------------------------------------------------------------
(* Entering a scope that is a block of its own opens a block.              *)
LEMMA OpenMaps ==
  ASSUME IInv, IInv', Idle, NEW N, N = Top + 1, NEW e \in Contexts, EnterScope(e),
         UNCHANGED <<slots, closing, left>>, e = << >> \/ Last(e) \notin Transparent,
         \/ e = << >> /\ curContext' = curContext
         \/ curContext' = e /\ \E k \in {"Function", "Struct", "FieldSpec"} :
                                 e = Append(curContext, k)
  PROVE  MapStep
<1>1. /\ Top' = N /\ Entity(N)' = e /\ Held(N)' = {}
      /\ \A s \in 1 .. Top : Held(s)' = Held(s)
  BY EnterStep
<1>2. Top \in Nat /\ ~ closing /\ ~ HasTransparentEntity(Top)
  BY IdleIs
<1>3. ~ HasTransparentEntity(Top)'
  <2>1. scopes'[Top'].entity = e
    BY <1>1 DEF Entity
  <2> QED
    BY <2>1 DEF HasTransparentEntity, isTransparentContext
<1>4. BlockCount = Top /\ BlockCount' = N
  BY <1>1, <1>2, <1>3 DEF BlockCount
<1>5. /\ Blocks = [s \in 1 .. Top |-> BlockOf(s)] /\ Len(Blocks) = Top
      /\ Blocks' = [s \in 1 .. N |-> BlockOf(s)'] /\ Len(Blocks') = N
      /\ Blocks \in Seq(SUBSET Map!Decls) /\ Blocks' \in Seq(SUBSET Map!Decls)
  BY <1>4, BlocksOK, NextOK DEF BlocksInv
<1>6. BlockOf(N)' = {} /\ \A s \in 1 .. Top : BlockOf(s)' = BlockOf(s)
  BY <1>1 DEF BlockOf
<1>7. Blocks'[N] = {} /\ \A s \in 1 .. Top : Blocks'[s] = Blocks[s]
  BY <1>2, <1>5, <1>6
<1>8. Blocks' = Append(Blocks, {})
  <2> DEFINE a == Append(Blocks, {})
  <2> HIDE DEF Blocks
  <2>1. /\ a \in Seq(SUBSET Map!Decls) /\ Len(a) = N /\ a[N] = {}
        /\ \A s \in 1 .. Top : a[s] = Blocks[s]
    BY <1>2, <1>5, AppendProperties
  <2> HIDE DEF a
  <2>2. ASSUME NEW s \in 1 .. N PROVE a[s] = Blocks'[s]
    <3>1. s = N \/ s \in 1 .. Top
      BY <1>2
    <3> QED
      BY <1>7, <2>1, <3>1
  <2>3. a = Blocks'
    BY <1>5, <2>1, <2>2, SeqEqual
  <2> QED
    BY <2>3 DEF a
<1>9. \A n \in Idents : Means(n, Blocks', View[n])
  <2> SUFFICES ASSUME NEW n \in Idents PROVE Means(n, Blocks', View[n])
    OBVIOUS
  <2>1. Means(n, Blocks, View[n])
    BY ViewOK DEF ViewInv
  <2>2. SameNamed(n, Blocks, Blocks')
    BY <1>2, <1>5, <1>7 DEF SameNamed
  <2> QED
    BY <1>2, <1>5, <2>1, <2>2, MeansSame
<1>10. View' = View
  BY <1>9, ViewStays
<1>11. Map!Open
  BY <1>2, <1>8, <1>10 DEF Map!Open
<1> QED
  BY <1>11 DEF MapStep, Map!Next

(* Entering the scope of a field list does not.                            *)
LEMMA FieldListMaps ==
  ASSUME IInv, IInv', NEW idents \in Seq(Idents), ActOnFieldDecl(idents)
  PROVE  MapStep
<1> DEFINE e == Append(curContext, "FieldSpec")
<1>1. Idle /\ EnterScope(e) /\ curContext' = e /\ UNCHANGED <<slots, closing, left>>
  BY DEF ActOnFieldDecl, PushDeclContext
<1>2. e \in Contexts /\ Last(e) \in Transparent /\ e # << >>
  BY <1>1, IdleIs, AppendContext DEF ContextKinds, Transparent
<1>3. \E k \in {"Function", "Struct", "FieldSpec"} : e = Append(curContext, k)
  OBVIOUS
<1> HIDE DEF e
<1>4. PICK N : N = Top + 1
  OBVIOUS
<1>5. Top' = N /\ Entity(N)' = e /\ \A s \in 1 .. Top : Held(s)' = Held(s)
  BY <1>1, <1>2, <1>3, <1>4, EnterStep
<1>6. HasTransparentEntity(Top)'
  <2>1. scopes'[Top'].entity = e
    BY <1>5 DEF Entity
  <2> QED
    BY <1>2, <2>1 DEF HasTransparentEntity, isTransparentContext
<1>7. Top \in Nat /\ ~ HasTransparentEntity(Top)
  BY <1>1, IdleIs
<1>8. BlockCount = Top /\ BlockCount' = Top
  BY <1>4, <1>5, <1>6, <1>7 DEF BlockCount
<1>9. Blocks' = Blocks
  BY <1>5, <1>8, SameBlocks
<1> QED
  BY <1>1, <1>9, MapStutter

LEMMA FinishFieldMaps ==
  ASSUME IInv, IInv', FinishFieldDecl
  PROVE  MapStep
<1>1. /\ Top > 0 /\ HasTransparentEntity(Top) /\ scopes' = Front(scopes)
      /\ UNCHANGED <<slots, closing, left>>
  BY DEF FinishFieldDecl
<1>2. ~ closing /\ closing' = FALSE /\ Top \in Nat
  BY <1>1, ScopeTypes DEF IInv, ClosingInv, TypeOK
<1>3. Held(Top) = {}
  BY <1>1, <1>2 DEF Held, IInv, DeclsInv
<1>4. PICK N : N = Top - 1
  OBVIOUS
<1>5. /\ Top' = N /\ (N > 0 => ~ HasTransparentEntity(Top)')
      /\ \A s \in 1 .. N : Held(s)' = Held(s)
  BY <1>1, <1>2, <1>3, <1>4, LeaveStep
<1>6. BlockCount = N /\ BlockCount' = N
  BY <1>1, <1>2, <1>4, <1>5 DEF BlockCount
<1>7. Blocks' = Blocks
  BY <1>5, <1>6, SameBlocks
<1> QED
  BY <1>1, <1>7, MapStutter

-----------------------------------------------------------------------------
(* Leaving a scope closes its block, forgets its declarations and drops it. *)
LEMMA ExitMaps ==
  ASSUME IInv, IInv', ExitScope
  PROVE  MapStep
<1>1. Idle /\ closing' = TRUE /\ left' = scopes[Top].decls /\ scopes' = scopes
  BY DEF ExitScope
<1>2. Top > 0 /\ Top \in Nat /\ ~ closing /\ ~ HasTransparentEntity(Top)
  BY <1>1, IdleIs
<1>3. Top' = Top /\ \A s : (HasTransparentEntity(s)' <=> HasTransparentEntity(s))
  BY <1>1 DEF Top, HasTransparentEntity, isTransparentContext
<1>4. BlockCount = Top /\ BlockCount' = Top
  BY <1>2, <1>3 DEF BlockCount
<1>5. \A s \in 1 .. Top : Held(s)' = Held(s)
  BY <1>1, <1>2, <1>3 DEF Held
<1>6. Blocks' = Blocks /\ Len(Blocks) = Top
  BY <1>4, <1>5, SameBlocks, BlocksOK DEF BlocksInv
<1>7. \A n \in Idents : Means(n, Blocks', View[n])
  BY <1>6, ViewOK DEF ViewInv
<1>8. View' = View
  BY <1>7, ViewStays
<1>9. Map!Close
  BY <1>1, <1>2, <1>6, <1>8 DEF Map!Close
<1> QED
  BY <1>9 DEF MapStep, Map!Next

LEMMA PopMaps ==
  ASSUME IInv, IInv', PopScope
  PROVE  MapStep
<1>1. closing /\ left = {} /\ scopes' = Front(scopes) /\ closing' = FALSE /\ slots' = slots
  BY DEF PopScope
<1>2. Top > 0 /\ Top \in Nat /\ ~ HasTransparentEntity(Top) /\ Held(Top) = {}
  BY <1>1, ScopeTypes DEF IInv, ClosingInv, Held
<1>3. PICK N : N = Top - 1
  OBVIOUS
<1>4. /\ Top' = N /\ N \in Nat /\ (N > 0 => ~ HasTransparentEntity(Top)')
      /\ \A s \in 1 .. N : Held(s)' = Held(s)
  BY <1>1, <1>2, <1>3, LeaveStep
<1>5. PICK M : M = Top
  OBVIOUS
<1>6. BlockCount = M /\ BlockCount' = N /\ M = N + 1 /\ M \in 1 .. M
  BY <1>2, <1>3, <1>4, <1>5 DEF BlockCount
<1>7. /\ Blocks = [s \in 1 .. M |-> BlockOf(s)] /\ Len(Blocks) = M
      /\ Blocks' = [s \in 1 .. N |-> BlockOf(s)'] /\ Len(Blocks') = N
      /\ Blocks \in Seq(SUBSET Map!Decls) /\ Blocks' \in Seq(SUBSET Map!Decls)
  BY <1>6, BlocksOK, NextOK DEF BlocksInv
<1>8. BlockOf(M) = {} /\ \A s \in 1 .. N : BlockOf(s)' = BlockOf(s)
  BY <1>2, <1>4, <1>5 DEF BlockOf
<1>9. Blocks[M] = {} /\ \A s \in 1 .. N : Blocks'[s] = Blocks[s]
  BY <1>4, <1>6, <1>7, <1>8
<1>10. Blocks' = SubSeq(Blocks, 1, Len(Blocks) - 1)
  <2> DEFINE a == SubSeq(Blocks, 1, N)
  <2> HIDE DEF Blocks
  <2>1. /\ a \in Seq(SUBSET Map!Decls) /\ Len(a) = N
        /\ \A s \in 1 .. N : a[s] = Blocks[s]
    BY <1>4, <1>6, <1>7, SubSeqProperties
  <2> HIDE DEF a
  <2>2. \A s \in 1 .. N : a[s] = Blocks'[s]
    BY <1>9, <2>1
  <2>3. a = Blocks'
    BY <1>7, <2>1, <2>2, SeqEqual
  <2>4. Len(Blocks) - 1 = N
    BY <1>4, <1>6, <1>7
  <2> QED
    BY <2>3, <2>4 DEF a
<1>11. \A n \in Idents : Means(n, Blocks', View[n])
  <2> SUFFICES ASSUME NEW n \in Idents PROVE Means(n, Blocks', View[n])
    OBVIOUS
  <2>1. Means(n, Blocks, View[n])
    BY ViewOK DEF ViewInv
  <2>2. SameNamed(n, Blocks, Blocks')
    <3> SUFFICES ASSUME NEW i \in Nat, NEW d
                 PROVE  i \in 1 .. N /\ d \in Blocks'[i] <=> i \in 1 .. M /\ d \in Blocks[i]
      BY <1>7 DEF SameNamed
    <3>1. i \in 1 .. M <=> i \in 1 .. N \/ i = M
      BY <1>4, <1>6
    <3>2. ~(M \in 1 .. N)
      BY <1>4, <1>6
    <3> HIDE DEF Blocks
    <3> QED
      BY <1>9, <3>1, <3>2
  <2>3. Len(Blocks) \in Nat /\ Len(Blocks') \in Nat
    BY <1>4, <1>6, <1>7
  <2> QED
    BY <2>1, <2>2, <2>3, MeansSame
<1>12. View' = View
  BY <1>11, ViewStays
<1>13. Map!Drop
  BY <1>1, <1>7, <1>9, <1>10, <1>12 DEF Map!Drop
<1> QED
  BY <1>13 DEF MapStep, Map!Next

LEMMA ForgetMaps ==
  ASSUME IInv, IInv', NEW d \in left, Forget(d)
  PROVE  MapStep
<1>1. PICK T : T = Top
  OBVIOUS
<1>2. /\ Top' = T /\ T \in Nat /\ T \in 1 .. T /\ closing /\ closing' = closing
      /\ d \in scopes[T].decls /\ d \in Decls /\ d \in Held(T)
      /\ \A s \in 1 .. T : \A e : e \in Held(s)' <=> e \in Held(s) /\ e # d
  BY <1>1, ForgetHeld
<1>3. BlockCount = T /\ BlockCount' = T
  <2>1. ~ HasTransparentEntity(T) /\ ~ HasTransparentEntity(T)'
    BY <1>1, ForgetHeld
  <2>2. HasTransparentEntity(Top)' <=> HasTransparentEntity(T)'
    BY <1>2 DEF HasTransparentEntity
  <2> QED
    BY <1>1, <1>2, <2>1, <2>2 DEF BlockCount
<1>4. /\ Blocks = [s \in 1 .. T |-> BlockOf(s)] /\ Len(Blocks) = T
      /\ Blocks' = [s \in 1 .. T |-> BlockOf(s)'] /\ Len(Blocks') = T
  BY <1>3, BlocksOK, NextOK DEF BlocksInv
<1> DEFINE x == Abs(d)
<1>5. x \in Map!Decls /\ x.name = d.name /\ x.name \in Idents
  BY <1>2 DEF Decls, Abs, Map!Decls
<1>6. ASSUME NEW s \in 1 .. T, NEW e \in Held(s), e # d PROVE Abs(e) # x
  <2>1. e \in scopes[s].decls
    BY <1>1, HeldDecls DEF IInv
  <2>2. e.id # d.id
    BY <1>1, <1>2, <1>6, <2>1 DEF IInv, DeclsInv
  <2> QED
    BY <2>2 DEF Abs
<1>7. ASSUME NEW s \in 1 .. T, s # T PROVE d \notin Held(s)
  <2>1. d \in Held(s) => d \in scopes[s].decls
    BY <1>1, HeldDecls DEF IInv
  <2> QED
    BY <1>1, <1>2, <1>7, <2>1 DEF IInv, DeclsInv
<1>8. \A s \in 1 .. T : s # T => BlockOf(s)' = BlockOf(s)
  BY <1>2, <1>7 DEF BlockOf
<1>9. BlockOf(T)' = BlockOf(T) \ {x}
  BY <1>2, <1>6 DEF BlockOf
<1>10. x \in Blocks[T]
  BY <1>2, <1>4 DEF BlockOf
<1> HIDE DEF x
<1>11. /\ \A s \in 1 .. T : s # T => Blocks'[s] = Blocks[s]
       /\ Blocks'[T] = Blocks[T] \ {x}
  BY <1>2, <1>4, <1>8, <1>9
<1>12. Blocks' = [Blocks EXCEPT ![T] = @ \ {x}]
  BY <1>4, <1>11
<1>13. \A n \in Idents : n # x.name => View'[n] = View[n]
  <2> SUFFICES ASSUME NEW n \in Idents, n # x.name PROVE View'[n] = View[n]
    OBVIOUS
  <2>1. Means(n, Blocks, View[n])
    BY ViewOK DEF ViewInv
  <2>2. SameNamed(n, Blocks, Blocks')
    BY <1>2, <1>4, <1>11 DEF SameNamed
  <2>3. Means(n, Blocks', View[n])
    BY <1>2, <1>4, <2>1, <2>2, MeansSame
  <2> QED
    BY <2>3, ViewNext
<1>14. View'[x.name] = Map!Innermost(x.name, Blocks')
  <2>1. Means(x.name, Blocks', View'[x.name]) /\ Len(Blocks') \in Nat
    BY <1>2, <1>4, <1>5, NextOK DEF ViewInv
  <2> QED
    BY <2>1, MeansInnermost
<1>15. View' = [View EXCEPT ![x.name] = Map!Innermost(x.name, Blocks')]
  <2>1. View = [n \in Idents |-> View[n]] /\ View' = [n \in Idents |-> View'[n]]
    BY ViewOK, NextOK DEF ViewInv
  <2>2. DOMAIN View = Idents /\ DOMAIN View' = Idents
    BY <2>1
  <2> DEFINE m == Map!Innermost(x.name, Blocks')
  <2>3. View'[x.name] = m
    BY <1>14
  <2> HIDE DEF View, m
  <2>4. \A n \in Idents : View'[n] = [View EXCEPT ![x.name] = m][n]
    BY <1>13, <2>2, <2>3
  <2>5. View' = [View EXCEPT ![x.name] = m]
    BY <2>1, <2>2, <2>4
  <2> QED
    BY <2>5 DEF m
<1>16. Map!Forget(x)
  BY <1>2, <1>4, <1>10, <1>12, <1>15 DEF Map!Forget
<1> QED
  BY <1>5, <1>16 DEF MapStep, Map!Next

-----------------------------------------------------------------------------
(* Every step is one of the map, or none.                                  *)

LEMMA DeclarationsMap ==
  ASSUME IInv, IInv', NEW n \in Idents, ActOnFunctionDecl(n) \/ ActOnTypeSpec(n)
  PROVE  MapStep
BY FunctionDeclares, TypeDeclares, DeclareMaps

LEMMA IdentMaps ==
  ASSUME IInv, IInv', DeclareIdent
  PROVE  MapStep
<1>1. CASE Head(todo).old
  BY <1>1, SilentStep DEF DeclareIdent
<1>2. CASE ~ Head(todo).old
  BY <1>2, IdentDeclares, DeclareMaps
<1> QED
  BY <1>1, <1>2

LEMMA ListMaps ==
  ASSUME IInv, IInv', NEW idents \in Seq(Idents),
         ActOnConstSpec(idents) \/ ActOnVarSpec(idents) \/ ActOnShortVarDeclStmt(idents)
  PROVE  MapStep
<1>1. UNCHANGED <<scopes, closing, left>>
  BY DEF ActOnConstSpec, ActOnVarSpec, ActOnShortVarDeclStmt
<1> QED
  BY <1>1, SilentStep

LEMMA FunctionDefMaps ==
  ASSUME IInv, IInv', ActOnStartOfFunctionDef
  PROVE  MapStep
<1> DEFINE e == Append(curContext, "Function")
<1>1. Idle /\ EnterScope(e) /\ curContext' = e /\ UNCHANGED <<slots, closing, left>>
  BY DEF ActOnStartOfFunctionDef, PushDeclContext
<1>2. e \in Contexts /\ Last(e) \notin Transparent
  BY <1>1, IdleIs, AppendContext DEF ContextKinds, Transparent
<1>3. \E k \in {"Function", "Struct", "FieldSpec"} : e = Append(curContext, k)
  OBVIOUS
<1> HIDE DEF e
<1> QED
  BY <1>1, <1>2, <1>3, OpenMaps

LEMMA StructTypeMaps ==
  ASSUME IInv, IInv', ActOnStartOfStructType
  PROVE  MapStep
<1> DEFINE e == Append(curContext, "Struct")
<1>1. Idle /\ EnterScope(e) /\ curContext' = e /\ UNCHANGED <<slots, closing, left>>
  BY DEF ActOnStartOfStructType, PushDeclContext
<1>2. e \in Contexts /\ Last(e) \notin Transparent
  BY <1>1, IdleIs, AppendContext DEF ContextKinds, Transparent
<1>3. \E k \in {"Function", "Struct", "FieldSpec"} : e = Append(curContext, k)
  OBVIOUS
<1> HIDE DEF e
<1> QED
  BY <1>1, <1>2, <1>3, OpenMaps

LEMMA BlockMaps ==
  ASSUME IInv, IInv', ParseBlock
  PROVE  MapStep
<1>1. /\ Idle /\ EnterScope(<< >>) /\ curContext' = curContext
      /\ UNCHANGED <<slots, closing, left>> /\ << >> \in Contexts
  BY DEF ParseBlock, Contexts
<1> QED
  BY <1>1, OpenMaps

LEMMA AnonymousFieldMaps ==
  ASSUME IInv, IInv', NEW n \in Idents, ActOnAnonymousField(n)
  PROVE  MapStep
<1>1. <<n>> \in Seq(Idents)
  OBVIOUS
<1> QED
  BY <1>1, FieldListMaps DEF ActOnAnonymousField

LEMMA StepMaps == IInv /\ IInv' /\ [Next]_vars => MapStep
<1> SUFFICES ASSUME IInv, IInv', [Next]_vars PROVE MapStep
  OBVIOUS
<1>1. CASE \E n \in Idents : ActOnFunctionDecl(n) \/ ActOnTypeSpec(n) \/ ActOnAnonymousField(n)
  BY <1>1, DeclarationsMap, AnonymousFieldMaps
<1>2. CASE \E idents \in IdentLists :
             \/ ActOnConstSpec(idents) \/ ActOnVarSpec(idents)
             \/ ActOnShortVarDeclStmt(idents) \/ ActOnFieldDecl(idents)
  <2>1. PICK idents \in Seq(Idents) :
             \/ ActOnConstSpec(idents) \/ ActOnVarSpec(idents)
             \/ ActOnShortVarDeclStmt(idents) \/ ActOnFieldDecl(idents)
    BY <1>2, IdentListsAreSeqs
  <2> QED
    BY <2>1, ListMaps, FieldListMaps
<1>3. CASE ActOnStartOfFunctionDef \/ ParseBlock \/ ActOnStartOfStructType
  BY <1>3, FunctionDefMaps, BlockMaps, StructTypeMaps
<1>4. CASE DeclareIdent \/ FinishFieldDecl
  BY <1>4, IdentMaps, FinishFieldMaps
<1>5. CASE ExitScope \/ PopScope
  BY <1>5, ExitMaps, PopMaps
<1>6. CASE \E d \in left : Forget(d)
  BY <1>6, ForgetMaps
<1>7. CASE UNCHANGED vars
  BY <1>7, SilentStep DEF vars
<1> QED
  BY <1>1, <1>2, <1>3, <1>4, <1>5, <1>6, <1>7 DEF Next

(* The scope of the translation unit is the one block to begin with.       *)
LEMMA InitMaps == Init => Map!Init
<1> SUFFICES ASSUME Init PROVE Map!Init
  OBVIOUS
<1>1. IInv
  BY InitInv
<1>2. Len(scopes) = 1 /\ scopes[1].entity = <<"TU">> /\ ~ closing
  BY DEF Init
<1>3. Top = 1 /\ ~ HasTransparentEntity(Top) /\ 1 \in 1 .. Top
  BY <1>2, TUContext DEF Top, HasTransparentEntity, isTransparentContext
<1>4. Len(Blocks) = 1 /\ Blocks[1] = BlockOf(1) /\ Blocks[1] \subseteq Map!Decls
  <2>1. BlockCount = 1
    BY <1>3 DEF BlockCount
  <2>2. /\ Blocks = [s \in 1 .. 1 |-> BlockOf(s)] /\ Len(Blocks) = 1
        /\ Blocks \in Seq(SUBSET Map!Decls)
    BY <1>1, <2>1, BlocksOK DEF BlocksInv
  <2> HIDE DEF Blocks
  <2> QED
    BY <2>2, ElementOfSeq
<1>5. Map!NamesDistinct(Blocks[1])
  <2> SUFFICES ASSUME NEW d \in Held(1), NEW e \in Held(1), Abs(d).name = Abs(e).name
               PROVE  Abs(d) = Abs(e)
    BY <1>4 DEF Map!NamesDistinct, BlockOf
  <2>1. d.name = e.name
    BY DEF Abs
  <2> QED
    BY <1>1, <1>3, <2>1, HeldDistinct
<1>6. View = [n \in Idents |-> Map!Innermost(n, Blocks)]
  <2>1. View = [n \in Idents |-> View[n]] /\ \A n \in Idents : Means(n, Blocks, View[n])
    BY <1>1, ViewOK DEF ViewInv
  <2>2. \A n \in Idents : View[n] = Map!Innermost(n, Blocks)
    BY <1>4, <2>1, MeansInnermost
  <2> HIDE DEF View, Blocks
  <2> QED
    BY <2>1, <2>2
<1> QED
  BY <1>2, <1>4, <1>5, <1>6 DEF Map!Init

(* For any identifiers and nesting, what a name resolves to through the    *)
(* scopes and the identifier chains is what the abstract map of blocks     *)
(* says: the innermost declaration, uncovered again when a block is left.  *)
THEOREM Refinement == Spec => ImplementsScopeMap
<1>1. IInv /\ IInv' /\ [Next]_vars => [Map!Next]_(Map!vars)
  BY StepMaps DEF MapStep
<1> QED
  BY <1>1, InitMaps, Invariant, PTL DEF Spec, Map!Spec, ImplementsScopeMap
=============================================================================
