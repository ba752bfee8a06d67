------------------------ MODULE MinimalActionProofs ------------------------
(***************************************************************************)
(* What holds of MinimalAction and the cache of Scope objects for any      *)
(* identifiers, any nesting of scopes and any size of the cache: no object *)
(* is lost or shared, a recycled one holds nothing of its earlier life,    *)
(* every entry of an identifier is accounted for, and as long as no name   *)
(* is declared twice in a scope the lists implement ScopeMap.              *)
(*                                                                         *)
(* From "Parentheses" on, the other half of what lib/Parse does without    *)
(* Sema: the trees Precedence builds, for any tokens and any number of     *)
(* them.                                                                   *)
(***************************************************************************)
EXTENDS MinimalAction, Precedence, SharedLemmas, TLAPS, SequenceTheorems, FiniteSetTheorems

-----------------------------------------------------------------------------
(* The stack of open scopes.  Following the parents from the innermost     *)
(* scope gives the one sequence that has each scope after its parent.      *)

StackFrom(ob, cur) ==
  LET Path[d \in 0 .. MaxScopes] ==
        IF d = 0 THEN <<cur>>
        ELSE LET p == Path[d - 1] IN
             IF Head(p) = None THEN p ELSE <<ob[Head(p)].AnyParent>> \o p
  IN  Tail(Path[MaxScopes])

LEMMA StackIsFrom == Stack = StackFrom(objects, CurScope) /\ Stack' = StackFrom(objects', CurScope')
BY DEF Stack, StackFrom

IsStack(ob, cur, st) ==
  /\ st \in Seq(Nat \ {None}) /\ Len(st) <= MaxScopes
  /\ \A i \in 1 .. Len(st) : /\ st[i] \in DOMAIN ob
                             /\ ob[st[i]].AnyParent = IF i = 1 THEN None ELSE st[i - 1]
  /\ cur = IF Len(st) = 0 THEN None ELSE st[Len(st)]

NextOfPath(ob, p) == IF Head(p) = None THEN p ELSE <<ob[Head(p)].AnyParent>> \o p
IsPath(f, ob, cur) ==
  f = [d \in 0 .. MaxScopes |-> IF d = 0 THEN <<cur>> ELSE NextOfPath(ob, f[d - 1])]

(* The path of d steps: the last scopes of the stack, below them a null.   *)
Below(st, i) == IF i = 1 THEN None ELSE st[i - 1]
Steps(st, d) == IF d <= Len(st) THEN d ELSE Len(st)
Suffix(st, d) == [j \in 1 .. Steps(st, d) + 1 |-> Below(st, Len(st) - Steps(st, d) + j)]

LEMMA SuffixIs ==
  ASSUME NEW ob, NEW cur, NEW st, IsStack(ob, cur, st), NEW d \in Nat
  PROVE  /\ Suffix(st, d) \in Seq(Nat) /\ Len(Suffix(st, d)) = Steps(st, d) + 1
         /\ Steps(st, d) \in 0 .. Len(st) /\ Len(st) \in Nat
         /\ Suffix(st, d) # << >>
<1>1. Len(st) \in Nat /\ Steps(st, d) \in 0 .. Len(st)
  BY DEF IsStack, Steps
<1>2. \A i \in 1 .. Len(st) + 1 : Below(st, i) \in Nat
  BY <1>1 DEF IsStack, Below, None
<1>3. PICK n \in Nat : n = Steps(st, d) + 1
  BY <1>1
<1>4. \A j \in 1 .. n : Below(st, Len(st) - Steps(st, d) + j) \in Nat
  BY <1>1, <1>2, <1>3
<1>5. Suffix(st, d) \in [1 .. n -> Nat]
  BY <1>3, <1>4 DEF Suffix
<1>6. Suffix(st, d) \in Seq(Nat) /\ DOMAIN Suffix(st, d) = 1 .. n
  BY <1>3, <1>5, SeqDef
<1>7. Len(Suffix(st, d)) = n
  BY <1>3, <1>6, LenProperties
<1> QED
  BY <1>1, <1>3, <1>6, <1>7

LEMMA SuffixStep ==
  ASSUME NEW ob, NEW cur, NEW st, IsStack(ob, cur, st), NEW d \in Nat
  PROVE  /\ Suffix(st, 0) = <<cur>>
         /\ d > 0 => Suffix(st, d) = NextOfPath(ob, Suffix(st, d - 1))
<1> DEFINE k == Len(st)
<1>1. k \in Nat /\ Steps(st, 0) = 0
  BY SuffixIs DEF Steps
<1>2. Suffix(st, 0) = <<cur>>
  <2>1. Below(st, k + 1) = cur
    BY <1>1 DEF IsStack, Below
  <2>2. Suffix(st, 0) = [j \in 1 .. 1 |-> Below(st, k + j)]
    BY <1>1 DEF Suffix
  <2>3. Suffix(st, 0)[1] = cur /\ Suffix(st, 0) \in Seq(Nat) /\ Len(Suffix(st, 0)) = 1
    BY <1>1, <2>1, <2>2, SuffixIs
  <2>4. <<cur>> \in Seq(Nat) /\ Len(<<cur>>) = 1 /\ <<cur>>[1] = cur
    <3>1. cur \in Nat
      BY <1>1 DEF IsStack, None
    <3> QED
      BY <3>1
  <2> QED
    BY <2>3, <2>4, SeqEqual
<1>3. ASSUME d > 0 PROVE Suffix(st, d) = NextOfPath(ob, Suffix(st, d - 1))
  <2> DEFINE p == Suffix(st, d - 1)
  <2>1. /\ d - 1 \in Nat /\ p \in Seq(Nat) /\ Len(p) = Steps(st, d - 1) + 1 /\ p # << >>
        /\ Steps(st, d - 1) \in 0 .. k
    BY <1>3, SuffixIs
  <2>2. Head(p) = p[1] /\ p[1] = Below(st, k - Steps(st, d - 1) + 1)
    BY <2>1 DEF Suffix
  <2>3. CASE k < d
    <3>1. Steps(st, d) = k /\ Steps(st, d - 1) = k
      BY <1>1, <1>3, <2>3 DEF Steps
    <3>2. p[1] = None
      BY <1>1, <2>2, <3>1 DEF Below
    <3>3. Suffix(st, d) = p
      BY <3>1 DEF Suffix
    <3> QED
      BY <2>2, <3>2, <3>3 DEF NextOfPath
  <2>4. CASE d <= k
    <3>1. Steps(st, d) = d /\ Steps(st, d - 1) = d - 1
      BY <1>1, <1>3, <2>4 DEF Steps
    <3>2. PICK i : i = k - d + 1
      OBVIOUS
    <3>3. i \in 1 .. k /\ i \in Nat /\ k - (d - 1) + 1 = i + 1
      BY <1>1, <1>3, <2>4, <3>2
    <3>4. p[1] = st[i] /\ st[i] # None /\ ob[st[i]].AnyParent = Below(st, i)
      <4>1. p[1] = Below(st, i + 1)
        BY <2>2, <3>1, <3>3
      <4>2. Below(st, i + 1) = st[i]
        BY <3>3 DEF Below
      <4> QED
        BY <3>3, <4>1, <4>2 DEF IsStack, Below
    <3> DEFINE q == <<Below(st, i)>> \o p
    <3>5. NextOfPath(ob, p) = q
      BY <2>2, <3>4 DEF NextOfPath
    <3>6. Below(st, i) \in Nat
      BY <3>3 DEF IsStack, Below, None
    <3>7. /\ q \in Seq(Nat) /\ Len(q) = d + 1
          /\ \A j \in 1 .. d + 1 : q[j] = IF j = 1 THEN Below(st, i) ELSE p[j - 1]
      <4> DEFINE h == <<Below(st, i)>>
      <4>1. h \in Seq(Nat) /\ Len(h) = 1 /\ h[1] = Below(st, i)
        BY <3>6
      <4>2. 1 + Len(p) = d + 1
        BY <2>1, <3>1
      <4> HIDE DEF h, p
      <4>3. /\ h \o p \in Seq(Nat) /\ Len(h \o p) = d + 1
            /\ \A j \in 1 .. d + 1 : (h \o p)[j] = IF j <= Len(h) THEN h[j] ELSE p[j - Len(h)]
        <5>1. Len(h) + Len(p) = d + 1
          BY <4>1, <4>2
        <5> QED
          BY <2>1, <4>1, <5>1, ConcatProperties
      <4> QED
        BY <4>1, <4>3 DEF h
    <3>8. \A j \in 1 .. d + 1 : Suffix(st, d)[j] = Below(st, k - d + j)
      BY <3>1 DEF Suffix
    <3>9. \A j \in 1 .. d : p[j] = Below(st, k - (d - 1) + j)
      BY <1>3, <3>1 DEF Suffix
    <3>10. \A j \in 1 .. d + 1 : Suffix(st, d)[j] = q[j]
      <4> SUFFICES ASSUME NEW j \in 1 .. d + 1 PROVE Suffix(st, d)[j] = q[j]
        OBVIOUS
      <4> HIDE DEF p, q
      <4>1. CASE j = 1
        BY <3>2, <3>7, <3>8, <4>1
      <4>2. CASE j # 1
        <5>1. j - 1 \in 1 .. d /\ k - (d - 1) + (j - 1) = k - d + j
          BY <1>1, <4>2
        <5>2. p[j - 1] = Below(st, k - d + j)
          BY <3>9, <5>1
        <5> QED
          BY <3>7, <3>8, <4>2, <5>2
      <4> QED
        BY <4>1, <4>2
    <3>11. Suffix(st, d) \in Seq(Nat) /\ Len(Suffix(st, d)) = d + 1
      BY <3>1, SuffixIs
    <3> HIDE DEF q
    <3>12. Suffix(st, d) = q
      BY <3>7, <3>10, <3>11, SeqEqual
    <3> QED
      BY <3>5, <3>12
  <2> QED
    BY <1>1, <2>3, <2>4
<1> QED
  BY <1>2, <1>3

LEMMA PathIs ==
  ASSUME NEW ob, NEW cur, NEW st, IsStack(ob, cur, st), NEW f, IsPath(f, ob, cur)
  PROVE  \A d \in 0 .. MaxScopes : f[d] = Suffix(st, d)
<1> DEFINE Bad == {d \in 0 .. MaxScopes : f[d] # Suffix(st, d)}
<1>1. MaxScopes \in Nat
  BY ConstantsAssumption
<1>2. ASSUME Bad # {} PROVE FALSE
  <2>1. Bad \in SUBSET Nat
    BY <1>1
  <2> HIDE DEF Bad
  <2>2. PICK d \in Bad : \A m \in Bad : d <= m
    BY <1>2, <2>1, LeastElement
  <2>3. d \in 0 .. MaxScopes /\ d \in Nat /\ f[d] # Suffix(st, d)
    BY <2>1, <2>2 DEF Bad
  <2>4. f[d] = IF d = 0 THEN <<cur>> ELSE NextOfPath(ob, f[d - 1])
    BY <2>3 DEF IsPath
  <2>5. CASE d = 0
    BY <2>3, <2>4, <2>5, SuffixStep
  <2>6. CASE d # 0
    <3>1. d - 1 \in 0 .. MaxScopes /\ ~(d <= d - 1) /\ d > 0
      BY <1>1, <2>3, <2>6
    <3>2. d - 1 \notin Bad
      BY <2>2, <3>1
    <3>3. f[d - 1] = Suffix(st, d - 1)
      BY <3>1, <3>2 DEF Bad
    <3> QED
      BY <2>3, <2>4, <2>6, <3>1, <3>3, SuffixStep
  <2> QED
    BY <2>5, <2>6
<1> QED
  BY <1>2

LEMMA StackIs ==
  ASSUME NEW ob, NEW cur, NEW st, IsStack(ob, cur, st)
  PROVE  StackFrom(ob, cur) = st
<1> DEFINE f == [d \in 0 .. MaxScopes |-> Suffix(st, d)]
           g == CHOOSE h : IsPath(h, ob, cur)
           k == Len(st)
<1>1. MaxScopes \in Nat
  BY ConstantsAssumption
<1>2. IsPath(f, ob, cur)
  <2>1. ASSUME NEW d \in 0 .. MaxScopes
        PROVE  Suffix(st, d) = IF d = 0 THEN <<cur>> ELSE NextOfPath(ob, f[d - 1])
    <3>1. CASE d = 0
      BY <3>1, SuffixStep
    <3>2. CASE d # 0
      <4>1. d \in Nat /\ d > 0 /\ d - 1 \in 0 .. MaxScopes
        BY <1>1, <3>2
      <4> QED
        BY <3>2, <4>1, SuffixStep
    <3> QED
      BY <3>1, <3>2
  <2> QED
    BY <2>1 DEF IsPath
<1>3. IsPath(g, ob, cur)
  <2> HIDE DEF f
  <2> QED
    BY <1>2
<1>4. g[MaxScopes] = Suffix(st, MaxScopes)
  <2> HIDE DEF g
  <2> QED
    BY <1>1, <1>3, PathIs
<1>5. StackFrom(ob, cur) = Tail(g[MaxScopes])
  BY DEF StackFrom, IsPath, NextOfPath
<1>6. Steps(st, MaxScopes) = k /\ k \in Nat /\ st \in Seq(Nat)
  <2>1. k \in Nat /\ k <= MaxScopes /\ st \in Seq(Nat)
    BY SeqMonotonic DEF IsStack
  <2> QED
    BY <1>1, <2>1 DEF Steps
<1> HIDE DEF f, g
<1>7. /\ Suffix(st, MaxScopes) \in Seq(Nat) /\ Suffix(st, MaxScopes) # << >>
      /\ Len(Suffix(st, MaxScopes)) = k + 1
  <2>1. PICK n : n = MaxScopes
    OBVIOUS
  <2>2. n \in Nat /\ Steps(st, n) = k
    BY <1>1, <1>6, <2>1
  <2>3. Suffix(st, n) \in Seq(Nat) /\ Len(Suffix(st, n)) = k + 1 /\ Suffix(st, n) # << >>
    BY <2>2, SuffixIs
  <2> QED
    BY <2>1, <2>3
<1>8. \A j \in 1 .. k + 1 : Suffix(st, MaxScopes)[j] = Below(st, j)
  BY <1>6 DEF Suffix
<1>9. Tail(Suffix(st, MaxScopes)) = st
  <2> DEFINE t == Tail(Suffix(st, MaxScopes))
  <2>1. t \in Seq(Nat) /\ Len(t) = k /\ \A j \in 1 .. k : t[j] = Suffix(st, MaxScopes)[j + 1]
    BY <1>6, <1>7, HeadTailProperties
  <2> HIDE DEF t
  <2>2. ASSUME NEW j \in 1 .. k PROVE t[j] = st[j]
    <3>1. j \in Nat /\ j + 1 \in 1 .. k + 1 /\ j + 1 # 1 /\ (j + 1) - 1 = j
      BY <1>6
    <3>2. t[j] = Below(st, j + 1)
      BY <1>8, <2>1, <3>1
    <3> QED
      BY <3>1, <3>2 DEF Below
  <2>3. t = st
    BY <1>6, <2>1, <2>2, SeqEqual
  <2> QED
    BY <2>3 DEF t
<1> QED
  BY <1>4, <1>5, <1>9

-----------------------------------------------------------------------------
(* The inductive invariant, of a sequence that is the stack.               *)

ScopeType ==
  [AnyParent : Nat, Depth : Nat, Flags : SUBSET Flags, FnParent : Nat,
   DeclsInScope : SUBSET Idents]

TypeInv ==
  /\ DOMAIN objects \subseteq Addresses
  /\ objects \in [DOMAIN objects -> ScopeType]
  /\ cache \in Seq(Nat)
  /\ entries \in [Idents -> Seq(Entries)]
  /\ closing \in BOOLEAN
  /\ again \in [Idents -> Nat]

AroundIn(st, i) == {j \in 1 .. i : "FnScope" \in objects[st[j]].Flags}
ScopesInv(st) ==
  \A i \in 1 .. Len(st) :
    /\ objects[st[i]].Depth = i - 1
    /\ objects[st[i]].FnParent =
         IF AroundIn(st, i) = {} THEN None ELSE st[Max(AroundIn(st, i))]

(* What RecycledScopesAreFresh says of the addresses; and no address is in *)
(* the cache twice, without which taking one out might leave it there.     *)
ObjectsInv(st) ==
  /\ Len(cache) <= ScopeCacheSize
  /\ DOMAIN objects = ToSet(st) \cup ToSet(cache)
  /\ ToSet(st) \cap ToSet(cache) = {}
  /\ Cardinality(DOMAIN objects) = Len(st) + Len(cache)
  /\ \A i, j \in 1 .. Len(cache) : cache[i] = cache[j] => i = j

(* What ActOnPopScope has still to pop, the current scope declares.        *)
ClosingInv ==
  /\ closing => CurScope # None /\ left \subseteq objects[CurScope].DeclsInScope
  /\ ~ closing => left = {}

HeldIn(st, i) == IF closing /\ i = Len(st) THEN left ELSE objects[st[i]].DeclsInScope
Holders(st, n) == {i \in 1 .. Len(st) : n \in HeldIn(st, i)}
EntriesInv(st) == \A n \in Idents : Len(entries[n]) = Cardinality(Holders(st, n)) + again[n]

InvFor(st) ==
  /\ TypeInv /\ IsStack(objects, CurScope, st) /\ ScopesInv(st) /\ ObjectsInv(st)
  /\ ClosingInv /\ EntriesInv(st)

IInv == InvFor(Stack)

(* No scope is left while the import declarations may still go on.         *)
EndsInv == CurScope = None \/ closing => ~ importing

(* What there is after a parser that returned at once.                     *)
Gone ==
  /\ TypeInv /\ DOMAIN objects = {} /\ CurScope = None /\ cache = << >>
  /\ importing /\ ~ closing
  /\ \A n \in Idents : /\ Len(entries[n]) = IF n \in Builtins THEN 1 ELSE 0
                       /\ again[n] = 0

(* A sequence that satisfies the invariant is the stack.                   *)
LEMMA InvForStack ==
  ASSUME NEW st, InvFor(st)
  PROVE  Stack = st /\ IInv
<1>1. StackFrom(objects, CurScope) = st
  BY StackIs DEF InvFor
<1>2. Stack = st
  BY <1>1, StackIsFrom
<1> QED
  BY <1>2 DEF IInv

LEMMA InvForNextStack ==
  ASSUME NEW st, InvFor(st)'
  PROVE  Stack' = st /\ IInv'
<1>1. (Stack = st)' /\ IInv'
  BY InvForStack, PTL
<1> QED
  BY <1>1

(* Facts about the stack.                                                  *)
LEMMA StackFacts ==
  ASSUME NEW st, InvFor(st)
  PROVE  /\ st \in Seq(Nat) /\ Len(st) \in Nat /\ Len(st) <= MaxScopes
         /\ \A i \in 1 .. Len(st) : /\ st[i] \in Nat \ {None} /\ st[i] \in DOMAIN objects
                                    /\ st[i] \in ToSet(st)
         /\ \A i, j \in 1 .. Len(st) : st[i] = st[j] => i = j
         /\ CurScope # None => Len(st) > 0 /\ CurScope = st[Len(st)]
         /\ CurScope = None => Len(st) = 0
         /\ \A n \in Idents : /\ IsFiniteSet(Holders(st, n))
                              /\ Cardinality(Holders(st, n)) \in Nat
<1>1. /\ st \in Seq(Nat \ {None}) /\ Len(st) \in Nat /\ Len(st) <= MaxScopes
      /\ \A i \in 1 .. Len(st) : st[i] \in Nat \ {None} /\ st[i] \in DOMAIN objects
      /\ CurScope = IF Len(st) = 0 THEN None ELSE st[Len(st)]
  BY DEF InvFor, IsStack
<1>2. st \in Seq(Nat)
  BY <1>1
<1>3. \A i \in 1 .. Len(st) : st[i] \in ToSet(st)
  BY <1>1 DEF ToSet
<1>4. \A i, j \in 1 .. Len(st) : st[i] = st[j] => i = j
  BY <1>1 DEF InvFor, ScopesInv
<1>5. ASSUME NEW n \in Idents
      PROVE  IsFiniteSet(Holders(st, n)) /\ Cardinality(Holders(st, n)) \in Nat
  <2>1. IsFiniteSet(1 .. Len(st))
    BY <1>1, FS_Interval
  <2>2. Holders(st, n) \in SUBSET (1 .. Len(st))
    BY DEF Holders
  <2>3. IsFiniteSet(Holders(st, n))
    BY <2>1, <2>2, FS_Subset
  <2> QED
    BY <2>3, FS_CardinalityType
<1>6. /\ CurScope # None => Len(st) > 0 /\ CurScope = st[Len(st)]
      /\ CurScope = None => Len(st) = 0
  BY <1>1
<1> QED
  BY <1>1, <1>2, <1>3, <1>4, <1>5, <1>6

(* The invariant contains the properties.                                  *)
LEMMA InvImplies == IInv /\ EndsInv => RecycledScopesAreFresh /\ EntriesAccounted
<1> SUFFICES ASSUME IInv, EndsInv PROVE RecycledScopesAreFresh /\ EntriesAccounted
  OBVIOUS
<1>1. RecycledScopesAreFresh
  BY DEF IInv, InvFor, ScopesInv, ObjectsInv, AroundIn, RecycledScopesAreFresh, Around, Top
<1>2. EntriesAccounted
  <2> SUFFICES ASSUME NEW n \in Idents
               PROVE  Len(entries[n]) = Cardinality({i \in 1 .. Top : n \in Held(i)}) + again[n]
                                        + LeftBehind(n)
    BY DEF EntriesAccounted
  <2>1. PICK c : c = Cardinality(Holders(Stack, n))
    OBVIOUS
  <2>2. c \in Nat /\ again[n] \in Nat /\ Len(entries[n]) = c + again[n]
    BY <2>1, StackFacts DEF IInv, InvFor, EntriesInv, TypeInv
  <2>3. Cardinality({i \in 1 .. Top : n \in Held(i)}) = c
    BY <2>1 DEF Holders, HeldIn, Held, Top
  <2>4. LeftBehind(n) = 0
    BY DEF EndsInv, Abandoned, LeftBehind
  <2> QED
    BY <2>2, <2>3, <2>4
<1> QED
  BY <1>1, <1>2

LEMMA GoneStack == Gone => Stack = << >> /\ Top = 0
<1> SUFFICES ASSUME Gone PROVE Stack = << >> /\ Top = 0
  OBVIOUS
<1>1. PICK st : st = << >>
  OBVIOUS
<1>2. IsStack(objects, CurScope, st)
  <2>1. st \in Seq(Nat \ {None}) /\ Len(st) = 0
    BY <1>1
  <2> QED
    BY <2>1, ConstantsAssumption DEF Gone, IsStack
<1> QED
  BY <1>1, <1>2, StackIs, StackIsFrom DEF Top

LEMMA GoneImplies == Gone => RecycledScopesAreFresh /\ EntriesAccounted
<1> SUFFICES ASSUME Gone PROVE RecycledScopesAreFresh /\ EntriesAccounted
  OBVIOUS
<1>1. Stack = << >> /\ Top = 0 /\ 1 .. Top = {} /\ Len(cache) = 0
  BY GoneStack DEF Gone
<1>2. RecycledScopesAreFresh
  <2>1. ToSet(Stack) = {} /\ ToSet(cache) = {}
    BY <1>1 DEF ToSet, Gone
  <2>2. Cardinality(DOMAIN objects) = Top + Len(cache)
    BY <1>1, FS_EmptySet DEF Gone
  <2> QED
    BY <1>1, <2>1, <2>2, ConstantsAssumption DEF RecycledScopesAreFresh, Gone
<1>3. EntriesAccounted
  <2> SUFFICES ASSUME NEW n \in Idents
               PROVE  Len(entries[n]) = Cardinality({i \in 1 .. Top : n \in Held(i)}) + again[n]
                                        + LeftBehind(n)
    BY DEF EntriesAccounted
  <2>1. {i \in 1 .. Top : n \in Held(i)} = {}
    BY <1>1
  <2>2. Cardinality({i \in 1 .. Top : n \in Held(i)}) = 0
    BY <2>1, FS_EmptySet
  <2>3. LeftBehind(n) = IF n \in Builtins THEN 1 ELSE 0
    BY DEF Gone, Abandoned, LeftBehind
  <2> QED
    BY <2>2, <2>3 DEF Gone
<1> QED
  BY <1>2, <1>3

-----------------------------------------------------------------------------
(* Declarations: in any open scope.                                        *)

LEMMA DeclareStep ==
  ASSUME NEW st, InvFor(st), NEW n \in Idents, NEW kind \in Kinds, NEW p \in 1 .. Len(st),
         ~ closing, Declare(n, kind, st[p]), UNCHANGED <<CurScope, cache, closing, left>>
  PROVE  InvFor(st)'
<1> DEFINE s == st[p]
           again1 == n \in objects[s].DeclsInScope
<1>1. /\ TypeInv /\ ~ closing /\ s \in DOMAIN objects /\ Len(st) \in Nat
      /\ \A i \in 1 .. Len(st) : st[i] \in DOMAIN objects
      /\ \A i, j \in 1 .. Len(st) : st[i] = st[j] => i = j
  BY StackFacts DEF InvFor
<1>2. PICK e \in Entries : entries' = [entries EXCEPT ![n] = Append(@, e)]
  BY DEF Declare, FreeIds, Entries
<1>3. /\ objects' = [objects EXCEPT ![s].DeclsInScope = @ \cup {n}]
      /\ again' = [again EXCEPT ![n] = IF again1 THEN @ + 1 ELSE @]
  BY DEF Declare
<1>4. DOMAIN objects' = DOMAIN objects
  BY <1>3
<1>5. \A a \in DOMAIN objects :
        /\ objects'[a].AnyParent = objects[a].AnyParent
        /\ objects'[a].Depth = objects[a].Depth
        /\ objects'[a].Flags = objects[a].Flags
        /\ objects'[a].FnParent = objects[a].FnParent
        /\ objects'[a].DeclsInScope = IF a = s THEN objects[a].DeclsInScope \cup {n}
                                      ELSE objects[a].DeclsInScope
        /\ objects'[a] \in ScopeType
  <2> SUFFICES ASSUME NEW a \in DOMAIN objects
               PROVE  /\ objects'[a].AnyParent = objects[a].AnyParent
                      /\ objects'[a].Depth = objects[a].Depth
                      /\ objects'[a].Flags = objects[a].Flags
                      /\ objects'[a].FnParent = objects[a].FnParent
                      /\ objects'[a].DeclsInScope = IF a = s THEN objects[a].DeclsInScope \cup {n}
                                                    ELSE objects[a].DeclsInScope
                      /\ objects'[a] \in ScopeType
    OBVIOUS
  <2>1. objects[a] \in ScopeType
    BY <1>1 DEF TypeInv
  <2>2. CASE a = s
    <3>1. objects'[a] = [objects[a] EXCEPT !.DeclsInScope = @ \cup {n}]
      BY <1>3, <2>2
    <3> QED
      BY <2>1, <2>2, <3>1 DEF ScopeType
  <2>3. CASE a # s
    <3>1. objects'[a] = objects[a]
      BY <1>3, <2>3
    <3> QED
      BY <2>1, <2>3, <3>1
  <2> QED
    BY <2>2, <2>3
<1>6. TypeInv'
  <2>1. objects' \in [DOMAIN objects' -> ScopeType]
    BY <1>3, <1>4, <1>5
  <2>2. entries' \in [Idents -> Seq(Entries)]
    BY <1>1, <1>2 DEF TypeInv
  <2>3. again' \in [Idents -> Nat]
    BY <1>1, <1>3 DEF TypeInv
  <2> QED
    BY <1>1, <1>4, <2>1, <2>2, <2>3 DEF TypeInv
<1>7. IsStack(objects, CurScope, st)'
  BY <1>1, <1>4, <1>5 DEF InvFor, IsStack
<1>8. ScopesInv(st)'
  <2>1. ASSUME NEW i \in 1 .. Len(st)
        PROVE  /\ objects'[st[i]].Depth = i - 1
               /\ objects'[st[i]].FnParent =
                    IF AroundIn(st, i)' = {} THEN None ELSE st[Max(AroundIn(st, i)')]
    <3>1. ASSUME NEW j \in 1 .. i PROVE objects'[st[j]].Flags = objects[st[j]].Flags
      <4>1. j \in 1 .. Len(st)
        BY <1>1
      <4>2. st[j] \in DOMAIN objects
        BY <1>1, <4>1
      <4> QED
        BY <1>5, <4>2
    <3>2. AroundIn(st, i)' = AroundIn(st, i)
      BY <3>1 DEF AroundIn
    <3> QED
      BY <1>1, <1>5, <3>2 DEF InvFor, ScopesInv
  <2> QED
    BY <2>1 DEF ScopesInv
<1>9. ObjectsInv(st)'
  BY <1>4 DEF InvFor, ObjectsInv
<1>10. ClosingInv'
  BY <1>1 DEF InvFor, ClosingInv
<1>11. EntriesInv(st)'
  <2>1. \A i \in 1 .. Len(st) : /\ HeldIn(st, i) = objects[st[i]].DeclsInScope
                                /\ HeldIn(st, i)' = objects'[st[i]].DeclsInScope
    BY <1>1 DEF HeldIn
  <2>2. ASSUME NEW m \in Idents, m # n
        PROVE  Len(entries'[m]) = Cardinality(Holders(st, m)') + again'[m]
    <3>1. ASSUME NEW i \in 1 .. Len(st)
          PROVE  m \in objects'[st[i]].DeclsInScope <=> m \in objects[st[i]].DeclsInScope
      <4>1. PICK a \in DOMAIN objects : a = st[i]
        BY <1>1
      <4>2. objects'[a].DeclsInScope = IF a = s THEN objects[a].DeclsInScope \cup {n}
                                       ELSE objects[a].DeclsInScope
        BY <1>5
      <4> QED
        BY <2>2, <4>1, <4>2
    <3>2. Holders(st, m)' = Holders(st, m)
      BY <2>1, <3>1 DEF Holders
    <3>3. entries'[m] = entries[m] /\ again'[m] = again[m]
      BY <1>1, <1>2, <1>3, <2>2 DEF TypeInv
    <3> QED
      BY <3>2, <3>3 DEF InvFor, EntriesInv
  <2>3. Len(entries'[n]) = Len(entries[n]) + 1
    <3>1. entries[n] \in Seq(Entries) /\ entries'[n] = Append(entries[n], e)
      BY <1>1, <1>2 DEF TypeInv
    <3> QED
      BY <3>1, AppendProperties
  <2>4. Len(entries[n]) = Cardinality(Holders(st, n)) + again[n]
    BY DEF InvFor, EntriesInv
  <2>5. /\ Cardinality(Holders(st, n)) \in Nat /\ IsFiniteSet(Holders(st, n))
        /\ again[n] \in Nat
    BY <1>1, StackFacts DEF TypeInv
  <2>6. Holders(st, n)' = Holders(st, n) \cup {p}
    <3>1. \A i \in 1 .. Len(st) : n \in objects'[st[i]].DeclsInScope
                                   <=> n \in objects[st[i]].DeclsInScope \/ i = p
      BY <1>1, <1>5
    <3> QED
      BY <2>1, <3>1 DEF Holders
  <2>7. p \in Holders(st, n) <=> again1
    BY <2>1 DEF Holders
  <2>8. /\ again'[n] = IF again1 THEN again[n] + 1 ELSE again[n]
        /\ Cardinality(Holders(st, n)') =
             IF again1 THEN Cardinality(Holders(st, n)) ELSE Cardinality(Holders(st, n)) + 1
    BY <1>1, <1>3, <2>5, <2>6, <2>7, FS_AddElement DEF TypeInv
  <2>9. Len(entries'[n]) = Cardinality(Holders(st, n)') + again'[n]
    BY <2>3, <2>4, <2>5, <2>8
  <2> QED
    BY <2>2, <2>9 DEF EntriesInv
<1> QED
  BY <1>6, <1>7, <1>8, <1>9, <1>10, <1>11 DEF InvFor

-----------------------------------------------------------------------------
(* Scopes that are opened and left: one more on the stack, one less.       *)

LEMMA AppendSet ==
  ASSUME NEW S, NEW t \in Seq(S), NEW x \in S
  PROVE  ToSet(Append(t, x)) = ToSet(t) \cup {x}
<1>1. /\ Append(t, x) \in Seq(S) /\ Len(Append(t, x)) = Len(t) + 1 /\ Len(t) \in Nat
      /\ \A i \in 1 .. Len(t) : Append(t, x)[i] = t[i]
      /\ Append(t, x)[Len(t) + 1] = x
  BY AppendProperties, LenProperties
<1>2. DOMAIN t = 1 .. Len(t) /\ DOMAIN Append(t, x) = 1 .. Len(t) + 1
  BY <1>1, LenProperties
<1>3. \A i \in 1 .. Len(t) + 1 : i = Len(t) + 1 \/ i \in 1 .. Len(t)
  BY <1>1
<1> QED
  BY <1>1, <1>2, <1>3 DEF ToSet

LEMMA FrontSet ==
  ASSUME NEW S, NEW t \in Seq(S), t # << >>,
         \A i, j \in 1 .. Len(t) : t[i] = t[j] => i = j
  PROVE  /\ ToSet(Front(t)) = ToSet(t) \ {t[Len(t)]} /\ t[Len(t)] \in ToSet(t)
         /\ \A i, j \in 1 .. Len(Front(t)) : Front(t)[i] = Front(t)[j] => i = j
<1>1. /\ Front(t) \in Seq(S) /\ Len(Front(t)) = Len(t) - 1 /\ Len(t) \in Nat \ {0}
      /\ \A i \in 1 .. Len(t) - 1 : Front(t)[i] = t[i]
  BY FrontIs, EmptySeq, LenProperties
<1>2. DOMAIN t = 1 .. Len(t) /\ DOMAIN Front(t) = 1 .. Len(t) - 1
  BY <1>1, LenProperties
<1>3. \A i \in 1 .. Len(t) : i = Len(t) \/ i \in 1 .. Len(t) - 1
  BY <1>1
<1>4. ToSet(Front(t)) = {t[i] : i \in 1 .. Len(t) - 1}
  BY <1>1, <1>2 DEF ToSet
<1>5. ToSet(t) = {t[i] : i \in 1 .. Len(t)}
  BY <1>2 DEF ToSet
<1>6. Len(t) \in 1 .. Len(t) /\ \A i \in 1 .. Len(t) - 1 : i \in 1 .. Len(t) /\ i # Len(t)
  BY <1>1
<1>7. ToSet(Front(t)) = ToSet(t) \ {t[Len(t)]}
  BY <1>3, <1>4, <1>5, <1>6
<1>8. t[Len(t)] \in ToSet(t)
  BY <1>5, <1>6
<1>9. \A i, j \in 1 .. Len(Front(t)) : Front(t)[i] = Front(t)[j] => i = j
  BY <1>1, <1>6
<1> QED
  BY <1>7, <1>8, <1>9

(* The object a scope is put in is no open scope's; it is taken from the   *)
(* cache, or is a new one.                                                 *)
LEMMA AddressFacts ==
  ASSUME NEW st, InvFor(st), NEW flags, EnterScope(flags), Len(st) < MaxScopes
  PROVE  /\ CurScope' \in Addresses /\ CurScope' \notin ToSet(st)
         /\ cache' \in Seq(Nat) /\ Len(cache') <= ScopeCacheSize
         /\ \A i, j \in 1 .. Len(cache') : cache'[i] = cache'[j] => i = j
         /\ ToSet(cache') = ToSet(cache) \ {CurScope'}
         /\ Cardinality(DOMAIN objects \cup {CurScope'}) = Len(st) + 1 + Len(cache')
<1>1. /\ TypeInv /\ ObjectsInv(st) /\ Len(st) \in Nat /\ cache \in Seq(Nat) /\ Len(cache) \in Nat
      /\ DOMAIN objects \subseteq Addresses
      /\ MaxScopes \in Nat /\ ScopeCacheSize \in Nat
  BY StackFacts, ConstantsAssumption, LenProperties DEF InvFor, TypeInv
<1>2. /\ IsFiniteSet(Addresses) /\ Cardinality(Addresses) = MaxScopes + ScopeCacheSize
      /\ IsFiniteSet(DOMAIN objects)
  <2>1. MaxScopes + ScopeCacheSize \in Nat /\ MaxScopes + ScopeCacheSize > 0
    BY <1>1, ConstantsAssumption
  <2>2. IsFiniteSet(Addresses) /\ Cardinality(Addresses) = MaxScopes + ScopeCacheSize
    BY <2>1, FS_Interval DEF Addresses
  <2> QED
    BY <1>1, <2>2, FS_Subset
<1>3. CASE cache # << >>
  <2>1. /\ CurScope' = cache[Len(cache)] /\ cache' = Front(cache)
    BY <1>3 DEF EnterScope, Last
  <2>2. /\ Front(cache) \in Seq(Nat) /\ Len(Front(cache)) = Len(cache) - 1
        /\ ToSet(Front(cache)) = ToSet(cache) \ {cache[Len(cache)]}
        /\ cache[Len(cache)] \in ToSet(cache)
        /\ \A i, j \in 1 .. Len(Front(cache)) : Front(cache)[i] = Front(cache)[j] => i = j
    BY <1>1, <1>3, FrontIs, FrontSet DEF ObjectsInv
  <2>3. CurScope' \in DOMAIN objects /\ CurScope' \notin ToSet(st)
    BY <1>1, <2>1, <2>2 DEF ObjectsInv
  <2>4. DOMAIN objects \cup {CurScope'} = DOMAIN objects
    BY <2>3
  <2>5. Cardinality(DOMAIN objects) = Len(st) + 1 + (Len(cache) - 1)
    BY <1>1 DEF ObjectsInv
  <2>6. Len(cache) - 1 <= ScopeCacheSize
    BY <1>1 DEF ObjectsInv
  <2> QED
    BY <1>1, <2>1, <2>2, <2>3, <2>4, <2>5, <2>6
<1>4. CASE cache = << >>
  <2> DEFINE F == Addresses \ DOMAIN objects
  <2>1. CurScope' = Min(F) /\ cache' = cache
    BY <1>4 DEF EnterScope
  <2>2. Cardinality(DOMAIN objects) = Len(st) /\ Len(cache) = 0 /\ ToSet(cache) = {}
    BY <1>1, <1>4 DEF ObjectsInv, ToSet
  <2>3. F # {}
    <3>1. ASSUME F = {} PROVE FALSE
      <4>1. DOMAIN objects = Addresses
        BY <1>1, <3>1
      <4>2. Len(st) = MaxScopes + ScopeCacheSize
        BY <1>2, <2>2, <4>1
      <4> QED
        BY <1>1, <4>2
    <3> QED
      BY <3>1
  <2>4. F \in SUBSET Nat
    BY <1>1 DEF Addresses
  <2> HIDE DEF F
  <2>5. CurScope' \in F
    BY <2>1, <2>3, <2>4, MinIsLeast
  <2>6. CurScope' \in Addresses /\ CurScope' \notin DOMAIN objects
    BY <2>5 DEF F
  <2>7. CurScope' \notin ToSet(st)
    BY <1>1, <2>6 DEF ObjectsInv
  <2>8. Cardinality(DOMAIN objects \cup {CurScope'}) = Len(st) + 1
    <3>1. PICK a : a = CurScope'
      OBVIOUS
    <3>2. Cardinality(DOMAIN objects \cup {a}) = Cardinality(DOMAIN objects) + 1
      BY <1>2, <2>6, <3>1, FS_AddElement
    <3> QED
      BY <2>2, <3>1, <3>2
  <2>9. \A i, j \in 1 .. Len(cache') : cache'[i] = cache'[j] => i = j
    BY <1>1, <2>1 DEF ObjectsInv
  <2>10. ToSet(cache') = ToSet(cache) \ {CurScope'}
    BY <2>1, <2>2
  <2> QED
    BY <1>1, <2>1, <2>2, <2>6, <2>7, <2>8, <2>9, <2>10
<1> QED
  BY <1>3, <1>4

LEMMA OpenStep ==
  ASSUME NEW st, InvFor(st), NEW flags \in SUBSET Flags, Open(flags)
  PROVE  \E a : a = CurScope' /\ InvFor(Append(st, a))'
<1> DEFINE k == Len(st)
<1>1. /\ CurScope # None /\ ~ closing /\ EnterScope(flags) /\ ~ closing'
      /\ UNCHANGED <<entries, closing, left, valid, again>>
  BY DEF Open
<1>2. /\ TypeInv /\ st \in Seq(Nat) /\ k \in Nat /\ k > 0 /\ CurScope = st[k]
      /\ \A i \in 1 .. k : st[i] \in Nat \ {None} /\ st[i] \in DOMAIN objects /\ st[i] \in ToSet(st)
      /\ MaxScopes \in Nat
  BY <1>1, StackFacts, ConstantsAssumption DEF InvFor
<1>3. CurScope \in DOMAIN objects /\ objects[CurScope] \in ScopeType
  <2>1. k \in 1 .. k
    BY <1>2
  <2>2. CurScope \in DOMAIN objects
    BY <1>2, <2>1
  <2> QED
    BY <1>2, <2>2 DEF TypeInv
<1>4. objects[CurScope].Depth = k - 1
  BY <1>2 DEF InvFor, ScopesInv
<1>5. k < MaxScopes
  <2>1. objects[CurScope].Depth + 1 < MaxScopes
    BY <1>1 DEF EnterScope
  <2> QED
    BY <1>2, <1>4, <2>1
<1>6. PICK addr : addr = CurScope'
  OBVIOUS
<1>7. /\ addr \in Addresses /\ addr \notin ToSet(st)
      /\ cache' \in Seq(Nat) /\ Len(cache') <= ScopeCacheSize
      /\ \A i, j \in 1 .. Len(cache') : cache'[i] = cache'[j] => i = j
      /\ ToSet(cache') = ToSet(cache) \ {addr}
      /\ Cardinality(DOMAIN objects \cup {addr}) = k + 1 + Len(cache')
  BY <1>1, <1>5, <1>6, AddressFacts
<1>8. addr \in Nat \ {None}
  BY <1>7 DEF Addresses, None
<1> DEFINE st2 == Append(st, addr)
<1>9. /\ st2 \in Seq(Nat \ {None}) /\ Len(st2) = k + 1
      /\ \A i \in 1 .. k : st2[i] = st[i]
      /\ st2[k + 1] = addr
      /\ ToSet(st2) = ToSet(st) \cup {addr}
  <2>1. st \in Seq(Nat \ {None})
    BY DEF InvFor, IsStack
  <2> QED
    BY <1>8, <2>1, AppendProperties, AppendSet
<1> HIDE DEF st2
<1> DEFINE new == [AnyParent    |-> CurScope,
                   Depth        |-> objects[CurScope].Depth + 1,
                   Flags        |-> flags,
                   FnParent     |-> IF "FnScope" \in flags THEN addr
                                    ELSE objects[CurScope].FnParent,
                   DeclsInScope |-> {}]
<1>10. /\ DOMAIN objects' = DOMAIN objects \cup {addr}
       /\ objects'[addr] = new
       /\ \A a \in DOMAIN objects \ {addr} : objects'[a] = objects[a]
       /\ objects' = [a \in DOMAIN objects' |-> objects'[a]]
  <2>1. objects' = [a \in DOMAIN objects \cup {addr} |->
                      IF a = addr THEN ScopeInit(a, flags) ELSE objects[a]]
    BY <1>1, <1>6 DEF EnterScope
  <2>2. ScopeInit(addr, flags) = new
    BY <1>1 DEF ScopeInit
  <2> HIDE DEF new
  <2> QED
    BY <2>1, <2>2
<1>11. new \in ScopeType
  <2>1. objects[CurScope].Depth + 1 \in Nat /\ objects[CurScope].FnParent \in Nat
    BY <1>3 DEF ScopeType
  <2>2. CurScope \in Nat /\ addr \in Nat
    BY <1>2, <1>8
  <2> QED
    BY <2>1, <2>2 DEF ScopeType
<1>12. \A i \in 1 .. k : st[i] # addr /\ st[i] \in DOMAIN objects' /\ objects'[st[i]] = objects[st[i]]
  BY <1>2, <1>7, <1>10
<1>13. new.AnyParent = CurScope /\ new.Depth = k /\ new.Flags = flags /\ new.DeclsInScope = {}
  BY <1>2, <1>4
<1>14. new.FnParent = IF "FnScope" \in flags THEN addr ELSE objects[st[k]].FnParent
  BY <1>2
<1> HIDE DEF new
<1>15. TypeInv'
  <2>1. \A a \in DOMAIN objects' : objects'[a] \in ScopeType
    BY <1>2, <1>10, <1>11 DEF TypeInv
  <2>2. objects' \in [DOMAIN objects' -> ScopeType]
    BY <1>10, <2>1
  <2>3. DOMAIN objects' \subseteq Addresses
    BY <1>2, <1>7, <1>10 DEF TypeInv
  <2> QED
    BY <1>1, <1>2, <1>7, <2>2, <2>3 DEF TypeInv
<1>16. IsStack(objects, CurScope, st2)'
  <2>1. ASSUME NEW i \in 1 .. k + 1
        PROVE  /\ st2[i] \in DOMAIN objects'
               /\ objects'[st2[i]].AnyParent = IF i = 1 THEN None ELSE st2[i - 1]
    <3>1. CASE i = k + 1
      <4>1. st2[i] = addr /\ objects'[addr].AnyParent = st[k] /\ i - 1 = k /\ i # 1
        BY <1>2, <1>9, <1>10, <1>13, <3>1
      <4>2. st2[k] = st[k]
        BY <1>2, <1>9
      <4> QED
        BY <1>10, <4>1, <4>2
    <3>2. CASE i # k + 1
      <4>1. i \in 1 .. k /\ (i # 1 => i - 1 \in 1 .. k)
        BY <1>2, <3>2
      <4>2. st2[i] = st[i] /\ (i # 1 => st2[i - 1] = st[i - 1])
        BY <1>9, <4>1
      <4>3. objects[st[i]].AnyParent = IF i = 1 THEN None ELSE st[i - 1]
        BY <4>1 DEF InvFor, IsStack
      <4> QED
        BY <1>12, <4>1, <4>2, <4>3
    <3> QED
      BY <3>1, <3>2
  <2>2. CurScope' = st2[Len(st2)] /\ Len(st2) # 0 /\ Len(st2) <= MaxScopes
    BY <1>2, <1>5, <1>6, <1>9
  <2> QED
    BY <1>9, <2>1, <2>2 DEF IsStack
<1>17. ScopesInv(st2)'
  <2>1. ASSUME NEW i \in 1 .. k PROVE AroundIn(st2, i)' = AroundIn(st, i)
    <3>1. ASSUME NEW j \in 1 .. i PROVE objects'[st2[j]].Flags = objects[st[j]].Flags
      <4>1. j \in 1 .. k
        BY <1>2
      <4> QED
        BY <1>9, <1>12, <4>1
    <3> QED
      BY <3>1 DEF AroundIn
  <2>2. ASSUME NEW i \in 1 .. k
        PROVE  /\ objects'[st2[i]].Depth = i - 1
               /\ objects'[st2[i]].FnParent =
                    IF AroundIn(st2, i)' = {} THEN None ELSE st2[Max(AroundIn(st2, i)')]
    <3>1. /\ objects[st[i]].Depth = i - 1
          /\ objects[st[i]].FnParent =
               IF AroundIn(st, i) = {} THEN None ELSE st[Max(AroundIn(st, i))]
      BY DEF InvFor, ScopesInv
    <3>2. objects'[st2[i]] = objects[st[i]]
      BY <1>9, <1>12
    <3>3. ASSUME AroundIn(st, i) # {}
          PROVE  st2[Max(AroundIn(st, i))] = st[Max(AroundIn(st, i))]
      <4>1. AroundIn(st, i) \in SUBSET (1 .. k) /\ i \in Nat
        BY <1>2 DEF AroundIn
      <4>2. Max(AroundIn(st, i)) \in 1 .. k
        BY <1>2, <3>3, <4>1, MaxIsGreatest
      <4> QED
        BY <1>9, <4>2
    <3> QED
      BY <2>1, <3>1, <3>2, <3>3
  <2> DEFINE A == AroundIn(st2, k + 1)'
  <2>3. A = IF "FnScope" \in flags THEN AroundIn(st, k) \cup {k + 1} ELSE AroundIn(st, k)
    <3>1. AroundIn(st2, k)' = AroundIn(st, k)
      BY <1>2, <2>1
    <3>2. objects'[st2[k + 1]].Flags = flags
      BY <1>9, <1>10, <1>13
    <3>3. A = {j \in 1 .. k + 1 : "FnScope" \in objects'[st2[j]].Flags}
      BY DEF AroundIn
    <3>4. AroundIn(st2, k)' = {j \in 1 .. k : "FnScope" \in objects'[st2[j]].Flags}
      BY DEF AroundIn
    <3>5. \A j \in 1 .. k + 1 : j \in 1 .. k \/ j = k + 1
      BY <1>2
    <3>6. k + 1 \in 1 .. k + 1 /\ k + 1 \notin 1 .. k /\ \A j \in 1 .. k : j \in 1 .. k + 1
      BY <1>2
    <3> QED
      BY <3>1, <3>2, <3>3, <3>4, <3>5, <3>6
  <2>4. new.FnParent = IF A = {} THEN None ELSE st2[Max(A)]
    <3>1. CASE "FnScope" \in flags
      <4>1. A \in SUBSET (1 .. k + 1) /\ k + 1 \in A /\ k + 1 \in Nat
        BY <1>2, <2>3, <3>1 DEF AroundIn
      <4> HIDE DEF A
      <4>2. \A y \in A : k + 1 >= y
        BY <1>2, <4>1
      <4>3. Max(A) = k + 1
        BY <4>1, <4>2, MaxIsGreatest
      <4> QED
        BY <1>9, <1>14, <3>1, <4>1, <4>3
    <3>2. CASE "FnScope" \notin flags
      <4>1. A = AroundIn(st2, k)'
        BY <1>2, <2>1, <2>3, <3>2
      <4>2. objects'[st2[k]].FnParent = IF A = {} THEN None ELSE st2[Max(A)]
        BY <1>2, <2>2, <4>1
      <4>3. objects'[st2[k]] = objects[st[k]]
        BY <1>2, <1>9, <1>12
      <4> QED
        BY <1>14, <3>2, <4>2, <4>3
    <3> QED
      BY <3>1, <3>2
  <2>5. ASSUME NEW i \in 1 .. k + 1
        PROVE  /\ objects'[st2[i]].Depth = i - 1
               /\ objects'[st2[i]].FnParent =
                    IF AroundIn(st2, i)' = {} THEN None ELSE st2[Max(AroundIn(st2, i)')]
    <3>1. CASE i = k + 1
      <4>1. objects'[st2[i]] = new /\ i - 1 = k
        BY <1>2, <1>9, <1>10, <3>1
      <4> QED
        BY <1>13, <2>4, <3>1, <4>1
    <3>2. CASE i # k + 1
      <4>1. i \in 1 .. k
        BY <1>2, <3>2
      <4> QED
        BY <2>2, <4>1
    <3> QED
      BY <3>1, <3>2
  <2> QED
    BY <1>9, <2>5 DEF ScopesInv
<1>18. ObjectsInv(st2)'
  <2>1. DOMAIN objects = ToSet(st) \cup ToSet(cache) /\ ToSet(st) \cap ToSet(cache) = {}
    BY DEF InvFor, ObjectsInv
  <2>2. DOMAIN objects' = ToSet(st2) \cup ToSet(cache') /\ ToSet(st2) \cap ToSet(cache') = {}
    BY <1>7, <1>9, <1>10, <2>1
  <2> QED
    BY <1>7, <1>9, <1>10, <2>2 DEF ObjectsInv
<1>19. ClosingInv'
  BY <1>1 DEF InvFor, ClosingInv
<1>20. EntriesInv(st2)'
  <2>1. ASSUME NEW n \in Idents PROVE Holders(st2, n)' = Holders(st, n)
    <3>1. ASSUME NEW i \in 1 .. k
          PROVE  n \in HeldIn(st2, i)' <=> n \in HeldIn(st, i)
      BY <1>1, <1>9, <1>12 DEF HeldIn
    <3>2. n \notin HeldIn(st2, k + 1)'
      BY <1>1, <1>9, <1>10, <1>13 DEF HeldIn
    <3>3. \A i \in 1 .. k + 1 : i \in 1 .. k \/ i = k + 1
      BY <1>2
    <3>4. \A i \in 1 .. k : i \in 1 .. k + 1
      BY <1>2
    <3> QED
      BY <1>9, <3>1, <3>2, <3>3, <3>4 DEF Holders
  <2> QED
    BY <1>1, <2>1 DEF InvFor, EntriesInv
<1>21. InvFor(st2)'
  BY <1>15, <1>16, <1>17, <1>18, <1>19, <1>20 DEF InvFor
<1> QED
  BY <1>6, <1>21 DEF st2

LEMMA ExitStep ==
  ASSUME NEW st, InvFor(st), ExitScope
  PROVE  InvFor(st)'
<1>1. /\ CurScope # None /\ ~ closing /\ closing'
      /\ left' = objects[CurScope].DeclsInScope
      /\ UNCHANGED <<objects, CurScope, cache, entries, again>>
  BY DEF ExitScope
<1>2. CurScope = st[Len(st)] /\ Len(st) \in Nat /\ TypeInv
  BY <1>1, StackFacts DEF InvFor
<1>3. TypeInv'
  BY <1>1, <1>2 DEF TypeInv, ExitScope
<1>4. IsStack(objects, CurScope, st)' /\ ScopesInv(st)' /\ ObjectsInv(st)'
  BY <1>1 DEF InvFor, IsStack, ScopesInv, AroundIn, ObjectsInv
<1>5. ClosingInv'
  BY <1>1 DEF ClosingInv
<1>6. EntriesInv(st)'
  <2>1. ASSUME NEW n \in Idents PROVE Holders(st, n)' = Holders(st, n)
    BY <1>1, <1>2 DEF Holders, HeldIn
  <2> QED
    BY <1>1, <2>1 DEF InvFor, EntriesInv
<1> QED
  BY <1>3, <1>4, <1>5, <1>6 DEF InvFor

(* The list of an identifier of the set is never empty: the scope that is  *)
(* left is among its holders.                                              *)
LEMMA PopStep ==
  ASSUME NEW st, InvFor(st), NEW n \in Idents, ActOnPopScope(n)
  PROVE  InvFor(st)'
<1> DEFINE k == Len(st)
<1>1. /\ closing /\ n \in left /\ closing'
      /\ entries' = [entries EXCEPT ![n] = Front(@)]
      /\ left' = left \ {n}
      /\ UNCHANGED <<objects, CurScope, cache, again>>
  BY DEF ActOnPopScope
<1>2. /\ TypeInv /\ k \in Nat /\ CurScope # None /\ left \subseteq objects[CurScope].DeclsInScope
      /\ k > 0
  BY <1>1, StackFacts DEF InvFor, ClosingInv
<1>3. /\ \A m \in Idents : m # n => Holders(st, m)' = Holders(st, m)
      /\ Holders(st, n)' = Holders(st, n) \ {k}
      /\ k \in Holders(st, n)
  BY <1>1, <1>2 DEF Holders, HeldIn
<1>4. /\ entries[n] \in Seq(Entries) /\ again[n] \in Nat
      /\ Len(entries[n]) = Cardinality(Holders(st, n)) + again[n]
      /\ IsFiniteSet(Holders(st, n)) /\ Cardinality(Holders(st, n)) \in Nat
  BY <1>2, StackFacts DEF InvFor, TypeInv, EntriesInv
<1>5. Cardinality(Holders(st, n)') = Cardinality(Holders(st, n)) - 1
  BY <1>3, <1>4, FS_RemoveElement
<1>6. Holders(st, n) # {} /\ Cardinality(Holders(st, n)) # 0
  BY <1>3, <1>4, FS_EmptySet
<1>7. entries[n] # << >>
  BY <1>4, <1>6
<1>8. Front(entries[n]) \in Seq(Entries) /\ Len(Front(entries[n])) = Len(entries[n]) - 1
  BY <1>4, <1>7, FrontIs
<1>9. /\ entries'[n] = Front(entries[n])
      /\ \A m \in Idents : m # n => entries'[m] = entries[m]
      /\ entries' \in [Idents -> Seq(Entries)]
  BY <1>1, <1>2, <1>8 DEF TypeInv
<1>10. TypeInv'
  BY <1>1, <1>2, <1>9 DEF TypeInv, ActOnPopScope
<1>11. IsStack(objects, CurScope, st)' /\ ScopesInv(st)' /\ ObjectsInv(st)'
  <2>1. IsStack(objects, CurScope, st)'
    BY <1>1 DEF InvFor, IsStack
  <2>2. ScopesInv(st)'
    BY <1>1 DEF InvFor, ScopesInv, AroundIn
  <2>3. ObjectsInv(st)'
    BY <1>1 DEF InvFor, ObjectsInv
  <2> QED
    BY <2>1, <2>2, <2>3
<1>12. ClosingInv'
  BY <1>1, <1>2 DEF ClosingInv
<1>13. EntriesInv(st)'
  <2>1. Len(entries'[n]) = Cardinality(Holders(st, n)') + again'[n]
    BY <1>1, <1>4, <1>5, <1>8, <1>9
  <2>2. ASSUME NEW m \in Idents, m # n
        PROVE  Len(entries'[m]) = Cardinality(Holders(st, m)') + again'[m]
    BY <1>1, <1>3, <1>9, <2>2 DEF InvFor, EntriesInv
  <2> QED
    BY <2>1, <2>2 DEF EntriesInv
<1> QED
  BY <1>10, <1>11, <1>12, <1>13 DEF InvFor

LEMMA RecycleStep ==
  ASSUME NEW st, InvFor(st), RecycleScope
  PROVE  InvFor(Front(st))'
<1> DEFINE k == Len(st)
<1>1. /\ closing /\ left = {} /\ closing' = FALSE
      /\ CurScope' = objects[CurScope].AnyParent
      /\ UNCHANGED <<entries, left, again>>
  BY DEF RecycleScope
<1>2. /\ TypeInv /\ k \in Nat /\ CurScope # None /\ k > 0 /\ CurScope = st[k]
      /\ st \in Seq(Nat \ {None}) /\ k <= MaxScopes /\ st # << >>
      /\ \A i \in 1 .. k : st[i] \in Nat \ {None} /\ st[i] \in DOMAIN objects /\ st[i] \in ToSet(st)
      /\ \A i, j \in 1 .. k : st[i] = st[j] => i = j
  BY <1>1, StackFacts DEF InvFor, ClosingInv, IsStack
<1>3. k \in 1 .. k /\ \A i \in 1 .. k - 1 : i \in 1 .. k /\ i # k
  BY <1>2
<1>4. /\ CurScope \in DOMAIN objects /\ CurScope \in ToSet(st) /\ CurScope \in Nat
      /\ CurScope \notin ToSet(cache)
  BY <1>2, <1>3 DEF InvFor, ObjectsInv
<1> DEFINE st2 == Front(st)
<1>5. /\ st2 \in Seq(Nat \ {None}) /\ Len(st2) = k - 1 /\ k - 1 \in Nat
      /\ \A i \in 1 .. k - 1 : st2[i] = st[i]
      /\ ToSet(st2) = ToSet(st) \ {CurScope}
  BY <1>2, FrontIs, FrontSet
<1> HIDE DEF st2
<1>6. \A i \in 1 .. k - 1 : st[i] # CurScope
  BY <1>2, <1>3
<1>7. /\ TypeInv' /\ ObjectsInv(st2)'
      /\ \A a \in DOMAIN objects \ {CurScope} : a \in DOMAIN objects' /\ objects'[a] = objects[a]
  <2>1. CASE Len(cache) = ScopeCacheSize
    <3>1. /\ objects' = [a \in DOMAIN objects \ {CurScope} |-> objects[a]] /\ cache' = cache
      BY <2>1 DEF RecycleScope
    <3>2. DOMAIN objects' = DOMAIN objects \ {CurScope}
      BY <3>1
    <3>3. TypeInv'
      BY <1>1, <1>2, <3>1, <3>2 DEF TypeInv
    <3>4. Cardinality(DOMAIN objects') = Len(st2) + Len(cache')
      <4>1. IsFiniteSet(Addresses)
        BY ConstantsAssumption, FS_Interval DEF Addresses
      <4>2. IsFiniteSet(DOMAIN objects)
        BY <1>2, <4>1, FS_Subset DEF TypeInv
      <4>3. PICK c : c = CurScope
        OBVIOUS
      <4>4. Cardinality(DOMAIN objects \ {c}) = Cardinality(DOMAIN objects) - 1
        BY <1>4, <4>2, <4>3, FS_RemoveElement
      <4>5. Cardinality(DOMAIN objects) = k + Len(cache) /\ Len(cache) \in Nat
        BY <1>2, LenProperties DEF InvFor, ObjectsInv, TypeInv
      <4> QED
        BY <1>2, <1>5, <3>1, <3>2, <4>3, <4>4, <4>5
    <3>5. ObjectsInv(st2)'
      BY <1>4, <1>5, <3>1, <3>2, <3>4 DEF InvFor, ObjectsInv
    <3> QED
      BY <3>1, <3>2, <3>3, <3>5
  <2>2. CASE Len(cache) # ScopeCacheSize
    <3>1. objects' = objects /\ cache' = Append(cache, CurScope)
      BY <2>2 DEF RecycleScope
    <3>2. cache \in Seq(Nat) /\ Len(cache) \in Nat /\ DOMAIN cache = 1 .. Len(cache)
      BY <1>2, LenProperties DEF TypeInv
    <3>3. /\ cache' \in Seq(Nat) /\ Len(cache') = Len(cache) + 1
          /\ \A i \in 1 .. Len(cache) : cache'[i] = cache[i]
          /\ cache'[Len(cache) + 1] = CurScope
          /\ ToSet(cache') = ToSet(cache) \cup {CurScope}
      BY <1>4, <3>1, <3>2, AppendProperties, AppendSet
    <3>4. TypeInv'
      BY <1>1, <1>2, <3>1, <3>3 DEF TypeInv
    <3>5. ASSUME NEW i \in 1 .. Len(cache'), NEW j \in 1 .. Len(cache'), cache'[i] = cache'[j]
          PROVE  i = j
      <4>1. \A m \in 1 .. Len(cache') : m = Len(cache) + 1 \/ m \in 1 .. Len(cache)
        BY <3>2, <3>3
      <4>2. \A m \in 1 .. Len(cache) : cache[m] # CurScope
        BY <1>4, <3>2 DEF ToSet
      <4> QED
        BY <3>3, <3>5, <4>1, <4>2 DEF InvFor, ObjectsInv
    <3>6. Len(cache') <= ScopeCacheSize
      <4>1. Len(cache) <= ScopeCacheSize /\ ScopeCacheSize \in Nat
        BY ConstantsAssumption DEF InvFor, ObjectsInv
      <4>2. Len(cache) + 1 <= ScopeCacheSize
        <5>1. \A a, b \in Nat : a # b /\ a <= b => a + 1 <= b
          OBVIOUS
        <5> QED
          BY <2>2, <3>2, <4>1, <5>1
      <4> QED
        BY <3>3, <4>2
    <3>7. Cardinality(DOMAIN objects') = Len(st2) + Len(cache')
      <4>1. Cardinality(DOMAIN objects) = k + Len(cache)
        BY DEF InvFor, ObjectsInv
      <4> QED
        BY <1>2, <1>5, <3>1, <3>2, <3>3, <4>1
    <3>8. DOMAIN objects' = ToSet(st2) \cup ToSet(cache') /\ ToSet(st2) \cap ToSet(cache') = {}
      BY <1>4, <1>5, <3>1, <3>3 DEF InvFor, ObjectsInv
    <3>9. ObjectsInv(st2)'
      BY <3>5, <3>6, <3>7, <3>8 DEF ObjectsInv
    <3> QED
      BY <3>1, <3>4, <3>9
  <2> QED
    BY <2>1, <2>2
<1>8. \A i \in 1 .. k - 1 : st2[i] \in DOMAIN objects' /\ objects'[st2[i]] = objects[st[i]]
  BY <1>2, <1>3, <1>5, <1>6, <1>7
<1>9. IsStack(objects, CurScope, st2)'
  <2>1. ASSUME NEW i \in 1 .. k - 1
        PROVE  /\ st2[i] \in DOMAIN objects'
               /\ objects'[st2[i]].AnyParent = IF i = 1 THEN None ELSE st2[i - 1]
    <3>1. i \in 1 .. k /\ (i # 1 => i - 1 \in 1 .. k - 1)
      BY <1>2
    <3>2. objects[st[i]].AnyParent = IF i = 1 THEN None ELSE st[i - 1]
      BY <3>1 DEF InvFor, IsStack
    <3> QED
      BY <1>5, <1>8, <3>1, <3>2
  <2>2. CurScope' = IF Len(st2) = 0 THEN None ELSE st2[Len(st2)]
    <3>1. objects[st[k]].AnyParent = IF k = 1 THEN None ELSE st[k - 1]
      BY <1>3 DEF InvFor, IsStack
    <3>2. CASE k = 1
      BY <1>1, <1>2, <1>5, <3>1, <3>2
    <3>3. CASE k # 1
      <4>1. k \in Nat /\ k > 0
        BY <1>2
      <4>2. k - 1 \in 1 .. k - 1 /\ k - 1 # 0
        <5>1. \A a \in Nat : a > 0 /\ a # 1 => a - 1 \in 1 .. a - 1 /\ a - 1 # 0
          OBVIOUS
        <5> QED
          BY <3>3, <4>1, <5>1
      <4>3. st2[k - 1] = st[k - 1]
        BY <1>5, <4>2
      <4> QED
        BY <1>1, <1>2, <1>5, <3>1, <3>3, <4>2, <4>3
    <3> QED
      BY <3>2, <3>3
  <2>3. Len(st2) <= MaxScopes
    BY <1>2, <1>5, ConstantsAssumption
  <2> QED
    BY <1>5, <2>1, <2>2, <2>3 DEF IsStack
<1>10. ScopesInv(st2)'
  <2>1. ASSUME NEW i \in 1 .. k - 1
        PROVE  /\ objects'[st2[i]].Depth = i - 1
               /\ objects'[st2[i]].FnParent =
                    IF AroundIn(st2, i)' = {} THEN None ELSE st2[Max(AroundIn(st2, i)')]
    <3>1. ASSUME NEW j \in 1 .. i PROVE objects'[st2[j]].Flags = objects[st[j]].Flags
      <4>1. j \in 1 .. k - 1
        BY <1>2
      <4> QED
        BY <1>8, <4>1
    <3>2. AroundIn(st2, i)' = AroundIn(st, i)
      BY <3>1 DEF AroundIn
    <3>3. ASSUME AroundIn(st, i) # {}
          PROVE  st2[Max(AroundIn(st, i))] = st[Max(AroundIn(st, i))]
      <4>1. AroundIn(st, i) \in SUBSET (1 .. k - 1) /\ AroundIn(st, i) \in SUBSET (1 .. k - 1)
        BY <1>2 DEF AroundIn
      <4>2. Max(AroundIn(st, i)) \in 1 .. k - 1
        BY <1>5, <3>3, <4>1, MaxIsGreatest
      <4> QED
        BY <1>5, <4>2
    <3>4. i \in 1 .. k
      BY <1>3
    <3>5. /\ objects[st[i]].Depth = i - 1
          /\ objects[st[i]].FnParent =
               IF AroundIn(st, i) = {} THEN None ELSE st[Max(AroundIn(st, i))]
      BY <3>4 DEF InvFor, ScopesInv
    <3>6. objects'[st2[i]] = objects[st[i]]
      BY <1>8
    <3> QED
      BY <3>2, <3>3, <3>5, <3>6
  <2> QED
    BY <1>5, <2>1 DEF ScopesInv
<1>11. ClosingInv'
  BY <1>1 DEF ClosingInv
<1>12. EntriesInv(st2)'
  <2>1. ASSUME NEW n \in Idents PROVE Holders(st2, n)' = Holders(st, n)
    <3>1. ASSUME NEW i \in 1 .. k - 1
          PROVE  n \in HeldIn(st2, i)' <=> n \in HeldIn(st, i)
      BY <1>1, <1>3, <1>8 DEF HeldIn
    <3>2. n \notin HeldIn(st, k)
      BY <1>1 DEF HeldIn
    <3>3. \A i \in 1 .. k : i \in 1 .. k - 1 \/ i = k
      BY <1>2
    <3> QED
      BY <1>3, <1>5, <3>1, <3>2, <3>3 DEF Holders
  <2> QED
    BY <1>1, <2>1 DEF InvFor, EntriesInv
<1>13. InvFor(st2)'
  BY <1>7, <1>9, <1>10, <1>11, <1>12 DEF InvFor
<1> QED
  BY <1>13 DEF st2

LEMMA DestroyStep ==
  ASSUME NEW st, InvFor(st), DestroyParser, CurScope = None
  PROVE  InvFor(st)'
<1>1. /\ CurScope = None /\ cache' = << >>
      /\ objects' = [a \in DOMAIN objects \ ({CurScope} \cup ToSet(cache)) |-> objects[a]]
      /\ UNCHANGED <<CurScope, entries, closing, left, again>>
  BY DEF DestroyParser
<1>2. Len(st) = 0 /\ st \in Seq(Nat) /\ DOMAIN st = 1 .. 0
  BY <1>1, StackFacts, LenProperties
<1>3. ToSet(st) = {}
  BY <1>2 DEF ToSet
<1>4. DOMAIN objects' = {} /\ Len(cache') = 0 /\ ToSet(cache') = {}
  BY <1>1, <1>3 DEF InvFor, ObjectsInv, ToSet
<1>5. TypeInv'
  BY <1>1, <1>4 DEF InvFor, TypeInv
<1>6. IsStack(objects, CurScope, st)' /\ ScopesInv(st)'
  BY <1>1, <1>2 DEF InvFor, IsStack, ScopesInv
<1>7. ObjectsInv(st)'
  BY <1>2, <1>3, <1>4, FS_EmptySet, ConstantsAssumption DEF ObjectsInv
<1>8. ClosingInv'
  BY <1>1 DEF InvFor, ClosingInv
<1>9. EntriesInv(st)'
  <2>1. ASSUME NEW n \in Idents PROVE Holders(st, n)' = Holders(st, n)
    BY <1>2 DEF Holders
  <2> QED
    BY <1>1, <2>1 DEF InvFor, EntriesInv
<1> QED
  BY <1>5, <1>6, <1>7, <1>8, <1>9 DEF InvFor

(* A parser that returned at once deletes the one scope there is.          *)
LEMMA AbandonStep ==
  ASSUME IInv, EndsInv, DestroyParser, CurScope # None
  PROVE  Gone'
<1>1. PICK st : st = Stack
  OBVIOUS
<1>2. InvFor(st) /\ Len(st) = 1
  BY <1>1 DEF IInv, DestroyParser, ReturnedAtOnce, Top
<1>3. /\ importing /\ ~ closing /\ CurScope = st[1] /\ objects[CurScope].DeclsInScope = Builtins
      /\ \A n \in Idents : again[n] = 0
  BY <1>2, StackFacts DEF DestroyParser, ReturnedAtOnce
<1>4. /\ objects' = [a \in DOMAIN objects \ ({CurScope} \cup ToSet(cache)) |-> objects[a]]
      /\ CurScope' = None /\ cache' = << >>
      /\ UNCHANGED <<entries, importing, closing, again>>
  BY DEF DestroyParser
<1>5. DOMAIN objects' = {}
  <2>1. ToSet(st) = {CurScope}
    BY <1>2, <1>3, StackFacts DEF ToSet
  <2>2. DOMAIN objects = {CurScope} \cup ToSet(cache)
    BY <1>2, <2>1 DEF InvFor, ObjectsInv
  <2> QED
    BY <1>4, <2>2
<1>6. TypeInv'
  BY <1>2, <1>4, <1>5 DEF InvFor, TypeInv
<1>7. ASSUME NEW n \in Idents PROVE Len(entries[n]) = IF n \in Builtins THEN 1 ELSE 0
  <2>1. Len(entries[n]) = Cardinality(Holders(st, n))
    BY <1>2, <1>3, StackFacts DEF InvFor, EntriesInv
  <2>2. 1 .. Len(st) = {1} /\ HeldIn(st, 1) = Builtins
    BY <1>2, <1>3 DEF HeldIn
  <2>3. Holders(st, n) = IF n \in Builtins THEN {1} ELSE {}
    BY <2>2 DEF Holders
  <2> QED
    BY <2>1, <2>3, FS_Singleton, FS_EmptySet
<1> QED
  BY <1>3, <1>4, <1>5, <1>6, <1>7 DEF Gone

-----------------------------------------------------------------------------
(* The initial states, every step, and the theorems.                       *)

LEMMA InitInv == Init => IInv /\ EndsInv
<1> SUFFICES ASSUME Init PROVE IInv /\ EndsInv
  OBVIOUS
<1> DEFINE scope == [AnyParent |-> None, Depth |-> 0, Flags |-> {"DeclScope"},
                     FnParent |-> None, DeclsInScope |-> Builtins]
           st == <<1>>
<1>1. /\ objects = [a \in {1} |-> scope] /\ CurScope = 1 /\ cache = << >>
      /\ closing = FALSE /\ left = {} /\ again = [n \in Idents |-> 0]
  BY DEF Init
<1>2. PICK id \in [Builtins -> Ids] :
        entries = [n \in Idents |-> IF n \in Builtins
                     THEN <<[id |-> id[n], kind |-> "Type"]>> ELSE << >>]
  BY DEF Init
<1>3. DOMAIN objects = {1} /\ objects[1] = scope
  BY <1>1
<1>4. scope \in ScopeType
  BY ConstantsAssumption DEF ScopeType, None, Flags
<1>5. /\ scope.AnyParent = None /\ scope.Depth = 0 /\ scope.FnParent = None
      /\ scope.Flags = {"DeclScope"} /\ scope.DeclsInScope = Builtins
  OBVIOUS
<1> HIDE DEF scope
<1>6. /\ st \in Seq(Nat \ {None}) /\ Len(st) = 1 /\ st[1] = 1 /\ ToSet(st) = {1}
      /\ 1 .. Len(st) = {1}
  BY DEF None, ToSet
<1> HIDE DEF st
<1>7. TypeInv
  <2>1. DOMAIN objects \subseteq Addresses
    <3>1. MaxScopes + ScopeCacheSize \in Nat \ {0}
      BY ConstantsAssumption
    <3> QED
      BY <1>3, <3>1 DEF Addresses
  <2>2. objects \in [DOMAIN objects -> ScopeType]
    BY <1>1, <1>3, <1>4
  <2>3. entries \in [Idents -> Seq(Entries)]
    <3>1. ASSUME NEW n \in Builtins PROVE <<[id |-> id[n], kind |-> "Type"]>> \in Seq(Entries)
      <4>1. [id |-> id[n], kind |-> "Type"] \in Entries
        BY <1>2 DEF Entries, Kinds
      <4> QED
        BY <4>1
    <3>2. << >> \in Seq(Entries)
      OBVIOUS
    <3> QED
      BY <1>2, <3>1, <3>2
  <2>4. cache \in Seq(Nat) /\ closing \in BOOLEAN /\ again \in [Idents -> Nat]
    <3>1. << >> \in Seq(Nat) /\ [n \in Idents |-> 0] \in [Idents -> Nat]
      OBVIOUS
    <3> QED
      BY <1>1, <3>1
  <2> QED
    BY <2>1, <2>2, <2>3, <2>4 DEF TypeInv
<1>8. IsStack(objects, CurScope, st)
  BY <1>1, <1>3, <1>5, <1>6, ConstantsAssumption DEF IsStack, None
<1>9. ScopesInv(st)
  <2>1. AroundIn(st, 1) = {}
    BY <1>3, <1>5, <1>6 DEF AroundIn
  <2> QED
    BY <1>3, <1>5, <1>6, <2>1 DEF ScopesInv
<1>10. ObjectsInv(st)
  <2>1. Len(cache) = 0 /\ ToSet(cache) = {}
    BY <1>1 DEF ToSet
  <2>2. Cardinality(DOMAIN objects) = 1
    BY <1>3, FS_Singleton
  <2> QED
    BY <1>3, <1>6, <2>1, <2>2, ConstantsAssumption DEF ObjectsInv
<1>11. ClosingInv
  BY <1>1 DEF ClosingInv
<1>12. EntriesInv(st)
  <2> SUFFICES ASSUME NEW n \in Idents
               PROVE  Len(entries[n]) = Cardinality(Holders(st, n)) + again[n]
    BY DEF EntriesInv
  <2>1. again[n] = 0
    BY <1>1
  <2>2. HeldIn(st, 1) = Builtins
    BY <1>1, <1>3, <1>5, <1>6 DEF HeldIn
  <2>3. CASE n \in Builtins
    <3>1. Holders(st, n) = {1}
      BY <1>6, <2>2, <2>3 DEF Holders
    <3>2. Cardinality(Holders(st, n)) = 1
      BY <3>1, FS_Singleton
    <3>3. Len(entries[n]) = 1
      BY <1>2, <2>3
    <3> QED
      BY <2>1, <3>2, <3>3
  <2>4. CASE n \notin Builtins
    <3>1. Holders(st, n) = {}
      BY <1>6, <2>2, <2>4 DEF Holders
    <3>2. Cardinality(Holders(st, n)) = 0
      BY <3>1, FS_EmptySet
    <3>3. Len(entries[n]) = 0
      BY <1>2, <2>4
    <3> QED
      BY <2>1, <3>2, <3>3
  <2> QED
    BY <2>3, <2>4
<1>13. EndsInv
  BY <1>1 DEF EndsInv, None
<1> QED
  BY <1>7, <1>8, <1>9, <1>10, <1>11, <1>12, <1>13, InvForStack DEF InvFor

LEMMA InvStep ==
  ASSUME IInv, [Next]_vars, DestroyParser => CurScope = None
  PROVE  IInv'
<1>1. PICK st : st = Stack
  OBVIOUS
<1>2. InvFor(st)
  BY <1>1 DEF IInv
<1>3. ASSUME CurScope # None
      PROVE  /\ Len(st) \in 1 .. Len(st) /\ 1 \in 1 .. Len(st)
             /\ CurScope = st[Len(st)] /\ TUScope = st[1]
  BY <1>1, <1>2, <1>3, StackFacts DEF TUScope
<1>4. ASSUME NEW n \in Idents, ActOnImportSpec(n) PROVE IInv'
  <2>1. /\ CurScope # None /\ ~ closing /\ Declare(n, "Package", TUScope)
        /\ UNCHANGED <<CurScope, cache, closing, left>> /\ "Package" \in Kinds
    BY <1>4 DEF ActOnImportSpec, MayDeclare, Kinds
  <2>2. InvFor(st)'
    BY <1>2, <1>3, <2>1, DeclareStep
  <2> QED
    BY <2>2, InvForNextStack
<1>5. ASSUME NEW n \in Idents, ActOnTypeSpec(n) PROVE IInv'
  <2>1. /\ CurScope # None /\ ~ closing /\ Declare(n, "Type", CurScope)
        /\ UNCHANGED <<CurScope, cache, closing, left>> /\ "Type" \in Kinds
    BY <1>5 DEF ActOnTypeSpec, MayDeclare, Kinds
  <2>2. InvFor(st)'
    BY <1>2, <1>3, <2>1, DeclareStep
  <2> QED
    BY <2>2, InvForNextStack
<1>6. ASSUME NEW n \in Idents, ActOnFunctionDecl(n) PROVE IInv'
  <2>1. /\ CurScope # None /\ ~ closing /\ Declare(n, "Func", CurScope)
        /\ UNCHANGED <<CurScope, cache, closing, left>> /\ "Func" \in Kinds
    BY <1>6 DEF ActOnFunctionDecl, MayDeclare, Kinds
  <2>2. InvFor(st)'
    BY <1>2, <1>3, <2>1, DeclareStep
  <2> QED
    BY <2>2, InvForNextStack
<1>7. ASSUME NEW n \in Idents, ActOnPopScope(n) PROVE IInv'
  BY <1>2, <1>7, PopStep, InvForNextStack
<1>8. ASSUME ParseFunctionBody \/ ParseBlock \/ ParseStructType PROVE IInv'
  <2>1. PICK flags \in SUBSET Flags : Open(flags)
    BY <1>8 DEF ParseFunctionBody, ParseBlock, ParseStructType, Flags
  <2>2. PICK a : InvFor(Append(st, a))'
    BY <1>2, <2>1, OpenStep
  <2> QED
    BY <2>2, InvForNextStack
<1>9. ASSUME ExitScope PROVE IInv'
  BY <1>2, <1>9, ExitStep, InvForNextStack
<1>10. ASSUME RecycleScope PROVE IInv'
  BY <1>2, <1>10, RecycleStep, InvForNextStack
<1>11. ASSUME DestroyParser PROVE IInv'
  BY <1>2, <1>11, DestroyStep, InvForNextStack
<1>12. ASSUME UNCHANGED vars PROVE IInv'
  <2>1. UNCHANGED <<objects, CurScope, cache, entries, closing, left, again>>
    BY <1>12 DEF vars
  <2>2. TypeInv' /\ ClosingInv' /\ ObjectsInv(st)'
    BY <1>2, <2>1 DEF InvFor, TypeInv, ClosingInv, ObjectsInv
  <2>3. IsStack(objects, CurScope, st)' /\ ScopesInv(st)'
    BY <1>2, <2>1 DEF InvFor, IsStack, ScopesInv, AroundIn
  <2>4. EntriesInv(st)'
    BY <1>2, <2>1 DEF InvFor, EntriesInv, Holders, HeldIn
  <2>5. InvFor(st)'
    BY <2>2, <2>3, <2>4 DEF InvFor
  <2> QED
    BY <2>5, InvForNextStack
<1> QED
  BY <1>4, <1>5, <1>6, <1>7, <1>8, <1>9, <1>10, <1>11, <1>12 DEF Next

LEMMA EndsStep ==
  ASSUME EndsInv, [Next]_vars, DestroyParser => CurScope = None
  PROVE  EndsInv'
<1>1. ASSUME NEW n \in Idents, ActOnImportSpec(n) \/ ActOnTypeSpec(n) \/ ActOnFunctionDecl(n)
      PROVE  EndsInv'
  BY <1>1 DEF EndsInv, ActOnImportSpec, ActOnTypeSpec, ActOnFunctionDecl
<1>2. ASSUME NEW n \in Idents, ActOnPopScope(n) PROVE EndsInv'
  BY <1>2 DEF EndsInv, ActOnPopScope
<1>3. ASSUME ParseFunctionBody \/ ParseBlock \/ ParseStructType PROVE EndsInv'
  BY <1>3 DEF EndsInv, ParseFunctionBody, ParseBlock, ParseStructType, Open
<1>4. ASSUME ExitScope \/ RecycleScope PROVE EndsInv'
  BY <1>4 DEF EndsInv, ExitScope, RecycleScope
<1>5. ASSUME DestroyParser \/ UNCHANGED vars PROVE EndsInv'
  BY <1>5 DEF EndsInv, DestroyParser, vars
<1> QED
  BY <1>1, <1>2, <1>3, <1>4, <1>5 DEF Next

(* Nothing happens any more once the parser is gone.                       *)
LEMMA GoneStep == Gone /\ [Next]_vars => Gone' /\ UNCHANGED <<entries, CurScope, importing, closing, valid>>
<1> SUFFICES ASSUME Gone, [Next]_vars
             PROVE  Gone' /\ UNCHANGED <<entries, CurScope, importing, closing, valid>>
  OBVIOUS
<1>1. DestroyParser \/ UNCHANGED vars
  BY DEF Gone, Next, ActOnImportSpec, ActOnTypeSpec, ActOnFunctionDecl, MayDeclare,
         ActOnPopScope, ParseFunctionBody, ParseBlock, ParseStructType, Open, ExitScope,
         RecycleScope
<1>2. /\ UNCHANGED <<entries, importing, closing, again, valid>>
      /\ CurScope' = None /\ cache' = << >> /\ DOMAIN objects' = {}
      /\ DOMAIN objects' = {} => objects' \in [DOMAIN objects' -> ScopeType]
  BY <1>1 DEF Gone, TypeInv, DestroyParser, vars
<1>3. TypeInv'
  BY <1>2 DEF Gone, TypeInv
<1> QED
  BY <1>2, <1>3 DEF Gone

Safe == (IInv /\ EndsInv) \/ Gone

LEMMA Invariance == Safe /\ [Next]_vars => Safe'
<1>1. ASSUME IInv, EndsInv, [Next]_vars, DestroyParser => CurScope = None PROVE Safe'
  BY <1>1, InvStep, EndsStep DEF Safe
<1>2. ASSUME IInv, EndsInv, DestroyParser, CurScope # None PROVE Safe'
  BY <1>2, AbandonStep DEF Safe
<1>3. ASSUME Gone, [Next]_vars PROVE Safe'
  BY <1>3, GoneStep DEF Safe
<1> QED
  BY <1>1, <1>2, <1>3 DEF Safe

(* No Scope object is lost, in use twice, or both in use and in the cache, *)
(* whatever its size, and an open one is as deep as it is nested and has   *)
(* the innermost function around it, whatever the object was before.       *)
THEOREM ScopesCorrect == Spec => []RecycledScopesAreFresh
<1>1. Init => Safe
  BY InitInv DEF Safe
<1>2. Safe => RecycledScopesAreFresh
  BY InvImplies, GoneImplies DEF Safe
<1> QED
  BY <1>1, <1>2, Invariance, PTL DEF Spec

(* Each name has an entry for every open scope that declares it and one    *)
(* for each redeclaration: ActOnPopScope always finds one, and only        *)
(* redeclarations leave any behind, or a parser that returned at once.     *)
THEOREM EntriesCorrect == Spec => []EntriesAccounted
<1>1. Init => Safe
  BY InitInv DEF Safe
<1>2. Safe => EntriesAccounted
  BY InvImplies, GoneImplies DEF Safe
<1> QED
  BY <1>1, <1>2, Invariance, PTL DEF Spec

-----------------------------------------------------------------------------
(* The refinement.  A source that declares no name twice leaves no entries *)
(* behind, and imports come before any scope is opened.                    *)

RInv ==
  /\ IInv /\ EndsInv
  /\ valid => \A n \in Idents : again[n] = 0
  /\ importing => Top <= 1

(* Of the entries of a name, the one that the i-th scope declared.         *)
HoldersTo(n, i) == {j \in 1 .. i : n \in Held(j)}
Rank(n, i)      == Cardinality(HoldersTo(n, i))
BlockOf(i)      == {Entry(n, Rank(n, i)) : n \in Held(i)}

LEMMA RankType ==
  ASSUME NEW n, NEW i \in Nat
  PROVE  IsFiniteSet(HoldersTo(n, i)) /\ Rank(n, i) \in Nat
<1>1. IsFiniteSet(1 .. i) /\ HoldersTo(n, i) \in SUBSET (1 .. i)
  BY FS_Interval DEF HoldersTo
<1>2. IsFiniteSet(HoldersTo(n, i))
  BY <1>1, FS_Subset
<1> QED
  BY <1>2, FS_CardinalityType DEF Rank

LEMMA StateFacts ==
  ASSUME RInv
  PROVE  /\ InvFor(Stack) /\ Stack \in Seq(Nat) /\ Top \in Nat /\ Top = Len(Stack)
         /\ \A i \in 1 .. Top : Held(i) \subseteq Idents /\ Stack[i] \in DOMAIN objects
         /\ CurScope # None => Top > 0 /\ CurScope = Stack[Top]
         /\ CurScope = None => Top = 0
         /\ \A i, j \in 1 .. Top : Stack[i] = Stack[j] => i = j
         /\ \A n \in Idents : /\ entries[n] \in Seq(Entries) /\ Len(entries[n]) \in Nat
                              /\ valid => Len(entries[n]) = Rank(n, Top)
<1>1. /\ InvFor(Stack) /\ Top = Len(Stack)
  BY DEF RInv, IInv, Top
<1>2. /\ Stack \in Seq(Nat) /\ Top \in Nat
      /\ \A i \in 1 .. Top : Stack[i] \in DOMAIN objects
      /\ CurScope # None => Top > 0 /\ CurScope = Stack[Top]
      /\ CurScope = None => Top = 0
      /\ \A i, j \in 1 .. Top : Stack[i] = Stack[j] => i = j
  BY <1>1, StackFacts
<1>3. \A i \in 1 .. Top : objects[Stack[i]].DeclsInScope \subseteq Idents
  BY <1>1, <1>2 DEF InvFor, TypeInv, ScopeType
<1>4. \A i \in 1 .. Top : Held(i) \subseteq Idents
  BY <1>1, <1>2, <1>3 DEF Held, InvFor, ClosingInv
<1>5. ASSUME NEW n \in Idents
      PROVE  /\ entries[n] \in Seq(Entries) /\ Len(entries[n]) \in Nat
             /\ valid => Len(entries[n]) = Rank(n, Top)
  <2>1. entries[n] \in Seq(Entries) /\ Len(entries[n]) \in Nat
    BY <1>1, LenProperties DEF InvFor, TypeInv
  <2>2. Len(entries[n]) = Cardinality({i \in 1 .. Top : n \in Held(i)}) + again[n]
    <3>1. LeftBehind(n) = 0 /\ again[n] \in Nat
      BY <1>1 DEF RInv, EndsInv, Abandoned, LeftBehind, InvFor, TypeInv
    <3>2. Cardinality({i \in 1 .. Top : n \in Held(i)}) = Rank(n, Top) /\ Rank(n, Top) \in Nat
      BY <1>2, RankType DEF Rank, HoldersTo
    <3> QED
      BY <3>1, <3>2, InvImplies DEF RInv, EntriesAccounted
  <2>3. Len(entries[n]) = Rank(n, Top) + again[n] /\ Rank(n, Top) \in Nat
    BY <1>2, <2>2, RankType DEF Rank, HoldersTo
  <2>4. ASSUME valid PROVE Len(entries[n]) = Rank(n, Top)
    <3>1. again[n] = 0
      BY <2>4 DEF RInv
    <3> QED
      BY <2>3, <3>1
  <2> QED
    BY <2>1, <2>4
<1> QED
  BY <1>1, <1>2, <1>4, <1>5

(* The rank of a scope among those that hold a name is the place of an     *)
(* entry, the last one's if no scope further in holds it.                  *)
RankInv ==
  \A n \in Idents : \A i \in 1 .. Top :
    /\ Rank(n, i) \in 0 .. Len(entries[n])
    /\ n \in Held(i) => Rank(n, i) > 0
    /\ (\A j \in i + 1 .. Top : n \notin Held(j)) => Rank(n, i) = Len(entries[n])

LEMMA RankOK == RInv /\ valid => RankInv
<1> SUFFICES ASSUME RInv, valid, NEW n \in Idents, NEW i \in 1 .. Top
             PROVE  /\ Rank(n, i) \in 0 .. Len(entries[n])
                    /\ n \in Held(i) => Rank(n, i) > 0
                    /\ (\A j \in i + 1 .. Top : n \notin Held(j)) => Rank(n, i) = Len(entries[n])
  BY DEF RankInv
<1>1. Top \in Nat /\ Len(entries[n]) = Rank(n, Top) /\ i \in Nat /\ i <= Top
  BY StateFacts
<1>3. HoldersTo(n, i) \in SUBSET HoldersTo(n, Top)
  BY <1>1 DEF HoldersTo
<1>4. IsFiniteSet(HoldersTo(n, Top)) /\ IsFiniteSet(HoldersTo(n, i))
  BY <1>1, RankType
<1>5. Rank(n, i) \in Nat /\ Rank(n, Top) \in Nat /\ Rank(n, i) <= Rank(n, Top)
  BY <1>1, <1>3, <1>4, FS_Subset, RankType DEF Rank
<1>6. ASSUME n \in Held(i) PROVE Rank(n, i) > 0
  <2>1. i \in HoldersTo(n, i)
    BY <1>1, <1>6 DEF HoldersTo
  <2>2. Rank(n, i) # 0
    BY <1>4, <2>1, FS_EmptySet DEF Rank
  <2> QED
    BY <1>5, <2>2
<1>7. ASSUME \A j \in i + 1 .. Top : n \notin Held(j) PROVE Rank(n, i) = Len(entries[n])
  <2>1. \A j \in 1 .. Top : j \in 1 .. i \/ j \in i + 1 .. Top
    BY <1>1
  <2>2. HoldersTo(n, Top) = HoldersTo(n, i)
    BY <1>1, <1>7, <2>1 DEF HoldersTo
  <2> QED
    BY <1>1, <2>2 DEF Rank
<1> QED
  BY <1>1, <1>5, <1>6, <1>7

BlocksInv ==
  /\ Blocks = [i \in 1 .. Top |-> BlockOf(i)] /\ Len(Blocks) = Top
  /\ Blocks \in Seq(SUBSET Map!Decls)
  /\ \A n \in Idents : View[n] = IF entries[n] = << >> THEN NoDecl
                                 ELSE Entry(n, Len(entries[n]))
  /\ View = [n \in Idents |-> View[n]]

LEMMA BlocksOK == RInv /\ valid => BlocksInv
<1> SUFFICES ASSUME RInv, valid PROVE BlocksInv
  OBVIOUS
<1>1. Top \in Nat /\ RankInv
  BY StateFacts, RankOK
<1>2. Blocks = [i \in 1 .. Top |-> BlockOf(i)]
  BY DEF Blocks, BlockOf, Rank, HoldersTo, RInv, EndsInv, Abandoned
<1>3. ASSUME NEW i \in 1 .. Top PROVE BlockOf(i) \in SUBSET Map!Decls
  <2> SUFFICES ASSUME NEW n \in Held(i) PROVE Entry(n, Rank(n, i)) \in Map!Decls
    BY DEF BlockOf
  <2>1. n \in Idents /\ entries[n] \in Seq(Entries)
    BY StateFacts
  <2>2. Rank(n, i) \in 1 .. Len(entries[n])
    BY <1>1, <2>1 DEF RankInv
  <2>3. entries[n][Rank(n, i)] \in Entries
    BY <2>1, <2>2, ElementOfSeq
  <2> QED
    BY <2>1, <2>3 DEF Entry, Entries, Map!Decls
<1>4. Blocks \in [1 .. Top -> SUBSET Map!Decls]
  BY <1>2, <1>3
<1>5. Blocks \in Seq(SUBSET Map!Decls) /\ Len(Blocks) = Top
  <2>1. Blocks \in Seq(SUBSET Map!Decls)
    BY <1>1, <1>4, SeqDef
  <2>2. DOMAIN Blocks = 1 .. Top
    BY <1>4
  <2> QED
    BY <1>1, <2>1, <2>2, LenProperties
<1>6. ASSUME NEW n \in Idents
      PROVE  View[n] = IF entries[n] = << >> THEN NoDecl ELSE Entry(n, Len(entries[n]))
  <2>1. entries[n] \in Seq(Entries)
    BY StateFacts
  <2>2. ASSUME entries[n] # << >> PROVE Last(entries[n]).kind # "Unknown"
    <3>1. Len(entries[n]) \in 1 .. Len(entries[n])
      BY <2>1, <2>2, EmptySeq
    <3>2. Last(entries[n]) \in Entries
      BY <2>1, <3>1, ElementOfSeq DEF Last
    <3> QED
      BY <3>2 DEF Entries, Kinds
  <2> QED
    BY <2>2 DEF View, classifyIdentifier
<1>7. View = [n \in Idents |-> View[n]]
  BY DEF View
<1> QED
  BY <1>2, <1>5, <1>6, <1>7 DEF BlocksInv

LEMMA NextOK == RInv' /\ valid' => BlocksInv' /\ RankInv'
<1>1. RInv /\ valid => BlocksInv /\ RankInv
  BY BlocksOK, RankOK
<1> QED
  BY <1>1, PTL

(* Steps of the map.                                                       *)

MapStep == [Map!Next]_(Map!vars)

LEMMA SameRank ==
  ASSUME NEW n, NEW i \in Nat, \A j \in 1 .. i : n \in Held(j)' <=> n \in Held(j)
  PROVE  Rank(n, i)' = Rank(n, i)
<1>1. HoldersTo(n, i)' = HoldersTo(n, i)
  BY DEF HoldersTo
<1> QED
  BY <1>1 DEF Rank

LEMMA SameBlock ==
  ASSUME NEW i, Held(i)' = Held(i),
         \A n \in Held(i) : /\ Rank(n, i)' = Rank(n, i)
                            /\ entries'[n][Rank(n, i)] = entries[n][Rank(n, i)]
  PROVE  BlockOf(i)' = BlockOf(i)
BY DEF BlockOf, Entry

(* What scopes hold stays: the map, too.                                   *)
LEMMA SameMap ==
  ASSUME RInv, RInv', valid, UNCHANGED <<entries, valid>>, Top' = Top,
         \A i \in 1 .. Top : Held(i)' = Held(i)
  PROVE  Blocks' = Blocks /\ View' = View
<1>1. Top \in Nat /\ BlocksInv /\ BlocksInv'
  BY StateFacts, BlocksOK, NextOK
<1>2. ASSUME NEW i \in 1 .. Top PROVE BlockOf(i)' = BlockOf(i)
  <2>1. \A n \in Held(i) : Rank(n, i)' = Rank(n, i)
    <3> SUFFICES ASSUME NEW n \in Held(i) PROVE Rank(n, i)' = Rank(n, i)
      OBVIOUS
    <3>1. \A j \in 1 .. i : Held(j)' = Held(j)
      BY <1>1
    <3> QED
      BY <3>1, SameRank
  <2> QED
    BY <2>1, SameBlock
<1>3. Blocks' = Blocks
  BY <1>1, <1>2 DEF BlocksInv
<1>4. View' = View
  BY DEF View, classifyIdentifier, Entry
<1> QED
  BY <1>3, <1>4

LEMMA NoMap ==
  ASSUME ~ valid, UNCHANGED valid
  PROVE  MapStep
BY DEF MapStep, Map!vars

(* A declaration in the innermost scope, which is where they all go.       *)
LEMMA DeclareMaps ==
  ASSUME RInv, RInv', valid, NEW n \in Idents, NEW kind \in Kinds,
         CurScope # None, ~ closing, n \notin objects[CurScope].DeclsInScope,
         Declare(n, kind, CurScope), UNCHANGED <<CurScope, cache, closing, left, valid>>
  PROVE  MapStep
<1>1. PICK T : T = Top
  OBVIOUS
<1>2. /\ InvFor(Stack) /\ T \in Nat /\ T > 0 /\ T = Len(Stack) /\ CurScope = Stack[T]
      /\ T \in 1 .. T
      /\ \A i \in 1 .. T : Held(i) \subseteq Idents /\ Stack[i] \in DOMAIN objects
      /\ \A i, j \in 1 .. T : Stack[i] = Stack[j] => i = j
  BY <1>1, StateFacts
<1>3. Stack' = Stack /\ Top' = T
  <2>1. PICK st : st = Stack
    OBVIOUS
  <2>2. InvFor(st)'
    BY <1>2, <2>1, DeclareStep
  <2> QED
    BY <1>1, <2>1, <2>2, InvForNextStack DEF Top
<1>4. /\ BlocksInv /\ BlocksInv' /\ RankInv /\ RankInv'
  BY BlocksOK, RankOK, NextOK
<1>5. PICK e \in Entries : e.id \in FreeIds /\ entries' = [entries EXCEPT ![n] = Append(@, e)]
  BY DEF Declare, FreeIds, Entries
<1>6. /\ entries[n] \in Seq(Entries) /\ Len(entries[n]) \in Nat
      /\ entries'[n] = Append(entries[n], e)
      /\ \A m \in Idents : m # n => entries'[m] = entries[m]
  BY <1>2, <1>5, StateFacts DEF InvFor, TypeInv
<1>7. /\ Len(entries'[n]) = Len(entries[n]) + 1 /\ entries'[n] # << >>
      /\ entries'[n][Len(entries[n]) + 1] = e
      /\ \A k \in 1 .. Len(entries[n]) : entries'[n][k] = entries[n][k]
  BY <1>6, AppendProperties
<1>8. objects' = [objects EXCEPT ![CurScope].DeclsInScope = @ \cup {n}]
  BY DEF Declare
<1>9. ASSUME NEW i \in 1 .. T
      PROVE  /\ Held(i) = objects[Stack[i]].DeclsInScope
             /\ Held(i)' = IF i = T THEN Held(i) \cup {n} ELSE Held(i)
  <2>1. Held(i) = objects[Stack[i]].DeclsInScope /\ Held(i)' = objects'[Stack[i]].DeclsInScope
    BY <1>3 DEF Held
  <2>2. PICK a \in DOMAIN objects : a = Stack[i]
    BY <1>2
  <2>3. a = CurScope <=> i = T
    BY <1>2, <2>2
  <2>4. objects[a] \in ScopeType
    BY <1>2 DEF InvFor, TypeInv
  <2>5. CASE i = T
    <3>1. objects'[a] = [objects[a] EXCEPT !.DeclsInScope = @ \cup {n}]
      BY <1>8, <2>3, <2>5
    <3>2. objects'[a].DeclsInScope = objects[a].DeclsInScope \cup {n}
      BY <2>4, <3>1 DEF ScopeType
    <3> QED
      BY <2>1, <2>2, <2>5, <3>2
  <2>6. CASE i # T
    <3>1. objects'[a] = objects[a]
      BY <1>8, <2>3, <2>6
    <3> QED
      BY <2>1, <2>2, <2>6, <3>1
  <2> QED
    BY <2>5, <2>6
<1>10. n \notin Held(T) /\ Held(T)' = Held(T) \cup {n}
  BY <1>2, <1>9
<1> DEFINE x == [id |-> e.id, name |-> n]
<1>11. x \in Map!Decls /\ x.name = n
  BY DEF Entries, Map!Decls
<1>12. ASSUME NEW i \in 1 .. T, NEW m \in Held(i)
       PROVE  /\ Rank(m, i)' = Rank(m, i)
              /\ entries'[m][Rank(m, i)] = entries[m][Rank(m, i)]
  <2>1. m \in Idents /\ Rank(m, i) \in 1 .. Len(entries[m]) /\ i \in Nat /\ i <= T
    BY <1>1, <1>2, <1>4 DEF RankInv
  <2>2. \A j \in 1 .. i : m \in Held(j)' <=> m \in Held(j)
    <3> SUFFICES ASSUME NEW j \in 1 .. i PROVE m \in Held(j)' <=> m \in Held(j)
      OBVIOUS
    <3>1. j \in 1 .. T
      BY <1>2, <2>1
    <3>2. CASE j = T
      <4>1. i = T
        BY <1>2, <2>1, <3>2
      <4> QED
        BY <1>9, <1>10, <3>1, <4>1
    <3>3. CASE j # T
      BY <1>9, <3>1, <3>3
    <3> QED
      BY <3>2, <3>3
  <2>3. Rank(m, i)' = Rank(m, i)
    BY <2>1, <2>2, SameRank
  <2>4. entries'[m][Rank(m, i)] = entries[m][Rank(m, i)]
    <3>1. CASE m = n
      BY <1>7, <2>1, <3>1
    <3>2. CASE m # n
      BY <1>6, <2>1, <3>2
    <3> QED
      BY <3>1, <3>2
  <2> QED
    BY <2>3, <2>4
<1>13. ASSUME NEW i \in 1 .. T, i # T PROVE BlockOf(i)' = BlockOf(i)
  BY <1>9, <1>12, <1>13, SameBlock
<1>14. BlockOf(T)' = BlockOf(T) \cup {x}
  <2>1. \A m \in Held(T) : Entry(m, Rank(m, T))' = Entry(m, Rank(m, T))
    BY <1>2, <1>12 DEF Entry
  <2>2. Rank(n, T)' = Len(entries[n]) + 1
    <3>1. Rank(n, T)' = Len(entries'[n])
      <4>1. RankInv'
        BY <1>4
      <4>2. /\ T \in 1 .. Top'
            /\ \A j \in T + 1 .. Top' : n \notin Held(j)'
        BY <1>2, <1>3
      <4> QED
        BY <4>1, <4>2 DEF RankInv
    <3> QED
      BY <1>7, <3>1
  <2>3. Entry(n, Rank(n, T))' = x
    BY <1>7, <2>2 DEF Entry
  <2>4. /\ BlockOf(T) = {Entry(m, Rank(m, T)) : m \in Held(T)}
        /\ BlockOf(T)' = {Entry(m, Rank(m, T))' : m \in Held(T)'}
    BY DEF BlockOf
  <2> HIDE DEF x
  <2> QED
    BY <1>10, <2>1, <2>3, <2>4
<1> HIDE DEF x
<1>15. /\ Len(Blocks) = T /\ Blocks = [i \in 1 .. T |-> BlockOf(i)]
       /\ Blocks' = [i \in 1 .. T |-> BlockOf(i)']
  BY <1>1, <1>3, <1>4 DEF BlocksInv
<1>16. Blocks' = [Blocks EXCEPT ![T] = @ \cup {x}]
  BY <1>2, <1>13, <1>14, <1>15
<1>17. ASSUME NEW i \in 1 .. T PROVE x \notin Blocks[i]
  <2> SUFFICES ASSUME NEW m \in Held(i), x = Entry(m, Rank(m, i)) PROVE FALSE
    BY <1>15 DEF BlockOf
  <2>1. m \in Idents /\ Rank(m, i) \in 1 .. Len(entries[m])
    BY <1>1, <1>2, <1>4 DEF RankInv
  <2>2. e.id = entries[m][Rank(m, i)].id
    BY DEF Entry, x
  <2>3. e.id \in InUse
    BY <2>1, <2>2 DEF InUse
  <2> QED
    BY <1>5, <2>3 DEF FreeIds
<1>18. ~ Map!DeclaredIn(n, Blocks[T])
  BY <1>2, <1>10, <1>15 DEF Map!DeclaredIn, BlockOf, Entry
<1>19. View' = [View EXCEPT ![n] = x]
  <2>1. \A m \in Idents : View'[m] = IF m = n THEN x ELSE View[m]
    <3> SUFFICES ASSUME NEW m \in Idents PROVE View'[m] = IF m = n THEN x ELSE View[m]
      OBVIOUS
    <3>1. CASE m = n
      <4>1. View'[n] = [id |-> entries'[n][Len(entries'[n])].id, name |-> n]
        BY <1>4, <1>7 DEF BlocksInv, Entry
      <4> QED
        BY <1>7, <3>1, <4>1 DEF x
    <3>2. CASE m # n
      <4>1. View'[m] = IF entries'[m] = << >> THEN NoDecl
                       ELSE [id |-> entries'[m][Len(entries'[m])].id, name |-> m]
        BY <1>4 DEF BlocksInv, Entry
      <4>2. View[m] = IF entries[m] = << >> THEN NoDecl
                      ELSE [id |-> entries[m][Len(entries[m])].id, name |-> m]
        BY <1>4 DEF BlocksInv, Entry
      <4> QED
        BY <1>6, <3>2, <4>1, <4>2
    <3> QED
      BY <3>1, <3>2
  <2>2. View = [m \in Idents |-> View[m]] /\ View' = [m \in Idents |-> View'[m]]
    BY <1>4 DEF BlocksInv
  <2> HIDE DEF View
  <2> QED
    BY <2>1, <2>2
<1>20. Map!Declare(x)
  BY <1>2, <1>11, <1>15, <1>16, <1>17, <1>18, <1>19 DEF Map!Declare
<1> QED
  BY <1>11, <1>20 DEF MapStep, Map!Next

(* What a name is classified as is the innermost block's declaration.      *)
ViewInv == \A n \in Idents : Map!Innermost(n, Blocks) = View[n]

LEMMA ViewOK == RInv /\ valid => ViewInv
<1> SUFFICES ASSUME RInv, valid, NEW n \in Idents
             PROVE  Map!Innermost(n, Blocks) = View[n]
  BY DEF ViewInv
<1>1. /\ Top \in Nat /\ BlocksInv /\ RankInv /\ Len(entries[n]) = Rank(n, Top)
      /\ entries[n] \in Seq(Entries) /\ Len(entries[n]) \in Nat
  BY StateFacts, RankOK, BlocksOK
<1>2. /\ Len(Blocks) = Top /\ \A i \in 1 .. Top : Blocks[i] = BlockOf(i)
  BY <1>1 DEF BlocksInv
<1>3. ASSUME NEW i \in 1 .. Top
      PROVE  /\ Map!DeclaredIn(n, Blocks[i]) <=> n \in Held(i)
             /\ \A d \in Blocks[i] : d.name = n => d = Entry(n, Rank(n, i))
             /\ n \in Held(i) => Entry(n, Rank(n, i)) \in Blocks[i]
  BY <1>2 DEF Map!DeclaredIn, BlockOf, Entry
<1>4. View[n] = IF entries[n] = << >> THEN NoDecl ELSE Entry(n, Len(entries[n]))
  BY <1>1 DEF BlocksInv
<1>5. CASE entries[n] = << >>
  <2>1. \A i \in 1 .. Top : n \notin Held(i)
    BY <1>1, <1>5 DEF RankInv
  <2>2. ~ \E i \in 1 .. Len(Blocks) : Map!DeclaredIn(n, Blocks[i])
    BY <1>2, <1>3, <2>1
  <2> QED
    BY <1>4, <1>5, <2>2 DEF Map!Innermost
<1>6. CASE entries[n] # << >>
  <2>1. HoldersTo(n, Top) \in SUBSET (1 .. Top) /\ HoldersTo(n, Top) # {}
    <3>1. Rank(n, Top) # 0
      BY <1>1, <1>6, EmptySeq
    <3> QED
      BY <3>1, FS_EmptySet DEF HoldersTo, Rank
  <2>2. PICK m \in HoldersTo(n, Top) : \A i \in HoldersTo(n, Top) : m >= i
    BY <1>1, <2>1, GreatestElement
  <2>3. m \in 1 .. Top /\ n \in Held(m) /\ \A j \in m + 1 .. Top : n \notin Held(j)
    <3>1. m \in 1 .. Top /\ n \in Held(m)
      BY DEF HoldersTo
    <3>2. ASSUME NEW j \in m + 1 .. Top, n \in Held(j) PROVE FALSE
      <4>1. j \in HoldersTo(n, Top) /\ ~ (m >= j)
        BY <1>1, <3>1, <3>2 DEF HoldersTo
      <4> QED
        BY <2>2, <4>1
    <3> QED
      BY <3>1, <3>2
  <2>4. Rank(n, m) = Len(entries[n])
    BY <1>1, <2>3 DEF RankInv
  <2> DEFINE P(k) == /\ Map!DeclaredIn(n, Blocks[k])
                     /\ \A j \in k + 1 .. Len(Blocks) : ~ Map!DeclaredIn(n, Blocks[j])
             i == CHOOSE k \in 1 .. Len(Blocks) : P(k)
             x == CHOOSE d \in Blocks[i] : d.name = n
  <2>5. P(m)
    <3>1. \A j \in m + 1 .. Top : j \in 1 .. Top
      BY <2>3
    <3> QED
      BY <1>2, <1>3, <2>3, <3>1
  <2>6. i = m
    <3>1. ASSUME NEW k \in 1 .. Top, P(k) PROVE k = m
      <4>1. ~ (k \in m + 1 .. Top) /\ ~ (m \in k + 1 .. Top)
        BY <1>2, <2>3, <2>5, <3>1
      <4> QED
        BY <1>1, <2>3, <4>1
    <3> HIDE DEF P
    <3> QED
      BY <1>2, <2>3, <2>5, <3>1
  <2>7. Map!Innermost(n, Blocks) = x
    BY <1>2, <2>3, <2>5 DEF Map!Innermost
  <2>8. x = Entry(n, Rank(n, m))
    <3>1. Entry(n, Rank(n, m)) \in Blocks[m] /\ Entry(n, Rank(n, m)).name = n
      BY <1>3, <2>3 DEF Entry
    <3>2. \A d \in Blocks[m] : d.name = n => d = Entry(n, Rank(n, m))
      BY <1>3, <2>3
    <3> HIDE DEF i
    <3> QED
      BY <2>6, <3>1, <3>2
  <2> QED
    BY <1>4, <1>6, <2>4, <2>7, <2>8
<1> QED
  BY <1>5, <1>6

LEMMA NextViewOK == RInv' /\ valid' => ViewInv'
<1>1. RInv /\ valid => ViewInv
  BY ViewOK
<1> QED
  BY <1>1, PTL

(* How steps change the stack.                                             *)

LEMMA SameStack ==
  ASSUME RInv,
         \/ \E n \in Idents : \/ ActOnImportSpec(n) \/ ActOnTypeSpec(n) \/ ActOnFunctionDecl(n)
                              \/ ActOnPopScope(n)
         \/ ExitScope \/ (DestroyParser /\ CurScope = None) \/ UNCHANGED vars
  PROVE  Stack' = Stack /\ Top' = Top
<1>1. PICK st : st = Stack
  OBVIOUS
<1>2. InvFor(st) /\ Top = Len(st) /\ Len(st) \in Nat
  BY <1>1, StateFacts
<1>3. Stack' = st => Stack' = Stack /\ Top' = Top
  BY <1>1 DEF Top
<1>4. ASSUME NEW n \in Idents, ActOnImportSpec(n) \/ ActOnTypeSpec(n) \/ ActOnFunctionDecl(n)
      PROVE  Stack' = st
  <2>1. /\ CurScope # None /\ ~ closing
        /\ UNCHANGED <<CurScope, cache, closing, left>>
        /\ \E kind \in Kinds : \E s \in {TUScope, CurScope} : Declare(n, kind, s)
    BY <1>4 DEF ActOnImportSpec, ActOnTypeSpec, ActOnFunctionDecl, MayDeclare, Kinds
  <2>2. PICK kind \in Kinds : \E p \in 1 .. Len(st) : Declare(n, kind, st[p])
    <3>1. Len(st) > 0 /\ CurScope = st[Len(st)] /\ TUScope = st[1]
      BY <1>1, <1>2, <2>1, StateFacts DEF TUScope
    <3>2. 1 \in 1 .. Len(st) /\ Len(st) \in 1 .. Len(st)
      BY <1>2, <3>1
    <3> QED
      BY <2>1, <3>1, <3>2
  <2>3. InvFor(st)'
    BY <1>2, <2>1, <2>2, DeclareStep
  <2> QED
    BY <2>3, InvForNextStack
<1>5. ASSUME NEW n \in Idents, ActOnPopScope(n) PROVE Stack' = st
  BY <1>2, <1>5, PopStep, InvForNextStack
<1>6. ASSUME ExitScope PROVE Stack' = st
  BY <1>2, <1>6, ExitStep, InvForNextStack
<1>7. ASSUME DestroyParser, CurScope = None PROVE Stack' = st
  BY <1>2, <1>7, DestroyStep, InvForNextStack
<1>8. ASSUME UNCHANGED vars PROVE Stack' = st
  BY <1>1, <1>8, StackIsFrom DEF vars
<1> QED
  BY <1>3, <1>4, <1>5, <1>6, <1>7, <1>8

LEMMA FrontStack ==
  ASSUME RInv, RecycleScope
  PROVE  /\ Stack # << >> /\ Top > 0 /\ Stack' = Front(Stack) /\ Top' = Top - 1
         /\ \A i \in 1 .. Top - 1 : Stack'[i] = Stack[i]
<1>1. PICK st : st = Stack
  OBVIOUS
<1>2. InvFor(st) /\ Top = Len(st) /\ st \in Seq(Nat) /\ closing
  BY <1>1, StateFacts DEF RecycleScope
<1>3. Stack' = Front(st)
  <2>1. PICK t : t = Front(st)
    OBVIOUS
  <2>2. InvFor(t)'
    BY <1>2, <2>1, RecycleStep
  <2> QED
    BY <2>1, <2>2, InvForNextStack
<1>4. Top > 0 /\ st # << >>
  BY <1>1, <1>2, StateFacts, EmptySeq DEF InvFor, ClosingInv
<1>5. Len(Front(st)) = Len(st) - 1 /\ \A i \in 1 .. Len(st) - 1 : Front(st)[i] = st[i]
  BY <1>2, <1>4, FrontIs
<1> QED
  BY <1>1, <1>2, <1>3, <1>4, <1>5 DEF Top

LEMMA RInvariance ==
  ASSUME RInv, [Next]_vars, DestroyParser => CurScope = None
  PROVE  RInv'
<1>1. IInv' /\ EndsInv'
  BY InvStep, EndsStep DEF RInv
<1>2. Top \in Nat
  BY StateFacts
<1>3. ASSUME NEW n \in Idents, ActOnImportSpec(n) \/ ActOnTypeSpec(n) \/ ActOnFunctionDecl(n)
      PROVE  RInv'
  <2>1. /\ valid' = valid /\ (importing' => importing)
        /\ \E s \in {TUScope, CurScope} :
             /\ n \in objects[s].DeclsInScope => ~ valid
             /\ again' = [again EXCEPT ![n] = IF n \in objects[s].DeclsInScope THEN @ + 1 ELSE @]
    BY <1>3 DEF ActOnImportSpec, ActOnTypeSpec, ActOnFunctionDecl, MayDeclare, Declare
  <2>2. again \in [Idents -> Nat]
    BY DEF RInv, IInv, InvFor, TypeInv
  <2>3. valid' => \A m \in Idents : again'[m] = 0
    BY <2>1, <2>2 DEF RInv
  <2>4. Top' = Top
    BY <1>3, SameStack
  <2> QED
    BY <1>1, <2>1, <2>3, <2>4 DEF RInv
<1>4. ASSUME \/ \E n \in Idents : ActOnPopScope(n)
             \/ ExitScope \/ (DestroyParser /\ CurScope = None) \/ UNCHANGED vars
      PROVE  RInv'
  <2>1. UNCHANGED <<valid, again>> /\ (importing' => importing)
    BY <1>4 DEF ActOnPopScope, ExitScope, DestroyParser, vars
  <2>2. Top' = Top
    BY <1>4, SameStack
  <2> QED
    BY <1>1, <2>1, <2>2 DEF RInv
<1>5. ASSUME RecycleScope PROVE RInv'
  <2>1. UNCHANGED <<valid, again, importing>>
    BY <1>5 DEF RecycleScope
  <2>2. Top' = Top - 1 /\ Top > 0
    BY <1>5, FrontStack
  <2> QED
    BY <1>1, <1>2, <2>1, <2>2 DEF RInv
<1>6. ASSUME ParseFunctionBody \/ ParseBlock \/ ParseStructType PROVE RInv'
  <2>1. UNCHANGED <<valid, again>> /\ ~ importing'
    BY <1>6 DEF ParseFunctionBody, ParseBlock, ParseStructType, Open
  <2> QED
    BY <1>1, <2>1 DEF RInv
<1> QED
  BY <1>3, <1>4, <1>5, <1>6 DEF Next

ScopesDiffer == \A i, j \in 1 .. Top : Stack[i] = Stack[j] => i = j

LEMMA NextScopesDiffer == RInv' => ScopesDiffer'
<1>1. RInv => ScopesDiffer
  BY StateFacts DEF ScopesDiffer
<1> QED
  BY <1>1, PTL

(* A scope that is opened is an empty block.                               *)
LEMMA OpenMaps ==
  ASSUME RInv, RInv', valid, NEW flags \in SUBSET Flags, Open(flags)
  PROVE  MapStep
<1>1. PICK T : T = Top
  OBVIOUS
<1>2. PICK st : st = Stack
  OBVIOUS
<1>3. /\ InvFor(st) /\ T \in Nat /\ T = Len(st) /\ st \in Seq(Nat)
      /\ \A i \in 1 .. T : st[i] \in DOMAIN objects
  BY <1>1, <1>2, StateFacts
<1>4. /\ UNCHANGED <<entries, closing, valid>> /\ ~ closing /\ EnterScope(flags)
  BY DEF Open
<1>5. PICK a : a = CurScope' /\ InvFor(Append(st, a))'
  BY <1>3, OpenStep
<1>6. Stack' = Append(st, a)
  <2>1. PICK t : t = Append(st, a)
    OBVIOUS
  <2> QED
    BY <1>5, <2>1, InvForNextStack
<1>7. /\ Len(Append(st, a)) = T + 1 /\ Append(st, a)[T + 1] = a
      /\ \A i \in 1 .. T : Append(st, a)[i] = st[i]
  BY <1>3, AppendProperties
<1>8. Top' = T + 1
  BY <1>6, <1>7 DEF Top
<1>9. \A i, j \in 1 .. T + 1 : Append(st, a)[i] = Append(st, a)[j] => i = j
  BY <1>6, <1>8, NextScopesDiffer DEF ScopesDiffer
<1>10. objects' = [b \in DOMAIN objects \cup {a} |->
                    IF b = a THEN ScopeInit(b, flags) ELSE objects[b]]
  BY <1>4, <1>5 DEF EnterScope
<1>11. ASSUME NEW i \in 1 .. T PROVE Held(i)' = Held(i)
  <2>1. st[i] # a
    <3>1. i \in 1 .. T + 1 /\ T + 1 \in 1 .. T + 1 /\ i # T + 1
      BY <1>3
    <3> QED
      BY <1>7, <1>9, <3>1
  <2>2. objects'[st[i]] = objects[st[i]]
    BY <1>3, <1>10, <2>1
  <2> QED
    BY <1>2, <1>4, <1>6, <1>7, <2>2 DEF Held
<1>12. Held(T + 1)' = {}
  <2>1. objects'[a] = ScopeInit(a, flags)
    BY <1>10
  <2>2. objects'[a].DeclsInScope = {}
    BY <2>1 DEF ScopeInit
  <2> QED
    BY <1>4, <1>6, <1>7, <2>2 DEF Held
<1>13. ASSUME NEW i \in 1 .. T PROVE BlockOf(i)' = BlockOf(i)
  <2>1. ASSUME NEW n \in Held(i) PROVE Rank(n, i)' = Rank(n, i)
    <3>1. i \in Nat /\ \A j \in 1 .. i : Held(j)' = Held(j)
      BY <1>3, <1>11
    <3> QED
      BY <3>1, SameRank
  <2> QED
    BY <1>4, <1>11, <2>1, SameBlock
<1>14. ASSUME NEW i, i = T + 1 PROVE BlockOf(i)' = {}
  BY <1>12, <1>14 DEF BlockOf
<1>15. Blocks' = Append(Blocks, {})
  <2>1. /\ Len(Blocks) = T /\ Blocks \in Seq(SUBSET Map!Decls)
        /\ \A i \in 1 .. T : Blocks[i] = BlockOf(i)
    BY <1>1, BlocksOK DEF BlocksInv
  <2>2. /\ Len(Blocks') = T + 1 /\ Blocks' \in Seq(SUBSET Map!Decls)
        /\ \A i \in 1 .. T + 1 : Blocks'[i] = BlockOf(i)'
    <3>1. BlocksInv'
      BY <1>4, NextOK
    <3> QED
      BY <1>8, <3>1 DEF BlocksInv
  <2>3. PICK bs \in Seq(SUBSET Map!Decls) : bs = Blocks
    BY <2>1
  <2>4. PICK b \in SUBSET Map!Decls : b = {}
    OBVIOUS
  <2>5. /\ Append(bs, b) \in Seq(SUBSET Map!Decls) /\ Len(Append(bs, b)) = T + 1
        /\ Append(bs, b)[T + 1] = b /\ \A i \in 1 .. T : Append(bs, b)[i] = bs[i]
    BY <2>1, <2>3, AppendProperties
  <2>6. ASSUME NEW i \in 1 .. T + 1 PROVE Blocks'[i] = Append(bs, b)[i]
    <3>1. CASE i \in 1 .. T
      <4>1. Blocks'[i] = BlockOf(i)
        BY <1>13, <2>2, <3>1
      <4>2. Append(bs, b)[i] = BlockOf(i)
        BY <2>1, <2>3, <2>5, <3>1
      <4> QED
        BY <4>1, <4>2
    <3>2. CASE i = T + 1
      <4>1. Blocks'[i] = {}
        BY <1>14, <2>2, <3>2
      <4>2. Append(bs, b)[i] = b
        BY <2>5, <3>2
      <4> QED
        BY <2>4, <4>1, <4>2
    <3>3. i \in 1 .. T \/ i = T + 1
      BY <1>3
    <3> QED
      BY <3>1, <3>2, <3>3
  <2>7. Blocks' = Append(bs, b)
    BY <2>2, <2>5, <2>6, SeqEqual
  <2> QED
    BY <2>3, <2>4, <2>7
<1>16. View' = View
  BY <1>4 DEF View, classifyIdentifier, Entry
<1>17. Map!Open
  BY <1>4, <1>15, <1>16 DEF Map!Open
<1> QED
  BY <1>17 DEF MapStep, Map!Next

LEMMA ExitMaps ==
  ASSUME RInv, RInv', valid, ExitScope
  PROVE  MapStep
<1>1. /\ CurScope # None /\ ~ closing /\ closing' = TRUE
      /\ left' = objects[CurScope].DeclsInScope
      /\ UNCHANGED <<objects, entries, valid>>
  BY DEF ExitScope
<1>2. Stack' = Stack /\ Top' = Top
  BY SameStack
<1>3. Top > 0 /\ CurScope = Stack[Top] /\ Top \in Nat
  BY <1>1, StateFacts
<1>4. \A i \in 1 .. Top : Held(i)' = Held(i)
  BY <1>1, <1>2, <1>3 DEF Held
<1>5. Blocks' = Blocks /\ View' = View
  BY <1>1, <1>2, <1>4, SameMap
<1>6. Len(Blocks) = Top
  BY BlocksOK DEF BlocksInv
<1>7. Map!Close
  BY <1>1, <1>3, <1>5, <1>6 DEF Map!Close
<1> QED
  BY <1>7 DEF MapStep, Map!Next

(* Popping the last entry of a name forgets the declaration it is of, and  *)
(* uncovers the one in the next scope further out.                         *)
LEMMA PopMaps ==
  ASSUME RInv, RInv', valid, NEW n \in Idents, ActOnPopScope(n)
  PROVE  MapStep
<1>1. /\ closing /\ n \in left
      /\ entries' = [entries EXCEPT ![n] = Front(@)]
      /\ left' = left \ {n}
      /\ UNCHANGED <<objects, CurScope, closing, valid>>
  BY DEF ActOnPopScope
<1>2. PICK T : T = Top
  OBVIOUS
<1>3. Stack' = Stack /\ Top' = T
  BY <1>2, SameStack
<1>4. /\ T \in Nat /\ T > 0 /\ T \in 1 .. T
      /\ \A i \in 1 .. T : Held(i) \subseteq Idents
      /\ entries[n] \in Seq(Entries) /\ Len(entries[n]) \in Nat
      /\ RankInv /\ RankInv' /\ BlocksInv /\ BlocksInv' /\ ViewInv'
  <2>1. T \in Nat /\ T > 0
    BY <1>1, <1>2, StateFacts DEF InvFor, ClosingInv
  <2> QED
    BY <1>1, <1>2, <2>1, StateFacts, RankOK, BlocksOK, NextOK, NextViewOK
<1>5. /\ Held(T) = left /\ Held(T)' = left \ {n}
      /\ \A i \in 1 .. T : i # T => Held(i)' = Held(i)
  BY <1>1, <1>2, <1>3 DEF Held
<1>6. Rank(n, T) = Len(entries[n]) /\ Rank(n, T) > 0 /\ Rank(n, T) \in 1 .. Len(entries[n])
  BY <1>1, <1>2, <1>4, <1>5, StateFacts DEF RankInv
<1>7. /\ entries'[n] = Front(entries[n])
      /\ Len(entries'[n]) = Len(entries[n]) - 1
      /\ \A k \in 1 .. Len(entries[n]) - 1 : entries'[n][k] = entries[n][k]
      /\ \A m \in Idents : m # n => entries'[m] = entries[m]
  <2>1. entries'[n] = Front(entries[n]) /\ \A m \in Idents : m # n => entries'[m] = entries[m]
    BY <1>1, StateFacts DEF InvFor, TypeInv
  <2>2. entries[n] # << >>
    BY <1>6
  <2> QED
    BY <1>4, <2>1, <2>2, FrontIs
<1> DEFINE x == Entry(n, Rank(n, T))
<1>8. /\ Len(Blocks) = T /\ Blocks = [i \in 1 .. T |-> BlockOf(i)]
      /\ Blocks' = [i \in 1 .. T |-> BlockOf(i)']
  BY <1>2, <1>3, <1>4 DEF BlocksInv
<1>9. x \in Blocks[T] /\ x.name = n
  BY <1>1, <1>4, <1>5, <1>8 DEF BlockOf, Entry
<1>10. x \in Map!Decls
  <2>1. entries[n][Rank(n, T)] \in Entries
    BY <1>4, <1>6, ElementOfSeq
  <2> QED
    BY <2>1 DEF Entry, Entries, Map!Decls
<1>11. ASSUME NEW i \in 1 .. T, NEW m \in Held(i), m # n \/ i # T
       PROVE  /\ Rank(m, i)' = Rank(m, i)
              /\ entries'[m][Rank(m, i)] = entries[m][Rank(m, i)]
  <2>1. m \in Idents /\ Rank(m, i) \in 1 .. Len(entries[m]) /\ i \in Nat /\ i <= T
    BY <1>2, <1>4 DEF RankInv
  <2>2. \A j \in 1 .. i : m \in Held(j)' <=> m \in Held(j)
    <3> SUFFICES ASSUME NEW j \in 1 .. i PROVE m \in Held(j)' <=> m \in Held(j)
      OBVIOUS
    <3>1. j \in 1 .. T
      BY <1>4, <2>1
    <3>2. CASE j = T
      <4>1. m # n
        BY <1>4, <1>11, <2>1, <3>2
      <4> QED
        BY <1>5, <3>2, <4>1
    <3>3. CASE j # T
      BY <1>5, <3>1, <3>3
    <3> QED
      BY <3>2, <3>3
  <2>3. Rank(m, i)' = Rank(m, i)
    BY <2>1, <2>2, SameRank
  <2>4. entries'[m][Rank(m, i)] = entries[m][Rank(m, i)]
    <3>1. CASE m = n
      <4>1. Rank(m, i)' <= Len(entries'[n])
        <5>1. \A l \in Idents : \A j \in 1 .. T : Rank(l, j)' \in 0 .. Len(entries'[l])
          BY <1>3, <1>4 DEF RankInv
        <5> QED
          BY <3>1, <5>1
      <4>2. Rank(m, i) \in 1 .. Len(entries[n]) - 1
        BY <1>4, <1>7, <2>1, <2>3, <3>1, <4>1
      <4> QED
        BY <1>7, <3>1, <4>2
    <3>2. CASE m # n
      BY <1>7, <2>1, <3>2
    <3> QED
      BY <3>1, <3>2
  <2> QED
    BY <2>3, <2>4
<1>12. ASSUME NEW i \in 1 .. T, i # T PROVE BlockOf(i)' = BlockOf(i)
  BY <1>5, <1>11, <1>12, SameBlock
<1>13. BlockOf(T)' = BlockOf(T) \ {x}
  <2>1. \A m \in left \ {n} : Entry(m, Rank(m, T))' = Entry(m, Rank(m, T))
    BY <1>4, <1>5, <1>11 DEF Entry
  <2>2. \A m : Entry(m, Rank(m, T)).name = m
    BY DEF Entry
  <2>3. /\ BlockOf(T) = {Entry(m, Rank(m, T)) : m \in left}
        /\ BlockOf(T)' = {Entry(m, Rank(m, T))' : m \in left \ {n}}
    BY <1>5 DEF BlockOf
  <2>4. BlockOf(T)' = {Entry(m, Rank(m, T)) : m \in left \ {n}}
    BY <2>1, <2>3
  <2> QED
    BY <2>2, <2>3, <2>4
<1> HIDE DEF x
<1>14. Blocks' = [Blocks EXCEPT ![T] = @ \ {x}]
  BY <1>4, <1>8, <1>12, <1>13
<1>15. View' = [View EXCEPT ![n] = View'[n]]
  <2>1. \A m \in Idents : m # n => View'[m] = View[m]
    <3> SUFFICES ASSUME NEW m \in Idents, m # n PROVE View'[m] = View[m]
      OBVIOUS
    <3>1. View'[m] = IF entries'[m] = << >> THEN NoDecl
                     ELSE [id |-> entries'[m][Len(entries'[m])].id, name |-> m]
      BY <1>4 DEF BlocksInv, Entry
    <3>2. View[m] = IF entries[m] = << >> THEN NoDecl
                    ELSE [id |-> entries[m][Len(entries[m])].id, name |-> m]
      BY <1>4 DEF BlocksInv, Entry
    <3> QED
      BY <1>7, <3>1, <3>2
  <2>2. View = [m \in Idents |-> View[m]] /\ View' = [m \in Idents |-> View'[m]]
    BY <1>4 DEF BlocksInv
  <2> HIDE DEF View
  <2> QED
    BY <2>1, <2>2
<1>16. View'[n] = Map!Innermost(n, Blocks')
  BY <1>4 DEF ViewInv
<1>17. Map!Forget(x)
  <2> HIDE DEF Blocks, View, Map!Innermost
  <2> QED
    BY <1>1, <1>8, <1>9, <1>14, <1>15, <1>16 DEF Map!Forget
<1> QED
  BY <1>10, <1>17 DEF MapStep, Map!Next

(* The scope that is left holds nothing any more.                          *)
LEMMA RecycleMaps ==
  ASSUME RInv, RInv', valid, RecycleScope
  PROVE  MapStep
<1>1. PICK T : T = Top
  OBVIOUS
<1>2. /\ closing /\ left = {} /\ closing' = FALSE /\ UNCHANGED <<entries, valid>>
      /\ \A a \in DOMAIN objects \ {CurScope} : objects'[a] = objects[a]
  BY DEF RecycleScope
<1>3. /\ T \in Nat /\ T > 0 /\ Top' = T - 1 /\ \A i \in 1 .. T - 1 : Stack'[i] = Stack[i]
  BY <1>1, FrontStack, StateFacts
<1>4. /\ CurScope = Stack[T]
      /\ \A i \in 1 .. T : Stack[i] \in DOMAIN objects
      /\ \A i, j \in 1 .. T : Stack[i] = Stack[j] => i = j
  BY <1>1, <1>3, StateFacts
<1>5. T \in 1 .. T /\ \A i \in 1 .. T - 1 : i \in 1 .. T /\ i # T
  BY <1>3
<1>6. ASSUME NEW i \in 1 .. T - 1 PROVE Held(i)' = Held(i)
  <2>1. Stack[i] \in DOMAIN objects \ {CurScope}
    BY <1>4, <1>5
  <2> QED
    BY <1>1, <1>2, <1>3, <1>5, <2>1 DEF Held
<1>7. ASSUME NEW i \in 1 .. T - 1 PROVE BlockOf(i)' = BlockOf(i)
  <2>1. ASSUME NEW n \in Held(i) PROVE Rank(n, i)' = Rank(n, i)
    <3>1. i \in Nat /\ \A j \in 1 .. i : Held(j)' = Held(j)
      BY <1>3, <1>6
    <3> QED
      BY <3>1, SameRank
  <2> QED
    BY <1>2, <1>6, <2>1, SameBlock
<1>8. /\ Len(Blocks) = T /\ Blocks \in Seq(SUBSET Map!Decls)
      /\ \A i \in 1 .. T : Blocks[i] = BlockOf(i)
  BY <1>1, BlocksOK DEF BlocksInv
<1>9. /\ Len(Blocks') = T - 1 /\ Blocks' \in Seq(SUBSET Map!Decls)
      /\ \A i \in 1 .. T - 1 : Blocks'[i] = BlockOf(i)'
  <2>1. BlocksInv'
    BY <1>2, NextOK
  <2> QED
    BY <1>3, <2>1 DEF BlocksInv
<1>10. Blocks[Len(Blocks)] = {}
  <2>1. Held(T) = {}
    BY <1>1, <1>2 DEF Held
  <2> QED
    BY <1>5, <1>8, <2>1 DEF BlockOf
<1>11. Blocks' = SubSeq(Blocks, 1, Len(Blocks) - 1)
  <2>1. PICK bs \in Seq(SUBSET Map!Decls) : bs = Blocks
    BY <1>8
  <2>2. bs # << >>
    BY <1>3, <1>8, <2>1
  <2>3. /\ Front(bs) \in Seq(SUBSET Map!Decls) /\ Len(Front(bs)) = T - 1
        /\ \A i \in 1 .. T - 1 : Front(bs)[i] = bs[i]
    BY <1>8, <2>1, <2>2, FrontIs
  <2>4. Blocks' = Front(bs)
    BY <1>5, <1>7, <1>8, <1>9, <2>1, <2>3, SeqEqual
  <2> QED
    BY <2>1, <2>4 DEF Front
<1>12. View' = View
  BY <1>2 DEF View, classifyIdentifier, Entry
<1>13. Map!Drop
  BY <1>2, <1>10, <1>11, <1>12 DEF Map!Drop
<1> QED
  BY <1>13 DEF MapStep, Map!Next

(* Imports are declared in the scope of the translation unit, which is the *)
(* innermost one as long as they go on.                                    *)
LEMMA DeclarationMaps ==
  ASSUME RInv, RInv', valid, NEW n \in Idents,
         ActOnImportSpec(n) \/ ActOnTypeSpec(n) \/ ActOnFunctionDecl(n)
  PROVE  MapStep
<1>1. /\ CurScope # None /\ ~ closing
      /\ UNCHANGED <<CurScope, cache, closing, left, valid>>
  BY DEF ActOnImportSpec, ActOnTypeSpec, ActOnFunctionDecl, MayDeclare
<1>2. CASE ActOnTypeSpec(n) \/ ActOnFunctionDecl(n)
  <2>1. n \notin objects[CurScope].DeclsInScope /\ \E kind \in Kinds : Declare(n, kind, CurScope)
    BY <1>2 DEF ActOnTypeSpec, ActOnFunctionDecl, MayDeclare, Kinds
  <2> QED
    BY <1>1, <2>1, DeclareMaps
<1>3. CASE ActOnImportSpec(n)
  <2>1. /\ importing /\ Declare(n, "Package", TUScope) /\ "Package" \in Kinds
        /\ n \notin objects[TUScope].DeclsInScope
    BY <1>3 DEF ActOnImportSpec, MayDeclare, Kinds
  <2>2. TUScope = CurScope
    <3>1. Top \in Nat /\ Top > 0 /\ Top <= 1 /\ CurScope = Stack[Top]
      BY <1>1, <2>1, StateFacts DEF RInv
    <3>2. Top = 1
      BY <3>1
    <3> QED
      BY <3>1, <3>2 DEF TUScope
  <2> QED
    BY <1>1, <2>1, <2>2, DeclareMaps
<1> QED
  BY <1>2, <1>3

(* What changes neither the scopes nor the lists is a stutter of the map.  *)
LEMMA SilentMaps ==
  ASSUME RInv, RInv', valid, (DestroyParser /\ CurScope = None) \/ UNCHANGED vars
  PROVE  MapStep
<1>1. UNCHANGED <<entries, closing, left, valid>>
  BY DEF DestroyParser, vars
<1>2. Stack' = Stack /\ Top' = Top
  BY SameStack
<1>3. \A i \in 1 .. Top : Held(i)' = Held(i)
  <2>1. CASE DestroyParser /\ CurScope = None
    <3>1. Top = 0
      BY <2>1, StateFacts
    <3> QED
      BY <3>1
  <2>2. CASE UNCHANGED vars
    BY <1>2, <2>2 DEF vars, Held
  <2> QED
    BY <2>1, <2>2
<1>4. Blocks' = Blocks /\ View' = View
  BY <1>1, <1>2, <1>3, SameMap
<1> QED
  BY <1>1, <1>4 DEF MapStep, Map!vars

(* So is what deletes the scope of a parser that returned at once, and all *)
(* there is after that.                                                    *)
LEMMA AbandonMaps ==
  ASSUME RInv, DestroyParser, CurScope # None
  PROVE  Gone' /\ MapStep
<1>1. Gone' /\ UNCHANGED <<entries, importing, closing, valid>>
  BY AbandonStep DEF RInv, DestroyParser
<1>2. Abandoned' /\ ~ Abandoned
  BY <1>1 DEF Abandoned, Gone
<1>3. CASE ~ valid
  BY <1>1, <1>3, NoMap
<1>4. CASE valid
  <2>1. Top = 1 /\ CurScope = Stack[1] /\ ~ closing /\ objects[CurScope].DeclsInScope = Builtins
    BY StateFacts DEF DestroyParser, ReturnedAtOnce
  <2>2. Held(1) = Builtins
    BY <2>1 DEF Held
  <2>3. \A n \in Builtins : Rank(n, 1) = 1
    <3> SUFFICES ASSUME NEW n \in Builtins PROVE Rank(n, 1) = 1
      OBVIOUS
    <3>1. HoldersTo(n, 1) = {1}
      BY <2>2 DEF HoldersTo
    <3> QED
      BY <3>1, FS_Singleton DEF Rank
  <2>4. BlockOf(1) = {Entry(n, 1) : n \in Builtins}
    BY <2>2, <2>3 DEF BlockOf
  <2>5. Blocks = <<BlockOf(1)>>
    BY <1>4, <2>1, BlocksOK DEF BlocksInv
  <2>6. Blocks' = << {Entry(n, 1) : n \in Builtins} >>
    BY <1>1, <1>2 DEF Blocks, Entry
  <2>7. View' = View
    BY <1>1 DEF View, classifyIdentifier, Entry
  <2> QED
    BY <1>1, <2>4, <2>5, <2>6, <2>7 DEF MapStep, Map!vars
<1> QED
  BY <1>1, <1>3, <1>4

LEMMA GoneMaps ==
  ASSUME Gone, [Next]_vars
  PROVE  Gone' /\ MapStep
<1>1. Gone' /\ UNCHANGED <<entries, CurScope, importing, closing, valid>>
  BY GoneStep
<1>2. Abandoned' /\ Abandoned
  BY <1>1 DEF Abandoned, Gone
<1>3. Blocks' = Blocks
  BY <1>1, <1>2 DEF Blocks, Entry
<1>4. View' = View
  BY <1>1 DEF View, classifyIdentifier, Entry
<1> QED
  BY <1>1, <1>3, <1>4 DEF MapStep, Map!vars

LEMMA StepMaps ==
  ASSUME RInv, RInv', [Next]_vars, DestroyParser => CurScope = None
  PROVE  MapStep
<1>1. CASE ~ valid
  <2>1. UNCHANGED valid
    BY DEF Next, vars, ActOnImportSpec, ActOnTypeSpec, ActOnFunctionDecl, ActOnPopScope,
           ParseFunctionBody, ParseBlock, ParseStructType, Open, ExitScope, RecycleScope,
           DestroyParser
  <2> QED
    BY <1>1, <2>1, NoMap
<1>2. CASE valid
  <2>1. ASSUME NEW n \in Idents,
               ActOnImportSpec(n) \/ ActOnTypeSpec(n) \/ ActOnFunctionDecl(n)
        PROVE  MapStep
    BY <1>2, <2>1, DeclarationMaps
  <2>2. ASSUME NEW n \in Idents, ActOnPopScope(n) PROVE MapStep
    BY <1>2, <2>2, PopMaps
  <2>3. ASSUME ParseFunctionBody \/ ParseBlock \/ ParseStructType PROVE MapStep
    <3>1. PICK flags \in SUBSET Flags : Open(flags)
      BY <2>3 DEF ParseFunctionBody, ParseBlock, ParseStructType, Flags
    <3> QED
      BY <1>2, <3>1, OpenMaps
  <2>4. ASSUME ExitScope PROVE MapStep
    BY <1>2, <2>4, ExitMaps
  <2>5. ASSUME RecycleScope PROVE MapStep
    BY <1>2, <2>5, RecycleMaps
  <2>6. ASSUME (DestroyParser /\ CurScope = None) \/ UNCHANGED vars PROVE MapStep
    BY <1>2, <2>6, SilentMaps
  <2> QED
    BY <2>1, <2>2, <2>3, <2>4, <2>5, <2>6 DEF Next
<1> QED
  BY <1>1, <1>2

(* The builtins are the one block to begin with.                           *)
LEMMA InitMaps == Init => RInv /\ Map!Init
<1> SUFFICES ASSUME Init PROVE RInv /\ Map!Init
  OBVIOUS
<1>1. IInv /\ EndsInv /\ CurScope = 1 /\ closing = FALSE /\ importing = TRUE
      /\ again = [n \in Idents |-> 0]
  BY InitInv DEF Init
<1>2. Top = 1
  <2>1. PICK st : st = <<1>>
    OBVIOUS
  <2>2. IsStack(objects, CurScope, st)
    <3> DEFINE scope == [AnyParent |-> None, Depth |-> 0, Flags |-> {"DeclScope"},
                         FnParent |-> None, DeclsInScope |-> Builtins]
    <3>1. objects = [a \in {1} |-> scope] /\ scope.AnyParent = None
      BY DEF Init
    <3> HIDE DEF scope
    <3>2. DOMAIN objects = {1} /\ objects[1].AnyParent = None
      BY <3>1
    <3>3. st \in Seq(Nat \ {None}) /\ Len(st) = 1 /\ st[1] = 1
      BY <2>1 DEF None
    <3> QED
      BY <1>1, <3>2, <3>3, ConstantsAssumption DEF IsStack
  <2>3. Stack = st
    BY <2>2, StackIs, StackIsFrom
  <2> QED
    BY <2>1, <2>3 DEF Top
<1>3. RInv
  BY <1>1, <1>2 DEF RInv
<1>4. CASE valid
  <2>1. BlocksInv /\ ViewInv
    BY <1>3, <1>4, BlocksOK, ViewOK
  <2>2. Len(Blocks) = 1 /\ Blocks[1] = BlockOf(1) /\ Blocks[1] \subseteq Map!Decls
    <3>1. /\ Len(Blocks) = 1 /\ Blocks = [i \in 1 .. 1 |-> BlockOf(i)]
          /\ Blocks \in Seq(SUBSET Map!Decls)
      BY <1>2, <2>1 DEF BlocksInv
    <3> HIDE DEF Blocks
    <3> QED
      BY <3>1, ElementOfSeq
  <2>3. Map!NamesDistinct(Blocks[1])
    BY <2>2 DEF Map!NamesDistinct, BlockOf, Entry
  <2>4. View = [n \in Idents |-> Map!Innermost(n, Blocks)]
    <3>1. View = [n \in Idents |-> View[n]] /\ \A n \in Idents : View[n] = Map!Innermost(n, Blocks)
      BY <2>1 DEF BlocksInv, ViewInv
    <3> HIDE DEF View, Blocks
    <3> QED
      BY <3>1
  <2>5. Map!Init
    BY <1>1, <1>4, <2>2, <2>3, <2>4 DEF Map!Init
  <2> QED
    BY <1>3, <2>5
<1>5. CASE ~ valid
  <2>1. Map!Init
    <3> DEFINE bs == << {} >>
    <3>1. Len(bs) = 1 /\ bs[1] = {}
      OBVIOUS
    <3> HIDE DEF bs
    <3>2. \A n \in Idents : Map!Innermost(n, bs) = NoDecl
      BY <3>1 DEF Map!Innermost, Map!DeclaredIn
    <3>3. [n \in Idents |-> NoDecl] = [n \in Idents |-> Map!Innermost(n, bs)]
      BY <3>2
    <3> QED
      BY <1>5, <3>1, <3>3 DEF Map!Init, Map!NamesDistinct, bs
  <2> QED
    BY <1>3, <2>1
<1> QED
  BY <1>4, <1>5

(* For any identifiers, any nesting of scopes and any size of the cache,   *)
(* an identifier of a source that declares no name twice in a scope is     *)
(* classified by its declaration in the innermost scope that has one, as   *)
(* the abstract map of blocks says, and uncovered again when it is left.   *)
THEOREM Refinement == Spec => ImplementsScopeMap
<1> DEFINE I == RInv \/ Gone
<1>1. I /\ [Next]_vars => I' /\ [Map!Next]_(Map!vars)
  <2>1. ASSUME RInv, [Next]_vars, DestroyParser => CurScope = None PROVE RInv' /\ MapStep
    BY <2>1, RInvariance, StepMaps
  <2> QED
    BY <2>1, AbandonMaps, GoneMaps DEF MapStep
<1>2. Init => I /\ Map!Init
  BY InitMaps
<1> QED
  BY <1>1, <1>2, PTL DEF Spec, Map!Spec, ImplementsScopeMap

-----------------------------------------------------------------------------
(* Parentheses                                                             *)

Count(ts, kind, n) == Cardinality({j \in 1 .. n : ts[j] = kind})
Opened(ts) == Count(ts, "(", Len(ts))
Closed(ts) == Count(ts, ")", Len(ts))

LEMMA DepthIs ==
  ASSUME NEW ts, NEW i
  PROVE  DepthAt(ts, i) = Count(ts, "(", i - 1) - Count(ts, ")", i)
BY DEF DepthAt, Count

LEMMA CountType ==
  ASSUME NEW ts, NEW kind, NEW n \in Nat
  PROVE  Count(ts, kind, n) \in Nat /\ IsFiniteSet({j \in 1 .. n : ts[j] = kind})
<1>1. IsFiniteSet(1 .. n)
  BY FS_Interval
<1>2. {j \in 1 .. n : ts[j] = kind} \in SUBSET (1 .. n)
  OBVIOUS
<1>3. IsFiniteSet({j \in 1 .. n : ts[j] = kind})
  BY <1>1, <1>2, FS_Subset
<1> QED
  BY <1>3, FS_CardinalityType DEF Count

LEMMA CountBefore ==
  ASSUME NEW S, NEW s \in Seq(S), NEW t \in Seq(S), NEW kind, NEW n \in 0 .. Len(s)
  PROVE  Count(s \o t, kind, n) = Count(s, kind, n)
<1>1. Len(s) \in Nat /\ Len(t) \in Nat
  BY LenProperties
<1>2. \A j \in 1 .. n : (s \o t)[j] = s[j]
  <2> SUFFICES ASSUME NEW j \in 1 .. n PROVE (s \o t)[j] = s[j]
    OBVIOUS
  <2>1. j \in 1 .. Len(s) + Len(t) /\ j <= Len(s)
    BY <1>1
  <2> QED
    BY <2>1, ConcatProperties
<1>3. {j \in 1 .. n : (s \o t)[j] = kind} = {j \in 1 .. n : s[j] = kind}
  BY <1>2
<1> QED
  BY <1>3 DEF Count

LEMMA CountBehind ==
  ASSUME NEW S, NEW s \in Seq(S), NEW t \in Seq(S), NEW kind, NEW n \in 0 .. Len(t)
  PROVE  Count(s \o t, kind, Len(s) + n) = Count(s, kind, Len(s)) + Count(t, kind, n)
<1>1. PICK a \in Nat : a = Len(s)
  BY LenProperties
<1>2. PICK b \in Nat : b = Len(t)
  BY LenProperties
<1>3. n \in Nat /\ n <= b
  BY <1>2
<1>4. PICK u : u = s \o t
  OBVIOUS
<1>5. \A j \in 1 .. a + b : u[j] = IF j <= a THEN s[j] ELSE t[j - a]
  BY <1>1, <1>2, <1>4, ConcatProperties
<1>6. PICK A : A = {j \in 1 .. a : s[j] = kind}
  OBVIOUS
<1>7. PICK B : B = {j \in 1 .. n : t[j] = kind}
  OBVIOUS
<1>8. PICK C : C = {j \in a + 1 .. a + n : u[j] = kind}
  OBVIOUS
<1>9. PICK D : D = {j \in 1 .. a + n : u[j] = kind}
  OBVIOUS
<1>10. D = A \cup C /\ A \cap C = {}
  <2>1. ASSUME NEW j \in 1 .. a + n PROVE j \in D <=> j \in A \/ j \in C
    <3>1. CASE j <= a
      <4>1. u[j] = s[j] /\ j \in 1 .. a /\ j \notin a + 1 .. a + n
        BY <1>3, <1>5, <3>1
      <4> QED
        BY <1>6, <1>8, <1>9, <4>1
    <3>2. CASE ~ j <= a
      <4>1. j \notin 1 .. a /\ j \in a + 1 .. a + n
        BY <3>2
      <4> QED
        BY <1>6, <1>8, <1>9, <4>1
    <3> QED
      BY <3>1, <3>2
  <2>2. \A j : j \in D \/ j \in A \/ j \in C => j \in 1 .. a + n
    BY <1>3, <1>6, <1>8, <1>9
  <2>3. \A j : ~ (j \in A /\ j \in C)
    BY <1>6, <1>8
  <2> QED
    BY <2>1, <2>2, <2>3
<1>11. PICK f : f = [j \in B |-> a + j]
  OBVIOUS
<1>12. f \in Bijection(B, C)
  <2>1. \A j \in B : j \in 1 .. n /\ t[j] = kind /\ f[j] = a + j
    BY <1>7, <1>11
  <2>2. \A j \in B : f[j] \in C
    <3> SUFFICES ASSUME NEW j \in B PROVE f[j] \in C
      OBVIOUS
    <3>1. j \in 1 .. n /\ f[j] = a + j
      BY <2>1
    <3>2. a + j \in 1 .. a + b /\ ~ a + j <= a /\ a + j - a = j /\ a + j \in a + 1 .. a + n
      BY <1>3, <3>1
    <3>3. u[a + j] = t[j]
      <4>1. PICK c \in 1 .. a + b : c = a + j
        BY <3>2
      <4>2. ~ c <= a /\ c - a = j
        BY <3>1, <4>1
      <4>3. u[c] = t[j]
        BY <1>5, <4>2
      <4> QED
        BY <4>1, <4>3
    <3> QED
      BY <1>8, <2>1, <3>1, <3>2, <3>3
  <2>3. f \in [B -> C]
    BY <1>11, <2>2
  <2>4. \A j, k \in B : f[j] = f[k] => j = k
    BY <2>1
  <2>5. \A c \in C : \E j \in B : f[j] = c
    <3> SUFFICES ASSUME NEW c \in C PROVE \E j \in B : f[j] = c
      OBVIOUS
    <3>1. c \in a + 1 .. a + n /\ u[c] = kind
      BY <1>8
    <3>2. PICK j \in 1 .. n : j = c - a
      BY <1>3, <3>1
    <3>3. c \in 1 .. a + b /\ ~ c <= a
      BY <1>3, <3>1
    <3>4. u[c] = t[j]
      BY <1>5, <3>2, <3>3
    <3>5. j \in B /\ a + j = c
      BY <1>7, <3>1, <3>2, <3>4
    <3> QED
      BY <2>1, <3>5
  <2> QED
    BY <2>3, <2>4, <2>5 DEF Bijection, Injection, Surjection, IsInjective
<1>13. /\ IsFiniteSet(A) /\ IsFiniteSet(B)
       /\ Cardinality(A) = Count(s, kind, a) /\ Cardinality(B) = Count(t, kind, n)
       /\ Cardinality(A) \in Nat /\ Cardinality(B) \in Nat
  BY <1>3, <1>6, <1>7, CountType DEF Count
<1>14. IsFiniteSet(C) /\ Cardinality(C) = Cardinality(B)
  <2>1. ExistsBijection(B, C)
    BY <1>12 DEF ExistsBijection
  <2> QED
    BY <1>13, <2>1, FS_Bijection
<1>15. Cardinality(D) = Cardinality(A) + Cardinality(C) - 0
  <2>1. Cardinality(A \cap C) = 0
    BY <1>10, FS_EmptySet
  <2> QED
    BY <1>10, <1>13, <1>14, <2>1, FS_Union
<1>16. Cardinality(D) = Count(u, kind, a + n)
  BY <1>9 DEF Count
<1> QED
  BY <1>1, <1>4, <1>13, <1>14, <1>15, <1>16

(* Depths in a text that follows another one.                              *)
LEMMA DepthConcat ==
  ASSUME NEW S, NEW s \in Seq(S), NEW t \in Seq(S)
  PROVE  /\ \A i \in 1 .. Len(s) : DepthAt(s \o t, i) = DepthAt(s, i) /\ DepthAt(s, i) \in Int
         /\ \A i \in 1 .. Len(t) : /\ DepthAt(t, i) \in Int
                                   /\ DepthAt(s \o t, Len(s) + i) = Opened(s) - Closed(s) + DepthAt(t, i)
         /\ Opened(s \o t) = Opened(s) + Opened(t) /\ Closed(s \o t) = Closed(s) + Closed(t)
         /\ Opened(s) \in Nat /\ Closed(s) \in Nat /\ Opened(t) \in Nat /\ Closed(t) \in Nat
<1>1. Len(s) \in Nat /\ Len(t) \in Nat /\ Len(s \o t) = Len(s) + Len(t)
  BY LenProperties, ConcatProperties
<1>2. ASSUME NEW i \in 1 .. Len(s)
      PROVE  DepthAt(s \o t, i) = DepthAt(s, i) /\ DepthAt(s, i) \in Int
  <2>1. i \in 0 .. Len(s) /\ i - 1 \in 0 .. Len(s)
    BY <1>1
  <2>2. /\ Count(s \o t, "(", i - 1) = Count(s, "(", i - 1)
        /\ Count(s \o t, ")", i) = Count(s, ")", i)
    BY <2>1, CountBefore
  <2>3. Count(s, "(", i - 1) \in Nat /\ Count(s, ")", i) \in Nat
    <3>1. PICK m \in Nat : m = i - 1
      BY <1>1
    <3>2. i \in Nat
      BY <1>1
    <3> QED
      BY <3>1, <3>2, CountType
  <2> QED
    BY <2>2, <2>3, DepthIs
<1>3. Opened(s) \in Nat /\ Closed(s) \in Nat /\ Opened(t) \in Nat /\ Closed(t) \in Nat
  BY <1>1, CountType DEF Opened, Closed
<1>4. ASSUME NEW i \in 1 .. Len(t)
      PROVE  /\ DepthAt(t, i) \in Int
             /\ DepthAt(s \o t, Len(s) + i) = Opened(s) - Closed(s) + DepthAt(t, i)
  <2>1. i \in 0 .. Len(t) /\ i - 1 \in 0 .. Len(t) /\ Len(s) + i - 1 = Len(s) + (i - 1)
    BY <1>1
  <2>2. /\ Count(s \o t, "(", Len(s) + (i - 1)) = Opened(s) + Count(t, "(", i - 1)
        /\ Count(s \o t, ")", Len(s) + i) = Closed(s) + Count(t, ")", i)
    BY <2>1, CountBehind DEF Opened, Closed
  <2>3. Count(t, "(", i - 1) \in Nat /\ Count(t, ")", i) \in Nat
    <3>1. PICK m \in Nat : m = i - 1
      BY <1>1
    <3>2. i \in Nat
      BY <1>1
    <3> QED
      BY <3>1, <3>2, CountType
  <2>4. /\ DepthAt(t, i) = Count(t, "(", i - 1) - Count(t, ")", i)
        /\ DepthAt(s \o t, Len(s) + i)
             = Count(s \o t, "(", Len(s) + i - 1) - Count(s \o t, ")", Len(s) + i)
    BY DepthIs
  <2> QED
    BY <1>3, <2>1, <2>2, <2>3, <2>4
<1>5. Opened(s \o t) = Opened(s) + Opened(t) /\ Closed(s \o t) = Closed(s) + Closed(t)
  <2>1. Len(t) \in 0 .. Len(t)
    BY <1>1
  <2> QED
    BY <1>1, <2>1, CountBehind DEF Opened, Closed
<1> QED
  BY <1>2, <1>3, <1>4, <1>5

-----------------------------------------------------------------------------
(* Grouping is a function of sequences: what it says of one depends only   *)
(* on what it says of shorter ones.                                        *)

GroupBy(f, ts) ==
  IF Len(ts) <= 1 THEN ts
  ELSE IF Roots(ts) # {}
  THEN BinaryNode(f[SubSeq(ts, 1, Root(ts) - 1)], ts[Root(ts)], f[SubSeq(ts, Root(ts) + 1, Len(ts))])
  ELSE IF IsUnaryOp(ts[1]) THEN UnaryNode(ts[1], f[SubSeq(ts, 2, Len(ts))])
  ELSE ParenNode(f[SubSeq(ts, 2, Len(ts) - 1)])

IsGrouping(f) == f = [ts \in Seq(TokenKinds) |-> GroupBy(f, ts)]

LEMMA GroupingIsOne == Grouping = CHOOSE f : IsGrouping(f)
BY DEF Grouping, IsGrouping, GroupBy

LEMMA PrecedenceType ==
  ASSUME NEW kind
  PROVE  getBinOpPrecedence(kind) \in 0 .. 5
BY DEF getBinOpPrecedence, Unknown

LEMMA RootIs ==
  ASSUME NEW ts \in Seq(TokenKinds), Roots(ts) # {}
  PROVE  /\ Root(ts) \in Roots(ts) /\ Root(ts) \in 2 .. Len(ts)
         /\ \A i \in Roots(ts) :
              /\ getBinOpPrecedence(ts[Root(ts)]) <= getBinOpPrecedence(ts[i])
              /\ getBinOpPrecedence(ts[Root(ts)]) = getBinOpPrecedence(ts[i]) => i <= Root(ts)
<1>1. Len(ts) \in Nat /\ DOMAIN ts = 1 .. Len(ts)
  BY LenProperties
<1>2. \A i \in Roots(ts) : i \in 2 .. Len(ts)
  BY <1>1 DEF Roots, BinaryAt
<1>3. PICK P : P = {getBinOpPrecedence(ts[i]) : i \in Roots(ts)}
  OBVIOUS
<1>4. P \in SUBSET Nat /\ P # {}
  BY <1>3, PrecedenceType
<1>5. PICK least \in P : \A p \in P : least <= p
  BY <1>4, LeastElement
<1>6. Min(P) = least
  <2>1. P \in SUBSET Int
    BY <1>4
  <2>2. \A z \in P : (\A y \in P : z <= y) => z = least
    <3> SUFFICES ASSUME NEW z \in P, \A y \in P : z <= y PROVE z = least
      OBVIOUS
    <3>1. z <= least /\ least <= z /\ z \in Int /\ least \in Int
      BY <1>5, <2>1
    <3> QED
      BY <3>1
  <2> QED
    BY <1>5, <2>2 DEF Min
<1>7. PICK R : R = {i \in Roots(ts) : getBinOpPrecedence(ts[i]) = least}
  OBVIOUS
<1>8. R # {} /\ R \in SUBSET (1 .. Len(ts))
  <2>1. R # {}
    BY <1>3, <1>5, <1>7
  <2>2. \A i \in R : i \in 1 .. Len(ts)
    BY <1>1, <1>2, <1>7
  <2> QED
    BY <2>1, <2>2
<1>9. Max(R) \in R /\ \A i \in R : i <= Max(R)
  BY <1>1, <1>8, MaxIsGreatest
<1>10. Root(ts) = Max(R)
  BY <1>3, <1>6, <1>7 DEF Root
<1>11. \A i \in Roots(ts) : least <= getBinOpPrecedence(ts[i])
  BY <1>3, <1>5
<1> QED
  BY <1>2, <1>7, <1>9, <1>10, <1>11

LEMMA PartIs ==
  ASSUME NEW ts \in Seq(TokenKinds), NEW i \in 1 .. Len(ts) + 1, NEW j \in 0 .. Len(ts), i # 1 \/ j # Len(ts)
  PROVE  SubSeq(ts, i, j) \in Seq(TokenKinds) /\ (ts # << >> => Len(SubSeq(ts, i, j)) < Len(ts))
<1>1. Len(ts) \in Nat /\ i \in Int /\ j \in Int
  BY LenProperties
<1>2. \A k \in i .. j : ts[k] \in TokenKinds
  <2> SUFFICES ASSUME NEW k \in i .. j PROVE ts[k] \in TokenKinds
    OBVIOUS
  <2>1. k \in 1 .. Len(ts)
    BY <1>1
  <2> QED
    BY <2>1, ElementOfSeq
<1>3. SubSeq(ts, i, j) \in Seq(TokenKinds)
  BY <1>1, <1>2, SubSeqProperties
<1>4. PICK n : n = Len(SubSeq(ts, i, j))
  OBVIOUS
<1>5. n = IF i <= j THEN j - i + 1 ELSE 0
  BY <1>1, <1>2, <1>4, SubSeqProperties
<1>6. ts # << >> => Len(ts) > 0
  BY <1>1, EmptySeq
<1>7. ts # << >> => n < Len(ts)
  BY <1>1, <1>5, <1>6
<1> QED
  BY <1>3, <1>4, <1>7

LEMMA GroupBySame ==
  ASSUME NEW ts \in Seq(TokenKinds), NEW f, NEW g,
         \A u \in Seq(TokenKinds) : Len(u) < Len(ts) => f[u] = g[u]
  PROVE  GroupBy(f, ts) = GroupBy(g, ts)
<1>1. Len(ts) \in Nat
  BY LenProperties
<1>2. CASE Len(ts) <= 1
  BY <1>2 DEF GroupBy
<1>3. CASE ~ Len(ts) <= 1
  <2>0. ts # << >>
    BY <1>3, EmptySeq
  <2>1. CASE Roots(ts) # {}
    <3>1. PICK r \in 2 .. Len(ts) : r = Root(ts)
      BY <2>1, RootIs
    <3>2. PICK a : a = SubSeq(ts, 1, r - 1)
      OBVIOUS
    <3>3. PICK b : b = SubSeq(ts, r + 1, Len(ts))
      OBVIOUS
    <3>4. a \in Seq(TokenKinds) /\ Len(a) < Len(ts)
      <4>1. PICK m \in 0 .. Len(ts) : m = r - 1
        BY <1>1
      <4>2. m # Len(ts) /\ 1 \in 1 .. Len(ts) + 1
        BY <1>1, <4>1
      <4> QED
        BY <2>0, <3>2, <4>1, <4>2, PartIs
    <3>5. b \in Seq(TokenKinds) /\ Len(b) < Len(ts)
      <4>1. PICK m \in 1 .. Len(ts) + 1 : m = r + 1
        BY <1>1
      <4>2. m # 1 /\ Len(ts) \in 0 .. Len(ts)
        BY <1>1, <4>1
      <4> QED
        BY <2>0, <3>3, <4>1, <4>2, PartIs
    <3>6. f[a] = g[a] /\ f[b] = g[b]
      BY <3>4, <3>5
    <3>7. \A h : GroupBy(h, ts) = BinaryNode(h[a], ts[r], h[b])
      BY <1>3, <2>1, <3>1, <3>2, <3>3 DEF GroupBy
    <3>8. BinaryNode(f[a], ts[r], f[b]) = BinaryNode(g[a], ts[r], g[b])
      BY <3>6
    <3> QED
      BY <3>7, <3>8
  <2>2. CASE Roots(ts) = {}
    <3>1. PICK a : a = SubSeq(ts, 2, Len(ts))
      OBVIOUS
    <3>2. PICK b : b = SubSeq(ts, 2, Len(ts) - 1)
      OBVIOUS
    <3>3. a \in Seq(TokenKinds) /\ Len(a) < Len(ts)
      <4>1. 2 \in 1 .. Len(ts) + 1 /\ Len(ts) \in 0 .. Len(ts)
        BY <1>1, <1>3
      <4> QED
        BY <2>0, <3>1, <4>1, PartIs
    <3>4. b \in Seq(TokenKinds) /\ Len(b) < Len(ts)
      <4>1. PICK m \in 0 .. Len(ts) : m = Len(ts) - 1
        BY <1>1, <1>3
      <4>2. 2 \in 1 .. Len(ts) + 1
        BY <1>1, <1>3
      <4> QED
        BY <2>0, <3>2, <4>1, <4>2, PartIs
    <3>5. f[a] = g[a] /\ f[b] = g[b]
      BY <3>3, <3>4
    <3>6. \A h : GroupBy(h, ts) = IF IsUnaryOp(ts[1]) THEN UnaryNode(ts[1], h[a]) ELSE ParenNode(h[b])
      BY <1>3, <2>2, <3>1, <3>2 DEF GroupBy
    <3> QED
      BY <3>5, <3>6
  <2> QED
    BY <2>1, <2>2
<1> QED
  BY <1>2, <1>3

GroupsUpTo(f, n) == \A ts \in Seq(TokenKinds) : Len(ts) <= n => f[ts] = GroupBy(f, ts)

LEMMA GroupsAgree ==
  ASSUME NEW m \in Nat, NEW n \in Nat, NEW f, NEW g, GroupsUpTo(f, m), GroupsUpTo(g, n)
  PROVE  \A ts \in Seq(TokenKinds) : Len(ts) <= m /\ Len(ts) <= n => f[ts] = g[ts]
<1> DEFINE Differ(ts) == Len(ts) <= m /\ Len(ts) <= n /\ f[ts] # g[ts]
           Bad == {k \in Nat : \E ts \in Seq(TokenKinds) : Len(ts) = k /\ Differ(ts)}
<1>1. ASSUME Bad # {} PROVE FALSE
  <2>1. PICK k \in Bad : \A j \in Bad : k <= j
    <3>1. Bad \in SUBSET Nat
      OBVIOUS
    <3> HIDE DEF Bad
    <3> QED
      BY <1>1, <3>1, LeastElement
  <2>2. PICK ts \in Seq(TokenKinds) : Len(ts) = k /\ Differ(ts)
    OBVIOUS
  <2>3. \A u \in Seq(TokenKinds) : Len(u) < Len(ts) => f[u] = g[u]
    <3> SUFFICES ASSUME NEW u \in Seq(TokenKinds), Len(u) < Len(ts), f[u] # g[u] PROVE FALSE
      OBVIOUS
    <3>1. PICK j \in Nat : j = Len(u)
      BY LenProperties
    <3>2. k \in Nat /\ Len(ts) = k /\ j < k /\ k <= m /\ k <= n
      BY <2>2, <3>1
    <3>3. j \in Bad
      BY <3>1, <3>2
    <3>4. ~ k <= j
      BY <3>2
    <3> HIDE DEF Bad
    <3> QED
      BY <2>1, <3>3, <3>4
  <2>4. f[ts] = GroupBy(f, ts) /\ g[ts] = GroupBy(g, ts)
    BY <2>2 DEF GroupsUpTo
  <2>5. GroupBy(f, ts) = GroupBy(g, ts)
    BY <2>3, GroupBySame
  <2> QED
    BY <2>2, <2>4, <2>5
<1>2. ASSUME NEW ts \in Seq(TokenKinds), Differ(ts) PROVE FALSE
  <2>1. PICK k \in Nat : k = Len(ts)
    BY LenProperties
  <2>2. k \in Bad
    BY <1>2, <2>1
  <2> QED
    BY <1>1, <2>2
<1> QED
  BY <1>2

LEMMA GroupsExist ==
  ASSUME NEW n \in Nat
  PROVE  \E f : GroupsUpTo(f, n)
<1> DEFINE Bad == {k \in Nat : ~ \E f : GroupsUpTo(f, k)}
<1>1. ASSUME Bad # {} PROVE FALSE
  <2>1. PICK k \in Bad : \A j \in Bad : k <= j
    <3>1. Bad \in SUBSET Nat
      OBVIOUS
    <3> HIDE DEF Bad
    <3> QED
      BY <1>1, <3>1, LeastElement
  <2>2. k \in Nat /\ ~ \E f : GroupsUpTo(f, k)
    OBVIOUS
  <2>3. \E f : \A ts \in Seq(TokenKinds) : Len(ts) < k => f[ts] = GroupBy(f, ts)
    <3>1. CASE k = 0
      <4>1. \A ts \in Seq(TokenKinds) : ~ Len(ts) < k
        BY <3>1, LenProperties
      <4> QED
        BY <4>1
    <3>2. CASE k # 0
      <4>1. PICK j \in Nat : j = k - 1
        BY <2>2, <3>2
      <4>2. ~ k <= j
        BY <2>2, <4>1
      <4>3. j \notin Bad
        <5> HIDE DEF Bad
        <5> QED
          BY <2>1, <4>2
      <4>4. PICK f : GroupsUpTo(f, j)
        BY <4>3
      <4>5. \A ts \in Seq(TokenKinds) : Len(ts) < k => Len(ts) <= j
        BY <2>2, <4>1, LenProperties
      <4> QED
        BY <4>4, <4>5 DEF GroupsUpTo
    <3> QED
      BY <3>1, <3>2
  <2>4. PICK f : \A ts \in Seq(TokenKinds) : Len(ts) < k => f[ts] = GroupBy(f, ts)
    BY <2>3
  <2>5. PICK g : g = [ts \in Seq(TokenKinds) |-> GroupBy(f, ts)]
    OBVIOUS
  <2>6. \A ts \in Seq(TokenKinds) : Len(ts) < k => g[ts] = f[ts]
    BY <2>4, <2>5
  <2>7. GroupsUpTo(g, k)
    <3> SUFFICES ASSUME NEW ts \in Seq(TokenKinds), Len(ts) <= k PROVE g[ts] = GroupBy(g, ts)
      BY DEF GroupsUpTo
    <3>1. \A u \in Seq(TokenKinds) : Len(u) < Len(ts) => f[u] = g[u]
      <4> SUFFICES ASSUME NEW u \in Seq(TokenKinds), Len(u) < Len(ts) PROVE f[u] = g[u]
        OBVIOUS
      <4>1. Len(u) \in Nat /\ Len(ts) \in Nat
        BY LenProperties
      <4>2. Len(u) < k
        BY <2>2, <4>1
      <4> QED
        BY <2>6, <4>2
    <3>2. GroupBy(f, ts) = GroupBy(g, ts)
      BY <3>1, GroupBySame
    <3> QED
      BY <2>5, <3>2
  <2> QED
    BY <2>2, <2>7
<1> QED
  BY <1>1

LEMMA GroupingIs ==
  \A ts \in Seq(TokenKinds) : Grouping[ts] = GroupBy(Grouping, ts)
<1> DEFINE part[n \in Nat] == CHOOSE f : GroupsUpTo(f, n)
<1>1. \A n \in Nat : GroupsUpTo(part[n], n)
  BY GroupsExist
<1>2. PICK p : \A n \in Nat : GroupsUpTo(p[n], n)
  BY <1>1
<1>3. PICK g : g = [ts \in Seq(TokenKinds) |-> p[Len(ts)][ts]]
  OBVIOUS
<1>4. ASSUME NEW ts \in Seq(TokenKinds) PROVE g[ts] = GroupBy(g, ts)
  <2>1. PICK n \in Nat : n = Len(ts)
    BY LenProperties
  <2>2. PICK f : f = p[n]
    OBVIOUS
  <2>3. GroupsUpTo(f, n) /\ g[ts] = f[ts]
    BY <1>2, <1>3, <2>1, <2>2
  <2>4. f[ts] = GroupBy(f, ts)
    BY <2>1, <2>3 DEF GroupsUpTo
  <2>5. \A u \in Seq(TokenKinds) : Len(u) < Len(ts) => f[u] = g[u]
    <3> SUFFICES ASSUME NEW u \in Seq(TokenKinds), Len(u) < Len(ts) PROVE f[u] = g[u]
      OBVIOUS
    <3>1. PICK m \in Nat : m = Len(u)
      BY LenProperties
    <3>2. PICK h : h = p[m]
      OBVIOUS
    <3>3. GroupsUpTo(h, m) /\ g[u] = h[u]
      BY <1>2, <1>3, <3>1, <3>2
    <3>4. Len(u) <= m /\ Len(u) <= n
      BY <2>1, <3>1
    <3> QED
      BY <2>3, <3>3, <3>4, GroupsAgree
  <2>6. GroupBy(f, ts) = GroupBy(g, ts)
    BY <2>5, GroupBySame
  <2> QED
    BY <2>3, <2>4, <2>6
<1>5. IsGrouping(g)
  <2>1. g = [ts \in Seq(TokenKinds) |-> g[ts]]
    BY <1>3
  <2> QED
    BY <1>4, <2>1 DEF IsGrouping
<1>6. IsGrouping(Grouping)
  BY <1>5, GroupingIsOne
<1> QED
  BY <1>6 DEF IsGrouping

-----------------------------------------------------------------------------
(* Expressions: what the parts of the text are.                            *)

Ends == {"x", ")"}

(* s is an expression, none of whose operators outside of parentheses      *)
(* binds less than m.                                                      *)
Expr(s, m) ==
  /\ s \in Seq(TokenKinds) /\ Len(s) # 0 /\ s[Len(s)] \in Ends
  /\ Opened(s) = Closed(s)
  /\ \A i \in 1 .. Len(s) : DepthAt(s, i) >= 0
  /\ \A i \in Roots(s) : getBinOpPrecedence(s[i]) >= m

LEMMA OneToken ==
  ASSUME NEW k \in TokenKinds
  PROVE  /\ <<k>> \in Seq(TokenKinds) /\ Len(<<k>>) = 1 /\ <<k>>[1] = k
         /\ Opened(<<k>>) = IF k = "(" THEN 1 ELSE 0
         /\ Closed(<<k>>) = IF k = ")" THEN 1 ELSE 0
         /\ DepthAt(<<k>>, 1) = IF k = ")" THEN -1 ELSE 0
         /\ Roots(<<k>>) = {}
<1>1. <<k>> \in Seq(TokenKinds) /\ Len(<<k>>) = 1 /\ <<k>>[1] = k
  OBVIOUS
<1>2. PICK ts \in Seq(TokenKinds) : ts = <<k>> /\ Len(ts) = 1 /\ ts[1] = k
  BY <1>1
<1>3. ASSUME NEW c PROVE Count(ts, c, 1) = (IF k = c THEN 1 ELSE 0) /\ Count(ts, c, 0) = 0
  <2>1. PICK A : A = {j \in 1 .. 1 : ts[j] = c}
    OBVIOUS
  <2>2. PICK B : B = {j \in 1 .. 0 : ts[j] = c}
    OBVIOUS
  <2>3. B = {} /\ (k = c => A = {1}) /\ (k # c => A = {})
    BY <1>2, <2>1, <2>2
  <2>4. Cardinality(B) = 0 /\ (k = c => Cardinality(A) = 1) /\ (k # c => Cardinality(A) = 0)
    BY <2>3, FS_EmptySet, FS_Singleton
  <2> QED
    BY <2>1, <2>2, <2>4 DEF Count
<1>4. /\ Opened(ts) = IF k = "(" THEN 1 ELSE 0
      /\ Closed(ts) = IF k = ")" THEN 1 ELSE 0
  BY <1>2, <1>3 DEF Opened, Closed
<1>5. DepthAt(ts, 1) = IF k = ")" THEN -1 ELSE 0
  <2>1. DepthAt(ts, 1) = Count(ts, "(", 0) - Count(ts, ")", 1)
    BY DepthIs
  <2> QED
    BY <1>3, <2>1
<1>6. Roots(ts) = {}
  <2>1. DOMAIN ts = 1 .. 1
    BY <1>2, LenProperties
  <2> QED
    BY <2>1 DEF Roots, BinaryAt
<1> QED
  BY <1>2, <1>4, <1>5, <1>6

LEMMA ConcatAt ==
  ASSUME NEW S, NEW s \in Seq(S), NEW t \in Seq(S)
  PROVE  /\ s \o t \in Seq(S) /\ Len(s \o t) = Len(s) + Len(t)
         /\ Len(s) \in Nat /\ Len(t) \in Nat
         /\ \A i \in 1 .. Len(s) : (s \o t)[i] = s[i]
         /\ \A i \in 1 .. Len(t) : (s \o t)[Len(s) + i] = t[i]
<1>1. Len(s) \in Nat /\ Len(t) \in Nat
  BY LenProperties
<1>2. \A i \in 1 .. Len(s) : (s \o t)[i] = s[i]
  <2> SUFFICES ASSUME NEW i \in 1 .. Len(s) PROVE (s \o t)[i] = s[i]
    OBVIOUS
  <2>1. i \in 1 .. Len(s) + Len(t) /\ i <= Len(s)
    BY <1>1
  <2> QED
    BY <2>1, ConcatProperties
<1>3. \A i \in 1 .. Len(t) : (s \o t)[Len(s) + i] = t[i]
  <2> SUFFICES ASSUME NEW i \in 1 .. Len(t) PROVE (s \o t)[Len(s) + i] = t[i]
    OBVIOUS
  <2>1. PICK c \in 1 .. Len(s) + Len(t) : c = Len(s) + i
    BY <1>1
  <2>2. ~ c <= Len(s) /\ c - Len(s) = i
    BY <1>1, <2>1
  <2>3. (s \o t)[c] = t[i]
    BY <2>2, ConcatProperties
  <2> QED
    BY <2>1, <2>3
<1> QED
  BY <1>1, <1>2, <1>3, ConcatProperties

(* The roots in a text that follows another one.                           *)
LEMMA RootsConcat ==
  ASSUME NEW s \in Seq(TokenKinds), NEW t \in Seq(TokenKinds)
  PROVE  /\ \A i \in 1 .. Len(s) : i \in Roots(s \o t) <=> i \in Roots(s)
         /\ \A i \in 1 .. Len(t) :
              Len(s) + i \in Roots(s \o t) <=>
                /\ getBinOpPrecedence(t[i]) # Unknown
                /\ Opened(s) - Closed(s) + DepthAt(t, i) = 0
                /\ IF i = 1 THEN Len(s) # 0 /\ s[Len(s)] \in Ends ELSE t[i - 1] \in Ends
         /\ \A i \in Roots(s \o t) : \/ i \in 1 .. Len(s)
                                     \/ \E j \in 1 .. Len(t) : i = Len(s) + j
<1>1. PICK u : u = s \o t
  OBVIOUS
<1>2. PICK a \in Nat : a = Len(s)
  BY LenProperties
<1>3. PICK b \in Nat : b = Len(t)
  BY LenProperties
<1>4. /\ u \in Seq(TokenKinds) /\ Len(u) = a + b
      /\ \A i \in 1 .. a : u[i] = s[i]
      /\ \A i \in 1 .. b : u[a + i] = t[i]
  BY <1>1, <1>2, <1>3, ConcatAt
<1>5. /\ DOMAIN u = 1 .. a + b /\ DOMAIN s = 1 .. a /\ DOMAIN t = 1 .. b
  BY <1>2, <1>3, <1>4, LenProperties
<1>6. /\ \A i \in 1 .. a : DepthAt(u, i) = DepthAt(s, i)
      /\ \A i \in 1 .. b : DepthAt(u, a + i) = Opened(s) - Closed(s) + DepthAt(t, i)
  BY <1>1, <1>2, <1>3, DepthConcat
<1>7. ASSUME NEW i \in 1 .. a PROVE i \in Roots(u) <=> i \in Roots(s)
  <2>1. i \in 1 .. a + b
    OBVIOUS
  <2>2. u[i] = s[i] /\ DepthAt(u, i) = DepthAt(s, i)
    BY <1>4, <1>6
  <2>3. i > 1 => u[i - 1] = s[i - 1]
    <3> SUFFICES ASSUME i > 1 PROVE u[i - 1] = s[i - 1]
      OBVIOUS
    <3>1. i - 1 \in 1 .. a
      OBVIOUS
    <3> QED
      BY <1>4, <3>1
  <2> QED
    BY <1>5, <2>1, <2>2, <2>3 DEF Roots, BinaryAt
<1>8. ASSUME NEW i \in 1 .. b
      PROVE  a + i \in Roots(u) <=>
               /\ getBinOpPrecedence(t[i]) # Unknown
               /\ Opened(s) - Closed(s) + DepthAt(t, i) = 0
               /\ IF i = 1 THEN a # 0 /\ s[a] \in Ends ELSE t[i - 1] \in Ends
  <2>1. PICK c \in 1 .. a + b : c = a + i
    OBVIOUS
  <2>2. u[c] = t[i] /\ DepthAt(u, c) = Opened(s) - Closed(s) + DepthAt(t, i)
    BY <1>4, <1>6, <2>1
  <2>3. c \in Roots(u) <=> /\ c > 1 /\ u[c - 1] \in Ends
                           /\ getBinOpPrecedence(t[i]) # Unknown
                           /\ Opened(s) - Closed(s) + DepthAt(t, i) = 0
    BY <1>5, <2>2 DEF Roots, BinaryAt, Ends
  <2>4. CASE i = 1
    <3>1. c > 1 <=> a # 0
      BY <2>1, <2>4
    <3>2. a # 0 => u[c - 1] = s[a]
      <4>1. c - 1 = a
        BY <2>1, <2>4
      <4>2. a # 0 => a \in 1 .. a
        OBVIOUS
      <4> QED
        BY <1>4, <4>1, <4>2
    <3> QED
      BY <2>1, <2>3, <2>4, <3>1, <3>2
  <2>5. CASE i # 1
    <3>1. c > 1
      BY <2>1, <2>5
    <3>2. u[c - 1] = t[i - 1]
      <4>1. PICK j \in 1 .. b : j = i - 1
        BY <2>5
      <4>2. c - 1 = a + j
        BY <2>1, <4>1
      <4> QED
        BY <1>4, <4>1, <4>2
    <3> QED
      BY <2>1, <2>3, <2>5, <3>1, <3>2
  <2> QED
    BY <2>4, <2>5
<1>9. ASSUME NEW i \in Roots(u), i \notin 1 .. a PROVE \E j \in 1 .. b : i = a + j
  <2>1. i \in 1 .. a + b
    BY <1>5 DEF Roots
  <2>2. i - a \in 1 .. b /\ i = a + (i - a)
    BY <1>9, <2>1
  <2> QED
    BY <2>2
<1> QED
  BY <1>1, <1>2, <1>3, <1>7, <1>8, <1>9

(* The parts of a concatenation.                                           *)
LEMMA BeforeIs ==
  ASSUME NEW S, NEW s \in Seq(S), NEW t \in Seq(S)
  PROVE  SubSeq(s \o t, 1, Len(s)) = s
<1>1. CASE s = << >>
  <2>1. Len(s) = 0
    BY <1>1, EmptySeq
  <2>2. SubSeq(s \o t, 1, 0) = << >>
    BY SubSeqEmpty
  <2> QED
    BY <1>1, <2>1, <2>2
<1>2. CASE s # << >>
  <2>1. PICK n \in Nat \ {0} : n = Len(s)
    BY <1>2, EmptySeq
  <2>2. 1 \in 1 .. n /\ n \in 1 .. n
    OBVIOUS
  <2>3. SubSeq(s \o t, 1, n) = SubSeq(s, 1, n)
    BY <2>1, <2>2, SubSeqOfConcat1
  <2>4. SubSeq(s, 1, Len(s)) = s
    BY SubSeqFull
  <2> QED
    BY <2>1, <2>3, <2>4
<1> QED
  BY <1>1, <1>2

LEMMA BehindIs ==
  ASSUME NEW S, NEW s \in Seq(S), NEW t \in Seq(S), t # << >>
  PROVE  SubSeq(s \o t, Len(s) + 1, Len(s \o t)) = t
<1>1. PICK a \in Nat : a = Len(s)
  BY LenProperties
<1>2. PICK b \in Nat \ {0} : b = Len(t)
  BY EmptySeq
<1>3. PICK m : m = a + 1
  OBVIOUS
<1>4. PICK n : n = a + b
  OBVIOUS
<1>5. m \in a + 1 .. a + b /\ n \in a + 1 .. a + b /\ m - a = 1 /\ n - a = b
  BY <1>3, <1>4
<1>6. SubSeq(s \o t, m, n) = SubSeq(t, m - a, n - a)
  BY <1>1, <1>2, <1>5, SubSeqOfConcat2
<1>7. SubSeq(t, 1, b) = t
  BY <1>2, SubSeqFull
<1>8. Len(s \o t) = n
  BY <1>1, <1>2, <1>4, ConcatProperties
<1> QED
  BY <1>1, <1>3, <1>5, <1>6, <1>7, <1>8

LEMMA OperandIs == Expr(<<"x">>, 6) /\ Grouping[<<"x">>] = <<"x">>
<1>1. "x" \in TokenKinds
  BY DEF TokenKinds
<1>2. PICK ts : ts = <<"x">>
  OBVIOUS
<1>3. /\ ts \in Seq(TokenKinds) /\ Len(ts) = 1 /\ ts[1] = "x"
      /\ Opened(ts) = 0 /\ Closed(ts) = 0 /\ DepthAt(ts, 1) = 0 /\ Roots(ts) = {}
  BY <1>1, <1>2, OneToken
<1>4. Expr(ts, 6)
  <2>1. \A i \in 1 .. 1 : i = 1
    OBVIOUS
  <2> QED
    BY <1>3, <2>1 DEF Expr, Ends
<1>5. Grouping[ts] = ts
  <2>1. Grouping[ts] = GroupBy(Grouping, ts)
    BY <1>3, GroupingIs
  <2>2. Len(ts) <= 1
    BY <1>3
  <2> QED
    BY <2>1, <2>2 DEF GroupBy
<1> QED
  BY <1>2, <1>4, <1>5

LEMMA NoOperator ==
  ASSUME NEW k \in TokenKinds, getBinOpPrecedence(k) # Unknown \/ IsUnaryOp(k)
  PROVE  k # "(" /\ k # ")" /\ k # "x" /\ k \notin Ends
BY DEF getBinOpPrecedence, Unknown, IsUnaryOp, Ends, TokenKinds

LEMMA UnaryIs ==
  ASSUME NEW op \in TokenKinds, IsUnaryOp(op), NEW r, Expr(r, 6)
  PROVE  /\ Expr(<<op>> \o r, 6)
         /\ Grouping[<<op>> \o r] = UnaryNode(op, Grouping[r])
<1>1. PICK s : s = <<op>>
  OBVIOUS
<1>2. PICK u : u = s \o r
  OBVIOUS
<1>3. op # "(" /\ op # ")" /\ op \notin Ends
  BY NoOperator
<1>4. /\ s \in Seq(TokenKinds) /\ Len(s) = 1 /\ s[1] = op
      /\ Opened(s) = 0 /\ Closed(s) = 0 /\ DepthAt(s, 1) = 0 /\ Roots(s) = {}
  BY <1>1, <1>3, OneToken
<1>5. /\ r \in Seq(TokenKinds) /\ Len(r) # 0 /\ r[Len(r)] \in Ends /\ Opened(r) = Closed(r)
      /\ \A i \in 1 .. Len(r) : DepthAt(r, i) >= 0
      /\ \A i \in Roots(r) : getBinOpPrecedence(r[i]) >= 6
  BY DEF Expr
<1>6. PICK n \in Nat \ {0} : n = Len(r)
  BY <1>5, LenProperties
<1>7. /\ u \in Seq(TokenKinds) /\ Len(u) = 1 + n /\ u[1] = op
      /\ \A i \in 1 .. n : u[1 + i] = r[i]
  <2>1. /\ u \in Seq(TokenKinds) /\ Len(u) = Len(s) + Len(r)
        /\ \A i \in 1 .. Len(s) : u[i] = s[i]
        /\ \A i \in 1 .. Len(r) : u[Len(s) + i] = r[i]
    <3>1. s \in Seq(TokenKinds) /\ r \in Seq(TokenKinds)
      BY <1>4, <1>5
    <3> QED
      BY <1>2, <3>1, ConcatAt
  <2>2. u[1] = s[1]
    BY <1>4, <2>1
  <2> QED
    BY <1>4, <1>6, <2>1, <2>2
<1>8. Roots(r) = {}
  <2> SUFFICES ASSUME NEW i \in Roots(r) PROVE FALSE
    OBVIOUS
  <2>1. getBinOpPrecedence(r[i]) \in 0 .. 5 /\ getBinOpPrecedence(r[i]) >= 6
    BY <1>5, PrecedenceType
  <2> QED
    BY <2>1
<1>9. Roots(u) = {}
  <2> SUFFICES ASSUME NEW i \in Roots(u) PROVE FALSE
    OBVIOUS
  <2>1. CASE i \in 1 .. Len(s)
    BY <1>2, <1>4, <1>5, <2>1, RootsConcat
  <2>2. CASE \E j \in 1 .. Len(r) : i = Len(s) + j
    <3>1. PICK j \in 1 .. Len(r) : i = Len(s) + j
      BY <2>2
    <3>2. /\ getBinOpPrecedence(r[j]) # Unknown
          /\ Opened(s) - Closed(s) + DepthAt(r, j) = 0
          /\ IF j = 1 THEN Len(s) # 0 /\ s[Len(s)] \in Ends ELSE r[j - 1] \in Ends
      BY <1>2, <1>4, <1>5, <3>1, RootsConcat
    <3>3. j # 1
      BY <1>3, <1>4, <3>2
    <3>4. DepthAt(r, j) = 0
      <4>1. DepthAt(r, j) \in Int
        BY <1>4, <1>5, DepthConcat
      <4> QED
        BY <1>4, <3>2, <4>1
    <3>5. j \in Roots(r)
      <4>1. j \in DOMAIN r /\ j > 1
        BY <1>5, <1>6, <3>3, LenProperties
      <4> QED
        BY <3>2, <3>3, <3>4, <4>1 DEF Roots, BinaryAt, Ends
    <3> QED
      BY <1>8, <3>5
  <2> QED
    BY <1>2, <1>4, <1>5, <2>1, <2>2, RootsConcat
<1>10. Opened(u) = Closed(u) /\ \A i \in 1 .. 1 + n : DepthAt(u, i) >= 0
  <2>1. /\ \A i \in 1 .. Len(s) : DepthAt(u, i) = DepthAt(s, i)
        /\ \A i \in 1 .. Len(r) : /\ DepthAt(r, i) \in Int
                                  /\ DepthAt(u, Len(s) + i) = Opened(s) - Closed(s) + DepthAt(r, i)
        /\ Opened(u) = Opened(s) + Opened(r) /\ Closed(u) = Closed(s) + Closed(r)
    BY <1>2, <1>4, <1>5, DepthConcat
  <2>2. Opened(u) = Closed(u)
    BY <1>4, <1>5, <2>1
  <2>3. ASSUME NEW i \in 1 .. 1 + n PROVE DepthAt(u, i) >= 0
    <3>1. CASE i = 1
      BY <1>4, <2>1, <3>1
    <3>2. CASE i # 1
      <4>1. PICK j \in 1 .. n : i = 1 + j
        <5>1. i - 1 \in 1 .. n /\ i = 1 + (i - 1)
          BY <3>2
        <5> QED
          BY <5>1
      <4>2. DepthAt(u, 1 + j) = 0 - 0 + DepthAt(r, j)
        BY <1>4, <1>6, <2>1
      <4>3. DepthAt(r, j) \in Int /\ DepthAt(r, j) >= 0
        BY <1>5, <1>6, <2>1
      <4> QED
        BY <4>1, <4>2, <4>3
    <3> QED
      BY <3>1, <3>2
  <2> QED
    BY <2>2, <2>3
<1>11. Expr(u, 6)
  <2>1. u[Len(u)] \in Ends
    <3>1. n \in 1 .. n
      OBVIOUS
    <3>2. u[1 + n] = r[n]
      BY <1>7, <3>1
    <3> QED
      BY <1>5, <1>6, <1>7, <3>2
  <2>2. Len(u) # 0
    BY <1>6, <1>7
  <2> QED
    BY <1>7, <1>9, <1>10, <2>1, <2>2 DEF Expr
<1>12. SubSeq(u, 2, Len(u)) = r
  <2>1. r # << >>
    BY <1>5, EmptySeq
  <2>2. Len(s) + 1 = 2
    BY <1>4
  <2>3. SubSeq(s \o r, Len(s) + 1, Len(s \o r)) = r
    BY <1>4, <1>5, <2>1, BehindIs
  <2> QED
    BY <1>2, <2>2, <2>3
<1>13. Grouping[u] = UnaryNode(op, Grouping[r])
  <2>1. ~ Len(u) <= 1
    BY <1>6, <1>7
  <2> QED
    BY <1>7, <1>9, <1>12, <2>1, GroupingIs DEF GroupBy
<1> QED
  BY <1>1, <1>2, <1>11, <1>13

(* An expression in parentheses has no operator outside of them.           *)
LEMMA ParenIs ==
  ASSUME NEW r, NEW m, Expr(r, m), NEW u, u = (<<"(">> \o r) \o <<")">>
  PROVE  Expr(u, 6) /\ Grouping[u] = ParenNode(Grouping[r])
<1>1. PICK s : s = <<"(">>
  OBVIOUS
<1>2. PICK e : e = <<")">>
  OBVIOUS
<1>3. PICK v : v = s \o r
  OBVIOUS
<1>4. u = v \o e
  BY <1>1, <1>2, <1>3
<1>5. /\ s \in Seq(TokenKinds) /\ Len(s) = 1 /\ s[1] = "("
      /\ Opened(s) = 1 /\ Closed(s) = 0 /\ DepthAt(s, 1) = 0 /\ Roots(s) = {}
  <2>1. "(" \in TokenKinds /\ "(" # ")"
    BY DEF TokenKinds
  <2> QED
    BY <1>1, <2>1, OneToken
<1>6. /\ e \in Seq(TokenKinds) /\ Len(e) = 1 /\ e[1] = ")"
      /\ Opened(e) = 0 /\ Closed(e) = 1 /\ DepthAt(e, 1) = -1
  <2>1. ")" \in TokenKinds /\ "(" # ")"
    BY DEF TokenKinds
  <2> QED
    BY <1>2, <2>1, OneToken
<1>7. /\ r \in Seq(TokenKinds) /\ Len(r) # 0 /\ Opened(r) = Closed(r)
      /\ \A i \in 1 .. Len(r) : DepthAt(r, i) >= 0
  BY DEF Expr
<1>8. PICK n \in Nat \ {0} : n = Len(r)
  BY <1>7, LenProperties
<1>9. /\ v \in Seq(TokenKinds) /\ Len(v) = 1 + n /\ v[1] = "("
  <2>1. s \in Seq(TokenKinds) /\ r \in Seq(TokenKinds)
    BY <1>5, <1>7
  <2>2. /\ v \in Seq(TokenKinds) /\ Len(v) = Len(s) + Len(r)
        /\ \A i \in 1 .. Len(s) : v[i] = s[i]
    BY <1>3, <2>1, ConcatAt
  <2>3. v[1] = s[1]
    BY <1>5, <2>2
  <2> QED
    BY <1>5, <1>8, <2>2, <2>3
<1>10. u \in Seq(TokenKinds) /\ Len(u) = 2 + n /\ u[1] = "(" /\ u[2 + n] = ")"
  <2>1. v \in Seq(TokenKinds) /\ e \in Seq(TokenKinds)
    BY <1>6, <1>9
  <2>2. /\ u \in Seq(TokenKinds) /\ Len(u) = Len(v) + Len(e)
        /\ \A i \in 1 .. Len(v) : u[i] = v[i]
        /\ \A i \in 1 .. Len(e) : u[Len(v) + i] = e[i]
    <3>1. /\ v \o e \in Seq(TokenKinds) /\ Len(v \o e) = Len(v) + Len(e)
          /\ \A i \in 1 .. Len(v) : (v \o e)[i] = v[i]
          /\ \A i \in 1 .. Len(e) : (v \o e)[Len(v) + i] = e[i]
      BY <2>1, ConcatAt
    <3> QED
      BY <1>4, <3>1
  <2>3. u[1] = v[1]
    <3>1. 1 \in 1 .. Len(v)
      BY <1>8, <1>9
    <3> QED
      BY <2>2, <3>1
  <2>4. u[Len(v) + 1] = e[1]
    BY <1>6, <2>2
  <2>5. Len(v) + 1 = 2 + n
    BY <1>8, <1>9
  <2> QED
    BY <1>6, <1>8, <1>9, <2>2, <2>3, <2>4, <2>5
<1>11. Opened(r) \in Nat /\ Closed(r) \in Nat
  BY <1>5, <1>7, DepthConcat
<1>12. /\ Opened(v) = 1 + Opened(r) /\ Closed(v) = Closed(r)
       /\ DepthAt(v, 1) = 0
       /\ \A i \in 1 .. n : DepthAt(r, i) \in Int /\ DepthAt(v, 1 + i) = 1 + DepthAt(r, i)
  <2>1. /\ \A i \in 1 .. Len(s) : DepthAt(v, i) = DepthAt(s, i)
        /\ \A i \in 1 .. Len(r) : /\ DepthAt(r, i) \in Int
                                  /\ DepthAt(v, Len(s) + i) = Opened(s) - Closed(s) + DepthAt(r, i)
        /\ Opened(v) = Opened(s) + Opened(r) /\ Closed(v) = Closed(s) + Closed(r)
    <3>1. s \in Seq(TokenKinds) /\ r \in Seq(TokenKinds)
      BY <1>5, <1>7
    <3> QED
      BY <1>3, <3>1, DepthConcat
  <2>2. DepthAt(v, 1) = 0
    BY <1>5, <2>1
  <2>3. ASSUME NEW i \in 1 .. n
        PROVE  DepthAt(r, i) \in Int /\ DepthAt(v, 1 + i) = 1 + DepthAt(r, i)
    <3>1. DepthAt(r, i) \in Int /\ DepthAt(v, 1 + i) = 1 - 0 + DepthAt(r, i)
      BY <1>5, <1>8, <2>1
    <3> QED
      BY <3>1
  <2> QED
    BY <1>5, <1>11, <2>1, <2>2, <2>3
<1>13. /\ Opened(u) = Closed(u)
       /\ \A i \in 1 .. 1 + n : DepthAt(u, i) = DepthAt(v, i)
       /\ DepthAt(u, 2 + n) = 0
  <2>1. /\ \A i \in 1 .. Len(v) : DepthAt(u, i) = DepthAt(v, i)
        /\ \A i \in 1 .. Len(e) : DepthAt(u, Len(v) + i) = Opened(v) - Closed(v) + DepthAt(e, i)
        /\ Opened(u) = Opened(v) + Opened(e) /\ Closed(u) = Closed(v) + Closed(e)
    <3>1. v \in Seq(TokenKinds) /\ e \in Seq(TokenKinds)
      BY <1>6, <1>9
    <3>2. /\ \A i \in 1 .. Len(v) : DepthAt(v \o e, i) = DepthAt(v, i)
          /\ \A i \in 1 .. Len(e) : DepthAt(v \o e, Len(v) + i) = Opened(v) - Closed(v) + DepthAt(e, i)
          /\ Opened(v \o e) = Opened(v) + Opened(e) /\ Closed(v \o e) = Closed(v) + Closed(e)
      BY <3>1, DepthConcat
    <3> QED
      BY <1>4, <3>2
  <2>2. Opened(u) = Closed(u)
    BY <1>6, <1>7, <1>11, <1>12, <2>1
  <2>3. DepthAt(u, Len(v) + 1) = Opened(v) - Closed(v) + DepthAt(e, 1)
    BY <1>6, <2>1
  <2>4. Len(v) + 1 = 2 + n
    BY <1>8, <1>9
  <2>5. DepthAt(u, 2 + n) = 0
    BY <1>6, <1>7, <1>11, <1>12, <2>3, <2>4
  <2> QED
    BY <1>9, <2>1, <2>2, <2>5
<1>14. ASSUME NEW i \in 1 .. 2 + n
       PROVE  DepthAt(u, i) >= 0 /\ i \notin Roots(u)
  <2>1. CASE i = 1
    <3>1. DepthAt(u, i) = 0
      BY <1>8, <1>12, <1>13, <2>1
    <3>2. i \notin Roots(u)
      BY <2>1 DEF Roots, BinaryAt
    <3> QED
      BY <3>1, <3>2
  <2>2. CASE i = 2 + n
    <3>1. getBinOpPrecedence(u[i]) = Unknown
      BY <1>10, <2>2 DEF getBinOpPrecedence, Unknown
    <3>2. i \notin Roots(u)
      BY <3>1 DEF Roots, BinaryAt
    <3> QED
      BY <1>13, <2>2, <3>2
  <2>3. CASE i # 1 /\ i # 2 + n
    <3>1. PICK j \in 1 .. n : i = 1 + j
      <4>1. i - 1 \in 1 .. n /\ i = 1 + (i - 1)
        BY <2>3
      <4> QED
        BY <4>1
    <3>2. DepthAt(u, i) = 1 + DepthAt(r, j) /\ DepthAt(r, j) \in Int
      <4>1. i \in 1 .. 1 + n
        BY <2>3
      <4> QED
        BY <1>12, <1>13, <3>1, <4>1
    <3>3. DepthAt(r, j) >= 0
      BY <1>7, <1>8
    <3>4. DepthAt(u, i) >= 0 /\ DepthAt(u, i) # 0
      BY <3>2, <3>3
    <3> QED
      BY <3>4 DEF Roots
  <2> QED
    BY <2>1, <2>2, <2>3
<1>15. Roots(u) = {}
  <2>1. \A i \in Roots(u) : i \in 1 .. 2 + n
    BY <1>10, LenProperties DEF Roots
  <2> QED
    BY <1>14, <2>1
<1>16. Expr(u, 6)
  <2>1. u[Len(u)] \in Ends /\ Len(u) # 0
    BY <1>8, <1>10 DEF Ends
  <2> QED
    BY <1>10, <1>13, <1>14, <1>15, <2>1 DEF Expr
<1>17. SubSeq(u, 2, Len(u) - 1) = r
  <2>1. SubSeq(u, 1, 1 + n) = v
    <3>1. v \in Seq(TokenKinds) /\ e \in Seq(TokenKinds)
      BY <1>6, <1>9
    <3>2. SubSeq(v \o e, 1, Len(v)) = v
      BY <3>1, BeforeIs
    <3> QED
      BY <1>4, <1>9, <3>2
  <2>2. r # << >>
    BY <1>7, EmptySeq
  <2>3. SubSeq(v, Len(s) + 1, Len(v)) = r
    <3>1. s \in Seq(TokenKinds) /\ r \in Seq(TokenKinds)
      BY <1>5, <1>7
    <3> QED
      BY <1>3, <2>2, <3>1, BehindIs
  <2>4. PICK last \in 1 .. Len(u) : last = 1 + n
    BY <1>8, <1>10
  <2>5. PICK one \in 1 .. Len(u) : one = 1
    BY <1>8, <1>10
  <2>6. /\ 2 \in 1 .. last - one + 1 /\ last \in 1 .. last - one + 1
        /\ one + 2 - 1 = 2 /\ one + last - 1 = last
    BY <1>8, <2>4, <2>5
  <2>7. SubSeq(SubSeq(u, one, last), 2, last) = SubSeq(u, one + 2 - 1, one + last - 1)
    BY <1>10, <2>6, SubSeqOfSubSeq
  <2>8. SubSeq(v, 2, last) = SubSeq(u, 2, last)
    BY <2>1, <2>4, <2>5, <2>6, <2>7
  <2>9. SubSeq(v, 2, last) = r
    <3>1. Len(s) + 1 = 2 /\ Len(v) = last
      BY <1>5, <1>9, <2>4
    <3> QED
      BY <2>3, <3>1
  <2>10. Len(u) - 1 = last
    BY <1>8, <1>10, <2>4
  <2> QED
    BY <2>8, <2>9, <2>10
<1>18. Grouping[u] = ParenNode(Grouping[r])
  <2>1. ~ Len(u) <= 1
    BY <1>8, <1>10
  <2>2. ~ IsUnaryOp(u[1])
    BY <1>10 DEF IsUnaryOp
  <2>3. Grouping[u] = GroupBy(Grouping, u)
    BY <1>10, GroupingIs
  <2> QED
    BY <1>15, <1>17, <2>1, <2>2, <2>3 DEF GroupBy
<1> QED
  BY <1>16, <1>18

LEMMA NotLess == \A p, q \in Nat : p >= q /\ p <= q => p = q
OBVIOUS

LEMMA MoreThan == \A p, q \in Nat : p >= q + 1 => p >= q /\ p # q
OBVIOUS

(* An operator between what binds at least as much and what binds more.    *)
Fits(s, op, r, q) == getBinOpPrecedence(op) = q /\ Expr(s, q) /\ Expr(r, q + 1)
Joined(u, s, op, r, q) == Expr(u, q) /\ Grouping[u] = BinaryNode(Grouping[s], op, Grouping[r])

LEMMA BinaryIs ==
  ASSUME NEW op \in TokenKinds, NEW q \in 1 .. 5, NEW s, NEW r, Fits(s, op, r, q),
         NEW u, u = (s \o <<op>>) \o r
  PROVE  Joined(u, s, op, r, q)
<1>0. getBinOpPrecedence(op) = q
  BY DEF Fits
<1>1. PICK e : e = <<op>>
  OBVIOUS
<1>2. PICK v : v = s \o e
  OBVIOUS
<1>3. u = v \o r
  BY <1>1, <1>2
<1>4. op # "(" /\ op # ")" /\ op \notin Ends
  BY <1>0, NoOperator DEF Unknown
<1>5. /\ e \in Seq(TokenKinds) /\ Len(e) = 1 /\ e[1] = op
      /\ Opened(e) = 0 /\ Closed(e) = 0 /\ DepthAt(e, 1) = 0
  BY <1>1, <1>4, OneToken
<1>6. /\ s \in Seq(TokenKinds) /\ Len(s) # 0 /\ s[Len(s)] \in Ends /\ Opened(s) = Closed(s)
      /\ \A i \in 1 .. Len(s) : DepthAt(s, i) >= 0
      /\ \A i \in Roots(s) : getBinOpPrecedence(s[i]) >= q
  BY DEF Fits, Expr
<1>7. /\ r \in Seq(TokenKinds) /\ Len(r) # 0 /\ r[Len(r)] \in Ends /\ Opened(r) = Closed(r)
      /\ \A i \in 1 .. Len(r) : DepthAt(r, i) >= 0
      /\ \A i \in Roots(r) : getBinOpPrecedence(r[i]) >= q + 1
  BY DEF Fits, Expr
<1>8. PICK a \in Nat \ {0} : a = Len(s)
  BY <1>6, LenProperties
<1>9. PICK b \in Nat \ {0} : b = Len(r)
  BY <1>7, LenProperties
<1>10. /\ v \in Seq(TokenKinds) /\ Len(v) = a + 1 /\ v[a + 1] = op
       /\ \A i \in 1 .. a : v[i] = s[i]
  <2>1. s \in Seq(TokenKinds) /\ e \in Seq(TokenKinds)
    BY <1>5, <1>6
  <2>2. /\ v \in Seq(TokenKinds) /\ Len(v) = Len(s) + Len(e)
        /\ \A i \in 1 .. Len(s) : v[i] = s[i]
        /\ \A i \in 1 .. Len(e) : v[Len(s) + i] = e[i]
    BY <1>2, <2>1, ConcatAt
  <2>3. v[Len(s) + 1] = e[1]
    BY <1>5, <2>2
  <2> QED
    BY <1>5, <1>8, <2>2, <2>3
<1>11. /\ u \in Seq(TokenKinds) /\ Len(u) = a + 1 + b
       /\ \A i \in 1 .. a + 1 : u[i] = v[i]
       /\ \A i \in 1 .. b : u[a + 1 + i] = r[i]
  <2>1. v \in Seq(TokenKinds) /\ r \in Seq(TokenKinds)
    BY <1>7, <1>10
  <2>2. /\ v \o r \in Seq(TokenKinds) /\ Len(v \o r) = Len(v) + Len(r)
        /\ \A i \in 1 .. Len(v) : (v \o r)[i] = v[i]
        /\ \A i \in 1 .. Len(r) : (v \o r)[Len(v) + i] = r[i]
    BY <2>1, ConcatAt
  <2> QED
    BY <1>3, <1>9, <1>10, <2>2
<1>12. Opened(s) \in Nat /\ Closed(s) \in Nat /\ Opened(r) \in Nat /\ Closed(r) \in Nat
  <2>1. s \in Seq(TokenKinds) /\ r \in Seq(TokenKinds)
    BY <1>6, <1>7
  <2> QED
    BY <2>1, DepthConcat
<1>13. /\ Opened(v) = Opened(s) /\ Closed(v) = Closed(s)
       /\ DepthAt(v, a + 1) = 0
       /\ \A i \in 1 .. a : DepthAt(v, i) = DepthAt(s, i)
  <2>1. s \in Seq(TokenKinds) /\ e \in Seq(TokenKinds)
    BY <1>5, <1>6
  <2>2. /\ \A i \in 1 .. Len(s) : DepthAt(v, i) = DepthAt(s, i)
        /\ \A i \in 1 .. Len(e) : DepthAt(v, Len(s) + i) = Opened(s) - Closed(s) + DepthAt(e, i)
        /\ Opened(v) = Opened(s) + Opened(e) /\ Closed(v) = Closed(s) + Closed(e)
    BY <1>2, <2>1, DepthConcat
  <2>3. DepthAt(v, Len(s) + 1) = Opened(s) - Closed(s) + DepthAt(e, 1)
    BY <1>5, <2>2
  <2> QED
    BY <1>5, <1>6, <1>8, <1>12, <2>2, <2>3
<1>14. /\ \A i \in 1 .. a + 1 : DepthAt(u, i) = DepthAt(v, i)
       /\ \A i \in 1 .. b : DepthAt(r, i) \in Int /\ DepthAt(u, a + 1 + i) = DepthAt(r, i)
       /\ Opened(u) = Closed(u)
  <2>1. v \in Seq(TokenKinds) /\ r \in Seq(TokenKinds)
    BY <1>7, <1>10
  <2>2. /\ \A i \in 1 .. Len(v) : DepthAt(v \o r, i) = DepthAt(v, i)
        /\ \A i \in 1 .. Len(r) : /\ DepthAt(r, i) \in Int
                                  /\ DepthAt(v \o r, Len(v) + i) = Opened(v) - Closed(v) + DepthAt(r, i)
        /\ Opened(v \o r) = Opened(v) + Opened(r) /\ Closed(v \o r) = Closed(v) + Closed(r)
    BY <2>1, DepthConcat
  <2>3. Opened(v) - Closed(v) = 0
    BY <1>6, <1>12, <1>13
  <2>4. ASSUME NEW i \in 1 .. b PROVE DepthAt(r, i) \in Int /\ DepthAt(u, a + 1 + i) = DepthAt(r, i)
    <3>1. DepthAt(r, i) \in Int /\ DepthAt(u, a + 1 + i) = Opened(v) - Closed(v) + DepthAt(r, i)
      BY <1>3, <1>9, <1>10, <2>2
    <3> QED
      BY <2>3, <3>1
  <2>5. Opened(u) = Closed(u)
    BY <1>3, <1>6, <1>7, <1>12, <1>13, <2>2
  <2> QED
    BY <1>3, <1>10, <2>2, <2>4, <2>5
<1>15. a + 1 \in Roots(u)
  <2>1. PICK c \in 2 .. a + 1 + b : c = a + 1
    BY <1>8, <1>9
  <2>2. u[c] = op /\ c > 1 /\ c \in DOMAIN u
    BY <1>10, <1>11, <2>1, LenProperties
  <2>3. DepthAt(u, c) = 0
    BY <1>13, <1>14, <2>1
  <2>4. u[c - 1] = s[a]
    <3>1. a \in 1 .. a /\ a \in 1 .. a + 1 /\ c - 1 = a
      BY <2>1
    <3> QED
      BY <1>10, <1>11, <3>1
  <2>5. u[c - 1] \in Ends
    BY <1>6, <1>8, <2>4
  <2>6. getBinOpPrecedence(u[c]) # Unknown
    <3>1. q # 0
      OBVIOUS
    <3> QED
      BY <1>0, <2>2, <3>1 DEF Unknown
  <2>7. BinaryAt(u, c)
    BY <2>2, <2>5, <2>6 DEF BinaryAt, Ends
  <2> QED
    BY <2>1, <2>2, <2>3, <2>7 DEF Roots
<1>16. ASSUME NEW i \in Roots(u)
       PROVE  /\ getBinOpPrecedence(u[i]) >= q
              /\ getBinOpPrecedence(u[i]) = q => i <= a + 1
  <2>0. v \in Seq(TokenKinds) /\ r \in Seq(TokenKinds)
    BY <1>7, <1>10
  <2>1. i \in 1 .. a + 1 + b
    BY <1>11, LenProperties DEF Roots
  <2>2. CASE i = a + 1
    BY <1>0, <1>10, <1>11, <2>2
  <2>3. CASE i \in 1 .. a
    <3>1. i \in 1 .. Len(v) /\ i \in 1 .. Len(s)
      BY <1>8, <1>10, <2>3
    <3>2. i \in Roots(v)
      <4>1. i \in Roots(v \o r)
        BY <1>3
      <4> QED
        BY <2>0, <3>1, <4>1, RootsConcat
    <3>3. i \in Roots(s)
      <4>1. s \in Seq(TokenKinds) /\ e \in Seq(TokenKinds)
        BY <1>5, <1>6
      <4>2. i \in Roots(s \o e)
        BY <1>2, <3>2
      <4> QED
        BY <3>1, <4>1, <4>2, RootsConcat
    <3>4. u[i] = s[i]
      BY <1>10, <1>11, <2>3
    <3>5. getBinOpPrecedence(s[i]) >= q
      BY <1>6, <3>3
    <3>6. i <= a + 1
      BY <2>3
    <3> QED
      BY <3>4, <3>5, <3>6
  <2>4. CASE i \in a + 2 .. a + 1 + b
    <3>1. PICK j \in 1 .. b : i = a + 1 + j
      <4>1. i - (a + 1) \in 1 .. b /\ i = a + 1 + (i - (a + 1))
        BY <2>4
      <4> QED
        BY <4>1
    <3>2. /\ getBinOpPrecedence(r[j]) # Unknown
          /\ IF j = 1 THEN Len(v) # 0 /\ v[Len(v)] \in Ends ELSE r[j - 1] \in Ends
      <4>1. Len(v) + j \in Roots(v \o r) /\ j \in 1 .. Len(r)
        BY <1>3, <1>9, <1>10, <3>1
      <4>2. \A n \in 1 .. Len(r) :
              Len(v) + n \in Roots(v \o r) <=>
                /\ getBinOpPrecedence(r[n]) # Unknown
                /\ Opened(v) - Closed(v) + DepthAt(r, n) = 0
                /\ IF n = 1 THEN Len(v) # 0 /\ v[Len(v)] \in Ends ELSE r[n - 1] \in Ends
        BY <2>0, RootsConcat
      <4> QED
        BY <4>1, <4>2
    <3>3. j # 1
      BY <1>4, <1>10, <3>2
    <3>4. DepthAt(r, j) = 0
      <4>1. DepthAt(u, i) = 0
        BY DEF Roots
      <4> QED
        BY <1>14, <3>1, <4>1
    <3>5. j \in Roots(r)
      <4>1. j \in DOMAIN r /\ j > 1
        BY <1>7, <1>9, <3>3, LenProperties
      <4> QED
        BY <3>2, <3>3, <3>4, <4>1 DEF Roots, BinaryAt, Ends
    <3>6. u[i] = r[j]
      BY <1>11, <3>1
    <3>7. getBinOpPrecedence(r[j]) >= q + 1 /\ getBinOpPrecedence(r[j]) \in 0 .. 5
      BY <1>7, <3>5, PrecedenceType
    <3>8. PICK p \in 0 .. 5 : p = getBinOpPrecedence(u[i])
      BY <3>6, <3>7
    <3>9. p >= q + 1
      BY <3>6, <3>7, <3>8
    <3>10. p \in Nat /\ q \in Nat
      OBVIOUS
    <3>11. p >= q /\ p # q
      BY <3>9, <3>10, MoreThan
    <3> QED
      BY <3>8, <3>11, Zenon
  <2>5. i = a + 1 \/ i \in 1 .. a \/ i \in a + 2 .. a + 1 + b
    BY <2>1
  <2> QED
    BY <2>2, <2>3, <2>4, <2>5, Zenon
<1>17. Expr(u, q)
  <2>1. u[Len(u)] \in Ends
    <3>1. b \in 1 .. b
      OBVIOUS
    <3>2. u[a + 1 + b] = r[b]
      BY <1>11, <3>1
    <3> QED
      BY <1>7, <1>9, <1>11, <3>2
  <2>2. Len(u) # 0
    BY <1>11
  <2>3. ASSUME NEW i \in 1 .. Len(u) PROVE DepthAt(u, i) >= 0
    <3>1. i \in 1 .. a + 1 + b
      BY <1>11
    <3>2. CASE i \in 1 .. a
      BY <1>6, <1>8, <1>13, <1>14, <3>2
    <3>3. CASE i = a + 1
      BY <1>13, <1>14, <3>3
    <3>4. CASE i \in a + 2 .. a + 1 + b
      <4>1. PICK j \in 1 .. b : i = a + 1 + j
        <5>1. i - (a + 1) \in 1 .. b /\ i = a + 1 + (i - (a + 1))
          BY <3>4
        <5> QED
          BY <5>1
      <4> QED
        BY <1>7, <1>9, <1>14, <4>1
    <3> QED
      BY <3>1, <3>2, <3>3, <3>4
  <2> QED
    BY <1>11, <1>14, <1>16, <2>1, <2>2, <2>3 DEF Expr
<1>18. Root(u) = a + 1
  <2>1. /\ Root(u) \in Roots(u) /\ Root(u) \in 2 .. Len(u)
        /\ \A i \in Roots(u) :
             /\ getBinOpPrecedence(u[Root(u)]) <= getBinOpPrecedence(u[i])
             /\ getBinOpPrecedence(u[Root(u)]) = getBinOpPrecedence(u[i]) => i <= Root(u)
    BY <1>11, <1>15, RootIs
  <2>2. PICK k \in 2 .. a + 1 + b : k = Root(u)
    BY <1>11, <2>1
  <2>3. getBinOpPrecedence(u[a + 1]) = q
    BY <1>0, <1>10, <1>11
  <2>4. getBinOpPrecedence(u[k]) \in 0 .. 5 /\ q \in 0 .. 5
    BY <1>4, PrecedenceType
  <2>5. getBinOpPrecedence(u[k]) >= q /\ (getBinOpPrecedence(u[k]) = q => k <= a + 1)
    BY <1>16, <2>1, <2>2
  <2>6. /\ getBinOpPrecedence(u[k]) <= q
        /\ getBinOpPrecedence(u[k]) = q => a + 1 <= k
    BY <1>15, <2>1, <2>2, <2>3
  <2>7. getBinOpPrecedence(u[k]) = q
    <3>1. PICK p \in 0 .. 5 : p = getBinOpPrecedence(u[k])
      BY <2>4
    <3>2. p >= q /\ p <= q
      BY <2>5, <2>6, <3>1
    <3>3. p \in Nat /\ q \in Nat
      OBVIOUS
    <3>4. p = q
      BY <3>2, <3>3, NotLess
    <3> QED
      BY <3>1, <3>4
  <2>8. k <= a + 1 /\ a + 1 <= k
    BY <2>5, <2>6, <2>7
  <2> QED
    BY <2>2, <2>8
<1>19. SubSeq(u, 1, Root(u) - 1) = s
  <2>1. SubSeq(u, 1, a) = SubSeq(v, 1, a)
    <3>1. v \in Seq(TokenKinds) /\ r \in Seq(TokenKinds) /\ 1 \in 1 .. Len(v) /\ a \in 1 .. Len(v)
      BY <1>7, <1>10
    <3> QED
      BY <1>3, <3>1, SubSeqOfConcat1
  <2>2. SubSeq(v, 1, Len(s)) = s
    <3>1. s \in Seq(TokenKinds) /\ e \in Seq(TokenKinds)
      BY <1>5, <1>6
    <3> QED
      BY <1>2, <3>1, BeforeIs
  <2>3. Root(u) - 1 = a
    BY <1>18
  <2> QED
    BY <1>8, <2>1, <2>2, <2>3
<1>20. SubSeq(u, Root(u) + 1, Len(u)) = r
  <2>1. r # << >>
    BY <1>7, EmptySeq
  <2>2. v \in Seq(TokenKinds) /\ r \in Seq(TokenKinds)
    BY <1>7, <1>10
  <2>3. SubSeq(v \o r, Len(v) + 1, Len(v \o r)) = r
    BY <2>1, <2>2, BehindIs
  <2>4. Root(u) + 1 = Len(v) + 1
    BY <1>10, <1>18
  <2> QED
    BY <1>3, <2>3, <2>4
<1>21. u[Root(u)] = op
  <2>1. a + 1 \in 1 .. a + 1
    OBVIOUS
  <2> QED
    BY <1>10, <1>11, <1>18, <2>1
<1>22. Grouping[u] = BinaryNode(Grouping[s], op, Grouping[r])
  <2>1. ~ Len(u) <= 1 /\ Roots(u) # {}
    BY <1>11, <1>15
  <2>2. Grouping[u] = GroupBy(Grouping, u)
    BY <1>11, GroupingIs
  <2> QED
    BY <1>19, <1>20, <1>21, <2>1, <2>2 DEF GroupBy
<1> QED
  BY <1>17, <1>22 DEF Joined

(* What binds at least as much as m binds at least as much as any less.    *)
LEMMA ExprWeaker ==
  ASSUME NEW m \in Nat, NEW k \in Nat, k <= m, NEW s, Expr(s, m)
  PROVE  Expr(s, k)
<1>1. \A i \in Roots(s) : getBinOpPrecedence(s[i]) >= k
  <2> SUFFICES ASSUME NEW i \in Roots(s) PROVE getBinOpPrecedence(s[i]) >= k
    OBVIOUS
  <2>1. getBinOpPrecedence(s[i]) >= m /\ getBinOpPrecedence(s[i]) \in 0 .. 5
    BY PrecedenceType DEF Expr
  <2> QED
    BY <2>1
<1> QED
  BY <1>1 DEF Expr

-----------------------------------------------------------------------------
(* The calls: what each of them gives to the one that waits for it.        *)

Glyphs == TokenKinds \cup {"[", "]"}
Trees == Seq(Glyphs) \ {<< >>}
Results == Trees \cup {Invalid}

Begun == {"ParseUnaryExpr", "loop"}
Holding == {"loop", "operand", "tighter"}

CallSet ==
  [at : {"ParseUnaryExpr", "ParseExpression", "close"}]
  \cup [at : {"unaryDone"}, op : TokenKinds]
  \cup [at : {"loop"}, LHS : Results, MinPrec : 1 .. 6, NextTokPrec : 0 .. 5]
  \cup [at : {"operand", "tighter"}, LHS : Results, MinPrec : 1 .. 6, NextTokPrec : 0 .. 5, op : TokenKinds]

(* How much the operators of a call's result bind at least, and those of   *)
(* the result it waits for: more than any for an operand.                  *)
Gives(c) == IF c.at \in Holding THEN c.MinPrec
            ELSE IF c.at = "ParseExpression" THEN Lowest ELSE 6
Wants(c) == IF c.at = "tighter" THEN c.NextTokPrec + 1
            ELSE IF c.at = "close" THEN Lowest ELSE 6
Level(cs) == IF cs = << >> THEN Lowest ELSE Wants(Head(cs))

Sound(c) ==
  /\ c.at = "unaryDone" => IsUnaryOp(c.op)
  /\ c.at \in {"operand", "tighter"} =>
       c.NextTokPrec = getBinOpPrecedence(c.op) /\ c.NextTokPrec >= c.MinPrec

Above(c, cs) == Gives(c) = Level(cs) /\ (cs # << >> => Head(cs).at \notin Begun)

Linked(cs) ==
  \A k \in 1 .. Len(cs) :
    /\ Sound(cs[k])
    /\ Gives(cs[k]) = IF k = Len(cs) THEN Lowest ELSE Wants(cs[k + 1])
    /\ k # Len(cs) => cs[k + 1].at \notin Begun

LEMMA FullStack ==
  ASSUME NEW S, NEW cs \in Seq(S), cs # << >>
  PROVE  /\ Head(cs) \in S /\ Tail(cs) \in Seq(S)
         /\ cs = <<Head(cs)>> \o Tail(cs) /\ Len(cs) = Len(Tail(cs)) + 1 /\ Len(Tail(cs)) \in Nat
<1>1. /\ Head(cs) \in S /\ Tail(cs) \in Seq(S) /\ Len(Tail(cs)) = Len(cs) - 1
      /\ \A i \in 1 .. Len(Tail(cs)) : Tail(cs)[i] = cs[i + 1]
  BY HeadTailProperties
<1>2. PICK t \in Seq(S) : t = Tail(cs)
  BY <1>1
<1>3. PICK h \in S : h = Head(cs) /\ h = cs[1]
  BY <1>1
<1>4. PICK n \in Nat : n = Len(t)
  BY LenProperties
<1>5. Len(cs) = n + 1
  BY <1>1, <1>2, <1>4, LenProperties
<1>6. PICK u : u = <<h>> \o t
  OBVIOUS
<1>7. u \in Seq(S) /\ Len(u) = n + 1 /\ u[1] = h /\ \A i \in 1 .. n : u[1 + i] = t[i]
  <2>1. <<h>> \in Seq(S) /\ t \in Seq(S)
    OBVIOUS
  <2>2. PICK w \in Seq(S) : w = <<h>> /\ Len(w) = 1 /\ w[1] = h
    BY <2>1
  <2>3. /\ w \o t \in Seq(S) /\ Len(w \o t) = Len(w) + Len(t)
        /\ \A i \in 1 .. Len(w) : (w \o t)[i] = w[i]
        /\ \A i \in 1 .. Len(t) : (w \o t)[Len(w) + i] = t[i]
    BY ConcatAt
  <2> QED
    BY <1>4, <1>6, <2>2, <2>3
<1>8. \A i \in 1 .. Len(cs) : cs[i] = u[i]
  <2> SUFFICES ASSUME NEW i \in 1 .. Len(cs) PROVE cs[i] = u[i]
    OBVIOUS
  <2>1. CASE i = 1
    BY <1>3, <1>7, <2>1
  <2>2. CASE i # 1
    <3>1. PICK j \in 1 .. n : i = 1 + j
      <4>1. i - 1 \in 1 .. n /\ i = 1 + (i - 1)
        BY <1>5, <2>2
      <4> QED
        BY <4>1
    <3>2. t[j] = cs[j + 1]
      BY <1>1, <1>2, <1>4
    <3> QED
      BY <1>7, <3>1, <3>2
  <2> QED
    BY <2>1, <2>2
<1>9. cs = u
  BY <1>5, <1>7, <1>8, SeqEqual
<1> QED
  BY <1>1, <1>2, <1>3, <1>4, <1>5, <1>6, <1>9

LEMMA OnTop ==
  ASSUME NEW S, NEW c \in S, NEW cs \in Seq(S)
  PROVE  /\ <<c>> \o cs \in Seq(S) /\ <<c>> \o cs # << >>
         /\ Head(<<c>> \o cs) = c /\ Tail(<<c>> \o cs) = cs
         /\ Len(<<c>> \o cs) = Len(cs) + 1 /\ (<<c>> \o cs)[1] = c
         /\ \A i \in 1 .. Len(cs) : (<<c>> \o cs)[i + 1] = cs[i]
<1>0. <<c>> \in Seq(S)
  OBVIOUS
<1>1. PICK w \in Seq(S) : w = <<c>> /\ Len(w) = 1 /\ w[1] = c
  BY <1>0
<1>2. PICK u : u = w \o cs
  OBVIOUS
<1>3. PICK n \in Nat : n = Len(cs)
  BY LenProperties
<1>4. u \in Seq(S) /\ Len(u) = n + 1 /\ u[1] = c /\ \A i \in 1 .. n : u[i + 1] = cs[i]
  <2>1. /\ w \o cs \in Seq(S) /\ Len(w \o cs) = Len(w) + Len(cs)
        /\ \A i \in 1 .. Len(w) : (w \o cs)[i] = w[i]
        /\ \A i \in 1 .. Len(cs) : (w \o cs)[Len(w) + i] = cs[i]
    BY ConcatAt
  <2> QED
    BY <1>1, <1>2, <1>3, <2>1
<1>5. u # << >>
  BY <1>4, EmptySeq
<1>6. Head(u) = c
  BY <1>4, <1>5
<1>7. Tail(u) = cs
  <2>1. /\ Tail(u) \in Seq(S) /\ Len(Tail(u)) = Len(u) - 1
        /\ \A i \in 1 .. Len(Tail(u)) : Tail(u)[i] = u[i + 1]
    BY <1>4, <1>5, HeadTailProperties
  <2>2. PICK t \in Seq(S) : t = Tail(u)
    BY <2>1
  <2>3. Len(t) = n /\ \A i \in 1 .. n : t[i] = cs[i]
    BY <1>4, <2>1, <2>2
  <2> QED
    BY <1>3, <2>2, <2>3, SeqEqual
<1> QED
  BY <1>1, <1>2, <1>3, <1>4, <1>5, <1>6, <1>7

LEMMA LinkedTop ==
  ASSUME NEW S, NEW c \in S, NEW cs \in Seq(S)
  PROVE  Linked(<<c>> \o cs) <=> Sound(c) /\ Above(c, cs) /\ Linked(cs)
<1>1. PICK u : u = <<c>> \o cs
  OBVIOUS
<1>2. PICK n \in Nat : n = Len(cs)
  BY LenProperties
<1>3. u \in Seq(S) /\ Len(u) = n + 1 /\ u[1] = c /\ \A i \in 1 .. n : u[i + 1] = cs[i]
  BY <1>1, <1>2, OnTop
<1>4. n = 0 <=> cs = << >>
  BY <1>2, EmptySeq
<1>5. cs # << >> => Head(cs) = cs[1]
  OBVIOUS
<1> DEFINE At(t, k) == /\ Sound(t[k])
                       /\ Gives(t[k]) = IF k = Len(t) THEN Lowest ELSE Wants(t[k + 1])
                       /\ k # Len(t) => t[k + 1].at \notin Begun
<1>6. At(u, 1) <=> Sound(c) /\ Above(c, cs)
  <2>1. CASE n = 0
    BY <1>2, <1>3, <1>4, <2>1 DEF Above, Level
  <2>2. CASE n # 0
    <3>1. 1 \in 1 .. n /\ 1 # n + 1
      BY <2>2
    <3>2. u[2] = Head(cs) /\ cs # << >>
      BY <1>3, <1>4, <1>5, <2>2, <3>1
    <3> QED
      BY <1>3, <3>1, <3>2 DEF Above, Level
  <2> QED
    BY <2>1, <2>2
<1>7. ASSUME NEW k \in 1 .. n PROVE At(u, k + 1) <=> At(cs, k)
  <2>1. u[k + 1] = cs[k] /\ (k + 1 = Len(u) <=> k = Len(cs))
    BY <1>2, <1>3
  <2>2. k # n => u[(k + 1) + 1] = cs[k + 1]
    <3> SUFFICES ASSUME k # n PROVE u[(k + 1) + 1] = cs[k + 1]
      OBVIOUS
    <3>1. PICK m \in 1 .. n : m = k + 1
      OBVIOUS
    <3> QED
      BY <1>3, <3>1
  <2> QED
    BY <1>2, <2>1, <2>2
<1>8. Linked(u) <=> \A k \in 1 .. n + 1 : At(u, k)
  BY <1>3 DEF Linked
<1>9. Linked(cs) <=> \A k \in 1 .. n : At(cs, k)
  BY <1>2 DEF Linked
<1> HIDE DEF At
<1>10. (\A k \in 1 .. n + 1 : At(u, k)) <=> At(u, 1) /\ \A k \in 1 .. n : At(u, k + 1)
  <2>1. ASSUME At(u, 1), \A k \in 1 .. n : At(u, k + 1), NEW k \in 1 .. n + 1 PROVE At(u, k)
    <3>1. CASE k = 1
      BY <2>1, <3>1
    <3>2. CASE k # 1
      <4>1. PICK j \in 1 .. n : k = j + 1
        <5>1. k - 1 \in 1 .. n /\ k = (k - 1) + 1
          BY <3>2
        <5> QED
          BY <5>1
      <4> QED
        BY <2>1, <4>1
    <3> QED
      BY <3>1, <3>2
  <2>2. ASSUME \A k \in 1 .. n + 1 : At(u, k), NEW k \in 1 .. n PROVE At(u, k + 1)
    <3>1. k + 1 \in 1 .. n + 1
      OBVIOUS
    <3> QED
      BY <2>2, <3>1
  <2>3. 1 \in 1 .. n + 1
    OBVIOUS
  <2> QED
    BY <2>1, <2>2, <2>3
<1> QED
  BY <1>1, <1>6, <1>7, <1>8, <1>9, <1>10

LEMMA LinkedEmpty == Linked(<< >>)
BY EmptySeq DEF Linked

(* A call has something invalid.                                           *)
Spoilt(c) == c.at \in Holding /\ c.LHS = Invalid
SomeSpoilt(cs) == \E k \in 1 .. Len(cs) : Spoilt(cs[k])

LEMMA SpoiltTop ==
  ASSUME NEW S, NEW c \in S, NEW cs \in Seq(S)
  PROVE  SomeSpoilt(<<c>> \o cs) <=> Spoilt(c) \/ SomeSpoilt(cs)
<1>1. PICK u : u = <<c>> \o cs
  OBVIOUS
<1>2. PICK n \in Nat : n = Len(cs)
  BY LenProperties
<1>3. u \in Seq(S) /\ Len(u) = n + 1 /\ u[1] = c /\ \A i \in 1 .. n : u[i + 1] = cs[i]
  BY <1>1, <1>2, OnTop
<1>4. ASSUME SomeSpoilt(u) PROVE Spoilt(c) \/ SomeSpoilt(cs)
  <2>1. PICK k \in 1 .. n + 1 : Spoilt(u[k])
    BY <1>3, <1>4 DEF SomeSpoilt
  <2>2. CASE k = 1
    BY <1>3, <2>1, <2>2
  <2>3. CASE k # 1
    <3>1. PICK j \in 1 .. n : k = j + 1
      <4>1. k - 1 \in 1 .. n /\ k = (k - 1) + 1
        BY <2>3
      <4> QED
        BY <4>1
    <3>2. Spoilt(cs[j])
      BY <1>3, <2>1, <3>1
    <3> QED
      BY <1>2, <3>2 DEF SomeSpoilt
  <2> QED
    BY <2>2, <2>3
<1>5. ASSUME Spoilt(c) PROVE SomeSpoilt(u)
  <2>1. 1 \in 1 .. Len(u)
    BY <1>3
  <2> QED
    BY <1>3, <1>5, <2>1 DEF SomeSpoilt
<1>6. ASSUME SomeSpoilt(cs) PROVE SomeSpoilt(u)
  <2>1. PICK k \in 1 .. n : Spoilt(cs[k])
    BY <1>2, <1>6 DEF SomeSpoilt
  <2>2. k + 1 \in 1 .. Len(u) /\ Spoilt(u[k + 1])
    BY <1>3, <2>1
  <2> QED
    BY <2>2 DEF SomeSpoilt
<1> QED
  BY <1>1, <1>4, <1>5, <1>6

LEMMA SpoiltEmpty == ~ SomeSpoilt(<< >>)
BY EmptySeq DEF SomeSpoilt

-----------------------------------------------------------------------------
(* The text: which part of it each call has taken.                         *)

(* What a call has on its left is the tree of t.                           *)
Left(c, t) == c.LHS # Invalid /\ c.LHS = Grouping[t] /\ Expr(t, c.NextTokPrec)

Stands(c, s) ==
  \/ c.at = "ParseExpression" /\ s = << >>
  \/ c.at = "close" /\ s = <<"(">>
  \/ c.at = "unaryDone" /\ s = <<c.op>>
  \/ c.at \in {"operand", "tighter"} /\ \E t : s = t \o <<c.op>> /\ Left(c, t)

Splits(pre, cs, txt) ==
  /\ pre \in [1 .. Len(cs) + 1 -> Seq(TokenKinds)]
  /\ pre[1] = txt /\ pre[Len(cs) + 1] = << >>
  /\ \A k \in 1 .. Len(cs) :
       \E s \in Seq(TokenKinds) : pre[k] = pre[k + 1] \o s /\ Stands(cs[k], s)

Explained(cs, txt) == \E pre : Splits(pre, cs, txt)

LEMMA ExplainedEmpty ==
  /\ \A txt : Explained(<< >>, txt) => txt = << >>
  /\ Explained(<< >>, << >>)
<1>1. << >> \in Seq(TokenKinds)
  OBVIOUS
<1>2. PICK e \in Seq(TokenKinds) : e = << >> /\ Len(e) = 0
  BY <1>1, EmptySeq
<1>3. PICK pre : pre = [k \in 1 .. 1 |-> e]
  OBVIOUS
<1>4. Splits(pre, e, e)
  BY <1>2, <1>3 DEF Splits
<1>5. ASSUME NEW txt, Explained(e, txt) PROVE txt = e
  <2>1. PICK p : Splits(p, e, txt)
    BY <1>5 DEF Explained
  <2> QED
    BY <1>2, <2>1 DEF Splits
<1> QED
  BY <1>2, <1>4, <1>5 DEF Explained

LEMMA Explains ==
  ASSUME NEW S, NEW c \in S, NEW cs \in Seq(S),
         NEW base \in Seq(TokenKinds), NEW s \in Seq(TokenKinds), Stands(c, s), Explained(cs, base)
  PROVE  Explained(<<c>> \o cs, base \o s)
<1>1. PICK u : u = <<c>> \o cs
  OBVIOUS
<1>2. PICK n \in Nat : n = Len(cs)
  BY LenProperties
<1>3. u \in Seq(S) /\ Len(u) = n + 1 /\ u[1] = c /\ \A i \in 1 .. n : u[i + 1] = cs[i]
  BY <1>1, <1>2, OnTop
<1>4. PICK txt \in Seq(TokenKinds) : txt = base \o s
  BY ConcatProperties
<1>5. PICK pre : Splits(pre, cs, base)
  BY DEF Explained
<1>6. /\ \A k \in 1 .. n + 1 : pre[k] \in Seq(TokenKinds)
      /\ pre[1] = base /\ pre[n + 1] = << >>
      /\ \A k \in 1 .. n : \E t \in Seq(TokenKinds) : pre[k] = pre[k + 1] \o t /\ Stands(cs[k], t)
  BY <1>2, <1>5 DEF Splits
<1>7. PICK p : p = [k \in 1 .. n + 2 |-> IF k = 1 THEN txt ELSE pre[k - 1]]
  OBVIOUS
<1>8. p[1] = txt /\ \A k \in 1 .. n + 1 : p[k + 1] = pre[k]
  <2>1. p[1] = txt
    BY <1>7
  <2>2. ASSUME NEW k \in 1 .. n + 1 PROVE p[k + 1] = pre[k]
    <3>1. PICK m \in 1 .. n + 2 : m = k + 1
      OBVIOUS
    <3>2. m # 1 /\ m - 1 = k
      BY <3>1
    <3> QED
      BY <1>7, <3>1, <3>2
  <2> QED
    BY <2>1, <2>2
<1>9. p \in [1 .. n + 2 -> Seq(TokenKinds)]
  <2>1. ASSUME NEW k \in 1 .. n + 2 PROVE (IF k = 1 THEN txt ELSE pre[k - 1]) \in Seq(TokenKinds)
    <3>1. CASE k = 1
      BY <3>1
    <3>2. CASE k # 1
      <4>1. k - 1 \in 1 .. n + 1
        BY <3>2
      <4> QED
        BY <1>6, <3>2, <4>1
    <3> QED
      BY <3>1, <3>2
  <2> QED
    BY <1>7, <2>1
<1>10. ASSUME NEW k \in 1 .. n + 1
       PROVE  \E t \in Seq(TokenKinds) : p[k] = p[k + 1] \o t /\ Stands(u[k], t)
  <2>1. CASE k = 1
    <3>1. p[2] = base
      <4>1. 1 \in 1 .. n + 1
        OBVIOUS
      <4>2. p[1 + 1] = pre[1]
        BY <1>8, <4>1
      <4> QED
        BY <1>6, <4>2
    <3>2. p[1] = p[2] \o s /\ Stands(u[1], s)
      BY <1>3, <1>4, <1>8, <3>1
    <3>3. k + 1 = 2
      BY <2>1
    <3>4. p[k] = p[k + 1] \o s /\ Stands(u[k], s)
      BY <2>1, <3>2, <3>3
    <3> QED
      BY <3>4
  <2>2. CASE k # 1
    <3>1. PICK j \in 1 .. n : k = j + 1
      <4>1. k - 1 \in 1 .. n /\ k = (k - 1) + 1
        BY <2>2
      <4> QED
        BY <4>1
    <3>2. PICK t \in Seq(TokenKinds) : pre[j] = pre[j + 1] \o t /\ Stands(cs[j], t)
      BY <1>6
    <3>3. p[k] = pre[j] /\ p[k + 1] = pre[j + 1]
      <4>1. PICK m \in 1 .. n + 1 : m = j + 1
        OBVIOUS
      <4>2. p[m + 1] = pre[m] /\ p[j + 1] = pre[j]
        BY <1>8
      <4> QED
        BY <3>1, <4>1, <4>2
    <3>4. u[k] = cs[j]
      BY <1>3, <3>1
    <3> QED
      BY <3>2, <3>3, <3>4
  <2> QED
    BY <2>1, <2>2
<1>11. p[n + 2] = << >>
  <2>1. PICK m \in 1 .. n + 1 : m = n + 1
    OBVIOUS
  <2>2. p[m + 1] = pre[m] /\ m + 1 = n + 2
    BY <1>8, <2>1
  <2> QED
    BY <1>6, <2>1, <2>2
<1>12. Splits(p, u, txt)
  <2>1. Len(u) + 1 = n + 2
    BY <1>3
  <2> QED
    BY <1>3, <1>8, <1>9, <1>10, <1>11, <2>1 DEF Splits
<1> QED
  BY <1>1, <1>4, <1>12 DEF Explained

LEMMA ExplainsBelow ==
  ASSUME NEW S, NEW c \in S, NEW cs \in Seq(S), NEW txt, Explained(<<c>> \o cs, txt)
  PROVE  \E base \in Seq(TokenKinds), s \in Seq(TokenKinds) :
           txt = base \o s /\ Stands(c, s) /\ Explained(cs, base)
<1>1. PICK u : u = <<c>> \o cs
  OBVIOUS
<1>2. PICK n \in Nat : n = Len(cs)
  BY LenProperties
<1>3. u \in Seq(S) /\ Len(u) = n + 1 /\ u[1] = c /\ \A i \in 1 .. n : u[i + 1] = cs[i]
  BY <1>1, <1>2, OnTop
<1>4. PICK pre : Splits(pre, u, txt)
  BY <1>1 DEF Explained
<1>5. /\ \A k \in 1 .. n + 2 : pre[k] \in Seq(TokenKinds)
      /\ pre[1] = txt /\ pre[n + 2] = << >>
      /\ \A k \in 1 .. n + 1 : \E t \in Seq(TokenKinds) : pre[k] = pre[k + 1] \o t /\ Stands(u[k], t)
  <2>1. Len(u) + 1 = n + 2 /\ Len(u) = n + 1
    BY <1>3
  <2> QED
    BY <1>4, <2>1 DEF Splits
<1>6. PICK base \in Seq(TokenKinds) : base = pre[2]
  <2>1. 2 \in 1 .. n + 2
    OBVIOUS
  <2> QED
    BY <1>5, <2>1
<1>7. PICK s \in Seq(TokenKinds) : txt = base \o s /\ Stands(c, s)
  <2>1. 1 \in 1 .. n + 1 /\ 1 + 1 = 2
    OBVIOUS
  <2> QED
    BY <1>3, <1>5, <1>6, <2>1
<1>8. PICK p : p = [k \in 1 .. n + 1 |-> pre[k + 1]]
  OBVIOUS
<1>9. Splits(p, cs, base)
  <2>1. ASSUME NEW k \in 1 .. n + 1 PROVE pre[k + 1] \in Seq(TokenKinds)
    <3>1. k + 1 \in 1 .. n + 2
      OBVIOUS
    <3> QED
      BY <1>5, <3>1
  <2>2. p \in [1 .. n + 1 -> Seq(TokenKinds)]
    BY <1>8, <2>1
  <2>3. p[1] = base
    <3>1. 1 \in 1 .. n + 1 /\ 1 + 1 = 2
      OBVIOUS
    <3> QED
      BY <1>6, <1>8, <3>1
  <2>4. p[n + 1] = << >>
    <3>1. PICK m \in 1 .. n + 1 : m = n + 1
      OBVIOUS
    <3>2. p[m] = pre[m + 1] /\ m + 1 = n + 2
      BY <1>8, <3>1
    <3> QED
      BY <1>5, <3>1, <3>2
  <2>5. ASSUME NEW k \in 1 .. n
        PROVE  \E t \in Seq(TokenKinds) : p[k] = p[k + 1] \o t /\ Stands(cs[k], t)
    <3>1. PICK m \in 1 .. n + 1 : m = k + 1
      OBVIOUS
    <3>2. PICK t \in Seq(TokenKinds) : pre[m] = pre[m + 1] \o t /\ Stands(u[m], t)
      BY <1>5
    <3>3. p[k] = pre[m] /\ p[m] = pre[m + 1] /\ u[m] = cs[k]
      BY <1>3, <1>8, <3>1
    <3> QED
      BY <3>1, <3>2, <3>3
  <2> QED
    BY <1>2, <2>2, <2>3, <2>4, <2>5 DEF Splits
<1> QED
  BY <1>6, <1>7, <1>9 DEF Explained

-----------------------------------------------------------------------------
(* Values                                                                  *)

LEMMA TreesAre ==
  /\ Invalid \notin Trees /\ NoResult \notin Results /\ Invalid \in Results
  /\ <<"x">> \in Trees
  /\ \A t \in Trees, op \in TokenKinds : UnaryNode(op, t) \in Trees
  /\ \A t, r \in Trees, op \in TokenKinds : BinaryNode(t, op, r) \in Trees
  /\ \A t \in Trees : ParenNode(t) \in Trees
<1>1. ASSUME NEW g \in Glyphs PROVE <<g>> \in Trees
  <2>1. <<g>> \in Seq(Glyphs)
    OBVIOUS
  <2>2. PICK w \in Seq(Glyphs) : w = <<g>> /\ Len(w) = 1
    BY <2>1
  <2>3. w # << >>
    BY <2>2, EmptySeq
  <2> QED
    BY <2>2, <2>3 DEF Trees
<1>2. ASSUME NEW t \in Trees, NEW r \in Trees PROVE t \o r \in Trees
  <2>1. t \in Seq(Glyphs) /\ t # << >> /\ r \in Seq(Glyphs)
    BY DEF Trees
  <2>2. Len(t) # 0
    BY <2>1, EmptySeq
  <2>3. t \o r \in Seq(Glyphs) /\ Len(t \o r) = Len(t) + Len(r) /\ Len(t) \in Nat /\ Len(r) \in Nat
    BY <2>1, ConcatAt
  <2>4. Len(t \o r) # 0
    BY <2>2, <2>3
  <2>5. t \o r # << >>
    BY <2>4, EmptySeq
  <2> QED
    BY <2>3, <2>5 DEF Trees
<1>3. /\ TokenKinds \subseteq Glyphs /\ "[" \in Glyphs /\ "]" \in Glyphs /\ "(" \in Glyphs /\ ")" \in Glyphs
      /\ "x" \in Glyphs
  BY DEF Glyphs, TokenKinds
<1>4. Invalid \notin Trees
  <2>1. "invalid" \notin Glyphs
    BY DEF Glyphs, TokenKinds
  <2>2. ASSUME Invalid \in Seq(Glyphs) PROVE FALSE
    <3>1. Len(Invalid) = 1 /\ Invalid[1] = "invalid"
      BY DEF Invalid
    <3>2. Invalid[1] \in Glyphs
      BY <2>2, <3>1, ElementOfSeq
    <3> QED
      BY <2>1, <3>1, <3>2
  <2> QED
    BY <2>2 DEF Trees
<1>5. NoResult \notin Results /\ Invalid \in Results
  <2>1. Invalid # NoResult
    BY DEF Invalid, NoResult
  <2> QED
    BY <2>1 DEF Results, Trees, NoResult
<1> PICK lb : lb = <<"[">>
  OBVIOUS
<1> PICK rb : rb = <<"]">>
  OBVIOUS
<1>6. lb \in Trees /\ rb \in Trees
  BY <1>1, <1>3
<1>7. ASSUME NEW t \in Trees, NEW op \in TokenKinds PROVE UnaryNode(op, t) \in Trees
  <2>1. <<"[", op>> \in Seq(Glyphs)
    <3>1. op \in Glyphs /\ "[" \in Glyphs
      BY <1>3
    <3> QED
      BY <3>1
  <2>2. PICK w \in Seq(Glyphs) : w = <<"[", op>> /\ Len(w) = 2
    BY <2>1
  <2>3. w \in Trees
    <3>1. w # << >>
      BY <2>2, EmptySeq
    <3> QED
      BY <3>1 DEF Trees
  <2>4. w \o t \in Trees
    BY <1>2, <2>3
  <2>5. (w \o t) \o rb \in Trees
    BY <1>2, <1>6, <2>4
  <2> QED
    BY <2>2, <2>5 DEF UnaryNode
<1>8. ASSUME NEW t \in Trees, NEW r \in Trees, NEW op \in TokenKinds PROVE BinaryNode(t, op, r) \in Trees
  <2>1. PICK mid \in Trees : mid = <<op>>
    BY <1>1, <1>3
  <2>2. lb \o t \in Trees
    BY <1>2, <1>6
  <2>3. (lb \o t) \o mid \in Trees
    BY <1>2, <2>2
  <2>4. ((lb \o t) \o mid) \o r \in Trees
    BY <1>2, <2>3
  <2>5. (((lb \o t) \o mid) \o r) \o rb \in Trees
    BY <1>2, <1>6, <2>4
  <2> QED
    BY <2>1, <2>5 DEF BinaryNode
<1>10. ASSUME NEW t \in Trees PROVE ParenNode(t) \in Trees
  <2>1. PICK open \in Trees : open = <<"(">>
    BY <1>1, <1>3
  <2>2. PICK close \in Trees : close = <<")">>
    BY <1>1, <1>3
  <2>3. open \o t \in Trees
    BY <1>2
  <2>4. (open \o t) \o close \in Trees
    BY <1>2, <2>3
  <2> QED
    BY <2>1, <2>2, <2>4 DEF ParenNode
<1>9. <<"x">> \in Trees
  BY <1>1, <1>3
<1> QED
  BY <1>4, <1>5, <1>7, <1>8, <1>9, <1>10

LEMMA CallsAre ==
  /\ UnaryExpr \in CallSet /\ [at |-> "ParseExpression"] \in CallSet /\ [at |-> "close"] \in CallSet
  /\ \A op \in TokenKinds : [at |-> "unaryDone", op |-> op] \in CallSet
  /\ \A lhs \in Results, min \in 1 .. 6, next \in 0 .. 5 : RHS(lhs, min, next) \in CallSet
<1>1. UnaryExpr \in CallSet /\ [at |-> "ParseExpression"] \in CallSet /\ [at |-> "close"] \in CallSet
  BY DEF UnaryExpr, CallSet
<1>2. \A op \in TokenKinds : [at |-> "unaryDone", op |-> op] \in CallSet
  BY DEF CallSet
<1>3. \A lhs \in Results, min \in 1 .. 6, next \in 0 .. 5 : RHS(lhs, min, next) \in CallSet
  BY DEF CallSet, RHS
<1> QED
  BY <1>1, <1>2, <1>3

LEMMA CallIs ==
  ASSUME NEW c \in CallSet
  PROVE  /\ c.at \in {"ParseUnaryExpr", "ParseExpression", "close", "unaryDone", "loop", "operand", "tighter"}
         /\ c.at = "unaryDone" => c.op \in TokenKinds
         /\ c.at \in Holding => c.LHS \in Results /\ c.MinPrec \in 1 .. 6 /\ c.NextTokPrec \in 0 .. 5
         /\ c.at \in {"operand", "tighter"} => c.op \in TokenKinds
<1>1. CASE c \in [at : {"ParseUnaryExpr", "ParseExpression", "close"}]
  BY <1>1 DEF Holding
<1>2. CASE c \in [at : {"unaryDone"}, op : TokenKinds]
  BY <1>2 DEF Holding
<1>3. CASE c \in [at : {"loop"}, LHS : Results, MinPrec : 1 .. 6, NextTokPrec : 0 .. 5]
  BY <1>3 DEF Holding
<1>4. CASE c \in [at : {"operand", "tighter"}, LHS : Results, MinPrec : 1 .. 6, NextTokPrec : 0 .. 5, op : TokenKinds]
  BY <1>4 DEF Holding
<1> QED
  BY <1>1, <1>2, <1>3, <1>4 DEF CallSet

(* The operator of a loop, and the call for what binds tighter.            *)
LEMMA OperatorTaken ==
  ASSUME NEW c \in CallSet, c.at = "loop", NEW op \in TokenKinds, NEW d, d = WithOperator(c, op)
  PROVE  /\ d \in CallSet /\ d.at = "operand" /\ d.LHS = c.LHS /\ d.MinPrec = c.MinPrec
         /\ d.NextTokPrec = c.NextTokPrec /\ d.op = op
<1>1. c.LHS \in Results /\ c.MinPrec \in 1 .. 6 /\ c.NextTokPrec \in 0 .. 5
  BY CallIs DEF Holding
<1>2. d = [at |-> "operand", LHS |-> c.LHS, MinPrec |-> c.MinPrec, NextTokPrec |-> c.NextTokPrec, op |-> op]
  BY DEF WithOperator
<1> QED
  BY <1>1, <1>2 DEF CallSet

LEMMA TighterCalled ==
  ASSUME NEW c \in CallSet, c.at = "operand", NEW d, d = [c EXCEPT !.at = "tighter"]
  PROVE  /\ d \in CallSet /\ d.at = "tighter" /\ d.LHS = c.LHS /\ d.MinPrec = c.MinPrec
         /\ d.NextTokPrec = c.NextTokPrec /\ d.op = c.op
<1>1. c \in [at : {"operand", "tighter"}, LHS : Results, MinPrec : 1 .. 6, NextTokPrec : 0 .. 5, op : TokenKinds]
  BY DEF CallSet
<1>2. d \in [at : {"operand", "tighter"}, LHS : Results, MinPrec : 1 .. 6, NextTokPrec : 0 .. 5, op : TokenKinds]
  BY <1>1
<1> QED
  BY <1>1, <1>2 DEF CallSet

-----------------------------------------------------------------------------
(* The invariant                                                           *)

PrecedenceTypeInv ==
  /\ text \in Seq(TokenKinds) /\ Tok \in TokenKinds \cup {Eof}
  /\ calls \in Seq(CallSet) /\ ret \in Results \cup {NoResult}

Waits(cs) == cs # << >> => Head(cs).at \notin Begun

Begins(c, tok) == \/ c.at = "ParseUnaryExpr"
                  \/ c.at = "loop" /\ c.NextTokPrec = getBinOpPrecedence(tok)

(* Each call gives what the one below it waits for; a result was ended by  *)
(* a token that its caller does not let it take.                           *)
LevelInv ==
  /\ Linked(calls)
  /\ ret = NoResult => calls # << >> /\ Begins(Head(calls), Tok)
  /\ ret # NoResult => Waits(calls) /\ getBinOpPrecedence(Tok) < Level(calls)

(* What was spoilt by a missing operand is so still.                       *)
SpoiltInv == missing => ret = Invalid \/ SomeSpoilt(calls)

(* What the call at work has read, and what the last one has.              *)
Doing(c, s) == \/ c.at = "ParseUnaryExpr" /\ s = << >>
               \/ c.at = "loop" /\ Left(c, s) /\ Expr(s, c.MinPrec)

Reads(cs, txt) ==
  \E base \in Seq(TokenKinds), s \in Seq(TokenKinds) :
    txt = base \o s /\ Explained(Tail(cs), base) /\ Doing(Head(cs), s)

HasRead(cs, txt, r) ==
  \E base \in Seq(TokenKinds), s \in Seq(TokenKinds) :
    txt = base \o s /\ Explained(cs, base) /\ r # Invalid /\ r = Grouping[s] /\ Expr(s, Level(cs))

TextInv ==
  ~ missing /\ ~ recovered =>
    /\ ret = NoResult => Reads(calls, text)
    /\ ret # NoResult => HasRead(calls, text, ret)

PrecedenceInv == PrecedenceTypeInv /\ LevelInv /\ SpoiltInv /\ TextInv

LEMMA TopIs ==
  ASSUME PrecedenceTypeInv, LevelInv, calls # << >>
  PROVE  \E h \in CallSet, rest \in Seq(CallSet) :
           /\ Head(calls) = h /\ Tail(calls) = rest /\ calls = <<h>> \o rest
           /\ Sound(h) /\ Gives(h) = Level(rest) /\ Waits(rest) /\ Linked(rest)
           /\ SomeSpoilt(calls) <=> Spoilt(h) \/ SomeSpoilt(rest)
<1>1. calls \in Seq(CallSet) /\ Linked(calls)
  BY DEF PrecedenceTypeInv, LevelInv
<1>2. PICK h \in CallSet, rest \in Seq(CallSet) :
        h = Head(calls) /\ rest = Tail(calls) /\ calls = <<h>> \o rest
  BY <1>1, FullStack
<1>3. Sound(h) /\ Above(h, rest) /\ Linked(rest)
  BY <1>1, <1>2, LinkedTop
<1>4. SomeSpoilt(calls) <=> Spoilt(h) \/ SomeSpoilt(rest)
  BY <1>2, SpoiltTop
<1> QED
  BY <1>2, <1>3, <1>4 DEF Above, Waits

LEMMA OneUp ==
  ASSUME NEW rest \in Seq(CallSet), Linked(rest), Waits(rest),
         NEW c \in CallSet, Sound(c), Gives(c) = Level(rest), NEW cs, cs = <<c>> \o rest
  PROVE  /\ cs \in Seq(CallSet) /\ cs # << >> /\ Head(cs) = c /\ Tail(cs) = rest
         /\ Linked(cs) /\ Level(cs) = Wants(c)
         /\ SomeSpoilt(cs) <=> Spoilt(c) \/ SomeSpoilt(rest)
<1>1. cs \in Seq(CallSet) /\ cs # << >> /\ Head(cs) = c /\ Tail(cs) = rest
  BY OnTop
<1>2. Linked(cs)
  BY LinkedTop DEF Above, Waits
<1>3. SomeSpoilt(cs) <=> Spoilt(c) \/ SomeSpoilt(rest)
  BY SpoiltTop
<1> QED
  BY <1>1, <1>2, <1>3 DEF Level

LEMMA Pair ==
  ASSUME NEW S, NEW a \in S, NEW b \in S
  PROVE  <<a>> \o <<b>> = <<a, b>> /\ <<a>> \in Seq(S) /\ <<a, b>> \in Seq(S)
<1>1. <<a>> \in Seq(S) /\ <<b>> \in Seq(S) /\ <<a, b>> \in Seq(S)
  OBVIOUS
<1>2. PICK s \in Seq(S) : s = <<a>> /\ Len(s) = 1 /\ s[1] = a
  BY <1>1
<1>3. PICK t \in Seq(S) : t = <<b>> /\ Len(t) = 1 /\ t[1] = b
  BY <1>1
<1>4. PICK u \in Seq(S) : u = <<a, b>> /\ Len(u) = 2 /\ u[1] = a /\ u[2] = b
  BY <1>1
<1>5. PICK v : v = s \o t
  OBVIOUS
<1>6. v \in Seq(S) /\ Len(v) = 2 /\ v[1] = a /\ v[2] = b
  <2>1. /\ s \o t \in Seq(S) /\ Len(s \o t) = Len(s) + Len(t)
        /\ \A i \in 1 .. Len(s) : (s \o t)[i] = s[i]
        /\ \A i \in 1 .. Len(t) : (s \o t)[Len(s) + i] = t[i]
    BY ConcatAt
  <2>2. v[1 + 1] = t[1]
    BY <1>2, <1>3, <1>5, <2>1
  <2> QED
    BY <1>2, <1>3, <1>5, <2>1, <2>2
<1>7. \A i \in 1 .. Len(u) : u[i] = v[i]
  BY <1>4, <1>6
<1>8. u = v
  BY <1>4, <1>6, <1>7, SeqEqual
<1> QED
  BY <1>1, <1>2, <1>3, <1>4, <1>5, <1>8

LEMMA Triple ==
  ASSUME NEW S, NEW a \in S, NEW b \in S, NEW c \in S
  PROVE  <<a>> \o <<b, c>> = <<a, b, c>>
<1>1. <<a>> \in Seq(S) /\ <<b, c>> \in Seq(S) /\ <<a, b, c>> \in Seq(S)
  OBVIOUS
<1>2. PICK s \in Seq(S) : s = <<a>> /\ Len(s) = 1 /\ s[1] = a
  BY <1>1
<1>3. PICK t \in Seq(S) : t = <<b, c>> /\ Len(t) = 2 /\ t[1] = b /\ t[2] = c
  BY <1>1
<1>4. PICK u \in Seq(S) : u = <<a, b, c>> /\ Len(u) = 3 /\ u[1] = a /\ u[2] = b /\ u[3] = c
  BY <1>1
<1>5. PICK v : v = s \o t
  OBVIOUS
<1>6. v \in Seq(S) /\ Len(v) = 3 /\ v[1] = a /\ v[2] = b /\ v[3] = c
  <2>1. /\ s \o t \in Seq(S) /\ Len(s \o t) = Len(s) + Len(t)
        /\ \A i \in 1 .. Len(s) : (s \o t)[i] = s[i]
        /\ \A i \in 1 .. Len(t) : (s \o t)[Len(s) + i] = t[i]
    BY ConcatAt
  <2>2. v[1 + 1] = t[1] /\ v[1 + 2] = t[2]
    BY <1>2, <1>3, <1>5, <2>1
  <2> QED
    BY <1>2, <1>3, <1>5, <2>1, <2>2
<1>7. \A i \in 1 .. Len(u) : u[i] = v[i]
  BY <1>4, <1>6
<1>8. u = v
  BY <1>4, <1>6, <1>7, SeqEqual
<1> QED
  BY <1>2, <1>3, <1>4, <1>5, <1>8

LEMMA TwoUp ==
  ASSUME NEW a \in CallSet, NEW b \in CallSet, NEW rest \in Seq(CallSet)
  PROVE  <<a, b>> \o rest = <<a>> \o (<<b>> \o rest)
<1>1. <<a>> \in Seq(CallSet) /\ <<b>> \in Seq(CallSet)
  OBVIOUS
<1>2. (<<a>> \o <<b>>) \o rest = <<a>> \o (<<b>> \o rest)
  BY <1>1, ConcatAssociative
<1>3. <<a>> \o <<b>> = <<a, b>>
  BY Pair
<1> QED
  BY <1>2, <1>3

LEMMA ThreeUp ==
  ASSUME NEW a \in CallSet, NEW b \in CallSet, NEW c \in CallSet, NEW rest \in Seq(CallSet)
  PROVE  <<a, b, c>> \o rest = <<a>> \o (<<b>> \o (<<c>> \o rest))
<1>1. <<a>> \in Seq(CallSet) /\ <<b, c>> \in Seq(CallSet)
  OBVIOUS
<1>2. (<<a>> \o <<b, c>>) \o rest = <<a>> \o (<<b, c>> \o rest)
  BY <1>1, ConcatAssociative
<1>3. <<a>> \o <<b, c>> = <<a, b, c>>
  BY Triple
<1> QED
  BY <1>2, <1>3, TwoUp

LEMMA Consumed ==
  ASSUME PrecedenceTypeInv, Tok \in TokenKinds, ConsumeToken
  PROVE  /\ text' \in Seq(TokenKinds) /\ Tok' \in TokenKinds \cup {Eof}
         /\ <<Tok>> \in Seq(TokenKinds) /\ text' = text \o <<Tok>>
<1>1. text \in Seq(TokenKinds)
  BY DEF PrecedenceTypeInv
<1>2. <<Tok>> \in Seq(TokenKinds)
  OBVIOUS
<1>3. text' = Append(text, Tok)
  BY DEF ConsumeToken
<1>4. text' = text \o <<Tok>>
  BY <1>1, <1>3, AppendIsConcat
<1>5. text' \in Seq(TokenKinds)
  BY <1>1, <1>3, AppendProperties
<1>6. Tok' \in TokenKinds \cup {Eof}
  <2>1. Tok' \in Vocabulary \cup {Eof}
    BY DEF ConsumeToken
  <2> QED
    BY <2>1, VocabularyAssumption
<1> QED
  BY <1>2, <1>4, <1>5, <1>6

(* A call at work, and one that waits for a result.                        *)
LEMMA AtWork ==
  ASSUME NEW cs \in Seq(CallSet), Linked(cs), cs # << >>, NEW tok, tok \in TokenKinds \cup {Eof},
         Begins(Head(cs), tok), NEW txt \in Seq(TokenKinds),
         calls' = cs, ret' = NoResult, Tok' = tok, text' = txt,
         missing' => SomeSpoilt(cs), ~ missing' /\ ~ recovered' => Reads(cs, txt)
  PROVE  PrecedenceInv'
BY DEF PrecedenceInv, PrecedenceTypeInv, LevelInv, SpoiltInv, TextInv, NoResult

LEMMA AtRest ==
  ASSUME NEW cs \in Seq(CallSet), Linked(cs), Waits(cs), NEW tok, tok \in TokenKinds \cup {Eof},
         getBinOpPrecedence(tok) < Level(cs), NEW txt \in Seq(TokenKinds), NEW r \in Results,
         calls' = cs, ret' = r, Tok' = tok, text' = txt,
         missing' => r = Invalid \/ SomeSpoilt(cs), ~ missing' /\ ~ recovered' => HasRead(cs, txt, r)
  PROVE  PrecedenceInv'
<1>1. r # NoResult
  BY TreesAre
<1> QED
  BY <1>1 DEF PrecedenceInv, PrecedenceTypeInv, LevelInv, SpoiltInv, TextInv

-----------------------------------------------------------------------------
(* Every step                                                              *)

LEMMA TokenIs ==
  ASSUME PrecedenceTypeInv, IsUnaryOp(Tok) \/ getBinOpPrecedence(Tok) # Unknown \/ Tok = "x" \/ Tok = "("
  PROVE  Tok \in TokenKinds
BY DEF PrecedenceTypeInv, IsUnaryOp, getBinOpPrecedence, TokenKinds, Eof

LEMMA StepParseUnaryExpr ==
  ASSUME PrecedenceInv, ParseUnaryExpr
  PROVE  PrecedenceInv'
<1>1. /\ calls # << >> /\ ret = NoResult /\ Head(calls).at = "ParseUnaryExpr" /\ IsUnaryOp(Tok)
      /\ calls' = <<UnaryExpr, [at |-> "unaryDone", op |-> Tok]>> \o Tail(calls)
      /\ ConsumeToken /\ ret' = ret /\ missing' = missing /\ recovered' = recovered
  BY DEF ParseUnaryExpr, Running
<1>2. PrecedenceTypeInv /\ LevelInv /\ SpoiltInv /\ TextInv
  BY DEF PrecedenceInv
<1>3. PICK h \in CallSet, rest \in Seq(CallSet) :
           /\ Head(calls) = h /\ Tail(calls) = rest /\ calls = <<h>> \o rest
           /\ Sound(h) /\ Gives(h) = Level(rest) /\ Waits(rest) /\ Linked(rest)
           /\ SomeSpoilt(calls) <=> Spoilt(h) \/ SomeSpoilt(rest)
  BY <1>1, <1>2, TopIs
<1>4. Tok \in TokenKinds
  BY <1>1, <1>2, TokenIs
<1>5. /\ text' \in Seq(TokenKinds) /\ Tok' \in TokenKinds \cup {Eof}
      /\ <<Tok>> \in Seq(TokenKinds) /\ text' = text \o <<Tok>>
  BY <1>1, <1>2, <1>4, Consumed
<1>6. PICK b \in CallSet : b = [at |-> "unaryDone", op |-> Tok]
  BY <1>4, CallsAre
<1>7. b.at = "unaryDone" /\ b.op = Tok
  BY <1>6
<1>8. PICK a \in CallSet : a = UnaryExpr
  BY CallsAre
<1>9. a.at = "ParseUnaryExpr"
  BY <1>8 DEF UnaryExpr
<1>10. PICK cs : cs = <<b>> \o rest
  OBVIOUS
<1>11. PICK ds : ds = <<a>> \o cs
  OBVIOUS
<1>12. calls' = ds
  BY <1>1, <1>3, <1>6, <1>8, <1>10, <1>11, TwoUp
<1>13. /\ Sound(b) /\ Gives(b) = 6 /\ Wants(b) = 6 /\ ~ Spoilt(b)
       /\ Sound(a) /\ Gives(a) = 6 /\ ~ Spoilt(a) /\ Gives(h) = 6 /\ ~ Spoilt(h)
  BY <1>1, <1>3, <1>7, <1>9 DEF Sound, Gives, Wants, Spoilt, Holding
<1>14. /\ cs \in Seq(CallSet) /\ cs # << >> /\ Head(cs) = b /\ Tail(cs) = rest
       /\ Linked(cs) /\ Level(cs) = Wants(b)
       /\ SomeSpoilt(cs) <=> Spoilt(b) \/ SomeSpoilt(rest)
  BY <1>3, <1>10, <1>13, OneUp
<1>15. Waits(cs) /\ Gives(a) = Level(cs)
  BY <1>7, <1>13, <1>14 DEF Waits, Begun
<1>16. /\ ds \in Seq(CallSet) /\ ds # << >> /\ Head(ds) = a /\ Tail(ds) = cs
       /\ Linked(ds)
       /\ SomeSpoilt(ds) <=> Spoilt(a) \/ SomeSpoilt(cs)
  BY <1>11, <1>13, <1>14, <1>15, OneUp
<1>17. missing' => SomeSpoilt(ds)
  <2>1. missing => SomeSpoilt(calls)
    <3>1. ret # Invalid
      BY <1>1 DEF NoResult, Invalid
    <3> QED
      BY <1>2, <3>1 DEF SpoiltInv
  <2> QED
    BY <1>1, <1>3, <1>13, <1>14, <1>16, <2>1
<1>18. ASSUME ~ missing', ~ recovered' PROVE Reads(ds, text')
  <2>1. Reads(calls, text)
    BY <1>1, <1>2, <1>18 DEF TextInv
  <2>2. PICK base \in Seq(TokenKinds), s \in Seq(TokenKinds) :
          text = base \o s /\ Explained(rest, base) /\ Doing(h, s)
    BY <1>3, <2>1 DEF Reads
  <2>3. s = << >>
    BY <1>1, <1>3, <2>2 DEF Doing
  <2>4. text = base
    BY <2>2, <2>3, ConcatEmptySeq
  <2>5. Stands(b, <<Tok>>)
    BY <1>7 DEF Stands
  <2>6. Explained(cs, text')
    BY <1>5, <1>10, <2>2, <2>4, <2>5, Explains
  <2>7. Doing(a, << >>) /\ << >> \in Seq(TokenKinds) /\ text' = text' \o << >>
    BY <1>5, <1>9, ConcatEmptySeq DEF Doing
  <2> QED
    BY <1>5, <1>16, <2>6, <2>7 DEF Reads
<1>19. Begins(Head(ds), Tok')
  BY <1>9, <1>16 DEF Begins
<1> QED
  BY <1>1, <1>5, <1>12, <1>16, <1>17, <1>18, <1>19, AtWork

LEMMA StepUnaryDone ==
  ASSUME PrecedenceInv, UnaryDone
  PROVE  PrecedenceInv'
<1>1. /\ calls # << >> /\ ret # NoResult /\ Head(calls).at = "unaryDone"
      /\ calls' = Tail(calls)
      /\ ret' = IF ret = Invalid THEN Invalid ELSE UnaryNode(Head(calls).op, ret)
      /\ Tok' = Tok /\ text' = text /\ missing' = missing /\ recovered' = recovered
  BY DEF UnaryDone, Returned, Return, KeepToken
<1>2. PrecedenceTypeInv /\ LevelInv /\ SpoiltInv /\ TextInv
  BY DEF PrecedenceInv
<1>3. PICK h \in CallSet, rest \in Seq(CallSet) :
           /\ Head(calls) = h /\ Tail(calls) = rest /\ calls = <<h>> \o rest
           /\ Sound(h) /\ Gives(h) = Level(rest) /\ Waits(rest) /\ Linked(rest)
           /\ SomeSpoilt(calls) <=> Spoilt(h) \/ SomeSpoilt(rest)
  BY <1>1, <1>2, TopIs
<1>4. h.op \in TokenKinds /\ IsUnaryOp(h.op)
  BY <1>1, <1>3, CallIs DEF Sound
<1>5. ret \in Results
  BY <1>1, <1>2 DEF PrecedenceTypeInv
<1>6. PICK r : r = ret'
  OBVIOUS
<1>7. r = IF ret = Invalid THEN Invalid ELSE UnaryNode(h.op, ret)
  BY <1>1, <1>3, <1>6
<1>8. r \in Results /\ (ret # Invalid => r # Invalid)
  <2>1. CASE ret = Invalid
    BY <1>7, <2>1, TreesAre
  <2>2. CASE ret # Invalid
    <3>1. ret \in Trees
      BY <1>5, <2>2 DEF Results
    <3>2. UnaryNode(h.op, ret) \in Trees
      BY <1>4, <3>1, TreesAre
    <3>3. r \in Trees
      BY <1>7, <2>2, <3>2
    <3>4. r # Invalid
      BY <3>3, TreesAre
    <3> QED
      BY <3>3, <3>4 DEF Results
  <2> QED
    BY <2>1, <2>2
<1>9. Gives(h) = 6 /\ Wants(h) = 6 /\ ~ Spoilt(h)
  BY <1>1, <1>3 DEF Gives, Wants, Spoilt, Holding
<1>10. missing' => r = Invalid \/ SomeSpoilt(rest)
  BY <1>1, <1>2, <1>3, <1>7, <1>9 DEF SpoiltInv
<1>11. getBinOpPrecedence(Tok) < Level(rest)
  <2>1. getBinOpPrecedence(Tok) \in 0 .. 5
    BY PrecedenceType
  <2> QED
    BY <1>3, <1>9, <2>1
<1>12. text \in Seq(TokenKinds) /\ Tok \in TokenKinds \cup {Eof}
  BY <1>2 DEF PrecedenceTypeInv
<1>13. ASSUME ~ missing', ~ recovered' PROVE HasRead(rest, text, r)
  <2>1. HasRead(calls, text, ret)
    BY <1>1, <1>2, <1>13 DEF TextInv
  <2>2. Level(calls) = 6
    BY <1>1, <1>3, <1>9 DEF Level
  <2>3. PICK base \in Seq(TokenKinds), s \in Seq(TokenKinds) :
          /\ text = base \o s /\ Explained(calls, base) /\ ret # Invalid /\ ret = Grouping[s]
          /\ Expr(s, 6)
    BY <2>1, <2>2 DEF HasRead
  <2>4. PICK below \in Seq(TokenKinds), t \in Seq(TokenKinds) :
          base = below \o t /\ Stands(h, t) /\ Explained(rest, below)
    <3>1. Explained(<<h>> \o rest, base)
      BY <1>3, <2>3
    <3> QED
      BY <3>1, ExplainsBelow
  <2>5. t = <<h.op>>
    BY <1>1, <1>3, <2>4 DEF Stands
  <2>6. PICK u : u = t \o s
    OBVIOUS
  <2>7. Expr(u, 6) /\ Grouping[u] = UnaryNode(h.op, Grouping[s])
    BY <1>4, <2>3, <2>5, <2>6, UnaryIs
  <2>8. text = below \o u
    BY <2>3, <2>4, <2>6, ConcatAssociative
  <2>9. u \in Seq(TokenKinds)
    BY <2>7 DEF Expr
  <2>10. r = Grouping[u] /\ r # Invalid
    BY <1>7, <1>8, <2>3, <2>7
  <2>11. Expr(u, Level(rest))
    BY <1>3, <1>9, <2>7
  <2> QED
    BY <2>4, <2>8, <2>9, <2>10, <2>11 DEF HasRead
<1> QED
  BY <1>1, <1>3, <1>6, <1>8, <1>10, <1>11, <1>12, <1>13, AtRest

LEMMA StepParseOperand ==
  ASSUME PrecedenceInv, ParseOperand
  PROVE  PrecedenceInv'
<1>1. /\ calls # << >> /\ ret = NoResult /\ Head(calls).at = "ParseUnaryExpr" /\ Tok = "x"
      /\ calls' = Tail(calls) /\ ret' = <<"x">>
      /\ ConsumeToken /\ missing' = missing /\ recovered' = recovered
  BY DEF ParseOperand, ConsumePrimary, Running, Return
<1>2. PrecedenceTypeInv /\ LevelInv /\ SpoiltInv /\ TextInv
  BY DEF PrecedenceInv
<1>3. PICK h \in CallSet, rest \in Seq(CallSet) :
           /\ Head(calls) = h /\ Tail(calls) = rest /\ calls = <<h>> \o rest
           /\ Sound(h) /\ Gives(h) = Level(rest) /\ Waits(rest) /\ Linked(rest)
           /\ SomeSpoilt(calls) <=> Spoilt(h) \/ SomeSpoilt(rest)
  BY <1>1, <1>2, TopIs
<1>4. Tok \in TokenKinds
  BY <1>1, <1>2, TokenIs
<1>5. /\ text' \in Seq(TokenKinds) /\ Tok' \in TokenKinds \cup {Eof}
      /\ <<Tok>> \in Seq(TokenKinds) /\ text' = text \o <<Tok>>
  BY <1>1, <1>2, <1>4, Consumed
<1>6. PICK r : r = ret'
  OBVIOUS
<1>7. r = <<"x">> /\ r \in Results /\ r # Invalid
  <2>1. r = <<"x">> /\ <<"x">> \in Trees /\ Invalid \notin Trees
    BY <1>1, <1>6, TreesAre
  <2> QED
    BY <2>1 DEF Results
<1>8. Gives(h) = 6 /\ ~ Spoilt(h)
  BY <1>1, <1>3 DEF Gives, Spoilt, Holding
<1>9. missing' => SomeSpoilt(rest)
  <2>1. ret # Invalid
    BY <1>1 DEF NoResult, Invalid
  <2> QED
    BY <1>1, <1>2, <1>3, <1>8, <2>1 DEF SpoiltInv
<1>10. getBinOpPrecedence(Tok') < Level(rest)
  <2>1. getBinOpPrecedence(Tok') \in 0 .. 5
    BY PrecedenceType
  <2> QED
    BY <1>3, <1>8, <2>1
<1>11. ASSUME ~ missing', ~ recovered' PROVE HasRead(rest, text', r)
  <2>1. Reads(calls, text)
    BY <1>1, <1>2, <1>11 DEF TextInv
  <2>2. PICK base \in Seq(TokenKinds), s \in Seq(TokenKinds) :
          text = base \o s /\ Explained(rest, base) /\ Doing(h, s)
    BY <1>3, <2>1 DEF Reads
  <2>3. s = << >>
    BY <1>1, <1>3, <2>2 DEF Doing
  <2>4. text = base
    BY <2>2, <2>3, ConcatEmptySeq
  <2>5. Expr(<<Tok>>, 6) /\ Grouping[<<Tok>>] = <<"x">>
    BY <1>1, OperandIs
  <2>6. Expr(<<Tok>>, Level(rest)) /\ r = Grouping[<<Tok>>]
    BY <1>3, <1>7, <1>8, <2>5
  <2> QED
    BY <1>5, <1>7, <2>2, <2>4, <2>6 DEF HasRead
<1> QED
  BY <1>1, <1>3, <1>5, <1>6, <1>7, <1>9, <1>10, <1>11, AtRest

LEMMA StepParseParen ==
  ASSUME PrecedenceInv, ParseParen
  PROVE  PrecedenceInv'
<1>1. /\ calls # << >> /\ ret = NoResult /\ Head(calls).at = "ParseUnaryExpr" /\ Tok = "("
      /\ calls' = <<UnaryExpr, [at |-> "ParseExpression"], [at |-> "close"]>> \o Tail(calls)
      /\ ConsumeToken /\ ret' = ret /\ missing' = missing /\ recovered' = recovered
  BY DEF ParseParen, Running
<1>2. PrecedenceTypeInv /\ LevelInv /\ SpoiltInv /\ TextInv
  BY DEF PrecedenceInv
<1>3. PICK h \in CallSet, rest \in Seq(CallSet) :
           /\ Head(calls) = h /\ Tail(calls) = rest /\ calls = <<h>> \o rest
           /\ Sound(h) /\ Gives(h) = Level(rest) /\ Waits(rest) /\ Linked(rest)
           /\ SomeSpoilt(calls) <=> Spoilt(h) \/ SomeSpoilt(rest)
  BY <1>1, <1>2, TopIs
<1>4. Tok \in TokenKinds
  BY <1>1, <1>2, TokenIs
<1>5. /\ text' \in Seq(TokenKinds) /\ Tok' \in TokenKinds \cup {Eof}
      /\ <<Tok>> \in Seq(TokenKinds) /\ text' = text \o <<Tok>>
  BY <1>1, <1>2, <1>4, Consumed
<1>6. PICK a \in CallSet : a = UnaryExpr
  BY CallsAre
<1>7. PICK b \in CallSet : b = [at |-> "ParseExpression"]
  BY CallsAre
<1>8. PICK c \in CallSet : c = [at |-> "close"]
  BY CallsAre
<1>9. a.at = "ParseUnaryExpr" /\ b.at = "ParseExpression" /\ c.at = "close"
  BY <1>6, <1>7, <1>8 DEF UnaryExpr
<1>10. PICK bs : bs = <<c>> \o rest
  OBVIOUS
<1>11. PICK cs : cs = <<b>> \o bs
  OBVIOUS
<1>12. PICK ds : ds = <<a>> \o cs
  OBVIOUS
<1>13. calls' = ds
  <2>1. calls' = <<a, b, c>> \o rest
    BY <1>1, <1>3, <1>6, <1>7, <1>8
  <2>2. <<a, b, c>> \o rest = <<a>> \o (<<b>> \o (<<c>> \o rest))
    BY ThreeUp
  <2> QED
    BY <1>10, <1>11, <1>12, <2>1, <2>2, Zenon
<1>14. /\ Sound(c) /\ Gives(c) = 6 /\ Wants(c) = Lowest /\ ~ Spoilt(c)
       /\ Sound(b) /\ Gives(b) = Lowest /\ Wants(b) = 6 /\ ~ Spoilt(b)
       /\ Sound(a) /\ Gives(a) = 6 /\ ~ Spoilt(a) /\ Gives(h) = 6 /\ ~ Spoilt(h)
  BY <1>1, <1>3, <1>9 DEF Sound, Gives, Wants, Spoilt, Holding
<1>15. /\ bs \in Seq(CallSet) /\ bs # << >> /\ Head(bs) = c /\ Tail(bs) = rest
       /\ Linked(bs) /\ Level(bs) = Wants(c)
       /\ SomeSpoilt(bs) <=> Spoilt(c) \/ SomeSpoilt(rest)
  <2>1. Linked(rest) /\ Waits(rest) /\ Sound(c) /\ Gives(c) = Level(rest)
    BY <1>3, <1>14
  <2> QED
    BY <1>10, <2>1, OneUp
<1>16. Waits(bs) /\ Gives(b) = Level(bs)
  BY <1>9, <1>14, <1>15 DEF Waits, Begun
<1>17. /\ cs \in Seq(CallSet) /\ cs # << >> /\ Head(cs) = b /\ Tail(cs) = bs
       /\ Linked(cs) /\ Level(cs) = Wants(b)
       /\ SomeSpoilt(cs) <=> Spoilt(b) \/ SomeSpoilt(bs)
  BY <1>11, <1>14, <1>15, <1>16, OneUp
<1>18. Waits(cs) /\ Gives(a) = Level(cs)
  BY <1>9, <1>14, <1>17 DEF Waits, Begun
<1>19. /\ ds \in Seq(CallSet) /\ ds # << >> /\ Head(ds) = a /\ Tail(ds) = cs
       /\ Linked(ds)
       /\ SomeSpoilt(ds) <=> Spoilt(a) \/ SomeSpoilt(cs)
  BY <1>12, <1>14, <1>17, <1>18, OneUp
<1>20. missing' => SomeSpoilt(ds)
  <2>1. missing => SomeSpoilt(calls)
    <3>1. ret # Invalid
      BY <1>1 DEF NoResult, Invalid
    <3> QED
      BY <1>2, <3>1 DEF SpoiltInv
  <2> QED
    BY <1>1, <1>3, <1>14, <1>15, <1>17, <1>19, <2>1
<1>21. ASSUME ~ missing', ~ recovered' PROVE Reads(ds, text')
  <2>1. Reads(calls, text)
    BY <1>1, <1>2, <1>21 DEF TextInv
  <2>2. PICK base \in Seq(TokenKinds), s \in Seq(TokenKinds) :
          text = base \o s /\ Explained(rest, base) /\ Doing(h, s)
    BY <1>3, <2>1 DEF Reads
  <2>3. s = << >>
    BY <1>1, <1>3, <2>2 DEF Doing
  <2>4. text = base
    BY <2>2, <2>3, ConcatEmptySeq
  <2>5. Stands(c, <<Tok>>) /\ Stands(b, << >>)
    BY <1>1, <1>9 DEF Stands
  <2>6. Explained(bs, text')
    BY <1>5, <1>10, <2>2, <2>4, <2>5, Explains
  <2>7. << >> \in Seq(TokenKinds) /\ text' = text' \o << >>
    BY <1>5, ConcatEmptySeq
  <2>8. Explained(cs, text' \o << >>)
    BY <1>5, <1>11, <1>15, <2>5, <2>6, <2>7, Explains
  <2>9. Doing(a, << >>) /\ Explained(cs, text')
    BY <1>9, <2>7, <2>8 DEF Doing
  <2> QED
    BY <1>5, <1>19, <2>7, <2>9 DEF Reads
<1>22. Begins(Head(ds), Tok')
  BY <1>9, <1>19 DEF Begins
<1> QED
  BY <1>1, <1>5, <1>13, <1>19, <1>20, <1>21, <1>22, AtWork

LEMMA StepParseParenClose ==
  ASSUME PrecedenceInv, ParseParenClose
  PROVE  PrecedenceInv'
<1>1. /\ calls # << >> /\ ret # NoResult /\ Head(calls).at = "close"
      /\ calls' = Tail(calls) /\ ret' = IF ret = Invalid THEN Invalid ELSE ParenNode(ret)
      /\ IF Tok = ")" THEN ConsumeToken /\ recovered' = recovered
                      ELSE text' = text /\ Tok' = Tok /\ recovered' = TRUE
      /\ missing' = missing
  BY DEF ParseParenClose, ConsumePrimary, Returned, Return, KeepToken
<1>2. PrecedenceTypeInv /\ LevelInv /\ SpoiltInv /\ TextInv
  BY DEF PrecedenceInv
<1>3. PICK h \in CallSet, rest \in Seq(CallSet) :
           /\ Head(calls) = h /\ Tail(calls) = rest /\ calls = <<h>> \o rest
           /\ Sound(h) /\ Gives(h) = Level(rest) /\ Waits(rest) /\ Linked(rest)
           /\ SomeSpoilt(calls) <=> Spoilt(h) \/ SomeSpoilt(rest)
  BY <1>1, <1>2, TopIs
<1>4. PICK r : r = ret'
  OBVIOUS
<1>5. r = IF ret = Invalid THEN Invalid ELSE ParenNode(ret)
  BY <1>1, <1>4
<1>6. r \in Results /\ (ret # Invalid => r # Invalid)
  <2>1. CASE ret = Invalid
    BY <1>5, <2>1, TreesAre
  <2>2. CASE ret # Invalid
    <3>1. ret \in Trees
      BY <1>1, <1>2, <2>2 DEF PrecedenceTypeInv, Results
    <3>2. r \in Trees
      BY <1>5, <2>2, <3>1, TreesAre
    <3>3. r # Invalid
      BY <3>2, TreesAre
    <3> QED
      BY <3>2, <3>3 DEF Results
  <2> QED
    BY <2>1, <2>2
<1>7. Gives(h) = 6 /\ Wants(h) = Lowest /\ ~ Spoilt(h)
  BY <1>1, <1>3 DEF Gives, Wants, Spoilt, Holding
<1>8. missing' => r = Invalid \/ SomeSpoilt(rest)
  BY <1>1, <1>2, <1>3, <1>5, <1>7 DEF SpoiltInv
<1>9. getBinOpPrecedence(Tok') < Level(rest)
  <2>1. getBinOpPrecedence(Tok') \in 0 .. 5
    BY PrecedenceType
  <2> QED
    BY <1>3, <1>7, <2>1
<1>10. text \in Seq(TokenKinds) /\ Tok \in TokenKinds \cup {Eof}
  BY <1>2 DEF PrecedenceTypeInv
<1>11. CASE Tok = ")"
  <2>1. Tok \in TokenKinds
    BY <1>11 DEF TokenKinds
  <2>2. /\ text' \in Seq(TokenKinds) /\ Tok' \in TokenKinds \cup {Eof}
        /\ <<Tok>> \in Seq(TokenKinds) /\ text' = text \o <<Tok>>
    BY <1>1, <1>2, <1>11, <2>1, Consumed
  <2>3. ASSUME ~ missing', ~ recovered' PROVE HasRead(rest, text', r)
    <3>1. HasRead(calls, text, ret)
      BY <1>1, <1>2, <1>11, <2>3 DEF TextInv
    <3>2. Level(calls) = Lowest
      BY <1>1, <1>3, <1>7 DEF Level
    <3>3. PICK base \in Seq(TokenKinds), s \in Seq(TokenKinds) :
            /\ text = base \o s /\ Explained(calls, base) /\ ret # Invalid /\ ret = Grouping[s]
            /\ Expr(s, Lowest)
      BY <3>1, <3>2 DEF HasRead
    <3>4. PICK below \in Seq(TokenKinds), t \in Seq(TokenKinds) :
            base = below \o t /\ Stands(h, t) /\ Explained(rest, below)
      <4>1. Explained(<<h>> \o rest, base)
        BY <1>3, <3>3
      <4> QED
        BY <4>1, ExplainsBelow
    <3>5. t = <<"(">>
      BY <1>1, <1>3, <3>4 DEF Stands
    <3>6. PICK e \in Seq(TokenKinds) : e = <<")">> /\ e = <<Tok>>
      BY <1>11, <2>2
    <3>7. PICK u : u = (t \o s) \o e
      OBVIOUS
    <3>8. Expr(u, 6) /\ Grouping[u] = ParenNode(Grouping[s])
      <4>1. u = (<<"(">> \o s) \o <<")">>
        BY <3>5, <3>6, <3>7
      <4> QED
        BY <3>3, <4>1, ParenIs
    <3>9. text' = below \o u
      <4>1. text = below \o (t \o s)
        BY <3>3, <3>4, ConcatAssociative
      <4>2. PICK v \in Seq(TokenKinds) : v = t \o s
        BY ConcatProperties
      <4>3. (below \o v) \o e = below \o (v \o e)
        BY ConcatAssociative
      <4> QED
        BY <2>2, <3>6, <3>7, <4>1, <4>2, <4>3
    <3>10. u \in Seq(TokenKinds)
      BY <3>8 DEF Expr
    <3>11. r = Grouping[u] /\ r # Invalid
      BY <1>5, <1>6, <3>3, <3>8
    <3>12. Expr(u, Level(rest))
      BY <1>3, <1>7, <3>8
    <3> QED
      BY <3>4, <3>9, <3>10, <3>11, <3>12 DEF HasRead
  <2> QED
    BY <1>1, <1>3, <1>4, <1>6, <1>8, <1>9, <2>2, <2>3, AtRest
<1>12. CASE Tok # ")"
  BY <1>1, <1>3, <1>4, <1>6, <1>8, <1>9, <1>10, <1>12, AtRest
<1> QED
  BY <1>11, <1>12

LEMMA StepMissingOperand ==
  ASSUME PrecedenceInv, MissingOperand
  PROVE  PrecedenceInv'
<1>1. /\ calls # << >> /\ ret = NoResult /\ Head(calls).at = "ParseUnaryExpr"
      /\ calls' = Tail(calls) /\ ret' = Invalid
      /\ text' = text /\ Tok' = Tok /\ missing' = TRUE /\ recovered' = recovered
  BY DEF MissingOperand, Running, Return, KeepToken
<1>2. PrecedenceTypeInv /\ LevelInv
  BY DEF PrecedenceInv
<1>3. PICK h \in CallSet, rest \in Seq(CallSet) :
           /\ Head(calls) = h /\ Tail(calls) = rest /\ calls = <<h>> \o rest
           /\ Sound(h) /\ Gives(h) = Level(rest) /\ Waits(rest) /\ Linked(rest)
           /\ SomeSpoilt(calls) <=> Spoilt(h) \/ SomeSpoilt(rest)
  BY <1>1, <1>2, TopIs
<1>4. Gives(h) = 6
  BY <1>1, <1>3 DEF Gives, Holding
<1>5. getBinOpPrecedence(Tok) < Level(rest)
  <2>1. getBinOpPrecedence(Tok) \in 0 .. 5
    BY PrecedenceType
  <2> QED
    BY <1>3, <1>4, <2>1
<1>6. text \in Seq(TokenKinds) /\ Tok \in TokenKinds \cup {Eof}
  BY <1>2 DEF PrecedenceTypeInv
<1>7. Invalid \in Results
  BY TreesAre
<1> QED
  BY <1>1, <1>3, <1>5, <1>6, <1>7, AtRest

LEMMA StepParseExpression ==
  ASSUME PrecedenceInv, ParseExpression
  PROVE  PrecedenceInv'
<1>1. /\ calls # << >> /\ ret # NoResult /\ Head(calls).at = "ParseExpression"
      /\ calls' = <<RHS(ret, Lowest, getBinOpPrecedence(Tok))>> \o Tail(calls) /\ ret' = NoResult
      /\ text' = text /\ Tok' = Tok /\ missing' = missing /\ recovered' = recovered
  BY DEF ParseExpression, Returned, KeepToken
<1>2. PrecedenceTypeInv /\ LevelInv /\ SpoiltInv /\ TextInv
  BY DEF PrecedenceInv
<1>3. PICK h \in CallSet, rest \in Seq(CallSet) :
           /\ Head(calls) = h /\ Tail(calls) = rest /\ calls = <<h>> \o rest
           /\ Sound(h) /\ Gives(h) = Level(rest) /\ Waits(rest) /\ Linked(rest)
           /\ SomeSpoilt(calls) <=> Spoilt(h) \/ SomeSpoilt(rest)
  BY <1>1, <1>2, TopIs
<1>4. /\ ret \in Results /\ text \in Seq(TokenKinds) /\ Tok \in TokenKinds \cup {Eof}
      /\ getBinOpPrecedence(Tok) \in 0 .. 5
  BY <1>1, <1>2, PrecedenceType DEF PrecedenceTypeInv
<1>5. PICK next \in 0 .. 5 : next = getBinOpPrecedence(Tok)
  BY <1>4
<1>6. PICK c \in CallSet : c = RHS(ret, 1, next)
  <2>1. 1 \in 1 .. 6
    OBVIOUS
  <2> QED
    BY <1>4, <2>1, CallsAre
<1>7. c.at = "loop" /\ c.LHS = ret /\ c.MinPrec = 1 /\ c.NextTokPrec = next
  BY <1>6 DEF RHS
<1>8. /\ Sound(c) /\ Gives(c) = 1 /\ (Spoilt(c) <=> ret = Invalid)
      /\ Gives(h) = 1 /\ Wants(h) = 6 /\ ~ Spoilt(h)
  BY <1>1, <1>3, <1>7 DEF Sound, Gives, Wants, Spoilt, Holding, Lowest
<1>9. PICK cs : cs = <<c>> \o rest
  OBVIOUS
<1>10. calls' = cs
  BY <1>1, <1>3, <1>5, <1>6, <1>9 DEF Lowest
<1>11. /\ cs \in Seq(CallSet) /\ cs # << >> /\ Head(cs) = c /\ Tail(cs) = rest
       /\ Linked(cs)
       /\ SomeSpoilt(cs) <=> Spoilt(c) \/ SomeSpoilt(rest)
  BY <1>3, <1>8, <1>9, OneUp
<1>12. missing' => SomeSpoilt(cs)
  BY <1>1, <1>2, <1>3, <1>8, <1>11 DEF SpoiltInv
<1>13. ASSUME ~ missing', ~ recovered' PROVE Reads(cs, text)
  <2>1. HasRead(calls, text, ret)
    BY <1>1, <1>2, <1>13 DEF TextInv
  <2>2. Level(calls) = 6
    BY <1>1, <1>3, <1>8 DEF Level
  <2>3. PICK base \in Seq(TokenKinds), s \in Seq(TokenKinds) :
          /\ text = base \o s /\ Explained(calls, base) /\ ret # Invalid /\ ret = Grouping[s]
          /\ Expr(s, 6)
    BY <2>1, <2>2 DEF HasRead
  <2>4. PICK below \in Seq(TokenKinds), t \in Seq(TokenKinds) :
          base = below \o t /\ Stands(h, t) /\ Explained(rest, below)
    <3>1. Explained(<<h>> \o rest, base)
      BY <1>3, <2>3
    <3> QED
      BY <3>1, ExplainsBelow
  <2>5. t = << >>
    BY <1>1, <1>3, <2>4 DEF Stands
  <2>6. text = below \o s
    BY <2>3, <2>4, <2>5, ConcatEmptySeq
  <2>7. Expr(s, next) /\ Expr(s, 1)
    <3>1. 6 \in Nat /\ next \in Nat /\ 1 \in Nat /\ next <= 6 /\ 1 <= 6
      OBVIOUS
    <3> QED
      BY <2>3, <3>1, ExprWeaker
  <2>8. Doing(c, s)
    BY <1>7, <2>3, <2>7 DEF Doing, Left
  <2> QED
    BY <1>11, <2>4, <2>6, <2>8 DEF Reads
<1>14. Begins(Head(cs), Tok)
  BY <1>5, <1>7, <1>11 DEF Begins
<1> QED
  BY <1>1, <1>4, <1>10, <1>11, <1>12, <1>13, <1>14, AtWork

LEMMA StepLoopReturns ==
  ASSUME PrecedenceInv, LoopReturns
  PROVE  PrecedenceInv'
<1>1. /\ calls # << >> /\ ret = NoResult /\ Head(calls).at = "loop"
      /\ Head(calls).NextTokPrec < Head(calls).MinPrec
      /\ calls' = Tail(calls) /\ ret' = Head(calls).LHS
      /\ text' = text /\ Tok' = Tok /\ missing' = missing /\ recovered' = recovered
  BY DEF LoopReturns, Running, Return, KeepToken
<1>2. PrecedenceTypeInv /\ LevelInv /\ SpoiltInv /\ TextInv
  BY DEF PrecedenceInv
<1>3. PICK h \in CallSet, rest \in Seq(CallSet) :
           /\ Head(calls) = h /\ Tail(calls) = rest /\ calls = <<h>> \o rest
           /\ Sound(h) /\ Gives(h) = Level(rest) /\ Waits(rest) /\ Linked(rest)
           /\ SomeSpoilt(calls) <=> Spoilt(h) \/ SomeSpoilt(rest)
  BY <1>1, <1>2, TopIs
<1>4. /\ h.at = "loop" /\ h.LHS \in Results /\ h.MinPrec \in 1 .. 6 /\ h.NextTokPrec \in 0 .. 5
      /\ h.NextTokPrec < h.MinPrec
  BY <1>1, <1>3, CallIs DEF Holding
<1>5. PICK r \in Results : r = h.LHS
  BY <1>4
<1>6. Gives(h) = h.MinPrec /\ (Spoilt(h) <=> r = Invalid)
  BY <1>4, <1>5 DEF Gives, Spoilt, Holding
<1>7. getBinOpPrecedence(Tok) < Level(rest)
  <2>1. Begins(h, Tok)
    BY <1>1, <1>2, <1>3 DEF LevelInv
  <2>2. h.NextTokPrec = getBinOpPrecedence(Tok)
    BY <1>4, <2>1 DEF Begins
  <2> QED
    BY <1>3, <1>4, <1>6, <2>2
<1>8. text \in Seq(TokenKinds) /\ Tok \in TokenKinds \cup {Eof}
  BY <1>2 DEF PrecedenceTypeInv
<1>9. missing' => r = Invalid \/ SomeSpoilt(rest)
  <2>1. ret # Invalid
    BY <1>1 DEF NoResult, Invalid
  <2> QED
    BY <1>1, <1>2, <1>3, <1>6, <2>1 DEF SpoiltInv
<1>10. ASSUME ~ missing', ~ recovered' PROVE HasRead(rest, text, r)
  <2>1. Reads(calls, text)
    BY <1>1, <1>2, <1>10 DEF TextInv
  <2>2. PICK base \in Seq(TokenKinds), s \in Seq(TokenKinds) :
          text = base \o s /\ Explained(rest, base) /\ Doing(h, s)
    BY <1>3, <2>1 DEF Reads
  <2>3. Left(h, s) /\ Expr(s, h.MinPrec)
    BY <1>4, <2>2 DEF Doing
  <2>4. r # Invalid /\ r = Grouping[s] /\ Expr(s, Level(rest))
    BY <1>3, <1>5, <1>6, <2>3 DEF Left
  <2> QED
    BY <2>2, <2>4 DEF HasRead
<1> QED
  BY <1>1, <1>3, <1>5, <1>7, <1>8, <1>9, <1>10, AtRest

LEMMA StepLoopTakesOperator ==
  ASSUME PrecedenceInv, LoopTakesOperator
  PROVE  PrecedenceInv'
<1>1. /\ calls # << >> /\ ret = NoResult /\ Head(calls).at = "loop"
      /\ Head(calls).NextTokPrec >= Head(calls).MinPrec
      /\ calls' = <<UnaryExpr, WithOperator(Head(calls), Tok)>> \o Tail(calls)
      /\ ConsumeToken /\ ret' = ret /\ missing' = missing /\ recovered' = recovered
  BY DEF LoopTakesOperator, Running
<1>2. PrecedenceTypeInv /\ LevelInv /\ SpoiltInv /\ TextInv
  BY DEF PrecedenceInv
<1>3. PICK h \in CallSet, rest \in Seq(CallSet) :
           /\ Head(calls) = h /\ Tail(calls) = rest /\ calls = <<h>> \o rest
           /\ Sound(h) /\ Gives(h) = Level(rest) /\ Waits(rest) /\ Linked(rest)
           /\ SomeSpoilt(calls) <=> Spoilt(h) \/ SomeSpoilt(rest)
  BY <1>1, <1>2, TopIs
<1>4. /\ h.at = "loop" /\ h.LHS \in Results /\ h.MinPrec \in 1 .. 6 /\ h.NextTokPrec \in 0 .. 5
      /\ h.NextTokPrec >= h.MinPrec
  BY <1>1, <1>3, CallIs DEF Holding
<1>5. h.NextTokPrec = getBinOpPrecedence(Tok)
  <2>1. Begins(h, Tok)
    BY <1>1, <1>2, <1>3 DEF LevelInv
  <2> QED
    BY <1>4, <2>1 DEF Begins
<1>6. Tok \in TokenKinds
  <2>1. getBinOpPrecedence(Tok) # Unknown
    BY <1>4, <1>5 DEF Unknown
  <2> QED
    BY <1>2, <2>1, TokenIs
<1>7. /\ text' \in Seq(TokenKinds) /\ Tok' \in TokenKinds \cup {Eof}
      /\ <<Tok>> \in Seq(TokenKinds) /\ text' = text \o <<Tok>>
  BY <1>1, <1>2, <1>6, Consumed
<1>8. PICK b \in CallSet : b = WithOperator(h, Tok)
  BY <1>4, <1>6, OperatorTaken
<1>9. /\ b.at = "operand" /\ b.LHS = h.LHS /\ b.MinPrec = h.MinPrec
      /\ b.NextTokPrec = h.NextTokPrec /\ b.op = Tok
  BY <1>4, <1>6, <1>8, OperatorTaken
<1>10. PICK a \in CallSet : a = UnaryExpr
  BY CallsAre
<1>11. a.at = "ParseUnaryExpr"
  BY <1>10 DEF UnaryExpr
<1>12. PICK cs : cs = <<b>> \o rest
  OBVIOUS
<1>13. PICK ds : ds = <<a>> \o cs
  OBVIOUS
<1>14. calls' = ds
  BY <1>1, <1>3, <1>8, <1>10, <1>12, <1>13, TwoUp
<1>15. Sound(b)
  BY <1>4, <1>5, <1>9 DEF Sound
<1>16. /\ Gives(b) = h.MinPrec /\ Wants(b) = 6 /\ (Spoilt(b) <=> Spoilt(h)) /\ Gives(h) = h.MinPrec
       /\ Sound(a) /\ Gives(a) = 6 /\ ~ Spoilt(a)
  BY <1>4, <1>9, <1>11 DEF Sound, Gives, Wants, Spoilt, Holding
<1>17. /\ cs \in Seq(CallSet) /\ cs # << >> /\ Head(cs) = b /\ Tail(cs) = rest
       /\ Linked(cs) /\ Level(cs) = Wants(b)
       /\ SomeSpoilt(cs) <=> Spoilt(b) \/ SomeSpoilt(rest)
  <2>1. Linked(rest) /\ Waits(rest) /\ Gives(b) = Level(rest)
    BY <1>3, <1>16
  <2> QED
    BY <1>12, <1>15, <2>1, OneUp
<1>18. Waits(cs) /\ Gives(a) = Level(cs)
  BY <1>9, <1>16, <1>17 DEF Waits, Begun
<1>19. /\ ds \in Seq(CallSet) /\ ds # << >> /\ Head(ds) = a /\ Tail(ds) = cs
       /\ Linked(ds)
       /\ SomeSpoilt(ds) <=> Spoilt(a) \/ SomeSpoilt(cs)
  BY <1>13, <1>16, <1>17, <1>18, OneUp
<1>20. missing' => SomeSpoilt(ds)
  <2>1. missing => SomeSpoilt(calls)
    <3>1. ret # Invalid
      BY <1>1 DEF NoResult, Invalid
    <3> QED
      BY <1>2, <3>1 DEF SpoiltInv
  <2> QED
    BY <1>1, <1>3, <1>16, <1>17, <1>19, <2>1
<1>21. ASSUME ~ missing', ~ recovered' PROVE Reads(ds, text')
  <2>1. Reads(calls, text)
    BY <1>1, <1>2, <1>21 DEF TextInv
  <2>2. PICK base \in Seq(TokenKinds), s \in Seq(TokenKinds) :
          text = base \o s /\ Explained(rest, base) /\ Doing(h, s)
    BY <1>3, <2>1 DEF Reads
  <2>3. Left(h, s)
    BY <1>4, <2>2 DEF Doing
  <2>4. PICK e \in Seq(TokenKinds) : e = <<Tok>>
    BY <1>7
  <2>5. PICK t \in Seq(TokenKinds) : t = s \o e
    BY ConcatProperties
  <2>6. text' = base \o t
    BY <1>7, <2>2, <2>4, <2>5, ConcatAssociative
  <2>7. Stands(b, t)
    <3>1. t = s \o <<b.op>>
      BY <1>9, <2>4, <2>5
    <3>2. Left(b, s)
      BY <1>9, <2>3 DEF Left
    <3> QED
      BY <1>9, <3>1, <3>2 DEF Stands
  <2>8. Explained(cs, text')
    BY <1>12, <2>2, <2>6, <2>7, Explains
  <2>9. << >> \in Seq(TokenKinds) /\ text' = text' \o << >>
    BY <1>7, ConcatEmptySeq
  <2>10. Doing(a, << >>)
    BY <1>11 DEF Doing
  <2> QED
    BY <1>7, <1>19, <2>8, <2>9, <2>10 DEF Reads
<1>22. Begins(Head(ds), Tok')
  BY <1>11, <1>19 DEF Begins
<1> QED
  BY <1>1, <1>7, <1>14, <1>19, <1>20, <1>21, <1>22, AtWork

(* Both sides of an operator are there.                                    *)
LEMMA StepCombine ==
  ASSUME PrecedenceInv, calls # << >>, ret # NoResult, Head(calls).at \in {"operand", "tighter"},
         getBinOpPrecedence(Tok) <= Head(calls).NextTokPrec, Combine(Head(calls), ret),
         text' = text, Tok' = Tok, missing' = missing, recovered' = recovered
  PROVE  PrecedenceInv'
<1>2. PrecedenceTypeInv /\ LevelInv /\ SpoiltInv /\ TextInv
  BY DEF PrecedenceInv
<1>3. PICK h \in CallSet, rest \in Seq(CallSet) :
           /\ Head(calls) = h /\ Tail(calls) = rest /\ calls = <<h>> \o rest
           /\ Sound(h) /\ Gives(h) = Level(rest) /\ Waits(rest) /\ Linked(rest)
           /\ SomeSpoilt(calls) <=> Spoilt(h) \/ SomeSpoilt(rest)
  BY <1>2, TopIs
<1>4. /\ h.at \in {"operand", "tighter"} /\ h.at \in Holding
      /\ h.LHS \in Results /\ h.MinPrec \in 1 .. 6 /\ h.NextTokPrec \in 0 .. 5 /\ h.op \in TokenKinds
  <2>1. h.at \in {"operand", "tighter"} /\ h.at \in Holding
    BY <1>3 DEF Holding
  <2> QED
    BY <2>1, CallIs
<1>5. h.NextTokPrec = getBinOpPrecedence(h.op) /\ h.NextTokPrec >= h.MinPrec
  BY <1>3, <1>4 DEF Sound
<1>6. PICK q \in 1 .. 5 : q = h.NextTokPrec /\ getBinOpPrecedence(h.op) = q
  BY <1>4, <1>5
<1>7. PICK min \in 1 .. 5 : min = h.MinPrec /\ min <= q
  BY <1>4, <1>5, <1>6
<1>8. /\ ret \in Results /\ text \in Seq(TokenKinds) /\ Tok \in TokenKinds \cup {Eof}
      /\ getBinOpPrecedence(Tok) \in 0 .. 5
  BY <1>2, PrecedenceType DEF PrecedenceTypeInv
<1>9. PICK next \in 0 .. 5 : next = getBinOpPrecedence(Tok) /\ next <= q
  BY <1>3, <1>6, <1>8
<1>10. PICK res : res = IF Invalid \in {h.LHS, ret} THEN Invalid ELSE BinaryNode(h.LHS, h.op, ret)
  OBVIOUS
<1>11. /\ res \in Results
       /\ res = Invalid <=> h.LHS = Invalid \/ ret = Invalid
  <2>1. CASE h.LHS = Invalid \/ ret = Invalid
    BY <1>10, <2>1, TreesAre
  <2>2. CASE ~ (h.LHS = Invalid \/ ret = Invalid)
    <3>1. h.LHS \in Trees /\ ret \in Trees
      BY <1>4, <1>8, <2>2 DEF Results
    <3>2. BinaryNode(h.LHS, h.op, ret) \in Trees
      BY <1>4, <3>1, TreesAre
    <3>3. res \in Trees
      BY <1>10, <2>2, <3>2
    <3>4. res # Invalid
      BY <3>3, TreesAre
    <3> QED
      BY <2>2, <3>3, <3>4 DEF Results
  <2> QED
    BY <2>1, <2>2
<1>12. PICK c \in CallSet : c = RHS(res, min, next)
  <2>1. min \in 1 .. 6
    OBVIOUS
  <2> QED
    BY <1>11, <2>1, CallsAre
<1>13. c.at = "loop" /\ c.LHS = res /\ c.MinPrec = min /\ c.NextTokPrec = next
  BY <1>12 DEF RHS
<1>14. PICK cs : cs = <<c>> \o rest
  OBVIOUS
<1>15. calls' = cs /\ ret' = NoResult
  BY <1>3, <1>7, <1>9, <1>10, <1>12, <1>14 DEF Combine
<1>16. /\ Sound(c) /\ Gives(c) = min /\ (Spoilt(c) <=> res = Invalid)
       /\ Gives(h) = min /\ (Spoilt(h) <=> h.LHS = Invalid)
  BY <1>4, <1>7, <1>13 DEF Sound, Gives, Spoilt, Holding
<1>17. /\ cs \in Seq(CallSet) /\ cs # << >> /\ Head(cs) = c /\ Tail(cs) = rest
       /\ Linked(cs)
       /\ SomeSpoilt(cs) <=> Spoilt(c) \/ SomeSpoilt(rest)
  <2>1. Linked(rest) /\ Waits(rest) /\ Sound(c) /\ Gives(c) = Level(rest)
    BY <1>3, <1>16
  <2> QED
    BY <1>14, <2>1, OneUp
<1>18. missing' => SomeSpoilt(cs)
  BY <1>2, <1>3, <1>11, <1>16, <1>17 DEF SpoiltInv
<1>19. ASSUME ~ missing', ~ recovered' PROVE Reads(cs, text)
  <2>1. HasRead(calls, text, ret)
    BY <1>2, <1>19 DEF TextInv
  <2>2. PICK m \in Nat : m = Level(calls) /\ q + 1 <= m
    <3>1. Level(calls) = 6 \/ Level(calls) = q + 1
      BY <1>3, <1>4, <1>6 DEF Level, Wants
    <3>2. CASE Level(calls) = 6
      <4>1. q + 1 <= 6
        OBVIOUS
      <4> QED
        BY <3>2, <4>1
    <3>3. CASE Level(calls) = q + 1
      BY <3>3
    <3> QED
      BY <3>1, <3>2, <3>3
  <2>3. PICK base \in Seq(TokenKinds), s \in Seq(TokenKinds) :
          /\ text = base \o s /\ Explained(calls, base) /\ ret # Invalid /\ ret = Grouping[s]
          /\ Expr(s, m)
    BY <2>1, <2>2 DEF HasRead
  <2>4. Expr(s, q + 1)
    <3>1. q + 1 \in Nat
      OBVIOUS
    <3> QED
      BY <2>2, <2>3, <3>1, ExprWeaker
  <2>5. PICK below \in Seq(TokenKinds), t \in Seq(TokenKinds) :
          base = below \o t /\ Stands(h, t) /\ Explained(rest, below)
    <3>1. Explained(<<h>> \o rest, base)
      BY <1>3, <2>3
    <3> QED
      BY <3>1, ExplainsBelow
  <2>6. PICK v : t = v \o <<h.op>> /\ Left(h, v)
    BY <1>4, <2>5 DEF Stands
  <2>7. h.LHS # Invalid /\ h.LHS = Grouping[v] /\ Expr(v, q)
    BY <1>6, <2>6 DEF Left
  <2>8. PICK u : u = t \o s
    OBVIOUS
  <2>9. Expr(u, q) /\ Grouping[u] = BinaryNode(Grouping[v], h.op, Grouping[s])
    <3>1. PICK op \in TokenKinds : op = h.op /\ getBinOpPrecedence(op) = q
      BY <1>4, <1>6
    <3>2. u = (v \o <<op>>) \o s
      BY <2>6, <2>8, <3>1
    <3>3. getBinOpPrecedence(op) = q /\ Expr(v, q)
      BY <2>7, <3>1
    <3>4. Fits(v, op, s, q)
      BY <2>4, <3>3 DEF Fits
    <3>5. Joined(u, v, op, s, q)
      BY <3>2, <3>4, BinaryIs
    <3> QED
      BY <3>1, <3>5 DEF Joined
  <2>10. text = below \o u
    BY <2>3, <2>5, <2>8, ConcatAssociative
  <2>11. u \in Seq(TokenKinds)
    BY <2>9 DEF Expr
  <2>12. res # Invalid /\ res = Grouping[u]
    BY <1>10, <1>11, <2>3, <2>7, <2>9
  <2>13. Expr(u, next) /\ Expr(u, min)
    <3>1. q \in Nat /\ next \in Nat /\ min \in Nat /\ next <= q /\ min <= q
      BY <1>7, <1>9
    <3> QED
      BY <2>9, <3>1, ExprWeaker
  <2>14. Doing(c, u)
    BY <1>13, <2>12, <2>13 DEF Doing, Left
  <2> QED
    BY <1>17, <2>5, <2>10, <2>11, <2>14 DEF Reads
<1>20. Begins(Head(cs), Tok)
  BY <1>9, <1>13, <1>17 DEF Begins
<1> QED
  BY <1>8, <1>15, <1>17, <1>18, <1>19, <1>20, AtWork

LEMMA StepOperandParsed ==
  ASSUME PrecedenceInv, OperandParsed
  PROVE  PrecedenceInv'
<1>1. /\ calls # << >> /\ ret # NoResult /\ Head(calls).at = "operand"
      /\ text' = text /\ Tok' = Tok /\ missing' = missing /\ recovered' = recovered
  BY DEF OperandParsed, Returned, KeepToken
<1>2. PrecedenceTypeInv /\ LevelInv /\ SpoiltInv /\ TextInv
  BY DEF PrecedenceInv
<1>3. PICK h \in CallSet, rest \in Seq(CallSet) :
           /\ Head(calls) = h /\ Tail(calls) = rest /\ calls = <<h>> \o rest
           /\ Sound(h) /\ Gives(h) = Level(rest) /\ Waits(rest) /\ Linked(rest)
           /\ SomeSpoilt(calls) <=> Spoilt(h) \/ SomeSpoilt(rest)
  BY <1>1, <1>2, TopIs
<1>4. h.at = "operand" /\ h.NextTokPrec \in 0 .. 5 /\ h.MinPrec \in 1 .. 6
  BY <1>1, <1>3, CallIs DEF Holding
<1>5. /\ ret \in Results /\ text \in Seq(TokenKinds) /\ Tok \in TokenKinds \cup {Eof}
      /\ getBinOpPrecedence(Tok) \in 0 .. 5
  BY <1>1, <1>2, PrecedenceType DEF PrecedenceTypeInv
<1>6. CASE getBinOpPrecedence(Tok) <= h.NextTokPrec
  <2>1. ~ h.NextTokPrec < getBinOpPrecedence(Tok)
    BY <1>4, <1>5, <1>6
  <2>2. Combine(h, ret)
    BY <1>3, <2>1 DEF OperandParsed
  <2> QED
    BY <1>1, <1>3, <1>6, <2>2, StepCombine
<1>7. CASE ~ getBinOpPrecedence(Tok) <= h.NextTokPrec
  <2>1. PICK next \in 1 .. 5 : next = getBinOpPrecedence(Tok) /\ h.NextTokPrec + 1 <= next
    BY <1>4, <1>5, <1>7
  <2>2. PICK tight \in 1 .. 5 : tight = h.NextTokPrec + 1
    BY <1>4, <2>1
  <2>3. PICK b \in CallSet : b = [h EXCEPT !.at = "tighter"]
    BY <1>4, TighterCalled
  <2>4. /\ b.at = "tighter" /\ b.LHS = h.LHS /\ b.MinPrec = h.MinPrec
        /\ b.NextTokPrec = h.NextTokPrec /\ b.op = h.op
    BY <1>4, <2>3, TighterCalled
  <2>5. PICK a \in CallSet : a = RHS(ret, tight, next)
    <3>1. tight \in 1 .. 6 /\ next \in 0 .. 5
      OBVIOUS
    <3> QED
      BY <1>5, <3>1, CallsAre
  <2>6. a.at = "loop" /\ a.LHS = ret /\ a.MinPrec = tight /\ a.NextTokPrec = next
    BY <2>5 DEF RHS
  <2>7. PICK cs : cs = <<b>> \o rest
    OBVIOUS
  <2>8. PICK ds : ds = <<a>> \o cs
    OBVIOUS
  <2>9. calls' = ds /\ ret' = NoResult
    <3>1. h.NextTokPrec < getBinOpPrecedence(Tok)
      BY <1>4, <1>5, <1>7
    <3>2. /\ calls' = <<RHS(ret, h.NextTokPrec + 1, getBinOpPrecedence(Tok)),
                        [h EXCEPT !.at = "tighter"]>> \o rest
          /\ ret' = NoResult
      BY <1>3, <3>1 DEF OperandParsed, TighterThan
    <3>3. calls' = <<a, b>> \o rest
      BY <2>1, <2>2, <2>3, <2>5, <3>2
    <3> QED
      BY <2>7, <2>8, <3>2, <3>3, TwoUp
  <2>10. Sound(b)
    BY <1>3, <1>4, <2>4 DEF Sound
  <2>11. Gives(b) = h.MinPrec /\ Gives(h) = h.MinPrec /\ Wants(b) = tight
    BY <1>4, <2>2, <2>4 DEF Gives, Wants, Holding
  <2>12. /\ (Spoilt(b) <=> Spoilt(h))
         /\ Sound(a) /\ Gives(a) = tight /\ (Spoilt(a) <=> ret = Invalid)
    BY <1>4, <2>4, <2>6 DEF Sound, Gives, Spoilt, Holding
  <2>13. /\ cs \in Seq(CallSet) /\ cs # << >> /\ Head(cs) = b /\ Tail(cs) = rest
         /\ Linked(cs) /\ Level(cs) = Wants(b)
         /\ SomeSpoilt(cs) <=> Spoilt(b) \/ SomeSpoilt(rest)
    <3>1. Linked(rest) /\ Waits(rest) /\ Gives(b) = Level(rest)
      BY <1>3, <2>11
    <3> QED
      BY <2>7, <2>10, <3>1, OneUp
  <2>14. Waits(cs) /\ Gives(a) = Level(cs)
    BY <2>4, <2>11, <2>12, <2>13 DEF Waits, Begun
  <2>15. /\ ds \in Seq(CallSet) /\ ds # << >> /\ Head(ds) = a /\ Tail(ds) = cs
         /\ Linked(ds)
         /\ SomeSpoilt(ds) <=> Spoilt(a) \/ SomeSpoilt(cs)
    BY <2>8, <2>12, <2>13, <2>14, OneUp
  <2>16. missing' => SomeSpoilt(ds)
    BY <1>1, <1>2, <1>3, <2>12, <2>13, <2>15 DEF SpoiltInv
  <2>17. ASSUME ~ missing', ~ recovered' PROVE Reads(ds, text)
    <3>1. HasRead(calls, text, ret)
      BY <1>1, <1>2, <2>17 DEF TextInv
    <3>2. Level(calls) = 6
      BY <1>1, <1>3, <1>4 DEF Level, Wants
    <3>3. PICK base \in Seq(TokenKinds), s \in Seq(TokenKinds) :
            /\ text = base \o s /\ Explained(calls, base) /\ ret # Invalid /\ ret = Grouping[s]
            /\ Expr(s, 6)
      BY <3>1, <3>2 DEF HasRead
    <3>4. PICK below \in Seq(TokenKinds), t \in Seq(TokenKinds) :
            base = below \o t /\ Stands(h, t) /\ Explained(rest, below)
      <4>1. Explained(<<h>> \o rest, base)
        BY <1>3, <3>3
      <4> QED
        BY <4>1, ExplainsBelow
    <3>5. Stands(b, t)
      <4>1. PICK v : t = v \o <<h.op>> /\ Left(h, v)
        BY <1>4, <3>4 DEF Stands
      <4>2. t = v \o <<b.op>> /\ Left(b, v)
        BY <2>4, <4>1 DEF Left
      <4> QED
        BY <2>4, <4>2 DEF Stands
    <3>6. Explained(cs, base)
      BY <2>7, <3>4, <3>5, Explains
    <3>7. Expr(s, next) /\ Expr(s, tight)
      <4>1. 6 \in Nat /\ next \in Nat /\ tight \in Nat /\ next <= 6 /\ tight <= 6
        OBVIOUS
      <4> QED
        BY <3>3, <4>1, ExprWeaker
    <3>8. Doing(a, s)
      BY <2>6, <3>3, <3>7 DEF Doing, Left
    <3> QED
      BY <2>15, <3>3, <3>6, <3>8 DEF Reads
  <2>18. Begins(Head(ds), Tok)
    BY <2>1, <2>6, <2>15 DEF Begins
  <2> QED
    BY <1>1, <1>5, <2>9, <2>15, <2>16, <2>17, <2>18, AtWork
<1> QED
  BY <1>6, <1>7

(* What the assertion after the recursive call says: whatever binds more   *)
(* than the operator was taken.                                            *)
LEMMA RecursionWorks ==
  ASSUME PrecedenceTypeInv, LevelInv, Returned("tighter")
  PROVE  getBinOpPrecedence(Tok) <= Head(calls).NextTokPrec
<1>1. calls # << >> /\ ret # NoResult /\ Head(calls).at = "tighter"
  BY DEF Returned
<1>2. Head(calls) \in CallSet
  BY <1>1, HeadTailProperties DEF PrecedenceTypeInv
<1>3. PICK q \in 0 .. 5 : q = Head(calls).NextTokPrec
  BY <1>1, <1>2, CallIs DEF Holding
<1>4. getBinOpPrecedence(Tok) < q + 1
  <2>1. Level(calls) = q + 1
    BY <1>1, <1>3 DEF Level, Wants
  <2> QED
    BY <1>1, <2>1 DEF LevelInv
<1>5. PICK p \in 0 .. 5 : p = getBinOpPrecedence(Tok)
  BY PrecedenceType
<1>6. p <= q
  BY <1>4, <1>5
<1> QED
  BY <1>3, <1>5, <1>6

LEMMA StepTighterParsed ==
  ASSUME PrecedenceInv, TighterParsed
  PROVE  PrecedenceInv'
<1>1. /\ calls # << >> /\ ret # NoResult /\ Head(calls).at = "tighter" /\ Combine(Head(calls), ret)
      /\ text' = text /\ Tok' = Tok /\ missing' = missing /\ recovered' = recovered
  BY DEF TighterParsed, Returned, KeepToken
<1>2. getBinOpPrecedence(Tok) <= Head(calls).NextTokPrec
  BY RecursionWorks DEF TighterParsed, PrecedenceInv
<1> QED
  BY <1>1, <1>2, StepCombine

LEMMA PrecedenceBegins == PrecedenceInit => PrecedenceInv
<1> SUFFICES ASSUME PrecedenceInit PROVE PrecedenceInv
  OBVIOUS
<1>1. /\ text = << >> /\ Tok \in Vocabulary
      /\ calls = <<UnaryExpr, [at |-> "ParseExpression"]>> /\ ret = NoResult
      /\ missing = FALSE /\ recovered = FALSE
  BY DEF PrecedenceInit
<1>2. Tok \in TokenKinds
  BY <1>1, VocabularyAssumption
<1>3. PICK a \in CallSet : a = UnaryExpr
  BY CallsAre
<1>4. PICK b \in CallSet : b = [at |-> "ParseExpression"]
  BY CallsAre
<1>5. a.at = "ParseUnaryExpr" /\ b.at = "ParseExpression"
  BY <1>3, <1>4 DEF UnaryExpr
<1>6. << >> \in Seq(CallSet) /\ << >> \in Seq(TokenKinds)
  OBVIOUS
<1>7. PICK none \in Seq(CallSet) : none = << >>
  BY <1>6
<1>8. PICK cs : cs = <<b>> \o none
  OBVIOUS
<1>9. PICK ds : ds = <<a>> \o cs
  OBVIOUS
<1>10. /\ Sound(b) /\ Gives(b) = Lowest /\ Wants(b) = 6 /\ Sound(a) /\ Gives(a) = 6
  BY <1>5 DEF Sound, Gives, Wants, Holding
<1>11. Linked(none) /\ Waits(none) /\ Level(none) = Lowest
  BY <1>7, LinkedEmpty DEF Waits, Level
<1>12. /\ cs \in Seq(CallSet) /\ cs # << >> /\ Head(cs) = b /\ Tail(cs) = none
       /\ Linked(cs) /\ Level(cs) = Wants(b)
  BY <1>8, <1>10, <1>11, OneUp
<1>13. Waits(cs) /\ Gives(a) = Level(cs)
  BY <1>5, <1>10, <1>12 DEF Waits, Begun
<1>14. /\ ds \in Seq(CallSet) /\ ds # << >> /\ Head(ds) = a /\ Tail(ds) = cs /\ Linked(ds)
  BY <1>9, <1>10, <1>12, <1>13, OneUp
<1>15. calls = ds
  <2>1. cs = <<b>>
    <3>1. <<b>> \in Seq(CallSet)
      OBVIOUS
    <3> QED
      BY <1>7, <1>8, <3>1, ConcatEmptySeq
  <2>2. <<a>> \o <<b>> = <<a, b>>
    BY Pair
  <2> QED
    BY <1>1, <1>3, <1>4, <1>9, <2>1, <2>2, Zenon
<1>16. Reads(ds, text)
  <2>1. PICK e \in Seq(TokenKinds) : e = << >>
    BY <1>6
  <2>2. e \o e = e
    BY <2>1, ConcatEmptySeq
  <2>3. Explained(none, e)
    BY <1>7, <2>1, ExplainedEmpty
  <2>4. Stands(b, e)
    BY <1>5, <2>1 DEF Stands
  <2>5. Explained(cs, e)
    BY <1>8, <2>2, <2>3, <2>4, Explains
  <2>6. Doing(a, e)
    BY <1>5, <2>1 DEF Doing
  <2> QED
    BY <1>1, <1>14, <2>1, <2>2, <2>5, <2>6 DEF Reads
<1>17. Begins(Head(ds), Tok)
  BY <1>5, <1>14 DEF Begins
<1>18. PrecedenceTypeInv
  BY <1>1, <1>2, <1>6, <1>14, <1>15 DEF PrecedenceTypeInv
<1>19. LevelInv
  BY <1>1, <1>14, <1>15, <1>17 DEF LevelInv
<1> QED
  BY <1>1, <1>15, <1>16, <1>18, <1>19 DEF PrecedenceInv, SpoiltInv, TextInv

LEMMA PrecedenceSteps == PrecedenceInv /\ [PrecedenceNext]_precedenceVars => PrecedenceInv'
<1> SUFFICES ASSUME PrecedenceInv, [PrecedenceNext]_precedenceVars PROVE PrecedenceInv'
  OBVIOUS
<1>1. CASE UNCHANGED precedenceVars
  <2>1. /\ text' = text /\ Tok' = Tok /\ calls' = calls /\ ret' = ret
        /\ missing' = missing /\ recovered' = recovered
    BY <1>1 DEF precedenceVars
  <2> QED
    BY <2>1 DEF PrecedenceInv, PrecedenceTypeInv, LevelInv, SpoiltInv, TextInv
<1>2. CASE ParseUnaryExpr
  BY <1>2, StepParseUnaryExpr
<1>3. CASE UnaryDone
  BY <1>3, StepUnaryDone
<1>4. CASE ParseOperand
  BY <1>4, StepParseOperand
<1>5. CASE ParseParen
  BY <1>5, StepParseParen
<1>6. CASE ParseParenClose
  BY <1>6, StepParseParenClose
<1>7. CASE MissingOperand
  BY <1>7, StepMissingOperand
<1>8. CASE ParseExpression
  BY <1>8, StepParseExpression
<1>9. CASE LoopReturns
  BY <1>9, StepLoopReturns
<1>10. CASE LoopTakesOperator
  BY <1>10, StepLoopTakesOperator
<1>11. CASE OperandParsed
  BY <1>11, StepOperandParsed
<1>12. CASE TighterParsed
  BY <1>12, StepTighterParsed
<1> QED
  BY <1>1, <1>2, <1>3, <1>4, <1>5, <1>6, <1>7, <1>8, <1>9, <1>10, <1>11, <1>12 DEF PrecedenceNext

LEMMA TreeFollows == PrecedenceInv => TreeFollowsPrecedence
<1> SUFFICES ASSUME PrecedenceInv, calls = << >>, ~ recovered
             PROVE  IF missing THEN ret = Invalid
                    ELSE getBinOpPrecedence(Tok) = Unknown /\ ret = Grouping[text]
  BY DEF TreeFollowsPrecedence
<1>1. LevelInv /\ SpoiltInv /\ TextInv
  BY DEF PrecedenceInv
<1>2. CASE missing
  BY <1>1, <1>2, SpoiltEmpty DEF SpoiltInv
<1>3. CASE ~ missing
  <2>1. ret # NoResult
    BY <1>1 DEF LevelInv
  <2>2. getBinOpPrecedence(Tok) = Unknown
    <3>1. getBinOpPrecedence(Tok) < 1
      BY <1>1, <2>1 DEF LevelInv, Level, Lowest
    <3>2. getBinOpPrecedence(Tok) \in 0 .. 5
      BY PrecedenceType
    <3> QED
      BY <3>1, <3>2 DEF Unknown
  <2>3. HasRead(<< >>, text, ret)
    BY <1>1, <1>3, <2>1 DEF TextInv
  <2>4. PICK base \in Seq(TokenKinds), s \in Seq(TokenKinds) :
          text = base \o s /\ Explained(<< >>, base) /\ ret = Grouping[s]
    BY <2>3 DEF HasRead
  <2>5. text = s
    BY <2>4, ExplainedEmpty, ConcatEmptySeq
  <2> QED
    BY <1>3, <2>2, <2>4, <2>5
<1> QED
  BY <1>2, <1>3

(* Whatever the tokens and their number: the tree ParseExpression builds   *)
(* is the one the language's rules of precedence give what it has read,    *)
(* and it is invalid just if an operand was missing.                       *)
THEOREM PrecedenceCorrect == PrecedenceSpec => []TreeFollowsPrecedence
<1>1. PrecedenceSpec => []PrecedenceInv
  BY PrecedenceBegins, PrecedenceSteps, PTL DEF PrecedenceSpec
<1> QED
  BY <1>1, TreeFollows, PTL

(* ParseRHSOfBinaryExpression's assertion that its recursion worked, with  *)
(* missing operands and missing parentheses too: no operator that binds    *)
(* more than its own is left when the recursive call returns.              *)
NoTighterLeft == Returned("tighter") => getBinOpPrecedence(Tok) <= Head(calls).NextTokPrec

THEOREM RecursionCorrect == PrecedenceSpec => []NoTighterLeft
<1>1. PrecedenceSpec => []PrecedenceInv
  BY PrecedenceBegins, PrecedenceSteps, PTL DEF PrecedenceSpec
<1>2. PrecedenceInv => NoTighterLeft
  BY RecursionWorks DEF PrecedenceInv, NoTighterLeft
<1> QED
  BY <1>1, <1>2, PTL
=============================================================================
