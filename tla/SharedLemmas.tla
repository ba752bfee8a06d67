---------------------------- MODULE SharedLemmas ----------------------------
(***************************************************************************)
(* What operators of the community modules return, for the proofs about    *)
(* scans, stacks and lists of lists: least and greatest elements, the      *)
(* front of a sequence, and the items of a flattened one.                  *)
(***************************************************************************)
EXTENDS Naturals, SequencesExt, TLAPS, SequenceTheorems, WellFoundedInduction

LEMMA LeastElement ==
  ASSUME NEW S \in SUBSET Nat, S # {}
  PROVE  \E x \in S : \A y \in S : x <= y
<1> DEFINE Below == {ss \in Nat \X Nat : ss[1] < ss[2]}
<1>1. IsWellFoundedOn(Below, Nat)
  BY NatLessThanWellFounded DEF OpToRel
<1>2. PICK x \in S : \A y \in S : ~(<<y, x>> \in Below)
  BY <1>1, WFMin
<1>3. ASSUME NEW y \in S PROVE x <= y
  <2>1. ~(y < x)
    BY <1>2
  <2> QED
    BY <2>1
<1> QED
  BY <1>2, <1>3

LEMMA MinIsLeast ==
  ASSUME NEW S \in SUBSET Nat, S # {}
  PROVE  Min(S) \in S /\ \A y \in S : Min(S) <= y
BY LeastElement DEF Min

LEMMA GreatestElement ==
  ASSUME NEW n \in Nat, NEW S \in SUBSET (1 .. n), S # {}
  PROVE  \E x \in S : \A y \in S : x >= y
<1> DEFINE T == {k \in Nat : \E x \in S : k = n - x}
<1>1. PICK x0 \in S : TRUE
  OBVIOUS
<1>2. n - x0 \in T
  BY <1>1
<1>3. T \in SUBSET Nat /\ T # {}
  BY <1>2
<1> HIDE DEF T
<1>4. PICK k \in T : \A m \in T : k <= m
  BY <1>3, LeastElement
<1>5. PICK x \in S : k = n - x
  BY <1>4 DEF T
<1>6. ASSUME NEW y \in S PROVE x >= y
  <2>1. n - y \in T
    BY DEF T
  <2>2. n - x <= n - y
    BY <2>1, <1>4, <1>5
  <2> QED
    BY <2>2
<1> QED
  BY <1>6

LEMMA MaxIsGreatest ==
  ASSUME NEW n \in Nat, NEW S \in SUBSET (1 .. n), S # {}
  PROVE  /\ Max(S) \in S /\ \A y \in S : Max(S) >= y
         /\ \A x \in S : (\A y \in S : x >= y) => Max(S) = x
<1>1. Max(S) \in S /\ \A y \in S : Max(S) >= y
  BY GreatestElement DEF Max
<1>2. ASSUME NEW x \in S, \A y \in S : x >= y PROVE Max(S) = x
  <2>1. \A y \in S : y \in Nat
    OBVIOUS
  <2>2. PICK m \in S : m = Max(S)
    BY <1>1
  <2>3. m >= x /\ x >= m /\ m \in Nat /\ x \in Nat
    BY <1>1, <1>2, <2>1, <2>2
  <2> QED
    BY <2>2, <2>3
<1> QED
  BY <1>1, <1>2

LEMMA FrontIs ==
  ASSUME NEW S, NEW t \in Seq(S), t # << >>
  PROVE  /\ Front(t) \in Seq(S) /\ Len(Front(t)) = Len(t) - 1
         /\ \A i \in 1 .. Len(t) - 1 : Front(t)[i] = t[i]
<1>1. Len(t) \in Nat \ {0} /\ \A i \in 1 .. Len(t) : t[i] \in S
  BY EmptySeq, LenProperties, ElementOfSeq
<1> DEFINE n == Len(t) - 1
<1>2. n \in Nat /\ \A i \in 1 .. n : t[i] \in S
  BY <1>1
<1> HIDE DEF n
<1>3. /\ SubSeq(t, 1, n) \in Seq(S)
      /\ Len(SubSeq(t, 1, n)) = IF 1 <= n THEN n - 1 + 1 ELSE 0
      /\ \A i \in 1 .. n - 1 + 1 : SubSeq(t, 1, n)[i] = t[1 + i - 1]
  BY <1>2, SubSeqProperties
<1>4. /\ Len(SubSeq(t, 1, n)) = n
      /\ \A i \in 1 .. n : SubSeq(t, 1, n)[i] = t[i]
  BY <1>2, <1>3
<1> QED
  BY <1>3, <1>4 DEF Front, n

(* The sequences over a set are among those over a larger one.             *)
LEMMA SeqOfMore ==
  ASSUME NEW S, NEW T, S \subseteq T
  PROVE  Seq(S) \subseteq Seq(T)
<1> SUFFICES ASSUME NEW t \in Seq(S) PROVE t \in Seq(T)
  OBVIOUS
<1>1. Len(t) \in Nat /\ t \in [1 .. Len(t) -> S]
  BY LenProperties
<1>2. t \in [1 .. Len(t) -> T]
  BY <1>1
<1> QED
  BY <1>1, <1>2

-----------------------------------------------------------------------------
(* What FlattenSeq returns.                                                *)

IsFlat(f, ss) == f = [i \in 1 .. Len(ss) |-> IF i = 1 THEN ss[i] ELSE f[i - 1] \o ss[i]]

LEMMA FlattenIs ==
  ASSUME NEW ss
  PROVE  FlattenSeq(ss) = IF Len(ss) = 0 THEN ss ELSE (CHOOSE f : IsFlat(f, ss))[Len(ss)]
BY DEF FlattenSeq, IsFlat

LEMMA FlatExists ==
  ASSUME NEW S, NEW ss \in Seq(Seq(S))
  PROVE  \E f : IsFlat(f, ss)
<1> DEFINE Bad == {n \in Nat : \E t \in Seq(Seq(S)) : Len(t) = n /\ ~ \E f : IsFlat(f, t)}
<1>1. ASSUME Bad # {} PROVE FALSE
  <2>1. PICK n \in Bad : \A m \in Bad : n <= m
    <3> HIDE DEF Bad
    <3>1. Bad \in SUBSET Nat
      BY DEF Bad
    <3> QED
      BY <1>1, <3>1, LeastElement
  <2>2. PICK t \in Seq(Seq(S)) : Len(t) = n /\ ~ \E f : IsFlat(f, t)
    BY <2>1
  <2>3. CASE n = 0
    <3>1. << >> = [i \in 1 .. Len(t) |-> IF i = 1 THEN t[i] ELSE << >>[i - 1] \o t[i]]
      BY <2>2, <2>3
    <3>2. IsFlat(<< >>, t)
      BY <3>1 DEF IsFlat
    <3> QED
      BY <2>2, <3>2
  <2>4. CASE n # 0
    <3> DEFINE u == Front(t)
    <3>1. /\ u \in Seq(Seq(S)) /\ Len(u) = n - 1 /\ n \in Nat
          /\ \A i \in 1 .. n - 1 : u[i] = t[i]
      BY <2>1, <2>2, <2>4, FrontIs, EmptySeq
    <3> HIDE DEF u
    <3>2. n - 1 \in Nat /\ n - 1 \notin Bad
      <4> HIDE DEF Bad
      <4> QED
        BY <2>1, <2>4, <3>1
    <3>3. PICK g : IsFlat(g, u)
      BY <3>1, <3>2
    <3> DEFINE f == [i \in 1 .. n |->
                       IF i = n THEN (IF n = 1 THEN t[n] ELSE g[n - 1] \o t[n]) ELSE g[i]]
    <3>4. ASSUME NEW i \in 1 .. n
          PROVE  f[i] = IF i = 1 THEN t[i] ELSE f[i - 1] \o t[i]
      <4>1. CASE i = n
        BY <3>1, <4>1, <2>4
      <4>2. CASE i # n
        <5>1. i \in 1 .. n - 1 /\ (i # 1 => i - 1 \in 1 .. n - 1)
          BY <3>1, <4>2
        <5>2. g[i] = IF i = 1 THEN u[i] ELSE g[i - 1] \o u[i]
          BY <3>3, <5>1, <3>1 DEF IsFlat
        <5>3. f[i] = g[i] /\ (i # 1 => f[i - 1] = g[i - 1])
          BY <4>2, <5>1, <3>1
        <5> HIDE DEF f
        <5> QED
          BY <5>1, <5>2, <5>3, <3>1
      <4> QED
        BY <4>1, <4>2
    <3>5. IsFlat(f, t)
      <4>1. f = [i \in 1 .. n |-> f[i]]
        OBVIOUS
      <4> HIDE DEF f
      <4>2. f = [i \in 1 .. n |-> IF i = 1 THEN t[i] ELSE f[i - 1] \o t[i]]
        BY <4>1, <3>4
      <4> QED
        BY <2>2, <4>2 DEF IsFlat
    <3> QED
      BY <2>2, <3>5
  <2> QED
    BY <2>3, <2>4
<1>2. Len(ss) \in Nat
  OBVIOUS
<1> QED
  BY <1>1, <1>2

(* The function of a sequence extends that of a shorter one.               *)
LEMMA FlatAgree ==
  ASSUME NEW S, NEW ss \in Seq(Seq(S)), NEW tt \in Seq(Seq(S)), NEW f, NEW g,
         IsFlat(f, ss), IsFlat(g, tt), Len(ss) <= Len(tt),
         \A i \in 1 .. Len(ss) : ss[i] = tt[i]
  PROVE  \A i \in 1 .. Len(ss) : f[i] = g[i] /\ f[i] \in Seq(S)
<1> DEFINE Bad == {i \in Nat : i \in 1 .. Len(ss) /\ ~(f[i] = g[i] /\ f[i] \in Seq(S))}
<1>1. Len(ss) \in Nat /\ Len(tt) \in Nat /\ \A i \in 1 .. Len(ss) : ss[i] \in Seq(S)
  OBVIOUS
<1>2. ASSUME Bad # {} PROVE FALSE
  <2>1. PICK n \in Bad : \A m \in Bad : n <= m
    <3> HIDE DEF Bad
    <3>1. Bad \in SUBSET Nat
      BY DEF Bad
    <3> QED
      BY <1>2, <3>1, LeastElement
  <2>2. n \in 1 .. Len(ss) /\ n \in 1 .. Len(tt)
    BY <1>1, <2>1
  <2>3. /\ f[n] = IF n = 1 THEN ss[n] ELSE f[n - 1] \o ss[n]
        /\ g[n] = IF n = 1 THEN tt[n] ELSE g[n - 1] \o tt[n]
    BY <2>2 DEF IsFlat
  <2>4. CASE n = 1
    BY <1>1, <2>1, <2>2, <2>3, <2>4
  <2>5. CASE n # 1
    <3>1. n - 1 \in 1 .. Len(ss) /\ ~(n <= n - 1)
      BY <1>1, <2>2, <2>5
    <3>2. n - 1 \notin Bad
      <4> HIDE DEF Bad
      <4> QED
        BY <2>1, <3>1
    <3>3. f[n - 1] = g[n - 1] /\ f[n - 1] \in Seq(S)
      BY <3>1, <3>2
    <3>4. f[n] = g[n]
      BY <2>2, <2>3, <2>5, <3>3
    <3>5. f[n] \in Seq(S)
      BY <1>1, <2>2, <2>3, <2>5, <3>3, ConcatProperties
    <3> QED
      BY <2>1, <3>4, <3>5
  <2> QED
    BY <2>4, <2>5
<1>3. ASSUME NEW i \in 1 .. Len(ss) PROVE f[i] = g[i] /\ f[i] \in Seq(S)
  <2>1. i \in Nat
    BY <1>1
  <2> QED
    BY <1>2, <2>1
<1> QED
  BY <1>3

LEMMA FlattenEmpty == FlattenSeq(<< >>) = << >>
BY FlattenIs

LEMMA FlattenBy ==
  ASSUME NEW S, NEW ss \in Seq(Seq(S)), Len(ss) # 0
  PROVE  \E f : IsFlat(f, ss) /\ FlattenSeq(ss) = f[Len(ss)]
<1>1. PICK f : f = CHOOSE g : IsFlat(g, ss)
  OBVIOUS
<1>2. IsFlat(f, ss)
  BY <1>1, FlatExists
<1> QED
  BY <1>1, <1>2, FlattenIs

LEMMA FlattenType ==
  ASSUME NEW S, NEW ss \in Seq(Seq(S))
  PROVE  FlattenSeq(ss) \in Seq(S)
<1>1. CASE Len(ss) = 0
  <2>1. FlattenSeq(ss) = << >>
    BY <1>1, FlattenIs, EmptySeq
  <2> QED
    BY <2>1
<1>2. CASE Len(ss) # 0
  <2>1. PICK f : IsFlat(f, ss) /\ FlattenSeq(ss) = f[Len(ss)]
    BY <1>2, FlattenBy
  <2>3. Len(ss) \in 1 .. Len(ss) /\ Len(ss) <= Len(ss)
    BY <1>2
  <2>4. f[Len(ss)] \in Seq(S)
    BY <2>1, <2>3, FlatAgree
  <2> QED
    BY <2>1, <2>4
<1> QED
  BY <1>1, <1>2

LEMMA FlattenAppend ==
  ASSUME NEW S, NEW ss \in Seq(Seq(S)), NEW x \in Seq(S)
  PROVE  FlattenSeq(Append(ss, x)) = FlattenSeq(ss) \o x
<1>1. PICK tt : tt = Append(ss, x)
  OBVIOUS
<1>2. PICK n \in Nat : n = Len(ss)
  OBVIOUS
<1>3. /\ tt \in Seq(Seq(S)) /\ Len(tt) = n + 1 /\ tt[n + 1] = x
      /\ \A i \in 1 .. n : tt[i] = ss[i]
  BY <1>1, <1>2, AppendProperties
<1>4. PICK g : IsFlat(g, tt) /\ FlattenSeq(tt) = g[n + 1]
  BY <1>2, <1>3, FlattenBy
<1>5. g[n + 1] = IF n + 1 = 1 THEN tt[n + 1] ELSE g[n + 1 - 1] \o tt[n + 1]
  <2>1. n + 1 \in 1 .. Len(tt)
    BY <1>2, <1>3
  <2>2. \A i \in 1 .. Len(tt) : g[i] = IF i = 1 THEN tt[i] ELSE g[i - 1] \o tt[i]
    BY <1>4 DEF IsFlat
  <2> QED
    BY <2>1, <2>2
<1>6. CASE n = 0
  <2>1. FlattenSeq(ss) = << >> /\ << >> \o x = x
    BY <1>2, <1>6, FlattenIs, EmptySeq, ConcatEmptySeq
  <2>2. FlattenSeq(tt) = x
    BY <1>3, <1>4, <1>5, <1>6
  <2> QED
    BY <2>1, <2>2, <1>1
<1>7. CASE n # 0
  <2>1. PICK f : IsFlat(f, ss) /\ FlattenSeq(ss) = f[n]
    BY <1>2, <1>7, FlattenBy
  <2>2. n \in 1 .. n /\ n <= n + 1
    BY <1>7
  <2>3. \A i \in 1 .. n : f[i] = g[i]
    BY <2>1, <2>2, <1>2, <1>3, <1>4, FlatAgree
  <2>4. FlattenSeq(tt) = g[n] \o x
    BY <1>3, <1>4, <1>5, <1>7
  <2> QED
    BY <1>1, <2>1, <2>2, <2>3, <2>4
<1> QED
  BY <1>6, <1>7

(* Its items are those of the sequences.                                   *)
LEMMA RangeOfAppend ==
  ASSUME NEW S, NEW t \in Seq(S), NEW x \in S
  PROVE  ToSet(Append(t, x)) = ToSet(t) \cup {x}
<1>1. PICK u : u = Append(t, x)
  OBVIOUS
<1>2. /\ Len(u) = Len(t) + 1 /\ Len(t) \in Nat /\ u[Len(t) + 1] = x
      /\ \A i \in 1 .. Len(t) : u[i] = t[i]
      /\ DOMAIN u = 1 .. Len(u) /\ DOMAIN t = 1 .. Len(t)
  BY <1>1, AppendProperties, LenProperties
<1>3. ASSUME NEW y \in ToSet(u) PROVE y \in ToSet(t) \cup {x}
  <2>1. PICK i \in 1 .. Len(t) + 1 : y = u[i]
    BY <1>2 DEF ToSet
  <2>2. i = Len(t) + 1 \/ i \in 1 .. Len(t)
    BY <1>2
  <2> QED
    BY <1>2, <2>1, <2>2 DEF ToSet
<1>4. ASSUME NEW y \in ToSet(t) PROVE y \in ToSet(u)
  <2>1. PICK i \in 1 .. Len(t) : y = t[i]
    BY <1>2 DEF ToSet
  <2>2. i \in DOMAIN u /\ u[i] = y
    BY <1>2, <2>1
  <2> QED
    BY <2>2 DEF ToSet
<1>5. x \in ToSet(u)
  <2>1. Len(t) + 1 \in DOMAIN u
    BY <1>2
  <2> QED
    BY <1>2, <2>1 DEF ToSet
<1> QED
  BY <1>1, <1>3, <1>4, <1>5

LEMMA RangeOfConcat ==
  ASSUME NEW S, NEW t \in Seq(S), NEW u \in Seq(S)
  PROVE  ToSet(t \o u) = ToSet(t) \cup ToSet(u)
<1>1. PICK v : v = t \o u
  OBVIOUS
<1>2. /\ Len(v) = Len(t) + Len(u) /\ Len(t) \in Nat /\ Len(u) \in Nat
      /\ \A i \in 1 .. Len(t) + Len(u) : v[i] = IF i <= Len(t) THEN t[i] ELSE u[i - Len(t)]
      /\ DOMAIN v = 1 .. Len(v) /\ DOMAIN t = 1 .. Len(t) /\ DOMAIN u = 1 .. Len(u)
  BY <1>1, ConcatProperties, LenProperties
<1>3. ASSUME NEW y \in ToSet(v) PROVE y \in ToSet(t) \cup ToSet(u)
  <2>1. PICK i \in 1 .. Len(t) + Len(u) : y = v[i]
    BY <1>2 DEF ToSet
  <2>2. CASE i <= Len(t)
    BY <1>2, <2>1, <2>2 DEF ToSet
  <2>3. CASE ~(i <= Len(t))
    <3>1. i - Len(t) \in 1 .. Len(u)
      BY <1>2, <2>3
    <3> QED
      BY <1>2, <2>1, <2>3, <3>1 DEF ToSet
  <2> QED
    BY <2>2, <2>3
<1>4. ASSUME NEW y \in ToSet(t) PROVE y \in ToSet(v)
  <2>1. PICK i \in 1 .. Len(t) : y = t[i]
    BY <1>2 DEF ToSet
  <2>2. i \in DOMAIN v /\ v[i] = y
    BY <1>2, <2>1
  <2> QED
    BY <2>2 DEF ToSet
<1>5. ASSUME NEW y \in ToSet(u) PROVE y \in ToSet(v)
  <2>1. PICK i \in 1 .. Len(u) : y = u[i]
    BY <1>2 DEF ToSet
  <2>2. Len(t) + i \in 1 .. Len(t) + Len(u) /\ ~(Len(t) + i <= Len(t)) /\ Len(t) + i - Len(t) = i
    BY <1>2
  <2>3. v[Len(t) + i] = y /\ Len(t) + i \in DOMAIN v
    BY <1>2, <2>1, <2>2
  <2> QED
    BY <2>3 DEF ToSet
<1> QED
  BY <1>1, <1>3, <1>4, <1>5

LEMMA LastItem ==
  ASSUME NEW T, NEW t \in Seq(T), Len(t) # 0
  PROVE  \E u \in Seq(T), x \in T :
           /\ t = Append(u, x) /\ Len(u) \in Nat
           /\ Len(t) = Len(u) + 1 /\ t[Len(u) + 1] = x
           /\ \A i \in 1 .. Len(u) : t[i] = u[i]
<1>1. t # << >>
  OBVIOUS
<1>2. PICK u \in Seq(T), x \in T : t = Append(u, x)
  BY <1>1, SequenceEmptyOrAppend
<1>3. /\ Len(t) = Len(u) + 1 /\ Len(u) \in Nat /\ t[Len(u) + 1] = x
      /\ \A i \in 1 .. Len(u) : t[i] = u[i]
  BY <1>2, AppendProperties
<1> QED
  BY <1>2, <1>3

LEMMA FlattenRange ==
  ASSUME NEW S, NEW ss \in Seq(Seq(S))
  PROVE  ToSet(FlattenSeq(ss)) = UNION {ToSet(ss[i]) : i \in 1 .. Len(ss)}
<1> DEFINE Of(t) == UNION {ToSet(t[i]) : i \in 1 .. Len(t)}
           Bad   == {n \in Nat : \E t \in Seq(Seq(S)) : Len(t) = n /\ ToSet(FlattenSeq(t)) # Of(t)}
<1>1. ASSUME Bad # {} PROVE FALSE
  <2>1. PICK n \in Bad : \A m \in Bad : n <= m
    <3> HIDE DEF Bad
    <3>1. Bad \in SUBSET Nat
      BY DEF Bad
    <3> QED
      BY <1>1, <3>1, LeastElement
  <2>2. PICK t \in Seq(Seq(S)) : Len(t) = n /\ ToSet(FlattenSeq(t)) # Of(t)
    BY <2>1
  <2>3. CASE n = 0
    <3>1. t = << >>
      BY <2>2, <2>3, EmptySeq
    <3>2. ToSet(FlattenSeq(t)) = {}
      BY <3>1, FlattenEmpty DEF ToSet
    <3> QED
      BY <2>2, <2>3, <3>2
  <2>4. CASE n # 0
    <3>1. PICK u \in Seq(Seq(S)), x \in Seq(S) :
            /\ t = Append(u, x) /\ Len(u) \in Nat
            /\ Len(t) = Len(u) + 1 /\ t[Len(u) + 1] = x
            /\ \A i \in 1 .. Len(u) : t[i] = u[i]
      BY <2>2, <2>4, LastItem
    <3>2. /\ Len(t) = Len(u) + 1 /\ Len(u) \in Nat /\ t[Len(u) + 1] = x
          /\ \A i \in 1 .. Len(u) : t[i] = u[i]
      BY <3>1
    <3>3. Len(u) \notin Bad
      <4> HIDE DEF Bad
      <4> QED
        BY <2>1, <2>2, <3>2
    <3>4. ToSet(FlattenSeq(u)) = Of(u)
      BY <3>2, <3>3
    <3>5. ToSet(FlattenSeq(t)) = Of(u) \cup ToSet(x)
      <4>1. FlattenSeq(t) = FlattenSeq(u) \o x
        BY <3>1, FlattenAppend
      <4>2. FlattenSeq(u) \in Seq(S)
        BY FlattenType
      <4> QED
        BY <3>4, <4>1, <4>2, RangeOfConcat
    <3>6. Of(t) = Of(u) \cup ToSet(x)
      <4>1. 1 .. Len(t) = (1 .. Len(u)) \cup {Len(u) + 1}
        BY <3>2
      <4> QED
        BY <3>2, <4>1
    <3> QED
      BY <2>2, <3>5, <3>6
  <2> QED
    BY <2>3, <2>4
<1>2. Len(ss) \in Nat
  OBVIOUS
<1> QED
  BY <1>1, <1>2

(* No item twice: none in one of the sequences, none in two of them.       *)
LEMMA AppendDistinct ==
  ASSUME NEW S, NEW t \in Seq(S), NEW x \in S
  PROVE  IsInjective(Append(t, x)) <=> IsInjective(t) /\ x \notin ToSet(t)
<1>1. PICK u : u = Append(t, x)
  OBVIOUS
<1>2. /\ Len(u) = Len(t) + 1 /\ Len(t) \in Nat /\ u[Len(t) + 1] = x
      /\ \A i \in 1 .. Len(t) : u[i] = t[i]
      /\ DOMAIN u = 1 .. Len(t) + 1 /\ DOMAIN t = 1 .. Len(t)
  BY <1>1, AppendProperties, LenProperties
<1>3. ASSUME IsInjective(u) PROVE IsInjective(t) /\ x \notin ToSet(t)
  <2>1. \A i, j \in 1 .. Len(t) + 1 : u[i] = u[j] => i = j
    BY <1>2, <1>3 DEF IsInjective
  <2>2. \A i, j \in 1 .. Len(t) : t[i] = t[j] => i = j
    BY <1>2, <2>1
  <2>3. ASSUME x \in ToSet(t) PROVE FALSE
    <3>1. PICK i \in 1 .. Len(t) : x = t[i]
      BY <1>2, <2>3 DEF ToSet
    <3>2. u[i] = u[Len(t) + 1] /\ i \in 1 .. Len(t) + 1 /\ Len(t) + 1 \in 1 .. Len(t) + 1
      BY <1>2, <3>1
    <3>3. i = Len(t) + 1
      BY <2>1, <3>2
    <3> QED
      BY <1>2, <3>3
  <2> QED
    BY <1>2, <2>2, <2>3 DEF IsInjective
<1>4. ASSUME IsInjective(t), x \notin ToSet(t) PROVE IsInjective(u)
  <2>1. \A i, j \in 1 .. Len(t) : t[i] = t[j] => i = j
    BY <1>2, <1>4 DEF IsInjective
  <2>2. \A i \in 1 .. Len(t) : t[i] # x
    BY <1>2, <1>4 DEF ToSet
  <2>3. ASSUME NEW i \in 1 .. Len(t) + 1, NEW j \in 1 .. Len(t) + 1, u[i] = u[j]
        PROVE  i = j
    <3>1. i \in 1 .. Len(t) \/ i = Len(t) + 1
      BY <1>2
    <3>2. j \in 1 .. Len(t) \/ j = Len(t) + 1
      BY <1>2
    <3> QED
      BY <1>2, <2>1, <2>2, <2>3, <3>1, <3>2
  <2> QED
    BY <1>2, <2>3 DEF IsInjective
<1> QED
  BY <1>1, <1>3, <1>4

LEMMA ConcatDistinct ==
  ASSUME NEW S, NEW t \in Seq(S), NEW u \in Seq(S), IsInjective(t), IsInjective(u),
         ToSet(t) \cap ToSet(u) = {}
  PROVE  IsInjective(t \o u)
<1>1. PICK v : v = t \o u
  OBVIOUS
<1>2. /\ Len(v) = Len(t) + Len(u) /\ Len(t) \in Nat /\ Len(u) \in Nat
      /\ \A i \in 1 .. Len(t) + Len(u) : v[i] = IF i <= Len(t) THEN t[i] ELSE u[i - Len(t)]
      /\ DOMAIN v = 1 .. Len(t) + Len(u) /\ DOMAIN t = 1 .. Len(t) /\ DOMAIN u = 1 .. Len(u)
  BY <1>1, ConcatProperties, LenProperties
<1>3. /\ \A i, j \in 1 .. Len(t) : t[i] = t[j] => i = j
      /\ \A i, j \in 1 .. Len(u) : u[i] = u[j] => i = j
      /\ \A i \in 1 .. Len(t), j \in 1 .. Len(u) : t[i] # u[j]
  <2>1. \A i, j \in 1 .. Len(t) : t[i] = t[j] => i = j
    BY <1>2 DEF IsInjective
  <2>2. \A i, j \in 1 .. Len(u) : u[i] = u[j] => i = j
    BY <1>2 DEF IsInjective
  <2>3. ASSUME NEW i \in 1 .. Len(t), NEW j \in 1 .. Len(u) PROVE t[i] # u[j]
    <3>1. t[i] \in ToSet(t) /\ u[j] \in ToSet(u)
      BY <1>2 DEF ToSet
    <3> QED
      BY <3>1
  <2> QED
    BY <2>1, <2>2, <2>3
<1>4. ASSUME NEW i \in 1 .. Len(t) + Len(u), NEW j \in 1 .. Len(t) + Len(u), v[i] = v[j]
      PROVE  i = j
  <2>1. CASE i <= Len(t) /\ j <= Len(t)
    <3>1. i \in 1 .. Len(t) /\ j \in 1 .. Len(t) /\ t[i] = t[j]
      BY <1>2, <1>4, <2>1
    <3> QED
      BY <1>3, <3>1
  <2>2. CASE i <= Len(t) /\ ~(j <= Len(t))
    <3>1. i \in 1 .. Len(t) /\ j - Len(t) \in 1 .. Len(u) /\ t[i] = u[j - Len(t)]
      BY <1>2, <1>4, <2>2
    <3> QED
      BY <1>3, <3>1
  <2>3. CASE ~(i <= Len(t)) /\ j <= Len(t)
    <3>1. j \in 1 .. Len(t) /\ i - Len(t) \in 1 .. Len(u) /\ t[j] = u[i - Len(t)]
      BY <1>2, <1>4, <2>3
    <3> QED
      BY <1>3, <3>1
  <2>4. CASE ~(i <= Len(t)) /\ ~(j <= Len(t))
    <3>1. /\ i - Len(t) \in 1 .. Len(u) /\ j - Len(t) \in 1 .. Len(u)
          /\ u[i - Len(t)] = u[j - Len(t)]
      BY <1>2, <1>4, <2>4
    <3>2. i - Len(t) = j - Len(t)
      BY <1>3, <3>1
    <3> QED
      BY <1>2, <3>2
  <2> QED
    BY <2>1, <2>2, <2>3, <2>4
<1> QED
  BY <1>1, <1>2, <1>4 DEF IsInjective

Apart(ss) ==
  /\ \A i \in 1 .. Len(ss) : IsInjective(ss[i])
  /\ \A i, j \in 1 .. Len(ss) : i # j => ToSet(ss[i]) \cap ToSet(ss[j]) = {}

LEMMA FlattenDistinct ==
  ASSUME NEW S, NEW ss \in Seq(Seq(S)), Apart(ss)
  PROVE  IsInjective(FlattenSeq(ss))
<1> DEFINE Bad == {n \in Nat : \E t \in Seq(Seq(S)) :
                     Len(t) = n /\ Apart(t) /\ ~ IsInjective(FlattenSeq(t))}
<1>1. ASSUME Bad # {} PROVE FALSE
  <2>1. PICK n \in Bad : \A m \in Bad : n <= m
    <3> HIDE DEF Bad
    <3>1. Bad \in SUBSET Nat
      BY DEF Bad
    <3> QED
      BY <1>1, <3>1, LeastElement
  <2>2. PICK t \in Seq(Seq(S)) : Len(t) = n /\ Apart(t) /\ ~ IsInjective(FlattenSeq(t))
    BY <2>1
  <2>3. CASE n = 0
    <3>1. t = << >>
      BY <2>2, <2>3, EmptySeq
    <3>2. IsInjective(FlattenSeq(t))
      BY <3>1, FlattenEmpty DEF IsInjective
    <3> QED
      BY <2>2, <3>2
  <2>4. CASE n # 0
    <3>1. PICK u \in Seq(Seq(S)), x \in Seq(S) :
            /\ t = Append(u, x) /\ Len(u) \in Nat
            /\ Len(t) = Len(u) + 1 /\ t[Len(u) + 1] = x
            /\ \A i \in 1 .. Len(u) : t[i] = u[i]
      BY <2>2, <2>4, LastItem
    <3>2. Len(u) \notin Bad
      <4> HIDE DEF Bad
      <4> QED
        BY <2>1, <2>2, <3>1
    <3>3. Apart(u) /\ IsInjective(x) /\ \A i \in 1 .. Len(u) : ToSet(u[i]) \cap ToSet(x) = {}
      <4>1. \A i \in 1 .. Len(u) : i \in 1 .. Len(t) /\ i # Len(u) + 1
        BY <3>1
      <4>2. Len(u) + 1 \in 1 .. Len(t)
        BY <3>1
      <4> QED
        BY <2>2, <3>1, <4>1, <4>2 DEF Apart
    <3>4. IsInjective(FlattenSeq(u))
      BY <3>1, <3>2, <3>3
    <3>5. FlattenSeq(t) = FlattenSeq(u) \o x
      BY <3>1, FlattenAppend
    <3>6. FlattenSeq(u) \in Seq(S)
      BY FlattenType
    <3>7. ToSet(FlattenSeq(u)) \cap ToSet(x) = {}
      BY <3>3, FlattenRange
    <3>8. IsInjective(FlattenSeq(t))
      BY <3>3, <3>4, <3>5, <3>6, <3>7, ConcatDistinct
    <3> QED
      BY <2>2, <3>8
  <2> QED
    BY <2>3, <2>4
<1>2. Len(ss) \in Nat
  OBVIOUS
<1> QED
  BY <1>1, <1>2
=============================================================================
