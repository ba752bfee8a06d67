--------------------------- MODULE SelectorsProofs ---------------------------
(***************************************************************************)
(* What holds of the struct types, their member tables and the selectors   *)
(* looked up in them, for any sources and any names: what is found is what *)
(* the shortest routes through the embedded structs lead to.               *)
(***************************************************************************)
EXTENDS Selectors, SharedLemmas, FiniteSetTheorems

-----------------------------------------------------------------------------
(* What Among returns.                                                     *)

Singles(items, T) == [i \in DOMAIN items |-> IF items[i] \in T THEN <<items[i]>> ELSE << >>]

LEMMA AmongIs ==
  ASSUME NEW S, NEW items \in Seq(S), NEW T
  PROVE  /\ Among(items, T) = FlattenSeq(Singles(items, T))
         /\ Singles(items, T) \in Seq(Seq(S))
         /\ Len(Singles(items, T)) = Len(items)
         /\ \A i \in 1 .. Len(items) :
              Singles(items, T)[i] = IF items[i] \in T THEN <<items[i]>> ELSE << >>
<1>1. /\ Len(items) \in Nat /\ DOMAIN items = 1 .. Len(items)
      /\ \A i \in 1 .. Len(items) : items[i] \in S
  BY LenProperties, ElementOfSeq
<1>2. \A i \in 1 .. Len(items) : (IF items[i] \in T THEN <<items[i]>> ELSE << >>) \in Seq(S)
  BY <1>1
<1>3. Singles(items, T) \in [1 .. Len(items) -> Seq(S)]
  BY <1>1, <1>2 DEF Singles
<1>4. Singles(items, T) \in Seq(Seq(S)) /\ Len(Singles(items, T)) = Len(items)
  BY <1>1, <1>3, IsASeq, LenProperties
<1> QED
  BY <1>1, <1>4 DEF Among, Singles

LEMMA AmongType ==
  ASSUME NEW S, NEW items \in Seq(S), NEW T
  PROVE  Among(items, T) \in Seq(S)
BY AmongIs, FlattenType

LEMMA AmongRange ==
  ASSUME NEW S, NEW items \in Seq(S), NEW T
  PROVE  ToSet(Among(items, T)) = ToSet(items) \cap T
<1>1. PICK ss : ss = Singles(items, T)
  OBVIOUS
<1>2. /\ Among(items, T) = FlattenSeq(ss) /\ ss \in Seq(Seq(S)) /\ Len(ss) = Len(items)
      /\ \A i \in 1 .. Len(items) : ss[i] = IF items[i] \in T THEN <<items[i]>> ELSE << >>
  BY <1>1, AmongIs
<1>3. \A i \in 1 .. Len(items) : ToSet(ss[i]) = {items[i]} \cap T
  <2>1. \A x : ToSet(<<x>>) = {x}
    BY DEF ToSet
  <2>2. ToSet(<< >>) = {}
    BY DEF ToSet
  <2> QED
    BY <1>2, <2>1, <2>2
<1>4. ToSet(items) = {items[i] : i \in 1 .. Len(items)}
  BY LenProperties DEF ToSet
<1>5. ToSet(FlattenSeq(ss)) = UNION {ToSet(ss[i]) : i \in 1 .. Len(ss)}
  BY <1>2, FlattenRange
<1> QED
  BY <1>2, <1>3, <1>4, <1>5

LEMMA AmongDistinct ==
  ASSUME NEW S, NEW items \in Seq(S), NEW T, IsInjective(items)
  PROVE  IsInjective(Among(items, T))
<1>1. PICK ss : ss = Singles(items, T)
  OBVIOUS
<1>2. /\ Among(items, T) = FlattenSeq(ss) /\ ss \in Seq(Seq(S)) /\ Len(ss) = Len(items)
      /\ \A i \in 1 .. Len(items) : ss[i] = IF items[i] \in T THEN <<items[i]>> ELSE << >>
  BY <1>1, AmongIs
<1>3. \A x : IsInjective(<<x>>) /\ ToSet(<<x>>) = {x}
  BY DEF IsInjective, ToSet
<1>4. IsInjective(<< >>) /\ ToSet(<< >>) = {}
  BY DEF IsInjective, ToSet
<1>5. \A i, j \in 1 .. Len(items) : items[i] = items[j] => i = j
  BY LenProperties DEF IsInjective
<1>6. Apart(ss)
  <2>1. \A i \in 1 .. Len(ss) : IsInjective(ss[i])
    BY <1>2, <1>3, <1>4
  <2>2. \A i \in 1 .. Len(ss) : ToSet(ss[i]) \subseteq {items[i]}
    BY <1>2, <1>3, <1>4
  <2>3. \A i, j \in 1 .. Len(ss) : i # j => items[i] # items[j]
    BY <1>2, <1>5
  <2>4. \A i, j \in 1 .. Len(ss) : i # j => ToSet(ss[i]) \cap ToSet(ss[j]) = {}
    BY <2>2, <2>3
  <2> QED
    BY <2>1, <2>4 DEF Apart
<1> QED
  BY <1>2, <1>6, FlattenDistinct

LEMMA AmongAppend ==
  ASSUME NEW S, NEW items \in Seq(S), NEW x \in S, NEW T
  PROVE  Among(Append(items, x), T) =
           Among(items, T) \o (IF x \in T THEN <<x>> ELSE << >>)
<1>1. PICK more : more = Append(items, x)
  OBVIOUS
<1>2. /\ more \in Seq(S) /\ Len(more) = Len(items) + 1 /\ more[Len(items) + 1] = x
      /\ \A i \in 1 .. Len(items) : more[i] = items[i]
      /\ Len(items) \in Nat
  BY <1>1, AppendProperties
<1>3. PICK ss : ss = Singles(items, T)
  OBVIOUS
<1>4. PICK tt : tt = Singles(more, T)
  OBVIOUS
<1>5. PICK y : y = IF x \in T THEN <<x>> ELSE << >>
  OBVIOUS
<1>6. y \in Seq(S)
  BY <1>5
<1>7. /\ Among(items, T) = FlattenSeq(ss) /\ ss \in Seq(Seq(S)) /\ Len(ss) = Len(items)
      /\ \A i \in 1 .. Len(items) : ss[i] = IF items[i] \in T THEN <<items[i]>> ELSE << >>
  BY <1>3, AmongIs
<1>8. /\ Among(more, T) = FlattenSeq(tt) /\ tt \in Seq(Seq(S)) /\ Len(tt) = Len(more)
      /\ \A i \in 1 .. Len(more) : tt[i] = IF more[i] \in T THEN <<more[i]>> ELSE << >>
  BY <1>2, <1>4, AmongIs
<1>9. tt = Append(ss, y)
  <2>1. PICK uu : uu = Append(ss, y)
    OBVIOUS
  <2>2. /\ uu \in Seq(Seq(S)) /\ Len(uu) = Len(ss) + 1 /\ uu[Len(ss) + 1] = y
        /\ \A i \in 1 .. Len(ss) : uu[i] = ss[i]
    BY <1>6, <1>7, <2>1, AppendProperties
  <2>3. Len(tt) = Len(uu)
    BY <1>2, <1>7, <1>8, <2>2
  <2>4. ASSUME NEW i \in 1 .. Len(tt) PROVE tt[i] = uu[i]
    <3>1. i \in 1 .. Len(items) \/ i = Len(items) + 1
      BY <1>2, <1>8
    <3> QED
      BY <1>2, <1>5, <1>7, <1>8, <2>2, <3>1
  <2> QED
    BY <1>8, <2>1, <2>2, <2>3, <2>4, SeqEqual
<1> QED
  BY <1>1, <1>5, <1>6, <1>7, <1>8, <1>9, FlattenAppend

LEMMA AmongConcat ==
  ASSUME NEW S, NEW items \in Seq(S), NEW more \in Seq(S), NEW T
  PROVE  Among(items \o more, T) = Among(items, T) \o Among(more, T)
<1> DEFINE Bad == {n \in Nat : \E t \in Seq(S) :
                     Len(t) = n /\ Among(items \o t, T) # Among(items, T) \o Among(t, T)}
<1>1. ASSUME Bad # {} PROVE FALSE
  <2>1. PICK n \in Bad : \A m \in Bad : n <= m
    <3> HIDE DEF Bad
    <3>1. Bad \in SUBSET Nat
      BY DEF Bad
    <3> QED
      BY <1>1, <3>1, LeastElement
  <2>2. PICK t \in Seq(S) :
          Len(t) = n /\ Among(items \o t, T) # Among(items, T) \o Among(t, T)
    BY <2>1
  <2>3. CASE n = 0
    <3>1. t = << >> /\ items \o t = items
      BY <2>2, <2>3, EmptySeq, ConcatEmptySeq
    <3>2. Among(t, T) = << >>
      <4>1. Len(Singles(t, T)) = 0 /\ Singles(t, T) \in Seq(Seq(S))
        BY <2>2, <2>3, AmongIs
      <4>2. Singles(t, T) = << >>
        BY <4>1, EmptySeq
      <4> QED
        BY <4>2, AmongIs, FlattenEmpty
    <3>3. Among(items, T) \o << >> = Among(items, T)
      BY AmongType, ConcatEmptySeq
    <3> QED
      BY <2>2, <3>1, <3>2, <3>3
  <2>4. CASE n # 0
    <3>1. PICK u \in Seq(S), x \in S :
            /\ t = Append(u, x) /\ Len(u) \in Nat
            /\ Len(t) = Len(u) + 1 /\ t[Len(u) + 1] = x
            /\ \A i \in 1 .. Len(u) : t[i] = u[i]
      BY <2>2, <2>4, LastItem
    <3>2. Len(u) \notin Bad
      <4> HIDE DEF Bad
      <4> QED
        BY <2>1, <2>2, <3>1
    <3>3. Among(items \o u, T) = Among(items, T) \o Among(u, T)
      BY <3>1, <3>2
    <3>4. PICK y \in Seq(S) : y = IF x \in T THEN <<x>> ELSE << >>
      <4>1. (IF x \in T THEN <<x>> ELSE << >>) \in Seq(S)
        OBVIOUS
      <4> QED
        BY <4>1
    <3>5. items \o u \in Seq(S) /\ items \o t = Append(items \o u, x)
      <4>1. t = u \o <<x>> /\ items \o u \in Seq(S)
        BY <3>1, AppendIsConcat, ConcatProperties
      <4>2. items \o t = (items \o u) \o <<x>>
        BY <4>1, ConcatAssociative
      <4> QED
        BY <4>1, <4>2, AppendIsConcat
    <3>6. Among(items \o t, T) = Among(items \o u, T) \o y
      <4>1. Among(Append(items \o u, x), T)
              = Among(items \o u, T) \o (IF x \in T THEN <<x>> ELSE << >>)
        BY <3>5, AmongAppend
      <4> QED
        BY <3>4, <3>5, <4>1
    <3>7. Among(t, T) = Among(u, T) \o y
      BY <3>1, <3>4, AmongAppend
    <3>8. Among(items, T) \in Seq(S) /\ Among(u, T) \in Seq(S)
      BY AmongType
    <3>9. (Among(items, T) \o Among(u, T)) \o y = Among(items, T) \o (Among(u, T) \o y)
      <4>1. y \in Seq(S)
        BY <3>4
      <4> QED
        <5>1. PICK a \in Seq(S), b \in Seq(S) : a = Among(items, T) /\ b = Among(u, T)
          BY <3>8
        <5>2. (a \o b) \o y = a \o (b \o y)
          <6> HIDE DEF Bad
          <6> QED
            BY <4>1, <5>1, ConcatAssociative
        <5> QED
          BY <5>1, <5>2
    <3> QED
      BY <2>2, <3>3, <3>6, <3>7, <3>9
  <2> QED
    BY <2>3, <2>4
<1>2. Len(more) \in Nat
  OBVIOUS
<1> QED
  BY <1>1, <1>2

(* Only what the set has of the sequence matters.                          *)
LEMMA AmongSame ==
  ASSUME NEW S, NEW items \in Seq(S), NEW T, NEW U,
         \A x \in ToSet(items) : x \in T <=> x \in U
  PROVE  Among(items, T) = Among(items, U)
<1>1. \A i \in DOMAIN items : items[i] \in T <=> items[i] \in U
  BY DEF ToSet
<1>2. Singles(items, T) = Singles(items, U)
  BY <1>1 DEF Singles
<1> QED
  BY <1>2, AmongIs

-----------------------------------------------------------------------------
(* Chains of embedded fields.  An edge is an embedded field, the hop to    *)
(* the struct that it embeds, which was declared before.                   *)

IsGraph(E) ==
  /\ DOMAIN E \subseteq [struct : Nat, member : Nat \X Nat]
  /\ \A x \in DOMAIN E : E[x] \in Nat /\ E[x] < x.struct

IsChain(E, from, h) ==
  /\ h \in Seq(DOMAIN E)
  /\ \A i \in 1 .. Len(h) : h[i].struct = IF i = 1 THEN from ELSE E[h[i - 1]]
EndOf(E, from, h) == IF h = << >> THEN from ELSE E[h[Len(h)]]

LEMMA ChainEmpty ==
  ASSUME NEW E, NEW from
  PROVE  IsChain(E, from, << >>) /\ EndOf(E, from, << >>) = from
BY DEF IsChain, EndOf

LEMMA ChainAppend ==
  ASSUME NEW E, NEW from, NEW h \in Seq(DOMAIN E), NEW x \in DOMAIN E
  PROVE  /\ IsChain(E, from, Append(h, x)) <=>
              IsChain(E, from, h) /\ x.struct = EndOf(E, from, h)
         /\ EndOf(E, from, Append(h, x)) = E[x]
<1>1. PICK g : g = Append(h, x)
  OBVIOUS
<1>2. PICK n \in Nat : n = Len(h)
  OBVIOUS
<1>3. /\ g \in Seq(DOMAIN E) /\ Len(g) = n + 1 /\ g[n + 1] = x /\ g # << >>
      /\ \A i \in 1 .. n : g[i] = h[i]
  BY <1>1, <1>2, AppendProperties
<1>4. EndOf(E, from, g) = E[x]
  BY <1>3 DEF EndOf
<1>5. EndOf(E, from, h) = IF n + 1 = 1 THEN from ELSE E[g[n + 1 - 1]]
  <2>1. h = << >> <=> n = 0
    BY <1>2, EmptySeq
  <2>2. n # 0 => n \in 1 .. n
    OBVIOUS
  <2>3. n + 1 - 1 = n
    OBVIOUS
  <2> QED
    BY <1>2, <1>3, <2>1, <2>2, <2>3 DEF EndOf
<1>6. ASSUME IsChain(E, from, g) PROVE IsChain(E, from, h) /\ x.struct = EndOf(E, from, h)
  <2>1. \A i \in 1 .. n + 1 : g[i].struct = IF i = 1 THEN from ELSE E[g[i - 1]]
    BY <1>3, <1>6 DEF IsChain
  <2>2. n + 1 \in 1 .. n + 1
    OBVIOUS
  <2>3. ASSUME NEW i \in 1 .. n PROVE h[i].struct = IF i = 1 THEN from ELSE E[h[i - 1]]
    <3>1. i \in 1 .. n + 1 /\ (i # 1 => i - 1 \in 1 .. n)
      OBVIOUS
    <3> QED
      BY <1>3, <2>1, <3>1
  <2> QED
    BY <1>2, <1>3, <1>5, <2>1, <2>2, <2>3 DEF IsChain
<1>7. ASSUME IsChain(E, from, h), x.struct = EndOf(E, from, h) PROVE IsChain(E, from, g)
  <2>1. ASSUME NEW i \in 1 .. n + 1
        PROVE  g[i].struct = IF i = 1 THEN from ELSE E[g[i - 1]]
    <3>1. CASE i = n + 1
      BY <1>3, <1>5, <1>7, <3>1
    <3>2. CASE i # n + 1
      <4>1. i \in 1 .. n /\ (i # 1 => i - 1 \in 1 .. n)
        BY <3>2
      <4>2. h[i].struct = IF i = 1 THEN from ELSE E[h[i - 1]]
        BY <1>2, <1>7, <4>1 DEF IsChain
      <4> QED
        BY <1>3, <4>1, <4>2
    <3> QED
      BY <3>1, <3>2
  <2> QED
    BY <1>3, <2>1 DEF IsChain
<1> QED
  BY <1>1, <1>4, <1>6, <1>7

LEMMA ConsIs ==
  ASSUME NEW S, NEW h \in Seq(S), NEW x \in S
  PROVE  /\ <<x>> \o h \in Seq(S) /\ Len(<<x>> \o h) = Len(h) + 1 /\ <<x>> \o h # << >>
         /\ (<<x>> \o h)[1] = x
         /\ \A i \in 1 .. Len(h) : (<<x>> \o h)[i + 1] = h[i]
<1>1. <<x>> \in Seq(S) /\ Len(<<x>>) = 1 /\ <<x>>[1] = x
  OBVIOUS
<1>2. PICK w \in Seq(S) : w = <<x>>
  BY <1>1
<1>3. /\ w \o h \in Seq(S) /\ Len(w \o h) = Len(w) + Len(h)
      /\ \A i \in 1 .. Len(w) + Len(h) : (w \o h)[i] = IF i <= Len(w) THEN w[i] ELSE h[i - Len(w)]
  BY <1>2, ConcatProperties
<1>4. Len(h) \in Nat /\ Len(w) = 1 /\ w[1] = x
  BY <1>1, <1>2
<1>5. PICK g : g = w \o h
  OBVIOUS
<1>6. \A i \in 1 .. Len(h) + 1 : g[i] = IF i <= 1 THEN x ELSE h[i - 1]
  BY <1>3, <1>4, <1>5
<1>7. g[1] = x /\ \A i \in 1 .. Len(h) : g[i + 1] = h[i]
  BY <1>4, <1>6
<1>8. g # << >> /\ Len(g) = Len(h) + 1 /\ g \in Seq(S)
  BY <1>3, <1>4, <1>5
<1> QED
  BY <1>2, <1>5, <1>7, <1>8

LEMMA ChainCons ==
  ASSUME NEW E, NEW from, NEW h \in Seq(DOMAIN E), NEW x \in DOMAIN E
  PROVE  /\ IsChain(E, from, <<x>> \o h) <=> x.struct = from /\ IsChain(E, E[x], h)
         /\ EndOf(E, from, <<x>> \o h) = EndOf(E, E[x], h)
<1>1. PICK g : g = <<x>> \o h
  OBVIOUS
<1>2. PICK n \in Nat : n = Len(h)
  OBVIOUS
<1>3. /\ g \in Seq(DOMAIN E) /\ Len(g) = n + 1 /\ g[1] = x /\ g # << >>
      /\ \A i \in 1 .. n : g[i + 1] = h[i]
  BY <1>1, <1>2, ConsIs
<1>4. EndOf(E, from, g) = EndOf(E, E[x], h)
  <2>1. h = << >> <=> n = 0
    BY <1>2, EmptySeq
  <2>2. n # 0 => n \in 1 .. n
    OBVIOUS
  <2> QED
    BY <1>2, <1>3, <2>1, <2>2 DEF EndOf
<1>5. ASSUME IsChain(E, from, g) PROVE x.struct = from /\ IsChain(E, E[x], h)
  <2>1. \A i \in 1 .. n + 1 : g[i].struct = IF i = 1 THEN from ELSE E[g[i - 1]]
    BY <1>3, <1>5 DEF IsChain
  <2>2. x.struct = from
    BY <1>3, <2>1
  <2>3. ASSUME NEW i \in 1 .. n PROVE h[i].struct = IF i = 1 THEN E[x] ELSE E[h[i - 1]]
    <3>1. i + 1 \in 1 .. n + 1 /\ i + 1 # 1 /\ i + 1 - 1 = i
      OBVIOUS
    <3>2. h[i].struct = E[g[i]]
      BY <1>3, <2>1, <3>1
    <3>3. CASE i = 1
      BY <1>3, <3>2, <3>3
    <3>4. CASE i # 1
      <4>1. i - 1 \in 1 .. n /\ i - 1 + 1 = i
        BY <3>4
      <4>2. g[i] = h[i - 1]
        BY <1>3, <4>1
      <4> QED
        BY <3>2, <3>4, <4>2
    <3> QED
      BY <3>3, <3>4
  <2> QED
    BY <1>2, <2>2, <2>3 DEF IsChain
<1>6. ASSUME x.struct = from, IsChain(E, E[x], h) PROVE IsChain(E, from, g)
  <2>1. ASSUME NEW i \in 1 .. n + 1
        PROVE  g[i].struct = IF i = 1 THEN from ELSE E[g[i - 1]]
    <3>1. CASE i = 1
      BY <1>3, <1>6, <3>1
    <3>2. CASE i # 1
      <4>1. PICK j \in 1 .. n : i = j + 1 /\ i - 1 = j
        <5>1. i - 1 \in 1 .. n /\ i = i - 1 + 1
          BY <3>2
        <5> QED
          BY <5>1
      <4>2. g[i] = h[j] /\ h[j].struct = IF j = 1 THEN E[x] ELSE E[h[j - 1]]
        BY <1>2, <1>3, <1>6, <4>1 DEF IsChain
      <4>3. CASE j = 1
        BY <1>3, <3>2, <4>1, <4>2, <4>3
      <4>4. CASE j # 1
        <5>1. j - 1 \in 1 .. n /\ j - 1 + 1 = j
          BY <4>4
        <5>2. g[j] = h[j - 1]
          BY <1>3, <5>1
        <5> QED
          BY <3>2, <4>1, <4>2, <4>4, <5>2
      <4> QED
        BY <4>3, <4>4
    <3> QED
      BY <3>1, <3>2
  <2> QED
    BY <1>3, <2>1 DEF IsChain
<1> QED
  BY <1>1, <1>4, <1>5, <1>6

(* The beginning of a chain is one.                                        *)
LEMMA ChainPrefix ==
  ASSUME NEW E, NEW from, NEW h, IsChain(E, from, h), NEW k \in 1 .. Len(h)
  PROVE  \E g : /\ IsChain(E, from, g) /\ Len(g) = k /\ g # << >>
                /\ \A i \in 1 .. k : g[i] = h[i]
                /\ EndOf(E, from, g) = E[h[k]]
<1>1. /\ h \in Seq(DOMAIN E) /\ Len(h) \in Nat
      /\ \A i \in 1 .. Len(h) : h[i] \in DOMAIN E
      /\ \A i \in 1 .. Len(h) : h[i].struct = IF i = 1 THEN from ELSE E[h[i - 1]]
  BY DEF IsChain
<1> DEFINE g == [i \in 1 .. k |-> h[i]]
<1>2. k \in Nat /\ k <= Len(h) /\ \A i \in 1 .. k : i \in 1 .. Len(h)
  BY <1>1
<1>3. g \in [1 .. k -> DOMAIN E]
  BY <1>1, <1>2
<1>4. \A i \in 1 .. k : g[i] = h[i]
  OBVIOUS
<1> HIDE DEF g
<1>5. g \in Seq(DOMAIN E) /\ Len(g) = k
  BY <1>2, <1>3, IsASeq, LenProperties
<1>6. g # << >>
  BY <1>2, <1>5
<1>7. ASSUME NEW i \in 1 .. k PROVE g[i].struct = IF i = 1 THEN from ELSE E[g[i - 1]]
  <2>1. i \in 1 .. Len(h) /\ (i # 1 => i - 1 \in 1 .. k)
    BY <1>1, <1>2
  <2> QED
    BY <1>1, <1>4, <2>1
<1>8. IsChain(E, from, g)
  BY <1>5, <1>7 DEF IsChain
<1>9. EndOf(E, from, g) = E[h[k]]
  BY <1>4, <1>5, <1>6 DEF EndOf
<1> QED
  BY <1>4, <1>5, <1>6, <1>8, <1>9

(* Each hop goes to a struct declared before: a chain is short.            *)
LEMMA ChainShort ==
  ASSUME NEW E, IsGraph(E), NEW from \in Nat, NEW h, IsChain(E, from, h)
  PROVE  EndOf(E, from, h) \in Nat /\ Len(h) + EndOf(E, from, h) <= from
<1> DEFINE Bad == {n \in Nat : \E g : /\ IsChain(E, from, g) /\ Len(g) = n
                                      /\ ~ (/\ EndOf(E, from, g) \in Nat
                                            /\ Len(g) + EndOf(E, from, g) <= from)}
<1>1. ASSUME Bad # {} PROVE FALSE
  <2>1. PICK n \in Bad : \A m \in Bad : n <= m
    <3> HIDE DEF Bad
    <3>1. Bad \in SUBSET Nat
      BY DEF Bad
    <3> QED
      BY <1>1, <3>1, LeastElement
  <2>2. PICK g : /\ IsChain(E, from, g) /\ Len(g) = n
                 /\ ~ (/\ EndOf(E, from, g) \in Nat
                       /\ Len(g) + EndOf(E, from, g) <= from)
    BY <2>1
  <2>3. g \in Seq(DOMAIN E)
    BY <2>2 DEF IsChain
  <2>4. CASE n = 0
    <3>1. g = << >> /\ Len(g) = 0
      BY <2>2, <2>3, <2>4, EmptySeq
    <3>2. EndOf(E, from, g) = from
      BY <3>1, ChainEmpty
    <3> QED
      BY <2>2, <3>1, <3>2
  <2>5. CASE n # 0
    <3>1. PICK u \in Seq(DOMAIN E), x \in DOMAIN E :
            g = Append(u, x) /\ Len(u) \in Nat /\ Len(g) = Len(u) + 1
      BY <2>2, <2>3, <2>5, LastItem
    <3>2. IsChain(E, from, u) /\ x.struct = EndOf(E, from, u) /\ EndOf(E, from, g) = E[x]
      BY <2>2, <3>1, ChainAppend
    <3>3. Len(u) \notin Bad
      <4> HIDE DEF Bad
      <4> QED
        BY <2>1, <2>2, <3>1
    <3>4. EndOf(E, from, u) \in Nat /\ Len(u) + EndOf(E, from, u) <= from
      BY <3>1, <3>2, <3>3
    <3>5. E[x] \in Nat /\ E[x] < x.struct
      BY <3>1 DEF IsGraph
    <3>6. E[x] + 1 <= EndOf(E, from, u)
      BY <3>2, <3>4, <3>5
    <3> QED
      BY <2>2, <3>1, <3>2, <3>4, <3>5, <3>6
  <2> QED
    BY <2>4, <2>5
<1>2. Len(h) \in Nat
  BY DEF IsChain
<1> QED
  BY <1>1, <1>2

(* Chains that end in a struct of H, those that pass through none before,  *)
(* and the shortest of them.                                               *)
Reaching(E, H, from) ==
  {h \in Seq(DOMAIN E) : IsChain(E, from, h) /\ EndOf(E, from, h) \in H}
IsRoute(E, H, from, h) ==
  /\ IsChain(E, from, h) /\ h # << >> /\ EndOf(E, from, h) \in H
  /\ \A i \in 1 .. Len(h) - 1 : E[h[i]] \notin H
Nearest(E, H, from) ==
  {h \in Reaching(E, H, from) : \A g \in Reaching(E, H, from) : Len(h) <= Len(g)}

LEMMA NearestSelf ==
  ASSUME NEW E, NEW H, NEW from \in H
  PROVE  Nearest(E, H, from) = {<< >>}
<1>1. << >> \in Reaching(E, H, from) /\ Len(<< >>) = 0
  BY ChainEmpty DEF Reaching
<1>2. \A h \in Reaching(E, H, from) : Len(h) \in Nat /\ (Len(h) = 0 => h = << >>)
  BY EmptySeq DEF Reaching
<1>3. ASSUME NEW h \in Nearest(E, H, from) PROVE h = << >>
  <2>1. h \in Reaching(E, H, from) /\ Len(h) <= 0
    BY <1>1 DEF Nearest
  <2> QED
    BY <1>2, <2>1
<1>4. << >> \in Nearest(E, H, from)
  BY <1>1, <1>2 DEF Nearest
<1> QED
  BY <1>3, <1>4

(* A chain that reaches H from outside begins with a route.                *)
LEMMA RouteWithin ==
  ASSUME NEW E, NEW H, NEW from, from \notin H, NEW h \in Reaching(E, H, from)
  PROVE  \E g : IsRoute(E, H, from, g) /\ Len(g) \in Nat /\ Len(g) <= Len(h)
                /\ (g # h => Len(g) < Len(h))
<1>1. IsChain(E, from, h) /\ EndOf(E, from, h) \in H /\ Len(h) \in Nat /\ h \in Seq(DOMAIN E)
  BY DEF Reaching
<1>2. h # << >> /\ Len(h) \in 1 .. Len(h)
  <2>1. h # << >>
    BY <1>1, ChainEmpty
  <2> QED
    BY <1>1, <2>1, EmptySeq
<1> DEFINE K == {k \in 1 .. Len(h) : E[h[k]] \in H}
<1>3. Len(h) \in K
  BY <1>1, <1>2 DEF EndOf
<1>4. K \in SUBSET Nat /\ K # {}
  BY <1>1, <1>3
<1>5. PICK k \in K : \A j \in K : k <= j
  <2> HIDE DEF K
  <2> QED
    BY <1>4, LeastElement
<1>6. k \in 1 .. Len(h) /\ E[h[k]] \in H /\ \A j \in 1 .. k - 1 : E[h[j]] \notin H
  <2>1. \A j \in 1 .. k - 1 : j \in 1 .. Len(h) /\ ~(k <= j)
    BY <1>1
  <2> QED
    BY <1>5, <2>1
<1> HIDE DEF K
<1>7. PICK g : /\ IsChain(E, from, g) /\ Len(g) = k /\ g # << >>
               /\ \A i \in 1 .. k : g[i] = h[i]
               /\ EndOf(E, from, g) = E[h[k]]
  BY <1>1, <1>6, ChainPrefix
<1>8. IsRoute(E, H, from, g)
  <2>1. \A i \in 1 .. k - 1 : i \in 1 .. k
    BY <1>1, <1>6
  <2> QED
    BY <1>6, <1>7, <2>1 DEF IsRoute
<1>9. ASSUME g # h PROVE Len(g) < Len(h)
  <2>1. k \in Nat /\ k <= Len(h)
    BY <1>1, <1>6
  <2>2. CASE k = Len(h)
    <3>1. g \in Seq(DOMAIN E)
      BY <1>7 DEF IsChain
    <3>2. g = h
      BY <1>1, <1>7, <2>2, <3>1, SeqEqual
    <3> QED
      BY <1>9, <3>2
  <2> QED
    BY <1>1, <1>7, <2>1, <2>2
<1>10. Len(g) \in Nat /\ Len(g) <= Len(h)
  BY <1>1, <1>6, <1>7
<1> QED
  BY <1>8, <1>9, <1>10

LEMMA NearestRoutes ==
  ASSUME NEW E, NEW H, NEW from, from \notin H
  PROVE  \A h : h \in Nearest(E, H, from) <=>
                  /\ IsRoute(E, H, from, h)
                  /\ \A g : IsRoute(E, H, from, g) => Len(h) <= Len(g)
<1>1. \A g : IsRoute(E, H, from, g) => g \in Reaching(E, H, from)
  BY DEF IsRoute, Reaching, IsChain
<1>2. \A g \in Reaching(E, H, from) : Len(g) \in Nat
  BY DEF Reaching
<1>3. ASSUME NEW h \in Nearest(E, H, from)
      PROVE  IsRoute(E, H, from, h) /\ \A g : IsRoute(E, H, from, g) => Len(h) <= Len(g)
  <2>1. h \in Reaching(E, H, from) /\ \A g \in Reaching(E, H, from) : Len(h) <= Len(g)
    BY DEF Nearest
  <2>2. PICK g : IsRoute(E, H, from, g) /\ Len(g) \in Nat /\ (g # h => Len(g) < Len(h))
    BY <2>1, RouteWithin
  <2>3. g = h
    <3>1. Len(h) <= Len(g) /\ Len(h) \in Nat
      BY <1>1, <1>2, <2>1, <2>2
    <3> QED
      BY <2>2, <3>1
  <2> QED
    BY <1>1, <2>1, <2>2, <2>3
<1>4. ASSUME NEW h, IsRoute(E, H, from, h),
             \A g : IsRoute(E, H, from, g) => Len(h) <= Len(g)
      PROVE  h \in Nearest(E, H, from)
  <2>1. h \in Reaching(E, H, from) /\ Len(h) \in Nat
    BY <1>1, <1>2, <1>4
  <2>2. ASSUME NEW f \in Reaching(E, H, from) PROVE Len(h) <= Len(f)
    <3>1. PICK g : IsRoute(E, H, from, g) /\ Len(g) \in Nat /\ Len(g) <= Len(f)
      BY RouteWithin
    <3>2. Len(h) <= Len(g) /\ Len(f) \in Nat
      BY <1>2, <1>4, <3>1
    <3> QED
      BY <2>1, <3>1, <3>2
  <2> QED
    BY <2>1, <2>2 DEF Nearest
<1> QED
  BY <1>3, <1>4

(* Routes, from their first hop.                                           *)
LEMMA RouteOne ==
  ASSUME NEW E, NEW H, NEW from, NEW x
  PROVE  IsRoute(E, H, from, <<x>>) <=> x \in DOMAIN E /\ x.struct = from /\ E[x] \in H
<1>1. PICK h : h = <<x>>
  OBVIOUS
<1>2. Len(h) = 1 /\ h[1] = x /\ h # << >> /\ (x \in DOMAIN E => h \in Seq(DOMAIN E))
  BY <1>1
<1>3. IsChain(E, from, h) <=> x \in DOMAIN E /\ x.struct = from
  <2>1. h \in Seq(DOMAIN E) => x \in DOMAIN E
    <3>1. h \in Seq(DOMAIN E) => h[1] \in DOMAIN E
      BY <1>2, ElementOfSeq
    <3> QED
      BY <1>2, <3>1
  <2> QED
    BY <1>2, <2>1 DEF IsChain
<1>4. EndOf(E, from, h) = E[x]
  BY <1>2 DEF EndOf
<1>5. IsRoute(E, H, from, h) <=> IsChain(E, from, h) /\ E[x] \in H
  BY <1>2, <1>4 DEF IsRoute
<1> QED
  BY <1>1, <1>3, <1>5

LEMMA RouteCons ==
  ASSUME NEW E, NEW H, NEW from, NEW x \in DOMAIN E, NEW h \in Seq(DOMAIN E), h # << >>
  PROVE  IsRoute(E, H, from, <<x>> \o h) <=>
           x.struct = from /\ E[x] \notin H /\ IsRoute(E, H, E[x], h)
<1>1. PICK g : g = <<x>> \o h
  OBVIOUS
<1>2. PICK n \in Nat : n = Len(h)
  OBVIOUS
<1>3. /\ Len(g) = n + 1 /\ g[1] = x /\ g # << >>
      /\ \A i \in 1 .. n : g[i + 1] = h[i]
  BY <1>1, <1>2, ConsIs
<1>4. /\ IsChain(E, from, g) <=> x.struct = from /\ IsChain(E, E[x], h)
      /\ EndOf(E, from, g) = EndOf(E, E[x], h)
  BY <1>1, ChainCons
<1>5. n # 0
  BY <1>2, EmptySeq
<1>6. (\A i \in 1 .. Len(g) - 1 : E[g[i]] \notin H) <=>
        E[x] \notin H /\ \A i \in 1 .. Len(h) - 1 : E[h[i]] \notin H
  <2>0. Len(g) - 1 = n /\ Len(h) - 1 = n - 1
    BY <1>2, <1>3
  <2>1. ASSUME \A i \in 1 .. n : E[g[i]] \notin H
        PROVE  E[x] \notin H /\ \A i \in 1 .. n - 1 : E[h[i]] \notin H
    <3>1. 1 \in 1 .. n
      BY <1>5
    <3>2. ASSUME NEW i \in 1 .. n - 1 PROVE E[h[i]] \notin H
      <4>1. i \in 1 .. n /\ i + 1 \in 1 .. n
        OBVIOUS
      <4> QED
        BY <1>3, <2>1, <4>1
    <3> QED
      BY <1>3, <2>1, <3>1, <3>2
  <2>2. ASSUME E[x] \notin H, \A i \in 1 .. n - 1 : E[h[i]] \notin H
        PROVE  \A i \in 1 .. n : E[g[i]] \notin H
    <3>1. ASSUME NEW i \in 1 .. n PROVE E[g[i]] \notin H
      <4>1. CASE i = 1
        BY <1>3, <2>2, <4>1
      <4>2. CASE i # 1
        <5>1. i - 1 \in 1 .. n - 1 /\ i - 1 \in 1 .. n /\ i - 1 + 1 = i
          BY <4>2
        <5> QED
          BY <1>3, <2>2, <5>1
      <4> QED
        BY <4>1, <4>2
    <3> QED
      BY <3>1
  <2> QED
    BY <2>0, <2>1, <2>2
<1> QED
  BY <1>1, <1>3, <1>4, <1>6 DEF IsRoute

-----------------------------------------------------------------------------
(* The operators of the model as functions of the values of its variables, *)
(* so that they can be spoken of in two states.                            *)

Pieces(specs) == [i \in DOMAIN specs |-> [j \in DOMAIN specs[i] |-> <<i, j>>]]
Places(specs) == FlattenSeq(Pieces(specs))
At(specs, m)  == specs[m[1]][m[2]]
NamedIn(specs, n) ==
  Among(Places(specs), {m \in ToSet(Places(specs)) : At(specs, m).name = n})
Whole(specs)  == \A i \in DOMAIN specs : specs[i] # << >>
LastIn(specs) == IF Whole(specs) THEN Len(specs)
                 ELSE SelectInSeq(specs, LAMBDA spec : spec = << >>) - 1
FieldsIn(specs) ==
  Among(Places(specs), {m \in ToSet(Places(specs)) : m[1] <= LastIn(specs)})
AnonIn(specs) ==
  Among(FieldsIn(specs), {m \in ToSet(FieldsIn(specs)) : At(specs, m).anon /\ m[2] = 1})
StructIn(t, ts) == IF Resolved(t, ts).kind = "struct" THEN Resolved(t, ts).of ELSE 0
TargetIn(ss, ts, s, m) == StructIn(Pointed(At(ss[s], m).type), ts)
CanonOf(t, cs) ==
  CASE t.kind = "struct"               -> Struct(cs[t.of])
    [] t.kind = "pointer" /\ ~ t.named -> PointerTo(Struct(cs[t.of]))
    [] OTHER                           -> t
ProfileIn(specs, cs) ==
  [i \in DOMAIN FieldsIn(specs) |-> <<At(specs, FieldsIn(specs)[i]).name,
                                      CanonOf(At(specs, FieldsIn(specs)[i]).type, cs)>>]
TableFor(t, specs) ==
  IF t.lazy THEN [lazy |-> FALSE, exists |-> TRUE, map |-> [n \in Names |-> NamedIn(specs, n)]]
  ELSE t

InState ==
  /\ \A s : Members(s) = Places(structs[s])
  /\ \A s, m : Member(s, m) = At(structs[s], m)
  /\ \A s, n : Named(s, n) = NamedIn(structs[s], n)
  /\ \A s : Intact(s) <=> Whole(structs[s])
  /\ \A s : fields(s) = FieldsIn(structs[s])
  /\ \A s : anon_fields(s) = AnonIn(structs[s])
  /\ \A t : StructOf(t) = StructIn(t, types)
  /\ \A s, m : Target(s, m) = TargetIn(structs, types, s, m)
  /\ \A t : getCanonicalType(t) = CanonOf(t, canon)
  /\ \A s : Profile(s) = ProfileIn(structs[s], canon)
  /\ \A s : buildLookup(s) = TableFor(tables[s], structs[s])

LEMMA State == InState
<1>1. \A s : Members(s) = Places(structs[s])
  BY DEF Members, Places, Pieces
<1>2. \A s, m : Member(s, m) = At(structs[s], m)
  BY DEF Member, At
<1>3. \A s, n : Named(s, n) = NamedIn(structs[s], n)
  BY <1>1, <1>2 DEF Named, NamedIn
<1>4. \A s : Intact(s) <=> Whole(structs[s])
  BY DEF Intact, Whole
<1>5. \A s : UpToGap(s) = LastIn(structs[s])
  BY <1>4 DEF UpToGap, LastIn, FirstGap, SelectInSeq
<1>6. \A s : fields(s) = FieldsIn(structs[s])
  BY <1>1, <1>5 DEF fields, FieldsIn
<1>7. \A s : anon_fields(s) = AnonIn(structs[s])
  BY <1>2, <1>6 DEF anon_fields, AnonIn
<1>8. \A t : StructOf(t) = StructIn(t, types)
  BY DEF StructOf, StructIn, Underlying
<1>9. \A s, m : Target(s, m) = TargetIn(structs, types, s, m)
  BY <1>2, <1>8 DEF Target, TargetIn
<1>10. \A t : getCanonicalType(t) = CanonOf(t, canon)
  BY DEF getCanonicalType, CanonOf
<1>11. \A s : Profile(s) = ProfileIn(structs[s], canon)
  BY <1>2, <1>6, <1>10 DEF Profile, ProfileIn
<1>12. \A s : buildLookup(s) = TableFor(tables[s], structs[s])
  BY <1>3 DEF buildLookup, TableFor
<1> QED
  BY <1>1, <1>2, <1>3, <1>4, <1>6, <1>7, <1>8, <1>9, <1>10, <1>11, <1>12 DEF InState

LEMMA NextState == InState'
BY State, PTL

-----------------------------------------------------------------------------
(* The inductive invariant.                                                *)

TypesOf(nt, ns) ==
  {IntType} \cup {Name(k) : k \in 1 .. nt} \cup {PointerTo(Name(k)) : k \in 1 .. nt}
  \cup {Struct(s) : s \in 1 .. ns} \cup {PointerTo(Struct(s)) : s \in 1 .. ns}
FieldsOf(nt, ns) == [name : Names, type : TypesOf(nt, ns), anon : BOOLEAN]

(* A name is declared for a type of structs and names that are there; so   *)
(* names of names end.                                                     *)
Declared(ts, ns) ==
  /\ ts \in Seq(TypesOf(Len(ts), ns))
  /\ \A k \in 1 .. Len(ts) : ts[k].kind = "name" => ts[k].of < k

TypesInv ==
  /\ source \in Sources /\ uses \in Nat
  /\ Declared(types, Len(structs)) /\ Len(types) <= source.types
  /\ variable \in SUBSET TypesOf(Len(types), Len(structs))

(* The structs being parsed are nested, and the one just parsed was in the *)
(* innermost; no type that has a name is among them.                       *)
OpenInv ==
  /\ open \in Seq(1 .. Len(structs)) /\ made \in 0 .. Len(structs)
  /\ \A i, j \in 1 .. Len(open) : i < j => open[j] < open[i]
  /\ made # 0 => \A i \in 1 .. Len(open) : open[i] < made
  /\ \A i \in 1 .. Len(open), k \in 1 .. Len(types) : StructIn(Name(k), types) < open[i]

(* An embedded field is the only one of its FieldSpec and embeds a struct  *)
(* declared before; a struct that a field is declared with comes after and *)
(* has its type; and fields have different names.                          *)
FieldOK(s, m, f) ==
  /\ f \in FieldsOf(Len(types), Len(structs))
  /\ f.anon => m[2] = 1 /\ f.type.named /\ StructIn(Pointed(f.type), types) < s
  /\ f.type.kind \in {"struct", "pointer"} /\ ~ f.type.named =>
       s < f.type.of /\ f.type.of \notin ToSet(open) /\ canon[f.type.of] # 0
FieldsInv ==
  /\ structs \in Seq(Seq(Seq(FieldsOf(Len(types), Len(structs)))))
  /\ \A s \in 1 .. Len(structs) : \A m \in ToSet(Places(structs[s])) :
       FieldOK(s, m, At(structs[s], m))
  /\ \A s \in 1 .. Len(structs) : \A m, k \in ToSet(Places(structs[s])) :
       At(structs[s], m).name = At(structs[s], k).name => m = k

(* What is in a table is what the list has; a table that is not there and  *)
(* is not to be built is one of no members.                                *)
Tables == [lazy : BOOLEAN, exists : BOOLEAN, map : [Names -> Seq(Nat \X Nat)]]
TableOK(t, specs) ==
  /\ t \in Tables
  /\ ~ t.lazy => t.map = [n \in Names |-> NamedIn(specs, n)]
  /\ ~ t.exists /\ ~ t.lazy => ToSet(Places(specs)) = {}
TablesInv ==
  /\ tables \in Seq(Tables) /\ Len(tables) = Len(structs)
  /\ \A s \in 1 .. Len(structs) : TableOK(tables[s], structs[s])

(* A struct that has its type is complete; its canonical struct has its    *)
(* profile, and no two canonical structs have one profile.                 *)
CanonOK(cs, ss, op) ==
  /\ cs \in Seq(0 .. Len(ss)) /\ Len(cs) = Len(ss)
  /\ \A s \in 1 .. Len(ss) : cs[s] # 0 =>
       /\ s \notin ToSet(op)
       /\ cs[cs[s]] = cs[s]
       /\ ProfileIn(ss[cs[s]], cs) = ProfileIn(ss[s], cs)
  /\ \A r, s \in 1 .. Len(ss) :
       cs[r] = r /\ cs[s] = s /\ ProfileIn(ss[r], cs) = ProfileIn(ss[s], cs) => r = s
CanonInv == CanonOK(canon, structs, open)

-----------------------------------------------------------------------------
(* Names of names.                                                         *)

LEMMA TypesOfIs ==
  ASSUME NEW nt, NEW ns, NEW t \in TypesOf(nt, ns)
  PROVE  /\ t.kind \in {"int", "name", "struct", "pointer"}
         /\ t.kind = "int" => t = IntType
         /\ t.kind = "name" => t.of \in 1 .. nt /\ t = Name(t.of)
         /\ t.kind = "struct" => t.of \in 1 .. ns /\ t = Struct(t.of)
         /\ t.kind = "pointer" /\ t.named => t.of \in 1 .. nt /\ t = PointerTo(Name(t.of))
         /\ t.kind = "pointer" /\ ~ t.named => t.of \in 1 .. ns /\ t = PointerTo(Struct(t.of))
         /\ t.kind # "pointer" => (t.named <=> t.kind = "name")
         /\ t.named \in BOOLEAN
<1>1. CASE t = IntType
  BY <1>1 DEF IntType
<1>2. ASSUME NEW k \in 1 .. nt, t = Name(k)
      PROVE  t.kind = "name" /\ t.of = k /\ t.named = TRUE
  BY <1>2 DEF Name
<1>3. ASSUME NEW k \in 1 .. nt, t = PointerTo(Name(k))
      PROVE  t.kind = "pointer" /\ t.of = k /\ t.named = TRUE
  BY <1>3 DEF Name, PointerTo
<1>4. ASSUME NEW s \in 1 .. ns, t = Struct(s)
      PROVE  t.kind = "struct" /\ t.of = s /\ t.named = FALSE
  BY <1>4 DEF Struct
<1>5. ASSUME NEW s \in 1 .. ns, t = PointerTo(Struct(s))
      PROVE  t.kind = "pointer" /\ t.of = s /\ t.named = FALSE
  BY <1>5 DEF Struct, PointerTo
<1>6. \/ t = IntType \/ \E k \in 1 .. nt : t = Name(k)
      \/ \E k \in 1 .. nt : t = PointerTo(Name(k))
      \/ \E s \in 1 .. ns : t = Struct(s)
      \/ \E s \in 1 .. ns : t = PointerTo(Struct(s))
  BY DEF TypesOf
<1> QED
  BY <1>1, <1>2, <1>3, <1>4, <1>5, <1>6

LEMMA TypesGrow ==
  ASSUME NEW nt \in Nat, NEW ns \in Nat, NEW mt \in Nat, NEW ms \in Nat, nt <= mt, ns <= ms
  PROVE  TypesOf(nt, ns) \subseteq TypesOf(mt, ms)
<1>1. 1 .. nt \subseteq 1 .. mt /\ 1 .. ns \subseteq 1 .. ms
  OBVIOUS
<1> QED
  BY <1>1 DEF TypesOf

IsRes(f, ts) == f = [k \in DOMAIN ts |-> IF ts[k].kind = "name" THEN f[ts[k].of] ELSE ts[k]]
Ends(ts) == \A k \in 1 .. Len(ts) : ts[k].kind = "name" => ts[k].of \in 1 .. k - 1

LEMMA ResolvedIs ==
  ASSUME NEW t, NEW ts
  PROVE  Resolved(t, ts) = IF t.kind = "name" THEN (CHOOSE f : IsRes(f, ts))[t.of] ELSE t
BY DEF Resolved, IsRes

LEMMA ResExists ==
  ASSUME NEW S, NEW ts \in Seq(S), Ends(ts)
  PROVE  \E f : IsRes(f, ts)
<1> DEFINE Bad == {n \in Nat : \E t \in Seq(S) : Len(t) = n /\ Ends(t) /\ ~ \E f : IsRes(f, t)}
<1>1. ASSUME Bad # {} PROVE FALSE
  <2>1. PICK n \in Bad : \A m \in Bad : n <= m
    <3> HIDE DEF Bad
    <3>1. Bad \in SUBSET Nat
      BY DEF Bad
    <3> QED
      BY <1>1, <3>1, LeastElement
  <2>2. PICK t \in Seq(S) : Len(t) = n /\ Ends(t) /\ ~ \E f : IsRes(f, t)
    BY <2>1
  <2>3. DOMAIN t = 1 .. n /\ n \in Nat
    BY <2>1, <2>2, LenProperties
  <2>4. CASE n = 0
    <3>1. << >> = [k \in DOMAIN t |-> IF t[k].kind = "name" THEN << >>[t[k].of] ELSE t[k]]
      BY <2>3, <2>4
    <3>2. IsRes(<< >>, t)
      BY <3>1 DEF IsRes
    <3> QED
      BY <2>2, <3>2
  <2>5. CASE n # 0
    <3>1. PICK u \in Seq(S), x \in S :
            /\ t = Append(u, x) /\ Len(u) \in Nat
            /\ Len(t) = Len(u) + 1 /\ t[Len(u) + 1] = x
            /\ \A i \in 1 .. Len(u) : t[i] = u[i]
      BY <2>2, <2>5, LastItem
    <3>2. Len(u) = n - 1 /\ DOMAIN u = 1 .. n - 1 /\ \A i \in 1 .. n - 1 : i \in 1 .. n
      BY <2>2, <2>3, <3>1, LenProperties
    <3>3. Ends(u)
      BY <2>2, <3>1, <3>2 DEF Ends
    <3>4. Len(u) \notin Bad
      <4> HIDE DEF Bad
      <4> QED
        BY <2>1, <2>3, <3>1, <3>2
    <3>5. PICK g : IsRes(g, u)
      BY <3>1, <3>3, <3>4
    <3> DEFINE f == [k \in 1 .. n |-> IF k = n THEN (IF t[n].kind = "name" THEN g[t[n].of] ELSE t[n])
                                      ELSE g[k]]
    <3>6. \A k \in 1 .. n - 1 : f[k] = g[k]
      BY <2>3, <3>2
    <3>7. ASSUME NEW k \in 1 .. n
          PROVE  f[k] = IF t[k].kind = "name" THEN f[t[k].of] ELSE t[k]
      <4>1. t[k].kind = "name" => t[k].of \in 1 .. k - 1 /\ t[k].of \in 1 .. n - 1
        BY <2>2, <2>3 DEF Ends
      <4>2. CASE k = n
        <5>1. f[n] = IF t[n].kind = "name" THEN g[t[n].of] ELSE t[n]
          BY <4>2
        <5> HIDE DEF f
        <5> QED
          BY <3>6, <4>1, <4>2, <5>1
      <4>3. CASE k # n
        <5>1. k \in 1 .. n - 1
          BY <2>3, <4>3
        <5>2. g[k] = IF u[k].kind = "name" THEN g[u[k].of] ELSE u[k]
          BY <3>2, <3>5, <5>1 DEF IsRes
        <5> HIDE DEF f
        <5> QED
          BY <3>1, <3>2, <3>6, <4>1, <5>1, <5>2
      <4> QED
        BY <4>2, <4>3
    <3>8. IsRes(f, t)
      <4>1. f = [k \in 1 .. n |-> f[k]]
        OBVIOUS
      <4> HIDE DEF f
      <4> QED
        BY <2>3, <3>7, <4>1 DEF IsRes
    <3> QED
      BY <2>2, <3>8
  <2> QED
    BY <2>4, <2>5
<1>2. Len(ts) \in Nat
  OBVIOUS
<1> QED
  BY <1>1, <1>2

LEMMA ResAgree ==
  ASSUME NEW S, NEW ts \in Seq(S), NEW us \in Seq(S), NEW f, NEW g,
         IsRes(f, ts), IsRes(g, us), Len(ts) <= Len(us), Ends(ts),
         \A i \in 1 .. Len(ts) : ts[i] = us[i]
  PROVE  \A k \in 1 .. Len(ts) : /\ f[k] = g[k]
                                 /\ \E i \in 1 .. Len(ts) : f[k] = ts[i] /\ ts[i].kind # "name"
<1> DEFINE Right(k) == f[k] = g[k] /\ \E i \in 1 .. Len(ts) : f[k] = ts[i] /\ ts[i].kind # "name"
           Bad      == {k \in 1 .. Len(ts) : ~ Right(k)}
<1>1. DOMAIN ts = 1 .. Len(ts) /\ DOMAIN us = 1 .. Len(us) /\ Len(ts) \in Nat /\ Len(us) \in Nat
  BY LenProperties
<1>2. ASSUME Bad # {} PROVE FALSE
  <2>1. PICK k \in Bad : \A m \in Bad : k <= m
    <3>1. Bad \in SUBSET Nat
      BY <1>1
    <3> HIDE DEF Bad
    <3> QED
      BY <1>2, <3>1, LeastElement
  <2>2. k \in 1 .. Len(ts) /\ k \in 1 .. Len(us) /\ ~ Right(k)
    BY <1>1, <2>1
  <2>3. /\ f[k] = IF ts[k].kind = "name" THEN f[ts[k].of] ELSE ts[k]
        /\ g[k] = IF ts[k].kind = "name" THEN g[ts[k].of] ELSE ts[k]
    BY <1>1, <2>2 DEF IsRes
  <2>4. CASE ts[k].kind = "name"
    <3>1. PICK j \in 1 .. Len(ts) : j = ts[k].of /\ ~(k <= j)
      <4>1. ts[k].of \in 1 .. k - 1
        BY <2>2, <2>4 DEF Ends
      <4> QED
        BY <1>1, <2>2, <4>1
    <3>2. j \notin Bad
      <4> HIDE DEF Bad
      <4> QED
        BY <2>1, <3>1
    <3>3. Right(j)
      BY <3>2
    <3> QED
      BY <2>2, <2>3, <2>4, <3>1, <3>3
  <2>5. CASE ts[k].kind # "name"
    BY <2>2, <2>3, <2>5
  <2> QED
    BY <2>4, <2>5
<1> QED
  BY <1>2

(* A type resolves to one that is no name; more names do not change it.    *)
LEMMA DeclaredEnds ==
  ASSUME NEW ts, NEW ns, Declared(ts, ns)
  PROVE  /\ ts \in Seq(TypesOf(Len(ts), ns)) /\ Len(ts) \in Nat /\ Ends(ts)
         /\ \A k \in 1 .. Len(ts) : ts[k] \in TypesOf(Len(ts), ns)
<1>1. /\ ts \in Seq(TypesOf(Len(ts), ns)) /\ Len(ts) \in Nat
      /\ \A k \in 1 .. Len(ts) : ts[k] \in TypesOf(Len(ts), ns)
      /\ \A k \in 1 .. Len(ts) : ts[k].kind = "name" => ts[k].of < k
  BY LenProperties, ElementOfSeq DEF Declared
<1>2. ASSUME NEW k \in 1 .. Len(ts), ts[k].kind = "name" PROVE ts[k].of \in 1 .. k - 1
  <2>1. ts[k].of \in 1 .. Len(ts) /\ ts[k].of < k
    BY <1>1, <1>2, TypesOfIs
  <2> QED
    BY <1>1, <2>1
<1> QED
  BY <1>1, <1>2 DEF Ends

LEMMA ResolvedTypes ==
  ASSUME NEW ts, NEW ns \in Nat, Declared(ts, ns), NEW t \in TypesOf(Len(ts), ns)
  PROVE  /\ Resolved(t, ts) \in TypesOf(Len(ts), ns) /\ Resolved(t, ts).kind # "name"
         /\ StructIn(t, ts) \in 0 .. ns
<1>1. /\ ts \in Seq(TypesOf(Len(ts), ns)) /\ Len(ts) \in Nat /\ Ends(ts)
      /\ \A k \in 1 .. Len(ts) : ts[k] \in TypesOf(Len(ts), ns)
  BY DeclaredEnds
<1>2. Resolved(t, ts) \in TypesOf(Len(ts), ns) /\ Resolved(t, ts).kind # "name"
  <2>1. CASE t.kind = "name"
    <3>1. PICK f : f = CHOOSE g : IsRes(g, ts)
      OBVIOUS
    <3>2. IsRes(f, ts)
      BY <1>1, <3>1, ResExists
    <3>3. t.of \in 1 .. Len(ts) /\ Len(ts) <= Len(ts)
      BY <1>1, <2>1, TypesOfIs
    <3>4. \E i \in 1 .. Len(ts) : f[t.of] = ts[i] /\ ts[i].kind # "name"
      BY <1>1, <3>2, <3>3, ResAgree
    <3>5. Resolved(t, ts) = f[t.of]
      BY <2>1, <3>1, ResolvedIs
    <3> QED
      BY <1>1, <3>4, <3>5
  <2>2. CASE t.kind # "name"
    BY <2>2, ResolvedIs
  <2> QED
    BY <2>1, <2>2
<1>3. Resolved(t, ts).kind = "struct" => Resolved(t, ts).of \in 1 .. ns
  BY <1>2, TypesOfIs
<1> QED
  BY <1>2, <1>3 DEF StructIn

LEMMA ResolvedAppend ==
  ASSUME NEW ts, NEW ns \in Nat, Declared(ts, ns), NEW u \in TypesOf(Len(ts), ns),
         NEW t \in TypesOf(Len(ts), ns)
  PROVE  /\ Declared(Append(ts, u), ns)
         /\ Resolved(t, Append(ts, u)) = Resolved(t, ts)
         /\ StructIn(t, Append(ts, u)) = StructIn(t, ts)
<1>1. /\ ts \in Seq(TypesOf(Len(ts), ns)) /\ Len(ts) \in Nat /\ Ends(ts)
      /\ \A k \in 1 .. Len(ts) : ts[k] \in TypesOf(Len(ts), ns)
  BY DeclaredEnds
<1>2. PICK us : us = Append(ts, u)
  OBVIOUS
<1>3. PICK n \in Nat : n = Len(ts)
  BY <1>1
<1>4. /\ us \in Seq(TypesOf(n, ns)) /\ Len(us) = n + 1 /\ us[n + 1] = u
      /\ \A k \in 1 .. n : us[k] = ts[k]
  BY <1>1, <1>2, <1>3, AppendProperties
<1>5. Declared(us, ns)
  <2>1. TypesOf(n, ns) \subseteq TypesOf(n + 1, ns)
    BY TypesGrow
  <2>2. us \in Seq(TypesOf(n + 1, ns))
    BY <1>4, <2>1, SeqMonotonic
  <2>3. ASSUME NEW k \in 1 .. n + 1, us[k].kind = "name" PROVE us[k].of < k
    <3>1. CASE k = n + 1
      <4>1. u.of \in 1 .. n
        BY <1>3, <1>4, <2>3, <3>1, TypesOfIs
      <4> QED
        BY <1>4, <3>1, <4>1
    <3>2. CASE k # n + 1
      <4>1. k \in 1 .. n
        BY <3>2
      <4> QED
        BY <1>3, <1>4, <2>3, <4>1 DEF Declared
    <3> QED
      BY <3>1, <3>2
  <2> QED
    BY <1>4, <2>2, <2>3 DEF Declared
<1>6. Resolved(t, us) = Resolved(t, ts)
  <2>1. CASE t.kind = "name"
    <3>1. PICK f : f = CHOOSE g : IsRes(g, ts)
      OBVIOUS
    <3>2. PICK g : g = CHOOSE h : IsRes(h, us)
      OBVIOUS
    <3>3. IsRes(f, ts)
      BY <1>1, <3>1, ResExists
    <3>4. IsRes(g, us)
      <4>1. Ends(us)
        BY <1>5, DeclaredEnds
      <4> QED
        BY <1>4, <3>2, <4>1, ResExists
    <3>5. t.of \in 1 .. n /\ n <= n + 1
      BY <1>3, <2>1, TypesOfIs
    <3>6. \A k \in 1 .. n : f[k] = g[k]
      <4>1. ts \in Seq(TypesOf(n, ns)) /\ Len(ts) = n /\ Ends(ts)
        BY <1>1, <1>3
      <4>2. \A k \in 1 .. n : ts[k] = us[k]
        BY <1>4
      <4> QED
        BY <1>4, <3>3, <3>4, <3>5, <4>1, <4>2, ResAgree
    <3>7. Resolved(t, ts) = f[t.of] /\ Resolved(t, us) = g[t.of]
      BY <2>1, <3>1, <3>2, ResolvedIs
    <3> QED
      BY <3>5, <3>6, <3>7
  <2>2. CASE t.kind # "name"
    BY <2>2, ResolvedIs
  <2> QED
    BY <2>1, <2>2
<1> QED
  BY <1>2, <1>5, <1>6 DEF StructIn

-----------------------------------------------------------------------------
(* The places of the members of a list.                                    *)

IsPlace(specs, m) == /\ m \in Nat \X Nat
                     /\ m[1] \in 1 .. Len(specs) /\ m[2] \in 1 .. Len(specs[m[1]])

LEMMA PiecesAre ==
  ASSUME NEW F, NEW specs \in Seq(Seq(F))
  PROVE  /\ Pieces(specs) \in Seq(Seq(Nat \X Nat)) /\ Len(Pieces(specs)) = Len(specs)
         /\ Apart(Pieces(specs))
         /\ \A i \in 1 .. Len(specs) :
              /\ ToSet(Pieces(specs)[i]) = {<<i, j>> : j \in 1 .. Len(specs[i])}
              /\ IsInjective(Pieces(specs)[i])
<1>1. /\ Len(specs) \in Nat /\ DOMAIN specs = 1 .. Len(specs)
      /\ \A i \in 1 .. Len(specs) : specs[i] \in Seq(F)
  BY LenProperties, ElementOfSeq
<1>2. \A i \in 1 .. Len(specs) : Len(specs[i]) \in Nat /\ DOMAIN specs[i] = 1 .. Len(specs[i])
  BY <1>1, LenProperties
<1>3. PICK ps : ps = Pieces(specs)
  OBVIOUS
<1>4. /\ ps = [i \in 1 .. Len(specs) |-> ps[i]]
      /\ \A i \in 1 .. Len(specs) : ps[i] = [j \in 1 .. Len(specs[i]) |-> <<i, j>>]
  BY <1>1, <1>2, <1>3 DEF Pieces
<1>5. ASSUME NEW i \in 1 .. Len(specs)
      PROVE  /\ ps[i] \in Seq(Nat \X Nat) /\ IsInjective(ps[i])
             /\ ToSet(ps[i]) = {<<i, j>> : j \in 1 .. Len(specs[i])}
  <2>1. i \in Nat /\ ps[i] = [j \in 1 .. Len(specs[i]) |-> <<i, j>>]
    BY <1>1, <1>4
  <2>2. PICK n \in Nat : n = Len(specs[i])
    BY <1>2
  <2>3. ps[i] \in [1 .. n -> Nat \X Nat]
    BY <2>1, <2>2
  <2>4. ps[i] \in Seq(Nat \X Nat)
    BY <2>3, IsASeq
  <2>5. DOMAIN ps[i] = 1 .. n /\ \A j \in 1 .. n : ps[i][j] = <<i, j>>
    BY <2>1, <2>2
  <2>6. IsInjective(ps[i])
    BY <2>5 DEF IsInjective
  <2>7. ToSet(ps[i]) = {<<i, j>> : j \in 1 .. n}
    BY <2>5 DEF ToSet
  <2> QED
    BY <2>2, <2>4, <2>6, <2>7
<1>6. ps \in Seq(Seq(Nat \X Nat)) /\ Len(ps) = Len(specs)
  <2>1. PICK n \in Nat : n = Len(specs)
    BY <1>1
  <2>2. ps \in [1 .. n -> Seq(Nat \X Nat)]
    BY <1>4, <1>5, <2>1
  <2>3. ps \in Seq(Seq(Nat \X Nat)) /\ Len(ps) = n
    BY <2>2, IsASeq, LenProperties
  <2> QED
    BY <2>1, <2>3
<1>7. Apart(ps)
  <2>1. ASSUME NEW i \in 1 .. Len(specs), NEW j \in 1 .. Len(specs), i # j
        PROVE  ToSet(ps[i]) \cap ToSet(ps[j]) = {}
    <3>1. \A x \in ToSet(ps[i]) : x[1] = i
      BY <1>5
    <3>2. \A x \in ToSet(ps[j]) : x[1] = j
      BY <1>5
    <3> QED
      BY <2>1, <3>1, <3>2
  <2> QED
    BY <1>5, <1>6, <2>1 DEF Apart
<1> QED
  BY <1>3, <1>5, <1>6, <1>7

LEMMA PlacesAre ==
  ASSUME NEW F, NEW specs \in Seq(Seq(F))
  PROVE  /\ Places(specs) \in Seq(Nat \X Nat) /\ IsInjective(Places(specs))
         /\ \A m : m \in ToSet(Places(specs)) <=> IsPlace(specs, m)
         /\ \A m \in ToSet(Places(specs)) : At(specs, m) \in F
<1>1. PICK ps : ps = Pieces(specs)
  OBVIOUS
<1>2. /\ ps \in Seq(Seq(Nat \X Nat)) /\ Len(ps) = Len(specs) /\ Apart(ps)
      /\ \A i \in 1 .. Len(specs) : ToSet(ps[i]) = {<<i, j>> : j \in 1 .. Len(specs[i])}
  BY <1>1, PiecesAre
<1>3. Places(specs) = FlattenSeq(ps)
  BY <1>1 DEF Places
<1>4. Places(specs) \in Seq(Nat \X Nat) /\ IsInjective(Places(specs))
  BY <1>2, <1>3, FlattenType, FlattenDistinct
<1>5. ToSet(Places(specs)) = UNION {ToSet(ps[i]) : i \in 1 .. Len(ps)}
  BY <1>2, <1>3, FlattenRange
<1>6. \A i \in 1 .. Len(specs) : specs[i] \in Seq(F) /\ Len(specs[i]) \in Nat
  BY LenProperties, ElementOfSeq
<1>7. Len(specs) \in Nat
  BY LenProperties
<1>8. ASSUME NEW m \in ToSet(Places(specs)) PROVE IsPlace(specs, m) /\ At(specs, m) \in F
  <2>1. PICK i \in 1 .. Len(specs) : m \in ToSet(ps[i])
    BY <1>2, <1>5
  <2>2. PICK j \in 1 .. Len(specs[i]) : m = <<i, j>>
    BY <1>2, <2>1
  <2>3. i \in Nat /\ j \in Nat /\ m[1] = i /\ m[2] = j
    BY <1>6, <1>7, <2>2
  <2>4. specs[i][j] \in F
    BY <1>6, ElementOfSeq
  <2> QED
    BY <2>2, <2>3, <2>4 DEF IsPlace, At
<1>9. ASSUME NEW m, IsPlace(specs, m) PROVE m \in ToSet(Places(specs))
  <2>1. m = <<m[1], m[2]>> /\ m[1] \in 1 .. Len(specs) /\ m[2] \in 1 .. Len(specs[m[1]])
    BY <1>9 DEF IsPlace
  <2>2. m \in ToSet(ps[m[1]])
    BY <1>2, <2>1
  <2> QED
    BY <1>2, <1>5, <2>1, <2>2
<1> QED
  BY <1>4, <1>8, <1>9

(* A FieldSpec at the end adds its fields at the end.                      *)
NewPlaces(specs, new) == [j \in DOMAIN new |-> <<Len(specs) + 1, j>>]

LEMMA PlacesAppend ==
  ASSUME NEW F, NEW specs \in Seq(Seq(F)), NEW new \in Seq(F)
  PROVE  /\ Places(Append(specs, new)) = Places(specs) \o NewPlaces(specs, new)
         /\ NewPlaces(specs, new) \in Seq(Nat \X Nat)
         /\ Len(NewPlaces(specs, new)) = Len(new)
         /\ \A m \in ToSet(Places(specs)) : At(Append(specs, new), m) = At(specs, m)
         /\ \A j \in 1 .. Len(new) : At(Append(specs, new), <<Len(specs) + 1, j>>) = new[j]
         /\ \A m : m \in ToSet(Places(Append(specs, new))) <=>
                     \/ m \in ToSet(Places(specs))
                     \/ \E j \in 1 .. Len(new) : m = <<Len(specs) + 1, j>>
<1>1. PICK n \in Nat : n = Len(specs)
  BY LenProperties
<1>2. PICK more : more = Append(specs, new)
  OBVIOUS
<1>3. /\ more \in Seq(Seq(F)) /\ Len(more) = n + 1 /\ more[n + 1] = new
      /\ \A i \in 1 .. n : more[i] = specs[i]
  BY <1>1, <1>2, AppendProperties
<1>4. DOMAIN specs = 1 .. n /\ DOMAIN more = 1 .. n + 1 /\ Len(new) \in Nat /\ DOMAIN new = 1 .. Len(new)
  BY <1>1, <1>3, LenProperties
<1>5. PICK ps : ps = Pieces(specs)
  OBVIOUS
<1>6. PICK qs : qs = Pieces(more)
  OBVIOUS
<1>7. /\ ps \in Seq(Seq(Nat \X Nat)) /\ Len(ps) = n
      /\ qs \in Seq(Seq(Nat \X Nat)) /\ Len(qs) = n + 1
  BY <1>1, <1>3, <1>5, <1>6, PiecesAre
<1>8. PICK np : np = NewPlaces(specs, new)
  OBVIOUS
<1>9. np = [j \in DOMAIN new |-> <<n + 1, j>>]
  BY <1>1, <1>8 DEF NewPlaces
<1>10. np \in Seq(Nat \X Nat) /\ Len(np) = Len(new)
  <2>1. np \in [1 .. Len(new) -> Nat \X Nat]
    BY <1>4, <1>9
  <2> QED
    BY <1>4, <2>1, IsASeq, LenProperties
<1>11. qs = Append(ps, np)
  <2>1. PICK rs : rs = Append(ps, np)
    OBVIOUS
  <2>2. /\ rs \in Seq(Seq(Nat \X Nat)) /\ Len(rs) = n + 1 /\ rs[n + 1] = np
        /\ \A i \in 1 .. n : rs[i] = ps[i]
    BY <1>7, <1>10, <2>1, AppendProperties
  <2>3. \A i \in 1 .. n : ps[i] = [j \in DOMAIN specs[i] |-> <<i, j>>]
    BY <1>4, <1>5 DEF Pieces
  <2>4. \A i \in 1 .. n + 1 : qs[i] = [j \in DOMAIN more[i] |-> <<i, j>>]
    BY <1>4, <1>6 DEF Pieces
  <2>5. ASSUME NEW i \in 1 .. n + 1 PROVE qs[i] = rs[i]
    <3>1. CASE i = n + 1
      BY <1>3, <1>9, <2>2, <2>4, <3>1
    <3>2. CASE i # n + 1
      <4>1. i \in 1 .. n
        BY <3>2
      <4> QED
        BY <1>3, <2>2, <2>3, <2>4, <4>1
    <3> QED
      BY <3>1, <3>2
  <2>6. qs = rs
    BY <1>7, <2>2, <2>5, SeqEqual
  <2> QED
    BY <2>1, <2>6
<1>12. Places(more) = Places(specs) \o np
  BY <1>5, <1>6, <1>7, <1>10, <1>11, FlattenAppend DEF Places
<1>13. ASSUME NEW m \in ToSet(Places(specs)) PROVE At(more, m) = At(specs, m)
  <2>1. m[1] \in 1 .. n
    BY <1>1, PlacesAre DEF IsPlace
  <2> QED
    BY <1>3, <2>1 DEF At
<1>14. ASSUME NEW j \in 1 .. Len(new) PROVE At(more, <<n + 1, j>>) = new[j]
  BY <1>3 DEF At
<1>15. ASSUME NEW m
       PROVE  m \in ToSet(Places(more)) <=>
                m \in ToSet(Places(specs)) \/ \E j \in 1 .. Len(new) : m = <<n + 1, j>>
  <2>1. ToSet(Places(more)) = ToSet(Places(specs)) \cup ToSet(np)
    BY <1>10, <1>12, PlacesAre, RangeOfConcat
  <2>2. ToSet(np) = {<<n + 1, j>> : j \in 1 .. Len(new)}
    BY <1>4, <1>9 DEF ToSet
  <2> QED
    BY <2>1, <2>2
<1> QED
  BY <1>1, <1>2, <1>8, <1>10, <1>12, <1>13, <1>14, <1>15

LEMMA NamedAre ==
  ASSUME NEW F, NEW specs \in Seq(Seq(F)), NEW n
  PROVE  /\ NamedIn(specs, n) \in Seq(Nat \X Nat) /\ IsInjective(NamedIn(specs, n))
         /\ \A m : m \in ToSet(NamedIn(specs, n)) <=>
                     m \in ToSet(Places(specs)) /\ At(specs, m).name = n
<1>1. PICK ps : ps = Places(specs)
  OBVIOUS
<1>2. ps \in Seq(Nat \X Nat) /\ IsInjective(ps)
  BY <1>1, PlacesAre
<1>3. PICK T : T = {m \in ToSet(ps) : At(specs, m).name = n}
  OBVIOUS
<1>4. NamedIn(specs, n) = Among(ps, T)
  BY <1>1, <1>3 DEF NamedIn
<1>5. ToSet(Among(ps, T)) = ToSet(ps) \cap T
  BY <1>2, AmongRange
<1>6. Among(ps, T) \in Seq(Nat \X Nat) /\ IsInjective(Among(ps, T))
  BY <1>2, AmongType, AmongDistinct
<1> QED
  BY <1>1, <1>3, <1>4, <1>5, <1>6

Called(specs, places, n) == {m \in ToSet(places) : At(specs, m).name = n}

LEMMA NamedAppend ==
  ASSUME NEW F, NEW specs \in Seq(Seq(F)), NEW new \in Seq(F), NEW n
  PROVE  NamedIn(Append(specs, new), n) =
           NamedIn(specs, n) \o
             Among(NewPlaces(specs, new), Called(Append(specs, new), NewPlaces(specs, new), n))
<1>1. PICK more : more = Append(specs, new)
  OBVIOUS
<1>2. PICK np : np = NewPlaces(specs, new)
  OBVIOUS
<1>3. PICK ps : ps = Places(specs)
  OBVIOUS
<1>4. PICK qs : qs = Places(more)
  OBVIOUS
<1>5. /\ qs = ps \o np /\ np \in Seq(Nat \X Nat) /\ ps \in Seq(Nat \X Nat)
      /\ \A m \in ToSet(ps) : At(more, m) = At(specs, m)
  BY <1>1, <1>2, <1>3, <1>4, PlacesAppend, PlacesAre
<1> DEFINE U == {m \in ToSet(qs) : At(more, m).name = n}
           T == {m \in ToSet(ps) : At(specs, m).name = n}
           V == {m \in ToSet(np) : At(more, m).name = n}
<1>6. ToSet(qs) = ToSet(ps) \cup ToSet(np)
  BY <1>5, RangeOfConcat
<1>7. \A m \in ToSet(ps) : m \in U <=> m \in T
  BY <1>5, <1>6
<1>8. \A m \in ToSet(np) : m \in U <=> m \in V
  BY <1>6
<1>9. NamedIn(more, n) = Among(qs, U) /\ NamedIn(specs, n) = Among(ps, T)
  BY <1>3, <1>4 DEF NamedIn
<1> HIDE DEF U, T, V
<1>10. Among(qs, U) = Among(ps, U) \o Among(np, U)
  BY <1>5, AmongConcat
<1>11. Among(ps, U) = Among(ps, T)
  BY <1>5, <1>7, AmongSame
<1>12. Among(np, U) = Among(np, V)
  BY <1>5, <1>8, AmongSame
<1> QED
  BY <1>1, <1>2, <1>9, <1>10, <1>11, <1>12 DEF V, Called

(* A sequence without repetitions of one item, or of none.                 *)
LEMMA AtMostOne ==
  ASSUME NEW S, NEW t \in Seq(S), IsInjective(t)
  PROVE  /\ (t = << >>) <=> (ToSet(t) = {})
         /\ \A x : ToSet(t) = {x} => t = <<x>> /\ Len(t) = 1 /\ t[1] = x
         /\ Len(t) > 1 => \E x, y \in ToSet(t) : x # y
         /\ \A x, y \in ToSet(t) : x # y => Len(t) > 1
<1>1. /\ Len(t) \in Nat /\ DOMAIN t = 1 .. Len(t)
      /\ \A i \in 1 .. Len(t) : t[i] \in ToSet(t)
      /\ \A x \in ToSet(t) : \E i \in 1 .. Len(t) : x = t[i]
      /\ \A i, j \in 1 .. Len(t) : t[i] = t[j] => i = j
  BY LenProperties DEF ToSet, IsInjective
<1>2. (t = << >>) <=> (Len(t) = 0)
  BY EmptySeq
<1>3. (t = << >>) <=> (ToSet(t) = {})
  <2>1. Len(t) # 0 => 1 \in 1 .. Len(t)
    BY <1>1
  <2> QED
    BY <1>1, <1>2, <2>1
<1>4. ASSUME NEW x, ToSet(t) = {x} PROVE t = <<x>> /\ Len(t) = 1 /\ t[1] = x
  <2>1. Len(t) # 0
    BY <1>2, <1>3, <1>4
  <2>2. 1 \in 1 .. Len(t)
    BY <1>1, <2>1
  <2>3. t[1] = x
    BY <1>1, <1>4, <2>2
  <2>4. ASSUME Len(t) > 1 PROVE FALSE
    <3>1. 2 \in 1 .. Len(t)
      BY <1>1, <2>4
    <3>2. t[2] = x
      BY <1>1, <1>4, <3>1
    <3> QED
      BY <1>1, <2>2, <2>3, <3>1, <3>2
  <2>5. Len(t) = 1
    BY <1>1, <2>1, <2>4
  <2>6. x \in S
    BY <2>2, <2>3, ElementOfSeq
  <2>7. t = <<x>>
    <3>1. <<x>> \in Seq(S) /\ Len(<<x>>) = 1 /\ <<x>>[1] = x
      BY <2>6
    <3>2. PICK u \in Seq(S) : u = <<x>>
      BY <3>1
    <3>3. Len(u) = 1 /\ u[1] = x
      BY <3>1, <3>2
    <3>4. t = u
      BY <2>3, <2>5, <3>3, SeqEqual
    <3> QED
      BY <3>2, <3>4
  <2> QED
    BY <2>3, <2>5, <2>7
<1>5. ASSUME Len(t) > 1 PROVE \E x, y \in ToSet(t) : x # y
  <2>1. 1 \in 1 .. Len(t) /\ 2 \in 1 .. Len(t) /\ 1 # 2
    BY <1>1, <1>5
  <2>2. t[1] \in ToSet(t) /\ t[2] \in ToSet(t) /\ t[1] # t[2]
    BY <1>1, <2>1
  <2> QED
    BY <2>2
<1>6. ASSUME NEW x \in ToSet(t), NEW y \in ToSet(t), x # y PROVE Len(t) > 1
  <2>1. PICK i \in 1 .. Len(t) : x = t[i]
    BY <1>1
  <2>2. PICK j \in 1 .. Len(t) : y = t[j]
    BY <1>1
  <2>3. i # j
    BY <1>6, <2>1, <2>2
  <2> QED
    BY <1>1, <2>3
<1> QED
  BY <1>3, <1>4, <1>5, <1>6

NamesApart(specs) ==
  \A m, k \in ToSet(Places(specs)) : At(specs, m).name = At(specs, k).name => m = k

LEMMA NamedOne ==
  ASSUME NEW F, NEW specs \in Seq(Seq(F)), NEW n, NamesApart(specs)
  PROVE  /\ Len(NamedIn(specs, n)) <= 1
         /\ NamedIn(specs, n) # << >> =>
              \E m \in ToSet(Places(specs)) :
                 /\ At(specs, m).name = n
                 /\ ToSet(NamedIn(specs, n)) = {m} /\ NamedIn(specs, n) = <<m>>
<1>1. PICK t : t = NamedIn(specs, n)
  OBVIOUS
<1>2. /\ t \in Seq(Nat \X Nat) /\ IsInjective(t)
      /\ \A m : m \in ToSet(t) <=> m \in ToSet(Places(specs)) /\ At(specs, m).name = n
  BY <1>1, NamedAre
<1>3. \A x, y \in ToSet(t) : x = y
  BY <1>2 DEF NamesApart
<1>4. Len(t) <= 1
  <2>1. Len(t) \in Nat
    BY <1>2, LenProperties
  <2>2. Len(t) > 1 => \E x, y \in ToSet(t) : x # y
    BY <1>2, AtMostOne
  <2> QED
    BY <1>3, <2>1, <2>2
<1>5. ASSUME t # << >>
      PROVE  \E m \in ToSet(Places(specs)) :
               At(specs, m).name = n /\ ToSet(t) = {m} /\ t = <<m>>
  <2>1. ToSet(t) # {}
    BY <1>2, <1>5, AtMostOne
  <2>2. PICK m : m \in ToSet(t)
    BY <2>1
  <2>3. ToSet(t) = {m}
    BY <1>3, <2>2
  <2>4. t = <<m>>
    BY <1>2, <2>3, AtMostOne
  <2> QED
    BY <1>2, <2>2, <2>3, <2>4
<1> QED
  BY <1>1, <1>4, <1>5

LEMMA AmongAll ==
  ASSUME NEW S, NEW items \in Seq(S), NEW T, ToSet(items) \subseteq T
  PROVE  Among(items, T) = items
<1> DEFINE Bad == {n \in Nat : \E t \in Seq(S) :
                     Len(t) = n /\ ToSet(t) \subseteq T /\ Among(t, T) # t}
<1>1. ASSUME Bad # {} PROVE FALSE
  <2>1. PICK n \in Bad : \A m \in Bad : n <= m
    <3> HIDE DEF Bad
    <3>1. Bad \in SUBSET Nat
      BY DEF Bad
    <3> QED
      BY <1>1, <3>1, LeastElement
  <2>2. PICK t \in Seq(S) : Len(t) = n /\ ToSet(t) \subseteq T /\ Among(t, T) # t
    BY <2>1
  <2>3. CASE n = 0
    <3>1. t = << >>
      BY <2>2, <2>3, EmptySeq
    <3>2. Among(t, T) = << >>
      <4>1. Among(t, T) \in Seq(S) /\ IsInjective(t)
        BY <2>2, <3>1, AmongType DEF IsInjective
      <4>2. ToSet(Among(t, T)) = {}
        <5>1. ToSet(t) = {}
          BY <3>1 DEF ToSet
        <5> QED
          BY <2>2, <5>1, AmongRange
      <4> QED
        BY <2>2, <4>1, <4>2, AmongDistinct, AtMostOne
    <3> QED
      BY <2>2, <3>1, <3>2
  <2>4. CASE n # 0
    <3>1. PICK u \in Seq(S), x \in S :
            /\ t = Append(u, x) /\ Len(u) \in Nat
            /\ Len(t) = Len(u) + 1 /\ t[Len(u) + 1] = x
            /\ \A i \in 1 .. Len(u) : t[i] = u[i]
      BY <2>2, <2>4, LastItem
    <3>2. Len(u) \notin Bad
      <4> HIDE DEF Bad
      <4> QED
        BY <2>1, <2>2, <3>1
    <3>3. ToSet(u) \subseteq T /\ x \in T
      BY <2>2, <3>1, RangeOfAppend
    <3>4. Among(u, T) = u
      BY <3>1, <3>2, <3>3
    <3>5. Among(t, T) = u \o <<x>>
      BY <3>1, <3>3, <3>4, AmongAppend
    <3>6. t = u \o <<x>>
      BY <3>1, AppendIsConcat
    <3> QED
      BY <2>2, <3>5, <3>6
  <2> QED
    BY <2>3, <2>4
<1>2. Len(items) \in Nat
  OBVIOUS
<1> QED
  BY <1>1, <1>2

LEMMA FieldsAre ==
  ASSUME NEW F, NEW specs \in Seq(Seq(F))
  PROVE  /\ FieldsIn(specs) \in Seq(Nat \X Nat) /\ IsInjective(FieldsIn(specs))
         /\ ToSet(FieldsIn(specs)) \subseteq ToSet(Places(specs))
         /\ Whole(specs) => FieldsIn(specs) = Places(specs)
<1>1. PICK ps : ps = Places(specs)
  OBVIOUS
<1>2. /\ ps \in Seq(Nat \X Nat) /\ IsInjective(ps)
      /\ \A m \in ToSet(ps) : IsPlace(specs, m)
  BY <1>1, PlacesAre
<1>3. PICK T : T = {m \in ToSet(ps) : m[1] <= LastIn(specs)}
  OBVIOUS
<1>4. FieldsIn(specs) = Among(ps, T)
  BY <1>1, <1>3 DEF FieldsIn
<1>5. Among(ps, T) \in Seq(Nat \X Nat) /\ IsInjective(Among(ps, T)) /\ ToSet(Among(ps, T)) = ToSet(ps) \cap T
  BY <1>2, AmongType, AmongDistinct, AmongRange
<1>6. ASSUME Whole(specs) PROVE Among(ps, T) = ps
  <2>1. LastIn(specs) = Len(specs) /\ Len(specs) \in Nat
    BY <1>6, LenProperties DEF LastIn
  <2>2. \A m \in ToSet(ps) : m[1] <= LastIn(specs)
    BY <1>2, <2>1 DEF IsPlace
  <2>3. ToSet(ps) \subseteq T
    BY <1>3, <2>2
  <2> QED
    BY <1>2, <2>3, AmongAll
<1> QED
  BY <1>1, <1>4, <1>5, <1>6

LEMMA AnonAre ==
  ASSUME NEW F, NEW specs \in Seq(Seq(F))
  PROVE  /\ AnonIn(specs) \in Seq(Nat \X Nat) /\ IsInjective(AnonIn(specs))
         /\ \A m \in ToSet(AnonIn(specs)) : m \in ToSet(Places(specs)) /\ At(specs, m).anon
         /\ Whole(specs) =>
              \A m \in ToSet(Places(specs)) :
                At(specs, m).anon /\ m[2] = 1 => m \in ToSet(AnonIn(specs))
<1>1. PICK fs : fs = FieldsIn(specs)
  OBVIOUS
<1>2. /\ fs \in Seq(Nat \X Nat) /\ IsInjective(fs)
      /\ ToSet(fs) \subseteq ToSet(Places(specs))
      /\ Whole(specs) => fs = Places(specs)
  BY <1>1, FieldsAre
<1>3. PICK T : T = {m \in ToSet(fs) : At(specs, m).anon /\ m[2] = 1}
  OBVIOUS
<1>4. AnonIn(specs) = Among(fs, T)
  BY <1>1, <1>3 DEF AnonIn
<1>5. /\ Among(fs, T) \in Seq(Nat \X Nat) /\ IsInjective(Among(fs, T))
      /\ ToSet(Among(fs, T)) = ToSet(fs) \cap T
  BY <1>2, AmongType, AmongDistinct, AmongRange
<1> QED
  BY <1>2, <1>3, <1>4, <1>5

-----------------------------------------------------------------------------
(* The graph of the embedded fields of all structs, and the structs that   *)
(* have a field of a name.                                                 *)

HasIn(ss, n) == {s \in 1 .. Len(ss) : NamedIn(ss[s], n) # << >>}
EdgesIn(ss, ts) ==
  {x \in [struct : 1 .. Len(ss), member : Nat \X Nat] :
     /\ x.member \in ToSet(Places(ss[x.struct])) /\ At(ss[x.struct], x.member).anon
     /\ TargetIn(ss, ts, x.struct, x.member) # 0}
GraphOf(ss, ts) == [x \in EdgesIn(ss, ts) |-> TargetIn(ss, ts, x.struct, x.member)]

(* What the invariant says of the members, as far as the search needs it.  *)
Shape(ss, ts, F) ==
  /\ ss \in Seq(Seq(Seq(F)))
  /\ \A s \in 1 .. Len(ss) : NamesApart(ss[s])
  /\ \A s \in 1 .. Len(ss) : \A m \in ToSet(Places(ss[s])) :
       At(ss[s], m).anon =>
         m[2] = 1 /\ TargetIn(ss, ts, s, m) \in Nat /\ TargetIn(ss, ts, s, m) < s

LEMMA GraphIs ==
  ASSUME NEW ss, NEW ts, NEW F, Shape(ss, ts, F)
  PROVE  /\ IsGraph(GraphOf(ss, ts))
         /\ DOMAIN GraphOf(ss, ts) = EdgesIn(ss, ts)
         /\ \A x \in EdgesIn(ss, ts) :
              /\ GraphOf(ss, ts)[x] = TargetIn(ss, ts, x.struct, x.member)
              /\ GraphOf(ss, ts)[x] \in 1 .. Len(ss)
         /\ \A s \in 1 .. Len(ss), m \in Nat \X Nat :
              Hop(s, m) \in EdgesIn(ss, ts) <=>
                /\ m \in ToSet(Places(ss[s])) /\ At(ss[s], m).anon
                /\ TargetIn(ss, ts, s, m) # 0
<1>1. Len(ss) \in Nat
  BY LenProperties DEF Shape
<1>2. PICK E : E = GraphOf(ss, ts)
  OBVIOUS
<1>3. DOMAIN E = EdgesIn(ss, ts) /\ \A x \in EdgesIn(ss, ts) : E[x] = TargetIn(ss, ts, x.struct, x.member)
  BY <1>2 DEF GraphOf
<1>4. ASSUME NEW x \in EdgesIn(ss, ts)
      PROVE  /\ x \in [struct : Nat, member : Nat \X Nat]
             /\ E[x] \in Nat /\ E[x] < x.struct /\ E[x] \in 1 .. Len(ss)
  <2>1. /\ x \in [struct : 1 .. Len(ss), member : Nat \X Nat]
        /\ x.member \in ToSet(Places(ss[x.struct])) /\ At(ss[x.struct], x.member).anon
        /\ E[x] # 0
    BY <1>3 DEF EdgesIn
  <2>2. E[x] \in Nat /\ E[x] < x.struct /\ x.struct \in 1 .. Len(ss)
    BY <1>3, <2>1 DEF Shape
  <2>3. x \in [struct : Nat, member : Nat \X Nat]
    <3>1. 1 .. Len(ss) \subseteq Nat
      BY <1>1
    <3> QED
      BY <2>1, <3>1
  <2> QED
    BY <1>1, <2>1, <2>2, <2>3
<1>5. IsGraph(E)
  BY <1>3, <1>4 DEF IsGraph
<1>6. ASSUME NEW s \in 1 .. Len(ss), NEW m \in Nat \X Nat
      PROVE  Hop(s, m) \in EdgesIn(ss, ts) <=>
                /\ m \in ToSet(Places(ss[s])) /\ At(ss[s], m).anon
                /\ TargetIn(ss, ts, s, m) # 0
  <2>1. Hop(s, m).struct = s /\ Hop(s, m).member = m
        /\ Hop(s, m) \in [struct : 1 .. Len(ss), member : Nat \X Nat]
    BY DEF Hop
  <2> QED
    BY <2>1 DEF EdgesIn
<1> QED
  BY <1>2, <1>3, <1>4, <1>5, <1>6

-----------------------------------------------------------------------------
(* The search, on such a graph E of n structs: A are the embedded fields   *)
(* it sees in each, H the structs that have the field it looks for, D the  *)
(* declarations of the field in each.                                      *)

HopSet == [struct : Nat, member : Nat \X Nat]
PathSet(E) == [hops : Seq(DOMAIN E), decls : SUBSET HopSet]

IsNet(A, E, H, D, n) ==
  /\ n \in Nat /\ IsGraph(E)
  /\ A \in [1 .. n -> Seq(Nat \X Nat)] /\ \A s \in 1 .. n : IsInjective(A[s])
  /\ \A x \in DOMAIN E : x.struct \in 1 .. n /\ E[x] \in 1 .. n
  /\ D \in [1 .. n -> SUBSET HopSet]

Through(f, E, H, D, s, m) ==
  IF Hop(s, m) \notin DOMAIN E THEN << >>
  ELSE IF E[Hop(s, m)] \in H
    THEN << [hops |-> <<Hop(s, m)>>, decls |-> D[E[Hop(s, m)]]] >>
  ELSE [i \in DOMAIN f[E[Hop(s, m)]] |->
          [f[E[Hop(s, m)]][i] EXCEPT !.hops = <<Hop(s, m)>> \o @]]

Bundle(f, A, E, H, D, s) == [i \in DOMAIN A[s] |-> Through(f, E, H, D, s, A[s][i])]
IsSearch(f, A, E, H, D, from) ==
  f = [s \in 1 .. from |-> FlattenSeq(Bundle(f, A, E, H, D, s))]

LEMMA HopIs ==
  ASSUME NEW s, NEW m
  PROVE  Hop(s, m).struct = s /\ Hop(s, m).member = m
BY DEF Hop

LEMMA BundleAgree ==
  ASSUME NEW A, NEW E, NEW H, NEW D, IsGraph(E), NEW s \in Nat, NEW f, NEW g,
         \A t \in 1 .. s - 1 : f[t] = g[t],
         \A x \in DOMAIN E : E[x] \in Nat \ {0}
  PROVE  Bundle(f, A, E, H, D, s) = Bundle(g, A, E, H, D, s)
<1>1. ASSUME NEW m PROVE Through(f, E, H, D, s, m) = Through(g, E, H, D, s, m)
  <2>1. CASE Hop(s, m) \in DOMAIN E
    <3>1. E[Hop(s, m)] \in 1 .. s - 1
      BY <2>1, HopIs DEF IsGraph
    <3>2. f[E[Hop(s, m)]] = g[E[Hop(s, m)]]
      BY <3>1
    <3> QED
      BY <3>2 DEF Through
  <2>2. CASE Hop(s, m) \notin DOMAIN E
    BY <2>2 DEF Through
  <2> QED
    BY <2>1, <2>2
<1> QED
  BY <1>1 DEF Bundle

LEMMA SearchExists ==
  ASSUME NEW A, NEW E, NEW H, NEW D, IsGraph(E), \A x \in DOMAIN E : E[x] \in Nat \ {0},
         NEW from \in Nat
  PROVE  \E f : IsSearch(f, A, E, H, D, from)
<1> DEFINE Bad == {n \in Nat : ~ \E f : IsSearch(f, A, E, H, D, n)}
<1>1. ASSUME Bad # {} PROVE FALSE
  <2>1. PICK n \in Bad : \A m \in Bad : n <= m
    <3>1. Bad \in SUBSET Nat
      OBVIOUS
    <3> HIDE DEF Bad
    <3> QED
      BY <1>1, <3>1, LeastElement
  <2>2. n \in Nat /\ ~ \E f : IsSearch(f, A, E, H, D, n)
    BY <2>1
  <2>3. CASE n = 0
    <3>1. << >> = [s \in 1 .. n |-> FlattenSeq(Bundle(<< >>, A, E, H, D, s))]
      BY <2>3
    <3>2. IsSearch(<< >>, A, E, H, D, n)
      BY <3>1 DEF IsSearch
    <3> QED
      BY <2>2, <3>2
  <2>4. CASE n # 0
    <3>1. n - 1 \in Nat /\ n - 1 \notin Bad
      <4>1. n - 1 \in Nat /\ ~(n <= n - 1)
        BY <2>2, <2>4
      <4> HIDE DEF Bad
      <4> QED
        BY <2>1, <4>1
    <3>2. PICK g : IsSearch(g, A, E, H, D, n - 1)
      BY <3>1
    <3>3. \A s \in 1 .. n - 1 : g[s] = FlattenSeq(Bundle(g, A, E, H, D, s))
      BY <3>2 DEF IsSearch
    <3> DEFINE f == [s \in 1 .. n |->
                       IF s = n THEN FlattenSeq(Bundle(g, A, E, H, D, n)) ELSE g[s]]
    <3>4. /\ f[n] = FlattenSeq(Bundle(g, A, E, H, D, n))
          /\ \A s \in 1 .. n - 1 : f[s] = g[s]
          /\ f = [s \in 1 .. n |-> f[s]]
      BY <2>2, <2>4
    <3> HIDE DEF f
    <3>5. ASSUME NEW s \in 1 .. n PROVE f[s] = FlattenSeq(Bundle(f, A, E, H, D, s))
      <4>1. s \in Nat /\ \A t \in 1 .. s - 1 : f[t] = g[t]
        <5>1. s \in Nat /\ \A t \in 1 .. s - 1 : t \in 1 .. n - 1
          BY <2>2
        <5> QED
          BY <3>4, <5>1
      <4>2. Bundle(f, A, E, H, D, s) = Bundle(g, A, E, H, D, s)
        BY <4>1, BundleAgree
      <4>3. CASE s = n
        BY <3>4, <4>2, <4>3
      <4>4. CASE s # n
        <5>1. s \in 1 .. n - 1
          BY <2>2, <4>4
        <5> QED
          BY <3>3, <3>4, <4>2, <5>1
      <4> QED
        BY <4>3, <4>4
    <3>6. f = [s \in 1 .. n |-> FlattenSeq(Bundle(f, A, E, H, D, s))]
      BY <3>4, <3>5, Zenon
    <3> QED
      BY <2>2, <3>6 DEF IsSearch
  <2> QED
    BY <2>3, <2>4
<1> QED
  BY <1>1

(* The first hop of a path, and the rest.                                  *)
LEMMA FirstItem ==
  ASSUME NEW S, NEW h \in Seq(S), h # << >>
  PROVE  \E x \in S, u \in Seq(S) : h = <<x>> \o u /\ h[1] = x
<1>1. /\ Head(h) \in S /\ Tail(h) \in Seq(S) /\ Len(Tail(h)) = Len(h) - 1
      /\ \A i \in 1 .. Len(Tail(h)) : Tail(h)[i] = h[i + 1]
  BY HeadTailProperties
<1>2. Head(h) = h[1] /\ Len(h) \in Nat \ {0}
  BY EmptySeq
<1>3. PICK u \in Seq(S) : u = Tail(h)
  BY <1>1
<1>4. PICK x \in S : x = Head(h)
  BY <1>1
<1>5. PICK g : g = <<x>> \o u
  OBVIOUS
<1>6. g \in Seq(S) /\ Len(g) = Len(u) + 1 /\ g[1] = x /\ \A i \in 1 .. Len(u) : g[i + 1] = u[i]
  BY <1>5, ConsIs
<1>7. \A i \in 1 .. Len(h) : h[i] = g[i]
  <2>1. ASSUME NEW i \in 1 .. Len(h) PROVE h[i] = g[i]
    <3>1. CASE i = 1
      BY <1>2, <1>4, <1>6, <3>1
    <3>2. CASE i # 1
      <4>1. PICK j \in 1 .. Len(u) : i = j + 1
        <5>1. i - 1 \in 1 .. Len(u) /\ i = i - 1 + 1
          BY <1>1, <1>2, <1>3, <3>2
        <5> QED
          BY <5>1
      <4> QED
        BY <1>1, <1>3, <1>6, <4>1
    <3> QED
      BY <3>1, <3>2
  <2> QED
    BY <2>1
<1>8. h = g
  <2>1. Len(h) = Len(g)
    BY <1>1, <1>2, <1>3, <1>6
  <2> QED
    BY <1>6, <1>7, <2>1, SeqEqual
<1> QED
  BY <1>2, <1>4, <1>5, <1>8

LEMMA ConsSame ==
  ASSUME NEW S, NEW x \in S, NEW g \in Seq(S), NEW h \in Seq(S), <<x>> \o g = <<x>> \o h
  PROVE  g = h
<1>1. PICK u : u = <<x>> \o g
  OBVIOUS
<1>2. /\ Len(u) = Len(g) + 1 /\ Len(u) = Len(h) + 1
      /\ \A i \in 1 .. Len(g) : u[i + 1] = g[i]
      /\ \A i \in 1 .. Len(h) : u[i + 1] = h[i]
  BY <1>1, ConsIs
<1>3. Len(g) = Len(h)
  BY <1>2, LenProperties
<1> QED
  BY <1>2, <1>3, SeqEqual

(* What goes through one embedded field.                                   *)
ThroughOK(p, E, H, D, s, m, rest) ==
  /\ p \in Seq(PathSet(E)) /\ IsInjective(p)
  /\ \A q \in ToSet(p) : q.hops[1] = Hop(s, m) /\ Hop(s, m) \in DOMAIN E
  /\ \A q : q \in ToSet(p) <=>
       /\ Hop(s, m) \in DOMAIN E
       /\ \/ /\ E[Hop(s, m)] \in H
             /\ q = [hops |-> <<Hop(s, m)>>, decls |-> D[E[Hop(s, m)]]]
          \/ /\ E[Hop(s, m)] \notin H
             /\ \E r \in ToSet(rest) : q = [r EXCEPT !.hops = <<Hop(s, m)>> \o @]

LEMMA ThroughIs ==
  ASSUME NEW A, NEW E, NEW H, NEW D, NEW n, IsNet(A, E, H, D, n), NEW f, NEW s, NEW m,
         Hop(s, m) \in DOMAIN E /\ E[Hop(s, m)] \notin H =>
           f[E[Hop(s, m)]] \in Seq(PathSet(E)) /\ IsInjective(f[E[Hop(s, m)]])
  PROVE  ThroughOK(Through(f, E, H, D, s, m), E, H, D, s, m, f[E[Hop(s, m)]])
<1>1. PICK x : x = Hop(s, m)
  OBVIOUS
<1>2. PICK p : p = Through(f, E, H, D, s, m)
  OBVIOUS
<1>3. CASE x \notin DOMAIN E
  <2>1. p = << >>
    BY <1>1, <1>2, <1>3 DEF Through
  <2>2. p \in Seq(PathSet(E)) /\ IsInjective(p) /\ ToSet(p) = {}
    BY <2>1 DEF IsInjective, ToSet
  <2> QED
    BY <1>1, <1>2, <1>3, <2>2 DEF ThroughOK
<1>4. CASE x \in DOMAIN E /\ E[x] \in H
  <2>1. PICK q : q = [hops |-> <<x>>, decls |-> D[E[x]]]
    OBVIOUS
  <2>2. p = <<q>>
    BY <1>1, <1>2, <1>4, <2>1 DEF Through
  <2>3. q \in PathSet(E) /\ q.hops[1] = x
    <3>1. <<x>> \in Seq(DOMAIN E) /\ <<x>>[1] = x
      BY <1>4
    <3>2. D[E[x]] \in SUBSET HopSet
      BY <1>4 DEF IsNet
    <3>3. q.hops = <<x>>
      BY <2>1
    <3>4. q \in PathSet(E)
      BY <2>1, <3>1, <3>2 DEF PathSet
    <3> QED
      BY <3>1, <3>3, <3>4
  <2>4. p \in Seq(PathSet(E)) /\ IsInjective(p) /\ ToSet(p) = {q}
    BY <2>2, <2>3 DEF IsInjective, ToSet
  <2>5. \A r : r \in ToSet(p) <=> r = [hops |-> <<x>>, decls |-> D[E[x]]]
    BY <2>1, <2>4
  <2> QED
    BY <1>1, <1>2, <1>4, <2>3, <2>4, <2>5 DEF ThroughOK
<1>5. CASE x \in DOMAIN E /\ E[x] \notin H
  <2>1. PICK rest : rest = f[E[x]]
    OBVIOUS
  <2>2. rest \in Seq(PathSet(E)) /\ IsInjective(rest)
    BY <1>1, <1>5, <2>1
  <2>3. p = [i \in DOMAIN rest |-> [rest[i] EXCEPT !.hops = <<x>> \o @]]
    BY <1>1, <1>2, <1>5, <2>1 DEF Through
  <2>4. PICK k \in Nat : k = Len(rest) /\ DOMAIN rest = 1 .. k
    BY <2>2, LenProperties
  <2>5. ASSUME NEW r \in PathSet(E)
        PROVE  /\ [r EXCEPT !.hops = <<x>> \o @] \in PathSet(E)
               /\ [r EXCEPT !.hops = <<x>> \o @].hops = <<x>> \o r.hops
               /\ [r EXCEPT !.hops = <<x>> \o @].decls = r.decls
               /\ (<<x>> \o r.hops)[1] = x
    <3>1. r.hops \in Seq(DOMAIN E) /\ r.decls \in SUBSET HopSet
          /\ r = [hops |-> r.hops, decls |-> r.decls]
      BY DEF PathSet
    <3>2. PICK g : g = <<x>> \o r.hops
      OBVIOUS
    <3>3. g \in Seq(DOMAIN E) /\ g[1] = x
      BY <1>5, <3>1, <3>2, ConsIs
    <3>4. [r EXCEPT !.hops = <<x>> \o @] = [hops |-> g, decls |-> r.decls]
      <4>1. [r EXCEPT !.hops = <<x>> \o @] = [r EXCEPT !.hops = g]
        BY <3>2
      <4>2. [r EXCEPT !.hops = g] = [hops |-> g, decls |-> r.decls]
        BY DEF PathSet
      <4> QED
        BY <4>1, <4>2
    <3>5. [hops |-> g, decls |-> r.decls] \in PathSet(E)
      BY <3>1, <3>3 DEF PathSet
    <3> QED
      BY <3>2, <3>3, <3>4, <3>5
  <2>6. \A i \in 1 .. k : rest[i] \in PathSet(E)
    BY <2>2, <2>4, ElementOfSeq
  <2>7. /\ DOMAIN p = 1 .. k
        /\ \A i \in 1 .. k : p[i] = [rest[i] EXCEPT !.hops = <<x>> \o @]
    BY <2>3, <2>4
  <2>8. p \in Seq(PathSet(E))
    <3>1. p \in [1 .. k -> PathSet(E)]
      BY <2>3, <2>4, <2>5, <2>6
    <3> QED
      BY <3>1, IsASeq
  <2>9. IsInjective(p)
    <3>1. ASSUME NEW i \in 1 .. k, NEW j \in 1 .. k, p[i] = p[j] PROVE i = j
      <4>1. PICK a \in PathSet(E) : a = rest[i]
        BY <2>6
      <4>2. PICK b \in PathSet(E) : b = rest[j]
        BY <2>6
      <4>3. [a EXCEPT !.hops = <<x>> \o @] = [b EXCEPT !.hops = <<x>> \o @]
        BY <2>7, <3>1, <4>1, <4>2
      <4>4. <<x>> \o a.hops = <<x>> \o b.hops /\ a.decls = b.decls
        BY <2>5, <4>3, Zenon
      <4>5. a.hops \in Seq(DOMAIN E) /\ b.hops \in Seq(DOMAIN E)
        BY DEF PathSet
      <4>6. a.hops = b.hops
        BY <1>5, <4>4, <4>5, ConsSame
      <4>7. a = b
        BY <4>4, <4>6 DEF PathSet
      <4> QED
        BY <2>2, <2>4, <4>1, <4>2, <4>7 DEF IsInjective
    <3> QED
      BY <2>7, <3>1 DEF IsInjective
  <2>10. ASSUME NEW q
         PROVE  q \in ToSet(p) <=> \E r \in ToSet(rest) : q = [r EXCEPT !.hops = <<x>> \o @]
    <3>1. ToSet(p) = {p[i] : i \in 1 .. k} /\ ToSet(rest) = {rest[i] : i \in 1 .. k}
      BY <2>4, <2>7 DEF ToSet
    <3>2. ASSUME q \in ToSet(p) PROVE \E r \in ToSet(rest) : q = [r EXCEPT !.hops = <<x>> \o @]
      <4>1. PICK i \in 1 .. k : q = p[i]
        BY <3>1, <3>2
      <4> QED
        BY <2>7, <3>1, <4>1
    <3>3. ASSUME NEW r \in ToSet(rest), q = [r EXCEPT !.hops = <<x>> \o @] PROVE q \in ToSet(p)
      <4>1. PICK i \in 1 .. k : r = rest[i]
        BY <3>1
      <4> QED
        BY <2>7, <3>1, <3>3, <4>1
    <3> QED
      BY <3>2, <3>3
  <2>11. ASSUME NEW q \in ToSet(p) PROVE q.hops[1] = x
    <3>1. PICK r \in ToSet(rest) : q = [r EXCEPT !.hops = <<x>> \o @]
      BY <2>10
    <3>2. r \in PathSet(E)
      BY <2>4, <2>6 DEF ToSet
    <3> QED
      BY <2>5, <3>1, <3>2
  <2> QED
    BY <1>1, <1>2, <1>5, <2>1, <2>8, <2>9, <2>10, <2>11 DEF ThroughOK
<1> QED
  BY <1>3, <1>4, <1>5

(* A set of structs that the search stays in, and sees all fields of.      *)
Closed(C, A, E, H, n) ==
  /\ C \subseteq 1 .. n
  /\ \A x \in DOMAIN E : x.struct \in C =>
       x.member \in ToSet(A[x.struct]) /\ (E[x] \notin H => E[x] \in C)

(* The paths found are the routes, each once.                              *)
FoundRoutes(p, E, H, D, s) ==
  /\ p \in Seq(PathSet(E)) /\ IsInjective(p)
  /\ \A q \in ToSet(p) : IsRoute(E, H, s, q.hops) /\ q.decls = D[EndOf(E, s, q.hops)]
  /\ \A h : IsRoute(E, H, s, h) => \E q \in ToSet(p) : q.hops = h

LEMMA BundleIs ==
  ASSUME NEW A, NEW E, NEW H, NEW D, NEW n, IsNet(A, E, H, D, n), NEW C, Closed(C, A, E, H, n),
         NEW s \in C, NEW f, \A t \in C : t < s => FoundRoutes(f[t], E, H, D, t)
  PROVE  /\ Bundle(f, A, E, H, D, s) \in Seq(Seq(PathSet(E)))
         /\ Len(Bundle(f, A, E, H, D, s)) = Len(A[s])
         /\ Apart(Bundle(f, A, E, H, D, s))
         /\ \A i \in 1 .. Len(A[s]) :
              /\ ThroughOK(Bundle(f, A, E, H, D, s)[i], E, H, D, s, A[s][i], f[E[Hop(s, A[s][i])]])
              /\ Hop(s, A[s][i]) \in DOMAIN E /\ E[Hop(s, A[s][i])] \notin H =>
                   FoundRoutes(f[E[Hop(s, A[s][i])]], E, H, D, E[Hop(s, A[s][i])])
<1>1. s \in 1 .. n /\ A[s] \in Seq(Nat \X Nat) /\ IsInjective(A[s]) /\ IsGraph(E)
  BY DEF IsNet, Closed
<1>2. PICK k \in Nat : k = Len(A[s]) /\ DOMAIN A[s] = 1 .. k
  BY <1>1, LenProperties
<1>3. PICK b : b = Bundle(f, A, E, H, D, s)
  OBVIOUS
<1>4. b = [i \in 1 .. k |-> Through(f, E, H, D, s, A[s][i])]
  BY <1>2, <1>3 DEF Bundle
<1>5. ASSUME NEW i \in 1 .. k
      PROVE  /\ ThroughOK(b[i], E, H, D, s, A[s][i], f[E[Hop(s, A[s][i])]])
             /\ Hop(s, A[s][i]) \in DOMAIN E /\ E[Hop(s, A[s][i])] \notin H =>
                  FoundRoutes(f[E[Hop(s, A[s][i])]], E, H, D, E[Hop(s, A[s][i])])
  <2>1. PICK x : x = Hop(s, A[s][i])
    OBVIOUS
  <2>2. ASSUME x \in DOMAIN E, E[x] \notin H PROVE FoundRoutes(f[E[x]], E, H, D, E[x])
    <3>1. x.struct = s
      BY <2>1, HopIs
    <3>2. E[x] \in C /\ E[x] < s
      BY <1>1, <2>2, <3>1 DEF Closed, IsGraph
    <3> QED
      BY <3>2
  <2>3. x \in DOMAIN E /\ E[x] \notin H => f[E[x]] \in Seq(PathSet(E)) /\ IsInjective(f[E[x]])
    BY <2>2 DEF FoundRoutes
  <2>4. ThroughOK(Through(f, E, H, D, s, A[s][i]), E, H, D, s, A[s][i], f[E[x]])
    BY <2>1, <2>3, ThroughIs
  <2>5. b[i] = Through(f, E, H, D, s, A[s][i])
    BY <1>4
  <2> QED
    BY <2>1, <2>2, <2>4, <2>5
<1>6. b \in Seq(Seq(PathSet(E))) /\ Len(b) = k
  <2>1. b \in [1 .. k -> Seq(PathSet(E))]
    <3>1. \A i \in 1 .. k : b[i] \in Seq(PathSet(E))
      BY <1>5 DEF ThroughOK
    <3>2. DOMAIN b = 1 .. k /\ b = [i \in 1 .. k |-> b[i]]
      BY <1>4
    <3> QED
      BY <3>1, <3>2
  <2> QED
    BY <2>1, IsASeq, LenProperties
<1>7. Apart(b)
  <2>1. ASSUME NEW i \in 1 .. k, NEW j \in 1 .. k, i # j
        PROVE  ToSet(b[i]) \cap ToSet(b[j]) = {}
    <3>1. \A q \in ToSet(b[i]) : q.hops[1] = Hop(s, A[s][i])
      BY <1>5 DEF ThroughOK
    <3>2. \A q \in ToSet(b[j]) : q.hops[1] = Hop(s, A[s][j])
      BY <1>5 DEF ThroughOK
    <3>3. A[s][i] # A[s][j]
      BY <1>1, <1>2, <2>1 DEF IsInjective
    <3>4. Hop(s, A[s][i]) # Hop(s, A[s][j])
      BY <3>3, HopIs
    <3> QED
      BY <3>1, <3>2, <3>4
  <2>2. \A i \in 1 .. k : IsInjective(b[i])
    BY <1>5 DEF ThroughOK
  <2> QED
    BY <1>6, <2>1, <2>2 DEF Apart
<1> QED
  BY <1>2, <1>3, <1>5, <1>6, <1>7

LEMMA SearchIs ==
  ASSUME NEW A, NEW E, NEW H, NEW D, NEW n, IsNet(A, E, H, D, n), NEW C, Closed(C, A, E, H, n),
         NEW from \in 0 .. n, NEW f, IsSearch(f, A, E, H, D, from)
  PROVE  \A s \in C : s <= from => FoundRoutes(f[s], E, H, D, s)
<1> DEFINE Bad == {s \in C : s <= from /\ ~ FoundRoutes(f[s], E, H, D, s)}
<1>1. ASSUME Bad # {} PROVE FALSE
  <2>1. PICK s \in Bad : \A t \in Bad : s <= t
    <3>1. Bad \in SUBSET Nat
      <4>1. C \subseteq 1 .. n /\ n \in Nat
        BY DEF Closed, IsNet
      <4>2. 1 .. n \subseteq Nat
        BY <4>1
      <4> QED
        BY <4>1, <4>2
    <3> HIDE DEF Bad
    <3> QED
      BY <1>1, <3>1, LeastElement
  <2>2. s \in C /\ s \in 1 .. n /\ s <= from /\ n \in Nat
    BY <2>1 DEF Closed, IsNet
  <2>3. ASSUME NEW t \in C, t < s PROVE FoundRoutes(f[t], E, H, D, t)
    <3>1. t \in 1 .. n /\ t <= from /\ ~(s <= t)
      BY <2>2, <2>3 DEF Closed
    <3>2. t \notin Bad
      <4> HIDE DEF Bad
      <4> QED
        BY <2>1, <3>1
    <3> QED
      BY <3>1, <3>2
  <2> HIDE DEF Bad
  <2>4. PICK b : b = Bundle(f, A, E, H, D, s)
    OBVIOUS
  <2>5. PICK k \in Nat : k = Len(A[s]) /\ DOMAIN A[s] = 1 .. k
    BY <2>2, LenProperties DEF IsNet
  <2>6. /\ b \in Seq(Seq(PathSet(E))) /\ Len(b) = k /\ Apart(b)
        /\ \A i \in 1 .. k :
             /\ ThroughOK(b[i], E, H, D, s, A[s][i], f[E[Hop(s, A[s][i])]])
             /\ Hop(s, A[s][i]) \in DOMAIN E /\ E[Hop(s, A[s][i])] \notin H =>
                  FoundRoutes(f[E[Hop(s, A[s][i])]], E, H, D, E[Hop(s, A[s][i])])
    BY <2>2, <2>3, <2>4, <2>5, BundleIs
  <2>7. PICK p : p = f[s]
    OBVIOUS
  <2>8. p = FlattenSeq(b)
    <3>1. s \in 1 .. from
      BY <2>2
    <3> QED
      BY <2>4, <2>7, <3>1 DEF IsSearch
  <2>9. p \in Seq(PathSet(E)) /\ IsInjective(p) /\ ToSet(p) = UNION {ToSet(b[i]) : i \in 1 .. k}
    BY <2>6, <2>8, FlattenType, FlattenDistinct, FlattenRange
  <2>10. ASSUME NEW q \in ToSet(p)
         PROVE  IsRoute(E, H, s, q.hops) /\ q.decls = D[EndOf(E, s, q.hops)]
    <3>1. PICK i \in 1 .. k : q \in ToSet(b[i])
      BY <2>9
    <3>2. PICK x : x = Hop(s, A[s][i])
      OBVIOUS
    <3>3. /\ x \in DOMAIN E /\ x.struct = s
          /\ \/ E[x] \in H /\ q = [hops |-> <<x>>, decls |-> D[E[x]]]
             \/ E[x] \notin H /\ \E r \in ToSet(f[E[x]]) : q = [r EXCEPT !.hops = <<x>> \o @]
      <4>1. ThroughOK(b[i], E, H, D, s, A[s][i], f[E[x]])
        BY <2>6, <3>2
      <4> QED
        BY <3>1, <3>2, <4>1, HopIs DEF ThroughOK
    <3>4. CASE E[x] \in H
      <4>1. q.hops = <<x>> /\ q.decls = D[E[x]]
        BY <3>3, <3>4
      <4>2. IsRoute(E, H, s, <<x>>)
        BY <3>3, <3>4, RouteOne
      <4>3. EndOf(E, s, <<x>>) = E[x]
        <5>1. PICK u : u = <<x>>
          OBVIOUS
        <5>2. Len(u) = 1 /\ u[1] = x /\ u # << >>
          BY <5>1
        <5> QED
          BY <5>1, <5>2 DEF EndOf
      <4> QED
        BY <4>1, <4>2, <4>3
    <3>5. CASE E[x] \notin H
      <4>1. PICK r \in ToSet(f[E[x]]) : q = [r EXCEPT !.hops = <<x>> \o @]
        BY <3>3, <3>5
      <4>2. FoundRoutes(f[E[x]], E, H, D, E[x])
        BY <2>6, <3>2, <3>3, <3>5
      <4>3. /\ r \in PathSet(E) /\ IsRoute(E, H, E[x], r.hops)
            /\ r.decls = D[EndOf(E, E[x], r.hops)]
        <5>1. r \in PathSet(E)
          <6>1. PICK i2 \in 1 .. Len(f[E[x]]) : r = f[E[x]][i2]
            BY <4>2, LenProperties DEF FoundRoutes, ToSet
          <6> QED
            BY <4>2, <6>1, ElementOfSeq DEF FoundRoutes
        <5> QED
          BY <4>2, <5>1 DEF FoundRoutes
      <4>4. r.hops \in Seq(DOMAIN E) /\ r.hops # << >>
        BY <4>3 DEF PathSet, IsRoute
      <4>5. q.hops = <<x>> \o r.hops /\ q.decls = r.decls
        <5>1. r = [hops |-> r.hops, decls |-> r.decls]
          BY <4>3 DEF PathSet
        <5> QED
          BY <4>1, <5>1
      <4>6. IsRoute(E, H, s, <<x>> \o r.hops)
        BY <3>3, <3>5, <4>3, <4>4, RouteCons
      <4>7. EndOf(E, s, <<x>> \o r.hops) = EndOf(E, E[x], r.hops)
        BY <3>3, <4>4, ChainCons
      <4> QED
        BY <4>3, <4>5, <4>6, <4>7
    <3> QED
      BY <3>4, <3>5
  <2>11. ASSUME NEW h, IsRoute(E, H, s, h) PROVE \E q \in ToSet(p) : q.hops = h
    <3>1. h \in Seq(DOMAIN E) /\ h # << >>
      BY <2>11 DEF IsRoute, IsChain
    <3>2. PICK x \in DOMAIN E, u \in Seq(DOMAIN E) : h = <<x>> \o u /\ h[1] = x
      BY <3>1, FirstItem
    <3>3. x.struct = s
      BY <2>11, <3>2, ChainCons DEF IsRoute
    <3>4. x.member \in ToSet(A[s]) /\ (E[x] \notin H => E[x] \in C)
      BY <2>2, <3>3 DEF Closed
    <3>5. PICK i \in 1 .. k : x.member = A[s][i]
      BY <2>5, <3>4 DEF ToSet
    <3>6. x = Hop(s, A[s][i])
      BY <2>2, <3>3, <3>5 DEF Hop, IsNet, IsGraph
    <3>7. ThroughOK(b[i], E, H, D, s, A[s][i], f[E[x]])
      BY <2>6, <3>6
    <3>8. \A q \in ToSet(b[i]) : q \in ToSet(p)
      BY <2>9
    <3>9. CASE u = << >>
      <4>1. h = <<x>>
        <5>1. <<x>> \in Seq(DOMAIN E)
          OBVIOUS
        <5> QED
          BY <3>2, <3>9, <5>1, ConcatEmptySeq
      <4>2. E[x] \in H
        BY <2>11, <4>1, RouteOne
      <4>3. PICK q : q = [hops |-> <<x>>, decls |-> D[E[x]]]
        OBVIOUS
      <4>4. q \in ToSet(b[i])
        BY <3>6, <3>7, <4>2, <4>3 DEF ThroughOK
      <4> QED
        BY <3>8, <4>1, <4>3, <4>4
    <3>10. CASE u # << >>
      <4>1. E[x] \notin H /\ IsRoute(E, H, E[x], u)
        BY <2>11, <3>2, <3>10, RouteCons
      <4>2. FoundRoutes(f[E[x]], E, H, D, E[x])
        BY <2>6, <3>6, <4>1
      <4>3. PICK r \in ToSet(f[E[x]]) : r.hops = u
        BY <4>1, <4>2 DEF FoundRoutes
      <4>4. r \in PathSet(E)
        <5>1. PICK i2 \in 1 .. Len(f[E[x]]) : r = f[E[x]][i2]
          BY <4>2, LenProperties DEF FoundRoutes, ToSet
        <5> QED
          BY <4>2, <5>1, ElementOfSeq DEF FoundRoutes
      <4>5. PICK q : q = [r EXCEPT !.hops = <<x>> \o @]
        OBVIOUS
      <4>6. q.hops = h
        <5>1. r = [hops |-> u, decls |-> r.decls]
          BY <4>3, <4>4 DEF PathSet
        <5> QED
          BY <3>2, <4>5, <5>1
      <4>7. q \in ToSet(b[i])
        BY <3>6, <3>7, <4>1, <4>3, <4>5 DEF ThroughOK
      <4> QED
        BY <3>8, <4>6, <4>7
    <3> QED
      BY <3>9, <3>10
  <2>12. FoundRoutes(p, E, H, D, s)
    BY <2>9, <2>10, <2>11 DEF FoundRoutes
  <2>13. ~ FoundRoutes(p, E, H, D, s)
    BY <2>1, <2>7 DEF Bad
  <2> QED
    BY <2>12, <2>13
<1> QED
  BY <1>1

(* The structs below one, as far as the search goes.                       *)
NextOf(A, E, s) == {E[x] : x \in {y \in DOMAIN E : y.struct = s /\ y.member \in ToSet(A[s])}}
Beneath(f, A, E, H, s) ==
  NextOf(A, E, s) \cup UNION {f[t] : t \in {u \in NextOf(A, E, s) : u \notin H}}
IsBelow(f, A, E, H, from) == f = [s \in 1 .. from |-> Beneath(f, A, E, H, s)]

LEMMA NextBelow ==
  ASSUME NEW A, NEW E, IsGraph(E), \A x \in DOMAIN E : E[x] \in Nat \ {0}, NEW s \in Nat
  PROVE  NextOf(A, E, s) \subseteq 1 .. s - 1
BY DEF NextOf, IsGraph

LEMMA BelowExists ==
  ASSUME NEW A, NEW E, NEW H, IsGraph(E), \A x \in DOMAIN E : E[x] \in Nat \ {0},
         NEW from \in Nat
  PROVE  \E f : IsBelow(f, A, E, H, from)
<1> DEFINE Bad == {n \in Nat : ~ \E f : IsBelow(f, A, E, H, n)}
<1>1. ASSUME Bad # {} PROVE FALSE
  <2>1. PICK n \in Bad : \A m \in Bad : n <= m
    <3>1. Bad \in SUBSET Nat
      OBVIOUS
    <3> HIDE DEF Bad
    <3> QED
      BY <1>1, <3>1, LeastElement
  <2>2. n \in Nat /\ ~ \E f : IsBelow(f, A, E, H, n)
    BY <2>1
  <2>3. CASE n = 0
    <3>1. << >> = [s \in 1 .. n |-> Beneath(<< >>, A, E, H, s)]
      BY <2>3
    <3>2. IsBelow(<< >>, A, E, H, n)
      BY <3>1 DEF IsBelow
    <3> QED
      BY <2>2, <3>2
  <2>4. CASE n # 0
    <3>1. n - 1 \in Nat /\ n - 1 \notin Bad
      <4>1. n - 1 \in Nat /\ ~(n <= n - 1)
        BY <2>2, <2>4
      <4> HIDE DEF Bad
      <4> QED
        BY <2>1, <4>1
    <3>2. PICK g : IsBelow(g, A, E, H, n - 1)
      BY <3>1
    <3>3. \A s \in 1 .. n - 1 : g[s] = Beneath(g, A, E, H, s)
      BY <3>2 DEF IsBelow
    <3> DEFINE f == [s \in 1 .. n |-> IF s = n THEN Beneath(g, A, E, H, n) ELSE g[s]]
    <3>4. /\ f[n] = Beneath(g, A, E, H, n)
          /\ \A s \in 1 .. n - 1 : f[s] = g[s]
          /\ f = [s \in 1 .. n |-> f[s]]
      BY <2>2, <2>4
    <3> HIDE DEF f
    <3>5. ASSUME NEW s \in 1 .. n PROVE f[s] = Beneath(f, A, E, H, s)
      <4>1. Beneath(f, A, E, H, s) = Beneath(g, A, E, H, s)
        <5>1. s \in Nat /\ \A t \in 1 .. s - 1 : t \in 1 .. n - 1
          BY <2>2
        <5>2. \A t \in NextOf(A, E, s) : f[t] = g[t]
          BY <3>4, <5>1, NextBelow
        <5> QED
          BY <5>2 DEF Beneath
      <4>2. CASE s = n
        BY <3>4, <4>1, <4>2
      <4>3. CASE s # n
        <5>1. s \in 1 .. n - 1
          BY <2>2, <4>3
        <5> QED
          BY <3>3, <3>4, <4>1, <5>1
      <4> QED
        BY <4>2, <4>3
    <3>6. f = [s \in 1 .. n |-> Beneath(f, A, E, H, s)]
      BY <3>4, <3>5, Zenon
    <3> QED
      BY <2>2, <3>6 DEF IsBelow
  <2> QED
    BY <2>3, <2>4
<1> QED
  BY <1>1

LEMMA BelowIs ==
  ASSUME NEW A, NEW E, NEW H, IsGraph(E), \A x \in DOMAIN E : E[x] \in Nat \ {0},
         NEW from \in Nat, NEW f, IsBelow(f, A, E, H, from)
  PROVE  \A s \in 1 .. from :
           /\ f[s] \subseteq 1 .. s - 1 /\ NextOf(A, E, s) \subseteq f[s]
           /\ \A t \in f[s] : t \notin H => NextOf(A, E, t) \subseteq f[s]
<1> DEFINE Right(s) == /\ f[s] \subseteq 1 .. s - 1 /\ NextOf(A, E, s) \subseteq f[s]
                       /\ \A t \in f[s] : t \notin H => NextOf(A, E, t) \subseteq f[s]
           Bad == {s \in 1 .. from : ~ Right(s)}
<1>1. ASSUME Bad # {} PROVE FALSE
  <2>1. PICK s \in Bad : \A t \in Bad : s <= t
    <3>1. Bad \in SUBSET Nat
      OBVIOUS
    <3> HIDE DEF Bad
    <3> QED
      BY <1>1, <3>1, LeastElement
  <2>2. s \in 1 .. from /\ s \in Nat
    BY <2>1
  <2>3. ASSUME NEW t \in NextOf(A, E, s) PROVE t \in 1 .. s - 1 /\ Right(t)
    <3>1. t \in 1 .. s - 1
      BY <2>2, NextBelow
    <3>2. t \in 1 .. from /\ ~(s <= t)
      BY <2>2, <3>1
    <3>3. t \notin Bad
      <4> HIDE DEF Bad
      <4> QED
        BY <2>1, <3>2
    <3>4. Right(t)
      <4> HIDE DEF Right
      <4> QED
        BY <3>2, <3>3
    <3> QED
      BY <3>1, <3>4
  <2>4. f[s] = Beneath(f, A, E, H, s)
    BY <2>2 DEF IsBelow
  <2>5. NextOf(A, E, s) \subseteq f[s]
    BY <2>4 DEF Beneath
  <2>6. f[s] \subseteq 1 .. s - 1
    <3>1. ASSUME NEW u \in f[s] PROVE u \in 1 .. s - 1
      <4>1. CASE u \in NextOf(A, E, s)
        BY <2>3, <4>1
      <4>2. CASE u \notin NextOf(A, E, s)
        <5>1. PICK t \in NextOf(A, E, s) : t \notin H /\ u \in f[t]
          BY <2>4, <4>2 DEF Beneath
        <5>2. t \in 1 .. s - 1 /\ u \in 1 .. t - 1
          BY <2>3, <5>1
        <5> QED
          BY <2>2, <5>2
      <4> QED
        BY <4>1, <4>2
    <3> QED
      BY <3>1
  <2>7. ASSUME NEW u \in f[s], u \notin H PROVE NextOf(A, E, u) \subseteq f[s]
    <3>1. \A t \in NextOf(A, E, s) : t \notin H => f[t] \subseteq f[s]
      BY <2>4 DEF Beneath
    <3>2. CASE u \in NextOf(A, E, s)
      BY <2>3, <2>7, <3>1, <3>2
    <3>3. CASE u \notin NextOf(A, E, s)
      <4>1. PICK t \in NextOf(A, E, s) : t \notin H /\ u \in f[t]
        BY <2>4, <3>3 DEF Beneath
      <4> QED
        BY <2>3, <2>7, <3>1, <4>1
    <3> QED
      BY <3>2, <3>3
  <2>8. Right(s)
    BY <2>5, <2>6, <2>7
  <2> QED
    BY <2>1, <2>8
<1> QED
  BY <1>1

(* When the search sees all embedded fields of the structs it goes         *)
(* through, they are closed under embedding.                               *)
LEMMA BelowClosed ==
  ASSUME NEW A, NEW E, NEW H, NEW D, NEW n, IsNet(A, E, H, D, n),
         NEW from \in 1 .. n, from \notin H, NEW f, IsBelow(f, A, E, H, from),
         NEW C, C = {s \in {from} \cup f[from] : s \notin H},
         \A x \in DOMAIN E : x.struct \in C => x.member \in ToSet(A[x.struct])
  PROVE  Closed(C, A, E, H, n) /\ from \in C
<1>1. n \in Nat /\ IsGraph(E) /\ from \in Nat /\ \A x \in DOMAIN E : E[x] \in Nat \ {0}
  BY DEF IsNet
<1>2. from \in 1 .. from
  BY <1>1
<1>3. /\ f[from] \subseteq 1 .. from - 1 /\ NextOf(A, E, from) \subseteq f[from]
      /\ \A t \in f[from] : t \notin H => NextOf(A, E, t) \subseteq f[from]
  BY <1>1, <1>2, BelowIs
<1>4. C \subseteq 1 .. n
  BY <1>1, <1>3
<1>5. ASSUME NEW x \in DOMAIN E, x.struct \in C, E[x] \notin H PROVE E[x] \in C
  <2>1. E[x] \in NextOf(A, E, x.struct)
    BY <1>5 DEF NextOf
  <2>2. E[x] \in f[from]
    BY <1>3, <1>5, <2>1
  <2> QED
    BY <1>5, <2>2
<1> QED
  BY <1>4, <1>5 DEF Closed

-----------------------------------------------------------------------------
(* The shortest of the paths, and what becomes of them.                    *)

LEMMA ShortestAre ==
  ASSUME NEW E, NEW H, NEW D, NEW s, s \notin H, NEW p, FoundRoutes(p, E, H, D, s)
  PROVE  /\ shortestPaths(p) \in Seq(PathSet(E)) /\ IsInjective(shortestPaths(p))
         /\ \A q \in ToSet(shortestPaths(p)) :
              q \in PathSet(E) /\ q.hops \in Nearest(E, H, s) /\ q.decls = D[EndOf(E, s, q.hops)]
         /\ \A h \in Nearest(E, H, s) : \E q \in ToSet(shortestPaths(p)) : q.hops = h
<1>1. PICK T : T = {q \in ToSet(p) : \A r \in ToSet(p) : Len(q.hops) <= Len(r.hops)}
  OBVIOUS
<1>2. PICK sh : sh = Among(p, T)
  OBVIOUS
<1>3. sh = shortestPaths(p)
  BY <1>1, <1>2 DEF shortestPaths
<1>4. sh \in Seq(PathSet(E)) /\ IsInjective(sh) /\ ToSet(sh) = ToSet(p) \cap T
  BY <1>2, AmongType, AmongDistinct, AmongRange DEF FoundRoutes
<1>5. \A h : h \in Nearest(E, H, s) <=>
               IsRoute(E, H, s, h) /\ \A g : IsRoute(E, H, s, g) => Len(h) <= Len(g)
  BY NearestRoutes
<1>6. /\ \A q \in ToSet(p) : IsRoute(E, H, s, q.hops) /\ q.decls = D[EndOf(E, s, q.hops)]
      /\ \A h : IsRoute(E, H, s, h) => \E q \in ToSet(p) : q.hops = h
  BY DEF FoundRoutes
<1>7. ASSUME NEW q \in ToSet(sh)
      PROVE  q \in PathSet(E) /\ q.hops \in Nearest(E, H, s) /\ q.decls = D[EndOf(E, s, q.hops)]
  <2>1. q \in ToSet(p) /\ \A r \in ToSet(p) : Len(q.hops) <= Len(r.hops)
    BY <1>1, <1>4
  <2>2. \A g : IsRoute(E, H, s, g) => Len(q.hops) <= Len(g)
    BY <1>6, <2>1
  <2>3. q \in PathSet(E)
    <3>1. PICK i \in 1 .. Len(sh) : q = sh[i]
      BY <1>4, LenProperties DEF ToSet
    <3> QED
      BY <1>4, <3>1, ElementOfSeq
  <2> QED
    BY <1>5, <1>6, <2>1, <2>2, <2>3
<1>8. ASSUME NEW h \in Nearest(E, H, s) PROVE \E q \in ToSet(sh) : q.hops = h
  <2>1. IsRoute(E, H, s, h) /\ \A g : IsRoute(E, H, s, g) => Len(h) <= Len(g)
    BY <1>5
  <2>2. PICK q \in ToSet(p) : q.hops = h
    BY <1>6, <2>1
  <2>3. \A r \in ToSet(p) : Len(q.hops) <= Len(r.hops)
    BY <1>6, <2>1, <2>2
  <2> QED
    BY <1>1, <1>4, <2>2, <2>3
<1> QED
  BY <1>3, <1>4, <1>7, <1>8

(* What a result says of the shortest ways to a field.                     *)
Resolves(r, E, H, D, s) ==
  /\ ResultSane(r)
  /\ Nearest(E, H, s) = {} => r = NotFound
  /\ \A h : Nearest(E, H, s) = {h} => r = resolveKind(D[EndOf(E, s, h)])
  /\ (\E g, h \in Nearest(E, H, s) : g # h) =>
       /\ r.kind = "Ambiguous" /\ r.ambiguity = "PromotedFields" /\ r.decls # {}
       /\ r.paths \in Seq(PathSet(E)) /\ Len(r.paths) > 1
       /\ \A i, j \in 1 .. Len(r.paths) : r.paths[i].hops = r.paths[j].hops => i = j
       /\ {r.paths[i].hops : i \in 1 .. Len(r.paths)} = Nearest(E, H, s)

LEMMA ResolvedOne ==
  ASSUME NEW x
  PROVE  /\ resolveKind({x}) = [kind |-> "Found", ambiguity |-> "none", decls |-> {x}, paths |-> << >>]
         /\ ResultSane(resolveKind({x}))
<1>1. Cardinality({x}) = 1
  BY FS_Singleton
<1>2. resolveKind({x}) = [kind |-> "Found", ambiguity |-> "none", decls |-> {x}, paths |-> << >>]
  <2>1. {x} # {} /\ ~(Cardinality({x}) > 1)
    BY <1>1
  <2>2. resolveKind({x}) = [NotFound EXCEPT !.decls = {x}, !.kind = "Found", !.ambiguity = "none"]
    BY <1>1, <2>1 DEF resolveKind
  <2> QED
    BY <2>2 DEF NotFound
<1> QED
  BY <1>1, <1>2 DEF ResultSane

LEMMA ResultOf ==
  ASSUME NEW E, NEW H, NEW D, NEW s, s \notin H, NEW p, FoundRoutes(p, E, H, D, s),
         \A t \in H : \E x : D[t] = {x}, NEW sh, sh = shortestPaths(p)
  PROVE  Resolves(IF sh = << >> THEN NotFound
                  ELSE IF Len(sh) > 1 THEN setAmbiguousPromotedFields(sh)
                  ELSE resolveKind(sh[1].decls), E, H, D, s)
<1>a. PICK r : r = IF sh = << >> THEN NotFound
                   ELSE IF Len(sh) > 1 THEN setAmbiguousPromotedFields(sh)
                   ELSE resolveKind(sh[1].decls)
  OBVIOUS
<1>b. PICK R : R = Nearest(E, H, s)
  OBVIOUS
<1>1. /\ sh \in Seq(PathSet(E)) /\ IsInjective(sh)
      /\ \A q \in ToSet(sh) : q \in PathSet(E) /\ q.hops \in R /\ q.decls = D[EndOf(E, s, q.hops)]
      /\ \A h \in R : \E q \in ToSet(sh) : q.hops = h
  BY <1>b, ShortestAre
<1>2. \A h \in R : EndOf(E, s, h) \in H
  BY <1>b DEF Nearest, Reaching
<1>3. ASSUME NEW q \in ToSet(sh) PROVE \E x : q.decls = {x}
  <2>1. EndOf(E, s, q.hops) \in H
    BY <1>1, <1>2
  <2>2. PICK x : D[EndOf(E, s, q.hops)] = {x}
    BY <2>1
  <2> QED
    BY <1>1, <2>2
<1>4. ASSUME NEW q \in ToSet(sh), NEW u \in ToSet(sh), q.hops = u.hops PROVE q = u
  <2>1. q.decls = u.decls
    BY <1>1, <1>4
  <2>2. q = [hops |-> q.hops, decls |-> q.decls] /\ u = [hops |-> u.hops, decls |-> u.decls]
    BY <1>1 DEF PathSet
  <2> QED
    BY <1>4, <2>1, <2>2
<1>5. /\ Len(sh) \in Nat /\ DOMAIN sh = 1 .. Len(sh)
      /\ \A i \in 1 .. Len(sh) : sh[i] \in ToSet(sh)
      /\ ToSet(sh) = {sh[i] : i \in 1 .. Len(sh)}
  BY <1>1, LenProperties DEF ToSet
<1>6. CASE sh = << >>
  <2>1. ToSet(sh) = {} /\ r = NotFound
    BY <1>a, <1>6 DEF ToSet
  <2>2. R = {}
    BY <1>1, <2>1
  <2>3. ResultSane(NotFound)
    BY DEF ResultSane, NotFound
  <2> QED
    <3>1. \A h : R # {h}
      BY <2>2
    <3> QED
      BY <1>a, <1>b, <2>1, <2>2, <2>3, <3>1 DEF Resolves
<1>7. CASE sh # << >> /\ ~(Len(sh) > 1)
  <2>1. Len(sh) = 1
    BY <1>1, <1>5, <1>7, EmptySeq
  <2>2. r = resolveKind(sh[1].decls) /\ sh[1] \in ToSet(sh) /\ ToSet(sh) = {sh[1]}
    BY <1>a, <1>5, <1>7, <2>1
  <2>3. R = {sh[1].hops} /\ r = resolveKind(D[EndOf(E, s, sh[1].hops)])
    BY <1>1, <2>2
  <2>4. ResultSane(r)
    <3>1. PICK x : sh[1].decls = {x}
      BY <1>3, <2>2
    <3> QED
      BY <2>2, <3>1, ResolvedOne
  <2>5. \A h : R = {h} => h = sh[1].hops
    BY <2>3
  <2>6. \A g, h \in R : g = h
    BY <2>3
  <2> QED
    <3>1. R # {}
      BY <2>3
    <3> QED
      BY <1>a, <1>b, <2>3, <2>4, <2>5, <2>6, <3>1 DEF Resolves
<1>8. CASE Len(sh) > 1
  <2>1. sh # << >>
    BY <1>8, EmptySeq
  <2>2. r = setAmbiguousPromotedFields(sh)
    BY <1>a, <1>8, <2>1
  <2>3. PICK ds : ds = UNION {sh[i].decls : i \in DOMAIN sh}
    OBVIOUS
  <2>4. r = [kind |-> "Ambiguous", ambiguity |-> "PromotedFields", decls |-> ds, paths |-> sh]
    BY <2>2, <2>3 DEF setAmbiguousPromotedFields, resolveKind, NotFound
  <2>5. 1 \in 1 .. Len(sh) /\ 2 \in 1 .. Len(sh)
    BY <1>5, <1>8
  <2>6. ds # {}
    <3>1. PICK x : sh[1].decls = {x}
      BY <1>3, <1>5, <2>5
    <3>2. sh[1].decls \subseteq ds
      BY <1>5, <2>3, <2>5
    <3> QED
      BY <3>1, <3>2
  <2>7. ASSUME NEW i \in 1 .. Len(sh), NEW j \in 1 .. Len(sh), sh[i].hops = sh[j].hops
        PROVE  i = j
    <3>1. sh[i] = sh[j]
      BY <1>4, <1>5, <2>7
    <3> QED
      BY <1>1, <1>5, <3>1 DEF IsInjective
  <2>8. {sh[i].hops : i \in 1 .. Len(sh)} = R
    <3>1. \A i \in 1 .. Len(sh) : sh[i].hops \in R
      BY <1>1, <1>5
    <3>2. ASSUME NEW h \in R PROVE \E i \in 1 .. Len(sh) : sh[i].hops = h
      <4>1. PICK q \in ToSet(sh) : q.hops = h
        BY <1>1
      <4>2. PICK i \in 1 .. Len(sh) : q = sh[i]
        BY <1>5
      <4> QED
        BY <4>1, <4>2
    <3> QED
      BY <3>1, <3>2
  <2>9. \E g, h \in R : g # h
    <3>1. sh[1].hops \in R /\ sh[2].hops \in R
      BY <2>5, <2>8
    <3>2. sh[1].hops # sh[2].hops
      BY <2>5, <2>7
    <3> QED
      BY <3>1, <3>2
  <2>10. ResultSane(r)
    BY <2>1, <2>4, <2>6 DEF ResultSane
  <2>11. R # {} /\ \A h : R # {h}
    BY <2>9
  <2> QED
    <3>1. /\ r.kind = "Ambiguous" /\ r.ambiguity = "PromotedFields" /\ r.decls # {}
          /\ r.paths = sh
      BY <2>4, <2>6
    <3>2. /\ r.paths \in Seq(PathSet(E)) /\ Len(r.paths) > 1
          /\ \A i, j \in 1 .. Len(r.paths) : r.paths[i].hops = r.paths[j].hops => i = j
          /\ {r.paths[i].hops : i \in 1 .. Len(r.paths)} = R
      BY <1>1, <1>8, <2>7, <2>8, <3>1
    <3>3. Resolves(r, E, H, D, s)
      BY <1>b, <2>10, <2>11, <3>1, <3>2 DEF Resolves
    <3> QED
      BY <1>a, <3>3
<1> QED
  BY <1>6, <1>7, <1>8

-----------------------------------------------------------------------------
(* The rule: the chains of each length, and the shallowest that reach the  *)
(* field.                                                                  *)

Graph    == GraphOf(structs, types)
Having(n) == HasIn(structs, n)
InShape  == \E F : Shape(structs, types, F)

LEMMA GraphFacts ==
  ASSUME InShape
  PROVE  /\ Len(structs) \in Nat /\ DOMAIN structs = 1 .. Len(structs) /\ IsGraph(Graph)
         /\ \A x \in DOMAIN Graph : /\ x \in HopSet /\ x.struct \in 1 .. Len(structs)
                                    /\ Graph[x] \in 1 .. Len(structs)
                                    /\ Graph[x] = Target(x.struct, x.member)
                                    /\ x.member \in ToSet(Members(x.struct))
                                    /\ Member(x.struct, x.member).anon
                                    /\ x.member[2] = 1
         /\ \A s \in 1 .. Len(structs), m \in Nat \X Nat :
              Hop(s, m) \in DOMAIN Graph <=>
                m \in ToSet(Members(s)) /\ Member(s, m).anon /\ Target(s, m) # 0
         /\ \A s \in 1 .. Len(structs), m \in Nat \X Nat :
              Hop(s, m) \in DOMAIN Graph => Graph[Hop(s, m)] = Target(s, m)
         /\ \A s \in 1 .. Len(structs) : \A m \in ToSet(Members(s)) : m \in Nat \X Nat
<1>1. PICK F : Shape(structs, types, F)
  BY DEF InShape
<1>2. /\ IsGraph(Graph) /\ DOMAIN Graph = EdgesIn(structs, types)
      /\ \A x \in DOMAIN Graph : /\ Graph[x] = TargetIn(structs, types, x.struct, x.member)
                                 /\ Graph[x] \in 1 .. Len(structs)
      /\ \A s \in 1 .. Len(structs), m \in Nat \X Nat :
           Hop(s, m) \in DOMAIN Graph <=>
             /\ m \in ToSet(Places(structs[s])) /\ At(structs[s], m).anon
             /\ TargetIn(structs, types, s, m) # 0
  BY <1>1, GraphIs DEF Graph
<1>3. /\ \A s : Members(s) = Places(structs[s])
      /\ \A s, m : Member(s, m) = At(structs[s], m)
      /\ \A s, m : Target(s, m) = TargetIn(structs, types, s, m)
  BY State DEF InState
<1>4. structs \in Seq(Seq(Seq(F))) /\ Len(structs) \in Nat /\ DOMAIN structs = 1 .. Len(structs)
  BY <1>1, LenProperties DEF Shape
<1>5. ASSUME NEW x \in DOMAIN Graph
      PROVE  /\ x \in HopSet /\ x.struct \in 1 .. Len(structs)
             /\ x.member \in ToSet(Members(x.struct)) /\ Member(x.struct, x.member).anon
             /\ x.member[2] = 1
  <2>1. /\ x \in [struct : 1 .. Len(structs), member : Nat \X Nat]
        /\ x.member \in ToSet(Places(structs[x.struct])) /\ At(structs[x.struct], x.member).anon
    BY <1>2 DEF EdgesIn
  <2>2. x \in HopSet
    BY <1>2 DEF IsGraph, HopSet
  <2>3. x.member[2] = 1
    BY <1>1, <2>1 DEF Shape
  <2> QED
    BY <1>3, <2>1, <2>2, <2>3
<1>6. ASSUME NEW s \in 1 .. Len(structs), NEW m \in ToSet(Members(s)) PROVE m \in Nat \X Nat
  <2>1. structs[s] \in Seq(Seq(F))
    BY <1>4, ElementOfSeq
  <2> QED
    BY <1>3, <2>1, PlacesAre DEF IsPlace
<1>7. \A s \in 1 .. Len(structs), m \in Nat \X Nat :
        Hop(s, m) \in DOMAIN Graph => Graph[Hop(s, m)] = Target(s, m)
  BY <1>2, <1>3, HopIs
<1> QED
  BY <1>2, <1>3, <1>4, <1>5, <1>6, <1>7

Way(E, from, h) == [hops |-> h, end |-> EndOf(E, from, h)]
ChainsOf(E, from, d) == {h \in Seq(DOMAIN E) : IsChain(E, from, h) /\ Len(h) = d}
WaysOf(E, from, d) == {Way(E, from, h) : h \in ChainsOf(E, from, d)}
OneOn(w) == {[hops |-> Append(w.hops, Hop(w.end, m)), end |-> Target(w.end, m)] :
               m \in Embedded(w.end)}
IsWays(f, from) ==
  f = [d \in 0 .. Len(structs) |->
         IF d = 0 THEN {[hops |-> << >>, end |-> from]} ELSE UNION {OneOn(w) : w \in f[d - 1]}]

LEMMA WaysChoose ==
  ASSUME NEW from
  PROVE  Ways(from) = CHOOSE f : IsWays(f, from)
BY DEF Ways, IsWays, OneOn

LEMMA WaysStep ==
  ASSUME InShape, NEW from \in 1 .. Len(structs), NEW d \in Nat
  PROVE  /\ WaysOf(Graph, from, 0) = {[hops |-> << >>, end |-> from]}
         /\ UNION {OneOn(w) : w \in WaysOf(Graph, from, d)} = WaysOf(Graph, from, d + 1)
<1>1. PICK E : E = Graph
  OBVIOUS
<1>2. /\ Len(structs) \in Nat /\ IsGraph(E)
      /\ \A x \in DOMAIN E : /\ x \in HopSet /\ x.struct \in 1 .. Len(structs)
                             /\ E[x] \in 1 .. Len(structs)
      /\ \A s \in 1 .. Len(structs), m \in Nat \X Nat :
           Hop(s, m) \in DOMAIN E <=>
             m \in ToSet(Members(s)) /\ Member(s, m).anon /\ Target(s, m) # 0
      /\ \A s \in 1 .. Len(structs), m \in Nat \X Nat :
           Hop(s, m) \in DOMAIN E => E[Hop(s, m)] = Target(s, m)
      /\ \A s \in 1 .. Len(structs) : \A m \in ToSet(Members(s)) : m \in Nat \X Nat
  BY <1>1, GraphFacts
<1>3. ChainsOf(E, from, 0) = {<< >>}
  <2>1. << >> \in ChainsOf(E, from, 0)
    BY EmptySeq, ChainEmpty DEF ChainsOf
  <2>2. ASSUME NEW h \in ChainsOf(E, from, 0) PROVE h = << >>
    BY EmptySeq DEF ChainsOf
  <2> QED
    BY <2>1, <2>2
<1>4. WaysOf(E, from, 0) = {[hops |-> << >>, end |-> from]}
  BY <1>3, ChainEmpty DEF WaysOf, Way
<1>5. ASSUME NEW s \in 1 .. Len(structs)
      PROVE  \A m : m \in Embedded(s) <=> m \in Nat \X Nat /\ Hop(s, m) \in DOMAIN E
  BY <1>2 DEF Embedded
<1>6. ASSUME NEW h \in ChainsOf(E, from, d) PROVE EndOf(E, from, h) \in 1 .. Len(structs)
  <2>1. h \in Seq(DOMAIN E)
    BY DEF ChainsOf
  <2>2. CASE h = << >>
    BY <2>2 DEF EndOf
  <2>3. CASE h # << >>
    <3>1. Len(h) \in 1 .. Len(h)
      BY <2>1, <2>3, EmptySeq
    <3>2. h[Len(h)] \in DOMAIN E
      BY <2>1, <3>1, ElementOfSeq
    <3> QED
      BY <1>2, <2>3, <3>2 DEF EndOf
  <2> QED
    BY <2>2, <2>3
<1>7. ASSUME NEW w \in WaysOf(E, from, d), NEW v \in OneOn(w) PROVE v \in WaysOf(E, from, d + 1)
  <2>1. PICK h \in ChainsOf(E, from, d) : w.hops = h /\ w.end = EndOf(E, from, h)
    BY DEF WaysOf, Way
  <2>2. PICK s \in 1 .. Len(structs) : s = w.end
    BY <1>6, <2>1
  <2>3. PICK m \in Embedded(s) : v = [hops |-> Append(h, Hop(s, m)), end |-> Target(s, m)]
    BY <2>1, <2>2 DEF OneOn
  <2>4. m \in Nat \X Nat /\ Hop(s, m) \in DOMAIN E
    BY <1>5
  <2>5. PICK x \in DOMAIN E : x = Hop(s, m)
    BY <2>4
  <2>6. x.struct = s /\ E[x] = Target(s, m)
    BY <1>2, <2>4, <2>5, HopIs
  <2>7. h \in Seq(DOMAIN E) /\ IsChain(E, from, h) /\ Len(h) = d
    BY DEF ChainsOf
  <2>8. PICK g : g = Append(h, x)
    OBVIOUS
  <2>9. IsChain(E, from, g) /\ EndOf(E, from, g) = E[x]
    BY <2>1, <2>2, <2>6, <2>7, <2>8, ChainAppend
  <2>10. g \in Seq(DOMAIN E) /\ Len(g) = d + 1
    BY <2>7, <2>8, AppendProperties
  <2>11. g \in ChainsOf(E, from, d + 1)
    BY <2>9, <2>10 DEF ChainsOf
  <2>12. v = [hops |-> g, end |-> EndOf(E, from, g)]
    BY <2>3, <2>5, <2>6, <2>8, <2>9
  <2> QED
    BY <2>11, <2>12 DEF WaysOf, Way
<1>8. ASSUME NEW v \in WaysOf(E, from, d + 1)
      PROVE  \E w \in WaysOf(E, from, d) : v \in OneOn(w)
  <2>1. PICK g \in ChainsOf(E, from, d + 1) : v = [hops |-> g, end |-> EndOf(E, from, g)]
    BY DEF WaysOf, Way
  <2>2. g \in Seq(DOMAIN E) /\ IsChain(E, from, g) /\ Len(g) = d + 1 /\ Len(g) # 0
    BY DEF ChainsOf
  <2>3. PICK h \in Seq(DOMAIN E), x \in DOMAIN E :
          g = Append(h, x) /\ Len(h) \in Nat /\ Len(g) = Len(h) + 1
    BY <2>2, LastItem
  <2>4. IsChain(E, from, h) /\ x.struct = EndOf(E, from, h) /\ EndOf(E, from, g) = E[x]
    BY <2>2, <2>3, ChainAppend
  <2>5. h \in ChainsOf(E, from, d)
    BY <2>2, <2>3, <2>4 DEF ChainsOf
  <2>6. PICK w : w = [hops |-> h, end |-> EndOf(E, from, h)]
    OBVIOUS
  <2>7. w \in WaysOf(E, from, d) /\ w.hops = h /\ w.end = x.struct
    BY <2>4, <2>5, <2>6 DEF WaysOf, Way
  <2>8. PICK s \in 1 .. Len(structs) : s = x.struct
    BY <1>2
  <2>9. PICK m \in Nat \X Nat : m = x.member
    BY <1>2 DEF HopSet
  <2>10. x = Hop(s, m)
    BY <1>2, <2>8, <2>9 DEF Hop, HopSet
  <2>11. m \in Embedded(s) /\ Target(s, m) = E[x]
    BY <1>2, <1>5, <2>10
  <2>12. v = [hops |-> Append(w.hops, Hop(w.end, m)), end |-> Target(w.end, m)]
    BY <2>1, <2>3, <2>4, <2>7, <2>8, <2>10, <2>11
  <2>13. v \in OneOn(w)
    BY <2>7, <2>8, <2>11, <2>12 DEF OneOn
  <2> QED
    BY <2>7, <2>13
<1>9. UNION {OneOn(w) : w \in WaysOf(E, from, d)} = WaysOf(E, from, d + 1)
  BY <1>7, <1>8
<1> QED
  BY <1>1, <1>4, <1>9

LEMMA WaysAre ==
  ASSUME InShape, NEW from \in 1 .. Len(structs)
  PROVE  \A d \in 0 .. Len(structs) : Ways(from)[d] = WaysOf(Graph, from, d)
<1>1. PICK L \in Nat : L = Len(structs)
  BY GraphFacts
<1>2. /\ WaysOf(Graph, from, 0) = {[hops |-> << >>, end |-> from]}
      /\ \A d \in Nat : UNION {OneOn(w) : w \in WaysOf(Graph, from, d)} = WaysOf(Graph, from, d + 1)
  BY WaysStep
<1> DEFINE W == [d \in 0 .. L |-> WaysOf(Graph, from, d)]
<1>3. IsWays(W, from)
  <2>1. \A d \in 0 .. L : W[d] = WaysOf(Graph, from, d)
    OBVIOUS
  <2>2. W = [d \in 0 .. L |-> W[d]]
    OBVIOUS
  <2> HIDE DEF W
  <2>3. ASSUME NEW d \in 0 .. L
        PROVE  W[d] = IF d = 0 THEN {[hops |-> << >>, end |-> from]}
                      ELSE UNION {OneOn(w) : w \in W[d - 1]}
    <3>1. CASE d = 0
      BY <1>2, <2>1, <3>1
    <3>2. CASE d # 0
      <4>1. PICK k \in 0 .. L : d = k + 1 /\ k = d - 1 /\ k \in Nat
        <5>1. d - 1 \in 0 .. L /\ d = d - 1 + 1 /\ d - 1 \in Nat
          BY <1>1, <3>2
        <5> QED
          BY <5>1
      <4>2. W[d] = UNION {OneOn(w) : w \in WaysOf(Graph, from, k)}
        BY <1>2, <2>1, <4>1
      <4> QED
        BY <2>1, <3>2, <4>1, <4>2
    <3> QED
      BY <3>1, <3>2
  <2> QED
    BY <1>1, <2>2, <2>3, Zenon DEF IsWays
<1>4. PICK f : f = Ways(from)
  OBVIOUS
<1>5. IsWays(f, from)
  <2> HIDE DEF W
  <2> QED
    BY <1>3, <1>4, WaysChoose
<1>6. \A d \in 0 .. L : f[d] = IF d = 0 THEN {[hops |-> << >>, end |-> from]}
                               ELSE UNION {OneOn(w) : w \in f[d - 1]}
  BY <1>1, <1>5 DEF IsWays
<1> DEFINE Bad == {d \in 0 .. L : f[d] # WaysOf(Graph, from, d)}
<1>7. ASSUME Bad # {} PROVE FALSE
  <2>1. PICK d \in Bad : \A c \in Bad : d <= c
    <3>1. Bad \in SUBSET Nat
      BY <1>1
    <3> HIDE DEF Bad
    <3> QED
      BY <1>7, <3>1, LeastElement
  <2>2. d \in 0 .. L /\ f[d] # WaysOf(Graph, from, d)
    BY <2>1
  <2>3. CASE d = 0
    BY <1>2, <1>6, <2>2, <2>3
  <2>4. CASE d # 0
    <3>1. PICK k \in 0 .. L : d = k + 1 /\ k = d - 1 /\ k \in Nat /\ ~(d <= k)
      <4>1. d - 1 \in 0 .. L /\ d = d - 1 + 1 /\ d - 1 \in Nat /\ ~(d <= d - 1)
        BY <1>1, <2>2, <2>4
      <4> QED
        BY <4>1
    <3>2. k \notin Bad
      <4> HIDE DEF Bad
      <4> QED
        BY <2>1, <3>1
    <3>3. f[k] = WaysOf(Graph, from, k)
      BY <3>1, <3>2
    <3>4. f[d] = UNION {OneOn(w) : w \in f[k]}
      BY <1>6, <2>2, <2>4, <3>1
    <3> QED
      BY <1>2, <2>2, <3>1, <3>3, <3>4
  <2> QED
    BY <2>3, <2>4
<1> QED
  BY <1>1, <1>4, <1>7

LEMMA EndsInStructs ==
  ASSUME InShape, NEW from \in 1 .. Len(structs), NEW h, IsChain(Graph, from, h)
  PROVE  EndOf(Graph, from, h) \in 1 .. Len(structs) /\ Len(h) \in 0 .. Len(structs)
<1>1. /\ Len(structs) \in Nat /\ IsGraph(Graph)
      /\ \A x \in DOMAIN Graph : Graph[x] \in 1 .. Len(structs)
  BY GraphFacts
<1>2. h \in Seq(DOMAIN Graph) /\ Len(h) \in Nat
  BY LenProperties DEF IsChain
<1>3. EndOf(Graph, from, h) \in 1 .. Len(structs)
  <2>1. CASE h = << >>
    BY <2>1 DEF EndOf
  <2>2. CASE h # << >>
    <3>1. Len(h) \in 1 .. Len(h)
      BY <1>2, <2>2, EmptySeq
    <3>2. h[Len(h)] \in DOMAIN Graph
      BY <1>2, <3>1, ElementOfSeq
    <3> QED
      BY <1>1, <2>2, <3>2 DEF EndOf
  <2> QED
    BY <2>1, <2>2
<1>4. Len(h) + EndOf(Graph, from, h) <= from
  BY <1>1, ChainShort
<1> QED
  BY <1>1, <1>2, <1>3, <1>4

LEMMA ShallowestIs ==
  ASSUME InShape, NEW s \in 1 .. Len(structs), NEW n
  PROVE  Shallowest(s, n) = {Way(Graph, s, h) : h \in Nearest(Graph, Having(n), s)}
<1>1. PICK E : E = Graph
  OBVIOUS
<1>2. PICK H : H = Having(n)
  OBVIOUS
<1>3. PICK L \in Nat : L = Len(structs)
  BY GraphFacts
<1>4. \A t \in 1 .. L : Named(t, n) # << >> <=> t \in H
  <2>1. \A t : Named(t, n) = NamedIn(structs[t], n)
    BY State DEF InState
  <2> QED
    BY <1>2, <1>3, <2>1 DEF Having, HasIn
<1>5. \A h : IsChain(E, s, h) => EndOf(E, s, h) \in 1 .. L /\ Len(h) \in 0 .. L
  BY <1>1, <1>3, EndsInStructs
<1>6. PICK ways : ways = Ways(s)
  OBVIOUS
<1>7. \A d \in 0 .. L : ways[d] = WaysOf(E, s, d)
  BY <1>1, <1>3, <1>6, WaysAre
<1> DEFINE Found(d) == {w \in ways[d] : Named(w.end, n) # << >>}
           depths   == {d \in 0 .. L : Found(d) # {}}
<1>8. Shallowest(s, n) = IF depths = {} THEN {} ELSE Found(Min(depths))
  BY <1>3, <1>6 DEF Shallowest
<1>9. ASSUME NEW d \in 0 .. L
      PROVE  Found(d) = {Way(E, s, h) : h \in {g \in Reaching(E, H, s) : Len(g) = d}}
  <2>1. ASSUME NEW w \in Found(d)
        PROVE  \E h \in Reaching(E, H, s) : Len(h) = d /\ w = Way(E, s, h)
    <3>1. w \in WaysOf(E, s, d) /\ Named(w.end, n) # << >>
      BY <1>7
    <3>2. PICK h \in ChainsOf(E, s, d) : w = Way(E, s, h)
      BY <3>1 DEF WaysOf
    <3>3. w.end = EndOf(E, s, h) /\ h \in Seq(DOMAIN E) /\ IsChain(E, s, h) /\ Len(h) = d
      BY <3>2 DEF Way, ChainsOf
    <3>4. EndOf(E, s, h) \in H
      BY <1>4, <1>5, <3>1, <3>3
    <3> QED
      BY <3>2, <3>3, <3>4 DEF Reaching
  <2>2. ASSUME NEW h \in Reaching(E, H, s), Len(h) = d PROVE Way(E, s, h) \in Found(d)
    <3>1. h \in Seq(DOMAIN E) /\ IsChain(E, s, h) /\ EndOf(E, s, h) \in H
      BY DEF Reaching
    <3>2. Way(E, s, h) \in WaysOf(E, s, d)
      BY <2>2, <3>1 DEF WaysOf, ChainsOf
    <3>3. Way(E, s, h).end = EndOf(E, s, h)
      BY DEF Way
    <3>4. Named(Way(E, s, h).end, n) # << >>
      BY <1>4, <1>5, <3>1, <3>3
    <3> QED
      BY <1>7, <3>2, <3>4
  <2> HIDE DEF Found
  <2> QED
    BY <2>1, <2>2
<1> HIDE DEF Found
<1>10. \A h \in Reaching(E, H, s) : Len(h) \in 0 .. L
  BY <1>5 DEF Reaching
<1>11. \A h : h \in Nearest(E, H, s) <=>
                h \in Reaching(E, H, s) /\ \A g \in Reaching(E, H, s) : Len(h) <= Len(g)
  BY DEF Nearest
<1>12. depths \in SUBSET Nat
  BY <1>3
<1>13. \A h \in Reaching(E, H, s) : Len(h) \in depths
  BY <1>9, <1>10
<1>14. \A d \in depths : d \in 0 .. L /\ \E h \in Reaching(E, H, s) : Len(h) = d
  BY <1>9
<1> HIDE DEF depths
<1>15. CASE depths = {}
  <2>1. Nearest(E, H, s) = {}
    BY <1>11, <1>13, <1>15
  <2> QED
    BY <1>1, <1>2, <1>8, <1>15, <2>1
<1>16. CASE depths # {}
  <2>1. PICK d \in depths : d = Min(depths) /\ \A c \in depths : d <= c
    BY <1>12, <1>16, MinIsLeast
  <2>2. \A h : h \in Nearest(E, H, s) <=> h \in Reaching(E, H, s) /\ Len(h) = d
    <3>1. ASSUME NEW h \in Nearest(E, H, s) PROVE h \in Reaching(E, H, s) /\ Len(h) = d
      <4>1. PICK g \in Reaching(E, H, s) : Len(g) = d
        BY <1>14, <2>1
      <4>2. Len(h) <= d /\ d <= Len(h) /\ Len(h) \in Nat /\ d \in Nat
        BY <1>3, <1>10, <1>11, <1>13, <1>14, <2>1, <4>1
      <4> QED
        BY <1>11, <4>2
    <3>2. ASSUME NEW h \in Reaching(E, H, s), Len(h) = d PROVE h \in Nearest(E, H, s)
      BY <1>11, <1>13, <2>1, <3>2
    <3> QED
      BY <3>1, <3>2
  <2>3. Shallowest(s, n) = Found(d)
    BY <1>8, <1>16, <2>1
  <2>4. Found(d) = {Way(E, s, h) : h \in {g \in Reaching(E, H, s) : Len(g) = d}}
    BY <1>9, <1>14, <2>1
  <2>5. {g \in Reaching(E, H, s) : Len(g) = d} = Nearest(E, H, s)
    BY <1>11, <2>2
  <2> QED
    BY <1>1, <1>2, <2>3, <2>4, <2>5
<1> QED
  BY <1>15, <1>16

-----------------------------------------------------------------------------
(* The search of the model is the one above.                               *)

TablesRight == \A s \in 1 .. Len(structs) : \A n \in Names : lookup(s, n) = Named(s, n)
Seen        == [s \in 1 .. Len(structs) |-> anon_fields(s)]
Declaring(n) == [s \in 1 .. Len(structs) |-> Decls(s, n)]

LEMMA SeenFacts ==
  ASSUME InShape, NEW s \in 1 .. Len(structs)
  PROVE  /\ anon_fields(s) \in Seq(Nat \X Nat) /\ IsInjective(anon_fields(s))
         /\ \A m \in ToSet(anon_fields(s)) :
              m \in Nat \X Nat /\ m \in ToSet(Members(s)) /\ Member(s, m).anon
         /\ Intact(s) => \A x \in DOMAIN Graph :
              x.struct = s => x.member \in ToSet(anon_fields(s))
<1>1. PICK F : Shape(structs, types, F)
  BY DEF InShape
<1>2. structs[s] \in Seq(Seq(F))
  BY <1>1, ElementOfSeq DEF Shape
<1>3. /\ Members(s) = Places(structs[s])
      /\ \A m : Member(s, m) = At(structs[s], m)
      /\ Intact(s) <=> Whole(structs[s])
      /\ anon_fields(s) = AnonIn(structs[s])
  BY State DEF InState
<1>4. /\ AnonIn(structs[s]) \in Seq(Nat \X Nat) /\ IsInjective(AnonIn(structs[s]))
      /\ \A m \in ToSet(AnonIn(structs[s])) :
           m \in ToSet(Places(structs[s])) /\ At(structs[s], m).anon
      /\ Whole(structs[s]) =>
           \A m \in ToSet(Places(structs[s])) :
             At(structs[s], m).anon /\ m[2] = 1 => m \in ToSet(AnonIn(structs[s]))
  BY <1>2, AnonAre
<1>5. \A m \in ToSet(Places(structs[s])) : m \in Nat \X Nat
  BY <1>2, PlacesAre DEF IsPlace
<1>6. ASSUME Intact(s), NEW x \in DOMAIN Graph, x.struct = s
      PROVE  x.member \in ToSet(anon_fields(s))
  <2>1. x.member \in ToSet(Members(s)) /\ Member(s, x.member).anon /\ x.member[2] = 1
    BY <1>6, GraphFacts
  <2> QED
    BY <1>3, <1>4, <1>6, <2>1
<1> QED
  BY <1>3, <1>4, <1>5, <1>6

LEMMA DeclsAre ==
  ASSUME InShape, TablesRight, NEW n \in Names, NEW s \in 1 .. Len(structs)
  PROVE  /\ Decls(s, n) \in SUBSET HopSet
         /\ Decls(s, n) = {} <=> s \notin Having(n)
         /\ Decls(s, n) # {} =>
              \E m : Named(s, n) = <<m>> /\ ToSet(Named(s, n)) = {m} /\ Decls(s, n) = {Hop(s, m)}
<1>1. PICK F : Shape(structs, types, F)
  BY DEF InShape
<1>2. structs[s] \in Seq(Seq(F)) /\ NamesApart(structs[s]) /\ Len(structs) \in Nat
  BY <1>1, ElementOfSeq, LenProperties DEF Shape
<1>3. PICK ms : ms = NamedIn(structs[s], n)
  OBVIOUS
<1>4. Named(s, n) = ms
  BY <1>3, State DEF InState
<1>5. Decls(s, n) = {Hop(s, m) : m \in ToSet(ms)}
  BY <1>4 DEF Decls, TablesRight
<1>6. ms \in Seq(Nat \X Nat) /\ IsInjective(ms)
  BY <1>2, <1>3, NamedAre
<1>7. ms # << >> => \E m : ToSet(ms) = {m} /\ ms = <<m>>
  BY <1>2, <1>3, NamedOne
<1>8. (ms = << >>) <=> (ToSet(ms) = {})
  BY <1>6, AtMostOne
<1>9. s \in Having(n) <=> ms # << >>
  BY <1>3 DEF Having, HasIn
<1>10. (Decls(s, n) = {}) <=> (s \notin Having(n))
  BY <1>5, <1>8, <1>9
<1>11. Decls(s, n) \in SUBSET HopSet
  <2>1. \A m \in ToSet(ms) : m \in Nat \X Nat
    <3>1. \A i \in 1 .. Len(ms) : ms[i] \in Nat \X Nat
      BY <1>6, ElementOfSeq
    <3> QED
      BY <1>6, <3>1, LenProperties DEF ToSet
  <2>2. s \in Nat
    BY <1>2
  <2>3. \A m \in Nat \X Nat : Hop(s, m) \in HopSet
    BY <2>2 DEF Hop, HopSet
  <2> QED
    BY <1>5, <2>1, <2>3
<1>12. ASSUME Decls(s, n) # {}
       PROVE  \E m : ms = <<m>> /\ ToSet(ms) = {m} /\ Decls(s, n) = {Hop(s, m)}
  <2>1. PICK m : ToSet(ms) = {m} /\ ms = <<m>>
    BY <1>7, <1>9, <1>10, <1>12
  <2> QED
    BY <1>5, <2>1
<1> QED
  BY <1>4, <1>10, <1>11, <1>12

LEMMA NetIs ==
  ASSUME InShape, TablesRight, NEW n \in Names
  PROVE  IsNet(Seen, Graph, Having(n), Declaring(n), Len(structs))
<1>1. Len(structs) \in Nat /\ IsGraph(Graph)
      /\ \A x \in DOMAIN Graph : x.struct \in 1 .. Len(structs) /\ Graph[x] \in 1 .. Len(structs)
  BY GraphFacts
<1>2. \A s \in 1 .. Len(structs) : anon_fields(s) \in Seq(Nat \X Nat) /\ IsInjective(anon_fields(s))
  BY SeenFacts
<1>3. \A s \in 1 .. Len(structs) : Decls(s, n) \in SUBSET HopSet
  BY DeclsAre
<1>4. Seen \in [1 .. Len(structs) -> Seq(Nat \X Nat)] /\ \A s \in 1 .. Len(structs) : IsInjective(Seen[s])
  BY <1>2 DEF Seen
<1>5. Declaring(n) \in [1 .. Len(structs) -> SUBSET HopSet]
  BY <1>3 DEF Declaring
<1> QED
  BY <1>1, <1>4, <1>5 DEF IsNet

Finds(f, from, n) ==
  f = [s \in 1 .. from |->
         FlattenSeq([i \in DOMAIN anon_fields(s) |-> PathsThrough(f, s, anon_fields(s)[i], n)])]

LEMMA FindsChoose ==
  ASSUME NEW from, NEW n
  PROVE  lookupInBases(from, n) = (CHOOSE f : Finds(f, from, n))[from]
BY DEF lookupInBases, Finds

LEMMA PathsAre ==
  ASSUME InShape, TablesRight, NEW n \in Names, NEW s \in 1 .. Len(structs),
         NEW m \in ToSet(anon_fields(s)), NEW f
  PROVE  PathsThrough(f, s, m, n) = Through(f, Graph, Having(n), Declaring(n), s, m)
<1>1. m \in Nat \X Nat /\ m \in ToSet(Members(s)) /\ Member(s, m).anon
  BY SeenFacts
<1>2. PICK t : t = Target(s, m)
  OBVIOUS
<1>3. PICK x : x = Hop(s, m)
  OBVIOUS
<1>4. x \in DOMAIN Graph <=> t # 0
  BY <1>1, <1>2, <1>3, GraphFacts
<1>5. CASE t = 0
  <2>1. PathsThrough(f, s, m, n) = << >>
    BY <1>2, <1>5 DEF PathsThrough
  <2>2. Through(f, Graph, Having(n), Declaring(n), s, m) = << >>
    BY <1>3, <1>4, <1>5 DEF Through
  <2> QED
    BY <2>1, <2>2
<1>6. CASE t # 0
  <2>1. Graph[x] = t /\ t \in 1 .. Len(structs) /\ x \in DOMAIN Graph
    BY <1>1, <1>2, <1>3, <1>4, <1>6, GraphFacts
  <2>2. Declaring(n)[t] = Decls(t, n) /\ (Decls(t, n) = {} <=> t \notin Having(n))
    BY <2>1, DeclsAre DEF Declaring
  <2>3. CASE t \in Having(n)
    <3>1. PathsThrough(f, s, m, n) = << [hops |-> <<x>>, decls |-> Decls(t, n)] >>
      BY <1>2, <1>3, <1>6, <2>2, <2>3 DEF PathsThrough
    <3>2. Through(f, Graph, Having(n), Declaring(n), s, m) = << [hops |-> <<x>>, decls |-> Decls(t, n)] >>
      BY <1>3, <2>1, <2>2, <2>3 DEF Through
    <3> QED
      BY <3>1, <3>2
  <2>4. CASE t \notin Having(n)
    <3>1. PathsThrough(f, s, m, n) = [i \in DOMAIN f[t] |-> [f[t][i] EXCEPT !.hops = <<x>> \o @]]
      BY <1>2, <1>3, <1>6, <2>2, <2>4 DEF PathsThrough
    <3>2. Through(f, Graph, Having(n), Declaring(n), s, m) =
            [i \in DOMAIN f[t] |-> [f[t][i] EXCEPT !.hops = <<x>> \o @]]
      BY <1>3, <2>1, <2>4 DEF Through
    <3> QED
      BY <3>1, <3>2
  <2> QED
    BY <2>3, <2>4
<1> QED
  BY <1>5, <1>6

LEMMA FindsIs ==
  ASSUME InShape, TablesRight, NEW n \in Names, NEW from \in 1 .. Len(structs), NEW f
  PROVE  Finds(f, from, n) <=> IsSearch(f, Seen, Graph, Having(n), Declaring(n), from)
<1>1. ASSUME NEW s \in 1 .. from
      PROVE  [i \in DOMAIN anon_fields(s) |-> PathsThrough(f, s, anon_fields(s)[i], n)] =
               Bundle(f, Seen, Graph, Having(n), Declaring(n), s)
  <2>1. s \in 1 .. Len(structs)
    BY GraphFacts
  <2>2. Seen[s] = anon_fields(s)
    BY <2>1 DEF Seen
  <2>3. ASSUME NEW i \in DOMAIN anon_fields(s)
        PROVE  PathsThrough(f, s, anon_fields(s)[i], n) =
                 Through(f, Graph, Having(n), Declaring(n), s, anon_fields(s)[i])
    <3>1. anon_fields(s)[i] \in ToSet(anon_fields(s))
      BY DEF ToSet
    <3> QED
      BY <2>1, <3>1, PathsAre
  <2> QED
    BY <2>2, <2>3 DEF Bundle
<1>2. [s \in 1 .. from |->
         FlattenSeq([i \in DOMAIN anon_fields(s) |-> PathsThrough(f, s, anon_fields(s)[i], n)])] =
      [s \in 1 .. from |-> FlattenSeq(Bundle(f, Seen, Graph, Having(n), Declaring(n), s))]
  BY <1>1
<1> QED
  BY <1>2 DEF Finds, IsSearch

Falls(f, from, n) ==
  f = [s \in 1 .. from |->
         ({Target(s, m) : m \in ToSet(anon_fields(s))} \ {0})
           \cup UNION {f[t] : t \in {u \in {Target(s, m) : m \in ToSet(anon_fields(s))} \ {0} :
                                       Decls(u, n) = {}}}]

LEMMA FallsChoose ==
  ASSUME NEW from, NEW n
  PROVE  Consulted(from, n) =
           {from} \cup IF Decls(from, n) = {} THEN (CHOOSE f : Falls(f, from, n))[from] ELSE {}
BY DEF Consulted, Falls

LEMMA FallsIs ==
  ASSUME InShape, TablesRight, NEW n \in Names, NEW from \in 1 .. Len(structs), NEW f
  PROVE  Falls(f, from, n) <=> IsBelow(f, Seen, Graph, Having(n), from)
<1>1. ASSUME NEW s \in 1 .. from
      PROVE  ({Target(s, m) : m \in ToSet(anon_fields(s))} \ {0})
               \cup UNION {f[t] : t \in {u \in {Target(s, m) : m \in ToSet(anon_fields(s))} \ {0} :
                                           Decls(u, n) = {}}} =
             Beneath(f, Seen, Graph, Having(n), s)
  <2>1. s \in 1 .. Len(structs)
    BY GraphFacts
  <2>2. Seen[s] = anon_fields(s)
    BY <2>1 DEF Seen
  <2>3. PICK next : next = {Target(s, m) : m \in ToSet(anon_fields(s))} \ {0}
    OBVIOUS
  <2>4. ASSUME NEW t \in next PROVE t \in NextOf(Seen, Graph, s)
    <3>1. PICK m \in ToSet(anon_fields(s)) : t = Target(s, m) /\ t # 0
      BY <2>3
    <3>2. m \in Nat \X Nat /\ m \in ToSet(Members(s)) /\ Member(s, m).anon
      BY <2>1, <3>1, SeenFacts
    <3>3. Hop(s, m) \in DOMAIN Graph /\ Graph[Hop(s, m)] = t
      BY <2>1, <3>1, <3>2, GraphFacts
    <3>4. PICK x \in DOMAIN Graph : x = Hop(s, m)
      BY <3>3
    <3>5. x.struct = s /\ x.member = m
      BY <3>4, HopIs
    <3> QED
      BY <2>2, <3>1, <3>3, <3>4, <3>5 DEF NextOf
  <2>5. ASSUME NEW t \in NextOf(Seen, Graph, s) PROVE t \in next
    <3>1. PICK x \in DOMAIN Graph : t = Graph[x] /\ x.struct = s /\ x.member \in ToSet(anon_fields(s))
      BY <2>2 DEF NextOf
    <3>2. t = Target(s, x.member) /\ t \in 1 .. Len(structs)
      BY <3>1, GraphFacts
    <3> QED
      BY <2>3, <3>1, <3>2
  <2>6. next = NextOf(Seen, Graph, s)
    BY <2>4, <2>5
  <2>7. \A t \in next : t \in 1 .. Len(structs)
    BY <2>6, GraphFacts DEF NextOf
  <2>8. {u \in next : Decls(u, n) = {}} = {u \in next : u \notin Having(n)}
    BY <2>7, DeclsAre
  <2> QED
    BY <2>3, <2>6, <2>8 DEF Beneath
<1> QED
  BY <1>1 DEF Falls, IsBelow

(* What the lookup returns when it comes upon no FieldSpec without fields. *)
Owned(n) == [s \in 1 .. Len(structs) |-> {Hop(s, m) : m \in ToSet(Named(s, n))}]

LEMMA DeclaringIsOwned ==
  ASSUME TablesRight, NEW n \in Names
  PROVE  Declaring(n) = Owned(n)
BY DEF TablesRight, Declaring, Owned, Decls

LEMMA SearchedIs ==
  ASSUME InShape, TablesRight, NEW n \in Names, NEW s \in 1 .. Len(structs), s \notin Having(n)
  PROVE  /\ s \in Searched(s, n)
         /\ (\A u \in Searched(s, n) : Intact(u)) =>
              Closed(Searched(s, n), Seen, Graph, Having(n), Len(structs))
<1>1. /\ Len(structs) \in Nat /\ IsGraph(Graph)
      /\ \A x \in DOMAIN Graph : Graph[x] \in Nat \ {0}
  BY GraphFacts
<1>2. s \in Nat /\ s \in 1 .. s
  BY <1>1
<1>3. PICK f : f = CHOOSE g : Falls(g, s, n)
  OBVIOUS
<1>4. IsBelow(f, Seen, Graph, Having(n), s)
  <2>1. \E g : IsBelow(g, Seen, Graph, Having(n), s)
    BY <1>1, <1>2, BelowExists
  <2>2. \E g : Falls(g, s, n)
    BY <2>1, FallsIs
  <2>3. Falls(f, s, n)
    BY <1>3, <2>2
  <2> QED
    BY <2>3, FallsIs
<1>5. f[s] \subseteq 1 .. s - 1
  BY <1>1, <1>2, <1>4, BelowIs
<1>6. Consulted(s, n) = {s} \cup f[s]
  <2>1. Decls(s, n) = {}
    BY DeclsAre
  <2> QED
    BY <1>3, <2>1, FallsChoose
<1>7. Searched(s, n) = {t \in {s} \cup f[s] : t \notin Having(n)}
  <2>1. \A t \in {s} \cup f[s] : t \in 1 .. Len(structs)
    BY <1>1, <1>5
  <2>2. \A t \in {s} \cup f[s] : Decls(t, n) = {} <=> t \notin Having(n)
    BY <2>1, DeclsAre
  <2> QED
    BY <1>6, <2>2 DEF Searched
<1>8. PICK C : C = Searched(s, n)
  OBVIOUS
<1>9. s \in C
  BY <1>7, <1>8
<1>10. ASSUME \A u \in C : Intact(u) PROVE Closed(C, Seen, Graph, Having(n), Len(structs))
  <2>1. ASSUME NEW x \in DOMAIN Graph, x.struct \in C PROVE x.member \in ToSet(Seen[x.struct])
    <3>1. x.struct \in 1 .. Len(structs)
      BY GraphFacts
    <3>2. x.member \in ToSet(anon_fields(x.struct))
      BY <1>10, <2>1, <3>1, SeenFacts
    <3> QED
      BY <3>1, <3>2 DEF Seen
  <2>2. IsNet(Seen, Graph, Having(n), Declaring(n), Len(structs))
    BY NetIs
  <2> QED
    BY <1>4, <1>7, <1>8, <2>1, <2>2, BelowClosed
<1> QED
  BY <1>8, <1>9, <1>10

LEMMA LookupIs ==
  ASSUME InShape, TablesRight, NEW n \in Names, NEW s \in 1 .. Len(structs),
         \A u \in Searched(s, n) : Intact(u)
  PROVE  Resolves(LookupQualifiedName(s, n), Graph, Having(n), Owned(n), s)
<1>1. PICK D : D = Declaring(n)
  OBVIOUS
<1>2. D = Owned(n) /\ IsNet(Seen, Graph, Having(n), D, Len(structs))
  BY <1>1, DeclaringIsOwned, NetIs
<1>3. PICK r : r = LookupQualifiedName(s, n)
  OBVIOUS
<1>4. \A t \in 1 .. Len(structs) : D[t] = Decls(t, n)
  BY <1>1 DEF Declaring
<1>5. \A t \in 1 .. Len(structs) : Decls(t, n) # {} => \E x : Decls(t, n) = {x}
  BY DeclsAre
<1>6. \A t \in 1 .. Len(structs) : Decls(t, n) = {} <=> t \notin Having(n)
  BY DeclsAre
<1>7. CASE s \in Having(n)
  <2>1. Nearest(Graph, Having(n), s) = {<< >>} /\ EndOf(Graph, s, << >>) = s
    BY <1>7, NearestSelf, ChainEmpty
  <2>2. r = resolveKind(Decls(s, n))
    BY <1>3, <1>6, <1>7 DEF LookupQualifiedName
  <2>3. ResultSane(r)
    <3>1. PICK x : Decls(s, n) = {x}
      BY <1>5, <1>6, <1>7
    <3> QED
      BY <2>2, <3>1, ResolvedOne
  <2>4. \A h : Nearest(Graph, Having(n), s) = {h} => r = resolveKind(D[EndOf(Graph, s, h)])
    <3>1. ASSUME NEW h, Nearest(Graph, Having(n), s) = {h} PROVE h = << >>
      BY <2>1, <3>1
    <3> QED
      BY <1>4, <2>1, <2>2, <3>1
  <2>5. Nearest(Graph, Having(n), s) # {} /\ ~ \E g, h \in Nearest(Graph, Having(n), s) : g # h
    BY <2>1
  <2>6. Resolves(r, Graph, Having(n), D, s)
    BY <2>3, <2>4, <2>5 DEF Resolves
  <2> QED
    BY <1>2, <1>3, <2>6
<1>8. CASE s \notin Having(n)
  <2>1. Len(structs) \in Nat /\ IsGraph(Graph) /\ \A x \in DOMAIN Graph : Graph[x] \in Nat \ {0}
    BY GraphFacts
  <2>2. s \in Nat /\ s <= s /\ s \in 0 .. Len(structs)
    BY <2>1
  <2>3. PICK f : f = CHOOSE g : Finds(g, s, n)
    OBVIOUS
  <2>4. IsSearch(f, Seen, Graph, Having(n), D, s)
    <3>1. \E g : IsSearch(g, Seen, Graph, Having(n), D, s)
      BY <2>1, <2>2, SearchExists
    <3>2. \E g : Finds(g, s, n)
      BY <1>1, <3>1, FindsIs
    <3>3. Finds(f, s, n)
      BY <2>3, <3>2
    <3> QED
      BY <1>1, <3>3, FindsIs
  <2>5. PICK C : C = Searched(s, n)
    OBVIOUS
  <2>6. s \in C /\ Closed(C, Seen, Graph, Having(n), Len(structs))
    BY <1>8, <2>5, SearchedIs
  <2>7. FoundRoutes(f[s], Graph, Having(n), D, s)
    BY <1>2, <2>2, <2>4, <2>6, SearchIs
  <2>8. PICK p : p = lookupInBases(s, n)
    OBVIOUS
  <2>9. FoundRoutes(p, Graph, Having(n), D, s)
    BY <2>3, <2>7, <2>8, FindsChoose
  <2>10. PICK sh : sh = shortestPaths(p)
    OBVIOUS
  <2>11. r = IF sh = << >> THEN NotFound
             ELSE IF Len(sh) > 1 THEN setAmbiguousPromotedFields(sh)
             ELSE resolveKind(sh[1].decls)
    BY <1>3, <1>6, <1>8, <2>8, <2>10 DEF LookupQualifiedName
  <2>12. \A t \in Having(n) : \E x : D[t] = {x}
    BY <1>4, <1>5, <1>6 DEF Having, HasIn
  <2>13. Resolves(r, Graph, Having(n), D, s)
    BY <1>8, <2>9, <2>10, <2>11, <2>12, ResultOf
  <2> QED
    BY <1>2, <1>3, <2>13
<1> QED
  BY <1>7, <1>8

-----------------------------------------------------------------------------
(* What the answer to a selector says, and that it is the rule's.          *)

AnswerInv ==
  /\ answer.struct \in 0 .. Len(structs) /\ answer.name \in Names
  /\ ResultSane(answer.result)
  /\ Answered =>
       /\ Resolves(answer.result, Graph, Having(answer.name), Owned(answer.name), answer.struct)
       /\ answer.errors = Errors(answer.result)
       /\ answer.notes = AmbiguityNotes(answer.result)
       /\ answer.member = IF answer.result.kind = "Found" THEN answer.result.decls ELSE {}
  /\ answer.asked /\ ~ answer.crashed /\ answer.struct = 0 =>
       answer.member = {} /\ answer.errors = <<"typecheck_field_reference_struct">>

LEMMA ErrorsAre ==
  ASSUME NEW r
  PROVE  /\ r.decls = {} /\ r.ambiguity # "PromotedFields" => Errors(r) = <<"no_field">>
         /\ r.decls # {} /\ r.ambiguity # "PromotedFields" => Errors(r) = << >>
         /\ r.decls # {} /\ r.ambiguity = "PromotedFields" => Errors(r) = <<"ambiguous_name">>
<1> DEFINE S == {"no_field", "ambiguous_name"}
<1>0. <<"no_field">> \in Seq(S) /\ <<"ambiguous_name">> \in Seq(S) /\ << >> \in Seq(S)
  OBVIOUS
<1> HIDE DEF S
<1>1. PICK a \in Seq(S) : a = <<"no_field">>
  BY <1>0
<1>2. PICK b \in Seq(S) : b = <<"ambiguous_name">>
  BY <1>0
<1>3. PICK e \in Seq(S) : e = << >>
  BY <1>0
<1>4. a \o e = a /\ e \o b = b /\ e \o e = e
  BY <1>3, ConcatEmptySeq
<1>5. CASE r.decls = {} /\ r.ambiguity # "PromotedFields"
  <2>1. Errors(r) = a \o e
    BY <1>1, <1>3, <1>5 DEF Errors
  <2> QED
    BY <1>1, <1>4, <1>5, <2>1
<1>6. CASE r.decls # {} /\ r.ambiguity # "PromotedFields"
  <2>1. Errors(r) = e \o e
    BY <1>3, <1>6 DEF Errors
  <2> QED
    BY <1>3, <1>4, <1>6, <2>1
<1>7. CASE r.decls # {} /\ r.ambiguity = "PromotedFields"
  <2>1. Errors(r) = e \o b
    BY <1>2, <1>3, <1>7 DEF Errors
  <2> QED
    BY <1>2, <1>4, <1>7, <2>1
<1> QED
  BY <1>5, <1>6, <1>7

(* The notes name each of the ways once.                                   *)
LEMMA NotesAre ==
  ASSUME NEW E, NEW ps \in Seq(PathSet(E)), NEW r, r.paths = ps, NEW R,
         \A i, j \in 1 .. Len(ps) : ps[i].hops = ps[j].hops => i = j,
         {ps[i].hops : i \in 1 .. Len(ps)} = R
  PROVE  /\ Len(AmbiguityNotes(r)) = Len(ps) /\ ToSet(AmbiguityNotes(r)) = R
         /\ IsFiniteSet(R) /\ Cardinality(R) = Len(ps)
<1>1. PICK k \in Nat : k = Len(ps) /\ DOMAIN ps = 1 .. k
  BY LenProperties
<1>2. PICK ns : ns = AmbiguityNotes(r)
  OBVIOUS
<1>3. ns = [i \in 1 .. k |-> ps[i].hops]
  BY <1>1, <1>2 DEF AmbiguityNotes
<1>4. \A i \in 1 .. k : ps[i].hops \in R
  BY <1>1
<1>5. ns \in [1 .. k -> R]
  BY <1>3, <1>4
<1>6. Len(ns) = k
  BY <1>1, <1>5, IsASeq, LenProperties
<1>7. DOMAIN ns = 1 .. k /\ \A i \in 1 .. k : ns[i] = ps[i].hops
  BY <1>3
<1>8. ToSet(ns) = R
  BY <1>1, <1>7 DEF ToSet
<1>9. ns \in Bijection(1 .. k, R)
  <2>1. \A i, j \in 1 .. k : ns[i] = ns[j] => i = j
    BY <1>1, <1>7
  <2>2. \A x \in R : \E i \in 1 .. k : ns[i] = x
    BY <1>1, <1>7
  <2> QED
    BY <1>5, <2>1, <2>2 DEF Bijection, Injection, Surjection, IsInjective
<1>10. IsFiniteSet(1 .. k) /\ Cardinality(1 .. k) = k
  <2>1. IsFiniteSet(1 .. k) /\ Cardinality(1 .. k) = IF 1 > k THEN 0 ELSE k - 1 + 1
    BY FS_Interval
  <2> QED
    BY <2>1
<1>11. IsFiniteSet(R) /\ Cardinality(R) = k
  <2>1. ExistsBijection(1 .. k, R)
    BY <1>9 DEF ExistsBijection
  <2> QED
    BY <1>10, <2>1, FS_Bijection
<1> QED
  BY <1>1, <1>2, <1>6, <1>8, <1>11

LEMMA RuleFollows ==
  ASSUME InShape, AnswerInv
  PROVE  SelectorRule /\ FailureExplained
<1>1. CASE ~ (answer.asked /\ ~ answer.crashed)
  BY <1>1 DEF SelectorRule, FailureExplained, Answered
<1>2. CASE answer.asked /\ ~ answer.crashed /\ answer.struct = 0
  <2>1. answer.member = {} /\ answer.errors = <<"typecheck_field_reference_struct">>
    BY <1>2 DEF AnswerInv
  <2>2. Len(answer.errors) = 1 /\ answer.errors # <<"ambiguous_name">>
    BY <2>1
  <2> QED
    BY <1>2, <2>1, <2>2 DEF SelectorRule, FailureExplained, Answered
<1>3. CASE Answered
  <2>1. PICK s \in 1 .. Len(structs) : s = answer.struct
    <3>1. answer.struct \in 0 .. Len(structs) /\ answer.struct # 0 /\ Len(structs) \in Nat
      BY <1>3, GraphFacts DEF AnswerInv, Answered
    <3> QED
      BY <3>1
  <2>2. PICK n \in Names : n = answer.name
    BY DEF AnswerInv
  <2>3. PICK E : E = Graph
    OBVIOUS
  <2>4. PICK R : R = Nearest(E, Having(n), s)
    OBVIOUS
  <2>5. PICK r : r = answer.result
    OBVIOUS
  <2>6. /\ Resolves(r, E, Having(n), Owned(n), s) /\ answer.errors = Errors(r)
        /\ answer.notes = AmbiguityNotes(r)
        /\ answer.member = IF r.kind = "Found" THEN r.decls ELSE {}
    BY <1>3, <2>1, <2>2, <2>3, <2>5 DEF AnswerInv
  <2>7. Shallowest(s, n) = {Way(E, s, h) : h \in R}
    BY <2>3, <2>4, ShallowestIs
  <2>8. /\ answer.asked /\ ~ answer.crashed /\ answer.struct # 0
    BY <1>3 DEF Answered
  <2>9. {w.hops : w \in Shallowest(s, n)} = R
    <3>1. \A h : Way(E, s, h).hops = h
      BY DEF Way
    <3> QED
      BY <2>7, <3>1
  <2>10. CASE R = {}
    <3>1. r = NotFound
      BY <2>4, <2>6, <2>10 DEF Resolves
    <3>2. r.kind = "NotFound" /\ r.decls = {} /\ r.ambiguity = "none"
      BY <3>1 DEF NotFound
    <3>3. answer.member = {} /\ answer.errors = <<"no_field">>
      BY <2>6, <3>2, ErrorsAre
    <3>4. Shallowest(s, n) = {} /\ Cardinality(Shallowest(s, n)) = 0
      BY <2>7, <2>10, FS_EmptySet
    <3>5. SelectorRule
      BY <2>1, <2>2, <3>3, <3>4 DEF SelectorRule
    <3>6. Len(answer.errors) = 1 /\ answer.errors # <<"ambiguous_name">>
      BY <3>3
    <3>7. FailureExplained
      BY <3>3, <3>6 DEF FailureExplained
    <3> QED
      BY <3>5, <3>7
  <2>11. CASE \E h : R = {h}
    <3>1. PICK h : R = {h}
      BY <2>11
    <3>2. PICK t : t = EndOf(E, s, h)
      OBVIOUS
    <3>3. t \in Having(n) /\ t \in 1 .. Len(structs)
      BY <2>4, <3>1, <3>2 DEF Nearest, Reaching, Having, HasIn
    <3>4. PICK m : Named(t, n) = <<m>> /\ ToSet(Named(t, n)) = {m}
      <4>1. PICK F : Shape(structs, types, F)
        BY DEF InShape
      <4>2. structs[t] \in Seq(Seq(F)) /\ NamesApart(structs[t])
        BY <3>3, <4>1, ElementOfSeq DEF Shape
      <4>3. Named(t, n) = NamedIn(structs[t], n)
        BY State DEF InState
      <4>4. NamedIn(structs[t], n) # << >>
        BY <3>3 DEF Having, HasIn
      <4> QED
        BY <4>2, <4>3, <4>4, NamedOne
    <3>5. Owned(n)[t] = {Hop(t, m)}
      BY <3>3, <3>4 DEF Owned
    <3>6. r = resolveKind({Hop(t, m)})
      BY <2>4, <2>6, <3>1, <3>2, <3>5 DEF Resolves
    <3>7. r.kind = "Found" /\ r.ambiguity = "none" /\ r.decls = {Hop(t, m)}
      <4>1. PICK x : x = Hop(t, m)
        OBVIOUS
      <4>2. r = [kind |-> "Found", ambiguity |-> "none", decls |-> {x}, paths |-> << >>]
        BY <3>6, <4>1, ResolvedOne
      <4> QED
        BY <4>1, <4>2
    <3>8. answer.member = {Hop(t, m)} /\ answer.errors = << >>
      BY <2>6, <3>7, ErrorsAre
    <3>9. PICK w : w = Way(E, s, h)
      OBVIOUS
    <3>10. Shallowest(s, n) = {w} /\ Cardinality(Shallowest(s, n)) = 1 /\ w.end = t
      <4>1. Shallowest(s, n) = {w}
        BY <2>7, <3>1, <3>9
      <4>2. Cardinality({w}) = 1
        BY FS_Singleton
      <4> QED
        BY <3>2, <3>9, <4>1, <4>2 DEF Way
    <3>11. SelectorRule
      <4>1. PICK ways : ways = Shallowest(answer.struct, answer.name)
        OBVIOUS
      <4>2. ways = {w} /\ Cardinality(ways) = 1
        BY <2>1, <2>2, <3>10, <4>1
      <4>3. (CHOOSE x \in ways : TRUE) = w
        BY <4>2
      <4>4. ToSet(Named((CHOOSE x \in ways : TRUE).end, answer.name)) = {m}
        BY <2>2, <3>4, <3>10, <4>3
      <4>5. {Hop(v.end, k) : v \in ways,
                             k \in ToSet(Named((CHOOSE x \in ways : TRUE).end, answer.name))} =
              {Hop(t, m)}
        <5>1. {Hop(v.end, k) : v \in {w}, k \in {m}} = {Hop(w.end, m)}
          OBVIOUS
        <5> QED
          BY <3>10, <4>2, <4>4, <5>1
      <4>6. answer.member =
              IF Cardinality(ways) = 1
                THEN {Hop(v.end, k) : v \in ways,
                        k \in ToSet(Named((CHOOSE x \in ways : TRUE).end, answer.name))}
                ELSE {}
        BY <3>8, <4>2, <4>5
      <4> QED
        BY <4>1, <4>6 DEF SelectorRule
    <3>12. Len(answer.errors) = 0 /\ answer.errors # <<"ambiguous_name">> /\ answer.member # {}
      BY <3>8
    <3>13. FailureExplained
      BY <3>12 DEF FailureExplained
    <3> QED
      BY <3>11, <3>13
  <2>12. CASE \E g, h \in R : g # h
    <3>1. /\ r.kind = "Ambiguous" /\ r.ambiguity = "PromotedFields" /\ r.decls # {}
          /\ r.paths \in Seq(PathSet(E)) /\ Len(r.paths) > 1
          /\ \A i, j \in 1 .. Len(r.paths) : r.paths[i].hops = r.paths[j].hops => i = j
          /\ {r.paths[i].hops : i \in 1 .. Len(r.paths)} = R
      BY <2>4, <2>6, <2>12 DEF Resolves
    <3>2. /\ Len(answer.notes) = Len(r.paths) /\ ToSet(answer.notes) = R
          /\ IsFiniteSet(R) /\ Cardinality(R) = Len(r.paths)
      <4>1. PICK ps \in Seq(PathSet(E)) : ps = r.paths
        BY <3>1
      <4>2. /\ \A i, j \in 1 .. Len(ps) : ps[i].hops = ps[j].hops => i = j
            /\ {ps[i].hops : i \in 1 .. Len(ps)} = R
        BY <3>1, <4>1
      <4>3. /\ Len(AmbiguityNotes(r)) = Len(ps) /\ ToSet(AmbiguityNotes(r)) = R
            /\ IsFiniteSet(R) /\ Cardinality(R) = Len(ps)
        BY <4>1, <4>2, NotesAre
      <4> QED
        BY <2>6, <4>1, <4>3
    <3>3. answer.member = {} /\ answer.errors = <<"ambiguous_name">>
      BY <2>6, <3>1, ErrorsAre
    <3>4. IsFiniteSet(Shallowest(s, n)) /\ Cardinality(Shallowest(s, n)) # 1
      <4> DEFINE f == [h \in R |-> Way(E, s, h)]
      <4>1. /\ \A h \in R : f[h] = Way(E, s, h) /\ f[h] \in Shallowest(s, n)
            /\ f \in [R -> Shallowest(s, n)]
        BY <2>7
      <4>2. \A w \in Shallowest(s, n) : \E h \in R : f[h] = w
        BY <2>7
      <4> HIDE DEF f
      <4>3. f \in Surjection(R, Shallowest(s, n))
        BY <4>1, <4>2 DEF Surjection
      <4>4. IsFiniteSet(Shallowest(s, n))
        BY <3>2, <4>3, FS_Surjection
      <4>5. ASSUME Cardinality(Shallowest(s, n)) = 1 PROVE FALSE
        <5>1. PICK w : Shallowest(s, n) = {w}
          BY <4>4, <4>5, FS_Singleton
        <5>2. PICK g \in R, h \in R : g # h
          BY <2>12
        <5>3. g = w.hops /\ h = w.hops
          BY <4>1, <5>1 DEF Way
        <5> QED
          BY <5>2, <5>3
      <4> QED
        BY <4>4, <4>5
    <3>5. SelectorRule
      BY <2>1, <2>2, <3>3, <3>4 DEF SelectorRule
    <3>6. Len(answer.errors) = 1
      BY <3>3
    <3>7. FailureExplained
      BY <2>1, <2>2, <2>9, <3>1, <3>2, <3>3, <3>6 DEF FailureExplained
    <3> QED
      BY <3>5, <3>7
  <2> QED
    <3>1. R = {} \/ (\E h : R = {h}) \/ (\E g, h \in R : g # h)
      OBVIOUS
    <3> QED
      BY <2>10, <2>11, <2>12, <3>1
<1> QED
  BY <1>1, <1>2, <1>3 DEF Answered

-----------------------------------------------------------------------------
(* Facts about one state.                                                  *)

Inv == TypesInv /\ OpenInv /\ FieldsInv /\ TablesInv /\ CanonInv /\ AnswerInv

(* The parts without the answer.                                           *)
StructInv == TypesInv /\ OpenInv /\ FieldsInv /\ TablesInv /\ CanonInv

LEMMA NamesFacts ==
  /\ Len(TypeNames) \in Nat \ {0} /\ DOMAIN TypeNames = 1 .. Len(TypeNames)
  /\ \A k \in 1 .. Len(TypeNames) : TypeNames[k] \in Names
<1>1. TypeNames \in Seq(ToSet(TypeNames)) /\ TypeNames # << >>
  BY NamesAssumption
<1>2. Len(TypeNames) \in Nat \ {0} /\ DOMAIN TypeNames = 1 .. Len(TypeNames)
  BY <1>1, EmptySeq, LenProperties
<1> QED
  BY <1>1, <1>2, ElementOfSeq DEF Names

LEMMA Counts ==
  ASSUME StructInv
  PROVE  /\ Len(structs) \in Nat /\ DOMAIN structs = 1 .. Len(structs)
         /\ Len(types) \in Nat /\ DOMAIN types = 1 .. Len(types)
         /\ Len(open) \in Nat /\ DOMAIN open = 1 .. Len(open)
         /\ ToSet(open) = {open[i] : i \in 1 .. Len(open)}
         /\ ToSet(open) \subseteq 1 .. Len(structs)
         /\ Len(canon) = Len(structs) /\ DOMAIN canon = 1 .. Len(structs)
         /\ \A s \in 1 .. Len(structs) : canon[s] \in 0 .. Len(structs)
         /\ DOMAIN tables = 1 .. Len(structs)
         /\ \A s \in 1 .. Len(structs) :
              structs[s] \in Seq(Seq(FieldsOf(Len(types), Len(structs))))
<1>1. structs \in Seq(Seq(Seq(FieldsOf(Len(types), Len(structs)))))
  BY DEF StructInv, FieldsInv
<1>2. Len(structs) \in Nat /\ DOMAIN structs = 1 .. Len(structs)
  BY <1>1, LenProperties
<1>3. \A s \in 1 .. Len(structs) :
        structs[s] \in Seq(Seq(FieldsOf(Len(types), Len(structs))))
  BY <1>1, ElementOfSeq
<1>4. Len(types) \in Nat /\ DOMAIN types = 1 .. Len(types)
  <2>1. types \in Seq(TypesOf(Len(types), Len(structs)))
    BY DEF StructInv, TypesInv, Declared
  <2> QED
    BY <2>1, LenProperties
<1>5. open \in Seq(1 .. Len(structs))
  BY DEF StructInv, OpenInv
<1>6. Len(open) \in Nat /\ DOMAIN open = 1 .. Len(open) /\ \A i \in 1 .. Len(open) : open[i] \in 1 .. Len(structs)
  BY <1>5, LenProperties, ElementOfSeq
<1>7. ToSet(open) = {open[i] : i \in 1 .. Len(open)} /\ ToSet(open) \subseteq 1 .. Len(structs)
  BY <1>6 DEF ToSet
<1>8. canon \in Seq(0 .. Len(structs)) /\ Len(canon) = Len(structs)
  BY DEF StructInv, CanonInv, CanonOK
<1>9. DOMAIN canon = 1 .. Len(structs) /\ \A s \in 1 .. Len(structs) : canon[s] \in 0 .. Len(structs)
  BY <1>8, LenProperties, ElementOfSeq
<1>10. tables \in Seq(Tables) /\ Len(tables) = Len(structs)
  BY DEF StructInv, TablesInv
<1>11. DOMAIN tables = 1 .. Len(structs)
  BY <1>10, LenProperties
<1> QED
  BY <1>2, <1>3, <1>4, <1>6, <1>7, <1>8, <1>9, <1>11

(* A pointer, and what it points to.                                       *)
LEMMA PointedIs ==
  ASSUME NEW nt, NEW ns, NEW t \in TypesOf(nt, ns)
  PROVE  /\ Pointed(t) \in TypesOf(nt, ns)
         /\ t.named => t.of \in 1 .. nt /\ Pointed(t) = Name(t.of)
         /\ t.kind \in {"struct", "pointer"} /\ ~ t.named =>
              t.of \in 1 .. ns /\ Pointed(t) = Struct(t.of)
<1>1. /\ t.kind \in {"int", "name", "struct", "pointer"}
      /\ t.kind = "name" => t.of \in 1 .. nt /\ t = Name(t.of)
      /\ t.kind = "struct" => t.of \in 1 .. ns /\ t = Struct(t.of)
      /\ t.kind = "pointer" /\ t.named => t.of \in 1 .. nt
      /\ t.kind = "pointer" /\ ~ t.named => t.of \in 1 .. ns
      /\ t.kind # "pointer" => (t.named <=> t.kind = "name")
      /\ t.named \in BOOLEAN
  BY TypesOfIs
<1>2. \A k \in 1 .. nt : Name(k) \in TypesOf(nt, ns)
  BY DEF TypesOf
<1>3. \A s \in 1 .. ns : Struct(s) \in TypesOf(nt, ns)
  BY DEF TypesOf
<1>4. CASE t.kind = "pointer"
  <2>1. Pointed(t) = IF t.named THEN Name(t.of) ELSE Struct(t.of)
    BY <1>4 DEF Pointed, Pointee
  <2> QED
    BY <1>1, <1>2, <1>3, <1>4, <2>1
<1>5. CASE t.kind # "pointer"
  <2>1. Pointed(t) = t
    BY <1>5 DEF Pointed
  <2> QED
    BY <1>1, <1>5, <2>1
<1> QED
  BY <1>4, <1>5

LEMMA OwnStruct ==
  ASSUME NEW s, NEW ts
  PROVE  StructIn(Struct(s), ts) = s
<1>1. Struct(s).kind = "struct" /\ Struct(s).of = s
  BY DEF Struct
<1>2. Resolved(Struct(s), ts) = Struct(s)
  BY <1>1, ResolvedIs
<1> QED
  BY <1>1, <1>2 DEF StructIn

(* The struct that a type refers to.                                       *)
Behind(t) == StructIn(Pointed(t), types)

LEMMA BehindIs ==
  ASSUME StructInv, NEW t \in TypesOf(Len(types), Len(structs))
  PROVE  /\ Behind(t) \in 0 .. Len(structs) /\ StructOf(Pointed(t)) = Behind(t)
         /\ t.named => \A i \in 1 .. Len(open) : Behind(t) < open[i]
         /\ t.kind \in {"struct", "pointer"} /\ ~ t.named =>
              t.of \in 1 .. Len(structs) /\ Behind(t) = t.of
<1>1. /\ Pointed(t) \in TypesOf(Len(types), Len(structs))
      /\ t.named => t.of \in 1 .. Len(types) /\ Pointed(t) = Name(t.of)
      /\ t.kind \in {"struct", "pointer"} /\ ~ t.named =>
           t.of \in 1 .. Len(structs) /\ Pointed(t) = Struct(t.of)
  BY PointedIs
<1>2. Declared(types, Len(structs)) /\ Len(structs) \in Nat
  BY Counts DEF StructInv, TypesInv
<1>3. Behind(t) \in 0 .. Len(structs)
  BY <1>1, <1>2, ResolvedTypes DEF Behind
<1>4. StructOf(Pointed(t)) = Behind(t)
  BY State DEF InState, Behind
<1>5. ASSUME t.named PROVE \A i \in 1 .. Len(open) : Behind(t) < open[i]
  BY <1>1, <1>5 DEF StructInv, OpenInv, Behind
<1>6. ASSUME t.kind \in {"struct", "pointer"}, ~ t.named PROVE Behind(t) = t.of
  BY <1>1, <1>6, OwnStruct DEF Behind
<1> QED
  BY <1>1, <1>3, <1>4, <1>5, <1>6

LEMMA WrittenAre ==
  ASSUME StructInv, NEW kinds, NEW t \in WrittenTypes(kinds)
  PROVE  /\ t \in TypesOf(Len(types), Len(structs))
         /\ t.kind \in {"struct", "pointer"} /\ ~ t.named => made # 0 /\ t.of = made
         /\ made = 0 /\ kinds \subseteq {"name", "pointer"} => t.named
         /\ Behind(t) \notin ToSet(open)
<1>1. made \in 0 .. Len(structs) /\ Len(structs) \in Nat /\ DOMAIN types = 1 .. Len(types)
  BY Counts DEF StructInv, OpenInv
<1>2. \/ made # 0 /\ (t = Struct(made) \/ t = PointerTo(Struct(made)))
      \/ made = 0 /\ t = IntType /\ "int" \in kinds
      \/ made = 0 /\ \E k \in 1 .. Len(types) : t = Name(k) \/ t = PointerTo(Name(k))
  BY <1>1 DEF WrittenTypes, Visible
<1>3. /\ t \in TypesOf(Len(types), Len(structs))
      /\ t.kind \in {"struct", "pointer"} /\ ~ t.named => made # 0 /\ t.of = made
      /\ made = 0 /\ kinds \subseteq {"name", "pointer"} => t.named
  <2>1. CASE made # 0 /\ (t = Struct(made) \/ t = PointerTo(Struct(made)))
    <3>1. t \in TypesOf(Len(types), Len(structs))
      BY <1>1, <2>1 DEF TypesOf
    <3>2. t.of = made
      BY <2>1 DEF Struct, PointerTo
    <3> QED
      BY <2>1, <3>1, <3>2
  <2>2. CASE made = 0 /\ t = IntType /\ "int" \in kinds
    <3>1. t \in TypesOf(Len(types), Len(structs)) /\ t.kind = "int"
      BY <2>2 DEF TypesOf, IntType
    <3> QED
      BY <2>2, <3>1
  <2>3. CASE made = 0 /\ \E k \in 1 .. Len(types) : t = Name(k) \/ t = PointerTo(Name(k))
    <3>1. t \in TypesOf(Len(types), Len(structs))
      BY <2>3 DEF TypesOf
    <3>2. t.named = TRUE
      BY <2>3 DEF Name, PointerTo
    <3> QED
      BY <2>3, <3>1, <3>2
  <2> QED
    BY <1>2, <2>1, <2>2, <2>3
<1>4. Behind(t) \notin ToSet(open)
  <2>1. ToSet(open) = {open[i] : i \in 1 .. Len(open)} /\ ToSet(open) \subseteq 1 .. Len(structs)
    BY Counts
  <2>2. CASE t.named
    <3>1. /\ Behind(t) \in 0 .. Len(structs)
          /\ \A i \in 1 .. Len(open) : Behind(t) < open[i]
      BY <1>3, <2>2, BehindIs
    <3> QED
      BY <1>1, <2>1, <3>1
  <2>3. CASE ~ t.named /\ t.kind \in {"struct", "pointer"}
    <3>1. Behind(t) = made /\ made # 0
      BY <1>3, <2>3, BehindIs
    <3>2. \A i \in 1 .. Len(open) : open[i] < made
      BY <3>1 DEF StructInv, OpenInv
    <3> QED
      BY <1>1, <2>1, <3>1, <3>2
  <2>4. CASE ~ t.named /\ t.kind \notin {"struct", "pointer"}
    <3>1. t = IntType
      BY <1>3, <2>4, TypesOfIs
    <3>2. Pointed(t) = t /\ t.kind = "int"
      BY <3>1 DEF Pointed, IntType
    <3>3. Behind(t) = 0
      BY <3>2, ResolvedIs DEF Behind, StructIn
    <3> QED
      BY <1>1, <2>1, <3>3
  <2> QED
    <3>1. t.named \in BOOLEAN
      BY <1>3, TypesOfIs
    <3> QED
      BY <2>2, <2>3, <2>4, <3>1
<1> QED
  BY <1>3, <1>4

-----------------------------------------------------------------------------
(* What the invariant says.                                                *)

LEMMA InvShape ==
  ASSUME StructInv
  PROVE  InShape
<1> DEFINE F == FieldsOf(Len(types), Len(structs))
<1>1. structs \in Seq(Seq(Seq(F)))
  BY DEF StructInv, FieldsInv
<1>2. \A s \in 1 .. Len(structs) : NamesApart(structs[s])
  BY DEF StructInv, FieldsInv, NamesApart
<1>3. ASSUME NEW s \in 1 .. Len(structs), NEW m \in ToSet(Places(structs[s])),
             At(structs[s], m).anon
      PROVE  /\ m[2] = 1 /\ TargetIn(structs, types, s, m) \in Nat
             /\ TargetIn(structs, types, s, m) < s
  <2>1. PICK f : f = At(structs[s], m)
    OBVIOUS
  <2>2. FieldOK(s, m, f)
    BY <2>1 DEF StructInv, FieldsInv
  <2>3. f.type \in TypesOf(Len(types), Len(structs)) /\ m[2] = 1 /\ Behind(f.type) < s
    BY <1>3, <2>1, <2>2 DEF FieldOK, FieldsOf, Behind
  <2>4. Behind(f.type) \in Nat
    BY <2>3, BehindIs, Counts
  <2> QED
    BY <2>1, <2>3, <2>4 DEF TargetIn, Behind
<1> HIDE DEF F
<1>4. Shape(structs, types, F)
  BY <1>1, <1>2, <1>3 DEF Shape
<1> QED
  BY <1>4 DEF InShape

LEMMA TableIs ==
  ASSUME NEW t, NEW specs, TableOK(t, specs)
  PROVE  TableFor(t, specs).map = [n \in Names |-> NamedIn(specs, n)]
BY DEF TableOK, TableFor

LEMMA InvTables ==
  ASSUME StructInv
  PROVE  TablesRight
<1> SUFFICES ASSUME NEW s \in 1 .. Len(structs), NEW n \in Names
             PROVE  lookup(s, n) = Named(s, n)
  BY DEF TablesRight
<1>1. TableFor(tables[s], structs[s]).map = [k \in Names |-> NamedIn(structs[s], k)]
  BY TableIs DEF StructInv, TablesInv
<1>2. lookup(s, n) = NamedIn(structs[s], n)
  <2>1. buildLookup(s) = TableFor(tables[s], structs[s])
    BY State DEF InState
  <2> QED
    BY <1>1, <2>1 DEF lookup
<1>3. Named(s, n) = NamedIn(structs[s], n)
  BY State DEF InState
<1> QED
  BY <1>2, <1>3

LEMMA InvTypes ==
  ASSUME Inv
  PROVE  TypeOK
<1>1. /\ DOMAIN structs = 1 .. Len(structs) /\ DOMAIN types = 1 .. Len(types)
      /\ DOMAIN canon = 1 .. Len(structs) /\ \A s \in 1 .. Len(structs) : canon[s] \in 0 .. Len(structs)
      /\ DOMAIN tables = 1 .. Len(structs)
  BY Counts DEF Inv, StructInv
<1>2. Types = TypesOf(Len(types), Len(structs)) /\ Fields = FieldsOf(Len(types), Len(structs))
  BY <1>1 DEF Types, TypesOf, Fields, FieldsOf
<1>3. source \in Sources /\ uses \in Nat /\ types \in Seq(Types) /\ variable \in SUBSET Types
  BY <1>2 DEF Inv, TypesInv, Declared
<1>4. open \in Seq(DOMAIN structs) /\ made \in 0 .. Len(structs)
  BY <1>1 DEF Inv, OpenInv
<1>5. structs \in Seq(Seq(Seq(Fields)))
  BY <1>2 DEF Inv, FieldsInv
<1>6. canon \in [DOMAIN structs -> 0 .. Len(structs)]
  <2>1. canon \in Seq(0 .. Len(structs)) /\ Len(canon) = Len(structs)
    BY DEF Inv, CanonInv, CanonOK
  <2>2. canon \in [1 .. Len(canon) -> 0 .. Len(structs)]
    BY <2>1, LenProperties
  <2> QED
    BY <1>1, <2>1, <2>2
<1>7. tables \in [DOMAIN structs -> [lazy : BOOLEAN, exists : BOOLEAN,
                                     map : [Names -> Seq(Nat \X Nat)]]]
  <2>1. tables \in Seq(Tables) /\ Len(tables) = Len(structs)
    BY DEF Inv, TablesInv
  <2>2. tables \in [1 .. Len(tables) -> Tables]
    BY <2>1, LenProperties
  <2> QED
    BY <1>1, <2>1, <2>2 DEF Tables
<1>8. /\ answer.struct \in 0 .. Len(structs) /\ answer.name \in Names
      /\ ResultSane(answer.result)
  BY DEF Inv, AnswerInv
<1> QED
  BY <1>3, <1>4, <1>5, <1>6, <1>7, <1>8 DEF TypeOK

LEMMA InvLists ==
  ASSUME StructInv
  PROVE  TablesFollowLists
<1>1. DOMAIN structs = 1 .. Len(structs)
  BY Counts
<1>2. ASSUME NEW s \in 1 .. Len(structs), NEW n \in Names PROVE Len(Named(s, n)) <= 1
  <2>1. structs[s] \in Seq(Seq(FieldsOf(Len(types), Len(structs))))
    BY Counts
  <2>2. NamesApart(structs[s])
    BY DEF StructInv, FieldsInv, NamesApart
  <2>3. Len(NamedIn(structs[s], n)) <= 1
    BY <2>1, <2>2, NamedOne
  <2> QED
    BY <2>3, State DEF InState
<1> QED
  BY <1>1, <1>2, InvTables DEF TablesFollowLists, TablesRight

LEMMA InvRules ==
  ASSUME Inv
  PROVE  SelectorRule /\ FailureExplained
BY InvShape, RuleFollows DEF Inv, StructInv

-----------------------------------------------------------------------------
(* The initial states.                                                     *)

LEMMA NothingAnswered == answer = NoAnswer /\ Len(structs) \in Nat => AnswerInv
<1> SUFFICES ASSUME answer = NoAnswer, Len(structs) \in Nat PROVE AnswerInv
  OBVIOUS
<1>1. TypeNames[1] \in Names
  BY NamesFacts
<1>2. answer.struct = 0 /\ answer.name \in Names /\ answer.result = NotFound /\ ~ answer.asked
  BY <1>1 DEF NoAnswer
<1>3. ResultSane(NotFound)
  BY DEF ResultSane, NotFound
<1> QED
  BY <1>2, <1>3 DEF AnswerInv, Answered

LEMMA InitInv ==
  ASSUME Init
  PROVE  Inv
<1>1. /\ source \in Sources /\ structs = << >> /\ tables = << >> /\ open = << >>
      /\ made = 0 /\ types = << >> /\ canon = << >> /\ variable = {} /\ uses = 0
      /\ answer = NoAnswer
  BY DEF Init, StructInit
<1>2. Len(structs) = 0 /\ Len(types) = 0 /\ Len(open) = 0 /\ Len(tables) = 0 /\ Len(canon) = 0
  BY <1>1
<1>3. TypesInv
  <2>1. source.types \in 0 .. Len(TypeNames)
    BY <1>1, SourcesAssumption DEF SourceFields
  <2>2. 0 <= source.types
    BY <2>1
  <2> QED
    BY <1>1, <1>2, <2>2 DEF TypesInv, Declared
<1>4. OpenInv
  BY <1>1, <1>2 DEF OpenInv
<1>5. FieldsInv
  BY <1>1, <1>2 DEF FieldsInv
<1>6. TablesInv
  BY <1>1, <1>2 DEF TablesInv
<1>7. CanonInv
  BY <1>1, <1>2 DEF CanonInv, CanonOK
<1>8. AnswerInv
  BY <1>1, <1>2, NothingAnswered
<1> QED
  BY <1>3, <1>4, <1>5, <1>6, <1>7, <1>8 DEF Inv

-----------------------------------------------------------------------------
(* Making the type of a struct.                                            *)

LEMMA CanonOfSame ==
  ASSUME NEW nt, NEW ns, NEW t \in TypesOf(nt, ns), NEW cs, NEW ds,
         t.kind \in {"struct", "pointer"} /\ ~ t.named => cs[t.of] = ds[t.of]
  PROVE  CanonOf(t, cs) = CanonOf(t, ds)
<1>1. t.kind = "struct" => ~ t.named
  BY TypesOfIs DEF Struct
<1>2. CASE t.kind = "struct"
  BY <1>1, <1>2 DEF CanonOf
<1>3. CASE t.kind = "pointer" /\ ~ t.named
  BY <1>3 DEF CanonOf
<1>4. CASE t.kind # "struct" /\ ~ (t.kind = "pointer" /\ ~ t.named)
  BY <1>4 DEF CanonOf
<1> QED
  BY <1>2, <1>3, <1>4

LEMMA ProfileSame ==
  ASSUME NEW F, NEW specs \in Seq(Seq(F)), NEW cs, NEW ds,
         \A m \in ToSet(Places(specs)) : CanonOf(At(specs, m).type, cs) = CanonOf(At(specs, m).type, ds)
  PROVE  ProfileIn(specs, cs) = ProfileIn(specs, ds)
<1>1. PICK fs : fs = FieldsIn(specs)
  OBVIOUS
<1>2. ToSet(fs) \subseteq ToSet(Places(specs))
  BY <1>1, FieldsAre
<1>3. \A i \in DOMAIN fs : fs[i] \in ToSet(Places(specs))
  BY <1>2 DEF ToSet
<1>4. \A i \in DOMAIN fs : CanonOf(At(specs, fs[i]).type, cs) = CanonOf(At(specs, fs[i]).type, ds)
  BY <1>3
<1> QED
  BY <1>1, <1>4 DEF ProfileIn

(* No field waits for a canonical type: later ones change no profile.      *)
LEMMA ProfilesKept ==
  ASSUME StructInv, NEW cs, \A s \in 1 .. Len(structs) : canon[s] # 0 => cs[s] = canon[s]
  PROVE  \A s \in 1 .. Len(structs) : ProfileIn(structs[s], cs) = ProfileIn(structs[s], canon)
<1> SUFFICES ASSUME NEW s \in 1 .. Len(structs)
             PROVE  ProfileIn(structs[s], cs) = ProfileIn(structs[s], canon)
  OBVIOUS
<1>1. structs[s] \in Seq(Seq(FieldsOf(Len(types), Len(structs))))
  BY Counts
<1>2. ASSUME NEW m \in ToSet(Places(structs[s]))
      PROVE  CanonOf(At(structs[s], m).type, cs) = CanonOf(At(structs[s], m).type, canon)
  <2>1. PICK f : f = At(structs[s], m)
    OBVIOUS
  <2>2. FieldOK(s, m, f)
    BY <2>1 DEF StructInv, FieldsInv
  <2>3. f.type \in TypesOf(Len(types), Len(structs))
    BY <2>2 DEF FieldOK, FieldsOf
  <2>4. ASSUME f.type.kind \in {"struct", "pointer"}, ~ f.type.named
        PROVE  cs[f.type.of] = canon[f.type.of]
    <3>1. f.type.of \in 1 .. Len(structs)
      BY <2>3, <2>4, BehindIs
    <3>2. canon[f.type.of] # 0
      BY <2>2, <2>4 DEF FieldOK
    <3> QED
      BY <3>1, <3>2
  <2> QED
    BY <2>1, <2>3, <2>4, CanonOfSame
<1> QED
  BY <1>1, <1>2, ProfileSame

LEMMA MadeType ==
  ASSUME StructInv, NEW b \in 0 .. Len(structs), b \notin ToSet(open)
  PROVE  /\ CanonOK(getStructType(b), structs, open)
         /\ \A s \in 1 .. Len(structs) : canon[s] # 0 => getStructType(b)[s] = canon[s]
         /\ b # 0 => getStructType(b)[b] # 0
         /\ \A s \in 1 .. Len(structs) :
              ProfileIn(structs[s], getStructType(b)) = ProfileIn(structs[s], canon)
<1>1. PICK L \in Nat : L = Len(structs)
  BY Counts
<1>2. /\ canon \in Seq(0 .. L) /\ Len(canon) = L /\ DOMAIN canon = 1 .. L
      /\ DOMAIN structs = 1 .. L /\ \A s \in 1 .. L : canon[s] \in 0 .. L
  BY <1>1, Counts DEF StructInv, CanonInv, CanonOK
<1>3. PICK P : P = [s \in 1 .. L |-> ProfileIn(structs[s], canon)]
  OBVIOUS
<1>4. \A s \in 1 .. L : P[s] = ProfileIn(structs[s], canon) /\ Profile(s) = P[s]
  BY <1>3, State DEF InState
<1>5. /\ \A s \in 1 .. L : canon[s] # 0 =>
           s \notin ToSet(open) /\ canon[canon[s]] = canon[s] /\ P[canon[s]] = P[s]
      /\ \A r, s \in 1 .. L : canon[r] = r /\ canon[s] = s /\ P[r] = P[s] => r = s
  <2>1. CanonOK(canon, structs, open)
    BY DEF StructInv, CanonInv
  <2>2. \A s \in 1 .. L : canon[s] # 0 => canon[s] \in 1 .. L
    BY <1>2
  <2> QED
    BY <1>1, <1>4, <2>1, <2>2 DEF CanonOK
<1>6. PICK cs : cs = getStructType(b)
  OBVIOUS
<1>7. CASE b = 0 \/ canon[b] # 0
  <2>1. cs = canon
    BY <1>6, <1>7 DEF getStructType
  <2> QED
    BY <1>6, <1>7, <2>1 DEF StructInv, CanonInv
<1>8. CASE b # 0 /\ canon[b] = 0
  <2>0. b \in 1 .. L
    BY <1>1, <1>8
  <2> DEFINE same == {r \in 1 .. L : canon[r] = r /\ P[r] = P[b]}
  <2>1. PICK v : v = IF same = {} THEN b ELSE Min(same)
    OBVIOUS
  <2>2. cs = [canon EXCEPT ![b] = v]
    <3>1. {r \in DOMAIN structs : canon[r] = r /\ Profile(r) = Profile(b)} = same
      BY <1>2, <1>4, <2>0
    <3> QED
      BY <1>6, <1>8, <2>1, <3>1 DEF getStructType
  <2>3. IF same = {} THEN v = b ELSE v \in same
    <3>1. same \in SUBSET Nat
      BY <1>1
    <3> HIDE DEF same
    <3> QED
      BY <2>1, <3>1, MinIsLeast
  <2>4. v \in 1 .. L /\ P[v] = P[b] /\ (v # b => canon[v] = v) /\ (v = b => same = {})
    BY <1>8, <2>0, <2>3
  <2>5. /\ cs \in Seq(0 .. L) /\ Len(cs) = L /\ cs[b] = v
        /\ \A s \in 1 .. L : s # b => cs[s] = canon[s]
    <3>1. v \in 0 .. L
      BY <2>4
    <3>2. [canon EXCEPT ![b] = v] \in Seq(0 .. L) /\ Len([canon EXCEPT ![b] = v]) = L
      BY <1>2, <2>0, <3>1, ExceptSeq
    <3>3. b \in DOMAIN canon
      BY <1>2, <2>0
    <3> QED
      BY <1>2, <2>2, <3>2, <3>3
  <2>6. \A s \in 1 .. L : canon[s] # 0 => cs[s] = canon[s]
    BY <1>8, <2>5
  <2>7. \A s \in 1 .. L : ProfileIn(structs[s], cs) = P[s]
    BY <1>1, <1>4, <2>6, ProfilesKept
  <2>8. ASSUME NEW s \in 1 .. L, cs[s] # 0
        PROVE  s \notin ToSet(open) /\ cs[s] \in 1 .. L /\ cs[cs[s]] = cs[s] /\ P[cs[s]] = P[s]
    <3>1. CASE s = b
      <4>1. cs[v] = v
        BY <2>4, <2>5
      <4> QED
        BY <2>4, <2>5, <3>1, <4>1
    <3>2. CASE s # b
      <4>1. cs[s] = canon[s] /\ canon[s] # 0 /\ canon[s] \in 1 .. L
        BY <1>2, <2>5, <2>8, <3>2
      <4>2. canon[canon[s]] = canon[s] /\ P[canon[s]] = P[s] /\ s \notin ToSet(open)
        BY <1>5, <4>1
      <4>3. canon[s] # b
        BY <1>8, <4>1, <4>2
      <4> QED
        BY <2>5, <4>1, <4>2, <4>3
    <3> QED
      BY <3>1, <3>2
  <2>9. ASSUME NEW r \in 1 .. L, NEW s \in 1 .. L, cs[r] = r, cs[s] = s, P[r] = P[s], r # s
        PROVE  FALSE
    <3>1. CASE r # b /\ s # b
      BY <1>5, <2>5, <2>9, <3>1
    <3>2. CASE r = b /\ s # b
      <4>1. same = {} /\ canon[s] = s
        BY <2>4, <2>5, <2>9, <3>2
      <4> QED
        BY <2>9, <3>2, <4>1
    <3>3. CASE s = b /\ r # b
      <4>1. same = {} /\ canon[r] = r
        BY <2>4, <2>5, <2>9, <3>3
      <4> QED
        BY <2>9, <3>3, <4>1
    <3> QED
      BY <2>9, <3>1, <3>2, <3>3
  <2>10. CanonOK(cs, structs, open)
    BY <1>1, <2>5, <2>7, <2>8, <2>9 DEF CanonOK
  <2>11. cs[b] # 0
    BY <2>4, <2>5
  <2> QED
    BY <1>1, <1>4, <1>6, <2>6, <2>7, <2>10, <2>11
<1> QED
  BY <1>7, <1>8

-----------------------------------------------------------------------------
(* The steps.                                                              *)

LEMMA NothingAnsweredNext == answer' = NoAnswer /\ Len(structs') \in Nat => AnswerInv'
<1>1. (answer = NoAnswer /\ Len(structs) \in Nat => AnswerInv)'
  BY NothingAnswered, PTL
<1> QED
  BY <1>1

LEMMA FieldsGrow ==
  ASSUME NEW nt \in Nat, NEW ns \in Nat, NEW mt \in Nat, NEW ms \in Nat, nt <= mt, ns <= ms
  PROVE  /\ FieldsOf(nt, ns) \subseteq FieldsOf(mt, ms)
         /\ Seq(Seq(FieldsOf(nt, ns))) \subseteq Seq(Seq(FieldsOf(mt, ms)))
         /\ Seq(Seq(Seq(FieldsOf(nt, ns)))) \subseteq Seq(Seq(Seq(FieldsOf(mt, ms))))
<1>1. TypesOf(nt, ns) \subseteq TypesOf(mt, ms)
  BY TypesGrow
<1>2. FieldsOf(nt, ns) \subseteq FieldsOf(mt, ms)
  BY <1>1 DEF FieldsOf
<1>3. Seq(Seq(FieldsOf(nt, ns))) \subseteq Seq(Seq(FieldsOf(mt, ms)))
  BY <1>2, SeqOfMore
<1>4. Seq(Seq(Seq(FieldsOf(nt, ns)))) \subseteq Seq(Seq(Seq(FieldsOf(mt, ms))))
  BY <1>3, SeqOfMore
<1> QED
  BY <1>2, <1>3, <1>4

LEMMA DeclaredGrow ==
  ASSUME NEW ns \in Nat, NEW ms \in Nat, ns <= ms, NEW ts, Declared(ts, ns)
  PROVE  Declared(ts, ms)
<1>1. ts \in Seq(TypesOf(Len(ts), ns)) /\ Len(ts) \in Nat
  BY LenProperties DEF Declared
<1>2. ts \in Seq(TypesOf(Len(ts), ms))
  BY <1>1, TypesGrow, SeqOfMore
<1> QED
  BY <1>2 DEF Declared

LEMMA NoPlaces ==
  /\ ToSet(Places(<< >>)) = {}
  /\ \A n : NamedIn(<< >>, n) = << >>
<1>0. << >> \in Seq(Seq(Nat))
  OBVIOUS
<1>1. PICK e \in Seq(Seq(Nat)) : e = << >>
  BY <1>0
<1>2. Len(e) = 0
  BY <1>1
<1>3. Pieces(e) = << >>
  <2>1. Pieces(e) \in Seq(Seq(Nat \X Nat)) /\ Len(Pieces(e)) = 0
    BY <1>1, <1>2, PiecesAre
  <2> QED
    BY <2>1, EmptySeq
<1>4. ToSet(Places(e)) = {}
  BY <1>3, FlattenEmpty DEF Places, ToSet
<1>5. ASSUME NEW n PROVE NamedIn(e, n) = << >>
  <2>1. PICK t : t = NamedIn(e, n)
    OBVIOUS
  <2>2. t \in Seq(Nat \X Nat) /\ IsInjective(t) /\ \A m : m \notin ToSet(t)
    BY <1>1, <1>4, <2>1, NamedAre
  <2>3. ToSet(t) = {}
    BY <2>2
  <2> QED
    BY <2>1, <2>2, <2>3, AtMostOne
<1> QED
  BY <1>1, <1>4, <1>5

LEMMA StartStep ==
  ASSUME StructInv, ActOnStartOfStructType
  PROVE  StructInv'
<1>1. PICK L \in Nat : L = Len(structs)
  BY Counts
<1>2. /\ structs' = Append(structs, << >>) /\ tables' = Append(tables, NewTable)
      /\ canon' = Append(canon, 0) /\ open' = <<L + 1>> \o open
      /\ made = 0 /\ UNCHANGED <<source, made, types, variable, uses>>
  BY <1>1 DEF ActOnStartOfStructType
<1>3. PICK F : F = FieldsOf(Len(types), L)
  OBVIOUS
<1>4. PICK G : G = FieldsOf(Len(types), L + 1)
  OBVIOUS
<1>5. /\ Len(types) \in Nat /\ F \subseteq G
      /\ Seq(Seq(F)) \subseteq Seq(Seq(G)) /\ Seq(Seq(Seq(F))) \subseteq Seq(Seq(Seq(G)))
  BY <1>1, <1>3, <1>4, Counts, FieldsGrow
<1>6. structs \in Seq(Seq(Seq(F))) /\ structs \in Seq(Seq(Seq(G))) /\ \A s \in 1 .. L : structs[s] \in Seq(Seq(F))
  BY <1>1, <1>3, <1>5, Counts DEF StructInv, FieldsInv
<1>7. /\ structs' \in Seq(Seq(Seq(G))) /\ Len(structs') = L + 1 /\ structs'[L + 1] = << >>
      /\ \A s \in 1 .. L : structs'[s] = structs[s]
  <2>1. << >> \in Seq(Seq(G))
    OBVIOUS
  <2> QED
    BY <1>1, <1>2, <1>6, <2>1, AppendProperties
<1>8. \A s \in 1 .. L + 1 : s \in 1 .. L \/ s = L + 1
  OBVIOUS
<1>9. TypesInv'
  <2>1. Declared(types, L + 1)
    BY <1>1, DeclaredGrow DEF StructInv, TypesInv
  <2>2. TypesOf(Len(types), L) \subseteq TypesOf(Len(types), L + 1)
    BY <1>5, TypesGrow
  <2>3. source \in Sources /\ uses \in Nat /\ Len(types) <= source.types
        /\ variable \in SUBSET TypesOf(Len(types), L + 1)
    BY <1>1, <2>2 DEF StructInv, TypesInv
  <2> QED
    BY <1>2, <1>7, <2>1, <2>3 DEF TypesInv
<1>10. /\ open' \in Seq(1 .. L + 1) /\ Len(open') = Len(open) + 1 /\ Len(open) \in Nat
       /\ open'[1] = L + 1 /\ \A i \in 1 .. Len(open) : open'[i + 1] = open[i]
       /\ \A i \in 1 .. Len(open) : open[i] \in 1 .. L
  <2>1. open \in Seq(1 .. L) /\ 1 .. L \subseteq 1 .. L + 1 /\ L + 1 \in 1 .. L + 1
    BY <1>1 DEF StructInv, OpenInv
  <2>2. open \in Seq(1 .. L + 1)
    BY <2>1, SeqOfMore
  <2> QED
    BY <1>2, <2>1, <2>2, ConsIs, LenProperties, ElementOfSeq
<1>11. \A i \in 1 .. Len(open) + 1 : i = 1 \/ i - 1 \in 1 .. Len(open)
  BY <1>10
<1>12. \A i \in 1 .. Len(open) + 1 : open'[i] = IF i = 1 THEN L + 1 ELSE open[i - 1]
  <2> SUFFICES ASSUME NEW i \in 1 .. Len(open) + 1, i # 1 PROVE open'[i] = open[i - 1]
    BY <1>10
  <2>1. i - 1 \in 1 .. Len(open) /\ i - 1 + 1 = i
    BY <1>10
  <2>2. open'[i - 1 + 1] = open[i - 1]
    BY <1>10, <2>1
  <2> QED
    BY <2>1, <2>2
<1>13. OpenInv'
  <2>1. ASSUME NEW i \in 1 .. Len(open) + 1, NEW j \in 1 .. Len(open) + 1, i < j
        PROVE  open'[j] < open'[i]
    <3>1. j # 1 /\ j - 1 \in 1 .. Len(open) /\ open'[j] = open[j - 1] /\ open[j - 1] \in 1 .. L
      BY <1>10, <1>11, <1>12, <2>1
    <3>2. CASE i = 1
      BY <1>10, <3>1, <3>2
    <3>3. CASE i # 1
      <4>1. i - 1 \in 1 .. Len(open) /\ i - 1 < j - 1 /\ open'[i] = open[i - 1]
        BY <1>10, <1>12, <2>1, <3>3
      <4>2. open[j - 1] < open[i - 1]
        BY <3>1, <4>1 DEF StructInv, OpenInv
      <4> QED
        BY <3>1, <4>1, <4>2
    <3> QED
      BY <3>2, <3>3
  <2>2. ASSUME NEW i \in 1 .. Len(open) + 1, NEW k \in 1 .. Len(types)
        PROVE  StructIn(Name(k), types) < open'[i]
    <3>1. StructIn(Name(k), types) \in 0 .. L
      <4>1. Name(k) \in TypesOf(Len(types), L)
        BY DEF TypesOf
      <4> QED
        BY <1>1, <4>1, ResolvedTypes DEF StructInv, TypesInv
    <3>2. CASE i = 1
      BY <1>10, <3>1, <3>2
    <3>3. CASE i # 1
      <4>1. i - 1 \in 1 .. Len(open) /\ open'[i] = open[i - 1]
        BY <1>10, <1>12, <3>3
      <4> QED
        BY <4>1 DEF StructInv, OpenInv
    <3> QED
      BY <3>2, <3>3
  <2> QED
    BY <1>2, <1>7, <1>10, <2>1, <2>2 DEF OpenInv
<1>14. ToSet(open') = ToSet(open) \cup {L + 1}
  <2>1. DOMAIN open' = 1 .. Len(open) + 1 /\ DOMAIN open = 1 .. Len(open)
    BY <1>10, Counts, LenProperties
  <2>2. ASSUME NEW i \in 1 .. Len(open) + 1 PROVE open'[i] \in ToSet(open) \cup {L + 1}
    BY <1>11, <1>12, <2>1 DEF ToSet
  <2>3. ASSUME NEW i \in 1 .. Len(open) PROVE open[i] \in ToSet(open')
    <3>1. i + 1 \in 1 .. Len(open) + 1 /\ open'[i + 1] = open[i]
      BY <1>10
    <3> QED
      BY <2>1, <3>1 DEF ToSet
  <2>4. L + 1 \in ToSet(open')
    <3>1. 1 \in 1 .. Len(open) + 1
      BY <1>10
    <3> QED
      BY <1>10, <2>1, <3>1 DEF ToSet
  <2> QED
    BY <2>1, <2>2, <2>3, <2>4 DEF ToSet
<1>15. /\ canon' \in Seq(0 .. L + 1) /\ Len(canon') = L + 1 /\ canon'[L + 1] = 0
       /\ \A s \in 1 .. L : canon'[s] = canon[s] /\ canon[s] \in 0 .. L
  <2>1. canon \in Seq(0 .. L) /\ Len(canon) = L /\ 0 .. L \subseteq 0 .. L + 1 /\ 0 \in 0 .. L + 1
    BY <1>1 DEF StructInv, CanonInv, CanonOK
  <2>2. canon \in Seq(0 .. L + 1)
    BY <2>1, SeqOfMore
  <2> QED
    BY <1>1, <1>2, <2>1, <2>2, AppendProperties, Counts
<1>16. FieldsInv'
  <2>1. ASSUME NEW s \in 1 .. L + 1, NEW m \in ToSet(Places(structs'[s]))
        PROVE  /\ s \in 1 .. L /\ structs'[s] = structs[s] /\ m \in ToSet(Places(structs[s]))
               /\ FieldOK(s, m, At(structs[s], m))
    <3>1. s # L + 1
      BY <1>7, <2>1, NoPlaces
    <3> QED
      BY <1>1, <1>7, <1>8, <2>1, <3>1 DEF StructInv, FieldsInv
  <2>2. ASSUME NEW s \in 1 .. L + 1, NEW m \in ToSet(Places(structs'[s]))
        PROVE  FieldOK(s, m, At(structs[s], m))'
    <3>1. PICK f : f = At(structs[s], m)
      OBVIOUS
    <3>2. FieldOK(s, m, f) /\ f = At(structs'[s], m)
      BY <2>1, <2>2, <3>1
    <3>3. f \in F /\ f \in G /\ f.type \in TypesOf(Len(types), L)
      BY <1>1, <1>3, <1>5, <3>2 DEF FieldOK, FieldsOf
    <3>4. ASSUME f.type.kind \in {"struct", "pointer"}, ~ f.type.named
          PROVE  s < f.type.of /\ f.type.of \notin ToSet(open') /\ canon'[f.type.of] # 0
      <4>1. s < f.type.of /\ f.type.of \notin ToSet(open) /\ canon[f.type.of] # 0
        BY <3>2, <3>4 DEF FieldOK
      <4>2. f.type.of \in 1 .. L
        BY <1>1, <3>3, <3>4, BehindIs
      <4> QED
        BY <1>14, <1>15, <4>1, <4>2
    <3>5. f.anon => m[2] = 1 /\ f.type.named /\ StructIn(Pointed(f.type), types) < s
      BY <3>2 DEF FieldOK
    <3> QED
      BY <1>2, <1>4, <1>7, <3>2, <3>3, <3>4, <3>5 DEF FieldOK
  <2>3. ASSUME NEW s \in 1 .. L + 1, NEW m \in ToSet(Places(structs'[s])),
               NEW k \in ToSet(Places(structs'[s])),
               At(structs'[s], m).name = At(structs'[s], k).name
        PROVE  m = k
    <3>1. s \in 1 .. L /\ structs'[s] = structs[s]
      BY <2>1, <2>3
    <3> QED
      BY <1>1, <2>3, <3>1 DEF StructInv, FieldsInv
  <2> QED
    BY <1>2, <1>4, <1>7, <2>2, <2>3 DEF FieldsInv
<1>17. TablesInv'
  <2>1. NewTable \in Tables /\ TableOK(NewTable, << >>)
    <3>1. \A n \in Names : << >> \in Seq(Nat \X Nat)
      OBVIOUS
    <3>2. EmptyMap \in [Names -> Seq(Nat \X Nat)] /\ EmptyMap = [n \in Names |-> NamedIn(<< >>, n)]
      BY <3>1, NoPlaces DEF EmptyMap
    <3>3. NewTable.map = EmptyMap /\ NewTable.lazy = FALSE /\ NewTable \in Tables
      BY <3>2 DEF NewTable, Tables
    <3> QED
      BY <3>2, <3>3, NoPlaces DEF TableOK
  <2>2. tables \in Seq(Tables) /\ Len(tables) = L /\ \A s \in 1 .. L : TableOK(tables[s], structs[s])
    BY <1>1 DEF StructInv, TablesInv
  <2>3. /\ tables' \in Seq(Tables) /\ Len(tables') = L + 1 /\ tables'[L + 1] = NewTable
        /\ \A s \in 1 .. L : tables'[s] = tables[s]
    BY <1>2, <2>1, <2>2, AppendProperties
  <2>4. ASSUME NEW s \in 1 .. L + 1 PROVE TableOK(tables'[s], structs'[s])
    <3>1. CASE s = L + 1
      BY <1>7, <2>1, <2>3, <3>1
    <3>2. CASE s # L + 1
      BY <1>7, <1>8, <2>2, <2>3, <3>2
    <3> QED
      BY <3>1, <3>2
  <2> QED
    BY <1>7, <2>3, <2>4 DEF TablesInv
<1>18. CanonInv'
  <2>1. CanonOK(canon, structs, open)
    BY DEF StructInv, CanonInv
  <2>2. \A s \in 1 .. L : ProfileIn(structs[s], canon') = ProfileIn(structs[s], canon)
    BY <1>1, <1>15, ProfilesKept
  <2>3. ASSUME NEW s \in 1 .. L + 1, canon'[s] # 0
        PROVE  /\ s \notin ToSet(open')
               /\ canon'[canon'[s]] = canon'[s]
               /\ ProfileIn(structs'[canon'[s]], canon') = ProfileIn(structs'[s], canon')
    <3>1. s \in 1 .. L /\ canon'[s] = canon[s] /\ canon[s] \in 1 .. L
      BY <1>8, <1>15, <2>3
    <3>2. PICK c \in 1 .. L : c = canon[s]
      BY <3>1
    <3>3. /\ s \notin ToSet(open) /\ canon[c] = c
          /\ ProfileIn(structs[c], canon) = ProfileIn(structs[s], canon)
      BY <1>1, <2>1, <3>1, <3>2 DEF CanonOK
    <3>4. canon'[s] = c /\ canon'[c] = c /\ structs'[c] = structs[c] /\ structs'[s] = structs[s]
      BY <1>7, <1>15, <3>1, <3>2, <3>3
    <3>5. s \notin ToSet(open')
      BY <1>14, <3>1, <3>3
    <3>6. ProfileIn(structs[c], canon') = ProfileIn(structs[s], canon')
      BY <2>2, <3>1, <3>3
    <3> QED
      BY <3>4, <3>5, <3>6
  <2>4. ASSUME NEW r \in 1 .. L + 1, NEW s \in 1 .. L + 1, canon'[r] = r, canon'[s] = s,
               ProfileIn(structs'[r], canon') = ProfileIn(structs'[s], canon')
        PROVE  r = s
    <3>1. r \in 1 .. L /\ s \in 1 .. L
      BY <1>8, <1>15, <2>4
    <3>2. ProfileIn(structs[r], canon) = ProfileIn(structs[s], canon) /\ canon[r] = r /\ canon[s] = s
      BY <1>7, <1>15, <2>2, <2>4, <3>1
    <3> QED
      BY <1>1, <2>1, <3>1, <3>2 DEF CanonOK
  <2>5. CanonOK(canon', structs', open')
    BY <1>7, <1>15, <2>3, <2>4 DEF CanonOK
  <2> QED
    BY <2>5 DEF CanonInv
<1> QED
  BY <1>9, <1>13, <1>16, <1>17, <1>18 DEF StructInv

(* The fields that are kept are new ones with different names.             *)
LEMMA NewFieldsAre ==
  ASSUME StructInv, NEW idents \in Seq(Names), NEW t, NEW anon, NEW new,
         new = NewFields(idents, t, anon)
  PROVE  /\ Len(new) \in Nat /\ new \in [1 .. Len(new) -> [name : Names, type : {t}, anon : {anon}]]
         /\ \A j \in 1 .. Len(new) : Named(Head(open), new[j].name) = << >>
         /\ \A j, k \in 1 .. Len(new) : new[j].name = new[k].name => j = k
         /\ Len(idents) = 1 => Len(new) <= 1
<1>1. PICK n \in Nat : n = Len(idents) /\ DOMAIN idents = 1 .. n
  BY LenProperties
<1>2. \A k \in 1 .. n : idents[k] \in Names
  BY <1>1, ElementOfSeq
<1>3. PICK T : T = {k \in 1 .. n : /\ Named(Head(open), idents[k]) = << >>
                                   /\ \A j \in 1 .. k - 1 : idents[j] # idents[k]}
  OBVIOUS
<1>4. PICK all : all = [k \in 1 .. n |-> k]
  OBVIOUS
<1>5. all \in Seq(Nat) /\ DOMAIN all = 1 .. n /\ IsInjective(all) /\ ToSet(all) = 1 .. n
  <2>1. all \in [1 .. n -> Nat] /\ \A k \in 1 .. n : all[k] = k
    BY <1>4
  <2> QED
    BY <2>1 DEF IsInjective, ToSet
<1>6. PICK kept : kept = Among(all, T)
  OBVIOUS
<1>7. kept \in Seq(Nat) /\ IsInjective(kept) /\ ToSet(kept) = T
  <2>1. ToSet(kept) = (1 .. n) \cap T
    BY <1>5, <1>6, AmongRange
  <2>2. (1 .. n) \cap T = T
    BY <1>3
  <2> QED
    BY <1>5, <1>6, <2>1, <2>2, AmongType, AmongDistinct
<1>8. PICK c \in Nat : c = Len(kept) /\ DOMAIN kept = 1 .. c
  BY <1>7, LenProperties
<1>9. \A i \in 1 .. c : kept[i] \in T
  BY <1>7, <1>8 DEF ToSet
<1>10. new = [i \in 1 .. c |-> [name |-> idents[kept[i]], type |-> t, anon |-> anon]]
  BY <1>1, <1>3, <1>4, <1>6, <1>8 DEF NewFields
<1>11. /\ \A i \in 1 .. c : new[i] = [name |-> idents[kept[i]], type |-> t, anon |-> anon]
       /\ \A i \in 1 .. c : kept[i] \in 1 .. n
       /\ DOMAIN new = 1 .. c
  BY <1>3, <1>9, <1>10
<1>12. \A i \in 1 .. c : new[i].name = idents[kept[i]] /\ new[i] \in [name : Names, type : {t}, anon : {anon}]
  BY <1>2, <1>11
<1>13. new \in [1 .. c -> [name : Names, type : {t}, anon : {anon}]] /\ Len(new) = c
  <2>1. new \in [1 .. c -> [name : Names, type : {t}, anon : {anon}]]
    BY <1>10, <1>11, <1>12
  <2> QED
    BY <2>1
<1>14. \A i \in 1 .. c : Named(Head(open), new[i].name) = << >>
  BY <1>3, <1>9, <1>12
<1>15. ASSUME NEW i \in 1 .. c, NEW j \in 1 .. c, new[i].name = new[j].name PROVE i = j
  <2>1. idents[kept[i]] = idents[kept[j]] /\ kept[i] \in T /\ kept[j] \in T
    BY <1>9, <1>12, <1>15
  <2>2. kept[i] \in 1 .. n /\ kept[j] \in 1 .. n
    BY <1>11
  <2>3. ASSUME kept[i] < kept[j] PROVE FALSE
    <3>1. kept[i] \in 1 .. kept[j] - 1
      BY <2>2, <2>3
    <3> QED
      BY <1>3, <2>1, <3>1
  <2>4. ASSUME kept[j] < kept[i] PROVE FALSE
    <3>1. kept[j] \in 1 .. kept[i] - 1
      BY <2>2, <2>4
    <3> QED
      BY <1>3, <2>1, <3>1
  <2>5. kept[i] = kept[j]
    BY <2>2, <2>3, <2>4
  <2> QED
    BY <1>7, <1>8, <2>5 DEF IsInjective
<1>16. ASSUME n = 1 PROVE c <= 1
  <2>1. \A x, y \in ToSet(kept) : x = y
    <3>1. \A x \in T : x = 1
      BY <1>3, <1>16
    <3> QED
      BY <1>7, <3>1
  <2>2. ~ (c > 1)
    BY <1>7, <1>8, <2>1, AtMostOne
  <2> QED
    BY <2>2
<1> QED
  BY <1>1, <1>13, <1>14, <1>15, <1>16

(* The table of a struct with a FieldSpec more.                            *)
LEMMA TableKept ==
  ASSUME NEW F, NEW specs \in Seq(Seq(F)), NEW new \in Seq(F), NEW t, TableOK(t, specs),
         NEW s, structs'[s] = Append(specs, new)
  PROVE  TableOK(makeDeclVisible(t, s, NewPlaces(specs, new)), Append(specs, new))
<1>1. PICK np : np = NewPlaces(specs, new)
  OBVIOUS
<1>2. PICK more : more = Append(specs, new)
  OBVIOUS
<1>3. /\ np \in Seq(Nat \X Nat) /\ Len(np) = Len(new)
      /\ \A m : m \in ToSet(Places(more)) <=>
                  m \in ToSet(Places(specs)) \/ \E j \in 1 .. Len(new) : m = <<Len(specs) + 1, j>>
  BY <1>1, <1>2, PlacesAppend
<1>4. PICK A : A = [n \in Names |-> Among(np, Called(more, np, n))]
  OBVIOUS
<1>5. ASSUME NEW n \in Names
      PROVE  /\ A[n] \in Seq(Nat \X Nat) /\ A[n] = Among(np, Called(more, np, n))
             /\ NamedIn(more, n) = NamedIn(specs, n) \o A[n]
  <2>1. A[n] = Among(np, Called(more, np, n))
    BY <1>4
  <2>2. A[n] \in Seq(Nat \X Nat)
    BY <1>3, <2>1, AmongType
  <2>3. NamedIn(more, n) = NamedIn(specs, n) \o Among(np, Called(more, np, n))
    BY <1>1, <1>2, NamedAppend
  <2> QED
    BY <2>1, <2>2, <2>3
<1>6. t \in Tables
  BY DEF TableOK
<1>7. CASE t.exists
  <2>1. PICK map : map = [n \in Names |-> t.map[n] \o A[n]]
    OBVIOUS
  <2>2. makeDeclVisible(t, s, np) = [t EXCEPT !.map = map]
    <3>1. \A m : Member(s, m).name' = At(more, m).name
      BY <1>2 DEF Member, At
    <3>2. \A n \in Names : t.map[n] \o A[n]
                             = t.map[n] \o Among(np, {m \in ToSet(np) : Member(s, m).name' = n})
      BY <1>5, <3>1 DEF Called
    <3> QED
      BY <1>7, <2>1, <3>2 DEF makeDeclVisible
  <2>3. map \in [Names -> Seq(Nat \X Nat)]
    <3>1. \A n \in Names : t.map[n] \in Seq(Nat \X Nat)
      BY <1>6 DEF Tables
    <3>2. \A n \in Names : t.map[n] \o A[n] \in Seq(Nat \X Nat)
      BY <1>5, <3>1, ConcatProperties
    <3> QED
      BY <2>1, <3>2
  <2>4. PICK u : u = [t EXCEPT !.map = map]
    OBVIOUS
  <2>5. u \in Tables /\ u.map = map /\ u.lazy = t.lazy /\ u.exists = t.exists
    BY <1>6, <2>3, <2>4 DEF Tables
  <2>6. ASSUME ~ t.lazy PROVE map = [n \in Names |-> NamedIn(more, n)]
    <3>1. t.map = [n \in Names |-> NamedIn(specs, n)]
      BY <2>6 DEF TableOK
    <3>2. \A n \in Names : t.map[n] \o A[n] = NamedIn(more, n)
      BY <1>5, <3>1
    <3> QED
      BY <2>1, <3>2
  <2>7. TableOK(u, more)
    BY <1>7, <2>5, <2>6 DEF TableOK
  <2> QED
    BY <1>1, <1>2, <2>2, <2>4, <2>7
<1>8. CASE ~ t.exists
  <2>1. PICK lazy \in BOOLEAN : lazy <=> (t.lazy \/ np # << >>)
    <3>1. (t.lazy \/ np # << >>) \in BOOLEAN
      OBVIOUS
    <3> QED
      BY <3>1
  <2>2. t.lazy \in BOOLEAN
    BY <1>6 DEF Tables
  <2>3. makeDeclVisible(t, s, np) = [t EXCEPT !.lazy = lazy]
    <3>1. lazy = (t.lazy \/ np # << >>)
      BY <2>1, Zenon
    <3> QED
      BY <1>8, <3>1 DEF makeDeclVisible
  <2>4. PICK u : u = [t EXCEPT !.lazy = lazy]
    OBVIOUS
  <2>5. u \in Tables /\ u.map = t.map /\ u.lazy = lazy /\ u.exists = t.exists
    BY <1>6, <2>1, <2>4 DEF Tables
  <2>6. ASSUME ~ lazy
        PROVE  t.map = [n \in Names |-> NamedIn(more, n)] /\ ToSet(Places(more)) = {}
    <3>1. np = << >> /\ ~ t.lazy /\ Len(new) = 0
      <4>1. np = << >> /\ ~ t.lazy
        BY <2>1, <2>6
      <4> QED
        BY <1>3, <4>1
    <3>2. t.map = [n \in Names |-> NamedIn(specs, n)] /\ ToSet(Places(specs)) = {}
      BY <1>8, <3>1 DEF TableOK
    <3>3. ToSet(np) = {}
      BY <3>1 DEF ToSet
    <3>4. \A n \in Names : A[n] = << >>
      BY <1>3, <1>4, <3>1, <3>3, AmongAll
    <3>5. \A n \in Names : NamedIn(specs, n) \in Seq(Nat \X Nat)
      BY NamedAre
    <3>6. \A n \in Names : NamedIn(more, n) = NamedIn(specs, n)
      BY <1>5, <3>4, <3>5, ConcatEmptySeq
    <3>7. ToSet(Places(more)) = {}
      <4>1. 1 .. Len(new) = {}
        BY <3>1
      <4> QED
        BY <1>3, <3>2, <4>1
    <3> QED
      BY <3>2, <3>6, <3>7
  <2>7. TableOK(u, more)
    BY <2>5, <2>6 DEF TableOK
  <2> QED
    BY <1>1, <1>2, <2>3, <2>4, <2>7
<1> QED
  BY <1>7, <1>8

LEMMA AddStep ==
  ASSUME StructInv, NEW idents \in Seq(Names), NEW t \in TypesOf(Len(types), Len(structs)),
         NEW anon \in BOOLEAN, Behind(t) \notin ToSet(open), Len(open) # 0,
         anon => Len(idents) = 1 /\ t.named,
         t.kind \in {"struct", "pointer"} /\ ~ t.named => made # 0 /\ t.of = made,
         AddFieldSpec(idents, t, anon)
  PROVE  StructInv'
<1>1. PICK L \in Nat : L = Len(structs)
  BY Counts
<1>2. PICK s : s = Head(open)
  OBVIOUS
<1>3. /\ s = open[1] /\ 1 \in 1 .. Len(open) /\ s \in 1 .. L /\ s \in ToSet(open)
      /\ DOMAIN structs = 1 .. L /\ DOMAIN tables = 1 .. L
      /\ Len(types) \in Nat
  BY <1>1, <1>2, Counts
<1>4. PICK F : F = FieldsOf(Len(types), L)
  OBVIOUS
<1>5. PICK old \in Seq(Seq(F)) : old = structs[s]
  BY <1>1, <1>3, <1>4, Counts
<1>6. PICK new : new = NewFields(idents, t, anon)
  OBVIOUS
<1>7. /\ Len(new) \in Nat /\ new \in [1 .. Len(new) -> [name : Names, type : {t}, anon : {anon}]]
      /\ \A j \in 1 .. Len(new) : NamedIn(old, new[j].name) = << >>
      /\ \A j, k \in 1 .. Len(new) : new[j].name = new[k].name => j = k
      /\ Len(idents) = 1 => Len(new) <= 1
  <2>1. \A n : Named(s, n) = NamedIn(old, n)
    BY <1>5, State DEF InState
  <2> QED
    BY <1>2, <1>6, <2>1, NewFieldsAre
<1>8. /\ \A j \in 1 .. Len(new) : new[j] \in F /\ new[j].type = t /\ new[j].anon = anon
      /\ new \in Seq(F) /\ DOMAIN new = 1 .. Len(new)
  <2>1. \A j \in 1 .. Len(new) : new[j] \in F /\ new[j].type = t /\ new[j].anon = anon
    BY <1>1, <1>4, <1>7 DEF FieldsOf
  <2>2. new \in [1 .. Len(new) -> F]
    BY <1>7, <2>1
  <2> QED
    BY <1>7, <2>1, <2>2
<1>9. PICK more : more = Append(old, new)
  OBVIOUS
<1>10. PICK cs : cs = getStructType(Behind(t))
  OBVIOUS
<1>11. /\ structs' = [structs EXCEPT ![s] = more]
       /\ tables' = [tables EXCEPT ![s] = makeDeclVisible(tables[s], s, NewPlaces(old, new))]
       /\ canon' = cs /\ made' = 0 /\ UNCHANGED <<source, open, types, variable, uses>>
  <2>1. getTypeDeclType(t) = cs
    <3>1. StructOf(Pointed(t)) = Behind(t)
      BY BehindIs
    <3> QED
      BY <1>10, <3>1 DEF getTypeDeclType
  <2>2. /\ structs' = [structs EXCEPT ![s] = Append(structs[s], new)]
        /\ tables' = [tables EXCEPT ![s] = makeDeclVisible(tables[s], s,
             [j \in DOMAIN new |-> <<Len(structs[s]) + 1, j>>])]
        /\ canon' = getTypeDeclType(t) /\ made' = 0
        /\ UNCHANGED <<source, open, types, variable, uses>>
    BY <1>2, <1>6 DEF AddFieldSpec
  <2> QED
    BY <1>5, <1>9, <2>1, <2>2 DEF NewPlaces
<1>12. /\ more \in Seq(Seq(F))
       /\ \A m \in ToSet(Places(old)) : At(more, m) = At(old, m)
       /\ \A j \in 1 .. Len(new) : At(more, <<Len(old) + 1, j>>) = new[j]
       /\ \A m : m \in ToSet(Places(more)) <=>
                   m \in ToSet(Places(old)) \/ \E j \in 1 .. Len(new) : m = <<Len(old) + 1, j>>
  <2>1. more \in Seq(Seq(F))
    BY <1>8, <1>9, AppendProperties
  <2> QED
    BY <1>8, <1>9, <2>1, PlacesAppend
<1>13. /\ structs' \in Seq(Seq(Seq(F))) /\ Len(structs') = L /\ structs'[s] = more
       /\ \A r \in 1 .. L : r # s => structs'[r] = structs[r]
  <2>1. structs \in Seq(Seq(Seq(F)))
    BY <1>1, <1>4 DEF StructInv, FieldsInv
  <2> QED
    BY <1>1, <1>3, <1>11, <1>12, <2>1, ExceptSeq
<1>14. /\ CanonOK(cs, structs, open)
       /\ \A r \in 1 .. L : canon[r] # 0 => cs[r] = canon[r]
       /\ Behind(t) # 0 => cs[Behind(t)] # 0
       /\ Behind(t) \in 0 .. L
  <2>1. Behind(t) \in 0 .. Len(structs)
    BY BehindIs
  <2> QED
    BY <1>1, <1>10, <2>1, MadeType
<1>15. TypesInv'
  BY <1>1, <1>11, <1>13 DEF StructInv, TypesInv
<1>16. OpenInv'
  <2>1. 0 \in 0 .. L
    OBVIOUS
  <2> QED
    BY <1>1, <1>11, <1>13, <2>1 DEF StructInv, OpenInv
<1>17. ASSUME NEW r \in 1 .. L, NEW m, NEW f, FieldOK(r, m, f) PROVE FieldOK(r, m, f)'
  <2>1. f \in F /\ (f.anon => m[2] = 1 /\ f.type.named /\ StructIn(Pointed(f.type), types) < r)
    BY <1>1, <1>4, <1>17 DEF FieldOK
  <2>2. ASSUME f.type.kind \in {"struct", "pointer"}, ~ f.type.named
        PROVE  r < f.type.of /\ f.type.of \notin ToSet(open) /\ cs[f.type.of] # 0
    <3>1. r < f.type.of /\ f.type.of \notin ToSet(open) /\ canon[f.type.of] # 0
      BY <1>17, <2>2 DEF FieldOK
    <3>2. f.type.of \in 1 .. L
      <4>1. f.type \in TypesOf(Len(types), Len(structs))
        BY <1>1, <1>4, <2>1 DEF FieldsOf
      <4> QED
        BY <1>1, <2>2, <4>1, BehindIs
    <3> QED
      BY <1>14, <3>1, <3>2
  <2> QED
    BY <1>1, <1>4, <1>11, <1>13, <2>1, <2>2 DEF FieldOK
<1>18. ASSUME NEW j \in 1 .. Len(new) PROVE FieldOK(s, <<Len(old) + 1, j>>, new[j])'
  <2>1. new[j] \in F /\ new[j].type = t /\ new[j].anon = anon
    BY <1>8
  <2>2. ASSUME anon PROVE j = 1 /\ t.named /\ Behind(t) < s
    <3>1. Len(new) <= 1 /\ t.named
      BY <1>7, <2>2
    <3>2. Behind(t) < open[1]
      BY <1>3, <3>1, BehindIs
    <3> QED
      BY <1>3, <1>7, <3>1, <3>2
  <2>3. ASSUME t.kind \in {"struct", "pointer"}, ~ t.named
        PROVE  s < t.of /\ t.of \notin ToSet(open) /\ cs[t.of] # 0
    <3>1. made # 0 /\ t.of = made /\ Behind(t) = t.of
      BY <2>3, BehindIs
    <3>2. open[1] < made
      BY <1>3, <3>1 DEF StructInv, OpenInv
    <3> QED
      BY <1>3, <1>14, <3>1, <3>2
  <2> QED
    BY <1>1, <1>4, <1>11, <1>13, <2>1, <2>2, <2>3 DEF FieldOK, Behind
<1>19. FieldsInv'
  <2>1. ASSUME NEW r \in 1 .. L, NEW m \in ToSet(Places(structs[r]))
        PROVE  FieldOK(r, m, At(structs[r], m))
    BY <1>1, <2>1 DEF StructInv, FieldsInv
  <2>2. ASSUME NEW r \in 1 .. L, NEW m \in ToSet(Places(structs'[r]))
        PROVE  FieldOK(r, m, At(structs[r], m))'
    <3>1. PICK f : f = At(structs'[r], m)
      OBVIOUS
    <3>2. CASE r # s
      <4>1. structs'[r] = structs[r]
        BY <1>13, <3>2
      <4>2. FieldOK(r, m, f)
        BY <2>1, <2>2, <3>1, <4>1
      <4>3. FieldOK(r, m, f)'
        BY <1>17, <4>2
      <4> QED
        BY <3>1, <4>3 DEF FieldOK
    <3>3. CASE r = s
      <4>1. structs'[r] = more /\ m \in ToSet(Places(more))
        BY <1>13, <2>2, <3>3
      <4>2. CASE m \in ToSet(Places(old))
        <5>1. f = At(structs[r], m) /\ m \in ToSet(Places(structs[r]))
          BY <1>5, <1>12, <3>1, <3>3, <4>1, <4>2
        <5>2. FieldOK(r, m, f)
          BY <2>1, <5>1
        <5>3. FieldOK(r, m, f)'
          BY <1>17, <5>2
        <5> QED
          BY <3>1, <5>3 DEF FieldOK
      <4>3. CASE m \notin ToSet(Places(old))
        <5>1. PICK j \in 1 .. Len(new) : m = <<Len(old) + 1, j>>
          BY <1>12, <4>1, <4>3
        <5>2. f = new[j]
          BY <1>12, <3>1, <4>1, <5>1
        <5>3. FieldOK(r, m, f)'
          BY <1>18, <3>3, <5>1, <5>2
        <5> QED
          BY <3>1, <5>3 DEF FieldOK
      <4> QED
        BY <4>2, <4>3
    <3> QED
      BY <3>2, <3>3
  <2>3. \A r \in 1 .. L : NamesApart(structs[r])
    BY <1>1 DEF StructInv, FieldsInv, NamesApart
  <2>4. NamesApart(more)
    <3>1. ASSUME NEW m \in ToSet(Places(old)), NEW j \in 1 .. Len(new)
          PROVE  At(old, m).name # new[j].name
      <4>1. NamedIn(old, new[j].name) = << >>
        BY <1>7
      <4>2. ToSet(NamedIn(old, new[j].name)) = {}
        BY <4>1 DEF ToSet
      <4>3. At(old, m).name = new[j].name => m \in ToSet(NamedIn(old, new[j].name))
        BY NamedAre
      <4> QED
        BY <4>2, <4>3
    <3>2. ASSUME NEW m \in ToSet(Places(more)), NEW k \in ToSet(Places(more)),
                 At(more, m).name = At(more, k).name
          PROVE  m = k
      <4>1. CASE m \in ToSet(Places(old)) /\ k \in ToSet(Places(old))
        BY <1>3, <1>5, <1>12, <2>3, <3>2, <4>1 DEF NamesApart
      <4>2. CASE m \in ToSet(Places(old)) /\ k \notin ToSet(Places(old))
        <5>1. PICK j \in 1 .. Len(new) : k = <<Len(old) + 1, j>>
          BY <1>12, <4>2
        <5> QED
          BY <1>12, <3>1, <3>2, <4>2, <5>1
      <4>3. CASE m \notin ToSet(Places(old)) /\ k \in ToSet(Places(old))
        <5>1. PICK j \in 1 .. Len(new) : m = <<Len(old) + 1, j>>
          BY <1>12, <4>3
        <5> QED
          BY <1>12, <3>1, <3>2, <4>3, <5>1
      <4>4. CASE m \notin ToSet(Places(old)) /\ k \notin ToSet(Places(old))
        <5>1. PICK i \in 1 .. Len(new) : m = <<Len(old) + 1, i>>
          BY <1>12, <4>4
        <5>2. PICK j \in 1 .. Len(new) : k = <<Len(old) + 1, j>>
          BY <1>12, <4>4
        <5>3. At(more, m) = new[i] /\ At(more, k) = new[j]
          BY <1>12, <5>1, <5>2
        <5>4. i = j
          BY <1>7, <3>2, <5>3
        <5> QED
          BY <5>1, <5>2, <5>4
      <4> QED
        BY <4>1, <4>2, <4>3, <4>4
    <3> QED
      BY <3>2 DEF NamesApart
  <2>5. \A r \in 1 .. L : NamesApart(structs'[r])
    BY <1>13, <2>3, <2>4
  <2> QED
    BY <1>1, <1>4, <1>11, <1>13, <2>2, <2>5 DEF FieldsInv, NamesApart
<1>20. TablesInv'
  <2>1. tables \in Seq(Tables) /\ Len(tables) = L /\ \A r \in 1 .. L : TableOK(tables[r], structs[r])
    BY <1>1 DEF StructInv, TablesInv
  <2>2. PICK u : u = makeDeclVisible(tables[s], s, NewPlaces(old, new))
    OBVIOUS
  <2>3. TableOK(u, more)
    <3>1. TableOK(tables[s], old)
      BY <1>3, <1>5, <2>1
    <3>2. structs'[s] = Append(old, new)
      BY <1>9, <1>13
    <3> QED
      BY <1>8, <1>9, <2>2, <3>1, <3>2, TableKept
  <2>4. u \in Tables
    BY <2>3 DEF TableOK
  <2>5. /\ tables' \in Seq(Tables) /\ Len(tables') = L /\ tables'[s] = u
        /\ \A r \in 1 .. L : r # s => tables'[r] = tables[r]
    BY <1>3, <1>11, <2>1, <2>2, <2>4, ExceptSeq
  <2>6. \A r \in 1 .. L : TableOK(tables'[r], structs'[r])
    BY <1>13, <2>1, <2>3, <2>5
  <2> QED
    BY <1>13, <2>5, <2>6 DEF TablesInv
<1>21. CanonInv'
  <2>1. /\ cs \in Seq(0 .. L) /\ Len(cs) = L
        /\ \A r \in 1 .. L : cs[r] # 0 =>
             /\ r \notin ToSet(open) /\ cs[cs[r]] = cs[r]
             /\ ProfileIn(structs[cs[r]], cs) = ProfileIn(structs[r], cs)
        /\ \A q, r \in 1 .. L :
             cs[q] = q /\ cs[r] = r /\ ProfileIn(structs[q], cs) = ProfileIn(structs[r], cs) => q = r
    BY <1>1, <1>14 DEF CanonOK
  <2>2. cs[s] = 0
    BY <1>3, <2>1
  <2>3. \A r \in 1 .. L : cs[r] \in 0 .. L
    BY <2>1, ElementOfSeq
  <2>4. ASSUME NEW r \in 1 .. L, cs[r] # 0
        PROVE  /\ cs[r] \in 1 .. L /\ structs'[r] = structs[r]
               /\ structs'[cs[r]] = structs[cs[r]]
    <3>1. cs[r] \in 1 .. L /\ r # s
      BY <2>2, <2>3, <2>4
    <3>2. cs[r] # s
      BY <2>1, <2>2, <2>4
    <3> QED
      BY <1>13, <3>1, <3>2
  <2>5. \A r \in 1 .. L : cs[r] # 0 =>
          /\ r \notin ToSet(open) /\ cs[cs[r]] = cs[r]
          /\ ProfileIn(structs'[cs[r]], cs) = ProfileIn(structs'[r], cs)
    BY <2>1, <2>4
  <2>6. \A q, r \in 1 .. L :
          cs[q] = q /\ cs[r] = r /\ ProfileIn(structs'[q], cs) = ProfileIn(structs'[r], cs) => q = r
    <3> SUFFICES ASSUME NEW q \in 1 .. L, NEW r \in 1 .. L, cs[q] = q, cs[r] = r,
                        ProfileIn(structs'[q], cs) = ProfileIn(structs'[r], cs)
                 PROVE  q = r
      OBVIOUS
    <3>1. q # 0 /\ r # 0
      OBVIOUS
    <3>2. structs'[q] = structs[q] /\ structs'[r] = structs[r]
      BY <2>4, <3>1
    <3> QED
      BY <2>1, <3>2
  <2>7. CanonOK(cs, structs', open)
    BY <1>13, <2>1, <2>5, <2>6 DEF CanonOK
  <2> QED
    BY <1>11, <2>7 DEF CanonInv
<1> QED
  BY <1>15, <1>16, <1>19, <1>20, <1>21 DEF StructInv

LEMMA FieldStep ==
  ASSUME StructInv, ActOnFieldDecl
  PROVE  StructInv'
<1>1. PICK idents \in source.idents, t \in WrittenTypes(source.kinds) :
        AddFieldSpec(idents, t, FALSE)
  BY DEF ActOnFieldDecl
<1>2. idents \in Seq(Names)
  BY <1>1, SourcesAssumption DEF StructInv, TypesInv, SourceFields
<1>3. Len(open) # 0
  <2>1. open # << >> /\ open \in Seq(1 .. Len(structs))
    BY DEF ActOnFieldDecl, StructInv, OpenInv
  <2> QED
    BY <2>1, EmptySeq
<1>4. /\ t \in TypesOf(Len(types), Len(structs)) /\ Behind(t) \notin ToSet(open)
      /\ t.kind \in {"struct", "pointer"} /\ ~ t.named => made # 0 /\ t.of = made
  BY <1>1, WrittenAre
<1> QED
  BY <1>1, <1>2, <1>3, <1>4, AddStep

LEMMA AnonymousStep ==
  ASSUME StructInv, ActOnAnonymousField
  PROVE  StructInv'
<1>1. PICK t \in WrittenTypes(source.embeds) : AddFieldSpec(<<EmbeddedName(t)>>, t, TRUE)
  BY DEF ActOnAnonymousField
<1>2. source.embeds \subseteq {"name", "pointer"} /\ source.types \in 0 .. Len(TypeNames)
  BY SourcesAssumption DEF StructInv, TypesInv, SourceFields
<1>3. Len(open) # 0
  <2>1. open # << >> /\ open \in Seq(1 .. Len(structs))
    BY DEF ActOnAnonymousField, StructInv, OpenInv
  <2> QED
    BY <2>1, EmptySeq
<1>4. /\ t \in TypesOf(Len(types), Len(structs)) /\ Behind(t) \notin ToSet(open)
      /\ t.named
  BY <1>1, <1>2, WrittenAre DEF ActOnAnonymousField
<1>5. EmbeddedName(t) \in Names
  <2>1. t.of \in 1 .. Len(types)
    BY <1>4, PointedIs
  <2>2. t.of \in 1 .. Len(TypeNames)
    BY <1>2, <2>1, NamesFacts, Counts DEF StructInv, TypesInv
  <2> QED
    BY <2>2, NamesFacts DEF EmbeddedName
<1>6. <<EmbeddedName(t)>> \in Seq(Names) /\ Len(<<EmbeddedName(t)>>) = 1
  BY <1>5
<1>7. PICK idents \in Seq(Names) : idents = <<EmbeddedName(t)>>
  BY <1>6
<1>8. AddFieldSpec(idents, t, TRUE) /\ Len(idents) = 1
  BY <1>1, <1>6, <1>7
<1> QED
  BY <1>3, <1>4, <1>7, <1>8, AddStep

LEMMA FinishStep ==
  ASSUME StructInv, ActOnFinishStructType
  PROVE  StructInv'
<1>1. PICK L \in Nat : L = Len(structs)
  BY Counts
<1>2. /\ open # << >> /\ open \in Seq(1 .. L) /\ made' = Head(open) /\ open' = Tail(open)
      /\ UNCHANGED <<source, structs, tables, types, canon, variable, uses>>
  BY <1>1 DEF ActOnFinishStructType, StructInv, OpenInv
<1>3. /\ open' \in Seq(1 .. L) /\ Len(open') = Len(open) - 1 /\ Len(open) \in Nat
      /\ \A i \in 1 .. Len(open') : open'[i] = open[i + 1]
      /\ made' = open[1] /\ made' \in 1 .. L /\ 1 \in 1 .. Len(open)
  <2>1. Len(open) # 0 /\ Len(open) \in Nat
    BY <1>2, EmptySeq, LenProperties
  <2>2. 1 \in 1 .. Len(open)
    BY <2>1
  <2>3. Head(open) = open[1] /\ open[1] \in 1 .. L
    BY <1>2, <2>2, ElementOfSeq
  <2> QED
    BY <1>2, <2>1, <2>2, <2>3, HeadTailProperties
<1>4. \A i \in 1 .. Len(open') : i + 1 \in 1 .. Len(open)
  BY <1>3
<1>5. OpenInv'
  <2>1. \A i, j \in 1 .. Len(open) : i < j => open[j] < open[i]
    BY DEF StructInv, OpenInv
  <2>2. \A i, j \in 1 .. Len(open') : i < j => open'[j] < open'[i]
    <3> SUFFICES ASSUME NEW i \in 1 .. Len(open'), NEW j \in 1 .. Len(open'), i < j
                 PROVE  open'[j] < open'[i]
      OBVIOUS
    <3>1. i + 1 \in 1 .. Len(open) /\ j + 1 \in 1 .. Len(open) /\ i + 1 < j + 1
      BY <1>3, <1>4
    <3>2. open[j + 1] < open[i + 1]
      BY <2>1, <3>1
    <3> QED
      BY <1>3, <3>2
  <2>3. \A i \in 1 .. Len(open') : open'[i] < made'
    <3> SUFFICES ASSUME NEW i \in 1 .. Len(open') PROVE open'[i] < made'
      OBVIOUS
    <3>1. i + 1 \in 1 .. Len(open) /\ 1 < i + 1
      BY <1>3, <1>4
    <3>2. open[i + 1] < open[1]
      BY <1>3, <2>1, <3>1
    <3> QED
      BY <1>3, <3>2
  <2>4. \A i \in 1 .. Len(open'), k \in 1 .. Len(types) : StructIn(Name(k), types) < open'[i]
    BY <1>3, <1>4 DEF StructInv, OpenInv
  <2>5. made' \in 0 .. L
    BY <1>3
  <2> QED
    BY <1>1, <1>2, <1>3, <2>2, <2>3, <2>4, <2>5 DEF OpenInv
<1>6. ToSet(open') \subseteq ToSet(open)
  <2>1. DOMAIN open' = 1 .. Len(open') /\ DOMAIN open = 1 .. Len(open)
    BY <1>2, <1>3, LenProperties
  <2> QED
    BY <1>3, <1>4, <2>1 DEF ToSet
<1>7. TypesInv' /\ TablesInv'
  BY <1>2 DEF StructInv, TypesInv, TablesInv
<1>8. FieldsInv'
  <2>1. ASSUME NEW s, NEW m, NEW f, FieldOK(s, m, f) PROVE FieldOK(s, m, f)'
    BY <1>2, <1>6, <2>1 DEF FieldOK
  <2>2. \A s \in 1 .. Len(structs) : \A m \in ToSet(Places(structs[s])) :
          FieldOK(s, m, At(structs[s], m))'
    <3> SUFFICES ASSUME NEW s \in 1 .. Len(structs), NEW m \in ToSet(Places(structs[s]))
                 PROVE  FieldOK(s, m, At(structs[s], m))'
      OBVIOUS
    <3>1. PICK f : f = At(structs[s], m)
      OBVIOUS
    <3>2. FieldOK(s, m, f)
      BY <3>1 DEF StructInv, FieldsInv
    <3>3. FieldOK(s, m, f)'
      BY <2>1, <3>2
    <3> QED
      BY <1>2, <3>1, <3>3 DEF FieldOK
  <2> QED
    BY <1>2, <2>2 DEF StructInv, FieldsInv
<1>9. CanonInv'
  <2>1. CanonOK(canon, structs, open)
    BY DEF StructInv, CanonInv
  <2>2. CanonOK(canon, structs, open')
    BY <1>6, <2>1 DEF CanonOK
  <2> QED
    BY <1>2, <2>2 DEF CanonInv
<1> QED
  BY <1>5, <1>7, <1>8, <1>9 DEF StructInv

LEMMA TypeSpecStep ==
  ASSUME StructInv, ActOnTypeSpec
  PROVE  StructInv'
<1>1. PICK L \in Nat : L = Len(structs)
  BY Counts
<1>2. PICK n \in Nat : n = Len(types)
  BY Counts
<1>3. PICK t \in WrittenTypes(source.renames) : types' = Append(types, t) /\ made' = 0
  BY DEF ActOnTypeSpec
<1>4. /\ open = << >> /\ n < source.types
      /\ UNCHANGED <<source, structs, tables, open, canon, variable, uses>>
  BY <1>2 DEF ActOnTypeSpec
<1>5. t \in TypesOf(n, L) /\ Declared(types, L)
  BY <1>1, <1>2, <1>3, WrittenAre DEF StructInv, TypesInv
<1>6. Len(types') = n + 1 /\ TypesOf(n, L) \subseteq TypesOf(n + 1, L)
  <2>1. Len(types') = n + 1
    BY <1>2, <1>3, <1>5, AppendProperties DEF Declared
  <2> QED
    BY <2>1, TypesGrow
<1>7. Declared(types', L) /\ \A u \in TypesOf(n, L) : StructIn(u, types') = StructIn(u, types)
  BY <1>2, <1>3, <1>5, ResolvedAppend
<1>8. PICK F : F = FieldsOf(n, L)
  OBVIOUS
<1>9. PICK G : G = FieldsOf(n + 1, L)
  OBVIOUS
<1>10. F \subseteq G /\ Seq(Seq(Seq(F))) \subseteq Seq(Seq(Seq(G)))
  BY <1>8, <1>9, FieldsGrow
<1>11. TypesInv'
  <2>1. source.types \in Nat
    BY SourcesAssumption, NamesFacts DEF StructInv, TypesInv, SourceFields
  <2>2. n + 1 <= source.types
    BY <1>4, <2>1
  <2>3. source \in Sources /\ uses \in Nat /\ variable \in SUBSET TypesOf(n + 1, L)
    BY <1>1, <1>2, <1>6 DEF StructInv, TypesInv
  <2> QED
    BY <1>1, <1>4, <1>6, <1>7, <2>2, <2>3 DEF TypesInv
<1>12. OpenInv'
  <2>1. open \in Seq(1 .. L) /\ Len(open) = 0 /\ 0 \in 0 .. L
    BY <1>1, <1>4 DEF StructInv, OpenInv
  <2> QED
    BY <1>1, <1>3, <1>4, <2>1 DEF OpenInv
<1>13. FieldsInv'
  <2>1. \A s \in 1 .. L : \A m \in ToSet(Places(structs[s])) : FieldOK(s, m, At(structs[s], m))'
    <3> SUFFICES ASSUME NEW s \in 1 .. L, NEW m \in ToSet(Places(structs[s]))
                 PROVE  FieldOK(s, m, At(structs[s], m))'
      OBVIOUS
    <3>1. PICK f : f = At(structs[s], m)
      OBVIOUS
    <3>2. FieldOK(s, m, f)
      BY <1>1, <3>1 DEF StructInv, FieldsInv
    <3>3. f \in F /\ f \in G /\ f.type \in TypesOf(n, L)
      BY <1>1, <1>2, <1>8, <1>10, <3>2 DEF FieldOK, FieldsOf
    <3>4. Pointed(f.type) \in TypesOf(n, L)
      BY <3>3, PointedIs
    <3>5. StructIn(Pointed(f.type), types') = StructIn(Pointed(f.type), types)
      BY <1>7, <3>4
    <3> QED
      BY <1>1, <1>4, <1>6, <1>9, <3>1, <3>2, <3>3, <3>5 DEF FieldOK
  <2>2. structs \in Seq(Seq(Seq(G)))
    BY <1>1, <1>2, <1>8, <1>10 DEF StructInv, FieldsInv
  <2> QED
    BY <1>1, <1>4, <1>6, <1>9, <2>1, <2>2 DEF StructInv, FieldsInv
<1>14. TablesInv' /\ CanonInv'
  BY <1>4 DEF StructInv, TablesInv, CanonInv
<1> QED
  BY <1>11, <1>12, <1>13, <1>14 DEF StructInv

LEMMA VarSpecStep ==
  ASSUME StructInv, ActOnVarSpec
  PROVE  StructInv'
<1>1. PICK L \in Nat : L = Len(structs)
  BY Counts
<1>2. PICK t \in WrittenTypes({"name", "pointer"}) :
        canon' = getTypeDeclType(t) /\ variable' = {t}
  BY DEF ActOnVarSpec
<1>3. /\ open = << >> /\ uses' = uses + 1 /\ made' = 0
      /\ UNCHANGED <<source, structs, tables, open, types>>
  BY DEF ActOnVarSpec
<1>4. t \in TypesOf(Len(types), L) /\ Behind(t) \notin ToSet(open)
  BY <1>1, <1>2, WrittenAre
<1>5. PICK cs : cs = getStructType(Behind(t))
  OBVIOUS
<1>6. canon' = cs
  <2>1. StructOf(Pointed(t)) = Behind(t)
    BY <1>1, <1>4, BehindIs
  <2> QED
    BY <1>2, <1>5, <2>1 DEF getTypeDeclType
<1>7. CanonOK(cs, structs, open) /\ \A r \in 1 .. L : canon[r] # 0 => cs[r] = canon[r]
  <2>1. Behind(t) \in 0 .. Len(structs)
    BY <1>1, <1>4, BehindIs
  <2> QED
    BY <1>1, <1>4, <1>5, <2>1, MadeType
<1>8. TypesInv'
  <2>1. uses' \in Nat /\ variable' \in SUBSET TypesOf(Len(types), L)
    BY <1>2, <1>3, <1>4 DEF StructInv, TypesInv
  <2> QED
    BY <1>1, <1>3, <2>1 DEF StructInv, TypesInv
<1>9. OpenInv'
  <2>1. 0 \in 0 .. L
    OBVIOUS
  <2>2. \A i \in 1 .. Len(open) : FALSE
    BY <1>3
  <2> QED
    BY <1>1, <1>3, <2>1, <2>2 DEF StructInv, OpenInv
<1>10. FieldsInv'
  <2>1. ASSUME NEW s \in 1 .. L, NEW m \in ToSet(Places(structs[s]))
        PROVE  FieldOK(s, m, At(structs[s], m))'
    <3>1. PICK f : f = At(structs[s], m)
      OBVIOUS
    <3>2. FieldOK(s, m, f)
      BY <1>1, <3>1 DEF StructInv, FieldsInv
    <3>3. ASSUME f.type.kind \in {"struct", "pointer"}, ~ f.type.named
          PROVE  s < f.type.of /\ f.type.of \notin ToSet(open) /\ cs[f.type.of] # 0
      <4>1. s < f.type.of /\ f.type.of \notin ToSet(open) /\ canon[f.type.of] # 0
        BY <3>2, <3>3 DEF FieldOK
      <4>2. f.type \in TypesOf(Len(types), Len(structs))
        BY <3>2 DEF FieldOK, FieldsOf
      <4>3. f.type.of \in 1 .. L
        BY <1>1, <3>3, <4>2, BehindIs
      <4> QED
        BY <1>7, <4>1, <4>3
    <3>4. f \in FieldsOf(Len(types), Len(structs))
          /\ (f.anon => m[2] = 1 /\ f.type.named /\ StructIn(Pointed(f.type), types) < s)
      BY <3>2 DEF FieldOK
    <3> QED
      BY <1>3, <1>6, <3>1, <3>3, <3>4 DEF FieldOK
  <2> QED
    BY <1>1, <1>3, <2>1 DEF StructInv, FieldsInv
<1>11. TablesInv'
  BY <1>3 DEF StructInv, TablesInv
<1>12. CanonInv'
  BY <1>3, <1>6, <1>7 DEF CanonInv
<1> QED
  BY <1>8, <1>9, <1>10, <1>11, <1>12 DEF StructInv

LEMMA TableBuilt ==
  ASSUME NEW t, NEW F, NEW specs \in Seq(Seq(F)), TableOK(t, specs)
  PROVE  TableOK(TableFor(t, specs), specs)
<1>1. CASE t.lazy
  <2>1. PICK map : map = [n \in Names |-> NamedIn(specs, n)]
    OBVIOUS
  <2>2. map \in [Names -> Seq(Nat \X Nat)]
    <3>1. \A n \in Names : NamedIn(specs, n) \in Seq(Nat \X Nat)
      BY NamedAre
    <3> QED
      BY <2>1, <3>1
  <2>3. TableFor(t, specs) = [lazy |-> FALSE, exists |-> TRUE, map |-> map]
    BY <1>1, <2>1 DEF TableFor
  <2> QED
    BY <2>1, <2>2, <2>3 DEF TableOK, Tables
<1>2. CASE ~ t.lazy
  BY <1>2 DEF TableFor
<1> QED
  BY <1>1, <1>2

LEMMA SelectorStructs ==
  ASSUME StructInv, ActOnSelectorExpr
  PROVE  StructInv'
<1>1. PICK L \in Nat : L = Len(structs)
  BY Counts
<1>2. uses' = uses + 1 /\ UNCHANGED <<source, structs, open, made, types, canon, variable>>
  BY DEF ActOnSelectorExpr
<1>3. \/ UNCHANGED tables
      \/ \E C : tables' = [t \in DOMAIN tables |-> IF t \in C THEN buildLookup(t) ELSE tables[t]]
  BY DEF ActOnSelectorExpr, NotAStruct, Crash, LookupMember
<1>4. TypesInv' /\ OpenInv' /\ FieldsInv' /\ CanonInv'
  <2>1. TypesInv'
    BY <1>2 DEF StructInv, TypesInv
  <2>2. OpenInv'
    BY <1>2 DEF StructInv, OpenInv
  <2>3. FieldsInv'
    BY <1>2 DEF StructInv, FieldsInv, FieldOK
  <2>4. CanonInv'
    BY <1>2 DEF StructInv, CanonInv
  <2> QED
    BY <2>1, <2>2, <2>3, <2>4
<1>5. TablesInv'
  <2>1. tables \in Seq(Tables) /\ Len(tables) = L /\ \A s \in 1 .. L : TableOK(tables[s], structs[s])
    BY <1>1 DEF StructInv, TablesInv
  <2>2. CASE UNCHANGED tables
    BY <1>2, <2>2 DEF StructInv, TablesInv
  <2>3. ASSUME NEW C,
               tables' = [t \in DOMAIN tables |-> IF t \in C THEN buildLookup(t) ELSE tables[t]]
        PROVE  TablesInv'
    <3>1. DOMAIN tables = 1 .. L
      BY <1>1, Counts
    <3>2. \A t \in 1 .. L : tables'[t] = IF t \in C THEN buildLookup(t) ELSE tables[t]
      BY <2>3, <3>1
    <3>3. ASSUME NEW s \in 1 .. L PROVE TableOK(tables'[s], structs[s]) /\ tables'[s] \in Tables
      <4>1. structs[s] \in Seq(Seq(FieldsOf(Len(types), Len(structs))))
        BY <1>1, Counts
      <4>2. TableOK(TableFor(tables[s], structs[s]), structs[s])
        BY <2>1, <4>1, TableBuilt
      <4>3. buildLookup(s) = TableFor(tables[s], structs[s])
        BY State DEF InState
      <4>4. TableOK(tables'[s], structs[s])
        BY <2>1, <3>2, <4>2, <4>3
      <4> QED
        BY <4>4 DEF TableOK
    <3>4. tables' \in [1 .. L -> Tables]
      BY <2>3, <3>1, <3>3
    <3>5. tables' \in Seq(Tables) /\ Len(tables') = L
      BY <3>4
    <3> QED
      BY <1>1, <1>2, <3>3, <3>5 DEF TablesInv
  <2> QED
    BY <1>3, <2>2, <2>3
<1> QED
  BY <1>4, <1>5 DEF StructInv

LEMMA SelectorAnswers ==
  ASSUME StructInv, ActOnSelectorExpr
  PROVE  AnswerInv'
<1>1. PICK L \in Nat : L = Len(structs)
  BY Counts
<1>2. UNCHANGED <<structs, types>>
  BY DEF ActOnSelectorExpr
<1>3. Graph' = Graph /\ (\A n : Having(n)' = Having(n)) /\ \A n : Owned(n)' = Owned(n)
  <2>1. Graph' = Graph /\ \A n : Having(n)' = Having(n)
    BY <1>2 DEF Graph, Having
  <2>2. \A s, n : Named(s, n)' = Named(s, n)
    BY <1>2 DEF Named, Members, Member
  <2>3. \A n : Owned(n)' = Owned(n)
    BY <1>2, <2>2 DEF Owned
  <2> QED
    BY <2>1, <2>3
<1>4. PICK t \in variable, n \in Names :
        LET s == StructOf(Pointed(t)) IN
        IF s = 0 THEN NotAStruct(n)
        ELSE IF \A u \in Searched(s, n) : Intact(u) THEN LookupMember(s, n)
        ELSE Crash(s, n)
  BY DEF ActOnSelectorExpr
<1>5. PICK s \in 0 .. L : s = StructOf(Pointed(t))
  <2>1. t \in TypesOf(Len(types), Len(structs))
    BY DEF StructInv, TypesInv
  <2> QED
    BY <1>1, <2>1, BehindIs
<1>6. /\ s = 0 => NotAStruct(n)
      /\ s # 0 /\ (\A u \in Searched(s, n) : Intact(u)) => LookupMember(s, n)
      /\ s # 0 /\ ~ (\A u \in Searched(s, n) : Intact(u)) => Crash(s, n)
  BY <1>4, <1>5
<1>7. ResultSane(NotFound)
  BY DEF ResultSane, NotFound
<1>8. CASE NotAStruct(n)
  <2>1. /\ answer'.struct = 0 /\ answer'.name = n /\ answer'.result = NotFound
        /\ answer'.member = {} /\ answer'.errors = <<"typecheck_field_reference_struct">>
    BY <1>8 DEF NotAStruct, NoAnswer
  <2>2. 0 \in 0 .. L
    OBVIOUS
  <2> QED
    BY <1>1, <1>2, <1>7, <2>1, <2>2 DEF AnswerInv, Answered
<1>9. CASE Crash(s, n)
  <2>1. /\ answer'.struct = s /\ answer'.name = n /\ answer'.result = NotFound
        /\ answer'.crashed
    BY <1>9 DEF Crash, NoAnswer
  <2> QED
    BY <1>1, <1>2, <1>7, <2>1 DEF AnswerInv, Answered
<1>10. CASE s # 0 /\ (\A u \in Searched(s, n) : Intact(u)) /\ LookupMember(s, n)
  <2>1. PICK r : r = LookupQualifiedName(s, n)
    OBVIOUS
  <2>2. Resolves(r, Graph, Having(n), Owned(n), s)
    <3>1. s \in 1 .. Len(structs)
      BY <1>1, <1>10
    <3> QED
      BY <1>10, <2>1, <3>1, InvShape, InvTables, LookupIs
  <2>3. ResultSane(r)
    BY <2>2 DEF Resolves
  <2>4. /\ answer'.struct = s /\ answer'.name = n /\ answer'.result = r
        /\ answer'.errors = Errors(r) /\ answer'.notes = AmbiguityNotes(r)
        /\ answer'.member = IF r.kind = "Found" THEN r.decls ELSE {}
    BY <1>10, <2>1 DEF LookupMember, NoAnswer
  <2>5. Resolves(answer'.result, Graph', HasIn(structs', answer'.name), Owned(answer'.name), answer'.struct)
    BY <1>2, <1>3, <2>2, <2>4 DEF Having
  <2>6. Owned(answer.name)' = Owned(answer'.name) /\ Having(answer.name)' = HasIn(structs', answer'.name)
    <3>1. Having(answer.name)' = HasIn(structs', answer'.name)
      BY DEF Having
    <3>2. \A u, k : Named(u, k)' = Named(u, k)
      BY <1>2 DEF Named, Members, Member
    <3>3. Owned(answer.name)' = [u \in 1 .. Len(structs') |-> {Hop(u, m) : m \in ToSet(Named(u, answer.name)')}]
      BY DEF Owned, Hop
    <3>4. \A u : Named(u, answer.name)' = Named(u, answer'.name)
      BY <1>2 DEF Named, Members, Member
    <3> QED
      BY <1>2, <3>1, <3>3, <3>4 DEF Owned
  <2> QED
    BY <1>1, <1>2, <1>10, <2>3, <2>4, <2>5, <2>6 DEF AnswerInv, Answered, Errors, AmbiguityNotes
<1> QED
  BY <1>6, <1>8, <1>9, <1>10

-----------------------------------------------------------------------------
(* Canonical types and identity.                                           *)

LEMMA CanonIff ==
  ASSUME StructInv, NEW x \in 1 .. Len(structs), NEW y \in 1 .. Len(structs),
         canon[x] # 0, canon[y] # 0
  PROVE  canon[x] = canon[y] <=> ProfileIn(structs[x], canon) = ProfileIn(structs[y], canon)
<1>1. PICK c \in 1 .. Len(structs) : c = canon[x]
  BY Counts
<1>2. PICK d \in 1 .. Len(structs) : d = canon[y]
  BY Counts
<1>3. CanonOK(canon, structs, open)
  BY DEF StructInv, CanonInv
<1>4. canon[c] = c /\ ProfileIn(structs[c], canon) = ProfileIn(structs[x], canon)
  BY <1>1, <1>3 DEF CanonOK
<1>5. canon[d] = d /\ ProfileIn(structs[d], canon) = ProfileIn(structs[y], canon)
  BY <1>2, <1>3 DEF CanonOK
<1>6. ProfileIn(structs[c], canon) = ProfileIn(structs[d], canon) => c = d
  BY <1>3, <1>4, <1>5 DEF CanonOK
<1> QED
  BY <1>1, <1>2, <1>4, <1>5, <1>6

EndOfType(t, cs) == IF t.kind = "int" \/ t.named THEN t.of ELSE cs[t.of]

LEMMA CanonOfIs ==
  ASSUME NEW nt, NEW ns, NEW t \in TypesOf(nt, ns), NEW cs
  PROVE  CanonOf(t, cs) = [kind |-> t.kind, of |-> EndOfType(t, cs), named |-> t.named]
<1>1. CASE t.kind = "int"
  <2>1. t = IntType
    BY <1>1, TypesOfIs
  <2> QED
    BY <2>1 DEF IntType, CanonOf, EndOfType
<1>2. CASE t.kind = "name"
  <2>1. t = Name(t.of)
    BY <1>2, TypesOfIs
  <2>2. t = [kind |-> "name", of |-> t.of, named |-> TRUE] /\ t.named = TRUE
    BY <2>1 DEF Name
  <2>3. CanonOf(t, cs) = t /\ EndOfType(t, cs) = t.of
    BY <1>2, <2>2 DEF CanonOf, EndOfType
  <2> QED
    BY <2>2, <2>3
<1>3. CASE t.kind = "struct"
  <2>1. t = Struct(t.of)
    BY <1>3, TypesOfIs
  <2>2. t.named = FALSE
    BY <2>1 DEF Struct
  <2>3. CanonOf(t, cs) = Struct(cs[t.of]) /\ EndOfType(t, cs) = cs[t.of]
    BY <1>3, <2>2 DEF CanonOf, EndOfType
  <2> QED
    BY <1>3, <2>2, <2>3 DEF Struct
<1>4. CASE t.kind = "pointer" /\ t.named
  <2>1. t = PointerTo(Name(t.of))
    BY <1>4, TypesOfIs
  <2>2. t = [kind |-> "pointer", of |-> t.of, named |-> TRUE] /\ t.named = TRUE
    BY <2>1 DEF PointerTo, Name
  <2>3. CanonOf(t, cs) = t /\ EndOfType(t, cs) = t.of
    BY <1>4, <2>2 DEF CanonOf, EndOfType
  <2> QED
    BY <2>2, <2>3
<1>5. CASE t.kind = "pointer" /\ ~ t.named
  <2>1. t = PointerTo(Struct(t.of))
    BY <1>5, TypesOfIs
  <2>2. t.named = FALSE
    BY <2>1 DEF PointerTo, Struct
  <2>3. CanonOf(t, cs) = PointerTo(Struct(cs[t.of])) /\ EndOfType(t, cs) = cs[t.of]
    BY <1>5, <2>2 DEF CanonOf, EndOfType
  <2> QED
    BY <1>5, <2>2, <2>3 DEF PointerTo, Struct
<1> QED
  BY <1>1, <1>2, <1>3, <1>4, <1>5, TypesOfIs

AgreeIn(f, a, b) ==
  /\ a.kind = b.kind /\ a.named = b.named
  /\ IF a.kind = "int" \/ a.named THEN a.of = b.of ELSE f[<<a.of, b.of>>]
MatchIn(f, p) ==
  /\ Len(Members(p[1])) = Len(Members(p[2]))
  /\ \A i \in DOMAIN Members(p[1]) :
       /\ Member(p[1], Members(p[1])[i]).name = Member(p[2], Members(p[2])[i]).name
       /\ AgreeIn(f, Member(p[1], Members(p[1])[i]).type, Member(p[2], Members(p[2])[i]).type)
IsSame(f) == f = [p \in (1 .. Len(structs)) \X (1 .. Len(structs)) |-> MatchIn(f, p)]

LEMMA SameIs == SameFields = CHOOSE f : IsSame(f)
BY DEF SameFields, IsSame, MatchIn, AgreeIn

SameCanon == [p \in (1 .. Len(structs)) \X (1 .. Len(structs)) |-> canon[p[1]] = canon[p[2]]]

(* What a member's type leads to comes later, and has its type.            *)
LEMMA MemberFacts ==
  ASSUME StructInv, NEW s \in 1 .. Len(structs)
  PROVE  /\ Members(s) \in Seq(Nat \X Nat) /\ DOMAIN Members(s) = 1 .. Len(Members(s))
         /\ Len(Members(s)) \in Nat
         /\ Intact(s) => FieldsIn(structs[s]) = Members(s)
         /\ \A i \in DOMAIN Members(s) :
              LET t == Member(s, Members(s)[i]).type IN
              /\ t \in TypesOf(Len(types), Len(structs))
              /\ t.kind # "int" /\ ~ t.named =>
                   t.of \in 1 .. Len(structs) /\ s < t.of /\ canon[t.of] # 0
<1>1. PICK F : F = FieldsOf(Len(types), Len(structs)) /\ structs[s] \in Seq(Seq(F))
  BY Counts
<1>2. PICK ms : ms = Members(s)
  OBVIOUS
<1>3. /\ ms = Places(structs[s]) /\ ms \in Seq(Nat \X Nat)
      /\ Whole(structs[s]) => FieldsIn(structs[s]) = ms
      /\ Intact(s) <=> Whole(structs[s])
      /\ \A m : Member(s, m) = At(structs[s], m)
  BY <1>1, <1>2, FieldsAre, PlacesAre, State DEF InState
<1>4. DOMAIN ms = 1 .. Len(ms) /\ Len(ms) \in Nat
  BY <1>3, LenProperties
<1>5. ASSUME NEW i \in DOMAIN ms, NEW t, t = Member(s, ms[i]).type
      PROVE  /\ t \in TypesOf(Len(types), Len(structs))
             /\ t.kind # "int" /\ ~ t.named =>
                  t.of \in 1 .. Len(structs) /\ s < t.of /\ canon[t.of] # 0
  <2>1. PICK m : m = ms[i] /\ m \in ToSet(Places(structs[s]))
    BY <1>3 DEF ToSet
  <2>2. PICK f : f = At(structs[s], m)
    OBVIOUS
  <2>3. FieldOK(s, m, f) /\ f.type = t
    BY <1>3, <1>5, <2>1, <2>2 DEF StructInv, FieldsInv
  <2>4. t \in TypesOf(Len(types), Len(structs))
    BY <2>3 DEF FieldOK, FieldsOf
  <2>5. ASSUME t.kind # "int", ~ t.named
        PROVE  t.of \in 1 .. Len(structs) /\ s < t.of /\ canon[t.of] # 0
    <3>1. t.kind \in {"struct", "pointer"}
      <4>1. t.kind = "name" => t.named
        BY <2>4, TypesOfIs DEF Name
      <4> QED
        BY <2>4, <2>5, <4>1, TypesOfIs
    <3> QED
      BY <2>3, <2>4, <2>5, <3>1, BehindIs DEF FieldOK
  <2> QED
    BY <2>4, <2>5
<1> QED
  BY <1>2, <1>3, <1>4, <1>5

LEMMA ProfileIff ==
  ASSUME StructInv, NEW x \in 1 .. Len(structs), NEW y \in 1 .. Len(structs),
         Intact(x), Intact(y)
  PROVE  ProfileIn(structs[x], canon) = ProfileIn(structs[y], canon)
           <=> MatchIn(SameCanon, <<x, y>>)
<1>1. PICK ms : ms = Members(x)
  OBVIOUS
<1>2. PICK mt : mt = Members(y)
  OBVIOUS
<1>3. PICK A : A = [i \in DOMAIN ms |-> Member(x, ms[i])]
  OBVIOUS
<1>4. PICK B : B = [i \in DOMAIN mt |-> Member(y, mt[i])]
  OBVIOUS
<1>5. /\ DOMAIN ms = 1 .. Len(ms) /\ Len(ms) \in Nat
      /\ DOMAIN mt = 1 .. Len(mt) /\ Len(mt) \in Nat
      /\ FieldsIn(structs[x]) = ms /\ FieldsIn(structs[y]) = mt
  BY <1>1, <1>2, MemberFacts
<1>6. \A i \in DOMAIN ms :
        LET t == A[i].type IN
        /\ t \in TypesOf(Len(types), Len(structs))
        /\ t.kind # "int" /\ ~ t.named => t.of \in 1 .. Len(structs)
  BY <1>1, <1>3, MemberFacts
<1>7. \A i \in DOMAIN mt :
        LET t == B[i].type IN
        /\ t \in TypesOf(Len(types), Len(structs))
        /\ t.kind # "int" /\ ~ t.named => t.of \in 1 .. Len(structs)
  BY <1>2, <1>4, MemberFacts
<1>8. PICK P : P = [i \in DOMAIN ms |-> <<A[i].name, CanonOf(A[i].type, canon)>>]
  OBVIOUS
<1>9. PICK Q : Q = [i \in DOMAIN mt |-> <<B[i].name, CanonOf(B[i].type, canon)>>]
  OBVIOUS
<1>10. ProfileIn(structs[x], canon) = P
  <2>1. \A i \in DOMAIN ms : A[i] = At(structs[x], ms[i])
    BY <1>3, State DEF InState
  <2> QED
    BY <1>5, <1>8, <2>1 DEF ProfileIn
<1>11. ProfileIn(structs[y], canon) = Q
  <2>1. \A i \in DOMAIN mt : B[i] = At(structs[y], mt[i])
    BY <1>4, State DEF InState
  <2> QED
    BY <1>5, <1>9, <2>1 DEF ProfileIn
<1>12. ASSUME NEW i \in DOMAIN ms, i \in DOMAIN mt
       PROVE  P[i] = Q[i] <=> A[i].name = B[i].name /\ AgreeIn(SameCanon, A[i].type, B[i].type)
  <2>1. PICK a \in TypesOf(Len(types), Len(structs)) : a = A[i].type
    BY <1>6
  <2>2. PICK b \in TypesOf(Len(types), Len(structs)) : b = B[i].type
    BY <1>7, <1>12
  <2>3. /\ CanonOf(a, canon) = [kind |-> a.kind, of |-> EndOfType(a, canon), named |-> a.named]
        /\ CanonOf(b, canon) = [kind |-> b.kind, of |-> EndOfType(b, canon), named |-> b.named]
    BY CanonOfIs
  <2>4. CanonOf(a, canon) = CanonOf(b, canon)
          <=> a.kind = b.kind /\ EndOfType(a, canon) = EndOfType(b, canon) /\ a.named = b.named
    BY <2>3
  <2>5. a.kind # "int" /\ ~ a.named /\ b.kind # "int" /\ ~ b.named =>
          (SameCanon[<<a.of, b.of>>] <=> canon[a.of] = canon[b.of])
    BY <1>6, <1>7, <1>12, <2>1, <2>2 DEF SameCanon
  <2>6. AgreeIn(SameCanon, a, b)
          <=> a.kind = b.kind /\ EndOfType(a, canon) = EndOfType(b, canon) /\ a.named = b.named
    BY <2>5 DEF AgreeIn, EndOfType
  <2>7. P[i] = <<A[i].name, CanonOf(a, canon)>> /\ Q[i] = <<B[i].name, CanonOf(b, canon)>>
    BY <1>8, <1>9, <1>12, <2>1, <2>2
  <2> QED
    BY <2>1, <2>2, <2>4, <2>6, <2>7
<1>13. MatchIn(SameCanon, <<x, y>>)
         <=> /\ Len(ms) = Len(mt)
             /\ \A i \in DOMAIN ms : A[i].name = Member(y, mt[i]).name
                                     /\ AgreeIn(SameCanon, A[i].type, Member(y, mt[i]).type)
  <2>1. <<x, y>>[1] = x /\ <<x, y>>[2] = y
    OBVIOUS
  <2> QED
    BY <1>1, <1>2, <1>3, <2>1 DEF MatchIn
<1>14. ASSUME P = Q PROVE MatchIn(SameCanon, <<x, y>>)
  <2>1. DOMAIN ms = DOMAIN mt
    BY <1>8, <1>9, <1>14
  <2>2. Len(ms) = Len(mt)
    <3>1. ASSUME NEW j \in Nat, NEW k \in Nat, 1 .. j = 1 .. k, j < k PROVE FALSE
      <4>1. k \in 1 .. k /\ k \notin 1 .. j
        BY <3>1
      <4> QED
        BY <3>1, <4>1
    <3>2. \A j, k \in Nat : 1 .. j = 1 .. k => j = k
      <4> SUFFICES ASSUME NEW j \in Nat, NEW k \in Nat, 1 .. j = 1 .. k, j # k PROVE FALSE
        OBVIOUS
      <4>1. j < k \/ k < j
        OBVIOUS
      <4> QED
        BY <3>1, <4>1
    <3> QED
      BY <1>5, <2>1, <3>2
  <2>3. \A i \in DOMAIN ms : B[i] = Member(y, mt[i])
    BY <1>4, <2>1
  <2> QED
    BY <1>12, <1>13, <1>14, <2>1, <2>2, <2>3
<1>15. ASSUME MatchIn(SameCanon, <<x, y>>) PROVE P = Q
  <2>1. DOMAIN ms = DOMAIN mt
    BY <1>5, <1>13, <1>15
  <2>2. \A i \in DOMAIN ms : B[i] = Member(y, mt[i])
    BY <1>4, <2>1
  <2>3. \A i \in DOMAIN ms : P[i] = Q[i]
    BY <1>12, <1>13, <1>15, <2>1, <2>2
  <2>4. P = [i \in DOMAIN ms |-> P[i]] /\ Q = [i \in DOMAIN ms |-> Q[i]]
    BY <1>8, <1>9, <2>1
  <2> QED
    BY <2>3, <2>4, Zenon
<1> QED
  BY <1>10, <1>11, <1>14, <1>15

LEMMA MatchAgree ==
  ASSUME StructInv, NEW x \in 1 .. Len(structs), NEW y \in 1 .. Len(structs), NEW f, NEW g,
         \A u, v \in 1 .. Len(structs) :
           x < u /\ canon[u] # 0 /\ canon[v] # 0 => (f[<<u, v>>] <=> g[<<u, v>>])
  PROVE  MatchIn(f, <<x, y>>) <=> MatchIn(g, <<x, y>>)
<1>1. PICK ms : ms = Members(x)
  OBVIOUS
<1>2. PICK mt : mt = Members(y)
  OBVIOUS
<1>3. /\ DOMAIN ms = 1 .. Len(ms) /\ Len(ms) \in Nat
      /\ DOMAIN mt = 1 .. Len(mt) /\ Len(mt) \in Nat
  BY <1>1, <1>2, MemberFacts
<1>4. ASSUME NEW i \in DOMAIN ms, Len(ms) = Len(mt)
      PROVE  AgreeIn(f, Member(x, ms[i]).type, Member(y, mt[i]).type)
               <=> AgreeIn(g, Member(x, ms[i]).type, Member(y, mt[i]).type)
  <2>1. PICK a : a = Member(x, ms[i]).type
    OBVIOUS
  <2>2. PICK b : b = Member(y, mt[i]).type
    OBVIOUS
  <2>3. a.kind # "int" /\ ~ a.named => a.of \in 1 .. Len(structs) /\ x < a.of /\ canon[a.of] # 0
    BY <1>1, <2>1, MemberFacts
  <2>4. b.kind # "int" /\ ~ b.named => b.of \in 1 .. Len(structs) /\ canon[b.of] # 0
    <3>1. i \in DOMAIN mt
      BY <1>3, <1>4
    <3> QED
      BY <1>2, <2>2, <3>1, MemberFacts
  <2>5. AgreeIn(f, a, b) <=> AgreeIn(g, a, b)
    <3>1. CASE a.kind = b.kind /\ a.named = b.named /\ ~ (a.kind = "int" \/ a.named)
      <4>1. f[<<a.of, b.of>>] <=> g[<<a.of, b.of>>]
        BY <2>3, <2>4, <3>1
      <4> QED
        BY <3>1, <4>1 DEF AgreeIn
    <3>2. CASE a.kind = b.kind /\ a.named = b.named /\ (a.kind = "int" \/ a.named)
      BY <3>2 DEF AgreeIn
    <3>3. CASE ~ (a.kind = b.kind /\ a.named = b.named)
      BY <3>3 DEF AgreeIn
    <3> QED
      BY <3>1, <3>2, <3>3
  <2> QED
    BY <2>1, <2>2, <2>5
<1>5. <<x, y>>[1] = x /\ <<x, y>>[2] = y
  OBVIOUS
<1>6. \A h : MatchIn(h, <<x, y>>)
               <=> /\ Len(ms) = Len(mt)
                   /\ \A i \in DOMAIN ms :
                        /\ Member(x, ms[i]).name = Member(y, mt[i]).name
                        /\ AgreeIn(h, Member(x, ms[i]).type, Member(y, mt[i]).type)
  BY <1>1, <1>2, <1>5 DEF MatchIn
<1>7. CASE Len(ms) = Len(mt)
  BY <1>4, <1>6, <1>7
<1>8. CASE Len(ms) # Len(mt)
  BY <1>6, <1>8
<1> QED
  BY <1>7, <1>8

(* Canonical types agree just when the fields do, one level down.          *)
LEMMA CanonMatch ==
  ASSUME StructInv, \A s \in 1 .. Len(structs) : Intact(s),
         NEW x \in 1 .. Len(structs), NEW y \in 1 .. Len(structs), canon[x] # 0, canon[y] # 0
  PROVE  canon[x] = canon[y] <=> MatchIn(SameCanon, <<x, y>>)
BY CanonIff, ProfileIff

(* There is such a function, and it is that of the canonical types.        *)
LEMMA SameExists ==
  ASSUME StructInv, \A s \in 1 .. Len(structs) : Intact(s)
  PROVE  \E f : IsSame(f)
<1>1. PICK D : D = (1 .. Len(structs)) \X (1 .. Len(structs))
  OBVIOUS
<1>2. PICK f : f = [p \in D |-> MatchIn(SameCanon, p)]
  OBVIOUS
<1>3. ASSUME NEW u \in 1 .. Len(structs), NEW v \in 1 .. Len(structs), canon[u] # 0, canon[v] # 0
      PROVE  f[<<u, v>>] <=> SameCanon[<<u, v>>]
  <2>1. <<u, v>> \in D /\ <<u, v>>[1] = u /\ <<u, v>>[2] = v
    BY <1>1
  <2>2. f[<<u, v>>] = MatchIn(SameCanon, <<u, v>>)
    BY <1>2, <2>1
  <2>3. SameCanon[<<u, v>>] = (canon[u] = canon[v])
    BY <1>1, <2>1 DEF SameCanon
  <2>4. canon[u] = canon[v] <=> MatchIn(SameCanon, <<u, v>>)
    BY <1>3, CanonMatch
  <2> QED
    BY <2>2, <2>3, <2>4
<1>4. ASSUME NEW p \in D PROVE MatchIn(SameCanon, p) <=> MatchIn(f, p)
  <2>1. PICK x \in 1 .. Len(structs), y \in 1 .. Len(structs) : p = <<x, y>>
    BY <1>1
  <2>2. MatchIn(SameCanon, <<x, y>>) <=> MatchIn(f, <<x, y>>)
    BY <1>3, MatchAgree
  <2> QED
    BY <2>1, <2>2
<1>5. \A p \in D : MatchIn(SameCanon, p) = MatchIn(f, p)
  <2>1. ASSUME NEW p \in D PROVE MatchIn(SameCanon, p) = MatchIn(f, p)
    <3>1. MatchIn(SameCanon, p) <=> MatchIn(f, p)
      BY <1>4
    <3>2. MatchIn(SameCanon, p) \in BOOLEAN /\ MatchIn(f, p) \in BOOLEAN
      BY DEF MatchIn
    <3> QED
      BY <3>1, <3>2
  <2> QED
    BY <2>1
<1>6. f = [p \in D |-> MatchIn(f, p)]
  BY <1>2, <1>5, Zenon
<1> QED
  BY <1>1, <1>6 DEF IsSame

LEMMA SameFollows ==
  ASSUME StructInv, \A s \in 1 .. Len(structs) : Intact(s), NEW f, IsSame(f)
  PROVE  \A x, y \in 1 .. Len(structs) :
           canon[x] # 0 /\ canon[y] # 0 => (f[<<x, y>>] <=> canon[x] = canon[y])
<1>1. PICK L \in Nat : L = Len(structs)
  BY Counts
<1>2. \A x, y \in 1 .. L : f[<<x, y>>] <=> MatchIn(f, <<x, y>>)
  <2>1. PICK D : D = (1 .. L) \X (1 .. L)
    OBVIOUS
  <2>2. f = [p \in D |-> MatchIn(f, p)]
    BY <1>1, <2>1 DEF IsSame
  <2>3. \A p \in D : f[p] = MatchIn(f, p)
    BY <2>2, Zenon
  <2>4. \A x, y \in 1 .. L : <<x, y>> \in D
    BY <2>1
  <2> QED
    BY <2>3, <2>4
<1> DEFINE Wrong(x, y) == /\ canon[x] # 0 /\ canon[y] # 0
                          /\ ~ (f[<<x, y>>] <=> canon[x] = canon[y])
           Bad == {k \in Nat : \E x, y \in 1 .. L : k = L - x /\ Wrong(x, y)}
<1>3. ASSUME Bad # {} PROVE FALSE
  <2>1. PICK k \in Bad : \A m \in Bad : k <= m
    <3> HIDE DEF Bad
    <3>1. Bad \in SUBSET Nat
      BY DEF Bad
    <3> QED
      BY <1>3, <3>1, LeastElement
  <2>2. PICK x \in 1 .. L, y \in 1 .. L : k = L - x /\ Wrong(x, y)
    BY <2>1
  <2>3. ASSUME NEW u \in 1 .. L, NEW v \in 1 .. L, x < u, canon[u] # 0, canon[v] # 0
        PROVE  f[<<u, v>>] <=> SameCanon[<<u, v>>]
    <3>1. L - u \in Nat /\ ~ (k <= L - u)
      BY <2>2, <2>3
    <3>2. L - u \notin Bad
      <4> HIDE DEF Bad
      <4> QED
        BY <2>1, <3>1
    <3>3. f[<<u, v>>] <=> canon[u] = canon[v]
      BY <2>3, <3>1, <3>2
    <3>4. SameCanon[<<u, v>>] = (canon[u] = canon[v])
      <4>1. <<u, v>> \in (1 .. Len(structs)) \X (1 .. Len(structs))
            /\ <<u, v>>[1] = u /\ <<u, v>>[2] = v
        BY <1>1
      <4> QED
        BY <4>1 DEF SameCanon
    <3> QED
      BY <3>3, <3>4
  <2>4. MatchIn(f, <<x, y>>) <=> MatchIn(SameCanon, <<x, y>>)
    BY <1>1, <2>3, MatchAgree
  <2>5. canon[x] = canon[y] <=> MatchIn(SameCanon, <<x, y>>)
    BY <1>1, <2>2, CanonMatch
  <2> QED
    BY <1>2, <2>2, <2>4, <2>5
<1>4. ASSUME NEW x \in 1 .. L, NEW y \in 1 .. L, canon[x] # 0, canon[y] # 0
      PROVE  f[<<x, y>>] <=> canon[x] = canon[y]
  <2>1. L - x \in Nat
    OBVIOUS
  <2>2. L - x \notin Bad
    <3> HIDE DEF Bad
    <3> QED
      BY <1>3
  <2> QED
    BY <1>4, <2>1, <2>2
<1> QED
  BY <1>1, <1>4

LEMMA InvIdentical ==
  ASSUME StructInv
  PROVE  IdenticalTypes
<1>1. DOMAIN structs = 1 .. Len(structs)
  BY Counts
<1> SUFFICES ASSUME \A s \in 1 .. Len(structs) : Intact(s),
                    NEW s \in 1 .. Len(structs), NEW t \in 1 .. Len(structs),
                    canon[s] # 0, canon[t] # 0
             PROVE  canon[s] = canon[t] <=> SameFields[<<s, t>>]
  BY <1>1 DEF IdenticalTypes
<1>2. PICK f : f = SameFields
  OBVIOUS
<1>3. IsSame(f)
  BY <1>2, SameExists, SameIs
<1> QED
  BY <1>2, <1>3, SameFollows

-----------------------------------------------------------------------------
(* The theorems.                                                           *)

LEMMA NextInv ==
  ASSUME Inv, [Next]_vars
  PROVE  Inv'
<1>1. StructInv
  BY DEF Inv, StructInv
<1>2. CASE StructNext /\ answer' = NoAnswer
  <2>1. StructInv'
    BY <1>1, <1>2, StartStep, FieldStep, AnonymousStep, FinishStep, TypeSpecStep, VarSpecStep
       DEF StructNext
  <2>2. Len(structs') \in Nat
    <3>1. structs' \in Seq(Seq(Seq(FieldsOf(Len(types), Len(structs)))))'
      BY <2>1 DEF StructInv, FieldsInv
    <3> QED
      BY <3>1, LenProperties
  <2> QED
    BY <1>2, <2>1, <2>2, NothingAnsweredNext DEF Inv, StructInv
<1>3. CASE ActOnSelectorExpr
  BY <1>1, <1>3, SelectorStructs, SelectorAnswers DEF Inv, StructInv
<1>4. CASE UNCHANGED vars
  <2>1. UNCHANGED <<source, structs, tables, open, made, types, canon, variable, uses>>
        /\ answer' = answer
    BY <1>4 DEF vars, structVars
  <2>2. TypesInv' /\ OpenInv' /\ FieldsInv' /\ TablesInv' /\ CanonInv'
    BY <2>1 DEF Inv, TypesInv, OpenInv, FieldsInv, FieldOK, TablesInv, CanonInv
  <2>3. AnswerInv'
    <3>1. \A u, k : Named(u, k)' = Named(u, k)
      BY <2>1 DEF Named, Members, Member
    <3>2. Graph' = Graph /\ Having(answer.name)' = Having(answer.name)
          /\ Owned(answer.name)' = Owned(answer.name)
      BY <2>1, <3>1 DEF Graph, Having, Owned
    <3> QED
      BY <2>1, <3>2 DEF Inv, AnswerInv, Answered
  <2> QED
    BY <2>2, <2>3 DEF Inv
<1> QED
  BY <1>2, <1>3, <1>4 DEF Next

LEMMA Invariance == Spec => []Inv
<1>1. Init => Inv
  BY InitInv
<1>2. Inv /\ [Next]_vars => Inv'
  BY NextInv
<1> QED
  BY <1>1, <1>2, PTL DEF Spec

(* Whatever is declared: types, fields and canonical types refer to what   *)
(* exists, and every result of a lookup is one that LookupResult allows.   *)
THEOREM TypeCorrect == Spec => []TypeOK
BY Invariance, InvTypes, PTL

(* DeclContext::lookup, through a table built on the first use and kept up *)
(* by makeDeclVisibleInContext, finds what is in the list of members, and  *)
(* no struct has two members of one name.                                  *)
THEOREM TablesCorrect == Spec => []TablesFollowLists
<1>1. Inv => TablesFollowLists
  BY InvLists DEF Inv, StructInv
<1> QED
  BY <1>1, Invariance, PTL

(* The paths that PromotedFieldPaths finds depth first, and the kind that  *)
(* LookupResult settles on, are Go's rule of the shallowest depth, for any *)
(* nesting of embedded fields.                                             *)
THEOREM SelectorsCorrect == Spec => []SelectorRule
<1>1. Inv => SelectorRule
  BY InvRules
<1> QED
  BY <1>1, Invariance, PTL

(* A selector that finds no member is reported by one error, and if it is  *)
(* ambiguous with one note for each of the competing fields.               *)
THEOREM FailuresCorrect == Spec => []FailureExplained
<1>1. Inv => FailureExplained
  BY InvRules
<1> QED
  BY <1>1, Invariance, PTL

(* getStructType's uniquing by profiles is identity of types: it compares  *)
(* canonical types of fields, one level deep, and that is enough.          *)
THEOREM IdenticalCorrect == Spec => []IdenticalTypes
<1>1. Inv => IdenticalTypes
  BY InvIdentical DEF Inv, StructInv
<1> QED
  BY <1>1, Invariance, PTL
=============================================================================
