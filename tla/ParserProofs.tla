--------------------------- MODULE ParserProofs ---------------------------
(***************************************************************************)
(* What holds of the parser for any kinds of tokens, any sequence of them, *)
(* any depth limit and any answers of the Action: its variables keep their *)
(* types, the counts of delimiters are those of the open trackers while    *)
(* there is no error, the flag of a header is set where it should be, no   *)
(* ".(type)" is forgotten, and a function that asserts its first token is  *)
(* called only at that token.                                              *)
(*                                                                         *)
(* The inductive invariant says of each entry of the stack of what is to   *)
(* be done that it Fits what is below it, and of the first entry what the  *)
(* variables are where it begins.  An entry is a parse function that was   *)
(* called, or the rest of one, so Fits is what a function may rely on of   *)
(* its callers: an asserted type is looked for inside parentheses, a range *)
(* clause inside a simple statement of a "for", and a function that        *)
(* asserts its first token is called only at that token.                   *)
(*                                                                         *)
(* No action is shown to preserve the invariant by itself.  The lemmas in  *)
(* the middle are about moves: the first entry becomes a few entries that  *)
(* are heirs of it (TurnStep and its special cases), or a tracker opens    *)
(* (OpenStep) or closes (CloseStep, AbandonStep), or a header begins or    *)
(* ends (StartStep, EndHeader), or a simple statement does                 *)
(* (SimpleStartStep, SimpleEndStep).  Every disjunct of every action is    *)
(* one of these moves: that is what CoreSteps, DeclSteps, TypeSteps,       *)
(* ExprSteps and StmtSteps show.                                           *)
(***************************************************************************)
EXTENDS Parser, TLAPS, SequenceTheorems, FiniteSetTheorems

-----------------------------------------------------------------------------
(* Sequences of anything *)

(* A sequence, of no set in particular: the entries are tuples of          *)
(* different lengths and kinds.                                            *)
AnySeq(s) == \E S : s \in Seq(S)

LEMMA AnySeqs ==
  /\ AnySeq(<< >>)
  /\ \A a : AnySeq(<<a>>)
  /\ \A a, b : AnySeq(<<a, b>>)
  /\ \A a, b, c : AnySeq(<<a, b, c>>)
  /\ \A a, b, c, d : AnySeq(<<a, b, c, d>>)
  /\ \A a, b, c, d, e : AnySeq(<<a, b, c, d, e>>)
<1>1. << >> \in Seq({})
  OBVIOUS
<1>2. ASSUME NEW a PROVE <<a>> \in Seq({a})
  OBVIOUS
<1>3. ASSUME NEW a, NEW b PROVE <<a, b>> \in Seq({a, b})
  OBVIOUS
<1>4. ASSUME NEW a, NEW b, NEW c PROVE <<a, b, c>> \in Seq({a, b, c})
  OBVIOUS
<1>5. ASSUME NEW a, NEW b, NEW c, NEW d PROVE <<a, b, c, d>> \in Seq({a, b, c, d})
  OBVIOUS
<1>6. ASSUME NEW a, NEW b, NEW c, NEW d, NEW e
      PROVE  <<a, b, c, d, e>> \in Seq({a, b, c, d, e})
  OBVIOUS
<1> QED
  BY <1>1, <1>2, <1>3, <1>4, <1>5, <1>6 DEF AnySeq

(* Three sequences are sequences of one set.                               *)
LEMMA Common ==
  ASSUME NEW s, NEW t, NEW u, AnySeq(s), AnySeq(t), AnySeq(u)
  PROVE  \E S : s \in Seq(S) /\ t \in Seq(S) /\ u \in Seq(S)
<1>1. PICK A : s \in Seq(A)
  BY DEF AnySeq
<1>2. PICK B : t \in Seq(B)
  BY DEF AnySeq
<1>3. PICK C : u \in Seq(C)
  BY DEF AnySeq
<1>4. s \in Seq(A \cup B \cup C) /\ t \in Seq(A \cup B \cup C) /\ u \in Seq(A \cup B \cup C)
  BY <1>1, <1>2, <1>3, SeqMonotonic
<1> QED
  BY <1>4

LEMMA Length ==
  ASSUME NEW s, AnySeq(s)
  PROVE  Len(s) \in Nat /\ (s = << >> <=> Len(s) = 0)
<1>1. PICK S : s \in Seq(S)
  BY DEF AnySeq
<1> QED
  BY <1>1, LenProperties, EmptySeq

(* What \o does, for sequences of anything.                                *)
LEMMA Concat ==
  ASSUME NEW s, NEW t, AnySeq(s), AnySeq(t)
  PROVE  /\ AnySeq(s \o t)
         /\ Len(s \o t) = Len(s) + Len(t) /\ Len(s) \in Nat /\ Len(t) \in Nat
         /\ \A i \in 1 .. Len(s) : (s \o t)[i] = s[i]
         /\ \A i \in 1 .. Len(t) : (s \o t)[Len(s) + i] = t[i]
         /\ s \o t = << >> <=> s = << >> /\ t = << >>
         /\ << >> \o t = t /\ t \o << >> = t
<1>1. PICK S : s \in Seq(S) /\ t \in Seq(S)
  BY Common
<1>2. /\ s \o t \in Seq(S)
      /\ Len(s \o t) = Len(s) + Len(t)
      /\ \A i \in 1 .. Len(s) + Len(t) :
           (s \o t)[i] = IF i <= Len(s) THEN s[i] ELSE t[i - Len(s)]
  BY <1>1, ConcatProperties
<1>3. Len(s) \in Nat /\ Len(t) \in Nat
  BY Length
<1>4. AnySeq(s \o t)
  BY <1>2 DEF AnySeq
<1>5. \A i \in 1 .. Len(s) : (s \o t)[i] = s[i]
  BY <1>2, <1>3
<1>6. ASSUME NEW i \in 1 .. Len(t) PROVE (s \o t)[Len(s) + i] = t[i]
  <2>1. Len(s) + i \in 1 .. Len(s) + Len(t) /\ ~ (Len(s) + i <= Len(s))
        /\ (Len(s) + i) - Len(s) = i
    BY <1>3
  <2> QED
    BY <1>2, <2>1
<1>7. s \o t = << >> <=> s = << >> /\ t = << >>
  BY <1>1, ConcatEqualIffEmpty
<1>8. << >> \o t = t /\ t \o << >> = t
  BY <1>1, ConcatEmptySeq
<1> QED
  BY <1>2, <1>3, <1>4, <1>5, <1>6, <1>7, <1>8

LEMMA Associative ==
  ASSUME NEW s, NEW t, NEW u, AnySeq(s), AnySeq(t), AnySeq(u)
  PROVE  (s \o t) \o u = s \o (t \o u)
BY Common, ConcatAssociative

(* Concatenations of literal sequences, entry by entry.                    *)
LEMMA Literals2 ==
  ASSUME NEW a, NEW b
  PROVE  <<a>> \o <<b>> = <<a, b>>
<1> DEFINE S == {a, b}
           s == <<a>> \o <<b>>
           t == <<a, b>>
<1>1. /\ <<a>> \in Seq(S) /\ <<b>> \in Seq(S) /\ t \in Seq(S)
      /\ Len(<<a>>) = 1 /\ Len(<<b>>) = 1 /\ Len(t) = 2
      /\ <<a>>[1] = a /\ <<b>>[1] = b /\ t[1] = a /\ t[2] = b
  OBVIOUS
<1>2. /\ s \in Seq(S) /\ Len(s) = 1 + 1
      /\ \A i \in 1 .. 1 + 1 : s[i] = IF i <= 1 THEN <<a>>[i] ELSE <<b>>[i - 1]
  BY <1>1, ConcatProperties
<1> HIDE DEF S, s, t
<1>3. s[1] = a /\ s[2] = b /\ Len(s) = 2
  BY <1>1, <1>2
<1>4. \A i \in 1 .. 2 : s[i] = t[i]
  BY <1>1, <1>3
<1>5. s = t
  BY <1>1, <1>2, <1>3, <1>4, SeqEqual
<1> QED
  BY <1>5 DEF s, t

LEMMA Literals3 ==
  ASSUME NEW a, NEW b, NEW c
  PROVE  /\ <<a>> \o <<b, c>> = <<a, b, c>>
         /\ <<a, b>> \o <<c>> = <<a, b, c>>
<1> DEFINE S == {a, b, c}
           s == <<a>> \o <<b, c>>
           t == <<a, b, c>>
           u == <<b, c>>
<1>1. /\ <<a>> \in Seq(S) /\ u \in Seq(S) /\ t \in Seq(S)
      /\ Len(<<a>>) = 1 /\ Len(u) = 2 /\ Len(t) = 3
      /\ <<a>>[1] = a /\ u[1] = b /\ u[2] = c /\ t[1] = a /\ t[2] = b /\ t[3] = c
  OBVIOUS
<1>2. /\ s \in Seq(S) /\ Len(s) = 1 + 2
      /\ \A i \in 1 .. 1 + 2 : s[i] = IF i <= 1 THEN <<a>>[i] ELSE u[i - 1]
  <2> HIDE DEF S, u, t
  <2> QED
    BY <1>1, ConcatProperties
<1> HIDE DEF S, s, t, u
<1>3. s[1] = a /\ s[2] = b /\ s[3] = c /\ Len(s) = 3
  <2>1. s[1] = a
    BY <1>1, <1>2
  <2>2. s[2] = u[1]
    BY <1>2
  <2>3. s[3] = u[2]
    BY <1>2
  <2> QED
    BY <1>1, <1>2, <2>1, <2>2, <2>3
<1>4. \A i \in 1 .. 3 : s[i] = t[i]
  BY <1>1, <1>3
<1>5. s = t
  BY <1>1, <1>2, <1>3, <1>4, SeqEqual
<1>6. <<a>> \o <<b, c>> = <<a, b, c>>
  BY <1>5 DEF s, t, u
<1>7. (<<a>> \o <<b>>) \o <<c>> = <<a>> \o (<<b>> \o <<c>>)
  BY Associative, AnySeqs
<1>8. <<a>> \o <<b>> = <<a, b>> /\ <<b>> \o <<c>> = <<b, c>>
  BY Literals2
<1> QED
  BY <1>6, <1>7, <1>8

LEMMA Literals4 ==
  ASSUME NEW a, NEW b, NEW c, NEW d
  PROVE  <<a, b>> \o <<c, d>> = <<a, b, c, d>>
<1> DEFINE S == {a, b, c, d}
           p == <<a, b>>
           q == <<c, d>>
           s == p \o q
           t == <<a, b, c, d>>
<1>1. /\ p \in Seq(S) /\ q \in Seq(S) /\ t \in Seq(S)
      /\ Len(p) = 2 /\ Len(q) = 2 /\ Len(t) = 4
      /\ p[1] = a /\ p[2] = b /\ q[1] = c /\ q[2] = d
      /\ t[1] = a /\ t[2] = b /\ t[3] = c /\ t[4] = d
  OBVIOUS
<1> HIDE DEF S, p, q, t
<1>2. /\ s \in Seq(S) /\ Len(s) = 2 + 2
      /\ \A i \in 1 .. 2 + 2 : s[i] = IF i <= 2 THEN p[i] ELSE q[i - 2]
  <2>1. p \in Seq(S) /\ q \in Seq(S)
    BY <1>1
  <2>2. /\ s \in Seq(S) /\ Len(s) = Len(p) + Len(q)
        /\ \A i \in 1 .. Len(p) + Len(q) : s[i] = IF i <= Len(p) THEN p[i] ELSE q[i - Len(p)]
    BY ONLY <2>1, ConcatProperties
  <2> QED
    BY <1>1, <2>2
<1> HIDE DEF s
<1>3. s[1] = a /\ s[2] = b /\ s[3] = c /\ s[4] = d
  <2>1. s[1] = p[1] /\ s[2] = p[2] /\ s[3] = q[1] /\ s[4] = q[2]
    BY <1>2
  <2> QED
    BY <1>1, <2>1
<1>4. \A i \in 1 .. 4 : s[i] = t[i]
  BY <1>1, <1>3
<1>5. s = t
  <2>1. Len(s) = Len(t) /\ (\A i \in 1 .. Len(s) : s[i] = t[i])
    BY <1>1, <1>2, <1>4
  <2> QED
    BY <1>1, <1>2, <2>1, SeqEqual
<1> QED
  BY <1>5 DEF s, t, p, q

(* A stack that is not empty is its first entry on top of the others.      *)
LEMMA Tails ==
  ASSUME NEW s, AnySeq(s), s # << >>
  PROVE  /\ AnySeq(Tail(s)) /\ s = <<s[1]>> \o Tail(s)
         /\ Len(s) \in Nat \ {0} /\ Len(Tail(s)) = Len(s) - 1
         /\ \A i \in 1 .. Len(s) - 1 : Tail(s)[i] = s[i + 1]
<1>1. PICK S : s \in Seq(S)
  BY DEF AnySeq
<1>2. Tail(s) \in Seq(S) /\ Len(Tail(s)) = Len(s) - 1
      /\ \A i \in 1 .. Len(Tail(s)) : Tail(s)[i] = s[i + 1]
  BY <1>1, HeadTailProperties
<1>3. Len(s) \in Nat \ {0}
  BY <1>1, EmptySeq
<1>4. s[1] \in S
  BY <1>1, <1>3, ElementOfSeq
<1>5. <<s[1]>> \in Seq(S) /\ Len(<<s[1]>>) = 1
  BY <1>4
<1> DEFINE t == <<s[1]>> \o Tail(s)
<1>6. /\ t \in Seq(S) /\ Len(t) = 1 + (Len(s) - 1)
      /\ \A i \in 1 .. 1 + (Len(s) - 1) : t[i] = IF i <= 1 THEN <<s[1]>>[i] ELSE Tail(s)[i - 1]
  BY <1>2, <1>5, ConcatProperties
<1> HIDE DEF t
<1>7. ASSUME NEW i \in 1 .. Len(s) PROVE t[i] = s[i]
  <2>1. CASE i = 1
    BY <1>3, <1>6, <2>1
  <2>2. CASE i > 1
    <3>1. i - 1 \in 1 .. Len(Tail(s)) /\ (i - 1) + 1 = i /\ ~ (i <= 1) /\ i \in 1 .. 1 + (Len(s) - 1)
      BY <1>2, <1>3, <2>2
    <3> QED
      BY <1>2, <1>6, <3>1
  <2> QED
    BY <1>3, <2>1, <2>2
<1>8. t = s
  BY <1>1, <1>3, <1>6, <1>7, SeqEqual
<1>9. AnySeq(Tail(s))
  BY <1>2 DEF AnySeq
<1> QED
  BY <1>2, <1>3, <1>8, <1>9 DEF t

(* The first two entries, and what SubSeq leaves below them.               *)
LEMMA SecondTail ==
  ASSUME NEW s, AnySeq(s), s # << >>, Tail(s) # << >>
  PROVE  /\ SubSeq(s, 3, Len(s)) = Tail(Tail(s)) /\ Tail(s)[1] = s[2]
         /\ s = <<s[1], s[2]>> \o Tail(Tail(s))
<1>1. PICK S : s \in Seq(S)
  BY DEF AnySeq
<1>2. Tail(s) \in Seq(S) /\ Len(s) \in Nat /\ Len(Tail(s)) = Len(s) - 1 /\ Len(Tail(s)) # 0
      /\ Len(Tail(s)) \in Nat
  BY <1>1, HeadTailProperties, EmptySeq, LenProperties
<1>3. 2 \in 1 .. Len(s) /\ Len(s) \in 2 .. Len(s)
  BY <1>2
<1>4. Tail(s) = SubSeq(s, 2, Len(s))
  BY <1>1, TailIsSubSeq
<1>5. Tail(Tail(s)) = SubSeq(s, 2 + 1, Len(s))
  BY <1>1, <1>3, <1>4, HeadTailOfSubSeq
<1>6. Tail(s)[1] = s[2]
  BY <1>2, Tails
<1>7. AnySeq(Tail(s)) /\ AnySeq(Tail(Tail(s)))
  BY Tails
<1>8. s = <<s[1]>> \o (<<s[2]>> \o Tail(Tail(s)))
  BY <1>6, <1>7, Tails
<1>9. (<<s[1]>> \o <<s[2]>>) \o Tail(Tail(s)) = <<s[1]>> \o (<<s[2]>> \o Tail(Tail(s)))
  <2> DEFINE p == <<s[1]>>
             q == <<s[2]>>
             r == Tail(Tail(s))
  <2>1. AnySeq(p) /\ AnySeq(q) /\ AnySeq(r)
    BY <1>7, AnySeqs
  <2> HIDE DEF p, q, r
  <2>2. (p \o q) \o r = p \o (q \o r)
    BY <2>1, Associative
  <2> QED
    BY <2>2 DEF p, q, r
<1>10. <<s[1]>> \o <<s[2]>> = <<s[1], s[2]>>
  BY Literals2
<1>11. s = <<s[1], s[2]>> \o Tail(Tail(s))
  BY <1>8, <1>9, <1>10, Zenon
<1>12. SubSeq(s, 3, Len(s)) = Tail(Tail(s))
  BY <1>5
<1> QED
  BY <1>6, <1>11, <1>12

(* What is below entry i of a stack.                                       *)
Rest(s, i) == SubSeq(s, i + 1, Len(s))

(* What is below an entry of s \o t.                                       *)
LEMMA RestOfConcat ==
  ASSUME NEW s, NEW t, AnySeq(s), AnySeq(t)
  PROVE  /\ \A i \in 1 .. Len(s) : Rest(s \o t, i) = Rest(s, i) \o t
         /\ \A i \in 1 .. Len(t) : Rest(s \o t, Len(s) + i) = Rest(t, i)
<1>1. PICK S : s \in Seq(S) /\ t \in Seq(S)
  BY Common
<1> DEFINE m == Len(s)
           n == Len(t)
           st == s \o t
<1>2. m \in Nat /\ n \in Nat /\ st \in Seq(S) /\ Len(st) = m + n
      /\ \A i \in 1 .. m + n : st[i] = IF i <= m THEN s[i] ELSE t[i - m]
  BY <1>1, LenProperties, ConcatProperties
<1>3. /\ \A i \in 1 .. m : s[i] \in S
      /\ \A i \in 1 .. n : t[i] \in S
      /\ \A i \in 1 .. m + n : st[i] \in S
  BY <1>1, <1>2, ElementOfSeq
<1> HIDE DEF m, n, st
<1>4. ASSUME NEW i \in 1 .. m PROVE SubSeq(st, i + 1, m + n) = SubSeq(s, i + 1, m) \o t
  <2> DEFINE a == SubSeq(st, i + 1, m + n)
             b == SubSeq(s, i + 1, m)
  <2>1. i + 1 \in Int /\ m \in Int /\ m + n \in Int /\ i \in Nat /\ 1 <= i /\ i <= m
    BY <1>2
  <2>2. /\ a \in Seq(S) /\ Len(a) = IF i + 1 <= m + n THEN (m + n) - (i + 1) + 1 ELSE 0
        /\ \A k \in 1 .. (m + n) - (i + 1) + 1 : a[k] = st[(i + 1) + k - 1]
    <3>1. \A k \in i + 1 .. m + n : st[k] \in S
      BY <1>2, <1>3, <2>1
    <3> QED
      BY <2>1, <3>1, SubSeqProperties
  <2>3. /\ b \in Seq(S) /\ Len(b) = IF i + 1 <= m THEN m - (i + 1) + 1 ELSE 0
        /\ \A k \in 1 .. m - (i + 1) + 1 : b[k] = s[(i + 1) + k - 1]
    <3>1. \A k \in i + 1 .. m : s[k] \in S
      BY <1>2, <1>3, <2>1
    <3> QED
      BY <2>1, <3>1, SubSeqProperties
  <2> HIDE DEF a, b
  <2>4. Len(a) = (m - i) + n /\ \A k \in 1 .. (m - i) + n : a[k] = st[i + k]
    <3>1. /\ (IF i + 1 <= m + n THEN (m + n) - (i + 1) + 1 ELSE 0) = (m - i) + n
          /\ (m + n) - (i + 1) + 1 = (m - i) + n
      BY <1>2, <2>1
    <3>2. \A k \in 1 .. (m - i) + n : (i + 1) + k - 1 = i + k
      BY <1>2, <2>1
    <3> QED
      BY <2>2, <3>1, <3>2
  <2>5. Len(b) = m - i /\ \A k \in 1 .. m - i : b[k] = s[i + k]
    <3>1. /\ (IF i + 1 <= m THEN m - (i + 1) + 1 ELSE 0) = m - i
          /\ m - (i + 1) + 1 = m - i
      BY <1>2, <2>1
    <3>2. \A k \in 1 .. m - i : (i + 1) + k - 1 = i + k
      BY <1>2, <2>1
    <3> QED
      BY <2>3, <3>1, <3>2
  <2>6. /\ b \o t \in Seq(S) /\ Len(b \o t) = (m - i) + n
        /\ \A k \in 1 .. (m - i) + n : (b \o t)[k] = IF k <= m - i THEN b[k] ELSE t[k - (m - i)]
    <3>1. b \in Seq(S) /\ t \in Seq(S) /\ Len(b) = m - i /\ Len(t) = n
      BY <1>1, <2>3, <2>5 DEF n
    <3>2. /\ b \o t \in Seq(S) /\ Len(b \o t) = Len(b) + Len(t)
          /\ \A k \in 1 .. Len(b) + Len(t) :
               (b \o t)[k] = IF k <= Len(b) THEN b[k] ELSE t[k - Len(b)]
      BY <3>1, ConcatProperties
    <3> QED
      BY <3>1, <3>2
  <2>7. ASSUME NEW k \in 1 .. (m - i) + n PROVE a[k] = (b \o t)[k]
    <3>1. i + k \in 1 .. m + n /\ (k <= m - i <=> i + k <= m) /\ (i + k) - m = k - (m - i)
      BY <1>2, <2>1
    <3>2. k <= m - i => k \in 1 .. m - i
      BY <1>2, <2>1
    <3> QED
      BY <1>2, <2>4, <2>5, <2>6, <3>1, <3>2
  <2>8. a = b \o t
    BY <2>2, <2>4, <2>6, <2>7, SeqEqual
  <2> QED
    BY <2>8 DEF a, b
<1>5. ASSUME NEW i \in 1 .. n PROVE SubSeq(st, (m + i) + 1, m + n) = SubSeq(t, i + 1, n)
  <2> DEFINE a == SubSeq(st, (m + i) + 1, m + n)
             b == SubSeq(t, i + 1, n)
  <2>1. (m + i) + 1 \in Int /\ i + 1 \in Int /\ n \in Int /\ m + n \in Int /\ i \in Nat /\ 1 <= i /\ i <= n
    BY <1>2
  <2>2. /\ a \in Seq(S)
        /\ Len(a) = IF (m + i) + 1 <= m + n THEN (m + n) - ((m + i) + 1) + 1 ELSE 0
        /\ \A k \in 1 .. (m + n) - ((m + i) + 1) + 1 : a[k] = st[((m + i) + 1) + k - 1]
    <3>1. \A k \in (m + i) + 1 .. m + n : st[k] \in S
      BY <1>2, <1>3, <2>1
    <3> QED
      BY <2>1, <3>1, SubSeqProperties
  <2>3. /\ b \in Seq(S) /\ Len(b) = IF i + 1 <= n THEN n - (i + 1) + 1 ELSE 0
        /\ \A k \in 1 .. n - (i + 1) + 1 : b[k] = t[(i + 1) + k - 1]
    <3>1. \A k \in i + 1 .. n : t[k] \in S
      BY <1>2, <1>3, <2>1
    <3> QED
      BY <2>1, <3>1, SubSeqProperties
  <2> HIDE DEF a, b
  <2>4. Len(a) = n - i /\ \A k \in 1 .. n - i : a[k] = st[m + (i + k)]
    <3>1. /\ (IF (m + i) + 1 <= m + n THEN (m + n) - ((m + i) + 1) + 1 ELSE 0) = n - i
          /\ (m + n) - ((m + i) + 1) + 1 = n - i
      BY <1>2, <2>1
    <3>2. \A k \in 1 .. n - i : ((m + i) + 1) + k - 1 = m + (i + k)
      BY <1>2, <2>1
    <3> QED
      BY <2>2, <3>1, <3>2
  <2>5. Len(b) = n - i /\ \A k \in 1 .. n - i : b[k] = t[i + k]
    <3>1. /\ (IF i + 1 <= n THEN n - (i + 1) + 1 ELSE 0) = n - i
          /\ n - (i + 1) + 1 = n - i
      BY <1>2, <2>1
    <3>2. \A k \in 1 .. n - i : (i + 1) + k - 1 = i + k
      BY <1>2, <2>1
    <3> QED
      BY <2>3, <3>1, <3>2
  <2>6. ASSUME NEW k \in 1 .. n - i PROVE a[k] = b[k]
    <3>1. m + (i + k) \in 1 .. m + n /\ ~ (m + (i + k) <= m) /\ (m + (i + k)) - m = i + k
      BY <1>2, <2>1
    <3> QED
      BY <1>2, <2>4, <2>5, <3>1
  <2>7. a = b
    BY <2>2, <2>3, <2>4, <2>5, <2>6, SeqEqual
  <2> QED
    BY <2>7 DEF a, b
<1> QED
  BY <1>2, <1>4, <1>5 DEF Rest, m, n, st

LEMMA RestIs ==
  ASSUME NEW s, AnySeq(s), NEW i \in 1 .. Len(s)
  PROVE  /\ AnySeq(Rest(s, i)) /\ Len(Rest(s, i)) = Len(s) - i
         /\ \A k \in 1 .. Len(s) - i : Rest(s, i)[k] = s[i + k]
<1>1. PICK S : s \in Seq(S)
  BY DEF AnySeq
<1> DEFINE m == Len(s)
<1>2. m \in Nat /\ \A k \in 1 .. m : s[k] \in S
  BY <1>1, LenProperties, ElementOfSeq
<1> DEFINE b == SubSeq(s, i + 1, m)
<1> HIDE DEF m
<1>3. i + 1 \in Int /\ m \in Int /\ i \in Nat /\ 1 <= i /\ i <= m
  BY <1>2 DEF m
<1>4. /\ b \in Seq(S) /\ Len(b) = IF i + 1 <= m THEN m - (i + 1) + 1 ELSE 0
      /\ \A k \in 1 .. m - (i + 1) + 1 : b[k] = s[(i + 1) + k - 1]
  <2>1. \A k \in i + 1 .. m : s[k] \in S
    BY <1>2, <1>3
  <2> QED
    BY <1>3, <2>1, SubSeqProperties
<1> HIDE DEF b
<1>5. /\ (IF i + 1 <= m THEN m - (i + 1) + 1 ELSE 0) = m - i
      /\ m - (i + 1) + 1 = m - i
  BY <1>3
<1>6. \A k \in 1 .. m - i : (i + 1) + k - 1 = i + k
  BY <1>3
<1>7. Len(b) = m - i /\ \A k \in 1 .. m - i : b[k] = s[i + k]
  BY <1>4, <1>5, <1>6
<1>8. AnySeq(b)
  BY <1>4 DEF AnySeq
<1> QED
  BY <1>7, <1>8 DEF Rest, m, b

(* What a function returns, and the kinds of a simple statement.           *)
Results == {"ok", "fail", "unclosed", "idents", "types", "exprs"}
Kinds   == {"Normal", "RangeClause", "Expression", "TypeSwitchGuard", "Disarmed"}

(* The functions that pass TypeSwitchGuardParam on; e[2] says that it is   *)
(* there.                                                                  *)
MayGuard == {"Expression", "ExpressionTail", "BinaryTail", "BinaryOp", "UnaryExpr",
             "ParenExpr", "OpenParen", "Suffix", "SuffixOp", "Selector", "AssertedType",
             "ExpressionList", "AfterFirst"}

(* The arguments of an entry that become values of variables, or decide    *)
(* what is to be done.                                                     *)
Typed(e) ==
  /\ e[1] = "Close" => /\ e[2] \in Delimiters /\ e[3] \in BOOLEAN
                       /\ e[5] \in BOOLEAN
  /\ e[1] = "LateClose" => e[2] \in Delimiters /\ e[3] \in Results
  /\ e[1] = "Return" => e[2] \in Results
  /\ e[1] = "Outcome" => e[2] \in Results /\ e[3] \in Kinds
  /\ e[1] = "ShortVarDecl" => e[2] \in Kinds
  /\ e[1] = "SimpleEnd" => e[4] \in BOOLEAN
  /\ e[1] \in MayGuard => e[2] \in BOOLEAN
  /\ e[1] = "ParenExpr" => e[4] \in BOOLEAN
  /\ e[1] = "ParenExprEnd" => e[3] \in BOOLEAN
  /\ e[1] = "BuiltinEnd" => e[2] \in BOOLEAN
  /\ e[1] = "OnFail" => e[2] = SkipToSemi
  /\ e[1] = "ExpectSemi" => e[2] \in {<< >>, <<Skip({"semi"}, TRUE, FALSE)>>}
  /\ e[1] \in {"MembersOf", "Members", "AfterMember", "MemberSemi"} =>
       e[2] \in {"FieldDecl", "MethodSpec"}
  /\ e[1] \in {"CaseClauses", "CaseBlock", "SwitchBody"} =>
       e[2] \in {"ExprCase", "TypeCase", "CommCase"}

(* The functions that start headers, or call those that do: where no flag  *)
(* may be set.                                                             *)
Levels == {"Statement", "IdentStmt", "Statements", "StatementSemi", "CaseStmts", "CaseSemi",
           "CaseClauses", "IfStmt", "SwitchStmt", "ForStmt", "Else", "ElseBranch"}

(* The functions that begin or end in the tracker whose Close is next      *)
(* below.                                                                  *)
InPair == {"DeclGroup", "DeclGroupNext", "DeclGroupSemi", "MapKey", "CompositeLitBound",
           "EllipsisBound", "AssertedType", "Index", "IndexEnd", "CaseClauses"}

(* The functions that may find the ".(type)" of a type switch.             *)
Claims(e) ==
  \/ e[1] \in MayGuard /\ e[2] = TRUE
  \/ e[1] = "SimpleTail" /\ e[2] = "TypeSwitchGuard"
  \/ e[1] \in {"AfterLHS", "AfterColonEqual"} /\ e[3] = "TypeSwitchGuard"
  \/ e[1] = "SimpleEnd" /\ e[4] = TRUE

(* What is left to do only after an error.                                 *)
Failing(e) ==
  \/ e[1] \in {"SkipUntil", "LateClose"}
  \/ e[1] \in {"Return", "Outcome"} /\ e[2] \in {"fail", "unclosed"}

(* The functions that assert, or rely on, the token they are called at.    *)
(* After an error the body of a "switch" may begin anywhere.               *)
AtBrace   == {"Block", "LiteralValue"}
AtParen   == {"Parameters", "Signature", "Receiver", "OpenParen", "ParenExpr", "BuiltinCall",
              "Conversion"}
Ready(err) ==
  AtBrace \cup AtParen \cup
  {"SuffixOp", "RangeClause", "Declaration", "BinaryOp", "FieldDecl", "MethodSpec",
   "ImportSpec"} \cup
  IF err = "none" THEN {"CaseBlock"} ELSE {}

(* That token.                                                             *)
Starts(e, t, err) ==
  /\ e[1] \in AtBrace => t = "l_brace"
  /\ e[1] \in AtParen => t = "l_paren"
  /\ e[1] = "SuffixOp" => t \in {"period", "l_square", "l_paren"}
  /\ e[1] = "RangeClause" => t = "kw_range"
  /\ e[1] = "Declaration" => t \in DeclKeywords
  /\ e[1] = "BinaryOp" => t \in BinaryOps
  /\ e[1] = "FieldDecl" => t \in {"identifier", "star"}
  /\ e[1] = "MethodSpec" => t = "identifier"
  /\ e[1] = "ImportSpec" => t \in ImportSpecStart
  /\ e[1] = "CaseBlock" /\ err = "none" => t = "l_brace"

(* Of the statement of a "for" that may be a range clause. *)
InRange(e) ==
  \/ e[1] \in {"SimpleTail", "AfterLHSList"} /\ e[2] = "RangeClause"
  \/ e[1] \in {"AfterLHS", "AfterColonEqual"} /\ e[3] = "RangeClause"
  \/ e[1] \in {"AfterAssign", "AfterListOp", "RangeClause"} /\ e[4] = "RangeClause"
  \/ e[1] = "RangeEnd"

(* The statement of a "for" header that may be a range clause, as a whole. *)
OfFor(e) ==
  \/ e[1] \in {"SimpleStmt", "SimpleStart"} /\ e[2] = "RangeClause"
  \/ e[1] = "SimpleEnd" /\ e[3] = "RangeClause"

(* What the stack below an entry says: the flag is set in a header that no *)
(* tracker cleared, ...                                                    *)
Flag(s) ==
  \E j \in 1 .. Len(s) : s[j][1] \in Headers /\ \A k \in 1 .. j - 1 : ~ Clears(s[k])

(* ... a tracker was refused its opener, ...                               *)
Refused(s) == \E j \in 1 .. Len(s) : s[j][1] = "Close" /\ ~ Clears(s[j])

(* ... the innermost simple statement may be the guard of a switch, ...    *)
Switched(s) ==
  \E j \in 1 .. Len(s) : /\ s[j][1] = "SimpleEnd" /\ s[j][3] = "TypeSwitchGuard"
                         /\ \A k \in 1 .. j - 1 : s[k][1] # "SimpleEnd"

(* ... and the trackers of delimiter d.                                    *)
Closes(s, d) == {i \in 1 .. Len(s) : s[i][1] = "Close" /\ s[i][2] = d}

(* What a function e may rely on of the stack s of its callers, and after  *)
(* no error.                                                               *)
Fits(e, s, err) ==
  /\ Typed(e)
  /\ e[1] = "Close" => e[3] = Flag(s)
  /\ e[1] \in Headers => ~ Flag(s)
  /\ e[1] \in Levels => ~ Flag(s) \/ Refused(s)
  /\ e[1] = "AssertionFails" => Refused(s)
  /\ Claims(e) => Switched(s)
  /\ e[1] \in InPair => s # << >> /\ s[1][1] = "Close"
  /\ s # << >> => s[1][1] \notin Ready(err)
  /\ err = "none" =>
       /\ ~ Failing(e)
       /\ InRange(e) => s # << >> /\ s[1][1] = "SimpleEnd" /\ s[1][3] = "RangeClause"
       /\ OfFor(e) => s # << >> /\ s[1][1] = "ForHead"

(* Every entry fits what is below it.                                      *)
Stack(s, err) == \A i \in 1 .. Len(s) : Fits(s[i], Rest(s, i), err)

-----------------------------------------------------------------------------
(* What a stack says: a sequence of steps on top of it, and one entry.     *)

(* A set of places and the same set further down have as many elements.    *)
LEMMA Shift ==
  ASSUME NEW m \in Nat, NEW n \in Nat, NEW A \in SUBSET (1 .. n)
  PROVE  /\ IsFiniteSet(A) /\ IsFiniteSet({m + i : i \in A})
         /\ Cardinality({m + i : i \in A}) = Cardinality(A) /\ Cardinality(A) \in Nat
<1>1. IsFiniteSet(A) /\ Cardinality(A) \in Nat
  <2>1. 1 \in Int /\ n \in Int
    OBVIOUS
  <2>2. IsFiniteSet(1 .. n)
    BY <2>1, FS_Interval
  <2>3. IsFiniteSet(A)
    BY <2>2, FS_Subset
  <2> QED
    BY <2>3, FS_CardinalityType
<1> DEFINE T == {m + i : i \in A}
           f == [i \in A |-> m + i]
<1>2. f \in [A -> T]
  OBVIOUS
<1>3. \A x, y \in A : f[x] = f[y] => x = y
  <2>1. \A x \in A : x \in Nat
    OBVIOUS
  <2> QED
    BY <2>1
<1>4. \A y \in T : \E x \in A : f[x] = y
  OBVIOUS
<1> HIDE DEF f
<1>5. f \in Bijection(A, T)
  BY <1>2, <1>3, <1>4 DEF Bijection, Injection, Surjection, IsInjective
<1>6. ExistsBijection(A, T)
  BY <1>5 DEF ExistsBijection
<1> QED
  BY <1>1, <1>6, FS_Bijection

(* Neither a tracker nor the end of a simple statement.                    *)
Inert(e) == e[1] \notin {"Close", "SimpleEnd"}

(* Inert entries on a stack add no tracker; a header among them sets the   *)
(* flag.                                                                   *)
LEMMA UnderSteps ==
  ASSUME NEW s, NEW t, AnySeq(s), AnySeq(t), \A i \in 1 .. Len(s) : Inert(s[i])
  PROVE  /\ Flag(s \o t) <=> (\E i \in 1 .. Len(s) : s[i][1] \in Headers) \/ Flag(t)
         /\ Refused(s \o t) <=> Refused(t)
         /\ Switched(s \o t) <=> Switched(t)
         /\ \A d : Cardinality(Closes(s \o t, d)) = Cardinality(Closes(t, d))
<1> DEFINE m == Len(s)
           n == Len(t)
           st == s \o t
<1>1. /\ m \in Nat /\ n \in Nat /\ Len(st) = m + n
      /\ \A i \in 1 .. m : st[i] = s[i]
      /\ \A i \in 1 .. n : st[m + i] = t[i]
  BY Concat
<1>2. \A i \in 1 .. m : Inert(s[i])
  OBVIOUS
<1> HIDE DEF m, n, st
<1>3. \A i \in 1 .. m : st[i][1] \notin {"Close", "SimpleEnd"} /\ ~ Clears(st[i])
  BY <1>1, <1>2 DEF Inert, Clears
<1>4. \A k \in 1 .. m + n : k > m => k - m \in 1 .. n /\ k = m + (k - m)
  BY <1>1
<1>5. \A i \in 1 .. n : m + i \in 1 .. m + n /\ m + i > m
  BY <1>1
<1>6. \A i \in 1 .. m : i \in 1 .. m + n
  BY <1>1
<1>7. Flag(st) <=> (\E i \in 1 .. m : s[i][1] \in Headers) \/ Flag(t)
  <2>1. ASSUME Flag(st) PROVE (\E i \in 1 .. m : s[i][1] \in Headers) \/ Flag(t)
    <3>1. PICK j \in 1 .. m + n : st[j][1] \in Headers /\ \A k \in 1 .. j - 1 : ~ Clears(st[k])
      BY <1>1, <2>1 DEF Flag
    <3>2. CASE j <= m
      <4>1. j \in 1 .. m
        BY <1>1, <3>2
      <4> QED
        BY <1>1, <3>1, <4>1
    <3>3. CASE j > m
      <4>1. j - m \in 1 .. n /\ t[j - m] = st[j]
        BY <1>1, <1>4, <3>3
      <4>2. ASSUME NEW k \in 1 .. (j - m) - 1 PROVE ~ Clears(t[k])
        <5>1. k \in 1 .. n /\ m + k \in 1 .. j - 1
          BY <1>1, <4>1
        <5> QED
          BY <1>1, <3>1, <5>1
      <4> QED
        BY <3>1, <4>1, <4>2 DEF Flag, n
    <3> QED
      BY <1>1, <3>2, <3>3
  <2>2. ASSUME NEW j \in 1 .. m, s[j][1] \in Headers PROVE Flag(st)
    <3>1. j \in 1 .. Len(st) /\ st[j][1] \in Headers
      BY <1>1, <1>6, <2>2
    <3>2. \A k \in 1 .. j - 1 : k \in 1 .. m
      BY <1>1
    <3> QED
      BY <1>3, <3>1, <3>2 DEF Flag
  <2>3. ASSUME Flag(t) PROVE Flag(st)
    <3>1. PICK j \in 1 .. n : t[j][1] \in Headers /\ \A k \in 1 .. j - 1 : ~ Clears(t[k])
      BY <2>3 DEF Flag, n
    <3>2. m + j \in 1 .. Len(st) /\ st[m + j][1] \in Headers
      BY <1>1, <1>5, <3>1
    <3>3. ASSUME NEW k \in 1 .. (m + j) - 1 PROVE ~ Clears(st[k])
      <4>1. CASE k <= m
        <5>1. k \in 1 .. m
          BY <1>1, <4>1
        <5> QED
          BY <1>3, <5>1
      <4>2. CASE k > m
        <5>1. k - m \in 1 .. j - 1 /\ k - m \in 1 .. n /\ m + (k - m) = k
          BY <1>1, <4>2
        <5> QED
          BY <1>1, <3>1, <5>1
      <4> QED
        BY <1>1, <4>1, <4>2
    <3> QED
      BY <3>2, <3>3 DEF Flag
  <2> QED
    BY <2>1, <2>2, <2>3
<1>8. Refused(st) <=> Refused(t)
  <2>1. ASSUME NEW j \in 1 .. m + n, st[j][1] = "Close", ~ Clears(st[j]) PROVE Refused(t)
    <3>1. ~ (j \in 1 .. m)
      BY <1>3, <2>1
    <3>2. j > m
      BY <1>1, <3>1
    <3> QED
      BY <1>1, <1>4, <2>1, <3>2 DEF Refused, n
  <2>2. ASSUME NEW j \in 1 .. n, t[j][1] = "Close", ~ Clears(t[j]) PROVE Refused(st)
    BY <1>1, <1>5, <2>2 DEF Refused
  <2> QED
    BY <1>1, <2>1, <2>2 DEF Refused, n
<1>9. Switched(st) <=> Switched(t)
  <2>1. ASSUME NEW j \in 1 .. m + n, st[j][1] = "SimpleEnd", st[j][3] = "TypeSwitchGuard",
               \A k \in 1 .. j - 1 : st[k][1] # "SimpleEnd"
        PROVE  Switched(t)
    <3>1. j > m
      <4>1. ~ (j \in 1 .. m)
        BY <1>3, <2>1
      <4> QED
        BY <1>1, <4>1
    <3>2. j - m \in 1 .. n /\ t[j - m] = st[j]
      BY <1>1, <1>4, <3>1
    <3>3. ASSUME NEW k \in 1 .. (j - m) - 1 PROVE t[k][1] # "SimpleEnd"
      <4>1. k \in 1 .. n /\ m + k \in 1 .. j - 1
        BY <1>1, <3>2
      <4> QED
        BY <1>1, <2>1, <4>1
    <3> QED
      BY <2>1, <3>2, <3>3 DEF Switched, n
  <2>2. ASSUME NEW j \in 1 .. n, t[j][1] = "SimpleEnd", t[j][3] = "TypeSwitchGuard",
               \A k \in 1 .. j - 1 : t[k][1] # "SimpleEnd"
        PROVE  Switched(st)
    <3>1. m + j \in 1 .. Len(st) /\ st[m + j] = t[j]
      BY <1>1, <1>5
    <3>2. ASSUME NEW k \in 1 .. (m + j) - 1 PROVE st[k][1] # "SimpleEnd"
      <4>1. CASE k <= m
        <5>1. k \in 1 .. m
          BY <1>1, <4>1
        <5> QED
          BY <1>3, <5>1
      <4>2. CASE k > m
        <5>1. k - m \in 1 .. j - 1 /\ k - m \in 1 .. n /\ m + (k - m) = k
          BY <1>1, <4>2
        <5> QED
          BY <1>1, <2>2, <5>1
      <4> QED
        BY <1>1, <4>1, <4>2
    <3> QED
      BY <2>2, <3>1, <3>2 DEF Switched
  <2> QED
    BY <1>1, <2>1, <2>2 DEF Switched, n
<1>10. ASSUME NEW d PROVE Cardinality(Closes(st, d)) = Cardinality(Closes(t, d))
  <2>1. Closes(t, d) \in SUBSET (1 .. n)
    BY DEF Closes, n
  <2>2. Closes(st, d) = {m + i : i \in Closes(t, d)}
    <3>1. ASSUME NEW x \in Closes(st, d) PROVE x \in {m + i : i \in Closes(t, d)}
      <4>1. x \in 1 .. m + n /\ st[x][1] = "Close" /\ st[x][2] = d
        BY <1>1 DEF Closes
      <4>2. ~ (x \in 1 .. m)
        BY <1>3, <4>1
      <4>3. x > m
        BY <1>1, <4>1, <4>2
      <4>4. x - m \in Closes(t, d) /\ x = m + (x - m)
        BY <1>1, <1>4, <4>1, <4>3 DEF Closes, n
      <4> QED
        BY <4>4
    <3>2. ASSUME NEW i \in Closes(t, d) PROVE m + i \in Closes(st, d)
      <4>1. i \in 1 .. n /\ t[i][1] = "Close" /\ t[i][2] = d
        BY DEF Closes, n
      <4> QED
        BY <1>1, <1>5, <4>1 DEF Closes
    <3> QED
      BY <3>1, <3>2
  <2> QED
    BY <1>1, <2>1, <2>2, Shift
<1> QED
  BY <1>7, <1>8, <1>9, <1>10 DEF m, st

(* One entry on a stack, whichever it is.                                  *)
LEMMA OnTop ==
  ASSUME NEW e, NEW t, AnySeq(t)
  PROVE  /\ Flag(<<e>> \o t) <=> e[1] \in Headers \/ (~ Clears(e) /\ Flag(t))
         /\ Refused(<<e>> \o t) <=> (e[1] = "Close" /\ ~ Clears(e)) \/ Refused(t)
         /\ Switched(<<e>> \o t) <=> IF e[1] = "SimpleEnd" THEN e[3] = "TypeSwitchGuard"
                                                         ELSE Switched(t)
         /\ \A d : Cardinality(Closes(<<e>> \o t, d)) =
                     Cardinality(Closes(t, d)) + IF e[1] = "Close" /\ e[2] = d THEN 1 ELSE 0
<1> DEFINE n == Len(t)
           st == <<e>> \o t
<1>1. /\ n \in Nat /\ Len(st) = 1 + n /\ st[1] = e /\ \A i \in 1 .. n : st[1 + i] = t[i]
  <2>1. AnySeq(<<e>>) /\ Len(<<e>>) = 1 /\ <<e>>[1] = e
    BY AnySeqs
  <2> DEFINE p == <<e>>
  <2> HIDE DEF p
  <2>2. /\ Len(p \o t) = Len(p) + Len(t) /\ Len(t) \in Nat
        /\ \A i \in 1 .. Len(p) : (p \o t)[i] = p[i]
        /\ \A i \in 1 .. Len(t) : (p \o t)[Len(p) + i] = t[i]
    BY <2>1, Concat DEF p
  <2> QED
    BY <2>1, <2>2 DEF p
<1> HIDE DEF n, st
<1>2. \A k \in 1 .. 1 + n : k # 1 => k - 1 \in 1 .. n /\ k = 1 + (k - 1)
  BY <1>1
<1>3. 1 \in 1 .. 1 + n /\ \A i \in 1 .. n : 1 + i \in 1 .. 1 + n
  BY <1>1
<1>4. Flag(st) <=> e[1] \in Headers \/ (~ Clears(e) /\ Flag(t))
  <2>1. ASSUME Flag(st), e[1] \notin Headers PROVE ~ Clears(e) /\ Flag(t)
    <3>1. PICK j \in 1 .. 1 + n : st[j][1] \in Headers /\ \A k \in 1 .. j - 1 : ~ Clears(st[k])
      BY <1>1, <2>1 DEF Flag
    <3>2. j # 1
      BY <1>1, <2>1, <3>1
    <3>3. j - 1 \in 1 .. n /\ t[j - 1] = st[j] /\ 1 \in 1 .. j - 1
      BY <1>1, <1>2, <3>2
    <3>4. ~ Clears(e)
      BY <1>1, <3>1, <3>3
    <3>5. ASSUME NEW k \in 1 .. (j - 1) - 1 PROVE ~ Clears(t[k])
      <4>1. k \in 1 .. n /\ 1 + k \in 1 .. j - 1
        BY <1>1, <3>3
      <4> QED
        BY <1>1, <3>1, <4>1
    <3> QED
      BY <3>1, <3>3, <3>4, <3>5 DEF Flag, n
  <2>2. ASSUME e[1] \in Headers PROVE Flag(st)
    <3>1. \A k \in 1 .. 1 - 1 : ~ Clears(st[k])
      OBVIOUS
    <3> QED
      BY <1>1, <1>3, <2>2, <3>1 DEF Flag
  <2>3. ASSUME ~ Clears(e), Flag(t) PROVE Flag(st)
    <3>1. PICK j \in 1 .. n : t[j][1] \in Headers /\ \A k \in 1 .. j - 1 : ~ Clears(t[k])
      BY <2>3 DEF Flag, n
    <3>2. 1 + j \in 1 .. Len(st) /\ st[1 + j][1] \in Headers
      BY <1>1, <1>3, <3>1
    <3>3. ASSUME NEW k \in 1 .. (1 + j) - 1 PROVE ~ Clears(st[k])
      <4>1. CASE k = 1
        BY <1>1, <2>3, <4>1
      <4>2. CASE k # 1
        <5>1. k - 1 \in 1 .. j - 1 /\ k - 1 \in 1 .. n /\ 1 + (k - 1) = k
          BY <1>1, <4>2
        <5> QED
          BY <1>1, <3>1, <5>1
      <4> QED
        BY <4>1, <4>2
    <3> QED
      BY <3>2, <3>3 DEF Flag
  <2> QED
    BY <2>1, <2>2, <2>3
<1>5. Refused(st) <=> (e[1] = "Close" /\ ~ Clears(e)) \/ Refused(t)
  <2>1. ASSUME NEW j \in 1 .. 1 + n, st[j][1] = "Close", ~ Clears(st[j])
        PROVE  (e[1] = "Close" /\ ~ Clears(e)) \/ Refused(t)
    <3>1. CASE j = 1
      BY <1>1, <2>1, <3>1
    <3>2. CASE j # 1
      BY <1>1, <1>2, <2>1, <3>2 DEF Refused, n
    <3> QED
      BY <3>1, <3>2
  <2>2. ASSUME NEW j \in 1 .. n, t[j][1] = "Close", ~ Clears(t[j]) PROVE Refused(st)
    BY <1>1, <1>3, <2>2 DEF Refused
  <2>3. ASSUME e[1] = "Close", ~ Clears(e) PROVE Refused(st)
    BY <1>1, <1>3, <2>3 DEF Refused
  <2> QED
    BY <1>1, <2>1, <2>2, <2>3 DEF Refused, n
<1>6. Switched(st) <=> IF e[1] = "SimpleEnd" THEN e[3] = "TypeSwitchGuard" ELSE Switched(t)
  <2>1. ASSUME NEW j \in 1 .. 1 + n, st[j][1] = "SimpleEnd", st[j][3] = "TypeSwitchGuard",
               \A k \in 1 .. j - 1 : st[k][1] # "SimpleEnd"
        PROVE  IF e[1] = "SimpleEnd" THEN e[3] = "TypeSwitchGuard" ELSE Switched(t)
    <3>1. CASE j = 1
      BY <1>1, <2>1, <3>1
    <3>2. CASE j # 1
      <4>1. j - 1 \in 1 .. n /\ t[j - 1] = st[j] /\ 1 \in 1 .. j - 1
        BY <1>1, <1>2, <3>2
      <4>2. e[1] # "SimpleEnd"
        BY <1>1, <2>1, <4>1
      <4>3. ASSUME NEW k \in 1 .. (j - 1) - 1 PROVE t[k][1] # "SimpleEnd"
        <5>1. k \in 1 .. n /\ 1 + k \in 1 .. j - 1
          BY <1>1, <4>1
        <5> QED
          BY <1>1, <2>1, <5>1
      <4> QED
        BY <2>1, <4>1, <4>2, <4>3 DEF Switched, n
    <3> QED
      BY <3>1, <3>2
  <2>2. ASSUME e[1] # "SimpleEnd",
               NEW j \in 1 .. n, t[j][1] = "SimpleEnd", t[j][3] = "TypeSwitchGuard",
               \A k \in 1 .. j - 1 : t[k][1] # "SimpleEnd"
        PROVE  Switched(st)
    <3>1. 1 + j \in 1 .. Len(st) /\ st[1 + j] = t[j]
      BY <1>1, <1>3
    <3>2. ASSUME NEW k \in 1 .. (1 + j) - 1 PROVE st[k][1] # "SimpleEnd"
      <4>1. CASE k = 1
        BY <1>1, <2>2, <4>1
      <4>2. CASE k # 1
        <5>1. k - 1 \in 1 .. j - 1 /\ k - 1 \in 1 .. n /\ 1 + (k - 1) = k
          BY <1>1, <4>2
        <5> QED
          BY <1>1, <2>2, <5>1
      <4> QED
        BY <4>1, <4>2
    <3> QED
      BY <2>2, <3>1, <3>2 DEF Switched
  <2>3. ASSUME e[1] = "SimpleEnd", e[3] = "TypeSwitchGuard" PROVE Switched(st)
    <3>1. \A k \in 1 .. 1 - 1 : st[k][1] # "SimpleEnd"
      OBVIOUS
    <3> QED
      BY <1>1, <1>3, <2>3, <3>1 DEF Switched
  <2> QED
    BY <1>1, <2>1, <2>2, <2>3 DEF Switched, n
<1>7. ASSUME NEW d
      PROVE  Cardinality(Closes(st, d)) =
               Cardinality(Closes(t, d)) + IF e[1] = "Close" /\ e[2] = d THEN 1 ELSE 0
  <2> DEFINE A == {1 + i : i \in Closes(t, d)}
  <2>1. Closes(t, d) \in SUBSET (1 .. n)
    BY DEF Closes, n
  <2>2. /\ IsFiniteSet(A) /\ Cardinality(A) = Cardinality(Closes(t, d))
        /\ Cardinality(Closes(t, d)) \in Nat
    <3>1. 1 \in Nat
      OBVIOUS
    <3> QED
      BY <1>1, <2>1, <3>1, Shift
  <2>3. 1 \notin A
    BY <2>1
  <2>4. Closes(st, d) = A \cup IF e[1] = "Close" /\ e[2] = d THEN {1} ELSE {}
    <3>1. ASSUME NEW x \in Closes(st, d), x # 1 PROVE x \in A
      <4>1. x \in 1 .. 1 + n /\ st[x][1] = "Close" /\ st[x][2] = d
        BY <1>1 DEF Closes
      <4>2. x - 1 \in Closes(t, d) /\ x = 1 + (x - 1)
        BY <1>1, <1>2, <3>1, <4>1 DEF Closes, n
      <4> QED
        BY <4>2
    <3>2. ASSUME NEW i \in Closes(t, d) PROVE 1 + i \in Closes(st, d)
      <4>1. i \in 1 .. n /\ t[i][1] = "Close" /\ t[i][2] = d
        BY DEF Closes, n
      <4> QED
        BY <1>1, <1>3, <4>1 DEF Closes
    <3>3. 1 \in Closes(st, d) <=> e[1] = "Close" /\ e[2] = d
      BY <1>1, <1>3 DEF Closes
    <3> HIDE DEF Closes
    <3> QED
      BY <2>3, <3>1, <3>2, <3>3
  <2> HIDE DEF A, Closes
  <2>5. CASE e[1] = "Close" /\ e[2] = d
    BY <2>2, <2>3, <2>4, <2>5, FS_AddElement
  <2>6. CASE ~ (e[1] = "Close" /\ e[2] = d)
    <3>1. Closes(st, d) = A
      BY <2>4, <2>6
    <3> QED
      BY <2>2, <2>6, <3>1
  <2> QED
    BY <2>5, <2>6
<1> QED
  BY <1>4, <1>5, <1>6, <1>7 DEF st
-----------------------------------------------------------------------------
(* The stack as a whole *)

(* A stack fits if its lower part does and each upper entry fits what is   *)
(* below it.                                                               *)
LEMMA StackConcat ==
  ASSUME NEW s, NEW t, NEW c, AnySeq(s), AnySeq(t)
  PROVE  Stack(s \o t, c) <=>
           Stack(t, c) /\ \A i \in 1 .. Len(s) : Fits(s[i], Rest(s, i) \o t, c)
<1> DEFINE m == Len(s)
           n == Len(t)
           st == s \o t
<1>1. /\ m \in Nat /\ n \in Nat /\ Len(st) = m + n
      /\ \A i \in 1 .. m : st[i] = s[i]
      /\ \A i \in 1 .. n : st[m + i] = t[i]
  BY Concat
<1>2. /\ \A i \in 1 .. m : Rest(st, i) = Rest(s, i) \o t
      /\ \A i \in 1 .. n : Rest(st, m + i) = Rest(t, i)
  BY RestOfConcat
<1> HIDE DEF m, n, st
<1>3. \A i \in 1 .. m : i \in 1 .. m + n
  BY <1>1
<1>4. \A i \in 1 .. n : m + i \in 1 .. m + n
  BY <1>1
<1>5. \A i \in 1 .. m + n : i \in 1 .. m \/ \E k \in 1 .. n : i = m + k
  <2>1. ASSUME NEW i \in 1 .. m + n, ~ (i \in 1 .. m) PROVE i - m \in 1 .. n /\ i = m + (i - m)
    BY <1>1, <2>1
  <2> QED
    BY <2>1
<1>6. ASSUME Stack(st, c)
      PROVE  Stack(t, c) /\ \A i \in 1 .. m : Fits(s[i], Rest(s, i) \o t, c)
  <2>1. \A i \in 1 .. m + n : Fits(st[i], Rest(st, i), c)
    BY <1>1, <1>6 DEF Stack
  <2>2. \A i \in 1 .. m : Fits(s[i], Rest(s, i) \o t, c)
    BY <1>1, <1>2, <1>3, <2>1
  <2>3. \A i \in 1 .. n : Fits(t[i], Rest(t, i), c)
    BY <1>1, <1>2, <1>4, <2>1
  <2> QED
    BY <2>2, <2>3 DEF Stack, n
<1>7. ASSUME Stack(t, c), \A i \in 1 .. m : Fits(s[i], Rest(s, i) \o t, c)
      PROVE  Stack(st, c)
  <2>1. \A i \in 1 .. n : Fits(t[i], Rest(t, i), c)
    BY <1>7 DEF Stack, n
  <2>2. ASSUME NEW i \in 1 .. m + n PROVE Fits(st[i], Rest(st, i), c)
    <3>1. CASE i \in 1 .. m
      BY <1>1, <1>2, <1>7, <3>1
    <3>2. CASE \E k \in 1 .. n : i = m + k
      BY <1>1, <1>2, <2>1, <3>2
    <3> QED
      BY <1>5, <3>1, <3>2
  <2> QED
    BY <1>1, <2>2 DEF Stack
<1> QED
  BY <1>6, <1>7 DEF m, st

(* One entry more.                                                         *)
LEMMA Push ==
  ASSUME NEW e, NEW t, NEW c, AnySeq(t)
  PROVE  /\ AnySeq(<<e>> \o t) /\ (<<e>> \o t)[1] = e /\ <<e>> \o t # << >>
         /\ Stack(<<e>> \o t, c) <=> Stack(t, c) /\ Fits(e, t, c)
<1> DEFINE p == <<e>>
<1>1. AnySeq(p) /\ Len(p) = 1 /\ p[1] = e /\ p # << >>
  BY AnySeqs
<1>2. AnySeq(Rest(p, 1)) /\ Len(Rest(p, 1)) = 0
  <2>1. 1 \in 1 .. Len(p) /\ Len(p) - 1 = 0
    BY <1>1
  <2> HIDE DEF p
  <2> QED
    BY <1>1, <2>1, RestIs
<1> HIDE DEF p
<1>3. Rest(p, 1) = << >>
  BY <1>2, Length
<1>4. Rest(p, 1) \o t = t
  BY <1>3, Concat
<1>5. Stack(p \o t, c) <=> Stack(t, c) /\ \A i \in 1 .. Len(p) : Fits(p[i], Rest(p, i) \o t, c)
  BY <1>1, StackConcat
<1>6. \A i \in 1 .. Len(p) : i = 1
  BY <1>1
<1>7. 1 \in 1 .. Len(p)
  BY <1>1
<1>8. Stack(p \o t, c) <=> Stack(t, c) /\ Fits(e, t, c)
  BY <1>1, <1>4, <1>5, <1>6, <1>7
<1>9. AnySeq(p \o t) /\ (p \o t)[1] = e /\ p \o t # << >>
  BY <1>1, <1>7, Concat
<1> QED
  BY <1>8, <1>9 DEF p

(* The other functions begin at any token.                                 *)
LEMMA Unready ==
  ASSUME NEW e, NEW t, NEW err, e[1] \notin Ready(err) \/ e[1] \notin Ready("none")
  PROVE  Starts(e, t, err)
BY DEF Starts, Ready

(* No function asserts more after an error.                                *)
LEMMA StillUnready ==
  ASSUME NEW x, x \notin Ready("none"), NEW err
  PROVE  x \notin Ready(err)
BY DEF Ready

(* After an error less is relied on.                                       *)
LEMMA Weaker ==
  ASSUME NEW c, NEW d, d = "none" => c = "none"
  PROVE  /\ \A e, s : Fits(e, s, c) => Fits(e, s, d)
         /\ \A s : Stack(s, c) => Stack(s, d)
BY DEF Fits, Stack, Ready

(* What replaces the first entry of a stack: f by steps.                   *)
Heir(f, e, err) ==
  /\ Typed(e)
  /\ e[1] \notin {"Close", "SimpleEnd", "AssertionFails"}
  /\ e[1] \in Levels => f[1] \in Levels
  /\ Claims(e) => Claims(f)
  /\ err = "none" => ~ Failing(e)

(* Entries that rely on nothing below them.                                *)
OnAny(e) == e[1] \notin Headers \cup InPair /\ ~ InRange(e) /\ ~ OfFor(e)

(* e may take the place of f at the bottom of what replaces it.            *)
Takes(f, e, err) ==
  /\ e[1] \in Headers <=> f[1] \in Headers
  /\ e[1] \in InPair => f[1] \in InPair
  /\ err = "none" => (InRange(e) => InRange(f)) /\ (OfFor(e) => OfFor(f))

(* The entries that replace f: all but the last are on their own, and the  *)
(* last takes its place.                                                   *)
Chain(f, steps, err) ==
  /\ AnySeq(steps)
  /\ \A i \in 1 .. Len(steps) : Heir(f, steps[i], err)
  /\ \A i \in 1 .. Len(steps) - 1 :
       OnAny(steps[i]) /\ steps[i + 1][1] \notin Ready(err)
  /\ IF steps = << >> THEN f[1] \notin Headers ELSE Takes(f, steps[Len(steps)], err)

(* Replacing f so leaves a stack that fits, and changes none of what it    *)
(* says.                                                                   *)
LEMMA ChainStack ==
  ASSUME NEW f, NEW s, NEW t, NEW c, AnySeq(t), Stack(t, c), Fits(f, t, c),
         Chain(f, s, c)
  PROVE  /\ AnySeq(s \o t) /\ Stack(s \o t, c)
         /\ Flag(s \o t) <=> f[1] \in Headers \/ Flag(t)
         /\ Refused(s \o t) <=> Refused(t)
         /\ Switched(s \o t) <=> Switched(t)
         /\ \A d : Cardinality(Closes(s \o t, d)) = Cardinality(Closes(t, d))
         /\ s # << >> => (s \o t)[1] = s[1] /\ s \o t # << >>
<1> DEFINE m == Len(s)
<1>1. /\ AnySeq(s) /\ m \in Nat /\ (s = << >> <=> m = 0) /\ AnySeq(s \o t)
      /\ \A i \in 1 .. m : (s \o t)[i] = s[i]
      /\ s \o t = << >> <=> s = << >> /\ t = << >>
  BY Length, Concat DEF Chain
<1>2. /\ \A i \in 1 .. m : Heir(f, s[i], c)
      /\ \A i \in 1 .. m - 1 : OnAny(s[i]) /\ s[i + 1][1] \notin Ready(c)
      /\ IF s = << >> THEN f[1] \notin Headers ELSE Takes(f, s[m], c)
  BY DEF Chain
<1> HIDE DEF m
<1>3. \A i \in 1 .. m : Inert(s[i])
  BY <1>2 DEF Heir, Inert
<1>4. /\ \A i \in 1 .. m : i \in 1 .. m - 1 \/ i = m
      /\ m # 0 => m \in 1 .. m /\ 1 \in 1 .. m
  BY <1>1
<1>5. (\E i \in 1 .. m : s[i][1] \in Headers) <=> f[1] \in Headers
  BY <1>1, <1>2, <1>4 DEF OnAny, Takes
<1>6. /\ Flag(s \o t) <=> f[1] \in Headers \/ Flag(t)
      /\ Refused(s \o t) <=> Refused(t)
      /\ Switched(s \o t) <=> Switched(t)
      /\ \A d : Cardinality(Closes(s \o t, d)) = Cardinality(Closes(t, d))
  BY <1>1, <1>3, <1>5, UnderSteps DEF m
<1>7. ASSUME NEW i \in 1 .. m PROVE Fits(s[i], Rest(s, i) \o t, c)
  <2> DEFINE e == s[i]
             r == Rest(s, i)
  <2>1. AnySeq(r) /\ Len(r) = m - i /\ \A k \in 1 .. m - i : r[k] = s[i + k]
    BY <1>1, RestIs DEF m
  <2>2. \A k \in 1 .. m - i : i + k \in 1 .. m
    BY <1>1
  <2>3. \A k \in 1 .. Len(r) : Inert(r[k])
    BY <1>3, <2>1, <2>2
  <2> HIDE DEF r
  <2>4. /\ Flag(r \o t) <=> (\E k \in 1 .. Len(r) : r[k][1] \in Headers) \/ Flag(t)
        /\ Refused(r \o t) <=> Refused(t)
        /\ Switched(r \o t) <=> Switched(t)
    BY <2>1, <2>3, UnderSteps
  <2>5. (\E k \in 1 .. Len(r) : r[k][1] \in Headers) => f[1] \in Headers
    BY <1>5, <2>1, <2>2
  <2>6. Heir(f, e, c)
    BY <1>2
  <2>7. CASE i = m
    <3>1. r = << >> /\ r \o t = t
      <4>1. Len(r) = 0
        BY <1>1, <2>1, <2>7
      <4>2. r = << >>
        BY <2>1, <4>1, Length
      <4> QED
        BY <4>2, Concat
    <3>2. Takes(f, e, c)
      BY <1>1, <1>2, <2>7
    <3>3. Fits(e, t, c)
      <4> HIDE DEF e
      <4> QED
        BY <2>6, <3>2 DEF Fits, Heir, Takes
    <3> QED
      BY <3>1, <3>3 DEF r
  <2>8. CASE i # m
    <3>1. i \in 1 .. m - 1
      BY <1>4, <2>8
    <3>2. OnAny(e) /\ s[i + 1][1] \notin Ready(c)
      BY <1>2, <3>1
    <3>3. r \o t # << >> /\ (r \o t)[1] = s[i + 1]
      <4>1. 1 \in 1 .. m - i /\ Len(r) # 0
        BY <1>1, <2>1, <3>1
      <4>2. r[1] = s[i + 1]
        BY <2>1, <4>1
      <4> QED
        BY <2>1, <4>1, <4>2, Concat, Length
    <3>4. e[1] \in Levels => ~ Flag(r \o t) \/ Refused(r \o t)
      <4>1. f[1] \in Levels => f[1] \notin Headers
        BY DEF Levels, Headers
      <4>2. f[1] \in Levels => ~ Flag(t) \/ Refused(t)
        BY DEF Fits
      <4> QED
        BY <2>4, <2>5, <2>6, <4>1, <4>2 DEF Heir
    <3>5. Claims(e) => Switched(r \o t)
      BY <2>4, <2>6 DEF Heir, Fits
    <3>6. Fits(e, r \o t, c)
      <4> DEFINE rt == r \o t
      <4> HIDE DEF e, rt
      <4> QED
        BY <2>6, <3>2, <3>3, <3>4, <3>5 DEF Fits, Heir, OnAny, rt
    <3> QED
      BY <3>6 DEF r
  <2> QED
    BY <2>7, <2>8
<1>8. Stack(s \o t, c)
  BY <1>1, <1>7, StackConcat DEF m
<1> QED
  BY <1>1, <1>4, <1>6, <1>8
-----------------------------------------------------------------------------
(* The literal sequences of entries by which an action replaces one.       *)

(* An entry that is not the last of those that replace f, and the last     *)
(* one.                                                                    *)
Inner(f, e, err) == Heir(f, e, err) /\ OnAny(e)
Final(f, e, err) == Heir(f, e, err) /\ Takes(f, e, err)

(* The steps may replace f where the current token is t.                   *)
Good(f, steps, err, t) ==
  Chain(f, steps, err) /\ (steps # << >> => Starts(steps[1], t, err))

(* The literal sequences of steps, by their entries.                       *)
LEMMA Good0 ==
  ASSUME NEW f, NEW err, NEW t, f[1] \notin Headers
  PROVE  Good(f, << >>, err, t)
<1>1. AnySeq(<< >>) /\ Len(<< >>) = 0
  BY AnySeqs
<1> QED
  BY <1>1 DEF Good, Chain

LEMMA Good1 ==
  ASSUME NEW f, NEW err, NEW t, NEW a,
         Final(f, a, err), Starts(a, t, err)
  PROVE  Good(f, <<a>>, err, t)
<1> DEFINE s == <<a>>
<1>1. AnySeq(s) /\ Len(s) = 1 /\ s[1] = a /\ s # << >>
  BY AnySeqs
<1> HIDE DEF s
<1>2. \A i \in 1 .. 1 : s[i] = a
  BY <1>1
<1> QED
  BY <1>1, <1>2 DEF Good, Chain, Final, s

LEMMA Good2 ==
  ASSUME NEW f, NEW err, NEW t, NEW a, NEW b,
         Inner(f, a, err), Final(f, b, err), Starts(a, t, err),
         b[1] \notin Ready(err)
  PROVE  Good(f, <<a, b>>, err, t)
<1> DEFINE s == <<a, b>>
<1>1. AnySeq(s) /\ Len(s) = 2 /\ s[1] = a /\ s[2] = b /\ s # << >>
  BY AnySeqs
<1> HIDE DEF s
<1>2. \A i \in 1 .. 2 : s[i] = a \/ s[i] = b
  BY <1>1
<1>3. \A i \in 1 .. 2 - 1 : s[i] = a /\ s[i + 1] = b
  BY <1>1
<1> QED
  BY <1>1, <1>2, <1>3 DEF Good, Chain, Final, Inner, s

LEMMA Good3 ==
  ASSUME NEW f, NEW err, NEW t, NEW a, NEW b, NEW c,
         Inner(f, a, err), Inner(f, b, err), Final(f, c, err), Starts(a, t, err),
         b[1] \notin Ready(err), c[1] \notin Ready(err)
  PROVE  Good(f, <<a, b, c>>, err, t)
<1> DEFINE s == <<a, b, c>>
<1>1. AnySeq(s) /\ Len(s) = 3 /\ s[1] = a /\ s[2] = b /\ s[3] = c /\ s # << >>
  BY AnySeqs
<1> HIDE DEF s
<1>2. \A i \in 1 .. 3 : s[i] = a \/ s[i] = b \/ s[i] = c
  BY <1>1
<1>3. \A i \in 1 .. 3 - 1 : \/ s[i] = a /\ s[i + 1] = b
                            \/ s[i] = b /\ s[i + 1] = c
  BY <1>1
<1> QED
  BY <1>1, <1>2, <1>3 DEF Good, Chain, Final, Inner, s

LEMMA Good4 ==
  ASSUME NEW f, NEW err, NEW t, NEW a, NEW b, NEW c, NEW d,
         Inner(f, a, err), Inner(f, b, err), Inner(f, c, err), Final(f, d, err),
         Starts(a, t, err),
         b[1] \notin Ready(err), c[1] \notin Ready(err), d[1] \notin Ready(err)
  PROVE  Good(f, <<a, b, c, d>>, err, t)
<1> DEFINE s == <<a, b, c, d>>
<1>1. AnySeq(s) /\ Len(s) = 4 /\ s[1] = a /\ s[2] = b /\ s[3] = c /\ s[4] = d /\ s # << >>
  BY AnySeqs
<1> HIDE DEF s
<1>2. \A i \in 1 .. 4 : s[i] = a \/ s[i] = b \/ s[i] = c \/ s[i] = d
  BY <1>1
<1>3. \A i \in 1 .. 4 - 1 : \/ s[i] = a /\ s[i + 1] = b
                            \/ s[i] = b /\ s[i + 1] = c
                            \/ s[i] = c /\ s[i + 1] = d
  BY <1>1
<1> QED
  BY <1>1, <1>2, <1>3 DEF Good, Chain, Final, Inner, s

LEMMA Good5 ==
  ASSUME NEW f, NEW err, NEW t, NEW a, NEW b, NEW c, NEW d, NEW e,
         Inner(f, a, err), Inner(f, b, err), Inner(f, c, err), Inner(f, d, err),
         Final(f, e, err), Starts(a, t, err),
         b[1] \notin Ready(err), c[1] \notin Ready(err),
         d[1] \notin Ready(err), e[1] \notin Ready(err)
  PROVE  Good(f, <<a, b, c, d, e>>, err, t)
<1> DEFINE s == <<a, b, c, d, e>>
<1>1. AnySeq(s) /\ Len(s) = 5 /\ s[1] = a /\ s[2] = b /\ s[3] = c /\ s[4] = d /\ s[5] = e
      /\ s # << >>
  BY AnySeqs
<1> HIDE DEF s
<1>2. \A i \in 1 .. 5 : s[i] = a \/ s[i] = b \/ s[i] = c \/ s[i] = d \/ s[i] = e
  BY <1>1
<1>3. \A i \in 1 .. 5 - 1 : \/ s[i] = a /\ s[i + 1] = b
                            \/ s[i] = b /\ s[i + 1] = c
                            \/ s[i] = c /\ s[i + 1] = d
                            \/ s[i] = d /\ s[i + 1] = e
  BY <1>1
<1> QED
  BY <1>1, <1>2, <1>3 DEF Good, Chain, Final, Inner, s

(* The same where an action joins two of them.                             *)
LEMMA Joined3 ==
  ASSUME NEW f, NEW err, NEW t, NEW a, NEW b, NEW c, Good(f, <<a, b, c>>, err, t)
  PROVE  Good(f, <<a>> \o <<b, c>>, err, t)
BY Literals3

LEMMA Joined4 ==
  ASSUME NEW f, NEW err, NEW t, NEW a, NEW b, NEW c, NEW d, Good(f, <<a, b, c, d>>, err, t)
  PROVE  Good(f, <<a, b>> \o <<c, d>>, err, t)
BY Literals4

LEMMA Joined13 ==
  ASSUME NEW f, NEW err, NEW t, NEW a, NEW b, NEW c, NEW d, Good(f, <<a, b, c, d>>, err, t)
  PROVE  Good(f, <<a>> \o <<b, c, d>>, err, t)
<1>1. PICK p, q, r : p = <<a>> /\ q = <<b>> /\ r = <<c, d>>
  OBVIOUS
<1>2. AnySeq(p) /\ AnySeq(q) /\ AnySeq(r)
  BY <1>1, AnySeqs
<1>3. (p \o q) \o r = p \o (q \o r)
  BY ONLY <1>2, Associative
<1>4. <<a>> \o <<b>> = <<a, b>> /\ <<b>> \o <<c, d>> = <<b, c, d>>
      /\ <<a, b>> \o <<c, d>> = <<a, b, c, d>>
  BY Literals2, Literals3, Literals4
<1> QED
  BY <1>1, <1>3, <1>4

LEMMA Joined23 ==
  ASSUME NEW f, NEW err, NEW t, NEW a, NEW b, NEW c, NEW d, NEW e,
         Good(f, <<a, b, c, d, e>>, err, t)
  PROVE  Good(f, <<a, b>> \o <<c, d, e>>, err, t)
<1> DEFINE S == {a, b, c, d, e}
           p == <<a, b>>
           q == <<c, d, e>>
           s == p \o q
           u == <<a, b, c, d, e>>
<1>1. /\ p \in Seq(S) /\ q \in Seq(S) /\ u \in Seq(S)
      /\ Len(p) = 2 /\ Len(q) = 3 /\ Len(u) = 5
      /\ p[1] = a /\ p[2] = b /\ q[1] = c /\ q[2] = d /\ q[3] = e
      /\ u[1] = a /\ u[2] = b /\ u[3] = c /\ u[4] = d /\ u[5] = e
  OBVIOUS
<1> HIDE DEF S, p, q, u
<1>2. /\ s \in Seq(S) /\ Len(s) = 2 + 3
      /\ \A i \in 1 .. 2 + 3 : s[i] = IF i <= 2 THEN p[i] ELSE q[i - 2]
  <2>1. p \in Seq(S) /\ q \in Seq(S)
    BY <1>1
  <2>2. /\ s \in Seq(S) /\ Len(s) = Len(p) + Len(q)
        /\ \A i \in 1 .. Len(p) + Len(q) : s[i] = IF i <= Len(p) THEN p[i] ELSE q[i - Len(p)]
    BY ONLY <2>1, ConcatProperties
  <2> QED
    BY <1>1, <2>2
<1> HIDE DEF s
<1>3. s[1] = a /\ s[2] = b /\ s[3] = c /\ s[4] = d /\ s[5] = e
  <2>1. s[1] = p[1] /\ s[2] = p[2] /\ s[3] = q[1] /\ s[4] = q[2] /\ s[5] = q[3]
    BY <1>2
  <2> QED
    BY <1>1, <2>1
<1>4. \A i \in 1 .. 5 : s[i] = u[i]
  BY <1>1, <1>3
<1>5. s = u
  <2>1. Len(s) = Len(u) /\ (\A i \in 1 .. Len(s) : s[i] = u[i])
    BY <1>1, <1>2, <1>4
  <2> QED
    BY <1>1, <1>2, <2>1, SeqEqual
<1> QED
  BY <1>5 DEF s, p, q, u

-----------------------------------------------------------------------------
(* The inductive invariant, and what a step is shown to do.                *)

IInv ==
  /\ AnySeq(todo)
  /\ tok \in Openers => OpenCount(counts) < MaxOpen[source]
  /\ Stack(todo, errors)
  /\ needsParens = Flag(todo)
  /\ guard => Switched(todo)
  /\ todo # << >> => Starts(todo[1], tok, errors)
  /\ errors = "none" =>
       /\ \A d \in Delimiters : counts[d] = Cardinality(Closes(todo, d))
       /\ ret # "unclosed"
       /\ ret = "fail" => /\ todo # << >>
                          /\ \/ todo[1][1] = "SimpleEnd" /\ todo[1][3] = "RangeClause"
                             \/ todo[1][1] = "ForHead"

(* GuardIsUsed, of one step.                                               *)
Guarded ==
  guard /\ ~ guard' /\ errors' # "reported" =>
    \/ kind' = "TypeSwitchGuard"
    \/ \E i \in 1 .. Len(todo') : todo'[i][1] = "SimpleEnd" /\ todo'[i][4]

(* The invariant.                                                          *)
Inv == TypeOK /\ IInv

(* Consuming a token or not *)

Read ==
  /\ source' = source /\ tok' \in source \cup {"semi", "eof"}
  /\ counts' \in [Delimiters -> 0 .. MaxOpen[source]]
  /\ tok' \in Openers => OpenCount(counts') < MaxOpen[source]
  /\ moved' \in BOOLEAN

(* The current token stays.                                                *)
LEMMA Stays ==
  ASSUME Inv, Stay
  PROVE  Read /\ counts' = counts /\ tok' = tok
BY DEF Inv, TypeOK, IInv, Stay, Read

(* The current token is consumed: the counts follow the brackets.          *)
LEMMA Eats ==
  ASSUME Inv, Eat
  PROVE  /\ Read /\ counts' = Consumed(counts)
         /\ tok \notin Openers \cup Closers => counts' = counts
<1>1. /\ source \in Sources /\ MaxOpen[source] \in Nat /\ counts \in [Delimiters -> 0 .. MaxOpen[source]]
      /\ tok \in Openers => OpenCount(counts) < MaxOpen[source]
  BY ParserAssumption DEF Inv, TypeOK, IInv
<1>2. counts' = Consumed(counts) /\ tok' \in NextKinds /\ moved' \in BOOLEAN /\ source' = source
  BY DEF Eat
<1>3. tok' \in source \cup {"semi", "eof"}
  BY <1>2 DEF NextKinds
<1>4. tok' \in Openers => OpenCount(counts') < MaxOpen[source]
  <2>1. "semi" \notin Openers /\ "eof" \notin Openers
    BY DEF Openers, Opener, Delimiters
  <2>2. OpenCount(counts') \in Nat
    <3> DEFINE cs == Consumed(counts)
    <3>1. cs["paren"] \in Nat /\ cs["square"] \in Nat /\ cs["brace"] \in Nat
      BY <1>1 DEF Consumed, Delimiters
    <3> QED
      BY <1>2, <3>1 DEF OpenCount
  <2> QED
    BY <1>1, <1>2, <2>1, <2>2 DEF NextKinds
<1>5. Consumed(counts) \in [Delimiters -> 0 .. MaxOpen[source]]
  <2>1. ASSUME NEW d \in Delimiters
        PROVE  (IF tok = Opener[d] THEN counts[d] + 1
                ELSE IF tok = Closer[d] /\ counts[d] > 0 THEN counts[d] - 1
                ELSE counts[d]) \in 0 .. MaxOpen[source]
    <3>1. counts[d] \in 0 .. MaxOpen[source]
      BY <1>1
    <3>2. ASSUME tok = Opener[d] PROVE counts[d] < MaxOpen[source]
      <4>1. tok \in Openers
        BY <3>2 DEF Openers
      <4>2. /\ counts["paren"] \in Nat /\ counts["square"] \in Nat /\ counts["brace"] \in Nat
        BY <1>1 DEF Delimiters
      <4>3. counts["paren"] + counts["square"] + counts["brace"] < MaxOpen[source]
        BY <1>1, <4>1 DEF OpenCount
      <4>4. d = "paren" \/ d = "square" \/ d = "brace"
        BY DEF Delimiters
      <4> QED
        BY <1>1, <4>2, <4>3, <4>4
    <3> QED
      BY <1>1, <3>1, <3>2
  <2> QED
    BY <2>1 DEF Consumed
<1>6. ASSUME tok \notin Openers \cup Closers PROVE Consumed(counts) = counts
  <2>1. \A d \in Delimiters : tok # Opener[d] /\ tok # Closer[d]
    BY <1>6 DEF Openers, Closers
  <2> QED
    BY <1>1, <2>1 DEF Consumed
<1> QED
  BY <1>2, <1>3, <1>4, <1>5, <1>6 DEF Read

-----------------------------------------------------------------------------
(* The moves of the parser.  Step is what each is shown to do.             *)

Step == Inv' /\ Guarded

(* What the invariant says of the stack below the first entry.             *)
LEMMA Split ==
  ASSUME Inv, todo # << >>, NEW f, NEW t, f = todo[1], t = Tail(todo)
  PROVE  /\ todo = <<f>> \o t /\ AnySeq(t) /\ Stack(t, errors) /\ Fits(f, t, errors)
         /\ Flag(todo) <=> f[1] \in Headers \/ (~ Clears(f) /\ Flag(t))
         /\ Refused(todo) <=> (f[1] = "Close" /\ ~ Clears(f)) \/ Refused(t)
         /\ Switched(todo) <=> IF f[1] = "SimpleEnd" THEN f[3] = "TypeSwitchGuard"
                                                     ELSE Switched(t)
         /\ \A d : Cardinality(Closes(todo, d)) =
                     Cardinality(Closes(t, d)) + IF f[1] = "Close" /\ f[2] = d THEN 1 ELSE 0
<1>1. todo = <<f>> \o t /\ AnySeq(t)
  BY Tails DEF Inv, IInv
<1>2. PICK u : u = <<f>> \o t
  OBVIOUS
<1>3. /\ Flag(u) <=> f[1] \in Headers \/ (~ Clears(f) /\ Flag(t))
      /\ Refused(u) <=> (f[1] = "Close" /\ ~ Clears(f)) \/ Refused(t)
      /\ Switched(u) <=> IF f[1] = "SimpleEnd" THEN f[3] = "TypeSwitchGuard" ELSE Switched(t)
      /\ \A d : Cardinality(Closes(u, d)) =
                  Cardinality(Closes(t, d)) + IF f[1] = "Close" /\ f[2] = d THEN 1 ELSE 0
  BY <1>1, <1>2, OnTop
<1>4. todo = u /\ Stack(u, errors)
  BY <1>1, <1>2 DEF Inv, IInv
<1>5. Stack(t, errors) /\ Fits(f, t, errors)
  BY <1>1, <1>2, <1>4, Push
<1> QED
  BY <1>1, <1>3, <1>4, <1>5

(* There is a finite number of trackers.                                   *)
LEMMA Finite ==
  ASSUME NEW s, AnySeq(s)
  PROVE  \A d : Cardinality(Closes(s, d)) \in Nat
<1>1. Len(s) \in Nat
  BY Length
<1>2. \A d : Closes(s, d) \in SUBSET (1 .. Len(s))
  BY DEF Closes
<1>3. 0 \in Nat
  OBVIOUS
<1> HIDE DEF Closes
<1> QED
  BY <1>1, <1>2, <1>3, Shift

(* An entry that is no tracker counts for nothing.                         *)
LEMMA SplitCounts ==
  ASSUME Inv, todo # << >>, NEW t, t = Tail(todo), todo[1][1] # "Close"
  PROVE  \A d : Cardinality(Closes(todo, d)) = Cardinality(Closes(t, d))
<1>1. PICK f : f = todo[1]
  OBVIOUS
<1>2. /\ AnySeq(t)
      /\ \A d : Cardinality(Closes(todo, d)) =
                  Cardinality(Closes(t, d)) + IF f[1] = "Close" /\ f[2] = d THEN 1 ELSE 0
  BY <1>1, Split
<1>3. f[1] # "Close"
  BY <1>1
<1>4. \A d : Cardinality(Closes(todo, d)) = Cardinality(Closes(t, d)) + 0
  BY <1>2, <1>3
<1> QED
  BY <1>2, <1>4, Finite

(* The entry f becomes steps; whatever else is done, no count and no flag  *)
(* changes.                                                                *)
Values ==
  /\ ret' \in Results /\ kind' \in Kinds /\ guard' \in BOOLEAN /\ isType' \in BOOLEAN
  /\ errors' \in {"none", "reported", "silent"}
  /\ errors' = "none" => errors = "none"

Turn(steps) ==
  /\ Do(steps) /\ Read /\ Values
  /\ needsParens' = needsParens
  /\ guard' => guard \/ Claims(todo[1])
  /\ guard /\ ~ guard' => errors' = "reported"
  /\ errors' = "none" =>
       /\ counts' = counts /\ ret' # "unclosed"
       /\ ret' = "fail" => todo[1][1] = "RangeEnd" /\ steps = << >>

(* The entries that no other step replaces: they undo something.           *)
Ends == {"Close", "SimpleEnd", "AssertionFails"}

(* TypeOK of the next state, from its parts.                               *)
LEMMA TypeKept ==
  ASSUME Inv, Read, Values, needsParens' \in BOOLEAN
  PROVE  TypeOK'
BY DEF Inv, TypeOK, Read, Values, Results, Kinds

(* From the old invariant to the new, for any stack.                       *)
LEMMA Arrive ==
  ASSUME Inv, Read, Values, needsParens' \in BOOLEAN,
         NEW new, new = todo',
         AnySeq(new), Stack(new, errors'), needsParens' = Flag(new),
         guard' => Switched(new),
         new # << >> => Starts(new[1], tok', errors'),
         errors' = "none" =>
           /\ \A d \in Delimiters : counts'[d] = Cardinality(Closes(new, d))
           /\ ret' # "unclosed"
           /\ ret' = "fail" => /\ new # << >>
                               /\ \/ new[1][1] = "SimpleEnd" /\ new[1][3] = "RangeClause"
                                  \/ new[1][1] = "ForHead"
  PROVE  Inv'
<1>1. TypeOK'
  BY TypeKept
<1>2. tok' \in Openers => OpenCount(counts') < MaxOpen[source']
  BY DEF Read
<1>3. IInv'
  BY <1>2 DEF IInv
<1> QED
  BY <1>1, <1>3 DEF Inv

(* The entries that replace a first entry, or the one below it if there    *)
(* are none, are called at a token they may begin at.                      *)
LEMMA TopStarts ==
  ASSUME NEW f, NEW s, NEW t, NEW c, NEW k, AnySeq(t), Stack(t, c), Fits(f, t, c), Good(f, s, c, k),
         NEW new, new = s \o t, new # << >>
  PROVE  Starts(new[1], k, c)
<1>1. Chain(f, s, c) /\ AnySeq(s)
  BY DEF Good, Chain
<1>2. CASE s # << >>
  <2>1. new[1] = s[1]
    BY <1>1, <1>2, ChainStack
  <2> QED
    BY <1>2, <2>1 DEF Good
<1>3. CASE s = << >>
  <2>1. new = t
    BY <1>3, Concat
  <2> QED
    BY <2>1, Unready DEF Fits
<1> QED
  BY <1>2, <1>3

(* The main move: heirs in the place of the first entry.                   *)
LEMMA TurnStep ==
  ASSUME Inv, todo # << >>, todo[1][1] \notin Ends,
         NEW steps, Turn(steps), Good(todo[1], steps, errors', tok')
  PROVE  Step
<1>1. PICK f, t, new, err : /\ f = todo[1] /\ t = Tail(todo) /\ new = todo' /\ err = errors'
  OBVIOUS
<1>2. new = steps \o t
  BY <1>1 DEF Turn, Do
<1>3. /\ todo = <<f>> \o t /\ AnySeq(t) /\ Stack(t, errors) /\ Fits(f, t, errors)
      /\ Flag(todo) <=> f[1] \in Headers \/ Flag(t)
      /\ Switched(todo) <=> Switched(t)
      /\ \A d : Cardinality(Closes(todo, d)) =
                  Cardinality(Closes(t, d)) + IF f[1] = "Close" /\ f[2] = d THEN 1 ELSE 0
  <2>1. f[1] # "SimpleEnd" /\ ~ Clears(f)
    BY <1>1 DEF Ends, Clears
  <2> QED
    BY <1>1, <2>1, Split
<1>4. err = "none" => errors = "none"
  BY <1>1 DEF Turn, Values
<1>5. Stack(t, err) /\ Fits(f, t, err)
  BY <1>3, <1>4, Weaker
<1>6. Chain(f, steps, err) /\ (steps # << >> => Starts(steps[1], tok', err))
  BY <1>1 DEF Good
<1>7. /\ AnySeq(new) /\ Stack(new, err)
      /\ Flag(new) <=> f[1] \in Headers \/ Flag(t)
      /\ Switched(new) <=> Switched(t)
      /\ \A d : Cardinality(Closes(new, d)) = Cardinality(Closes(t, d))
      /\ steps # << >> => new[1] = steps[1] /\ new # << >>
  BY <1>2, <1>3, <1>5, <1>6, ChainStack
<1>8. needsParens' \in BOOLEAN /\ needsParens' = Flag(new)
  <2>1. needsParens' = needsParens /\ needsParens \in BOOLEAN
    BY DEF Turn, Inv, TypeOK
  <2>2. needsParens = Flag(todo)
    BY DEF Inv, IInv
  <2>3. Flag(new) = Flag(todo)
    <3>1. Flag(new) \in BOOLEAN /\ Flag(todo) \in BOOLEAN
      BY DEF Flag
    <3> QED
      BY <1>3, <1>7, <3>1
  <2> QED
    BY <2>1, <2>2, <2>3
<1>9. guard' => Switched(new)
  <2>1. Claims(f) => Switched(t)
    BY <1>3 DEF Fits
  <2>2. guard => Switched(todo)
    BY DEF Inv, IInv
  <2>3. guard' => guard \/ Claims(f)
    BY <1>1 DEF Turn
  <2> QED
    BY <1>3, <1>7, <2>1, <2>2, <2>3
<1>10. ASSUME err = "none"
       PROVE  /\ \A d \in Delimiters : counts'[d] = Cardinality(Closes(new, d))
              /\ ret' # "unclosed"
              /\ ret' = "fail" => /\ new # << >>
                                  /\ \/ new[1][1] = "SimpleEnd" /\ new[1][3] = "RangeClause"
                                     \/ new[1][1] = "ForHead"
  <2>1. counts' = counts /\ ret' # "unclosed" /\ (ret' = "fail" => f[1] = "RangeEnd" /\ steps = << >>)
    BY <1>1, <1>10 DEF Turn
  <2>2. \A d \in Delimiters : counts[d] = Cardinality(Closes(t, d))
    <3>1. \A d \in Delimiters : counts[d] = Cardinality(Closes(todo, d))
      BY <1>4, <1>10 DEF Inv, IInv
    <3>2. \A d : Cardinality(Closes(t, d)) \in Nat
      <4>1. Len(t) \in Nat
        BY <1>3, Length
      <4>2. \A d : Closes(t, d) \in SUBSET (1 .. Len(t))
        BY DEF Closes
      <4>3. 0 \in Nat
        OBVIOUS
      <4> HIDE DEF Closes
      <4> QED
        BY <4>1, <4>2, <4>3, Shift
    <3>3. f[1] # "Close"
      BY <1>1 DEF Ends
    <3>4. \A d : Cardinality(Closes(todo, d)) = Cardinality(Closes(t, d))
      BY <1>3, <3>2, <3>3
    <3> QED
      BY <3>1, <3>4
  <2>3. \A d \in Delimiters : counts'[d] = Cardinality(Closes(new, d))
    BY <1>7, <2>1, <2>2
  <2>4. steps = << >> => new = t
    BY <1>2, <1>3, Concat
  <2>5. ASSUME ret' = "fail"
        PROVE  new # << >> /\ new[1][1] = "SimpleEnd" /\ new[1][3] = "RangeClause"
    <3>1. InRange(f)
      BY <2>1, <2>5 DEF InRange
    <3> QED
      BY <1>5, <1>10, <2>1, <2>4, <2>5, <3>1 DEF Fits
  <2> QED
    BY <2>1, <2>3, <2>5
<1>11. new # << >> => Starts(new[1], tok', err)
  <2>1. steps = << >> => new = t
    BY <1>2, <1>3, Concat
  <2>2. t # << >> => t[1][1] \notin Ready(err)
    BY <1>5 DEF Fits
  <2> QED
    BY <1>6, <1>7, <2>1, <2>2, Unready
<1>12. Inv'
  <2>1. Read /\ Values
    BY DEF Turn
  <2>2. Stack(new, errors')
    BY <1>1, <1>7
  <2> QED
    BY <1>1, <1>7, <1>8, <1>9, <1>10, <1>11, <2>1, <2>2, Arrive
<1>13. Guarded
  BY DEF Guarded, Turn
<1> QED
  BY <1>12, <1>13 DEF Step

(* A plain step changes no result, no guard and no flag.                   *)
LEMMA Calm ==
  ASSUME Inv, Plain
  PROVE  /\ ret' = "ok" /\ kind' = "Normal" /\ guard' = guard /\ isType' = isType
         /\ needsParens' = needsParens
         /\ ret' \in Results /\ kind' \in Kinds /\ guard' \in BOOLEAN /\ isType' \in BOOLEAN
BY DEF Inv, TypeOK, Plain, Clear, Results, Kinds

(* The common forms of it: nothing is consumed, ...                        *)
LEMMA ContinueStep ==
  ASSUME Inv, todo # << >>, todo[1][1] \notin Ends,
         NEW steps, Continue(steps), Good(todo[1], steps, errors, tok)
  PROVE  Step
<1>1. Read /\ counts' = counts /\ tok' = tok /\ errors' = errors
  BY Stays DEF Continue, Quiet
<1>2. Turn(steps)
  BY <1>1, Calm DEF Continue, Turn, Values, Inv, TypeOK
<1> QED
  BY <1>1, <1>2, TurnStep

(* ... an error is reported, ...                                           *)
LEMMA ComplainStep ==
  ASSUME Inv, todo # << >>, todo[1][1] \notin Ends,
         NEW steps, Complain(steps), Good(todo[1], steps, "reported", tok)
  PROVE  Step
<1>1. Read /\ counts' = counts /\ tok' = tok /\ errors' = "reported"
  BY Stays DEF Complain, Diag
<1>2. Turn(steps)
  BY <1>1, Calm DEF Complain, Turn, Values
<1> QED
  BY <1>1, <1>2, TurnStep

(* The tokens that are counted.                                            *)
Brackets == {"l_paren", "r_paren", "l_square", "r_square", "l_brace", "r_brace"}

(* A token that is no bracket is consumed without a count.                 *)
LEMMA BracketsAre ==
  /\ Openers = {"l_paren", "l_square", "l_brace"}
  /\ Closers = {"r_paren", "r_square", "r_brace"}
  /\ Openers \cup Closers = Brackets
<1>1. /\ Opener["paren"] = "l_paren" /\ Opener["square"] = "l_square" /\ Opener["brace"] = "l_brace"
      /\ Closer["paren"] = "r_paren" /\ Closer["square"] = "r_square" /\ Closer["brace"] = "r_brace"
  BY DEF Opener, Closer
<1> HIDE DEF Opener, Closer
<1>2. Openers = {"l_paren", "l_square", "l_brace"}
  BY <1>1 DEF Openers, Delimiters
<1>3. Closers = {"r_paren", "r_square", "r_brace"}
  BY <1>1 DEF Closers, Delimiters
<1> QED
  BY <1>2, <1>3 DEF Brackets

(* ... one token is consumed that is no bracket, ...                       *)
LEMMA AdvanceStep ==
  ASSUME Inv, todo # << >>, todo[1][1] \notin Ends,
         NEW steps, Advance(steps), Good(todo[1], steps, errors, tok'),
         errors = "none" => tok \notin Brackets
  PROVE  Step
<1>1. Read /\ (errors = "none" => counts' = counts) /\ errors' = errors
  BY Eats, BracketsAre DEF Advance, Quiet
<1>2. Turn(steps)
  BY <1>1, Calm DEF Advance, Turn, Values, Inv, TypeOK
<1> QED
  BY <1>1, <1>2, TurnStep

(* ... the same with a report, ...                                         *)
LEMMA ConsumeStep ==
  ASSUME Inv, todo # << >>, todo[1][1] \notin Ends,
         NEW steps, Eat, Diag, Do(steps), Plain, Good(todo[1], steps, "reported", tok')
  PROVE  Step
<1>1. Read /\ errors' = "reported"
  BY Eats DEF Diag
<1>2. Turn(steps)
  BY <1>1, Calm DEF Turn, Values
<1> QED
  BY <1>1, <1>2, TurnStep

(* ... and the function fails.                                             *)
LEMMA FailStep ==
  ASSUME Inv, todo # << >>, todo[1][1] \notin Ends \cup Headers, Fail
  PROVE  Step
<1>1. Read /\ counts' = counts /\ tok' = tok /\ errors' = "reported"
  BY Stays DEF Fail, Diag
<1>2. Turn(<< >>)
  BY <1>1 DEF Fail, Answer, Turn, Values, Inv, TypeOK, Results, Kinds
<1>3. Good(todo[1], << >>, errors', tok')
  BY Good0
<1> QED
  BY <1>1, <1>2, <1>3, TurnStep

-----------------------------------------------------------------------------
(* Trackers: an entry x inside a pair of delimiters, its Close, and what   *)
(* comes after it.                                                         *)

Inside(f, x) ==
  /\ Typed(x) /\ x[1] \notin Ends \cup Headers \cup Ready("none")
  /\ Claims(x) => Claims(f)
  /\ ~ InRange(x) /\ ~ OfFor(x) /\ ~ Failing(x)

(* The stack new consists of the tracker cl on top of t, and other entries. *)
Tracked(new, cl, t, err) ==
  /\ AnySeq(new) /\ Stack(new, err) /\ new # << >>
  /\ Flag(new) <=> ~ Clears(cl) /\ Flag(t)
  /\ Refused(new) <=> ~ Clears(cl) \/ Refused(t)
  /\ Switched(new) <=> Switched(t)
  /\ \A d : Cardinality(Closes(new, d)) =
              Cardinality(Closes(t, d)) + IF cl[2] = d THEN 1 ELSE 0

(* A tracker, what comes after it, and the rest of the stack.              *)
LEMMA Closed ==
  ASSUME NEW f, NEW t, NEW err, AnySeq(t), Stack(t, err), Fits(f, t, err), f[1] \notin Headers,
         NEW after, Good(f, after, err, "eof"),
         NEW cl, cl[1] = "Close", Typed(cl), cl[3] = Flag(t),
         NEW new, new = <<cl>> \o (after \o t)
  PROVE  Tracked(new, cl, t, err) /\ new[1] = cl
<1>1. PICK u : u = after \o t
  OBVIOUS
<1>2. Chain(f, after, err) /\ (after # << >> => Starts(after[1], "eof", err))
  BY DEF Good
<1>3. /\ AnySeq(u) /\ Stack(u, err)
      /\ Flag(u) <=> Flag(t)
      /\ Refused(u) <=> Refused(t)
      /\ Switched(u) <=> Switched(t)
      /\ \A d : Cardinality(Closes(u, d)) = Cardinality(Closes(t, d))
      /\ after # << >> => u[1] = after[1]
  BY <1>1, <1>2, ChainStack
<1>4. u # << >> => u[1][1] \notin Ready(err)
  <2>1. t # << >> => t[1][1] \notin Ready(err)
    BY DEF Fits
  <2>2. after = << >> => u = t
    BY <1>1, Concat
  <2>3. \A e : Starts(e, "eof", err) => e[1] \notin Ready(err)
    BY DEF Starts, Ready, AtBrace, AtParen, DeclKeywords, BinaryOps, ImportSpecStart
  <2> QED
    BY <1>2, <1>3, <2>1, <2>2, <2>3
<1>5. Fits(cl, u, err)
  <2>1. cl[3] = Flag(u)
    BY <1>3 DEF Flag
  <2> QED
    BY <1>4, <2>1 DEF Fits, Headers, Levels, InPair, Claims, MayGuard, Failing, InRange, OfFor
<1>6. AnySeq(new) /\ Stack(new, err) /\ new[1] = cl /\ new # << >>
  BY <1>1, <1>3, <1>5, Push
<1>7. /\ Flag(new) <=> ~ Clears(cl) /\ Flag(u)
      /\ Refused(new) <=> ~ Clears(cl) \/ Refused(u)
      /\ Switched(new) <=> Switched(u)
      /\ \A d : Cardinality(Closes(new, d)) =
                  Cardinality(Closes(u, d)) + IF cl[2] = d THEN 1 ELSE 0
  <2>1. cl[1] \notin Headers /\ cl[1] # "SimpleEnd"
    BY DEF Headers
  <2> QED
    BY <1>1, <1>3, <2>1, OnTop
<1>8. Tracked(new, cl, t, err)
  BY <1>3, <1>6, <1>7 DEF Tracked
<1> QED
  BY <1>3, <1>6, <1>7, <1>8

(* The same under the entry inside the tracker.                            *)
LEMMA Enclosed ==
  ASSUME NEW f, NEW t, NEW err, AnySeq(t), Stack(t, err), Fits(f, t, err), f[1] \notin Headers,
         NEW after, Good(f, after, err, "eof"),
         NEW cl, cl[1] = "Close", Typed(cl), cl[3] = Flag(t),
         NEW x, Inside(f, x),
         NEW new, new = <<x>> \o (<<cl>> \o (after \o t))
  PROVE  Tracked(new, cl, t, err) /\ new[1] = x
<1>1. PICK u : u = <<cl>> \o (after \o t)
  OBVIOUS
<1>2. Tracked(u, cl, t, err)
  BY <1>1, Closed
<1>3. u[1] = cl
  BY <1>1, Closed
<1>4. Fits(x, u, err)
  <2>1. Claims(f) => Switched(t)
    BY DEF Fits
  <2>2. cl[1] \notin Ready(err)
    BY DEF Ready, AtBrace, AtParen
  <2> QED
    BY <1>2, <1>3, <2>1, <2>2 DEF Tracked, Fits, Inside, Ends
<1>5. AnySeq(new) /\ Stack(new, err) /\ new[1] = x /\ new # << >>
  BY <1>1, <1>2, <1>4, Push DEF Tracked
<1>6. x[1] \notin Headers \cup {"Close", "SimpleEnd"} /\ ~ Clears(x)
  BY DEF Inside, Ends, Clears
<1>7. /\ Flag(new) <=> Flag(u)
      /\ Refused(new) <=> Refused(u)
      /\ Switched(new) <=> Switched(u)
      /\ \A d : Cardinality(Closes(new, d)) = Cardinality(Closes(u, d)) + 0
  BY <1>1, <1>2, <1>6, OnTop DEF Tracked
<1>8. \A d : Cardinality(Closes(u, d)) \in Nat
  <2>1. Len(u) \in Nat
    BY <1>2, Length DEF Tracked
  <2>2. \A d : Closes(u, d) \in SUBSET (1 .. Len(u))
    BY DEF Closes
  <2>3. 0 \in Nat
    OBVIOUS
  <2> HIDE DEF Closes
  <2> QED
    BY <2>1, <2>2, <2>3, Shift
<1>9. \A d : Cardinality(Closes(new, d)) = Cardinality(Closes(u, d))
  BY <1>7, <1>8
<1> QED
  BY <1>2, <1>5, <1>7, <1>9 DEF Tracked

(* The same under the skip of a tracker at the depth limit.                *)
LEMMA SkipOver ==
  ASSUME NEW u, NEW cl, NEW t, Tracked(u, cl, t, "reported"),
         u[1][1] \notin Ready("none"), NEW new, new = <<SkipToEnd>> \o u
  PROVE  Tracked(new, cl, t, "reported")
<1>1. PICK e : e = SkipToEnd
  OBVIOUS
<1>2. e[1] = "SkipUntil"
  BY <1>1 DEF SkipToEnd, Skip
<1>3. Fits(e, u, "reported")
  BY <1>2, StillUnready DEF Fits, Typed, Headers, Levels, Claims, MayGuard, InPair
<1>4. AnySeq(u) /\ Stack(u, "reported")
  BY DEF Tracked
<1>5. AnySeq(new) /\ Stack(new, "reported") /\ new # << >>
  BY <1>1, <1>3, <1>4, Push
<1>6. e[1] \notin Headers \cup {"Close", "SimpleEnd"} /\ ~ Clears(e)
  BY <1>2 DEF Headers, Clears
<1>7. /\ Flag(new) <=> Flag(u)
      /\ Refused(new) <=> Refused(u)
      /\ Switched(new) <=> Switched(u)
      /\ \A d : Cardinality(Closes(new, d)) = Cardinality(Closes(u, d)) + 0
  BY <1>1, <1>4, <1>6, OnTop
<1>8. \A d : Cardinality(Closes(new, d)) = Cardinality(Closes(u, d))
  BY <1>4, <1>7, Finite
<1> QED
  BY <1>5, <1>7, <1>8 DEF Tracked

(* From the old invariant to the new, for a stack with a tracker more.     *)
LEMMA TrackedArrive ==
  ASSUME Inv, todo # << >>, todo[1][1] \notin Ends \cup Headers, Read, Values, guard' = guard,
         NEW t, t = Tail(todo), NEW new, new = todo', NEW cl, cl[1] = "Close",
         Tracked(new, cl, t, errors'),
         needsParens' = IF Clears(cl) THEN FALSE ELSE needsParens,
         new[1][1] \notin Ready("none"),
         errors' = "none" =>
           /\ \A d \in Delimiters : counts'[d] = counts[d] + IF cl[2] = d THEN 1 ELSE 0
           /\ ret' = "ok"
  PROVE  Step
<1>1. PICK f : f = todo[1]
  OBVIOUS
<1>2. f[1] \notin Headers \cup {"Close", "SimpleEnd"} /\ ~ Clears(f)
  BY <1>1 DEF Ends, Clears
<1>3. AnySeq(t) /\ (Flag(todo) <=> Flag(t)) /\ (Switched(todo) <=> Switched(t))
  BY <1>1, <1>2, Split
<1>4. \A d : Cardinality(Closes(todo, d)) = Cardinality(Closes(t, d))
  <2>1. todo[1][1] # "Close"
    BY DEF Ends
  <2> QED
    BY <2>1, SplitCounts
<1>5. needsParens' \in BOOLEAN /\ needsParens' = Flag(new)
  <2>1. needsParens \in BOOLEAN /\ needsParens = Flag(todo)
    BY DEF Inv, TypeOK, IInv
  <2>2. Flag(new) <=> ~ Clears(cl) /\ Flag(t)
    BY DEF Tracked
  <2>3. Flag(new) \in BOOLEAN /\ Flag(t) \in BOOLEAN /\ Flag(todo) \in BOOLEAN
    BY DEF Flag
  <2>4. CASE Clears(cl)
    BY <2>2, <2>3, <2>4
  <2>5. CASE ~ Clears(cl)
    BY <1>3, <2>1, <2>2, <2>3, <2>5
  <2> QED
    BY <2>4, <2>5
<1>6. guard' => Switched(new)
  BY <1>3 DEF Inv, IInv, Tracked
<1>7. ASSUME errors' = "none"
      PROVE  \A d \in Delimiters : counts'[d] = Cardinality(Closes(new, d))
  <2>1. errors = "none"
    BY <1>7 DEF Values
  <2>2. \A d \in Delimiters : counts[d] = Cardinality(Closes(t, d))
    BY <1>4, <2>1 DEF Inv, IInv
  <2> QED
    BY <1>7, <2>2 DEF Tracked
<1>8. AnySeq(new) /\ Stack(new, errors')
  BY DEF Tracked
<1>9. Starts(new[1], tok', errors')
  BY Unready
<1>10. Values /\ (errors' = "none" => ret' = "ok")
  OBVIOUS
<1>11. Inv'
  BY <1>5, <1>6, <1>7, <1>8, <1>9, <1>10, Arrive
<1> QED
  BY <1>11 DEF Step, Guarded

(* A tracker whose opener is consumed: its count is one more, as is that   *)
(* of the stack.                                                           *)
LEMMA EnteredStep ==
  ASSUME Inv, todo # << >>, todo[1][1] \notin Ends \cup Headers, NEW d \in Delimiters,
         NEW t, t = Tail(todo), NEW cl, cl[1] = "Close", cl[2] = d, cl[3] = needsParens,
         cl[5] \in BOOLEAN, NEW x, NEW after,
         tok = Opener[d], Eat, Quiet, Clear, UNCHANGED <<guard, isType>>,
         needsParens' = IF cl[5] THEN FALSE ELSE needsParens,
         NEW new, new = <<x>> \o (<<cl>> \o (after \o t)), todo' = new,
         Good(todo[1], after, errors, "eof"), Inside(todo[1], x)
  PROVE  Step
<1>1. PICK f : f = todo[1]
  OBVIOUS
<1>2. AnySeq(t) /\ Stack(t, errors) /\ Fits(f, t, errors) /\ (Flag(todo) <=> Flag(t))
  <2>1. f[1] \notin Headers /\ ~ Clears(f)
    BY <1>1 DEF Ends, Clears
  <2> QED
    BY <1>1, <2>1, Split
<1>3. cl[3] = Flag(t) /\ cl[3] \in BOOLEAN
  <2>1. needsParens \in BOOLEAN /\ needsParens = Flag(todo)
    BY DEF Inv, TypeOK, IInv
  <2>2. Flag(todo) \in BOOLEAN /\ Flag(t) \in BOOLEAN
    BY DEF Flag
  <2> QED
    BY <1>2, <2>1, <2>2
<1>4. Typed(cl) /\ (Clears(cl) <=> cl[5])
  BY <1>3 DEF Typed, MayGuard, Clears
<1>5. f[1] \notin Headers /\ Inside(f, x) /\ Good(f, after, errors, "eof")
  BY <1>1
<1>6. Tracked(new, cl, t, errors)
  BY <1>2, <1>3, <1>4, <1>5, Enclosed
<1>7. new[1] = x
  BY <1>2, <1>3, <1>4, <1>5, Enclosed
<1>8. Read /\ guard' = guard /\ errors' = errors /\ ret' = "ok"
  BY Eats DEF Quiet, Clear
<1>9. Values
  BY <1>8 DEF Clear, Values, Inv, TypeOK, Results, Kinds
<1>10. \A k \in Delimiters : counts'[k] = counts[k] + IF cl[2] = k THEN 1 ELSE 0
  <2>1. counts' = Consumed(counts)
    BY Eats
  <2>2. \A k \in Delimiters : tok # Closer[k] /\ (tok = Opener[k] <=> d = k)
    BY DEF Delimiters, Opener, Closer
  <2>3. \A k \in Delimiters : counts[k] \in Nat
    BY ParserAssumption DEF Inv, TypeOK
  <2> QED
    BY <2>1, <2>2, <2>3 DEF Consumed
<1>11. new[1][1] \notin Ready("none")
  BY <1>7 DEF Inside
<1>12. needsParens' = IF Clears(cl) THEN FALSE ELSE needsParens
  BY <1>4
<1>13. Tracked(new, cl, t, errors')
  BY <1>6, <1>8
<1> QED
  BY <1>8, <1>9, <1>10, <1>11, <1>12, <1>13, TrackedArrive

(* A sequence of three parts on a stack, part by part.                     *)
LEMMA Assembled ==
  ASSUME NEW p, NEW q, NEW after, NEW t, AnySeq(p), AnySeq(q), AnySeq(after), AnySeq(t)
  PROVE  /\ (p \o q \o after) \o t = p \o (q \o (after \o t))
         /\ AnySeq(p \o (q \o (after \o t))) /\ AnySeq(p \o q \o after)
<1>1. AnySeq(p \o q) /\ AnySeq(after \o t)
  BY Concat
<1>2. AnySeq((p \o q) \o after) /\ AnySeq(q \o (after \o t))
  BY <1>1, Concat
<1>3. ((p \o q) \o after) \o t = (p \o q) \o (after \o t)
  <2>1. PICK r : r = p \o q
    OBVIOUS
  <2>2. AnySeq(r)
    BY <1>1, <2>1
  <2>3. (r \o after) \o t = r \o (after \o t)
    BY <2>2, Associative
  <2> QED
    BY <2>1, <2>3
<1>4. (p \o q) \o (after \o t) = p \o (q \o (after \o t))
  BY <1>1, Associative
<1>5. AnySeq(p \o (q \o (after \o t)))
  BY <1>2, Concat
<1> QED
  BY <1>2, <1>3, <1>4, <1>5

(* consumeOpen: the opener is consumed, is not there, or is one too many;  *)
(* what is inside is parsed in every case.                                 *)
LEMMA OpenStep ==
  ASSUME Inv, todo # << >>, todo[1][1] \notin Ends \cup Headers,
         NEW d \in Delimiters, NEW mode, NEW x, NEW after, OpenAs(d, mode, <<x>>, after),
         Good(todo[1], after, errors, "eof"), Good(todo[1], after, "reported", "eof"),
         Inside(todo[1], x),
         errors = "none" => tok = Opener[d]
  PROVE  Step
<1>1. PICK f, t, np : f = todo[1] /\ t = Tail(todo) /\ np = needsParens
  OBVIOUS
<1>2. PICK yes, no : /\ yes = <<"Close", d, np, mode, TRUE>>
                     /\ no = <<"Close", d, np, mode, FALSE>>
  OBVIOUS
<1> DEFINE u(cl) == <<x>> \o (<<cl>> \o (after \o t))
           tracked(cl) == <<x>> \o <<cl>> \o after
<1>3. AnySeq(t) /\ Stack(t, errors) /\ Fits(f, t, errors) /\ (Flag(todo) <=> Flag(t))
  <2>1. f[1] \notin Headers /\ ~ Clears(f)
    BY <1>1 DEF Ends, Clears
  <2> QED
    BY <1>1, <2>1, Split
<1>4. Stack(t, "reported") /\ Fits(f, t, "reported")
  BY <1>3, Weaker
<1>5. np = Flag(t) /\ np \in BOOLEAN
  <2>1. np \in BOOLEAN /\ np = Flag(todo)
    BY <1>1 DEF Inv, TypeOK, IInv
  <2>2. Flag(todo) \in BOOLEAN /\ Flag(t) \in BOOLEAN
    BY DEF Flag
  <2> QED
    BY <1>3, <2>1, <2>2
<1>6. /\ yes[1] = "Close" /\ yes[2] = d /\ yes[3] = Flag(t) /\ Typed(yes) /\ Clears(yes)
      /\ no[1] = "Close" /\ no[2] = d /\ no[3] = Flag(t) /\ Typed(no) /\ ~ Clears(no)
  <2>1. /\ yes[1] = "Close" /\ yes[2] = d /\ yes[3] = np /\ yes[5] = TRUE
        /\ no[1] = "Close" /\ no[2] = d /\ no[3] = np /\ no[5] = FALSE
    BY <1>2
  <2>2. Typed(yes) /\ Typed(no)
    BY <1>5, <2>1 DEF Typed, MayGuard
  <2> QED
    BY <1>5, <2>1, <2>2 DEF Clears
<1>7. AnySeq(after)
  BY DEF Good, Chain
<1>8. ASSUME NEW cl
      PROVE  tracked(cl) \o t = u(cl) /\ AnySeq(tracked(cl)) /\ AnySeq(u(cl))
  <2>1. PICK p, q : p = <<x>> /\ q = <<cl>>
    OBVIOUS
  <2>2. AnySeq(p) /\ AnySeq(q) /\ AnySeq(after) /\ AnySeq(t)
    BY <1>3, <1>7, <2>1, AnySeqs
  <2>3. /\ (p \o q \o after) \o t = p \o (q \o (after \o t))
        /\ AnySeq(p \o (q \o (after \o t))) /\ AnySeq(p \o q \o after)
    BY ONLY <2>2, Assembled
  <2>4. tracked(cl) = p \o q \o after /\ u(cl) = p \o (q \o (after \o t))
    BY <2>1
  <2> HIDE DEF tracked, u
  <2> QED
    BY <2>3, <2>4
<1>9. OpenAs(d, mode, <<x>>, after) <=> ConsumeOpen(d, tracked(yes), tracked(no))
  BY <1>1, <1>2 DEF OpenAs, CloseAs
<1> HIDE DEF u, tracked
<1>10. f[1] \notin Headers /\ Inside(f, x)
  BY <1>1
<1>11. ASSUME NEW cl \in {yes, no}, NEW err \in {errors, "reported"}
       PROVE  Tracked(u(cl), cl, t, err) /\ u(cl)[1] = x
  <2>1. Stack(t, err) /\ Fits(f, t, err) /\ Good(f, after, err, "eof")
    BY <1>1, <1>3, <1>4, <1>11
  <2>2. PICK w : w = u(cl)
    OBVIOUS
  <2>3. w = <<x>> \o (<<cl>> \o (after \o t))
    BY <2>2 DEF u
  <2>4. cl[1] = "Close" /\ Typed(cl) /\ cl[3] = Flag(t)
    BY <1>6
  <2>5. Tracked(w, cl, t, err)
    BY <1>3, <1>10, <2>1, <2>3, <2>4, Enclosed
  <2>6. w[1] = x
    BY <1>3, <1>10, <2>1, <2>3, <2>4, Enclosed
  <2> QED
    BY <2>2, <2>5, <2>6
<1>12. CASE tok # Opener[d] /\ Continue(tracked(no))
  <2>1. Read /\ Values /\ guard' = guard /\ needsParens' = needsParens /\ errors' = errors
    BY <1>12, Stays, Calm DEF Continue, Quiet, Values, Inv, TypeOK
  <2>2. todo' = u(no)
    BY <1>1, <1>8, <1>12 DEF Continue, Do
  <2>3. Tracked(u(no), no, t, errors') /\ no[1] = "Close" /\ ~ Clears(no)
    BY <1>6, <1>11, <2>1
  <2>4. errors' # "none"
    BY <1>12, <2>1
  <2>5. u(no)[1][1] \notin Ready("none")
    BY <1>10, <1>11 DEF Inside
  <2> QED
    BY <1>1, <2>1, <2>2, <2>3, <2>4, <2>5, TrackedArrive
<1>13. CASE /\ tok = Opener[d] /\ counts[d] < MaxDepth
            /\ Eat /\ Quiet /\ Do(tracked(yes)) /\ Clear /\ Opened /\ UNCHANGED <<guard, isType>>
  <2>1. todo' = <<x>> \o (<<yes>> \o (after \o t))
    BY <1>1, <1>8, <1>13 DEF Do, u
  <2>2. needsParens' = FALSE /\ yes[5] = TRUE /\ yes[3] = needsParens
    BY <1>1, <1>2, <1>13 DEF Opened
  <2>3. PICK w : w = <<x>> \o (<<yes>> \o (after \o t))
    OBVIOUS
  <2> QED
    BY <1>1, <1>6, <1>13, <2>1, <2>2, <2>3, EnteredStep
<1>14. CASE Complain(<<SkipToEnd>> \o tracked(no))
  <2>1. Read /\ Values /\ guard' = guard /\ needsParens' = needsParens /\ errors' = "reported"
    BY <1>14, Stays, Calm DEF Complain, Diag, Values
  <2>2. todo' = <<SkipToEnd>> \o u(no)
    <3>1. todo' = (<<SkipToEnd>> \o tracked(no)) \o t
      BY <1>1, <1>14 DEF Complain, Do
    <3>2. PICK p, q : p = <<SkipToEnd>> /\ q = tracked(no)
      OBVIOUS
    <3>3. AnySeq(p)
      BY <3>2, AnySeqs
    <3>4. AnySeq(q) /\ q \o t = u(no)
      BY <1>8, <3>2
    <3>5. AnySeq(q) /\ AnySeq(t)
      BY <1>3, <3>4
    <3>6. (p \o q) \o t = p \o (q \o t)
      BY ONLY <3>3, <3>5, Associative
    <3> QED
      BY <3>1, <3>2, <3>4, <3>6
  <2>3. Tracked(u(no), no, t, "reported") /\ no[1] = "Close" /\ ~ Clears(no)
    BY <1>6, <1>11
  <2>4. PICK w : w = <<SkipToEnd>> \o u(no)
    OBVIOUS
  <2>5. u(no)[1][1] \notin Ready("none")
    BY <1>10, <1>11 DEF Inside
  <2>6. Tracked(w, no, t, "reported")
    BY <2>3, <2>4, <2>5, SkipOver
  <2>7. w[1][1] \notin Ready("none")
    <3>1. PICK p, q, skip : skip = SkipToEnd /\ p = <<skip>> /\ q = u(no)
      OBVIOUS
    <3>2. AnySeq(p) /\ AnySeq(q) /\ w = p \o q /\ p[1] = skip /\ Len(p) = 1
      BY <1>8, <2>4, <3>1, AnySeqs
    <3>3. 1 \in 1 .. Len(p)
      BY <3>2
    <3>4. w[1] = skip
      BY ONLY <3>2, <3>3, Concat
    <3>5. skip[1] = "SkipUntil"
      BY <3>1 DEF SkipToEnd, Skip
    <3> QED
      BY <3>4, <3>5 DEF Ready, AtBrace, AtParen
  <2> QED
    BY <1>1, <2>1, <2>2, <2>3, <2>4, <2>6, <2>7, TrackedArrive
<1> QED
  BY <1>9, <1>12, <1>13, <1>14 DEF ConsumeOpen

-----------------------------------------------------------------------------
(* Closing a tracker *)

LEMMA CloseStep ==
  ASSUME Inv, ConsumeClose
  PROVE  Step
<1>1. PICK f, t, new, err : f = todo[1] /\ t = Tail(todo) /\ new = todo' /\ err = errors'
  OBVIOUS
<1>2. todo # << >> /\ f[1] = "Close"
  BY <1>1 DEF ConsumeClose, At
<1>3. /\ AnySeq(t) /\ Stack(t, errors) /\ Fits(f, t, errors)
      /\ (Switched(todo) <=> Switched(t))
  BY <1>1, <1>2, Split
<1>4. \A d : Cardinality(Closes(todo, d)) = Cardinality(Closes(t, d)) + IF f[2] = d THEN 1 ELSE 0
  <2>1. \A d : Cardinality(Closes(todo, d)) =
                 Cardinality(Closes(t, d)) + IF f[1] = "Close" /\ f[2] = d THEN 1 ELSE 0
    BY <1>1, <1>2, Split
  <2> QED
    BY <1>2, <2>1
<1>5. f[2] \in Delimiters /\ f[3] \in BOOLEAN /\ f[3] = Flag(t)
  BY <1>2, <1>3 DEF Fits, Typed
<1>6. /\ needsParens' = f[3] /\ kind' = "Normal" /\ guard' = guard /\ isType' = isType /\ ret' = ret
      /\ \/ tok = Closer[f[2]] /\ Eat /\ Quiet /\ Do(<< >>)
         \/ /\ tok # Closer[f[2]] /\ Stay /\ Diag
            /\ Do(<<Skip({Closer[f[2]]}, TRUE, TRUE),
                    <<"LateClose", f[2], IF f[4] = "keep" THEN ret ELSE "unclosed">>>>)
  BY <1>1 DEF ConsumeClose, Restore, Arg
<1>7. guard' => Switched(t)
  BY <1>3, <1>6 DEF Inv, IInv
<1>8. Guarded
  BY <1>6 DEF Guarded
<1>9. CASE tok = Closer[f[2]] /\ Eat /\ Quiet /\ Do(<< >>)
  <2>1. Read /\ counts' = Consumed(counts) /\ errors' = errors
    BY <1>9, Eats DEF Quiet
  <2>2. Values
    BY <1>6, <2>1 DEF Values, Inv, TypeOK, Results, Kinds
  <2>3. new = t
    BY <1>1, <1>3, <1>9, Concat DEF Do
  <2>4. ASSUME errors' = "none"
        PROVE  /\ \A d \in Delimiters : counts'[d] = Cardinality(Closes(t, d))
               /\ ret' # "unclosed" /\ ret' # "fail"
    <3>1. \A d \in Delimiters : counts[d] = Cardinality(Closes(t, d)) + IF f[2] = d THEN 1 ELSE 0
      BY <1>4, <2>1, <2>4 DEF Inv, IInv
    <3>2. \A d \in Delimiters : tok # Opener[d] /\ (tok = Closer[d] <=> f[2] = d)
      BY <1>5, <1>9 DEF Delimiters, Opener, Closer
    <3>3. \A d : Cardinality(Closes(t, d)) \in Nat
      BY <1>3, Finite
    <3>4. \A d \in Delimiters : counts'[d] = Cardinality(Closes(t, d))
      BY <2>1, <3>1, <3>2, <3>3 DEF Consumed
    <3>5. ret # "unclosed" /\ ret # "fail"
      BY <1>1, <1>2, <2>1, <2>4 DEF Inv, IInv
    <3> QED
      BY <1>6, <3>4, <3>5
  <2>5. Stack(t, errors') /\ (t # << >> => Starts(t[1], tok', errors'))
    BY <1>3, <2>1, Unready DEF Fits
  <2>6. Inv'
    BY <1>1, <1>3, <1>5, <1>6, <1>7, <2>1, <2>2, <2>3, <2>4, <2>5, Arrive
  <2> QED
    BY <1>8, <2>6 DEF Step
<1>10. CASE /\ tok # Closer[f[2]] /\ Stay /\ Diag
            /\ Do(<<Skip({Closer[f[2]]}, TRUE, TRUE),
                    <<"LateClose", f[2], IF f[4] = "keep" THEN ret ELSE "unclosed">>>>)
  <2>1. Read /\ errors' = "reported"
    BY <1>10, Stays DEF Diag
  <2>2. Values
    BY <1>6, <2>1 DEF Values, Inv, TypeOK, Results, Kinds
  <2>3. PICK a, b, r : /\ a = Skip({Closer[f[2]]}, TRUE, TRUE) /\ b = <<"LateClose", f[2], r>>
                       /\ r = IF f[4] = "keep" THEN ret ELSE "unclosed"
    <3>1. \E r : r = IF f[4] = "keep" THEN ret ELSE "unclosed"
      OBVIOUS
    <3> QED
      BY <3>1
  <2>4. r \in Results
    BY <2>3 DEF Inv, TypeOK, Results
  <2>5. a[1] = "SkipUntil" /\ b[1] = "LateClose" /\ b[2] = f[2] /\ b[3] = r
    BY <2>3 DEF Skip
  <2>6. Good(f, <<a, b>>, "reported", tok)
    <3>1. Inner(f, a, "reported") /\ Final(f, b, "reported")
      BY <1>2, <1>5, <2>4, <2>5
         DEF Inner, Final, Heir, Takes, OnAny, Typed, Claims, MayGuard, Levels, Headers, InPair,
             InRange, OfFor
    <3>2. a[1] \notin Ready("reported") /\ b[1] \notin Ready("reported")
      BY <2>5 DEF Ready, AtBrace, AtParen
    <3>3. Starts(a, tok, "reported")
      BY <3>2, Unready
    <3> QED
      BY <3>1, <3>2, <3>3, Good2
  <2>7. PICK s : s = <<a, b>>
    OBVIOUS
  <2>8. new = s \o t
    BY <1>1, <1>10, <2>3, <2>7 DEF Do
  <2>9. Stack(t, "reported") /\ Fits(f, t, "reported")
    BY <1>3, Weaker
  <2>10. Chain(f, s, "reported")
    BY <2>6, <2>7 DEF Good
  <2>11. /\ AnySeq(new) /\ Stack(new, "reported")
         /\ Flag(new) <=> f[1] \in Headers \/ Flag(t)
         /\ Switched(new) <=> Switched(t)
    BY <1>3, <2>8, <2>9, <2>10, ChainStack
  <2>12. needsParens' = Flag(new)
    <3>1. f[1] \notin Headers
      BY <1>2 DEF Headers
    <3>2. Flag(new) \in BOOLEAN /\ Flag(t) \in BOOLEAN
      BY DEF Flag
    <3> QED
      BY <1>5, <1>6, <2>11, <3>1, <3>2
  <2>13. needsParens' \in BOOLEAN /\ (guard' => Switched(new)) /\ Stack(new, errors')
    BY <1>5, <1>6, <1>7, <2>1, <2>11
  <2>14. new # << >> => Starts(new[1], tok', errors')
    <3>1. Good(f, s, "reported", tok) /\ tok' = tok
      BY <1>10, <2>6, <2>7, Stays
    <3>2. new # << >> => Starts(new[1], tok, "reported")
      BY <1>3, <2>8, <2>9, <3>1, TopStarts
    <3> QED
      BY <2>1, <3>1, <3>2
  <2>15. Inv'
    BY <1>1, <2>1, <2>2, <2>11, <2>12, <2>13, <2>14, Arrive
  <2> QED
    BY <1>8, <2>15 DEF Step
<1> QED
  BY <1>6, <1>9, <1>10

-----------------------------------------------------------------------------
(* Entries that look at the tracker below them *)

LEMMA Pair ==
  ASSUME Inv, todo # << >>, todo[1][1] \in InPair,
         NEW cl, cl = todo[2], NEW t, t = SubSeq(todo, 3, Len(todo))
  PROVE  /\ cl[1] = "Close" /\ Tail(todo) = <<cl>> \o t /\ AnySeq(t)
         /\ Stack(t, errors) /\ Fits(cl, t, errors)
         /\ cl[3] \in BOOLEAN /\ cl[3] = Flag(t) /\ Typed(cl) /\ cl[2] \in Delimiters
         /\ Flag(todo) <=> ~ Clears(cl) /\ Flag(t)
         /\ Switched(todo) <=> Switched(t)
         /\ \A d : Cardinality(Closes(todo, d)) =
                     Cardinality(Closes(t, d)) + IF cl[2] = d THEN 1 ELSE 0
<1>1. PICK f, u : f = todo[1] /\ u = Tail(todo)
  OBVIOUS
<1>2. f[1] \notin Headers \cup {"Close", "SimpleEnd"} /\ ~ Clears(f)
  BY <1>1 DEF InPair, Headers, Clears
<1>3. AnySeq(u) /\ Stack(u, errors) /\ Fits(f, u, errors)
  BY <1>1, Split
<1>4. (Flag(todo) <=> Flag(u)) /\ (Switched(todo) <=> Switched(u))
  BY <1>1, <1>2, Split
<1>5. \A d : Cardinality(Closes(todo, d)) = Cardinality(Closes(u, d))
  BY <1>1, <1>2, SplitCounts
<1>6. u # << >> /\ u[1][1] = "Close"
  BY <1>1, <1>3 DEF Fits
<1>7. cl = u[1] /\ t = Tail(u)
  BY <1>1, <1>6, SecondTail DEF Inv, IInv
<1>8. cl[1] = "Close"
  BY <1>6, <1>7
<1>9. u = <<cl>> \o t /\ AnySeq(t)
  BY <1>3, <1>6, <1>7, Tails
<1>10. Stack(t, errors) /\ Fits(cl, t, errors)
  BY <1>3, <1>9, Push
<1>11. cl[3] \in BOOLEAN /\ cl[3] = Flag(t) /\ Typed(cl) /\ cl[2] \in Delimiters
  BY <1>8, <1>10 DEF Fits, Typed
<1>12. cl[1] \notin Headers /\ cl[1] # "SimpleEnd"
  BY <1>8 DEF Headers
<1>13. PICK v : v = <<cl>> \o t
  OBVIOUS
<1>14. (Flag(v) <=> ~ Clears(cl) /\ Flag(t)) /\ (Switched(v) <=> Switched(t))
  BY <1>9, <1>12, <1>13, OnTop
<1>15. \A d : Cardinality(Closes(v, d)) =
                Cardinality(Closes(t, d)) + IF cl[1] = "Close" /\ cl[2] = d THEN 1 ELSE 0
  BY <1>9, <1>13, OnTop
<1>16. u = v
  BY <1>9, <1>13
<1>17. \A d : Cardinality(Closes(todo, d)) =
                Cardinality(Closes(t, d)) + IF cl[2] = d THEN 1 ELSE 0
  BY <1>5, <1>8, <1>15, <1>16
<1>18. (Flag(todo) <=> ~ Clears(cl) /\ Flag(t)) /\ (Switched(todo) <=> Switched(t))
  BY <1>4, <1>14, <1>16
<1>19. Tail(todo) = <<cl>> \o t
  BY <1>1, <1>9
<1> QED
  BY <1>8, <1>9, <1>10, <1>11, <1>17, <1>18, <1>19

(* A function leaves the scope of its tracker: only after an error, as the *)
(* count is not taken back.                                                *)
LEMMA AbandonStep ==
  ASSUME Inv, todo # << >>, todo[1][1] \in InPair,
         NEW steps, Abandon(steps), Read, errors' \in {"reported", "silent"},
         Good(todo[2], steps, errors', tok')
  PROVE  Step
<1>1. PICK cl, t, new, err : /\ cl = todo[2] /\ t = SubSeq(todo, 3, Len(todo))
                             /\ new = todo' /\ err = errors'
  OBVIOUS
<1>2. /\ cl[1] = "Close" /\ AnySeq(t) /\ Stack(t, errors) /\ Fits(cl, t, errors)
      /\ cl[3] \in BOOLEAN /\ cl[3] = Flag(t)
  BY <1>1, Pair
<1>3. Switched(todo) <=> Switched(t)
  BY <1>1, Pair
<1>4. new = steps \o t /\ needsParens' = cl[3] /\ guard' = guard /\ isType' = isType
      /\ ret' = "ok" /\ kind' = "Normal"
  BY <1>1 DEF Abandon, Clear
<1>5. err # "none" /\ err \in {"none", "reported", "silent"}
  BY <1>1
<1>6. Stack(t, err) /\ Fits(cl, t, err)
  BY <1>2, <1>5, Weaker
<1>7. Chain(cl, steps, err)
  BY <1>1 DEF Good
<1>8. /\ AnySeq(new) /\ Stack(new, err)
      /\ Flag(new) <=> cl[1] \in Headers \/ Flag(t)
      /\ Switched(new) <=> Switched(t)
  BY <1>2, <1>4, <1>6, <1>7, ChainStack
<1>9. needsParens' = Flag(new)
  <2>1. cl[1] \notin Headers
    BY <1>2 DEF Headers
  <2>2. Flag(new) \in BOOLEAN /\ Flag(t) \in BOOLEAN
    BY DEF Flag
  <2> QED
    BY <1>2, <1>4, <1>8, <2>1, <2>2
<1>10. Values
  BY <1>1, <1>4, <1>5 DEF Values, Inv, TypeOK, Results, Kinds
<1>11. guard' => Switched(new)
  BY <1>3, <1>4, <1>8 DEF Inv, IInv
<1>12. needsParens' \in BOOLEAN /\ Stack(new, errors') /\ errors' # "none"
  BY <1>1, <1>2, <1>4, <1>5, <1>8
<1>13. new # << >> => Starts(new[1], tok', err)
  <2>1. PICK k : k = tok'
    OBVIOUS
  <2>2. Good(cl, steps, err, k)
    BY <1>1, <2>1
  <2>3. new # << >> => Starts(new[1], k, err)
    BY <1>2, <1>4, <1>6, <2>2, TopStarts
  <2> QED
    BY <2>1, <2>3
<1>14. Inv'
  BY <1>1, <1>8, <1>9, <1>10, <1>11, <1>12, <1>13, Arrive
<1> QED
  BY <1>4, <1>14 DEF Step, Guarded

(* A function puts steps before the Close below it, and after it.          *)
LEMMA AroundStep ==
  ASSUME Inv, todo # << >>, todo[1][1] \in InPair, NEW steps, NEW after, Around(steps, after),
         Read, errors' = errors, counts' = counts,
         Good(todo[2], after, errors, "eof"),
         steps # << >> => \E x : steps = <<x>> /\ Inside(todo[2], x)
  PROVE  Step
<1>1. PICK cl, t, new : cl = todo[2] /\ t = SubSeq(todo, 3, Len(todo)) /\ new = todo'
  OBVIOUS
<1>2. /\ cl[1] = "Close" /\ AnySeq(t) /\ Stack(t, errors) /\ Fits(cl, t, errors)
      /\ cl[3] = Flag(t) /\ Typed(cl)
  BY <1>1, Pair
<1>3. (Flag(todo) <=> ~ Clears(cl) /\ Flag(t)) /\ (Switched(todo) <=> Switched(t))
  BY <1>1, Pair
<1>4. \A d : Cardinality(Closes(todo, d)) =
               Cardinality(Closes(t, d)) + IF cl[2] = d THEN 1 ELSE 0
  BY <1>1, Pair
<1>5. new = (steps \o <<cl>> \o after) \o t /\ Plain
  BY <1>1 DEF Around
<1>6. cl[1] \notin Headers /\ Good(cl, after, errors, "eof")
  BY <1>1, <1>2 DEF Headers
<1>7. AnySeq(after)
  BY <1>6 DEF Good, Chain
<1>8. PICK q : q = <<cl>>
  OBVIOUS
<1>9. AnySeq(q)
  BY <1>8, AnySeqs
<1>10. Tracked(new, cl, t, errors) /\ new[1][1] \notin Ready("none")
  <2>1. CASE steps = << >>
    <3>1. steps \o q = q
      BY <1>9, <2>1, Concat
    <3>2. (q \o after) \o t = q \o (after \o t)
      BY ONLY <1>2, <1>7, <1>9, Associative
    <3>3. new = <<cl>> \o (after \o t)
      BY <1>5, <1>8, <3>1, <3>2
    <3>4. Tracked(new, cl, t, errors)
      BY <1>2, <1>6, <3>3, Closed
    <3>5. new[1] = cl
      BY <1>2, <1>6, <3>3, Closed
    <3> QED
      BY <1>2, <3>4, <3>5 DEF Ready, AtBrace, AtParen
  <2>2. CASE steps # << >>
    <3>1. PICK x : steps = <<x>> /\ Inside(cl, x)
      BY <1>1, <2>2
    <3>2. PICK p : p = <<x>>
      OBVIOUS
    <3>3. AnySeq(p)
      BY <3>2, AnySeqs
    <3>4. (p \o q \o after) \o t = p \o (q \o (after \o t))
      BY ONLY <1>2, <1>7, <1>9, <3>3, Assembled
    <3>5. new = <<x>> \o (<<cl>> \o (after \o t))
      BY <1>5, <1>8, <3>1, <3>2, <3>4
    <3>6. Tracked(new, cl, t, errors)
      BY ONLY <1>2, <1>6, <3>1, <3>5, Enclosed
    <3>7. new[1] = x
      BY <1>2, <1>6, <3>1, <3>5, Enclosed
    <3> QED
      BY <3>1, <3>6, <3>7 DEF Inside
  <2> QED
    BY <2>1, <2>2
<1>11. /\ ret' = "ok" /\ guard' = guard /\ needsParens' = needsParens /\ Values
  BY <1>5, Calm DEF Values, Inv, TypeOK
<1>12. needsParens' \in BOOLEAN /\ needsParens' = Flag(new)
  <2>1. needsParens \in BOOLEAN /\ needsParens = Flag(todo)
    BY DEF Inv, TypeOK, IInv
  <2>2. Flag(new) <=> ~ Clears(cl) /\ Flag(t)
    BY <1>10 DEF Tracked
  <2>3. Flag(new) \in BOOLEAN /\ Flag(todo) \in BOOLEAN
    BY DEF Flag
  <2> QED
    BY <1>3, <1>11, <2>1, <2>2, <2>3
<1>13. guard' => Switched(new)
  BY <1>3, <1>10, <1>11 DEF Inv, IInv, Tracked
<1>14. ASSUME errors' = "none"
       PROVE  \A d \in Delimiters : counts'[d] = Cardinality(Closes(new, d))
  <2>1. \A d \in Delimiters : counts[d] = Cardinality(Closes(todo, d))
    BY <1>14 DEF Inv, IInv
  <2> QED
    BY <1>4, <1>10, <2>1 DEF Tracked
<1>15. AnySeq(new) /\ Stack(new, errors') /\ Starts(new[1], tok', errors')
  BY <1>10, Unready DEF Tracked
<1>16. Inv'
  BY <1>1, <1>11, <1>12, <1>13, <1>14, <1>15, Arrive
<1> QED
  BY <1>11, <1>16 DEF Step, Guarded

-----------------------------------------------------------------------------
(* Headers *)

LEMMA FlagStep ==
  ASSUME Inv, todo # << >>, todo[1][1] \notin Ends,
         Stay, errors' \in {errors, "reported"}, Clear, UNCHANGED <<guard, isType>>,
         NEW t, t = Tail(todo), NEW new, new = todo',
         AnySeq(new), Stack(new, errors'),
         needsParens' \in BOOLEAN, needsParens' = Flag(new), Switched(new) <=> Switched(t),
         \A d : Cardinality(Closes(new, d)) = Cardinality(Closes(t, d)),
         new # << >> => Starts(new[1], tok, errors')
  PROVE  Step
<1>1. PICK f : f = todo[1]
  OBVIOUS
<1>2. f[1] # "SimpleEnd" /\ f[1] # "Close"
  BY <1>1 DEF Ends
<1>3. Switched(todo) <=> Switched(t)
  BY <1>1, <1>2, Split
<1>4. \A d : Cardinality(Closes(todo, d)) = Cardinality(Closes(t, d))
  BY <1>1, <1>2, SplitCounts
<1>5. Read /\ counts' = counts /\ tok' = tok
  BY Stays
<1>6. guard' = guard /\ ret' = "ok"
  BY DEF Clear
<1>7. Values
  BY <1>6 DEF Clear, Values, Inv, TypeOK, Results, Kinds
<1>8. guard' => Switched(new)
  BY <1>3, <1>6 DEF Inv, IInv
<1>9. ASSUME errors' = "none"
      PROVE  \A d \in Delimiters : counts'[d] = Cardinality(Closes(new, d))
  <2>1. errors = "none"
    BY <1>9
  <2>2. \A d \in Delimiters : counts[d] = Cardinality(Closes(todo, d))
    BY <2>1 DEF Inv, IInv
  <2> QED
    BY <1>4, <1>5, <1>9, <2>2
<1>10. Inv'
  BY <1>5, <1>6, <1>7, <1>8, <1>9, Arrive
<1> QED
  BY <1>6, <1>10 DEF Step, Guarded

(* A header begins, under its first step or two, or ends.                  *)
LEMMA SetStep ==
  ASSUME Inv, todo # << >>, todo[1][1] \notin Ends, ~ Flag(Tail(todo)),
         Stay, errors' \in {errors, "reported"}, Clear, UNCHANGED <<guard, isType>>,
         NEW h, h[1] \in Headers \cup {"Statement"}, Typed(h), ~ Claims(h),
         needsParens' \in BOOLEAN, needsParens' <=> h[1] \in Headers, NEW steps, Do(steps), Good(h, steps, errors', tok)
  PROVE  Step
<1>1. PICK f, t, new, err : f = todo[1] /\ t = Tail(todo) /\ new = todo' /\ err = errors'
  OBVIOUS
<1>2. AnySeq(t) /\ Stack(t, errors) /\ Fits(f, t, errors)
  BY <1>1, Split
<1>3. err = "none" => errors = "none"
  BY <1>1
<1>4. Stack(t, err) /\ Fits(f, t, err)
  BY <1>2, <1>3, Weaker
<1>5. Fits(h, t, err)
  <2>1. ~ Flag(t)
    BY <1>1
  <2>2. t # << >> => t[1][1] \notin Ready(err)
    BY <1>4 DEF Fits
  <2>3. h[1] \notin InPair \cup Ends
    BY DEF InPair, Headers, Ends
  <2>4. ~ Failing(h) /\ ~ InRange(h) /\ ~ OfFor(h)
    BY DEF Failing, InRange, OfFor, Headers
  <2>5. h[1] \notin Levels \ {"Statement"}
    BY DEF Levels, Headers
  <2> QED
    BY <2>1, <2>2, <2>3, <2>4, <2>5 DEF Fits, Ends
<1>6. new = steps \o t
  BY <1>1 DEF Do
<1>7. Chain(h, steps, err) /\ (steps # << >> => Starts(steps[1], tok, err))
  BY <1>1 DEF Good
<1>8. /\ AnySeq(new) /\ Stack(new, err)
      /\ Flag(new) <=> h[1] \in Headers \/ Flag(t)
      /\ Switched(new) <=> Switched(t)
      /\ \A d : Cardinality(Closes(new, d)) = Cardinality(Closes(t, d))
      /\ steps # << >> => new[1] = steps[1]
  BY <1>2, <1>4, <1>5, <1>6, <1>7, ChainStack
<1>9. needsParens' \in BOOLEAN /\ needsParens' = Flag(new)
  <2>1. Flag(new) \in BOOLEAN /\ ~ Flag(t)
    BY <1>1 DEF Flag
  <2> QED
    BY <1>8, <2>1
<1>10. new # << >> => Starts(new[1], tok, err)
  <2>1. steps = << >> => new = t
    BY <1>2, <1>6, Concat
  <2>2. t # << >> => t[1][1] \notin Ready(err)
    BY <1>4 DEF Fits
  <2> QED
    BY <1>7, <1>8, <2>1, <2>2, Unready
<1>11. Stack(new, errors') /\ (new # << >> => Starts(new[1], tok, errors'))
  BY <1>1, <1>8, <1>10
<1> QED
  BY <1>1, <1>8, <1>9, <1>11, FlagStep

(* The flag of a header is reset where its block begins, ...               *)
LEMMA EndHeader ==
  ASSUME Inv, todo # << >>, todo[1][1] \in Headers,
         Stay, errors' \in {errors, "reported"}, Clear, UNCHANGED <<guard, isType>>,
         needsParens' = FALSE,
         NEW steps, Do(steps), Good(<<"Statement">>, steps, errors', tok)
  PROVE  Step
<1>1. PICK f, t : f = todo[1] /\ t = Tail(todo)
  OBVIOUS
<1>2. Fits(f, t, errors)
  BY <1>1, Split
<1>3. ~ Flag(Tail(todo)) /\ todo[1][1] \notin Ends
  BY <1>1, <1>2 DEF Fits, Headers, Ends
<1>4. PICK h : h = <<"Statement">>
  OBVIOUS
<1>5. h[1] = "Statement" /\ ~ (h[1] \in Headers) /\ ~ Claims(h) /\ Typed(h)
  BY <1>4 DEF Headers, Claims, Typed, MayGuard
<1>6. needsParens' \in BOOLEAN /\ (needsParens' <=> h[1] \in Headers)
  BY <1>5
<1>7. Good(h, steps, errors', tok)
  BY <1>4
<1> QED
  BY <1>3, <1>5, <1>6, <1>7, SetStep

(* ... or where the statement is given up.                                 *)
LEMMA EndHeaderEarly ==
  ASSUME Inv, todo # << >>, todo[1][1] \in Headers, NEW report, LeaveHeader(report)
  PROVE  Step
<1>1. Stay /\ Do(<< >>) /\ Clear /\ needsParens' = FALSE /\ UNCHANGED <<guard, isType>>
      /\ errors' \in {errors, "reported"}
  BY DEF LeaveHeader, Diag, Quiet
<1>2. Good(<<"Statement">>, << >>, errors', tok)
  <2>1. <<"Statement">>[1] \notin Headers
    BY DEF Headers
  <2> QED
    BY <2>1, Good0
<1> QED
  BY <1>1, <1>2, EndHeader

(* The stack new is e on top of t, and e is no tracker.                    *)
Piled(new, e, t, c) ==
  /\ AnySeq(new) /\ Stack(new, c) /\ new[1] = e /\ new # << >>
  /\ Flag(new) <=> e[1] \in Headers \/ Flag(t)
  /\ Switched(new) <=> IF e[1] = "SimpleEnd" THEN e[3] = "TypeSwitchGuard" ELSE Switched(t)
  /\ \A d : Cardinality(Closes(new, d)) = Cardinality(Closes(t, d))

(* Pushing an entry that is no tracker.                                    *)
LEMMA PushInert ==
  ASSUME NEW e, NEW t, NEW c, AnySeq(t), Stack(t, c), Fits(e, t, c), e[1] # "Close",
         NEW new, new = <<e>> \o t
  PROVE  Piled(new, e, t, c)
<1>1. AnySeq(new) /\ Stack(new, c) /\ new[1] = e /\ new # << >>
  BY Push
<1>2. /\ Flag(new) <=> e[1] \in Headers \/ (~ Clears(e) /\ Flag(t))
      /\ Switched(new) <=> IF e[1] = "SimpleEnd" THEN e[3] = "TypeSwitchGuard" ELSE Switched(t)
      /\ \A d : Cardinality(Closes(new, d)) =
                  Cardinality(Closes(t, d)) + IF e[1] = "Close" /\ e[2] = d THEN 1 ELSE 0
  BY OnTop
<1>3. \A d : Cardinality(Closes(t, d)) \in Nat
  BY Finite
<1>4. \A d : Cardinality(Closes(new, d)) = Cardinality(Closes(t, d))
  <2> HIDE DEF Closes
  <2> QED
    BY <1>2, <1>3
<1>5. ~ Clears(e)
  BY DEF Clears
<1> QED
  BY <1>1, <1>2, <1>4, <1>5 DEF Piled

(* The assertion of a header, in a place where it can fail.                *)
LEMMA AssertionStep ==
  ASSUME Inv, todo # << >>, todo[1][1] \in Levels, needsParens,
         Continue(<< <<"AssertionFails">> >>)
  PROVE  Step
<1>1. PICK f, t, new, e : f = todo[1] /\ t = Tail(todo) /\ new = todo' /\ e = <<"AssertionFails">>
  OBVIOUS
<1>2. AnySeq(t) /\ Stack(t, errors) /\ Fits(f, t, errors)
  BY <1>1, Split
<1>3. f[1] \notin Headers \cup Ends
  BY <1>1 DEF Levels, Headers, Ends
<1>4. Flag(todo) <=> Flag(t)
  <2>1. Flag(todo) <=> f[1] \in Headers \/ (~ Clears(f) /\ Flag(t))
    BY <1>1, Split
  <2> QED
    BY <1>3, <2>1 DEF Clears, Ends
<1>5. Flag(t) /\ Refused(t)
  BY <1>1, <1>2, <1>4 DEF Inv, IInv, Fits
<1>6. Fits(e, t, errors)
  <2>1. e[1] = "AssertionFails"
    BY <1>1
  <2>2. Typed(e) /\ ~ Claims(e) /\ ~ Failing(e) /\ ~ InRange(e) /\ ~ OfFor(e)
        /\ e[1] \notin Headers \cup Levels \cup InPair /\ e[1] # "Close"
    <3> HIDE DEF Opener
    <3>1. Typed(e)
      BY <2>1 DEF Typed, MayGuard
    <3> QED
      BY <2>1, <3>1 DEF MayGuard, Claims, Failing, InRange, OfFor, Headers, Levels, InPair
  <2> QED
    BY <1>2, <1>5, <2>1, <2>2 DEF Fits
<1>7. new = <<e>> \o t /\ Stay /\ Quiet /\ Plain
  BY <1>1 DEF Continue, Do
<1>8. Piled(new, e, t, errors)
  BY <1>1, <1>2, <1>6, <1>7, PushInert
<1>9. /\ needsParens' \in BOOLEAN /\ needsParens' = Flag(new)
      /\ Switched(new) <=> Switched(t)
  <2>1. needsParens' = needsParens
    BY <1>7 DEF Plain
  <2> QED
    BY <1>1, <1>4, <1>5, <1>8, <2>1 DEF Inv, TypeOK, IInv, Flag, Piled
<1>10. Starts(e, tok, errors')
  BY <1>1 DEF Starts, AtBrace, AtParen
<1>11. /\ errors' = errors /\ Clear /\ UNCHANGED <<guard, isType>> /\ todo[1][1] \notin Ends
       /\ Stack(new, errors') /\ (new # << >> => Starts(new[1], tok, errors'))
  BY <1>1, <1>3, <1>7, <1>8, <1>10 DEF Quiet, Plain, Piled
<1> QED
  BY <1>1, <1>7, <1>8, <1>9, <1>11, FlagStep DEF Piled

(* A header begins: the flag was not set, or the assertion fails.          *)
LEMMA StartStep ==
  ASSUME Inv, todo # << >>, todo[1][1] \in {"IfStmt", "SwitchStmt", "ForStmt"},
         NEW steps, StartHeader(steps), Good(<<"IfInit">>, steps, errors, tok)
  PROVE  Step
<1>1. CASE needsParens
  BY <1>1, AssertionStep DEF StartHeader, Levels
<1>2. CASE ~ needsParens
  <2>1. SetFlag(TRUE, steps)
    BY <1>2 DEF StartHeader
  <2>2. todo[1][1] \notin Ends /\ ~ Flag(Tail(todo))
    <3>1. PICK f, t : f = todo[1] /\ t = Tail(todo)
      OBVIOUS
    <3>2. Flag(todo) <=> f[1] \in Headers \/ (~ Clears(f) /\ Flag(t))
      BY <3>1, Split
    <3> QED
      BY <1>2, <3>1, <3>2 DEF Inv, IInv, Clears, Ends
  <2>3. PICK h : h = <<"IfInit">>
    OBVIOUS
  <2>4. h[1] \in Headers /\ Typed(h) /\ ~ Claims(h)
    BY <2>3 DEF Headers, Claims, Typed, MayGuard
  <2>5. /\ Stay /\ Clear /\ Do(steps) /\ errors' = errors
        /\ UNCHANGED <<guard, isType>> /\ needsParens' = TRUE
    BY <2>1 DEF SetFlag, Quiet
  <2>6. Good(h, steps, errors', tok)
    BY <2>3, <2>5
  <2> QED
    BY <2>2, <2>4, <2>5, <2>6, SetStep
<1> QED
  BY <1>1, <1>2 DEF Inv, TypeOK

(* The statement of a "for" that may be a range clause: two entries that   *)
(* belong together.                                                        *)
LEMMA StartForStep ==
  ASSUME Inv, todo # << >>, At("ForStmt"), ~ needsParens,
         SetFlag(TRUE, <<SimpleStmt("RangeClause"), <<"ForHead">> >>)
  PROVE  Step
<1>1. PICK f, t, new, s, h : /\ f = todo[1] /\ t = Tail(todo) /\ new = todo'
                             /\ s = SimpleStmt("RangeClause") /\ h = <<"ForHead">>
  OBVIOUS
<1>2. AnySeq(t) /\ Stack(t, errors) /\ Fits(f, t, errors)
  BY <1>1, Split
<1>3. f[1] = "ForStmt" /\ todo[1][1] \notin Ends
  BY <1>1 DEF At, Ends
<1>4. ~ Flag(t)
  <2>1. Flag(todo) <=> f[1] \in Headers \/ (~ Clears(f) /\ Flag(t))
    BY <1>1, Split
  <2> QED
    BY <1>3, <2>1 DEF Inv, IInv, Clears
<1>5. PICK u : u = <<h>> \o t
  OBVIOUS
<1>6. h[1] = "ForHead"
  BY <1>1
<1>7. Fits(h, t, errors)
  <2>1. Typed(h) /\ ~ Claims(h) /\ ~ Failing(h) /\ ~ InRange(h) /\ ~ OfFor(h)
        /\ h[1] \notin Levels \cup InPair /\ h[1] # "Close" /\ h[1] # "AssertionFails"
    <3>1. Typed(h)
      BY <1>6 DEF Typed, MayGuard
    <3> QED
      BY <1>6, <3>1 DEF MayGuard, Claims, Failing, InRange, OfFor, Levels, InPair
  <2> QED
    BY <1>2, <1>4, <2>1 DEF Fits
<1>8. Piled(u, h, t, errors)
  BY <1>2, <1>5, <1>6, <1>7, PushInert
<1>9. s[1] = "SimpleStmt" /\ Fits(s, u, errors)
  <2>1. s[1] = "SimpleStmt"
    BY <1>1 DEF SimpleStmt
  <2>2. Typed(s) /\ ~ Claims(s) /\ ~ Failing(s) /\ ~ InRange(s)
        /\ s[1] \notin Levels \cup InPair \cup Headers /\ s[1] # "Close" /\ s[1] # "AssertionFails"
    <3>1. Typed(s)
      BY <2>1 DEF Typed, MayGuard
    <3> QED
      BY <2>1, <3>1 DEF MayGuard, Claims, Failing, InRange, Levels, InPair, Headers
  <2>3. h[1] \notin Ready(errors)
    BY <1>6 DEF Ready, AtBrace, AtParen
  <2> QED
    BY <1>6, <1>8, <2>1, <2>2, <2>3 DEF Fits, Piled
<1>10. new = <<s>> \o u
  <2>1. new = <<s, h>> \o t
    BY <1>1 DEF SetFlag, Do
  <2>2. AnySeq(<<s>>) /\ AnySeq(<<h>>)
    BY AnySeqs
  <2>3. (<<s>> \o <<h>>) \o t = <<s>> \o (<<h>> \o t)
    BY ONLY <1>2, <2>2, Associative
  <2>4. <<s>> \o <<h>> = <<s, h>>
    BY Literals2
  <2> QED
    BY <1>5, <2>1, <2>3, <2>4
<1>11. Piled(new, s, u, errors)
  <2>1. AnySeq(u) /\ Stack(u, errors)
    BY <1>8 DEF Piled
  <2>2. s[1] # "Close"
    BY <1>9
  <2> QED
    BY <1>9, <1>10, <2>1, <2>2, PushInert
<1>12. /\ Stay /\ Clear /\ errors' = errors /\ UNCHANGED <<guard, isType>> /\ needsParens' = TRUE
  BY DEF SetFlag, Quiet
<1>13. /\ needsParens' \in BOOLEAN /\ needsParens' = Flag(new)
       /\ Switched(new) <=> Switched(t)
  BY <1>6, <1>8, <1>9, <1>11, <1>12 DEF Headers, Flag, Piled
<1>14. /\ Stack(new, errors') /\ (new # << >> => Starts(new[1], tok, errors'))
       /\ \A d : Cardinality(Closes(new, d)) = Cardinality(Closes(t, d))
  BY <1>8, <1>9, <1>11, <1>12 DEF Starts, AtBrace, AtParen, Piled
<1> QED
  BY <1>1, <1>3, <1>11, <1>12, <1>13, <1>14, FlagStep DEF Piled

-----------------------------------------------------------------------------
(* Simple statements *)

(* The outer guard is kept in the SimpleEnd that a statement begins with.  *)
LEMMA EndPushed ==
  ASSUME Inv, todo # << >>, NEW f, f = todo[1], f[1] = "SimpleStart", NEW t, t = Tail(todo),
         NEW end, end = <<"SimpleEnd", f[3], f[2], guard>>, NEW u, u = <<end>> \o t
  PROVE  Piled(u, end, t, errors) /\ AnySeq(t)
<1>1. AnySeq(t) /\ Stack(t, errors) /\ Fits(f, t, errors)
  BY Split
<1>2. end[1] = "SimpleEnd" /\ end[3] = f[2] /\ end[4] = guard
  OBVIOUS
<1>3. guard \in BOOLEAN /\ (guard => Switched(t))
  <2>1. Switched(todo) <=> Switched(t)
    <3>1. Switched(todo) <=> IF f[1] = "SimpleEnd" THEN f[3] = "TypeSwitchGuard" ELSE Switched(t)
      BY Split
    <3> QED
      BY <3>1
  <2> QED
    BY <2>1 DEF Inv, TypeOK, IInv
<1>4. Typed(end)
  BY <1>2, <1>3 DEF Typed, MayGuard
<1>5. Claims(end) => guard
  BY <1>2 DEF Claims, MayGuard
<1>6. OfFor(end) => OfFor(f)
  BY <1>2 DEF OfFor
<1>7. ~ Failing(end) /\ ~ InRange(end) /\ end[1] \notin Headers \cup Levels \cup InPair
  BY <1>2 DEF Failing, InRange, Headers, Levels, InPair
<1>8. Fits(end, t, errors)
  BY <1>1, <1>2, <1>3, <1>4, <1>5, <1>6, <1>7 DEF Fits
<1> QED
  BY <1>1, <1>2, <1>8, PushInert

(* A stack that ends in u, whichever way it got there.                     *)
Carries(new, u, end) ==
  /\ AnySeq(new) /\ Stack(new, errors) /\ (Flag(new) <=> Flag(u))
  /\ \A d : Cardinality(Closes(new, d)) = Cardinality(Closes(u, d))
  /\ \E i \in 1 .. Len(new) : new[i] = end
  /\ new # << >> /\ new[1][1] \notin Ready("none")

(* Pushing another entry on a stack that carries u.                        *)
LEMMA CarryMore ==
  ASSUME NEW w, NEW u, NEW end, Carries(w, u, end), NEW e, Fits(e, w, errors),
         e[1] \notin Headers \cup Ready("none") \cup Ends, NEW new, new = <<e>> \o w
  PROVE  Carries(new, u, end)
<1>1. AnySeq(w) /\ Stack(w, errors) /\ e[1] # "Close"
  BY DEF Carries, Ends
<1>2. Piled(new, e, w, errors)
  BY <1>1, PushInert
<1>3. PICK i \in 1 .. Len(w) : w[i] = end
  BY DEF Carries
<1>4. \E j \in 1 .. Len(new) : new[j] = end
  <2>1. PICK p : p = <<e>>
    OBVIOUS
  <2>2. AnySeq(p) /\ Len(p) = 1
    BY <2>1, AnySeqs
  <2>3. Len(new) = 1 + Len(w) /\ Len(w) \in Nat /\ new[1 + i] = w[i]
    <3>1. AnySeq(p) /\ AnySeq(w)
      BY <1>1, <2>2
    <3>2. Len(p \o w) = Len(p) + Len(w) /\ Len(w) \in Nat
      BY ONLY <3>1, Concat
    <3>3. \A k \in 1 .. Len(w) : (p \o w)[Len(p) + k] = w[k]
      BY ONLY <3>1, Concat
    <3> QED
      BY <2>1, <2>2, <3>2, <3>3
  <2>4. 1 + i \in 1 .. Len(new)
    BY <2>3
  <2> QED
    BY <1>3, <2>3, <2>4
<1>5. /\ AnySeq(new) /\ Stack(new, errors) /\ new # << >> /\ new[1] = e
      /\ Flag(new) <=> Flag(w)
      /\ \A d : Cardinality(Closes(new, d)) = Cardinality(Closes(w, d))
  BY <1>2 DEF Piled
<1>6. /\ Flag(w) <=> Flag(u)
      /\ \A d : Cardinality(Closes(w, d)) = Cardinality(Closes(u, d))
  BY DEF Carries
<1> QED
  BY <1>4, <1>5, <1>6 DEF Carries

(* A simple statement begins: the outer guard is saved.                    *)
LEMMA SimpleStartStep ==
  ASSUME Inv, todo # << >>, NEW f, f = todo[1], f[1] = "SimpleStart", NEW t, t = Tail(todo),
         NEW end, end = <<"SimpleEnd", f[3], f[2], guard>>, NEW u, Piled(u, end, t, errors),
         Quiet, Clear, guard' = FALSE, UNCHANGED <<needsParens, isType>>, Read, counts' = counts,
         NEW new, new = todo', Carries(new, u, end)
  PROVE  Step
<1>1. end[1] = "SimpleEnd" /\ end[4] = guard
  OBVIOUS
<1>2. Flag(todo) <=> Flag(t)
  <2>1. Flag(todo) <=> f[1] \in Headers \/ (~ Clears(f) /\ Flag(t))
    BY Split
  <2> QED
    BY <2>1 DEF Headers, Clears
<1>3. \A d : Cardinality(Closes(todo, d)) = Cardinality(Closes(t, d))
  <2>1. todo[1][1] # "Close"
    OBVIOUS
  <2> QED
    BY <2>1, SplitCounts
<1>4. /\ Flag(u) <=> Flag(t)
      /\ \A d : Cardinality(Closes(u, d)) = Cardinality(Closes(t, d))
  BY <1>1 DEF Piled, Headers
<1>5. /\ AnySeq(new) /\ Stack(new, errors) /\ (Flag(new) <=> Flag(u))
      /\ \A d : Cardinality(Closes(new, d)) = Cardinality(Closes(u, d))
      /\ \E i \in 1 .. Len(new) : new[i] = end
      /\ new # << >> /\ new[1][1] \notin Ready("none")
  BY DEF Carries
<1>6. errors' = errors /\ ret' = "ok" /\ kind' = "Normal" /\ needsParens' = needsParens
  BY DEF Quiet, Clear
<1>7. Values
  BY <1>6 DEF Values, Results, Kinds, Inv, TypeOK
<1>8. needsParens' \in BOOLEAN /\ needsParens' = Flag(new)
  <2>1. needsParens \in BOOLEAN /\ needsParens = Flag(todo)
    BY DEF Inv, TypeOK, IInv
  <2>2. Flag(new) \in BOOLEAN /\ Flag(todo) \in BOOLEAN
    BY DEF Flag
  <2> QED
    BY <1>2, <1>4, <1>5, <1>6, <2>1, <2>2
<1>9. ASSUME errors' = "none"
      PROVE  \A d \in Delimiters : counts'[d] = Cardinality(Closes(new, d))
  <2>1. \A d \in Delimiters : counts[d] = Cardinality(Closes(todo, d))
    BY <1>6, <1>9 DEF Inv, IInv
  <2> QED
    BY <1>3, <1>4, <1>5, <2>1
<1>10. Inv'
  <2>1. Starts(new[1], tok', errors')
    BY <1>5, Unready
  <2> QED
    BY <1>5, <1>6, <1>7, <1>8, <1>9, <2>1, Arrive
<1>11. Guarded
  <2>1. PICK i \in 1 .. Len(new) : new[i] = end
    BY <1>5
  <2> QED
    BY <1>1, <2>1 DEF Guarded
<1> QED
  BY <1>10, <1>11 DEF Step

(* It ends: its guard becomes the kind of the statement, or is reported,   *)
(* and the outer one is back.                                              *)
LEMMA SimpleEndStep ==
  ASSUME Inv, SimpleEnd
  PROVE  Step
<1>1. todo # << >> /\ todo[1][1] = "SimpleEnd"
  BY DEF SimpleEnd, At
<1>2. PICK f, t, new : f = todo[1] /\ t = Tail(todo) /\ new = todo'
  OBVIOUS
<1>3. AnySeq(t) /\ Stack(t, errors) /\ Fits(f, t, errors) /\ f[1] = "SimpleEnd"
  BY <1>1, <1>2, Split
<1>4. (Flag(todo) <=> Flag(t)) /\ (Switched(todo) <=> f[3] = "TypeSwitchGuard")
  <2>1. /\ Flag(todo) <=> f[1] \in Headers \/ (~ Clears(f) /\ Flag(t))
        /\ Switched(todo) <=> IF f[1] = "SimpleEnd" THEN f[3] = "TypeSwitchGuard"
                                                    ELSE Switched(t)
    BY <1>1, <1>2, Split
  <2> QED
    BY <1>3, <2>1 DEF Headers, Clears
<1>5. \A d : Cardinality(Closes(todo, d)) = Cardinality(Closes(t, d))
  BY <1>1, <1>2, SplitCounts
<1>6. new = t
  <2>1. new = << >> \o t
    BY <1>2 DEF SimpleEnd, Do
  <2> QED
    BY <1>3, <2>1, Concat
<1>7. /\ Stay /\ needsParens' = needsParens /\ isType' = isType /\ guard' = f[4]
      /\ errors' \in {errors, "reported"}
      /\ kind' \in {"Normal", "TypeSwitchGuard", kind} /\ kind' # "Disarmed"
      /\ ret' \in {ret, "fail"}
      /\ errors' # "reported" => ret' = ret
  <2>1. kind \in Kinds
    BY DEF Inv, TypeOK, Kinds
  <2> QED
    BY <1>2, <2>1 DEF SimpleEnd, Arg, Diag, Quiet, Kinds
<1>8. guard /\ f[3] = "TypeSwitchGuard" /\ errors' # "reported" => kind' = "TypeSwitchGuard"
  BY <1>2 DEF SimpleEnd, Arg, Diag
<1>9. Read /\ counts' = counts /\ tok' = tok
  BY <1>7, Stays
<1>10. Values
  <2>1. ret \in Results /\ kind \in Kinds
    BY DEF Inv, TypeOK, Results, Kinds
  <2>2. guard' \in BOOLEAN /\ isType' \in BOOLEAN
    BY <1>3, <1>7 DEF Inv, TypeOK, Fits, Typed
  <2>3. errors \in {"none", "reported", "silent"}
    BY DEF Inv, TypeOK
  <2> QED
    BY <1>7, <2>1, <2>2, <2>3 DEF Values, Results, Kinds
<1>11. needsParens' \in BOOLEAN /\ needsParens' = Flag(new)
  <2>1. needsParens \in BOOLEAN /\ needsParens = Flag(todo)
    BY DEF Inv, TypeOK, IInv
  <2>2. Flag(new) \in BOOLEAN /\ Flag(todo) \in BOOLEAN
    BY DEF Flag
  <2> QED
    BY <1>4, <1>6, <1>7, <2>1, <2>2
<1>12. guard' => Switched(new)
  <2>1. f[4] = TRUE => Claims(f)
    BY <1>3 DEF Claims
  <2>2. guard' \in BOOLEAN
    BY <1>10 DEF Values
  <2> QED
    BY <1>3, <1>6, <1>7, <2>1, <2>2 DEF Fits
<1>13. ASSUME errors' = "none"
       PROVE  /\ \A d \in Delimiters : counts'[d] = Cardinality(Closes(new, d))
              /\ ret' # "unclosed"
              /\ ret' = "fail" => new # << >> /\ new[1][1] = "ForHead"
  <2>1. errors = "none" /\ ret' = ret
    BY <1>7, <1>13
  <2>2. \A d \in Delimiters : counts[d] = Cardinality(Closes(todo, d))
    BY <2>1 DEF Inv, IInv
  <2>3. \A d \in Delimiters : counts'[d] = Cardinality(Closes(new, d))
    BY <1>5, <1>6, <1>9, <2>2
  <2>4. ret # "unclosed" /\ (ret = "fail" => f[3] = "RangeClause")
    BY <1>1, <1>2, <2>1 DEF Inv, IInv
  <2>5. f[3] = "RangeClause" => t # << >> /\ t[1][1] = "ForHead"
    BY <1>3, <2>1 DEF Fits, OfFor
  <2> QED
    BY <1>6, <2>1, <2>3, <2>4, <2>5
<1>14. /\ AnySeq(new) /\ Stack(new, errors')
       /\ new # << >> => Starts(new[1], tok', errors')
  <2>1. errors' = "none" => errors = "none"
    BY <1>7
  <2>2. Stack(t, errors')
    BY <1>3, <2>1, Weaker
  <2>3. t # << >> => t[1][1] \notin Ready(errors)
    BY <1>3 DEF Fits
  <2>4. errors' # "none" => Ready(errors') \subseteq Ready(errors)
    BY DEF Ready
  <2>5. t # << >> => Starts(t[1], tok', errors')
    BY <2>1, <2>3, <2>4, Unready
  <2> QED
    BY <1>3, <1>6, <2>2, <2>5
<1>15. Inv'
  BY <1>2, <1>9, <1>10, <1>11, <1>12, <1>13, <1>14, Arrive
<1>16. Guarded
  <2>1. guard => f[3] = "TypeSwitchGuard"
    BY <1>4 DEF Inv, IInv
  <2> QED
    BY <1>8, <2>1 DEF Guarded
<1> QED
  BY <1>15, <1>16 DEF Step

-----------------------------------------------------------------------------
(* The other moves: what is known before any, and those that set more than *)
(* the stack.                                                              *)

LEMMA Here ==
  ASSUME Inv, todo # << >>
  PROVE  /\ Typed(todo[1])
         /\ todo[1][1] \in InPair => todo[2][1] = "Close"
         /\ Starts(todo[1], tok, errors)
         /\ errors = "none" =>
              /\ ~ Failing(todo[1])
              /\ ret # "unclosed"
              /\ ret = "fail" => todo[1][1] \in {"SimpleEnd", "ForHead"}
<1>1. Fits(todo[1], Tail(todo), errors)
  BY Split
<1>2. todo[1][1] \in InPair => todo[2][1] = "Close"
  BY Pair
<1> QED
  BY <1>1, <1>2 DEF Inv, IInv, Fits

(* Good steps stay good after an error.                                    *)
LEMMA GoodStill ==
  ASSUME NEW f, NEW steps, NEW t, NEW c, NEW d, Good(f, steps, c, t), d = "none" => c = "none"
  PROVE  Good(f, steps, d, t)
BY DEF Good, Chain, Heir, Takes, Starts, Ready

(* TypeSwitchGuardParam::Reset: a guard that is in the way is reported.    *)
LEMMA ResetStep ==
  ASSUME Inv, todo # << >>, todo[1][1] \notin Ends, NEW g, NEW steps, ResetThen(g, steps),
         Good(todo[1], steps, errors, tok)
  PROVE  Step
<1>1. Stay /\ Do(steps) /\ Clear /\ needsParens' = needsParens /\ isType' = isType
  BY DEF ResetThen
<1>2. \/ errors' = errors /\ guard' = guard
      \/ errors' = "reported" /\ guard' = FALSE
  BY DEF ResetThen, Reset, Diag
<1>3. Read /\ counts' = counts /\ tok' = tok
  BY <1>1, Stays
<1>4. Turn(steps)
  <2>1. Values
    BY <1>1, <1>2 DEF Values, Clear, Results, Kinds, Inv, TypeOK
  <2>2. ret' = "ok"
    BY <1>1 DEF Clear
  <2> QED
    BY <1>1, <1>2, <1>3, <2>1, <2>2 DEF Turn
<1>5. Good(todo[1], steps, errors', tok')
  BY <1>2, <1>3, GoodStill
<1> QED
  BY <1>4, <1>5, TurnStep

(* TypeParam is set, saved or restored, and perhaps an error reported.     *)
LEMMA TypeParamStep ==
  ASSUME Inv, todo # << >>, todo[1][1] \notin Ends, NEW steps, Stay, Do(steps), Clear,
         errors' \in {errors, "reported"}, UNCHANGED <<needsParens, guard>>, isType' \in BOOLEAN,
         Good(todo[1], steps, errors, tok)
  PROVE  Step
<1>1. Read /\ counts' = counts /\ tok' = tok
  BY Stays
<1>2. Turn(steps)
  BY <1>1 DEF Turn, Values, Clear, Results, Kinds, Inv, TypeOK
<1>3. Good(todo[1], steps, errors', tok')
  BY <1>1, GoodStill
<1> QED
  BY <1>2, <1>3, TurnStep

(* A function returns a result.                                            *)
LEMMA AnswerStep ==
  ASSUME Inv, todo # << >>, todo[1][1] \notin Ends \cup Headers, Read, Do(<< >>),
         NEW r \in Results, NEW k \in Kinds, ret' = r, kind' = k,
         UNCHANGED <<needsParens, guard, isType>>,
         errors' \in {"none", "reported", "silent"},
         errors' = "none" => /\ errors = "none" /\ counts' = counts /\ r # "unclosed"
                             /\ r = "fail" => todo[1][1] = "RangeEnd"
  PROVE  Step
<1>1. Turn(<< >>)
  BY DEF Turn, Values, Inv, TypeOK
<1>2. Good(todo[1], << >>, errors', tok')
  BY Good0
<1> QED
  BY <1>1, <1>2, TurnStep

(* A simple statement returns a result and its kind.                       *)
LEMMA OutcomeStep ==
  ASSUME Inv, todo # << >>, todo[1][1] \notin Ends \cup Headers,
         NEW r \in Results, NEW k \in Kinds, Outcome(r, k),
         errors' \in {errors, "reported"},
         errors' = "none" => r # "unclosed" /\ (r = "fail" => todo[1][1] = "RangeEnd")
  PROVE  Step
<1>1. Read /\ counts' = counts
  BY Stays DEF Outcome
<1>2. errors' \in {"none", "reported", "silent"}
  BY DEF Results, Inv, TypeOK
<1> QED
  BY <1>1, <1>2, AnswerStep DEF Outcome

(* A ".(type)" that may be the guard.                                      *)
LEMMA GuardStep ==
  ASSUME Inv, todo # << >>, todo[1][1] = "AssertedType", tok = "kw_type",
         Eat, Do(<< >>), Clear, UNCHANGED <<needsParens, isType>>,
         IF Arg(1) THEN guard' = TRUE /\ Quiet ELSE Diag /\ UNCHANGED guard
  PROVE  Step
<1>1. todo[1][1] \notin Ends \cup Headers
  BY DEF Ends, Headers
<1>2. Read /\ counts' = counts
  BY Eats, BracketsAre DEF Brackets
<1>3. todo[1][2] \in BOOLEAN
  BY Here DEF Typed, MayGuard
<1>4. \/ errors' = errors /\ guard' = TRUE /\ Claims(todo[1])
      \/ errors' = "reported" /\ guard' = guard
  BY <1>3 DEF Arg, Claims, MayGuard, Quiet, Diag
<1>5. Turn(<< >>)
  <2>1. Values
    BY <1>4 DEF Values, Clear, Results, Kinds, Inv, TypeOK
  <2>2. ret' = "ok"
    BY DEF Clear
  <2> QED
    BY <1>2, <1>4, <2>1, <2>2 DEF Turn
<1>6. Good(todo[1], << >>, errors', tok')
  BY <1>1, Good0
<1> QED
  BY <1>1, <1>5, <1>6, TurnStep

(* The tokens that open, by name.                                          *)
LEMMA OpenersAre ==
  /\ "paren" \in Delimiters /\ "square" \in Delimiters /\ "brace" \in Delimiters
  /\ Opener["paren"] = "l_paren" /\ Opener["square"] = "l_square" /\ Opener["brace"] = "l_brace"
  /\ Closer["paren"] = "r_paren" /\ Closer["square"] = "r_square" /\ Closer["brace"] = "r_brace"
BY DEF Delimiters, Opener, Closer

(* Around one entry, and nothing after it.                                 *)
LEMMA OpenAround ==
  ASSUME Inv, todo # << >>, todo[1][1] \notin Ends \cup Headers, NEW d \in Delimiters, NEW x,
         Open(d, <<x>>), Inside(todo[1], x), errors = "none" => tok = Opener[d]
  PROVE  Step
<1>1. Good(todo[1], << >>, errors, "eof") /\ Good(todo[1], << >>, "reported", "eof")
  BY Good0
<1>2. OpenAs(d, "plain", <<x>>, << >>)
  BY DEF Open
<1> QED
  BY <1>1, <1>2, OpenStep

(* A skip after an error, alone or before a result.                        *)
LEMMA GoodSkip ==
  ASSUME NEW f, NEW err, NEW t, NEW skip, skip[1] = "SkipUntil", f[1] \notin Headers, err # "none"
  PROVE  Good(f, <<skip>>, err, t)
<1>1. Starts(skip, t, err)
  BY Unready DEF Ready, AtBrace, AtParen
<1> QED
  BY <1>1, Good1
     DEF Final, Heir, Takes, Typed, Claims, Levels, Headers, InPair, InRange, OfFor, MayGuard

LEMMA GoodSkipReturn ==
  ASSUME NEW f, NEW err, NEW t, NEW r \in Results, f[1] \notin Headers, err # "none"
  PROVE  Good(f, SkipToSemi \o << <<"Return", r>> >>, err, t)
<1>1. PICK skip, return : skip = Skip({"semi"}, FALSE, TRUE) /\ return = <<"Return", r>>
  OBVIOUS
<1>2. skip[1] = "SkipUntil" /\ return[1] = "Return" /\ return[2] \in Results
  BY <1>1 DEF Skip
<1>3. Inner(f, skip, err) /\ Final(f, return, err)
  BY <1>2 DEF Inner, Final, Heir, OnAny, Takes, Typed, Claims, Levels, Headers, InPair, InRange,
              OfFor, MayGuard
<1>4. skip[1] \notin Ready(err) /\ return[1] \notin Ready(err)
  BY <1>2 DEF Ready, AtBrace, AtParen
<1>5. Good(f, <<skip, return>>, err, t)
  BY <1>3, <1>4, Unready, Good2
<1> QED
  BY <1>1, <1>5, Literals2 DEF SkipToSemi

(* Leaving a tracker with nothing, or with a skip, to do.                  *)
LEMMA LeaveTracker ==
  ASSUME Inv, todo # << >>, todo[1][1] \in InPair, Stay, errors' \in {"reported", "silent"}
  PROVE  /\ Abandon(<< >>) => Step
         /\ \A skip : skip[1] = "SkipUntil" /\ Abandon(<<skip>>) => Step
<1>1. todo[2][1] \notin Headers
  BY Here DEF Headers
<1>2. Read
  BY Stays
<1>3. Abandon(<< >>) => Step
  BY <1>1, <1>2, Good0, AbandonStep
<1>4. ASSUME NEW skip, skip[1] = "SkipUntil", Abandon(<<skip>>)
      PROVE  Step
  <2>1. Good(todo[2], <<skip>>, errors', tok')
    BY <1>1, <1>4, GoodSkip
  <2> QED
    BY <1>2, <1>4, <2>1, AbandonStep
<1> QED
  BY <1>3, <1>4

(* Two or three entries pushed at once or one by one.                      *)
LEMMA Entries2 ==
  ASSUME NEW a, NEW b, NEW t, AnySeq(t)
  PROVE  <<a, b>> \o t = <<a>> \o (<<b>> \o t)
<1>1. AnySeq(<<a>>) /\ AnySeq(<<b>>)
  BY AnySeqs
<1>2. (<<a>> \o <<b>>) \o t = <<a>> \o (<<b>> \o t)
  BY ONLY <1>1, Associative
<1> QED
  BY <1>2, Literals2

LEMMA Entries3 ==
  ASSUME NEW a, NEW b, NEW c, NEW t, AnySeq(t)
  PROVE  <<a, b, c>> \o t = <<a>> \o (<<b>> \o (<<c>> \o t))
<1>1. PICK p, q, r : p = <<a>> /\ q = <<b>> /\ r = <<c>>
  OBVIOUS
<1>2. AnySeq(p) /\ AnySeq(q) /\ AnySeq(r)
  BY <1>1, AnySeqs
<1>3. (p \o q \o r) \o t = p \o (q \o (r \o t))
  BY ONLY <1>2, Assembled
<1>4. <<a>> \o <<b>> = <<a, b>> /\ <<a, b>> \o <<c>> = <<a, b, c>>
  BY Literals2, Literals3
<1> QED
  BY <1>1, <1>3, <1>4

(* A tracker whose opener has been consumed, with an entry after it.       *)
LEMMA EnterStep ==
  ASSUME Inv, todo # << >>, todo[1][1] \notin Ends \cup Headers, NEW d \in Delimiters,
         tok = Opener[d], Eat, Quiet, Clear, UNCHANGED <<guard, isType>>,
         NEW cleared \in BOOLEAN, needsParens' = IF cleared THEN FALSE ELSE needsParens,
         NEW x, NEW r, Do(<<x, CloseAs(d, "plain", cleared), r>>), Inside(todo[1], x),
         Final(todo[1], r, errors), r[1] \notin Ready("none")
  PROVE  Step
<1>1. PICK cl, t, after : /\ cl = CloseAs(d, "plain", cleared) /\ t = Tail(todo) /\ after = <<r>>
  OBVIOUS
<1>2. /\ cl[1] = "Close" /\ cl[2] = d /\ cl[3] = needsParens /\ cl[5] = cleared
  BY <1>1 DEF CloseAs
<1>3. AnySeq(t)
  BY <1>1, Split
<1>4. PICK new : new = todo'
  OBVIOUS
<1>5. new = <<x>> \o (<<cl>> \o (after \o t))
  <2>1. new = <<x, cl, r>> \o t
    BY <1>1, <1>4 DEF Do
  <2>2. <<x, cl, r>> \o t = <<x>> \o (<<cl>> \o (<<r>> \o t))
    BY ONLY <1>3, Entries3
  <2> QED
    BY <1>1, <2>1, <2>2
<1>6. Good(todo[1], after, errors, "eof")
  BY <1>1, Good1 DEF Ready, Starts
<1> QED
  BY <1>1, <1>2, <1>4, <1>5, <1>6, EnteredStep

(* The parameters of the first entry.                                      *)
LEMMA ArgIs ==
  Arg(1) = todo[1][2] /\ Arg(2) = todo[1][3] /\ Arg(3) = todo[1][4]
BY DEF Arg

-----------------------------------------------------------------------------
(* Every action is one of these moves.                                     *)

LEMMA CoreSteps ==
  ASSUME Inv, CoreStep
  PROVE  Step
<1> USE DEF At, Arg, Inner, Final, Heir, OnAny, Takes, Typed, Claims, Failing, InRange, OfFor,
       Starts, Levels, Headers, InPair, Ready, AtBrace, AtParen, MayGuard, Ends, Brackets,
       Skip, SkipToSemi
<1>1. CASE Return
  <2>1. /\ todo[1][2] \in Results
        /\ errors = "none" => todo[1][2] \notin {"fail", "unclosed"}
    BY <1>1, Here DEF Return
  <2>2. Read /\ counts' = counts /\ errors' = errors
    BY <1>1, Stays DEF Return, Quiet
  <2>3. "Normal" \in Kinds /\ errors \in {"none", "reported", "silent"}
    BY DEF Kinds, Inv, TypeOK
  <2> QED
    BY <1>1, <2>1, <2>2, <2>3, AnswerStep DEF Return, Answer
<1>2. CASE OnFail
  <2>1. errors = "none" => ret # "fail"
    BY <1>2, Here DEF OnFail
  <2>2. todo[1][2] = SkipToSemi
    BY <1>2, Here DEF OnFail
  <2>3. PICK steps : steps = IF ret = "fail" THEN Arg(1) ELSE << >>
    OBVIOUS
  <2>4. PICK skip : skip = Skip({"semi"}, FALSE, TRUE)
    OBVIOUS
  <2>5. Good(todo[1], << >>, errors, tok)
    BY <1>2, Good0 DEF OnFail
  <2>6. errors # "none" => Good(todo[1], <<skip>>, errors, tok)
    BY <1>2, <2>4, GoodSkip DEF OnFail
  <2>7. Good(todo[1], steps, errors, tok)
    <3>1. ret = "fail" => steps = <<skip>>
      <4> HIDE DEF Skip
      <4>1. ret = "fail" => steps = todo[1][2]
        BY <2>3
      <4> QED
        BY <2>2, <2>4, <4>1, Zenon
    <3>2. ret # "fail" => steps = << >>
      BY <2>3
    <3> QED
      BY ONLY <2>1, <2>5, <2>6, <3>1, <3>2
  <2> QED
    BY <1>2, <2>3, <2>7, ContinueStep DEF OnFail
<1>3. CASE SkipUntil
  <2>1. At("SkipUntil") /\ errors # "none"
    BY <1>3, Here DEF SkipUntil
  <2>2. CASE Continue(<< >>)
    BY <2>1, <2>2, ContinueStep, Good0
  <2>3. CASE Advance(<< >>)
    BY <2>1, <2>3, AdvanceStep, Good0
  <2>4. PICK again : again = <<"SkipUntil", Arg(1), Arg(2), Arg(3), FALSE>>
    OBVIOUS
  <2>5. CASE Advance(<<again>>)
    BY <2>1, <2>4, <2>5, AdvanceStep, Good1
  <2>6. ASSUME NEW d \in Delimiters, Advance(<<Skip({Closer[d]}, FALSE, FALSE), again>>)
        PROVE  Step
    <3>1. PICK skip : skip = Skip({Closer[d]}, FALSE, FALSE)
      OBVIOUS
    <3>2. skip[1] = "SkipUntil" /\ again[1] = "SkipUntil"
      BY <2>4, <3>1
    <3>3. Good(todo[1], <<skip, again>>, errors, tok')
      BY <2>1, <3>2, Good2
    <3> QED
      BY <2>1, <2>6, <3>1, <3>3, AdvanceStep
  <2>7. \/ Continue(<< >>) \/ Advance(<< >>) \/ Advance(<<again>>)
        \/ \E d \in Delimiters : Advance(<<Skip({Closer[d]}, FALSE, FALSE), again>>)
    BY <1>3, <2>4 DEF SkipUntil
  <2> QED
    BY <2>2, <2>3, <2>5, <2>6, <2>7
<1>4. CASE ExpectSemi
  <2>1. At("ExpectSemi") /\ todo[1][2] \in {<< >>, <<Skip({"semi"}, TRUE, FALSE)>>}
    BY <1>4, Here DEF ExpectSemi
  <2>2. CASE tok = "semi" /\ Advance(<< >>)
    BY <2>1, <2>2, AdvanceStep, Good0
  <2>3. CASE Eat /\ Diag /\ Do(<< >>) /\ Plain
    BY <2>1, <2>3, ConsumeStep, Good0
  <2>4. CASE Complain(Arg(1))
    <3>1. PICK steps, skip : steps = Arg(1) /\ skip = Skip({"semi"}, TRUE, FALSE)
      OBVIOUS
    <3>2. Good(todo[1], << >>, "reported", tok)
      BY <2>1, Good0
    <3>3. Good(todo[1], <<skip>>, "reported", tok)
      BY <2>1, <3>1, GoodSkip
    <3>4. steps = << >> \/ steps = <<skip>>
      <4> HIDE DEF Skip
      <4>1. steps = todo[1][2]
        BY <3>1
      <4> QED
        BY <2>1, <3>1, <4>1, Zenon
    <3>5. Good(todo[1], steps, "reported", tok)
      BY ONLY <3>2, <3>3, <3>4
    <3> QED
      BY <2>1, <2>4, <3>1, <3>5, ComplainStep
  <2> QED
    BY <1>4, <2>2, <2>3, <2>4 DEF ExpectSemi
<1>5. CASE ConsumeClose
  BY <1>5, CloseStep
<1>6. CASE LateClose
  <2>1. At("LateClose") /\ errors # "none" /\ todo[1][3] \in Results
    BY <1>6, Here DEF LateClose
  <2>2. Read /\ errors' = errors
    BY <1>6, Eats, Stays DEF LateClose, Quiet
  <2>3. "Normal" \in Kinds /\ errors \in {"none", "reported", "silent"}
    BY DEF Kinds, Inv, TypeOK
  <2> QED
    BY <1>6, <2>1, <2>2, <2>3, AnswerStep DEF LateClose, Answer
<1> QED
  BY <1>1, <1>2, <1>3, <1>4, <1>5, <1>6 DEF CoreStep

(* Declarations, ...                                                       *)
LEMMA DeclSteps ==
  ASSUME Inv, DeclStep
  PROVE  Step
<1> USE DEF At, Arg, Inner, Final, Heir, OnAny, Takes, Typed, Claims, Failing,
      InRange, OfFor, Starts, Levels, Headers, InPair, Ready, AtBrace, AtParen,
      MayGuard, Ends, Brackets, Skip, SkipToSemi, SemiOrSkip, SpecEnd, DeclKeywords,
      ImportSpecStart
<1>1. CASE ParseSourceFile
  BY <1>1, ContinueStep, ComplainStep, AdvanceStep, Good0, Good1, Good2,
     Good3 DEF ParseSourceFile
<1>2. CASE ParsePackageClause
  <2>1. CASE At("PackageClause") /\ Complain(<<Skip({"semi"}, TRUE, FALSE)>>)
    BY <2>1, ComplainStep, Good1
  <2>2. CASE At("PackageClause") /\ tok = "identifier" /\ Advance(<< <<"ExpectSemi", << >>>> >>)
    BY <2>2, AdvanceStep, Good1
  <2>3. CASE /\ At("PackageClause")
            /\ Eat /\ Diag /\ Do(<<Skip({"semi"}, TRUE, FALSE)>>) /\ Plain
    BY <2>3, ConsumeStep, Good1
  <2> QED
    BY <1>2, <2>1, <2>2, <2>3 DEF ParsePackageClause
<1>3. CASE ImportDecls
  BY <1>3, ContinueStep, ComplainStep, AdvanceStep, Good0, Good1, Good2,
     Good3 DEF ImportDecls
<1>4. CASE ParseImportDecl
  <2>1. CASE At("ImportDecl") /\ tok = "l_paren" /\ Open("paren", << <<"ImportSpecs">> >>)
    BY <2>1, OpenAround, OpenersAre DEF Inside
  <2>2. CASE /\ At("ImportDecl") /\ tok \in ImportSpecStart
            /\ Continue(<< <<"ImportSpec">>, <<"OnFail", SkipToSemi>> >>)
    BY <2>2, ContinueStep, Good2
  <2>3. CASE /\ At("ImportDecl") /\ tok \notin {"l_paren"} \cup ImportSpecStart
            /\ Continue(<< <<"ImportAssertionFails">> >>)
    BY <2>3, ContinueStep, Good1
  <2> QED
    BY <1>4, <2>1, <2>2, <2>3 DEF ParseImportDecl
<1>5. CASE ImportSpecs
  <2>1. CASE At("ImportSpecs") /\ Continue(<< >>)
    BY <2>1, ContinueStep, Good0
  <2>2. CASE At("ImportSpecs") /\ Complain(SkipToSemi \o << <<"ImportSemi">> >>)
    BY <2>2, ComplainStep, Good2, Literals2
  <2>3. CASE /\ At("ImportSpecs") /\ tok \in ImportSpecStart
            /\ Continue(<< <<"ImportSpec">>, <<"OnFail", SkipToSemi>>, <<"ImportSemi">> >>)
    BY <2>3, ContinueStep, Good3
  <2> QED
    BY <1>5, <2>1, <2>2, <2>3 DEF ImportSpecs
<1>6. CASE ImportSemi
  BY <1>6, ContinueStep, ComplainStep, AdvanceStep, Good0, Good1, Good2,
     Good3 DEF ImportSemi
<1>7. CASE ParseImportSpec
  BY <1>7, ContinueStep, ComplainStep, AdvanceStep, Good0, Good1, Good2,
     Good3 DEF ParseImportSpec
<1>8. CASE ImportPath
  <2>1. CASE At("ImportPath") /\ tok = "string_literal" /\ Advance(<< >>)
    BY <2>1, AdvanceStep, Good0
  <2>2. CASE At("ImportPath") /\ Complain(<< >>)
    BY <2>2, ComplainStep, Good0
  <2>3. CASE At("ImportPath") /\ Fail
    BY <2>3, FailStep
  <2> QED
    BY <1>8, <2>1, <2>2, <2>3 DEF ImportPath
<1>9. CASE ParseTopLevelDecl
  <2>1. CASE At("TopLevelDecls") /\ Continue(<< >>)
    BY <2>1, ContinueStep, Good0
  <2>2. CASE /\ At("TopLevelDecls") /\ tok = "kw_func"
            /\ Advance(<< <<"FunctionOrMethod">> >> \o <<SemiOrSkip, <<"TopLevelDecls">> >>)
    BY <2>2, AdvanceStep, Joined3, Good3
  <2>3. CASE /\ At("TopLevelDecls") /\ tok \in DeclKeywords
            /\ Continue(<< <<"Declaration">> >> \o <<SemiOrSkip, <<"TopLevelDecls">> >>)
    BY <2>3, ContinueStep, Joined3, Good3
  <2>4. CASE /\ At("TopLevelDecls")
            /\ Complain(SkipToSemi \o <<SemiOrSkip, <<"TopLevelDecls">> >>)
    BY <2>4, ComplainStep, Joined3, Good3
  <2> QED
    BY <1>9, <2>1, <2>2, <2>3, <2>4 DEF ParseTopLevelDecl
<1>10. CASE ParseFunctionOrMethodDecl
  <2>1. CASE /\ At("FunctionOrMethod") /\ tok = "identifier"
            /\ Advance(<< <<"FunctionSignature">>, <<"FunctionBody">> >>)
    BY <2>1, AdvanceStep, Good2
  <2>2. CASE /\ At("FunctionOrMethod") /\ tok = "l_paren"
            /\ Continue(<< <<"Receiver">>, <<"MethodName">> >>
                        \o << <<"FunctionSignature">>, <<"FunctionBody">> >>)
    BY <2>2, ContinueStep, Good4, Joined4
  <2>3. CASE At("FunctionOrMethod") /\ Complain(SkipToSemi)
    BY <2>3, ComplainStep, Good1
  <2> QED
    BY <1>10, <2>1, <2>2, <2>3 DEF ParseFunctionOrMethodDecl
<1>11. CASE FunctionSignature
  BY <1>11, ContinueStep, ComplainStep, AdvanceStep, Good0, Good1, Good2,
     Good3 DEF FunctionSignature
<1>12. CASE FunctionBody
  BY <1>12, ContinueStep, ComplainStep, AdvanceStep, Good0, Good1, Good2,
     Good3 DEF FunctionBody
<1>13. CASE ParseReceiver
  <2>1. CASE At("Receiver") /\ Open("paren", << <<"ReceiverName">> >>)
    BY <2>1, Here, OpenAround, OpenersAre DEF Inside
  <2> QED
    BY <1>13, <2>1 DEF ParseReceiver
<1>14. CASE ReceiverName
  BY <1>14, ContinueStep, ComplainStep, AdvanceStep, Good0, Good1, Good2,
     Good3 DEF ReceiverName
<1>15. CASE ReceiverStar
  BY <1>15, ContinueStep, ComplainStep, AdvanceStep, Good0, Good1, Good2,
     Good3 DEF ReceiverStar
<1>16. CASE ReceiverType
  BY <1>16, ContinueStep, ComplainStep, AdvanceStep, Good0, Good1, Good2,
     Good3 DEF ReceiverType
<1>17. CASE MethodName
  BY <1>17, ContinueStep, ComplainStep, AdvanceStep, Good0, Good1, Good2,
     Good3 DEF MethodName
<1>18. CASE ParseDeclaration
  <2>1. CASE At("Declaration") /\ Advance(<< <<"DeclSpecs", tok>> >>)
    BY <2>1, Here, AdvanceStep, Good1
  <2> QED
    BY <1>18, <2>1 DEF ParseDeclaration
<1>19. CASE DeclSpecs
  <2>1. CASE At("DeclSpecs") /\ tok = "identifier" /\ Advance(<< <<"Spec", Arg(1)>> >>)
    BY <2>1, AdvanceStep, Good1
  <2>2. CASE /\ At("DeclSpecs") /\ tok = "l_paren"
            /\ Open("paren", << <<"DeclGroup", Arg(1)>> >>)
    BY <2>2, OpenAround, OpenersAre DEF Inside
  <2>3. CASE At("DeclSpecs") /\ Complain(SkipToSemi)
    BY <2>3, ComplainStep, Good1
  <2> QED
    BY <1>19, <2>1, <2>2, <2>3 DEF DeclSpecs
<1>20. CASE ParseDeclGroup
  <2>1. CASE At("DeclGroup") /\ Continue(<< >>)
    BY <2>1, ContinueStep, Good0
  <2>2. CASE At("DeclGroup") /\ Stay /\ Diag /\ Abandon(<<Skip({"r_paren"}, FALSE, FALSE)>>)
    BY <2>2, LeaveTracker DEF Diag
  <2>3. CASE /\ At("DeclGroup") /\ tok = "identifier"
            /\ Advance(<< <<"Spec", Arg(1)>>, <<"DeclGroupNext", Arg(1)>> >>)
    BY <2>3, AdvanceStep, Good2
  <2> QED
    BY <1>20, <2>1, <2>2, <2>3 DEF ParseDeclGroup
<1>21. CASE DeclGroupNext
  <2>1. CASE /\ At("DeclGroupNext") /\ ret = "fail" /\ Stay /\ Quiet
            /\ Abandon(<<Skip({"r_paren"}, FALSE, FALSE)>>)
    BY <2>1, Here, LeaveTracker DEF Quiet, Inv, TypeOK
  <2>2. CASE /\ At("DeclGroupNext")
            /\ Complain(<<Skip({"r_paren"}, TRUE, TRUE), <<"DeclGroupSemi", Arg(1)>> >>)
    BY <2>2, ComplainStep, Good2
  <2>3. CASE At("DeclGroupNext") /\ Continue(<< <<"DeclGroupSemi", Arg(1)>> >>)
    BY <2>3, ContinueStep, Good1
  <2> QED
    BY <1>21, <2>1, <2>2, <2>3 DEF DeclGroupNext
<1>22. CASE DeclGroupSemi
  BY <1>22, ContinueStep, ComplainStep, AdvanceStep, Good0, Good1, Good2,
     Good3 DEF DeclGroupSemi
<1>23. CASE ParseSpec
  <2>1. CASE At("Spec") /\ Continue(<< <<"IdentifierList">>, <<"ConstType">> >>)
    BY <2>1, ContinueStep, Good2
  <2>2. CASE At("Spec") /\ Continue(<< <<"IdentifierList">>, <<"VarType">> >>)
    BY <2>2, ContinueStep, Good2
  <2>3. CASE At("Spec") /\ Continue(<< <<"Type">> >>)
    BY <2>3, ContinueStep, Good1
  <2>4. CASE At("Spec") /\ Fail
    BY <2>4, FailStep
  <2> QED
    BY <1>23, <2>1, <2>2, <2>3, <2>4 DEF ParseSpec
<1>24. CASE ParseIdentifierList
  BY <1>24, ContinueStep, ComplainStep, AdvanceStep, Good0, Good1, Good2,
     Good3 DEF ParseIdentifierList
<1>25. CASE ConstType
  <2>1. CASE At("ConstType") /\ Continue(<< >>)
    BY <2>1, ContinueStep, Good0
  <2>2. CASE At("ConstType") /\ Continue(<< <<"ConstEqual">> >>)
    BY <2>2, ContinueStep, Good1
  <2>3. CASE At("ConstType") /\ Continue(<< <<"Type">>, <<"ConstEqual">> >>)
    BY <2>3, ContinueStep, Good2
  <2>4. CASE At("ConstType") /\ Complain(SkipToSemi \o << <<"Return", "fail">> >>)
    BY <2>4, ComplainStep, Good2, Literals2 DEF Results
  <2> QED
    BY <1>25, <2>1, <2>2, <2>3, <2>4 DEF ConstType
<1>26. CASE ConstEqual
  BY <1>26, ContinueStep, ComplainStep, AdvanceStep, Good0, Good1, Good2,
     Good3 DEF ConstEqual
<1>27. CASE ConstValue
  <2>1. CASE At("ConstValue") /\ Continue(<< <<"ExpressionList", FALSE>> >>)
    BY <2>1, ContinueStep, Good1
  <2>2. CASE /\ At("ConstValue") /\ Stay /\ Do(<< >>) /\ Answer("fail")
            /\ errors' = IF errors = "none" THEN "silent" ELSE errors
    BY <2>2, AnswerStep, Stays DEF Answer, Results, Kinds, Inv, TypeOK
  <2> QED
    BY <1>27, <2>1, <2>2 DEF ConstValue
<1>28. CASE VarType
  <2>1. CASE At("VarType") /\ Continue(<< <<"VarEqual">> >>)
    BY <2>1, ContinueStep, Good1
  <2>2. CASE At("VarType") /\ Continue(<< <<"Type">>, <<"VarEqual">> >>)
    BY <2>2, ContinueStep, Good2
  <2>3. CASE At("VarType") /\ Complain(<<Skip(SpecEnd, FALSE, TRUE), <<"Return", "fail">> >>)
    BY <2>3, ComplainStep, Good2 DEF Results
  <2> QED
    BY <1>28, <2>1, <2>2, <2>3 DEF VarType
<1>29. CASE VarEqual
  <2>1. CASE At("VarEqual") /\ tok \in SpecEnd /\ Continue(<< >>)
    BY <2>1, ContinueStep, Good0
  <2>2. CASE At("VarEqual") /\ tok = "equal" /\ Advance(<< <<"ExpressionList", FALSE>> >>)
    BY <2>2, AdvanceStep, Good1
  <2>3. CASE /\ At("VarEqual")
            /\ Complain(<< <<"ExpressionList", FALSE>>, <<"Return", "fail">> >>)
    BY <2>3, ComplainStep, Good2 DEF Results
  <2> QED
    BY <1>29, <2>1, <2>2, <2>3 DEF VarEqual
<1>30. CASE ParseSignature
  <2>1. CASE At("Signature") /\ Continue(<< <<"Parameters">>, <<"Result">> >>)
    BY <2>1, Here, ContinueStep, Good2
  <2>2. CASE At("Result") /\ tok = "l_paren" /\ Continue(<< <<"Parameters">> >>)
    BY <2>2, ContinueStep, Good1
  <2>3. CASE At("Result") /\ Continue(<< <<"Type">> >>)
    BY <2>3, ContinueStep, Good1
  <2>4. CASE At("Result") /\ Continue(<< >>)
    BY <2>4, ContinueStep, Good0
  <2> QED
    BY <1>30, <2>1, <2>2, <2>3, <2>4 DEF ParseSignature
<1>31. CASE ParseParameters
  <2>1. CASE At("Parameters") /\ Open("paren", << <<"ParameterList">> >>)
    BY <2>1, Here, OpenAround, OpenersAre DEF Inside
  <2>2. CASE At("ParameterList") /\ Continue(<< <<"ParameterDecl">>, <<"MoreParameters">> >>)
    BY <2>2, ContinueStep, Good2
  <2>3. CASE At("ParameterList") /\ Continue(<< <<"TrailingComma">> >>)
    BY <2>3, ContinueStep, Good1
  <2>4. CASE /\ At("MoreParameters") /\ tok = "comma"
            /\ Advance(<< <<"ParameterDecl">>, <<"MoreParameters">> >>)
    BY <2>4, AdvanceStep, Good2
  <2>5. CASE At("MoreParameters") /\ Continue(<< >>)
    BY <2>5, ContinueStep, Good0
  <2> QED
    BY <1>31, <2>1, <2>2, <2>3, <2>4, <2>5 DEF ParseParameters
<1>32. CASE TrailingComma
  BY <1>32, ContinueStep, ComplainStep, AdvanceStep, Good0, Good1, Good2,
     Good3 DEF TrailingComma
<1>33. CASE ParseParameterDecl
  BY <1>33, ContinueStep, ComplainStep, AdvanceStep, Good0, Good1, Good2,
     Good3 DEF ParseParameterDecl
<1>34. CASE ParameterDots
  BY <1>34, ContinueStep, ComplainStep, AdvanceStep, Good0, Good1, Good2,
     Good3 DEF ParameterDots
<1>35. CASE ParameterEnd
  <2>1. PICK idents, dots, steps :
          /\ idents = todo[1][2] /\ dots = todo[1][3]
          /\ steps = IF IsType THEN << <<"Type">> >> \o (IF ~ idents THEN << <<"Error">> >> ELSE << >>)
                    ELSE IF dots THEN << <<"Error">> >> ELSE << >>
    OBVIOUS
  <2>2. At("ParameterEnd") /\ Continue(steps)
    BY <1>35, <2>1 DEF ParameterEnd
  <2>3. CASE steps = << <<"Type">> >> \o << <<"Error">> >>
    BY <2>2, <2>3, ContinueStep, Good2, Literals2
  <2>4. CASE steps = << <<"Type">> >> \o << >>
    BY <2>2, <2>4, ContinueStep, Good1, AnySeqs, Concat
  <2>5. CASE steps = << <<"Error">> >>
    BY <2>2, <2>5, ContinueStep, Good1
  <2>6. CASE steps = << >>
    BY <2>2, <2>6, ContinueStep, Good0
  <2> QED
    BY <2>1, <2>3, <2>4, <2>5, <2>6, Zenon
<1>36. CASE Error
  BY <1>36, ContinueStep, ComplainStep, AdvanceStep, Good0, Good1, Good2,
     Good3 DEF Error
<1>37. CASE ParseTypeList
  <2>1. CASE At("TypeList") /\ tok = "comma" /\ Advance(<< <<"TypeAfterComma", Arg(1), Arg(2)>> >>)
    BY <2>1, AdvanceStep, Good1
  <2>2. CASE /\ At("TypeList") /\ Stay /\ Quiet /\ Do(<< >>)
            /\ Answer(IF Arg(1) THEN "idents" ELSE "types")
    BY <2>2, AnswerStep, Stays DEF Answer, Results, Kinds, Quiet, Inv, TypeOK
  <2>3. CASE /\ At("TypeAfterComma") /\ tok = "ellipsis"
            /\ Advance(<< <<"TypeInList", Arg(1), Arg(2)>> >>)
    BY <2>3, AdvanceStep, Good1
  <2>4. CASE /\ At("TypeAfterComma") /\ Eat /\ Diag
            /\ Do(<< <<"TypeInList", Arg(1), Arg(2)>> >>) /\ Plain
    BY <2>4, ConsumeStep, Good1
  <2>5. CASE At("TypeAfterComma") /\ Continue(<< <<"TypeInList", Arg(1), Arg(2)>> >>)
    BY <2>5, ContinueStep, Good1
  <2>6. CASE /\ At("TypeInList") /\ tok = "identifier"
            /\ Advance(<< <<"IdentInTypeList", Arg(1), Arg(2)>> >>)
    BY <2>6, AdvanceStep, Good1
  <2>7. CASE At("TypeInList") /\ Continue(<< <<"Type">>, <<"TypeList", FALSE, Arg(2)>> >>)
    BY <2>7, ContinueStep, Good2
  <2>8. CASE /\ At("IdentInTypeList")
            /\ Continue(<< <<"TypeNameTail">>, <<"TypeList", FALSE, Arg(2)>> >>)
    BY <2>8, ContinueStep, Good2
  <2>9. CASE At("IdentInTypeList") /\ Continue(<< <<"TypeList", Arg(1), Arg(2)>> >>)
    BY <2>9, ContinueStep, Good1
  <2> QED
    BY <1>37, <2>1, <2>2, <2>3, <2>4, <2>5, <2>6, <2>7, <2>8, <2>9 DEF ParseTypeList
<1> QED
  BY <1>1, <1>2, <1>3, <1>4, <1>5, <1>6, <1>7, <1>8, <1>9, <1>10, <1>11, <1>12,
     <1>13, <1>14, <1>15, <1>16, <1>17, <1>18, <1>19, <1>20, <1>21, <1>22, <1>23,
     <1>24, <1>25, <1>26, <1>27, <1>28, <1>29, <1>30, <1>31, <1>32, <1>33, <1>34,
     <1>35, <1>36, <1>37 DEF DeclStep

(* ... types, ...                                                          *)
LEMMA TypeSteps ==
  ASSUME Inv, TypeStep
  PROVE  Step
<1> USE DEF At, Arg, Inner, Final, Heir, OnAny, Takes, Typed, Claims, Failing,
      InRange, OfFor, Starts, Levels, Headers, InPair, Ready, AtBrace, AtParen,
      MayGuard, Ends, Brackets, Skip, SkipToSemi
<1>1. CASE ParseType
  <2>1. CASE At("Type") /\ tok = "identifier" /\ Advance(<< <<"TypeNameTail">> >>)
    BY <2>1, AdvanceStep, Good1
  <2>2. CASE /\ At("Type") /\ tok = "l_paren"
            /\ OpenAs("paren", "keep", << <<"Type">> >>, << >>)
    <3>1. Inside(todo[1], <<"Type">>)
      BY <2>2 DEF Inside
    <3>2. Good(todo[1], << >>, errors, "eof") /\ Good(todo[1], << >>, "reported", "eof")
      BY <2>2, Good0
    <3> QED
      BY <2>2, <3>1, <3>2, OpenStep, OpenersAre
  <2>3. CASE /\ At("Type") /\ tok = "l_square"
            /\ OpenAs("square", "plain", << <<"ArrayBound">> >>, << <<"ArrayElement">> >>)
    <3>1. Inside(todo[1], <<"ArrayBound">>)
      BY <2>3 DEF Inside
    <3>2. PICK after : after = << <<"ArrayElement">> >>
      OBVIOUS
    <3>3. Good(todo[1], after, errors, "eof") /\ Good(todo[1], after, "reported", "eof")
      BY <2>3, <3>2, Good1
    <3> QED
      BY <2>3, <3>1, <3>2, <3>3, OpenStep, OpenersAre
  <2>4. CASE At("Type") /\ tok = "kw_struct" /\ Advance(<< <<"MembersOf", "FieldDecl">> >>)
    BY <2>4, AdvanceStep, Good1
  <2>5. CASE At("Type") /\ tok = "kw_interface" /\ Advance(<< <<"MembersOf", "MethodSpec">> >>)
    BY <2>5, AdvanceStep, Good1
  <2>6. CASE At("Type") /\ tok = "star" /\ Advance(<< <<"PointeeType">> >>)
    BY <2>6, AdvanceStep, Good1
  <2>7. CASE At("Type") /\ tok = "kw_func" /\ Advance(<< <<"FunctionType">> >>)
    BY <2>7, AdvanceStep, Good1
  <2>8. CASE At("Type") /\ tok = "kw_map" /\ Advance(<< <<"MapType">> >>)
    BY <2>8, AdvanceStep, Good1
  <2>9. CASE At("Type") /\ tok = "kw_chan" /\ Advance(<< <<"ChannelArrow">> >>)
    BY <2>9, AdvanceStep, Good1
  <2>10. CASE At("Type") /\ tok = "lessminus" /\ Advance(<< <<"RecvChannel">> >>)
    BY <2>10, AdvanceStep, Good1
  <2>11. CASE At("Type") /\ Continue(<< <<"Unreachable">> >>)
    BY <2>11, ContinueStep, Good1
  <2> QED
    BY <1>1, <2>1, <2>2, <2>3, <2>4, <2>5, <2>6, <2>7, <2>8, <2>9, <2>10, <2>11 DEF ParseType
<1>2. CASE ParseTypeNameTail
  <2>1. CASE At("TypeNameTail") /\ tok = "period" /\ Advance(<< <<"QualifiedName">> >>)
    BY <2>1, AdvanceStep, Good1
  <2>2. CASE At("TypeNameTail") /\ Continue(<< >>)
    BY <2>2, ContinueStep, Good0
  <2>3. CASE At("TypeNameTail") /\ Fail
    BY <2>3, FailStep
  <2>4. CASE At("QualifiedName") /\ tok = "identifier" /\ Advance(<< >>)
    BY <2>4, AdvanceStep, Good0
  <2>5. CASE /\ At("QualifiedName")
            /\ Complain(<<Skip({"l_brace", "r_brace", "semi"}, FALSE, TRUE), <<"Return", "fail">> >>)
    BY <2>5, ComplainStep, Good2 DEF Results
  <2> QED
    BY <1>2, <2>1, <2>2, <2>3, <2>4, <2>5 DEF ParseTypeNameTail
<1>3. CASE ParseArrayOrSliceType
  <2>1. CASE At("ArrayBound") /\ Continue(<< >>)
    BY <2>1, ContinueStep, Good0
  <2>2. CASE At("ArrayBound") /\ Continue(<< <<"Expression", FALSE, FALSE>> >>)
    BY <2>2, ContinueStep, Good1
  <2>3. CASE /\ At("ArrayElement") /\ ret = "unclosed"
            /\ Continue(SkipToSemi \o << <<"Return", "fail">> >>)
    BY <2>3, Here, ContinueStep, GoodSkipReturn DEF Results
  <2>4. CASE At("ArrayElement") /\ Continue(<< <<"Type">> >>)
    BY <2>4, ContinueStep, Good1
  <2>5. CASE At("ArrayElement") /\ Fail
    BY <2>5, FailStep
  <2> QED
    BY <1>3, <2>1, <2>2, <2>3, <2>4, <2>5 DEF ParseArrayOrSliceType
<1>4. CASE ParseStructType
  <2>1. PICK m : At("MembersOf") /\ m = Arg(1) /\ m \in {"FieldDecl", "MethodSpec"}
    BY <1>4, Here DEF ParseStructType
  <2>2. CASE /\ tok = Opener["brace"] /\ Eat /\ Quiet /\ Clear /\ Opened /\ UNCHANGED <<guard, isType>>
             /\ Do(<< <<"Members", m>>, CloseAs("brace", "plain", TRUE), <<"Return", "ok">> >>)
    <3>1. Inside(todo[1], <<"Members", m>>) /\ Final(todo[1], <<"Return", "ok">>, errors)
      BY <2>1 DEF Inside, Results
    <3>2. needsParens' = IF TRUE THEN FALSE ELSE needsParens
      BY <2>2 DEF Opened
    <3> QED
      BY <2>1, <2>2, <3>1, <3>2, EnterStep, OpenersAre
  <2>3. CASE Complain(<<SkipToEnd>> \o << <<"Return", "fail">> >>)
    BY <2>1, <2>3, ComplainStep, Good2, Literals2 DEF SkipToEnd, Results
  <2>4. CASE Complain(SkipToSemi \o << <<"Return", "fail">> >>)
    BY <2>1, <2>4, ComplainStep, GoodSkipReturn DEF Results
  <2> QED
    BY <1>4, <2>1, <2>2, <2>3, <2>4, OpenersAre DEF ParseStructType, ConsumeOpen
<1>5. CASE Members
  <2>1. PICK m : At("Members") /\ m = Arg(1) /\ m \in {"FieldDecl", "MethodSpec"}
    BY <1>5, Here DEF Members
  <2>2. CASE Continue(<< >>)
    BY <2>1, <2>2, ContinueStep, Good0
  <2>3. CASE NoMember(m)
    BY <2>1, <2>3, ComplainStep, Good2 DEF NoMember, SkipMember
  <2>4. CASE /\ tok \in MemberStart(m)
             /\ Continue(<< <<m>>, <<"AfterMember", m>> >>)
    BY <2>1, <2>4, ContinueStep, Good2 DEF MemberStart
  <2> QED
    BY <1>5, <2>1, <2>2, <2>3, <2>4 DEF Members
<1>6. CASE AfterMember
  <2>1. PICK m : At("AfterMember") /\ m = Arg(1) /\ m \in {"FieldDecl", "MethodSpec"}
    BY <1>6, Here DEF AfterMember
  <2>2. CASE ret = "fail" /\ Continue(<<SkipMember, <<"MemberSemi", m>> >>)
    BY <2>1, <2>2, Here, ContinueStep, Good2 DEF SkipMember
  <2>3. CASE Complain(<<SkipMember, <<"MemberSemi", m>> >>)
    BY <2>1, <2>3, ComplainStep, Good2 DEF SkipMember
  <2>4. CASE Continue(<< <<"MemberSemi", m>> >>)
    BY <2>1, <2>4, ContinueStep, Good1
  <2> QED
    BY <1>6, <2>1, <2>2, <2>3, <2>4 DEF AfterMember
<1>7. CASE MemberSemi
  <2>1. PICK m : At("MemberSemi") /\ m = Arg(1) /\ m \in {"FieldDecl", "MethodSpec"}
    BY <1>7, Here DEF MemberSemi
  <2>2. CASE tok = "semi" /\ Advance(<< <<"Members", m>> >>)
    BY <2>1, <2>2, AdvanceStep, Good1
  <2>3. CASE Continue(<< <<"Members", m>> >>)
    BY <2>1, <2>3, ContinueStep, Good1
  <2> QED
    BY <1>7, <2>1, <2>2, <2>3 DEF MemberSemi
<1>8. CASE ParseFieldDecl
  <2>1. CASE /\ At("FieldDecl") /\ tok = "star"
            /\ Advance(<< <<"AnonymousField">>, <<"FieldTag">> >>)
    BY <2>1, AdvanceStep, Good2
  <2>2. CASE At("FieldDecl") /\ Advance(<< <<"FieldNames">> >>)
    BY <2>2, Here, AdvanceStep, Good1
  <2>3. CASE At("AnonymousField") /\ tok = "identifier" /\ Advance(<< <<"TypeNameTail">> >>)
    BY <2>3, AdvanceStep, Good1
  <2>4. CASE At("FieldNames") /\ Continue(<< <<"IdentifierList">>, <<"FieldType">> >>)
    BY <2>4, ContinueStep, Good2
  <2>5. CASE At("FieldNames") /\ Continue(<< <<"FieldType">> >>)
    BY <2>5, ContinueStep, Good1
  <2>6. CASE At("FieldNames") /\ Continue(<< <<"TypeNameTail">>, <<"FieldTag">> >>)
    BY <2>6, ContinueStep, Good2
  <2>7. CASE At("FieldType") /\ Continue(<< <<"Type">>, <<"FieldTag">> >>)
    BY <2>7, ContinueStep, Good2
  <2>8. CASE \/ At("AnonymousField") /\ Fail
             \/ At("FieldType") /\ Fail
    BY <2>8, FailStep
  <2>9. CASE /\ At("FieldTag") /\ Quiet /\ Do(<< >>) /\ Answer(ret)
            /\ IF tok = "string_literal" THEN Eat ELSE Stay
    <3>1. Read /\ counts' = counts
      BY <2>9, Eats, Stays, BracketsAre
    <3>2. ret \in Results /\ "Normal" \in Kinds /\ errors \in {"none", "reported", "silent"}
      BY DEF Results, Kinds, Inv, TypeOK
    <3>3. errors = "none" => ret \notin {"fail", "unclosed"}
      BY <2>9, Here
    <3> QED
      BY <2>9, <3>1, <3>2, <3>3, AnswerStep DEF Answer, Quiet
  <2> QED
    BY <1>8, <2>1, <2>2, <2>3, <2>4, <2>5, <2>6, <2>7, <2>8, <2>9 DEF ParseFieldDecl
<1>9. CASE ParseMethodSpec
  <2>1. CASE At("MethodSpec") /\ Advance(<< <<"MethodSpecTail">> >>)
    BY <2>1, Here, AdvanceStep, Good1
  <2>2. CASE /\ At("MethodSpecTail") /\ tok = "l_paren"
            /\ Continue(<< <<"Signature">>, <<"Return", "ok">> >>)
    BY <2>2, ContinueStep, Good2 DEF Results
  <2>3. CASE At("MethodSpecTail") /\ Continue(<< <<"TypeNameTail">> >>)
    BY <2>3, ContinueStep, Good1
  <2> QED
    BY <1>9, <2>1, <2>2, <2>3 DEF ParseMethodSpec
<1>10. CASE ParsePointerType
  <2>1. CASE At("PointeeType") /\ Continue(<< <<"Type">> >>)
    BY <2>1, ContinueStep, Good1
  <2>2. CASE At("PointeeType") /\ Complain(SkipToSemi \o << <<"Return", "fail">> >>)
    BY <2>2, ComplainStep, GoodSkipReturn DEF Results
  <2> QED
    BY <1>10, <2>1, <2>2 DEF ParsePointerType
<1>11. CASE ParseFunctionType
  <2>1. CASE /\ At("FunctionType") /\ tok = "l_paren"
            /\ Continue(<< <<"Signature">>, <<"Return", "ok">> >>)
    BY <2>1, ContinueStep, Good2 DEF Results
  <2>2. CASE At("FunctionType") /\ Complain(SkipToSemi \o << <<"Return", "fail">> >>)
    BY <2>2, ComplainStep, GoodSkipReturn DEF Results
  <2> QED
    BY <1>11, <2>1, <2>2 DEF ParseFunctionType
<1>12. CASE ParseMapType
  <2>1. CASE At("MapType") /\ Complain(SkipToSemi \o << <<"Return", "fail">> >>)
    BY <2>1, ComplainStep, GoodSkipReturn DEF Results
  <2>2. CASE /\ At("MapType") /\ tok = "l_square"
            /\ Advance(<< <<"MapKey">>, CloseAs("square", "plain", FALSE), <<"MapValue">> >>)
    <3>1. Inside(todo[1], <<"MapKey">>) /\ Final(todo[1], <<"MapValue">>, errors)
      BY <2>2 DEF Inside
    <3>2. tok = Opener["square"] /\ Eat /\ Quiet /\ Clear /\ UNCHANGED <<guard, isType>>
          /\ needsParens' = IF FALSE THEN FALSE ELSE needsParens
      BY <2>2, OpenersAre DEF Advance, Plain
    <3> QED
      BY <2>2, <3>1, <3>2, EnterStep, OpenersAre DEF Advance
  <2>3. CASE /\ At("MapType") /\ Eat /\ Diag /\ Plain
            /\ Do(<<SkipToEnd>> \o (SkipToSemi \o << <<"Return", "fail">> >>))
    <3>1. PICK s, k, r : s = SkipToEnd /\ k = Skip({"semi"}, FALSE, TRUE) /\ r = <<"Return", "fail">>
      OBVIOUS
    <3>2. Good(todo[1], <<s, k, r>>, "reported", tok')
      BY <2>3, <3>1, Good3 DEF SkipToEnd, Results
    <3>3. Good(todo[1], <<s>> \o <<k, r>>, "reported", tok')
      BY <3>2, Joined3
    <3>4. <<k>> \o <<r>> = <<k, r>>
      BY Literals2
    <3>5. Do(<<s>> \o <<k, r>>)
      BY ONLY <2>3, <3>1, <3>4 DEF SkipToSemi
    <3> QED
      BY <2>3, <3>3, <3>5, ConsumeStep
  <2>4. CASE At("MapKey") /\ Continue(<< <<"Type">> >>)
    BY <2>4, ContinueStep, Good1
  <2>5. CASE /\ At("MapKey") /\ Stay /\ Diag
            /\ Abandon(SkipToSemi \o << <<"Return", "unclosed">> >>)
    <3>1. todo[2][1] = "Close"
      BY <2>5, Here
    <3>2. Good(todo[2], SkipToSemi \o << <<"Return", "unclosed">> >>, "reported", tok)
      BY <3>1, GoodSkipReturn DEF Results
    <3>3. Read /\ tok' = tok
      BY <2>5, Stays
    <3> QED
      BY <2>5, <3>2, <3>3, AbandonStep DEF Diag
  <2>6. CASE At("MapValue") /\ ret = "unclosed" /\ Continue(<< <<"Return", "fail">> >>)
    BY <2>6, Here, ContinueStep, Good1 DEF Results
  <2>7. CASE At("MapValue") /\ Complain(SkipToSemi \o << <<"Return", "fail">> >>)
    BY <2>7, ComplainStep, GoodSkipReturn DEF Results
  <2>8. CASE /\ At("MapValue") /\ ret = "fail"
            /\ Continue(<< <<"Type">>, <<"Return", "fail">> >>)
    BY <2>8, Here, ContinueStep, Good2 DEF Results
  <2>9. CASE At("MapValue") /\ Continue(<< <<"Type">> >>)
    BY <2>9, ContinueStep, Good1
  <2> QED
    BY <1>12, <2>1, <2>2, <2>3, <2>4, <2>5, <2>6, <2>7, <2>8, <2>9 DEF ParseMapType
<1>13. CASE ParseChannelType
  <2>1. CASE At("ChannelArrow") /\ tok = "lessminus" /\ Advance(<< <<"ChannelElement">> >>)
    BY <2>1, AdvanceStep, Good1
  <2>2. CASE At("ChannelArrow") /\ Continue(<< <<"ChannelElement">> >>)
    BY <2>2, ContinueStep, Good1
  <2>3. CASE At("RecvChannel") /\ tok = "kw_chan" /\ Advance(<< <<"ChannelElement">> >>)
    BY <2>3, AdvanceStep, Good1
  <2>4. CASE At("ChannelElement") /\ Continue(<< <<"Type">> >>)
    BY <2>4, ContinueStep, Good1
  <2>5. CASE /\ At("RecvChannel") \/ At("ChannelElement")
            /\ Complain(<<Skip({"r_brace", "r_paren"}, TRUE, TRUE), <<"Return", "fail">> >>)
    BY <2>5, ComplainStep, Good2 DEF Results
  <2> QED
    BY <1>13, <2>1, <2>2, <2>3, <2>4, <2>5 DEF ParseChannelType
<1> QED
  BY <1>1, <1>2, <1>3, <1>4, <1>5, <1>6, <1>7, <1>8, <1>9, <1>10, <1>11, <1>12, <1>13 DEF TypeStep

(* ... expressions ...                                                     *)
LEMMA ExprSteps ==
  ASSUME Inv, ExprStep
  PROVE  Step
<1> USE DEF At, Inner, Final, Heir, OnAny, Takes, Typed, Claims, Failing, InRange,
      OfFor, Starts, Levels, Headers, InPair, Ready, AtBrace, AtParen, MayGuard,
      Ends, Brackets, Skip, SkipToSemi, LiteralFollows
<1>1. CASE ParseExpression
  <2>1. CASE /\ At("Expression")
            /\ Continue(<< <<"UnaryExpr", Arg(1), Arg(2)>>, <<"BinaryTail", Arg(1)>> >>)
    BY <2>1, Here, ArgIs, ContinueStep, Good2
  <2>2. CASE /\ At("ExpressionTail")
            /\ Continue(<< <<"PrimaryExprTail">>, <<"Suffix", Arg(1)>>,
                           <<"BinaryTail", Arg(1)>> >>)
    BY <2>2, Here, ArgIs, ContinueStep, Good3
  <2> QED
    BY <1>1, <2>1, <2>2 DEF ParseExpression
<1>2. CASE ParseRHSOfBinaryExpression
  <2>1. CASE /\ At("BinaryTail")
            /\ tok \in BinaryOps /\ ResetThen(Arg(1), << <<"BinaryOp", Arg(1)>> >>)
    BY <2>1, Here, ArgIs, ResetStep, Good1
  <2>2. CASE At("BinaryTail") /\ Continue(<< >>)
    BY <2>2, ContinueStep, Good0
  <2>3. CASE /\ At("BinaryOp")
            /\ Advance(<< <<"UnaryExpr", FALSE, FALSE>>, <<"BinaryTail", Arg(1)>> >>)
    BY <2>3, Here, ArgIs, AdvanceStep, Good2 DEF BinaryOps
  <2> QED
    BY <1>2, <2>1, <2>2, <2>3 DEF ParseRHSOfBinaryExpression
<1>3. CASE ParseUnaryExpr
  <2>1. CASE /\ At("UnaryExpr")
            /\ tok \in UnaryOps /\ Advance(<< <<"UnaryExpr", FALSE, Arg(2)>> >>)
    BY <2>1, AdvanceStep, Good1 DEF UnaryOps
  <2>2. CASE /\ At("UnaryExpr")
            /\ tok \in Literals /\ Advance(<< <<"Suffix", Arg(1)>> >>)
    BY <2>2, Here, ArgIs, AdvanceStep, Good1 DEF Literals
  <2>3. CASE /\ At("UnaryExpr")
            /\ tok = "identifier" /\ Advance(<< <<"PrimaryExprTail">>, <<"Suffix", Arg(1)>> >>)
    BY <2>3, Here, ArgIs, AdvanceStep, Good2
  <2>4. CASE /\ At("UnaryExpr")
            /\ tok = "kw_struct"
            /\ Advance(<< <<"MembersOf", "FieldDecl">>, <<"CompositeLitTail", FALSE, Arg(2), TRUE>>,
                          <<"Suffix", Arg(1)>> >>)
    BY <2>4, Here, ArgIs, AdvanceStep, Good3
  <2>5. CASE /\ At("UnaryExpr")
            /\ tok = "kw_map"
            /\ Advance(<< <<"MapType">>, <<"CompositeLitTail", FALSE, Arg(2), TRUE>>,
                          <<"Suffix", Arg(1)>> >>)
    BY <2>5, Here, ArgIs, AdvanceStep, Good3
  <2>6. CASE /\ At("UnaryExpr")
            /\ tok = "l_square"
            /\ OpenAs("square", "plain", << <<"CompositeLitBound", Arg(2)>> >>,
                      << <<"Suffix", Arg(1)>> >>)
    <3>1. PICK x, s : x = <<"CompositeLitBound", Arg(2)>> /\ s = <<"Suffix", Arg(1)>>
      OBVIOUS
    <3>2. Inside(todo[1], x)
      BY <2>6, <3>1 DEF Inside
    <3>3. PICK after : after = <<s>>
      OBVIOUS
    <3>4. s[1] = "Suffix" /\ s[2] \in BOOLEAN /\ (s[2] = TRUE => Claims(todo[1]))
      BY <2>6, <3>1, Here, ArgIs
    <3>5. Good(todo[1], after, errors, "eof") /\ Good(todo[1], after, "reported", "eof")
      BY <2>6, <3>3, <3>4, Good1
    <3> QED
      BY <2>6, <3>1, <3>2, <3>3, <3>5, OpenStep, OpenersAre
  <2>7. CASE /\ At("UnaryExpr")
            /\ tok = "kw_func"
            /\ Advance(<< <<"FunctionType">>, <<"FunctionLitTail", Arg(2)>>, <<"Suffix", Arg(1)>> >>)
    BY <2>7, Here, ArgIs, AdvanceStep, Good3
  <2>8. CASE /\ At("UnaryExpr")
            /\ Continue(<< <<"Type">>, <<"ConversionOrType", Arg(2)>>, <<"Suffix", Arg(1)>> >>)
    BY <2>8, Here, ArgIs, ContinueStep, Good3
  <2>9. CASE /\ At("UnaryExpr")
            /\ tok = "l_paren"
            /\ Continue(<< <<"ParenExpr", Arg(1), Arg(2), isType>>, <<"Suffix", Arg(1)>> >>)
    <3>1. isType \in BOOLEAN
      BY DEF Inv, TypeOK
    <3> QED
      BY <2>9, <3>1, Here, ArgIs, ContinueStep, Good2
  <2>10. CASE At("UnaryExpr") /\ Continue(<< >>)
    BY <2>10, ContinueStep, Good0
  <2> QED
    BY <1>3, <2>1, <2>2, <2>3, <2>4, <2>5, <2>6, <2>7, <2>8, <2>9, <2>10 DEF ParseUnaryExpr
<1>4. CASE ParseParenExpr
  <2>1. CASE /\ At("ParenExpr")
            /\ Stay /\ Quiet /\ Clear /\ UNCHANGED <<needsParens, guard>>
            /\ isType' = FALSE
            /\ Do(<< <<"OpenParen", Arg(1)>>, <<"ParenExprEnd", Arg(2), Arg(3)>> >>)
    BY <2>1, Here, ArgIs, TypeParamStep, Good2 DEF Quiet
  <2>2. CASE /\ At("OpenParen")
            /\ Open("paren", << <<"Expression", Arg(1), TRUE>> >>)
    BY <2>2, Here, ArgIs, OpenAround, OpenersAre DEF Inside
  <2>3. CASE /\ At("ParenExprEnd")
            /\ Stay /\ Do(<< >>) /\ Clear /\ UNCHANGED <<needsParens, guard>>
            /\ isType' \in {isType, Arg(2)} /\ (Quiet \/ Diag)
    BY <2>3, Here, ArgIs, TypeParamStep, Good0 DEF Quiet, Diag, Inv, TypeOK
  <2> QED
    BY <1>4, <2>1, <2>2, <2>3 DEF ParseParenExpr
<1>5. CASE ParsePrimaryExprTail
  <2>1. CASE /\ At("PrimaryExprTail")
            /\ tok = "l_brace" /\ Continue(<< <<"LiteralValue">> >>)
    BY <2>1, ContinueStep, Good1
  <2>2. CASE At("PrimaryExprTail") /\ Continue(<< >>)
    BY <2>2, ContinueStep, Good0
  <2>3. CASE /\ At("PrimaryExprTail")
            /\ tok = "period" /\ Advance(<< <<"PackageMember">> >>)
    BY <2>3, AdvanceStep, Good1
  <2>4. CASE /\ At("PrimaryExprTail")
            /\ tok = "l_paren" /\ Stay /\ Quiet /\ Clear
            /\ UNCHANGED <<needsParens, guard>> /\ isType' = FALSE
            /\ Do(<< <<"BuiltinCall">>, <<"BuiltinEnd", isType>> >>)
    BY <2>4, TypeParamStep, Good2 DEF Quiet, Inv, TypeOK
  <2>5. CASE /\ At("PackageMember")
            /\ tok = "identifier" /\ Advance(<< <<"PackageLiteral">> >>)
    BY <2>5, AdvanceStep, Good1
  <2>6. CASE At("PackageMember") /\ Complain(<< <<"PackageLiteral">> >>)
    BY <2>6, ComplainStep, Good1
  <2>7. CASE /\ At("PackageLiteral")
            /\ tok = "l_brace" /\ Continue(<< <<"LiteralValue">> >>)
    BY <2>7, ContinueStep, Good1
  <2>8. CASE At("PackageLiteral") /\ Continue(<< >>)
    BY <2>8, ContinueStep, Good0
  <2> QED
    BY <1>5, <2>1, <2>2, <2>3, <2>4, <2>5, <2>6, <2>7, <2>8 DEF ParsePrimaryExprTail
<1>6. CASE BuiltinCall
  <2>1. CASE At("BuiltinCall") /\ Open("paren", << <<"BuiltinArgs">> >>)
    BY <2>1, Here, ArgIs, OpenAround, OpenersAre DEF Inside
  <2>2. CASE At("BuiltinArgs") /\ Continue(<< >>)
    BY <2>2, ContinueStep, Good0
  <2>3. CASE /\ At("BuiltinArgs")
            /\ Continue(<< <<"Expression", FALSE, TRUE>>, <<"ExprList", FALSE>>,
                           <<"Ellipsis">> >>)
    BY <2>3, ContinueStep, Good3
  <2>4. CASE /\ At("BuiltinEnd")
            /\ Stay /\ Quiet /\ Do(<< >>) /\ Clear
            /\ UNCHANGED <<needsParens, guard>> /\ isType' = Arg(1)
    BY <2>4, Here, ArgIs, TypeParamStep, Good0 DEF Quiet
  <2> QED
    BY <1>6, <2>1, <2>2, <2>3, <2>4 DEF BuiltinCall
<1>7. CASE Ellipsis
  BY <1>7, ContinueStep, ComplainStep, AdvanceStep, Good0, Good1, Good2,
     Good3 DEF Ellipsis
<1>8. CASE CommaAfterArgs
  BY <1>8, ContinueStep, ComplainStep, AdvanceStep, Good0, Good1, Good2,
     Good3 DEF CommaAfterArgs
<1>9. CASE ParseConversion
  <2>1. CASE /\ At("ConversionOrType")
            /\ tok = "l_paren" /\ Continue(<< <<"Conversion">> >>)
    BY <2>1, ContinueStep, Good1
  <2>2. CASE /\ At("ConversionOrType")
            /\ Stay /\ Quiet /\ Do(<< >>) /\ Clear
            /\ UNCHANGED <<needsParens, guard>> /\ isType' = TRUE
    BY <2>2, TypeParamStep, Good0 DEF Quiet
  <2>3. CASE At("ConversionOrType") /\ Complain(<< >>)
    BY <2>3, ComplainStep, Good0
  <2>4. CASE At("Conversion") /\ Open("paren", <<Expression>>)
    BY <2>4, Here, OpenAround, OpenersAre DEF Inside, Expression
  <2> QED
    BY <1>9, <2>1, <2>2, <2>3, <2>4 DEF ParseConversion, ItIsAType
<1>10. CASE ParseFunctionLitOrConversion
  <2>1. CASE At("FunctionLitTail") /\ Continue(<< >>)
    BY <2>1, ContinueStep, Good0
  <2>2. CASE /\ At("FunctionLitTail")
            /\ tok = "l_brace" /\ Continue(<< <<"Block">> >>)
    BY <2>2, ContinueStep, Good1
  <2>3. CASE /\ At("FunctionLitTail")
            /\ tok = "l_paren" /\ Continue(<< <<"Conversion">> >>)
    BY <2>3, ContinueStep, Good1
  <2>4. CASE /\ At("FunctionLitTail")
            /\ Stay /\ Quiet /\ Do(<< >>) /\ Clear
            /\ UNCHANGED <<needsParens, guard>> /\ isType' = TRUE
    BY <2>4, TypeParamStep, Good0 DEF Quiet
  <2>5. CASE At("FunctionLitTail") /\ Complain(<< >>)
    BY <2>5, ComplainStep, Good0
  <2> QED
    BY <1>10, <2>1, <2>2, <2>3, <2>4, <2>5 DEF ParseFunctionLitOrConversion, ItIsAType
<1>11. CASE ParseCompositeLitBound
  <2>1. CASE /\ At("CompositeLitBound") /\ tok = "ellipsis" /\ Eat /\ Quiet
             /\ Around(<< <<"EllipsisBound">> >>, << <<"CompositeLitTail", TRUE, Arg(1), FALSE>> >>)
    <3>1. PICK x, steps, tail, after : /\ x = <<"EllipsisBound">> /\ steps = <<x>>
                                       /\ tail = <<"CompositeLitTail", TRUE, Arg(1), FALSE>>
                                       /\ after = <<tail>>
      OBVIOUS
    <3>2. todo[2][1] = "Close" /\ Inside(todo[2], x)
      BY <2>1, <3>1, Here DEF Inside
    <3>3. tail[1] = "CompositeLitTail"
      BY <3>1
    <3>4. Good(todo[2], after, errors, "eof")
      BY <3>1, <3>2, <3>3, Good1
    <3>5. Read /\ counts' = counts
      BY <2>1, Eats, BracketsAre
    <3>6. Around(steps, after)
      BY <2>1, <3>1
    <3>7. \E y : steps = <<y>> /\ Inside(todo[2], y)
      BY <3>1, <3>2
    <3> QED
      BY <2>1, <3>4, <3>5, <3>6, <3>7, AroundStep DEF Quiet
  <2>2. CASE /\ At("CompositeLitBound") /\ Stay /\ Quiet
             /\ Around(<< <<"ArrayBound">> >>,
                       << <<"ArrayElement">>, <<"CompositeLitTail", FALSE, Arg(1), FALSE>> >>)
    <3>1. PICK x, steps, element, tail, after :
                 /\ x = <<"ArrayBound">> /\ steps = <<x>> /\ element = <<"ArrayElement">>
                 /\ tail = <<"CompositeLitTail", FALSE, Arg(1), FALSE>>
                 /\ after = <<element, tail>>
      OBVIOUS
    <3>2. todo[2][1] = "Close" /\ Inside(todo[2], x)
      BY <2>2, <3>1, Here DEF Inside
    <3>3. tail[1] = "CompositeLitTail" /\ element[1] = "ArrayElement"
      BY <3>1
    <3>4. Good(todo[2], after, errors, "eof")
      BY <3>1, <3>2, <3>3, Good2
    <3>5. Read /\ counts' = counts
      BY <2>2, Stays
    <3>6. Around(steps, after)
      BY <2>2, <3>1
    <3>7. \E y : steps = <<y>> /\ Inside(todo[2], y)
      BY <3>1, <3>2
    <3> QED
      BY <2>2, <3>4, <3>5, <3>6, <3>7, AroundStep DEF Quiet
  <2>3. CASE At("EllipsisBound") /\ Stay /\ Quiet /\ Around(<< >>, << <<"ArrayElement">> >>)
    <3>1. PICK element, after : element = <<"ArrayElement">> /\ after = <<element>>
      OBVIOUS
    <3>2. todo[2][1] = "Close" /\ element[1] = "ArrayElement"
      BY <2>3, <3>1, Here
    <3>3. Good(todo[2], after, errors, "eof")
      BY <3>1, <3>2, Good1
    <3>4. Read /\ counts' = counts
      BY <2>3, Stays
    <3>5. Around(<< >>, after)
      BY <2>3, <3>1
    <3> QED
      BY <2>3, <3>3, <3>4, <3>5, AroundStep DEF Quiet
  <2>4. CASE At("EllipsisBound") /\ Stay /\ Diag /\ Abandon(<< >>)
    BY <2>4, LeaveTracker DEF Diag
  <2> QED
    BY <1>11, <2>1, <2>2, <2>3, <2>4 DEF ParseCompositeLitBound
<1>12. CASE ParseCompositeLitOrConversion
  <2>1. CASE At("CompositeLitTail") /\ Continue(<< >>)
    BY <2>1, ContinueStep, Good0
  <2>2. CASE /\ At("CompositeLitTail")
            /\ tok = "l_paren" /\ Continue(<< <<"Conversion">> >>)
    BY <2>2, ContinueStep, Good1
  <2>3. CASE /\ At("CompositeLitTail")
            /\ tok = "l_brace" /\ Continue(<< <<"LiteralValue">> >>)
    BY <2>3, ContinueStep, Good1
  <2>4. CASE /\ At("CompositeLitTail")
            /\ Stay /\ Quiet /\ Do(<< >>) /\ Clear
            /\ UNCHANGED <<needsParens, guard>> /\ isType' = TRUE
    BY <2>4, TypeParamStep, Good0 DEF Quiet
  <2>5. CASE At("CompositeLitTail") /\ Complain(SkipToSemi)
    BY <2>5, ComplainStep, Good1
  <2> QED
    BY <1>12, <2>1, <2>2, <2>3, <2>4, <2>5 DEF ParseCompositeLitOrConversion, ItIsAType
<1>13. CASE ParsePrimaryExprSuffix
  <2>1. CASE /\ At("Suffix")
            /\ tok \in {"period", "l_square", "l_paren"}
            /\ ResetThen(Arg(1), << <<"SuffixOp", Arg(1)>>, <<"Suffix", Arg(1)>> >>)
    BY <2>1, Here, ArgIs, ResetStep, Good2
  <2>2. CASE At("Suffix") /\ Continue(<< >>)
    BY <2>2, ContinueStep, Good0
  <2>3. CASE /\ At("SuffixOp")
            /\ tok = "period" /\ Advance(<< <<"Selector", Arg(1)>> >>)
    BY <2>3, Here, ArgIs, AdvanceStep, Good1
  <2>4. CASE /\ At("SuffixOp")
            /\ tok = "l_square" /\ Open("square", << <<"Index">> >>)
    BY <2>4, OpenAround, OpenersAre DEF Inside
  <2>5. CASE /\ At("SuffixOp")
            /\ tok = "l_paren" /\ Open("paren", << <<"CallArgs">> >>)
    BY <2>5, OpenAround, OpenersAre DEF Inside
  <2> QED
    BY <1>13, <2>1, <2>2, <2>3, <2>4, <2>5 DEF ParsePrimaryExprSuffix
<1>14. CASE ParseSelectorOrTypeAssertion
  <2>1. CASE At("Selector") /\ tok = "identifier" /\ Advance(<< >>)
    BY <2>1, AdvanceStep, Good0
  <2>2. CASE /\ At("Selector")
            /\ tok = "l_paren" /\ Open("paren", << <<"AssertedType", Arg(1)>> >>)
    BY <2>2, Here, ArgIs, OpenAround, OpenersAre DEF Inside
  <2>3. CASE At("Selector") /\ Complain(<< >>)
    BY <2>3, ComplainStep, Good0
  <2> QED
    BY <1>14, <2>1, <2>2, <2>3 DEF ParseSelectorOrTypeAssertion
<1>15. CASE AssertedType
  <2>1. CASE /\ At("AssertedType")
            /\ tok = "kw_type" /\ Eat /\ Do(<< >>) /\ Clear
            /\ UNCHANGED <<needsParens, isType>>
            /\ IF Arg(1) THEN guard' = TRUE /\ Quiet ELSE Diag /\ UNCHANGED guard
    BY <2>1, GuardStep
  <2>2. CASE At("AssertedType") /\ Continue(<< <<"Type">> >>)
    BY <2>2, ContinueStep, Good1
  <2>3. CASE /\ At("AssertedType")
            /\ Stay /\ Diag /\ Abandon(<<Skip({"r_paren"}, FALSE, FALSE)>>)
    BY <2>3, LeaveTracker DEF Diag
  <2> QED
    BY <1>15, <2>1, <2>2, <2>3 DEF AssertedType
<1>16. CASE ParseIndexOrSliceSuffix
  <2>1. CASE At("Index") /\ Complain(<< >>)
    BY <2>1, ComplainStep, Good0
  <2>2. CASE /\ At("Index") \/ At("IndexEnd")
            /\ tok = "colon" /\ Advance(<< <<"SliceEnd">> >>)
    BY <2>2, AdvanceStep, Good1
  <2>3. CASE At("Index") /\ Continue(<<Expression, <<"IndexEnd">> >>)
    BY <2>3, ContinueStep, Good2 DEF Expression
  <2>4. CASE (At("IndexEnd") \/ At("SliceEnd")) /\ Continue(<< >>)
    BY <2>4, ContinueStep, Good0
  <2>5. CASE At("IndexEnd") /\ Stay /\ Diag /\ Abandon(<< >>)
    BY <2>5, LeaveTracker DEF Diag
  <2>6. CASE At("SliceEnd") /\ Continue(<<Expression>>)
    BY <2>6, ContinueStep, Good1 DEF Expression
  <2> QED
    BY <1>16, <2>1, <2>2, <2>3, <2>4, <2>5, <2>6 DEF ParseIndexOrSliceSuffix, NeitherIndexNorSlice
<1>17. CASE ParseCallSuffix
  <2>1. CASE At("CallArgs") /\ Continue(<< >>)
    BY <2>1, ContinueStep, Good0
  <2>2. CASE /\ At("CallArgs")
            /\ Continue(<< <<"ExpressionList", FALSE>>, <<"Ellipsis">> >>)
    BY <2>2, ContinueStep, Good2
  <2> QED
    BY <1>17, <2>1, <2>2 DEF ParseCallSuffix
<1>18. CASE ParseLiteralValue
  <2>1. CASE At("LiteralValue") /\ Open("brace", << <<"Elements">> >>)
    BY <2>1, Here, ArgIs, OpenAround, OpenersAre DEF Inside
  <2>2. CASE At("Elements") /\ Continue(<< >>)
    BY <2>2, ContinueStep, Good0
  <2>3. CASE /\ At("Elements")
            /\ Continue(<< <<"Element">>, <<"MoreElements">> >>)
    BY <2>3, ContinueStep, Good2
  <2> QED
    BY <1>18, <2>1, <2>2, <2>3 DEF ParseLiteralValue
<1>19. CASE ParseElementList
  BY <1>19, ContinueStep, ComplainStep, AdvanceStep, Good0, Good1, Good2,
     Good3 DEF ParseElementList
<1>20. CASE ParseElement
  <2>1. CASE /\ At("Element")
            /\ tok = "identifier" /\ Advance(<< <<"ElementName">> >>)
    BY <2>1, AdvanceStep, Good1
  <2>2. CASE /\ At("Element") \/ At("ElementName")
            /\ Continue(<< <<"ElementValue">> >>)
    BY <2>2, ContinueStep, Good1
  <2>3. CASE At("Element") /\ Continue(<<Expression, <<"ElementValue">> >>)
    BY <2>3, ContinueStep, Good2 DEF Expression
  <2>4. CASE /\ At("ElementName")
            /\ Continue(<< <<"ExpressionTail", FALSE>>, <<"ElementValue">> >>)
    BY <2>4, ContinueStep, Good2
  <2>5. CASE /\ At("ElementValue")
            /\ tok = "colon" /\ Advance(<< <<"ElementAfterColon">> >>)
    BY <2>5, AdvanceStep, Good1
  <2>6. CASE /\ At("ElementValue") \/ At("ElementAfterColon")
            /\ tok = "l_brace" /\ Continue(<< <<"LiteralValue">> >>)
    BY <2>6, ContinueStep, Good1
  <2>7. CASE At("ElementValue") /\ Continue(<< >>)
    BY <2>7, ContinueStep, Good0
  <2>8. CASE At("ElementAfterColon") /\ Continue(<<Expression>>)
    BY <2>8, ContinueStep, Good1 DEF Expression
  <2> QED
    BY <1>20, <2>1, <2>2, <2>3, <2>4, <2>5, <2>6, <2>7, <2>8 DEF ParseElement
<1>21. CASE ParseExpressionList
  <2>1. CASE /\ At("ExpressionList")
            /\ Continue(<< <<"Expression", Arg(1), FALSE>>, <<"AfterFirst", Arg(1)>> >>)
    BY <2>1, Here, ArgIs, ContinueStep, Good2
  <2>2. CASE /\ At("AfterFirst")
            /\ ResetThen(Arg(1) /\ tok = "comma", << <<"ExprList", FALSE>> >>)
    BY <2>2, ResetStep, Good1
  <2> QED
    BY <1>21, <2>1, <2>2 DEF ParseExpressionList
<1>22. CASE ParseExpressionListTail
  <2>1. CASE /\ At("ExprList")
            /\ tok = "comma" /\ Advance(<< <<"ExprAfterComma", Arg(1)>> >>)
    BY <2>1, AdvanceStep, Good1
  <2>2. CASE /\ At("ExprList")
            /\ Stay /\ Quiet /\ Do(<< >>)
            /\ Answer(IF Arg(1) THEN "idents" ELSE "exprs")
    BY <2>2, AnswerStep, Stays DEF Answer, Results, Kinds, Quiet, Inv, TypeOK
  <2>3. CASE /\ At("ExprAfterComma")
            /\ tok = "identifier" /\ Advance(<< <<"IdentInExprList", Arg(1)>> >>)
    BY <2>3, AdvanceStep, Good1
  <2>4. CASE /\ At("ExprAfterComma")
            /\ Continue(<<Expression, <<"ExprList", FALSE>> >>)
    BY <2>4, ContinueStep, Good2 DEF Expression
  <2>5. CASE At("IdentInExprList") /\ Continue(<< <<"ExprList", Arg(1)>> >>)
    BY <2>5, ContinueStep, Good1
  <2>6. CASE /\ At("IdentInExprList")
            /\ Continue(<< <<"ExpressionTail", FALSE>>, <<"ExprList", FALSE>> >>)
    BY <2>6, ContinueStep, Good2
  <2> QED
    BY <1>22, <2>1, <2>2, <2>3, <2>4, <2>5, <2>6 DEF ParseExpressionListTail
<1> QED
  BY <1>1, <1>2, <1>3, <1>4, <1>5, <1>6, <1>7, <1>8, <1>9, <1>10, <1>11, <1>12,
     <1>13, <1>14, <1>15, <1>16, <1>17, <1>18, <1>19, <1>20, <1>21, <1>22 DEF ExprStep

(* ... and statements.                                                     *)
LEMMA StmtSteps ==
  ASSUME Inv, StmtStep
  PROVE  Step
<1> USE DEF At, Inner, Final, Heir, OnAny, Takes, Typed, Claims, Failing, InRange,
      OfFor, Starts, Levels, Headers, InPair, Ready, AtBrace, AtParen, MayGuard,
      Ends, Brackets, Skip, SkipToSemi, SimpleStmt
<1>1. CASE ParseStatement
  <2>1. CASE /\ At("Statement")
            /\ Continue(<< <<"Declaration">> >>) /\ tok \in DeclKeywords
    BY <2>1, ContinueStep, Good1 DEF DeclKeywords
  <2>2. CASE /\ At("Statement")
            /\ tok \in DOMAIN ControlStart /\ Advance(<<ControlStart[tok]>>)
    <3>1. PICK e : e = ControlStart[tok]
      OBVIOUS
    <3>2. /\ tok \notin Brackets
          /\ e \in {Expression, <<"ReturnValues">>, <<"Label">>, <<"GotoLabel">>, <<"IfStmt">>,
                    <<"SwitchStmt">>, <<"SelectStmt">>, <<"ForStmt">>}
      BY <2>2, <3>1 DEF ControlStart
    <3>3. Final(todo[1], e, errors) /\ e[1] \notin Ready("none")
      <4>1. CASE e = Expression
        <5>1. e[1] = "Expression" /\ e[2] = FALSE
          BY <4>1 DEF Expression
        <5> QED
          BY <2>2, <5>1
      <4>2. CASE e # Expression
        <5>1. e[1] \in {"ReturnValues", "Label", "GotoLabel", "IfStmt", "SwitchStmt",
                        "SelectStmt", "ForStmt"}
          <6>1. \A x : e = <<x>> => e[1] = x
            OBVIOUS
          <6> QED
            BY <3>2, <4>2, <6>1, Zenon
        <5> QED
          BY <2>2, <5>1
      <4> QED
        BY <4>1, <4>2
    <3>4. Good(todo[1], <<e>>, errors, tok')
      BY <3>3, Good1
    <3> QED
      BY <2>2, <3>1, <3>2, <3>4, AdvanceStep
  <2>3. CASE At("Statement") /\ tok = "kw_fallthrough" /\ Advance(<< >>)
    BY <2>3, AdvanceStep, Good0
  <2>4. CASE At("Statement") /\ tok = "l_brace" /\ Continue(<< <<"Block">> >>)
    BY <2>4, ContinueStep, Good1
  <2>5. CASE At("Statement") /\ Continue(<< >>)
    BY <2>5, ContinueStep, Good0
  <2>6. CASE /\ At("Statement")
            /\ tok = "identifier" /\ Advance(<< <<"IdentStmt">> >>)
    BY <2>6, AdvanceStep, Good1
  <2>7. CASE At("Statement") /\ Continue(<<SimpleStmt("None")>>)
    BY <2>7, ContinueStep, Good1
  <2>8. CASE At("Statement") /\ Complain(SkipToSemi)
    BY <2>8, ComplainStep, Good1
  <2> QED
    BY <1>1, <2>1, <2>2, <2>3, <2>4, <2>5, <2>6, <2>7, <2>8 DEF ParseStatement, DeclKeywords
<1>2. CASE ParseIdentStmt
  <2>1. CASE At("IdentStmt") /\ Complain(<< <<"ForStmt">> >>)
    BY <2>1, ComplainStep, Good1
  <2>2. CASE /\ At("IdentStmt")
            /\ tok = "colon" /\ Advance(<< <<"Statement">> >>)
    BY <2>2, AdvanceStep, Good1
  <2>3. CASE At("IdentStmt") /\ Continue(<< <<"SimpleTail", "None">> >>)
    BY <2>3, ContinueStep, Good1
  <2> QED
    BY <1>2, <2>1, <2>2, <2>3 DEF ParseIdentStmt
<1>3. CASE ParseReturnStmt
  <2>1. CASE At("ReturnValues") /\ Continue(<< >>)
    BY <2>1, ContinueStep, Good0
  <2>2. CASE At("ReturnValues") /\ Continue(<<ExpressionList>>)
    BY <2>2, ContinueStep, Good1 DEF ExpressionList
  <2> QED
    BY <1>3, <2>1, <2>2 DEF ParseReturnStmt
<1>4. CASE ParseBranchStmt
  BY <1>4, ContinueStep, ComplainStep, AdvanceStep, Good0, Good1, Good2,
     Good3 DEF ParseBranchStmt
<1>5. CASE ParseSimpleStmt
  <2>1. CASE At("SimpleStmt") /\ Continue(<< >>)
    BY <2>1, ContinueStep, Good0
  <2>2. CASE /\ At("SimpleStmt")
            /\ tok \in IncDec /\ Advance(<< <<"SimpleStart", Arg(1), TRUE>> >>)
    BY <2>2, Here, ArgIs, AdvanceStep, Good1 DEF IncDec
  <2>3. CASE /\ At("SimpleStmt")
            /\ Continue(<< <<"SimpleStart", Arg(1), FALSE>> >>)
    BY <2>3, Here, ArgIs, ContinueStep, Good1
  <2>4. CASE /\ At("SimpleStart")
            /\ Quiet /\ Clear /\ guard' = FALSE /\ UNCHANGED <<needsParens, isType>>
            /\ \/ /\ tok = "identifier" /\ Eat
                  /\ Do(<< <<"SimpleTail", Arg(1)>>, <<"SimpleEnd", Arg(2), Arg(1), guard>> >>)
               \/ /\ Stay
                  /\ Do(<< <<"Expression", Arg(1) = "TypeSwitchGuard", FALSE>>,
                           <<"AfterLHS", FALSE, Arg(1)>>,
                           <<"SimpleEnd", Arg(2), Arg(1), guard>> >>)
    <3>1. PICK f, t, ext, end, u, new :
            /\ f = todo[1] /\ t = Tail(todo) /\ ext = f[2] /\ new = todo'
            /\ end = <<"SimpleEnd", f[3], f[2], guard>> /\ u = <<end>> \o t
      OBVIOUS
    <3>2. f[1] = "SimpleStart"
      BY <2>4, <3>1
    <3>3. Piled(u, end, t, errors) /\ AnySeq(t)
      BY <2>4, <3>1, <3>2, EndPushed
    <3>4. end[1] = "SimpleEnd" /\ end[3] = ext
      BY <3>1
    <3>5. AnySeq(u) /\ Stack(u, errors) /\ u # << >> /\ u[1] = end
          /\ (ext = "TypeSwitchGuard" => Switched(u))
      BY <3>3, <3>4 DEF Piled
    <3>6. Carries(u, u, end)
      <4>1. 1 \in 1 .. Len(u)
        BY <3>5, Length
      <4> QED
        BY <3>4, <3>5, <4>1 DEF Carries
    <3>7. CASE /\ tok = "identifier" /\ Eat
               /\ Do(<< <<"SimpleTail", Arg(1)>>, <<"SimpleEnd", Arg(2), Arg(1), guard>> >>)
      <4>1. PICK e : e = <<"SimpleTail", ext>>
        OBVIOUS
      <4>2. Fits(e, u, errors)
        BY <3>4, <3>5, <4>1 DEF Fits
      <4>3. new = <<e>> \o u
        <5>1. new = <<e, end>> \o t
          BY <3>1, <3>7, <4>1, ArgIs DEF Do
        <5>2. <<e, end>> \o t = <<e>> \o (<<end>> \o t)
          BY ONLY <3>3, Entries2
        <5> QED
          BY <3>1, <5>1, <5>2
      <4>4. Carries(new, u, end)
        BY <3>6, <4>1, <4>2, <4>3, CarryMore
      <4>5. Read /\ counts' = counts
        BY <3>7, Eats, BracketsAre
      <4> QED
        BY <2>4, <3>1, <3>2, <3>3, <4>4, <4>5, SimpleStartStep
    <3>8. CASE /\ Stay
               /\ Do(<< <<"Expression", Arg(1) = "TypeSwitchGuard", FALSE>>,
                        <<"AfterLHS", FALSE, Arg(1)>>, <<"SimpleEnd", Arg(2), Arg(1), guard>> >>)
      <4>1. PICK e, a, w : /\ e = <<"Expression", ext = "TypeSwitchGuard", FALSE>>
                           /\ a = <<"AfterLHS", FALSE, ext>> /\ w = <<a>> \o u
        OBVIOUS
      <4>2. Fits(a, u, errors)
        BY <3>4, <3>5, <4>1 DEF Fits
      <4>3. Carries(w, u, end)
        BY <3>6, <4>1, <4>2, CarryMore
      <4>4. Piled(w, a, u, errors)
        BY <3>5, <4>1, <4>2, PushInert
      <4>5. w[1] = a /\ w # << >> /\ (ext = "TypeSwitchGuard" => Switched(w))
        BY <3>5, <4>1, <4>4 DEF Piled
      <4>6. Fits(e, w, errors)
        <5>1. /\ e[1] = "Expression" /\ e[2] \in BOOLEAN
              /\ e[2] = TRUE => ext = "TypeSwitchGuard"
          BY <4>1
        <5>2. w[1][1] = "AfterLHS"
          BY <4>1, <4>5
        <5> QED
          BY <4>5, <5>1, <5>2 DEF Fits
      <4>7. new = <<e>> \o w
        <5>1. new = <<e, a, end>> \o t
          BY <3>1, <3>8, <4>1, ArgIs DEF Do
        <5>2. <<e, a, end>> \o t = <<e>> \o (<<a>> \o (<<end>> \o t))
          <6>1. AnySeq(t)
            BY <3>3
          <6> QED
            BY ONLY <6>1, Entries3
        <5> QED
          BY <3>1, <4>1, <5>1, <5>2
      <4>8. Carries(new, u, end)
        BY <4>1, <4>3, <4>6, <4>7, CarryMore
      <4>9. Read /\ counts' = counts
        BY <3>8, Stays
      <4> QED
        BY <2>4, <3>1, <3>2, <3>3, <4>8, <4>9, SimpleStartStep
    <3> QED
      BY <2>4, <3>7, <3>8
  <2> QED
    BY <1>5, <2>1, <2>2, <2>3, <2>4 DEF ParseSimpleStmt
<1>6. CASE SimpleEnd
  BY <1>6, SimpleEndStep
<1>7. CASE ParseSimpleStmtTail
  <2>1. CASE At("SimpleTail") /\ Continue(<< <<"AfterLHS", TRUE, Arg(1)>> >>)
    BY <2>1, Here, ArgIs, ContinueStep, Good1
  <2>2. CASE /\ At("SimpleTail")
            /\ Continue(<< <<"ExpressionTail", Arg(1) = "TypeSwitchGuard">>,
                           <<"AfterLHS", FALSE, Arg(1)>> >>)
    BY <2>2, Here, ArgIs, ContinueStep, Good2
  <2> QED
    BY <1>7, <2>1, <2>2 DEF ParseSimpleStmtTail
<1>8. CASE ParseSimpleStmtTailAfterExpression
  <2>1. PICK ids, ext : At("AfterLHS") /\ ids = Arg(1) /\ ext = Arg(2)
    BY <1>8 DEF ParseSimpleStmtTailAfterExpression
  <2>2. CASE Continue(<< <<"ExprList", ids>>, <<"AfterLHSList", ext>> >>)
    BY <2>1, <2>2, ArgIs, ContinueStep, Good2
  <2>3. ASSUME NEW op, tok \in AssignOps, Eat, Plain, Do(<< <<"AfterAssign", op, ids, ext>> >>),
               Diag \/ Quiet
        PROVE  Step
    <3>1. CASE Diag
      BY <2>1, <2>3, <3>1, ArgIs, ConsumeStep, Good1
    <3>2. CASE Quiet
      BY <2>1, <2>3, <3>2, ArgIs, AdvanceStep, Good1 DEF Advance, AssignOps
    <3> QED
      BY <2>3, <3>1, <3>2
  <2>4. CASE tok = "colonequal" /\ Advance(<< <<"AfterColonEqual", ids, ext>> >>)
    BY <2>1, <2>4, ArgIs, AdvanceStep, Good1
  <2>5. CASE tok \in IncDec /\ Advance(<< >>)
    BY <2>1, <2>5, AdvanceStep, Good0 DEF IncDec
  <2>6. CASE tok = "lessminus" /\ Advance(<<Expression>>)
    BY <2>1, <2>6, AdvanceStep, Good1 DEF Expression
  <2>7. CASE Quiet /\ Outcome("ok", "Expression")
    BY <2>1, <2>7, OutcomeStep DEF Quiet, Results, Kinds
  <2> QED
    BY <1>8, <2>1, <2>2, <2>3, <2>4, <2>5, <2>6, <2>7 DEF ParseSimpleStmtTailAfterExpression
<1>9. CASE AfterOperator
  <2>1. CASE /\ At("AfterAssign")
            /\ tok = "kw_range"
            /\ Continue(<< <<"RangeClause", Arg(1), Arg(2), Arg(3)>> >>)
    BY <2>1, Here, ArgIs, ContinueStep, Good1
  <2>2. CASE At("AfterAssign") /\ Continue(<<ExpressionList>>)
    BY <2>2, ContinueStep, Good1 DEF ExpressionList
  <2>3. CASE /\ At("AfterColonEqual")
            /\ tok = "kw_range"
            /\ Continue(<< <<"RangeClause", "colonequal", Arg(1), Arg(2)>> >>)
    BY <2>3, Here, ArgIs, ContinueStep, Good1
  <2>4. CASE /\ At("AfterColonEqual")
            /\ Continue(<< <<"ExpressionList", Arg(2) = "TypeSwitchGuard">>,
                           <<"ShortVarDecl", "Disarmed">> >>)
    BY <2>4, Here, ArgIs, ContinueStep, Good2 DEF Kinds
  <2>5. CASE /\ At("AfterColonEqual")
            /\ Complain(<<SkipToBlock({}), <<"Outcome", "fail", "Disarmed">> >>)
    BY <2>5, ComplainStep, Good2 DEF SkipToBlock, Results, Kinds
  <2> QED
    BY <1>9, <2>1, <2>2, <2>3, <2>4, <2>5 DEF AfterOperator
<1>10. CASE AfterLHSList
  <2>1. CASE At("AfterLHSList") /\ tok \in {"colonequal"} \cup AssignOps
             /\ Advance(<< <<"AfterListOp", tok, ret = "idents", Arg(1)>> >>)
    BY <2>1, ArgIs, AdvanceStep, Good1 DEF AssignOps
  <2>2. CASE At("AfterLHSList") /\ Complain(<<SkipToBlock({"colon"}), <<"Return", "fail">> >>)
    BY <2>2, ComplainStep, Good2 DEF SkipToBlock, Results
  <2>3. CASE At("AfterListOp") /\ tok = "kw_range"
             /\ Continue(<< <<"RangeClause", Arg(1), Arg(2), Arg(3)>> >>)
    BY <2>3, Here, ArgIs, ContinueStep, Good1
  <2>4. CASE At("AfterListOp") /\ Continue(<<ExpressionList, <<"ShortVarDecl", "Normal">> >>)
    BY <2>4, ContinueStep, Good2 DEF ExpressionList, Kinds
  <2>5. CASE At("AfterListOp") /\ Complain(<<SkipToBlock({}), <<"Return", "fail">> >>)
    BY <2>5, ComplainStep, Good2 DEF SkipToBlock, Results
  <2>6. CASE At("AfterListOp") /\ Continue(<<ExpressionList>>)
    BY <2>6, ContinueStep, Good1 DEF ExpressionList
  <2> QED
    BY <1>10, <2>1, <2>2, <2>3, <2>4, <2>5, <2>6 DEF AfterLHSList, AssignOps
<1>11. CASE ParseShortVarDeclTail
  <2>1. CASE /\ At("ShortVarDecl")
             /\ \/ Quiet /\ Outcome("ok", Arg(1))
                \/ Diag /\ Outcome("fail", Arg(1))
    BY <2>1, Here, ArgIs, OutcomeStep DEF Results, Quiet, Diag
  <2>2. CASE At("Outcome") /\ Quiet /\ Outcome(Arg(1), Arg(2))
    BY <2>2, Here, ArgIs, OutcomeStep DEF Quiet
  <2> QED
    BY <1>11, <2>1, <2>2 DEF ParseShortVarDeclTail
<1>12. CASE ParseRangeClauseTail
  <2>1. CASE /\ At("RangeClause") /\ Eat /\ Do(<<Expression, <<"RangeEnd", Arg(1), Arg(2)>> >>) /\ Plain
             /\ Diag \/ (Arg(3) = "RangeClause" /\ Quiet)
    <3>1. CASE Diag
      BY <2>1, <3>1, ConsumeStep, Good2 DEF Expression
    <3>2. CASE Arg(3) = "RangeClause" /\ Quiet
      BY <2>1, <3>2, Here, ArgIs, AdvanceStep, Good2 DEF Expression, Advance
    <3> QED
      BY <2>1, <3>1, <3>2
  <2>2. ASSUME At("RangeEnd"), NEW r \in {"ok", "fail"}, Quiet \/ Diag, Outcome(r, "RangeClause")
        PROVE  Step
    BY <2>2, OutcomeStep DEF Quiet, Diag, Results, Kinds
  <2> QED
    BY <1>12, <2>1, <2>2 DEF ParseRangeClauseTail
<1>13. CASE ParseIfStmt
  <2>1. CASE /\ At("IfStmt")
            /\ StartHeader(<<SimpleStmt("None"), <<"IfInit">> >>)
    <3>1. Good(<<"IfInit">>, <<SimpleStmt("None"), <<"IfInit">> >>, errors, tok)
      BY Good2
    <3> QED
      BY <2>1, <3>1, StartStep
  <2>2. CASE /\ At("IfInit")
            /\ tok = "semi" /\ Advance(<<Expression, <<"IfThen">> >>)
    BY <2>2, AdvanceStep, Good2 DEF Expression
  <2>3. CASE At("IfInit") /\ Continue(<< <<"IfThen">> >>)
    BY <2>3, ContinueStep, Good1
  <2>4. CASE /\ At("IfThen") /\ tok = "l_brace"
            /\ SetFlag(FALSE, << <<"Block">>, <<"Else">> >>)
    <3>1. Good(<<"Statement">>, << <<"Block">>, <<"Else">> >>, errors, tok)
      BY <2>4, Good2
    <3> QED
      BY <2>4, <3>1, EndHeader DEF SetFlag, Quiet
  <2>5. CASE (At("IfInit") \/ At("IfThen")) /\ LeaveHeader(TRUE)
    BY <2>5, EndHeaderEarly
  <2>6. CASE At("IfInit") /\ LeaveHeader(FALSE)
    BY <2>6, EndHeaderEarly
  <2> QED
    BY <1>13, <2>1, <2>2, <2>3, <2>4, <2>5, <2>6 DEF ParseIfStmt
<1>14. CASE ParseElse
  <2>1. CASE At("Else") /\ tok = "kw_else" /\ Advance(<< <<"ElseBranch">> >>)
    BY <2>1, AdvanceStep, Good1
  <2>2. CASE At("Else") /\ Continue(<< >>)
    BY <2>2, ContinueStep, Good0
  <2>3. CASE At("ElseBranch") /\ tok = "kw_if" /\ Advance(<< <<"IfStmt">> >>)
    BY <2>3, AdvanceStep, Good1
  <2>4. CASE /\ At("ElseBranch")
            /\ tok = "l_brace" /\ Continue(<< <<"Block">> >>)
    BY <2>4, ContinueStep, Good1
  <2>5. CASE At("ElseBranch") /\ Complain(<< >>)
    BY <2>5, ComplainStep, Good0
  <2> QED
    BY <1>14, <2>1, <2>2, <2>3, <2>4, <2>5 DEF ParseElse
<1>15. CASE ParseSwitchStmt
  <2>1. CASE At("SwitchStmt") /\ StartHeader(<< <<"SwitchBody", "ExprCase">> >>)
    <3>1. Good(<<"IfInit">>, << <<"SwitchBody", "ExprCase">> >>, errors, tok)
      BY Good1
    <3> QED
      BY <2>1, <3>1, StartStep
  <2>2. CASE /\ At("SwitchStmt")
             /\ StartHeader(<<SimpleStmt("TypeSwitchGuard"), <<"SwitchInit">> >>)
    <3>1. Good(<<"IfInit">>, <<SimpleStmt("TypeSwitchGuard"), <<"SwitchInit">> >>, errors, tok)
      BY Good2
    <3> QED
      BY <2>2, <3>1, StartStep
  <2>3. CASE At("SwitchInit") /\ ret = "fail" /\ Continue(<<SkipToBrace>> \o << <<"SwitchKind", kind>> >>)
    <3>1. errors # "none"
      BY <2>3, Here
    <3>2. Good(todo[1], <<SkipToBrace, <<"SwitchKind", kind>> >>, errors, tok)
      BY <2>3, <3>1, Good2 DEF SkipToBrace
    <3> QED
      BY <2>3, <3>2, ContinueStep, Literals2
  <2>4. CASE At("SwitchInit") /\ Continue(<< >> \o << <<"SwitchKind", kind>> >>)
    <3>1. PICK steps : steps = << <<"SwitchKind", kind>> >>
      OBVIOUS
    <3>2. Good(todo[1], steps, errors, tok)
      BY <2>4, <3>1, Good1
    <3>3. << >> \o steps = steps
      BY <3>1, AnySeqs, Concat
    <3> QED
      BY <2>4, <3>1, <3>2, <3>3, ContinueStep
  <2>5. CASE At("SwitchInit") /\ Continue((IF ret = "fail" THEN <<SkipToBrace>> ELSE << >>)
                                         \o << <<"SwitchKind", kind>> >>)
    BY <2>3, <2>4, <2>5
  <2>6. CASE /\ At("SwitchKind") /\ tok = "semi"
             /\ Advance(<<SimpleStmt("TypeSwitchGuard"), <<"SwitchTag">> >>)
    BY <2>6, AdvanceStep, Good2
  <2>7. ASSUME At("SwitchKind") \/ At("SwitchTag"), NEW k \in {"ExprCase", "TypeCase"},
               Continue(<< <<"SwitchBody", k>> >>) \/ Complain(<< <<"SwitchBody", k>> >>)
        PROVE  Step
    BY <2>7, ContinueStep, ComplainStep, Good1
  <2> QED
    BY <1>15, <2>1, <2>2, <2>5, <2>6, <2>7 DEF ParseSwitchStmt
<1>16. CASE SwitchBody
  <2>1. CASE At("SwitchBody")
    <3>1. PICK c : c = Arg(1) /\ c \in {"ExprCase", "TypeCase", "CommCase"}
      BY <2>1, Here, ArgIs
    <3>2. CASE tok = "l_brace" /\ Quiet /\ Do(<< <<"CaseBlock", c>> >>)
      <4>1. Good(<<"Statement">>, << <<"CaseBlock", c>> >>, errors, tok)
        BY <3>1, <3>2, Good1
      <4> QED
        BY <1>16, <2>1, <3>2, <4>1, EndHeader DEF SwitchBody, Quiet
    <3>3. CASE Diag /\ Do(<<SkipToBrace, <<"CaseBlock", c>> >>)
      <4>1. Good(<<"Statement">>, <<SkipToBrace, <<"CaseBlock", c>> >>, "reported", tok)
        BY <3>1, Good2 DEF SkipToBrace
      <4> QED
        BY <1>16, <2>1, <3>3, <4>1, EndHeader DEF SwitchBody, Diag
    <3> QED
      BY <1>16, <2>1, <3>1, <3>2, <3>3 DEF SwitchBody
  <2>2. CASE At("CaseBlock") /\ Open("brace", << <<"CaseClauses", Arg(1)>> >>)
    BY <2>2, Here, ArgIs, OpenAround, OpenersAre DEF Inside
  <2> QED
    BY <1>16, <2>1, <2>2 DEF SwitchBody
<1>17. CASE ParseSelectStmt
  <2>1. CASE /\ At("SelectStmt")
            /\ tok = "l_brace" /\ Continue(<< <<"CaseBlock", "CommCase">> >>)
    BY <2>1, ContinueStep, Good1
  <2>2. CASE At("SelectStmt") /\ Complain(<< >>)
    BY <2>2, ComplainStep, Good0
  <2> QED
    BY <1>17, <2>1, <2>2 DEF ParseSelectStmt
<1>18. CASE ParseCaseClause
  <2>1. PICK a, b, f, c : /\ a = <<"CaseColon">> /\ b = <<"CaseStmts">> /\ f = todo[1] /\ c = Arg(1)
                          /\ f[1] = "CaseClauses" /\ f[2] = c /\ c \in {"ExprCase", "TypeCase", "CommCase"}
                          /\ Typed(f)
    BY <1>18, Here, ArgIs DEF ParseCaseClause
  <2>2. At("CaseClauses") /\ a[1] = "CaseColon" /\ b[1] = "CaseStmts"
    BY <1>18, <2>1 DEF ParseCaseClause
  <2>3. /\ Inner(f, a, errors) /\ Inner(f, b, errors) /\ Final(f, f, errors)
        /\ a[1] \notin Ready("none") /\ b[1] \notin Ready("none") /\ f[1] \notin Ready("none") /\ Starts(a, tok', errors)
    BY <2>1, <2>2
  <2>4. CASE Continue(<< >>)
    BY <2>2, <2>4, ContinueStep, Good0
  <2>5. CASE tok = "kw_default" /\ Advance(<<a, b, f>>)
    <3>1. Good(f, <<a, b, f>>, errors, tok')
      BY ONLY <2>3, Good3
    <3> QED
      BY <2>1, <2>2, <2>5, <3>1, AdvanceStep
  <2>6. ASSUME tok = "kw_case", NEW e, Inner(f, e, errors), Starts(e, tok', errors),
               Advance(<<e>> \o <<a, b, f>>)
        PROVE  Step
    <3>1. Good(f, <<e, a, b, f>>, errors, tok')
      BY ONLY <2>3, <2>6, Good4
    <3>2. Good(f, <<e>> \o <<a, b, f>>, errors, tok')
      BY ONLY <3>1, Joined13
    <3> QED
      BY <2>1, <2>2, <2>6, <3>2, AdvanceStep
  <2>7. CASE tok = "kw_case" /\ Advance(<< <<"Type">>, <<"TypeList", FALSE, FALSE>> >> \o <<a, b, f>>)
    <3>1. PICK d, e : d = <<"Type">> /\ e = <<"TypeList", FALSE, FALSE>>
      OBVIOUS
    <3>2. /\ Inner(f, d, errors) /\ Inner(f, e, errors) /\ Starts(d, tok', errors)
          /\ e[1] \notin Ready("none")
      BY <2>1, <3>1
    <3>3. Good(f, <<d, e, a, b, f>>, errors, tok')
      BY ONLY <2>3, <3>2, Good5
    <3>4. Good(f, <<d, e>> \o <<a, b, f>>, errors, tok')
      BY ONLY <3>3, Joined23
    <3> QED
      BY <2>1, <2>2, <2>7, <3>1, <3>4, AdvanceStep
  <2>8. CASE tok = "kw_case" /\ Advance(CaseHead[c] \o <<a, b, f>>)
    <3>1. PICK x, y, z : /\ x = <<ExpressionList>> /\ z = <<SimpleStmt("SendRecv")>>
                         /\ y = << <<"Type">>, <<"TypeList", FALSE, FALSE>> >>
      OBVIOUS
    <3>2. CaseHead = [ExprCase |-> x, TypeCase |-> y, CommCase |-> z]
      BY ONLY <3>1, Zenon DEF CaseHead
    <3>3. /\ c = "ExprCase" => CaseHead[c] = x
          /\ c = "TypeCase" => CaseHead[c] = y
          /\ c = "CommCase" => CaseHead[c] = z
      BY ONLY <3>2
    <3>4. CASE c = "ExprCase"
      <4>1. PICK e : e = ExpressionList
        OBVIOUS
      <4>2. Inner(f, e, errors) /\ Starts(e, tok', errors)
        BY <2>1, <4>1 DEF ExpressionList
      <4>3. Advance(<<e>> \o <<a, b, f>>)
        BY <2>8, <3>1, <3>3, <3>4, <4>1, Zenon
      <4> QED
        BY <2>6, <2>8, <4>2, <4>3
    <3>5. CASE c = "TypeCase"
      <4>1. Advance(<< <<"Type">>, <<"TypeList", FALSE, FALSE>> >> \o <<a, b, f>>)
        BY <2>8, <3>1, <3>3, <3>5, Zenon
      <4> QED
        BY <2>7, <2>8, <4>1
    <3>6. CASE c = "CommCase"
      <4>1. PICK e : e = SimpleStmt("SendRecv")
        OBVIOUS
      <4>2. Inner(f, e, errors) /\ Starts(e, tok', errors)
        BY <2>1, <4>1
      <4>3. Advance(<<e>> \o <<a, b, f>>)
        BY <2>8, <3>1, <3>3, <3>6, <4>1, Zenon
      <4> QED
        BY <2>6, <2>8, <4>2, <4>3
    <3> QED
      BY <2>1, <3>4, <3>5, <3>6
  <2>9. CASE Stay /\ Diag /\ Abandon(<<Skip({"r_brace"}, FALSE, FALSE)>>)
    BY <2>2, <2>9, LeaveTracker DEF Diag
  <2> QED
    BY <1>18, <2>1, <2>4, <2>5, <2>8, <2>9 DEF ParseCaseClause
<1>19. CASE CaseStatements
  <2>1. CASE At("CaseColon") /\ tok = "colon" /\ Advance(<< >>)
    BY <2>1, AdvanceStep, Good0
  <2>2. CASE At("CaseColon") /\ Complain(<< >>)
    BY <2>2, ComplainStep, Good0
  <2>3. CASE /\ At("CaseStmts") \/ At("CaseSemi")
            /\ Continue(<< >>)
    BY <2>3, ContinueStep, Good0
  <2>4. CASE /\ At("CaseStmts")
            /\ Continue(<< <<"Statement">>, <<"CaseSemi">> >>)
    BY <2>4, ContinueStep, Good2
  <2>5. CASE At("CaseSemi") /\ tok = "semi" /\ Advance(<< <<"CaseStmts">> >>)
    BY <2>5, AdvanceStep, Good1
  <2>6. CASE /\ At("CaseSemi")
            /\ Complain(<<Skip({"semi", "r_brace"}, FALSE, TRUE), <<"CaseStmts">> >>)
    BY <2>6, ComplainStep, Good2
  <2> QED
    BY <1>19, <2>1, <2>2, <2>3, <2>4, <2>5, <2>6 DEF CaseStatements
<1>20. CASE ParseForStmt
  <2>1. CASE At("ForStmt") /\ StartHeader(<< <<"ForBody">> >>)
    <3>1. Good(<<"IfInit">>, << <<"ForBody">> >>, errors, tok)
      BY Good1
    <3> QED
      BY <2>1, <3>1, StartStep
  <2>2. CASE At("ForStmt") /\ StartHeader(<< <<"ForHead">> >>)
    <3>1. Good(<<"IfInit">>, << <<"ForHead">> >>, errors, tok)
      BY Good1
    <3> QED
      BY <2>2, <3>1, StartStep
  <2>3. CASE /\ At("ForStmt")
            /\ StartHeader(<<SimpleStmt("RangeClause"), <<"ForHead">> >>)
    BY <2>3, StartForStep, AssertionStep DEF StartHeader, Inv, TypeOK
  <2>4. CASE At("ForHead") /\ tok = "semi" /\ Advance(<< <<"ForCond">> >>)
    BY <2>4, AdvanceStep, Good1
  <2>5. CASE At("ForHead") /\ Continue(<< <<"ForBody">> >>)
    BY <2>5, ContinueStep, Good1
  <2>6. CASE At("ForHead") /\ Complain(<< <<"ForBody">> >>)
    BY <2>6, ComplainStep, Good1
  <2>7. CASE At("ForHead") /\ LeaveHeader(TRUE)
    BY <2>7, EndHeaderEarly
  <2>8. CASE At("ForHead") /\ LeaveHeader(FALSE)
    BY <2>8, EndHeaderEarly
  <2> QED
    BY <1>20, <2>1, <2>2, <2>3, <2>4, <2>5, <2>6, <2>7, <2>8 DEF ParseForStmt
<1>21. CASE ForClause
  <2>1. CASE At("ForCond") /\ Continue(<< >> \o << <<"ForSemi">> >>)
    BY <2>1, ContinueStep, Good1, AnySeqs, Concat
  <2>2. CASE At("ForCond") /\ Continue(<<Expression>> \o << <<"ForSemi">> >>)
    BY <2>2, ContinueStep, Good2, Literals2 DEF Expression
  <2>3. CASE At("ForCond") /\ Continue((IF tok = "semi" THEN << >> ELSE <<Expression>>)
                                      \o << <<"ForSemi">> >>)
    BY <2>1, <2>2, <2>3
  <2>4. CASE At("ForSemi") /\ tok = "semi" /\ Advance(<< <<"ForPost">> >>)
    BY <2>4, AdvanceStep, Good1
  <2>5. CASE At("ForPost") /\ Continue(<< >> \o << <<"ForBody">> >>)
    BY <2>5, ContinueStep, Good1, AnySeqs, Concat
  <2>6. CASE At("ForPost") /\ Continue(<<SimpleStmt("None")>> \o << <<"ForBody">> >>)
    BY <2>6, ContinueStep, Good2, Literals2
  <2>7. CASE At("ForPost") /\ Continue((IF tok = "l_brace" THEN << >> ELSE <<SimpleStmt("None")>>)
                                      \o << <<"ForBody">> >>)
    BY <2>5, <2>6, <2>7
  <2>8. CASE At("ForBody") /\ tok = "l_brace" /\ SetFlag(FALSE, << <<"Block">> >>)
    <3>1. Good(<<"Statement">>, << <<"Block">> >>, errors, tok)
      BY <2>8, Good1
    <3> QED
      BY <2>8, <3>1, EndHeader DEF SetFlag, Quiet
  <2>9. CASE (At("ForSemi") \/ At("ForBody")) /\ LeaveHeader(TRUE)
    BY <2>9, EndHeaderEarly
  <2> QED
    BY <1>21, <2>3, <2>4, <2>7, <2>8, <2>9 DEF ForClause
<1>22. CASE ParseBlock
  <2>1. CASE At("Block") /\ Open("brace", << <<"Statements">> >>)
    BY <2>1, Here, OpenAround, OpenersAre DEF Inside
  <2> QED
    BY <1>22, <2>1 DEF ParseBlock
<1>23. CASE Statements
  <2>1. CASE /\ At("Statements") \/ At("StatementSemi")
            /\ Continue(<< >>)
    BY <2>1, ContinueStep, Good0
  <2>2. CASE /\ At("Statements")
            /\ Continue(<< <<"Statement">>, <<"StatementSemi">> >>)
    BY <2>2, ContinueStep, Good2
  <2>3. CASE /\ At("StatementSemi")
            /\ Continue(<< <<"ExpectSemi", << >>>>, <<"Statements">> >>)
    BY <2>3, ContinueStep, Good2
  <2> QED
    BY <1>23, <2>1, <2>2, <2>3 DEF Statements
<1> QED
  BY <1>1, <1>2, <1>3, <1>4, <1>5, <1>6, <1>7, <1>8, <1>9, <1>10, <1>11, <1>12,
     <1>13, <1>14, <1>15, <1>16, <1>17, <1>18, <1>19, <1>20, <1>21, <1>22, <1>23 DEF StmtStep

-----------------------------------------------------------------------------
(* The theorems *)

(* The first state: one entry, and no token consumed.                      *)
LEMMA InitInv == Init => Inv
<1>1. SUFFICES ASSUME Init PROVE Inv
  OBVIOUS
<1>2. PICK e, s : e = <<"SourceFile">> /\ s = <<e>>
  OBVIOUS
<1>3. todo = s /\ e[1] = "SourceFile"
  BY <1>1, <1>2, Zenon DEF Init
<1>4. AnySeq(s) /\ Len(s) = 1 /\ s[1] = e /\ s # << >>
  BY <1>2, AnySeqs
<1>5. counts = [d \in Delimiters |-> 0]
  BY <1>1 DEF Init
<1>6. OpenCount(counts) = 0
  BY <1>5 DEF OpenCount, Delimiters
<1>7. source \in Sources /\ MaxOpen[source] \in Nat \ {0}
  BY <1>1, ParserAssumption DEF Init
<1>8. counts \in [Delimiters -> 0 .. MaxOpen[source]]
  BY <1>5, <1>7
<1>9. TypeOK
  BY <1>1, <1>7, <1>8 DEF Init, TypeOK
<1>10. Stack(s, errors)
  <2>1. \A i \in 1 .. Len(s) : s[i] = e
    BY <1>4
  <2>2. \A r : Fits(e, r, errors) \/ ~ AnySeq(r) \/ r # << >>
    <3>1. SUFFICES ASSUME NEW r, AnySeq(r), r = << >> PROVE Fits(e, r, errors)
      OBVIOUS
    <3> QED
      BY <1>3, <3>1 DEF Fits, Typed, Claims, Failing, InRange, OfFor, Levels, Headers,
         InPair, MayGuard
  <2>3. \A i \in 1 .. Len(s) : Rest(s, i) = << >>
    <3>1. ASSUME NEW i \in 1 .. Len(s) PROVE Rest(s, i) = << >>
      <4>1. AnySeq(Rest(s, i)) /\ Len(Rest(s, i)) = 0
        BY <1>4, RestIs
      <4> QED
        BY <4>1, Length
    <3> QED
      BY <3>1
  <2>4. AnySeq(<< >>)
    BY AnySeqs
  <2> QED
    BY <2>1, <2>2, <2>3, <2>4 DEF Stack
<1>11. ~ Flag(s)
  BY <1>3, <1>4 DEF Flag, Headers
<1>12. \A d \in Delimiters : counts[d] = Cardinality(Closes(s, d))
  <2>1. \A d : Closes(s, d) = {}
    BY <1>3, <1>4 DEF Closes
  <2> QED
    BY <1>5, <2>1, FS_EmptySet
<1>13. Starts(e, tok, errors)
  BY <1>3 DEF Starts, AtBrace, AtParen
<1>14. IInv
  <2>1. tok \in Openers => OpenCount(counts) < MaxOpen[source]
    BY <1>6, <1>7
  <2>2. needsParens = Flag(todo)
    <3>1. Flag(s) = FALSE
      BY <1>11 DEF Flag
    <3>2. needsParens = FALSE
      BY <1>1 DEF Init
    <3> QED
      BY <1>3, <3>1, <3>2
  <2>3. ~ guard /\ ret = "ok" /\ errors = "none"
    BY <1>1 DEF Init
  <2> QED
    BY <1>3, <1>4, <1>10, <1>12, <1>13, <2>1, <2>2, <2>3 DEF IInv
<1> QED
  BY <1>9, <1>14 DEF Inv

(* A step that changes nothing.                                            *)
LEMMA Stutter ==
  ASSUME Inv, UNCHANGED vars
  PROVE  Step
<1>1. Guarded
  BY DEF Guarded, vars
<1>2. TypeOK'
  BY DEF Inv, TypeOK, vars
<1>3. IInv'
  <2>1. /\ todo' = todo /\ tok' = tok /\ counts' = counts /\ source' = source
        /\ errors' = errors /\ needsParens' = needsParens /\ guard' = guard /\ ret' = ret
    BY DEF vars
  <2>2. PICK td, er, co : td = todo /\ er = errors /\ co = counts
    OBVIOUS
  <2>3. todo' = td /\ errors' = er /\ counts' = co
    BY <2>1, <2>2
  <2> QED
    BY <2>1, <2>2, <2>3 DEF Inv, IInv, OpenCount
<1> QED
  BY <1>1, <1>2, <1>3 DEF Step, Inv

(* Every step.                                                             *)
LEMMA NextStep ==
  ASSUME Inv, [Next]_vars
  PROVE  Step
<1>1. CASE Parse
  BY <1>1, CoreSteps, DeclSteps, TypeSteps, ExprSteps, StmtSteps DEF Parse
<1>2. CASE UNCHANGED vars
  BY <1>2, Stutter
<1> QED
  BY <1>1, <1>2 DEF Next, Terminating

(* The invariant holds of every reachable state.                           *)
LEMMA InvCorrect == Spec => []Inv
<1>1. Inv /\ [Next]_vars => Inv'
  BY NextStep DEF Step
<1> QED
  BY <1>1, InitInv, PTL DEF Spec

(* The flag of a stack is what InHeader says of the place in todo.         *)
LEMMA HeadersAre ==
  ASSUME AnySeq(todo)
  PROVE  /\ InHeader(1) <=> Flag(todo)
         /\ \A i \in 1 .. Len(todo) : InHeader(i + 1) <=> Flag(Rest(todo, i))
<1>1. Len(todo) \in Nat
  BY Length
<1>2. InHeader(1) <=> Flag(todo)
  BY DEF InHeader, Flag
<1>3. ASSUME NEW i \in 1 .. Len(todo) PROVE InHeader(i + 1) <=> Flag(Rest(todo, i))
  <2>1. PICK r, n : r = Rest(todo, i) /\ n = Len(todo)
    OBVIOUS
  <2>2. Len(r) = n - i /\ (\A k \in 1 .. n - i : r[k] = todo[i + k]) /\ n \in Nat /\ i \in 1 .. n
    BY <1>1, <2>1, RestIs
  <2>3. ASSUME NEW j \in i + 1 .. n, todo[j][1] \in Headers,
               \A k \in i + 1 .. j - 1 : ~ Clears(todo[k])
        PROVE  Flag(r)
    <3>1. j - i \in 1 .. n - i /\ i + (j - i) = j
      BY <2>2
    <3>2. ASSUME NEW k \in 1 .. (j - i) - 1 PROVE ~ Clears(r[k])
      <4>1. k \in 1 .. n - i /\ i + k \in i + 1 .. j - 1
        BY <2>2
      <4> QED
        BY <2>2, <2>3, <4>1
    <3> QED
      BY <2>2, <2>3, <3>1, <3>2 DEF Flag
  <2>4. ASSUME NEW j \in 1 .. n - i, r[j][1] \in Headers,
               \A k \in 1 .. j - 1 : ~ Clears(r[k])
        PROVE  InHeader(i + 1)
    <3>1. i + j \in i + 1 .. n /\ todo[i + j] = r[j]
      BY <2>2
    <3>2. ASSUME NEW k \in i + 1 .. (i + j) - 1 PROVE ~ Clears(todo[k])
      <4>1. k - i \in 1 .. j - 1 /\ k - i \in 1 .. n - i /\ i + (k - i) = k
        BY <2>2
      <4> QED
        BY <2>2, <2>4, <4>1
    <3> QED
      BY <2>1, <2>4, <3>1, <3>2 DEF InHeader
  <2> QED
    BY <2>1, <2>2, <2>3, <2>4 DEF InHeader, Flag
<1> QED
  BY <1>2, <1>3

(* The variables of the parser keep their types, in particular no count of *)
(* ParenCount, BracketCount and BraceCount, unsigned shorts, goes below    *)
(* zero, for any source: ConsumeParen and its like decrement only a count  *)
(* that is not zero, and what a stage of a function gives back is one of   *)
(* its results.                                                            *)
THEOREM TypeCorrect == Spec => []TypeOK
<1>1. Inv => TypeOK
  BY DEF Inv
<1> QED
  BY <1>1, InvCorrect, PTL

(* While the parser found no error, the counts of delimiters are those of  *)
(* the BalancedDelimiterTrackers it is inside of, for any source, any      *)
(* depth limit and any answers of the Action: every consumeOpen that       *)
(* succeeded is followed by one consumeClose on every path, and no path    *)
(* consumes a delimiter behind the back of a tracker.                      *)
THEOREM BalancedCorrect == Spec => []BalancedUnlessError
<1>1. Inv => BalancedUnlessError
  BY DEF Inv, IInv, BalancedUnlessError, Closes
<1> QED
  BY <1>1, InvCorrect, PTL

(* CompositeTypeNameLitNeedsParens is set exactly inside the header of an  *)
(* "if", "switch" or "for" where no tracker cleared it, every tracker      *)
(* restores the value that belongs to its place, and the assertion of the  *)
(* header's RAII object fails at most inside a tracker that was refused    *)
(* its opener at the depth limit, for any source.                          *)
THEOREM FlagCorrect == Spec => []FlagMatchesHeader
<1>1. ASSUME Inv PROVE FlagMatchesHeader
  <2>1. AnySeq(todo) /\ needsParens = Flag(todo) /\ Stack(todo, errors)
    BY <1>1 DEF Inv, IInv
  <2>2. needsParens = InHeader(1)
    <3>1. needsParens \in BOOLEAN
      BY <1>1 DEF Inv, TypeOK
    <3>2. (needsParens = TRUE) <=> InHeader(1)
      BY <2>1, HeadersAre
    <3>3. InHeader(1) \in BOOLEAN
      BY DEF InHeader
    <3> QED
      BY <3>1, <3>2, <3>3
  <2>3. ASSUME NEW i \in 1 .. Len(todo), todo[i][1] = "Close"
        PROVE  todo[i][3] = InHeader(i + 1)
    <3>1. Fits(todo[i], Rest(todo, i), errors)
      BY <2>1 DEF Stack
    <3>2. todo[i][3] = Flag(Rest(todo, i)) /\ todo[i][3] \in BOOLEAN
      BY <2>3, <3>1 DEF Fits, Typed
    <3>3. InHeader(i + 1) <=> Flag(Rest(todo, i))
      BY <2>1, HeadersAre
    <3>4. InHeader(i + 1) \in BOOLEAN /\ Flag(Rest(todo, i)) \in BOOLEAN
      BY DEF InHeader, Flag
    <3> QED
      BY <3>2, <3>3, <3>4
  <2>4. ASSUME At("AssertionFails")
        PROVE  \E i \in 1 .. Len(todo) : todo[i][1] = "Close" /\ ~ Clears(todo[i])
    <3>1. PICK f, t : f = todo[1] /\ t = Tail(todo)
      OBVIOUS
    <3>2. Fits(f, t, errors) /\ f[1] = "AssertionFails"
      BY <1>1, <2>4, <3>1, Split DEF At
    <3>3. Refused(t)
      BY <3>2 DEF Fits
    <3>4. Refused(todo)
      BY <1>1, <2>4, <3>1, <3>3, Split DEF At
    <3> QED
      BY <3>4 DEF Refused
  <2> QED
    BY <2>2, <2>3, <2>4 DEF FlagMatchesHeader
<1> QED
  BY <1>1, InvCorrect, PTL

(* A ".(type)" that was parsed is never forgotten: when TypeSwitchGuardParam *)
(* stops saying that there was one, it was reported, or its statement is    *)
(* the guard of a switch or is about to become it, for any source.          *)
THEOREM GuardIsUsedCorrect == Spec => GuardIsUsed
<1>1. Inv /\ [Next]_vars => Guarded
  BY NextStep DEF Step
<1>2. Guarded => [ guard /\ ~ guard' /\ errors' # "reported" =>
          \/ kind' = "TypeSwitchGuard"
          \/ \E i \in 1 .. Len(todo') : todo'[i][1] = "SimpleEnd" /\ todo'[i][4] ]_vars
  BY DEF Guarded
<1> QED
  BY <1>1, <1>2, InvCorrect, PTL DEF Spec, GuardIsUsed

(* A function that asserts the kind of the token it is called at is never  *)
(* called at another one, however many errors came before and wherever     *)
(* they were skipped to: ParseBlock (ParseStmt.cpp:942), ParseLiteralValue *)
(* (ParseExpr.cpp:573), ParseSignature, ParseParameters and ParseReceiver  *)
(* (Parser.cpp:337, 363, 474), ParseCallSuffix, ParseConversion and the    *)
(* suffixes of an operand (ParseExpr.cpp:338, 382, 430, 478),              *)
(* ParseRangeClauseTail (ParseStmt.cpp:880), ParseDeclaration, a field and *)
(* a method (Parser.cpp:1008, 687, 842), for any source.  With one         *)
(* exception: what ParseImportSpec asserts (Parser.cpp:188) holds of every *)
(* import in parentheses, but of a single one only if the token after      *)
(* "import" happens to begin an import, and fails at any other but '('.    *)
(* The actions of the other functions take that token without looking at   *)
(* it, as the code does where NDEBUG removes the assertions.               *)
THEOREM AssertedTokensCorrect == Spec => [](todo # << >> => Starts(todo[1], tok, errors))
<1>1. Inv => (todo # << >> => Starts(todo[1], tok, errors))
  BY DEF Inv, IInv
<1> QED
  BY <1>1, InvCorrect, PTL
=============================================================================
