---------------------------- MODULE LexerProofs ----------------------------
(***************************************************************************)
(* What holds of the lexer for every buffer, however long, and every       *)
(* lexeme alphabet.                                                        *)
(*                                                                         *)
(* First the scans, the type invariant, whose content is that no scan runs *)
(* past the NUL that ends the buffer, and the rule that an inserted        *)
(* semicolon follows a token that asked for one.  Then Move classifies     *)
(* what one trip through the switch can do to the text, in seven ways      *)
(* (Moves: every action is one of them), and four inductive invariants are *)
(* preserved by every move:                                                *)
(*                                                                         *)
(*     TextInv             no text is lost        NoTextLost               *)
(*     LiteralsWellFormed  where literals end     LiteralsWellFormed       *)
(*     ConflictInv         one side is lexed      OneSideOfConflicts       *)
(*     LineInv             line ends are noticed  LineEndsNoticed          *)
(***************************************************************************)
EXTENDS Lexer, SharedLemmas, TLAPS, SequenceTheorems

-----------------------------------------------------------------------------
(* Scans: each stops at the least index of some set.                       *)

LEMMA CharIn ==
  ASSUME input \in Seq(Elements), NEW i, Char(i) # "nul"
  PROVE  i \in 1 .. Len(input)
BY DEF Char

LEMMA SkipOverRange ==
  ASSUME input \in Seq(Elements), NEW p \in 1 .. BufferEnd, NEW S, "nul" \notin S
  PROVE  /\ SkipOver(p, S) \in p .. BufferEnd
         /\ Char(SkipOver(p, S)) \notin S
         /\ \A i \in p .. SkipOver(p, S) - 1 : Char(i) \in S
<1> DEFINE Q == {q \in p .. BufferEnd : Char(q) \notin S}
<1>1. BufferEnd \in Nat /\ BufferEnd \in Q /\ Q \in SUBSET Nat
  BY DEF Char, BufferEnd
<1> HIDE DEF Q
<1>2. PICK q \in Q : \A r \in Q : q <= r
  BY <1>1, LeastElement
<1> USE DEF Q
<1>3. \A i \in p .. q - 1 : Char(i) \in S
  BY <1>1, <1>2
<1> QED
  BY <1>2, <1>3 DEF SkipOver

LEMMA SkipToRange ==
  ASSUME input \in Seq(Elements), NEW p \in 1 .. BufferEnd, NEW S
  PROVE  /\ SkipTo(p, S) \in p .. BufferEnd
         /\ SkipTo(p, S) = BufferEnd \/ Char(SkipTo(p, S)) \in S
         /\ \A i \in p .. SkipTo(p, S) - 1 : Char(i) \notin S
<1> DEFINE Q == {q \in p .. BufferEnd : q = BufferEnd \/ Char(q) \in S}
<1>1. BufferEnd \in Nat /\ BufferEnd \in Q /\ Q \in SUBSET Nat
  BY DEF BufferEnd
<1> HIDE DEF Q
<1>2. PICK q \in Q : \A r \in Q : q <= r
  BY <1>1, LeastElement
<1> USE DEF Q
<1>3. \A i \in p .. q - 1 : Char(i) \notin S
  BY <1>1, <1>2
<1> QED
  BY <1>2, <1>3 DEF SkipTo
-----------------------------------------------------------------------------
(* Literals.  The scan is a recursive function; that it exists on any      *)
(* interval that ends at BufferEnd, and that it stays in that interval,    *)
(* both follow by taking the shortest interval on which it would not.      *)

ScanStep(f, i, q) ==
  LET c == IF Char(i) = "bslash" /\ q # "bquote" THEN i + 1 ELSE i
  IN IF Char(i) = q THEN [end |-> i + 1, closed |-> TRUE]
     ELSE IF c = BufferEnd \/ (Char(c) \in NewLine /\ q # "bquote")
            THEN [end |-> c, closed |-> FALSE]
            ELSE f[c + 1]

IsScan(f, beg, q) == f = [i \in beg .. BufferEnd |-> ScanStep(f, i, q)]

LEMMA ScanExists ==
  ASSUME input \in Seq(Elements), NEW beg \in 1 .. BufferEnd, NEW q \in Quotes
  PROVE  \E f : IsScan(f, beg, q)
<1> DEFINE Bad == {k \in Nat : k < BufferEnd /\ ~ \E f : IsScan(f, BufferEnd - k, q)}
<1>0. BufferEnd \in Nat \ {0} /\ Char(BufferEnd) = "nul" /\ q # "nul"
  BY DEF BufferEnd, Char, Quotes
<1>1. ASSUME Bad # {} PROVE FALSE
  <2>1. PICK k \in Bad : \A m \in Bad : k <= m
    <3> HIDE DEF Bad
    <3>1. Bad \in SUBSET Nat
      BY DEF Bad
    <3> QED
      BY <1>1, <3>1, LeastElement
  <2> DEFINE b == BufferEnd - k
  <2>2. b \in 1 .. BufferEnd
    BY <1>0, <2>1
  <2>3. CASE k = 0
    <3> DEFINE f == [i \in b .. BufferEnd |-> [end |-> BufferEnd, closed |-> FALSE]]
    <3>1. \A i \in b .. BufferEnd : ScanStep(f, i, q) = [end |-> BufferEnd, closed |-> FALSE]
      BY <1>0, <2>2, <2>3 DEF ScanStep
    <3>2. IsScan(f, b, q)
      BY <3>1 DEF IsScan
    <3> QED
      BY <2>1, <3>2
  <2>4. CASE k # 0
    <3>1. k - 1 \in Nat /\ k - 1 < BufferEnd /\ k - 1 \notin Bad
      <4>1. k \in Nat /\ k < BufferEnd
        BY <2>1
      <4>2. k - 1 \in Nat /\ k - 1 < BufferEnd /\ ~(k <= k - 1)
        BY <1>0, <4>1, <2>4
      <4> HIDE DEF Bad
      <4> QED
        BY <2>1, <4>2
    <3>2. BufferEnd - (k - 1) = b + 1
      BY <1>0, <2>1
    <3>3. PICK g : IsScan(g, b + 1, q)
      BY <3>1, <3>2
    <3> DEFINE f == [i \in b .. BufferEnd |-> IF i = b THEN ScanStep(g, i, q) ELSE g[i]]
    <3>4. ASSUME NEW i \in b .. BufferEnd PROVE ScanStep(f, i, q) = ScanStep(g, i, q)
      <4>1. \A j \in b + 1 .. BufferEnd : f[j] = g[j]
        BY <1>0, <2>2
      <4>2. CASE Char(i) = "bslash" /\ q # "bquote"
        <5>1. i # BufferEnd
          BY <1>0, <4>2
        <5>2. i + 1 # BufferEnd => i + 2 \in b + 1 .. BufferEnd
          BY <1>0, <2>2, <5>1
        <5> HIDE DEF f, b
        <5> QED
          BY <4>1, <4>2, <5>2, <1>0, <2>2 DEF ScanStep
      <4>3. CASE ~(Char(i) = "bslash" /\ q # "bquote")
        <5>1. i # BufferEnd => i + 1 \in b + 1 .. BufferEnd
          BY <1>0, <2>2
        <5> HIDE DEF f, b
        <5> QED
          BY <4>1, <4>3, <5>1 DEF ScanStep
      <4> QED
        BY <4>2, <4>3
    <3>5. \A i \in b .. BufferEnd : f[i] = ScanStep(g, i, q)
      <4>1. \A i \in b + 1 .. BufferEnd : g[i] = ScanStep(g, i, q)
        BY <3>3 DEF IsScan
      <4> QED
        BY <4>1, <1>0, <2>2
    <3>6. IsScan(f, b, q)
      <4>1. \A i \in b .. BufferEnd : f[i] = ScanStep(f, i, q)
        BY <3>4, <3>5
      <4> QED
        BY <4>1 DEF IsScan
    <3> QED
      BY <2>1, <3>6
  <2> QED
    BY <2>3, <2>4
<1>2. BufferEnd - beg \in Nat /\ BufferEnd - beg < BufferEnd
        /\ BufferEnd - (BufferEnd - beg) = beg
  BY <1>0
<1> QED
  BY <1>1, <1>2
LEMMA ScanRange ==
  ASSUME input \in Seq(Elements), NEW beg \in 1 .. BufferEnd, NEW q \in Quotes,
         NEW f, IsScan(f, beg, q)
  PROVE  \A i \in beg .. BufferEnd :
           f[i].end \in i .. BufferEnd /\ f[i].closed \in BOOLEAN
<1> DEFINE Good(i) == f[i].end \in i .. BufferEnd /\ f[i].closed \in BOOLEAN
           Bad == {k \in Nat : BufferEnd - k \in beg .. BufferEnd /\ ~Good(BufferEnd - k)}
<1>0. BufferEnd \in Nat \ {0} /\ Char(BufferEnd) = "nul" /\ q # "nul"
  BY DEF BufferEnd, Char, Quotes
<1>1. ASSUME Bad # {} PROVE FALSE
  <2>1. PICK k \in Bad : \A m \in Bad : k <= m
    <3> HIDE DEF Bad
    <3>1. Bad \in SUBSET Nat
      BY DEF Bad
    <3> QED
      BY <1>1, <3>1, LeastElement
  <2> DEFINE i == BufferEnd - k
  <2>2. k \in Nat /\ i \in beg .. BufferEnd /\ ~Good(i)
    BY <2>1
  <2>3. ASSUME NEW j \in i + 1 .. BufferEnd PROVE Good(j)
    <3>1. BufferEnd - j \in Nat /\ ~(k <= BufferEnd - j)
            /\ BufferEnd - (BufferEnd - j) = j /\ j \in beg .. BufferEnd
      BY <1>0, <2>2
    <3>2. BufferEnd - j \notin Bad
      <4> HIDE DEF Bad
      <4> QED
        BY <2>1, <3>1
    <3> HIDE DEF Good
    <3> QED
      BY <3>1, <3>2
  <2>4. f[i] = ScanStep(f, i, q)
    <3> HIDE DEF i
    <3> QED
      BY <2>2 DEF IsScan
  <2>5. i \in 1 .. BufferEnd
    BY <2>2
  <2> HIDE DEF i
  <2>6. CASE Char(i) = q
    <3>1. f[i] = [end |-> i + 1, closed |-> TRUE]
      BY <2>4, <2>6 DEF ScanStep
    <3>2. i # BufferEnd
      BY <1>0, <2>6
    <3>3. i + 1 \in i .. BufferEnd
      BY <1>0, <2>5, <3>2
    <3> QED
      BY <2>2, <3>1, <3>3
  <2>7. CASE Char(i) # q /\ ~(Char(i) = "bslash" /\ q # "bquote")
    <3>1. CASE i = BufferEnd \/ (Char(i) \in NewLine /\ q # "bquote")
      <4>1. f[i] = [end |-> i, closed |-> FALSE]
        BY <2>4, <2>7, <3>1 DEF ScanStep
      <4> QED
        BY <2>2, <2>5, <4>1
    <3>2. CASE ~(i = BufferEnd \/ (Char(i) \in NewLine /\ q # "bquote"))
      <4>1. f[i] = f[i + 1]
        BY <2>4, <2>7, <3>2 DEF ScanStep
      <4>2. i + 1 \in i + 1 .. BufferEnd
        BY <2>5, <3>2, <1>0
      <4>3. Good(i + 1)
        BY <2>3, <4>2
      <4> QED
        BY <2>2, <2>5, <4>1, <4>3
    <3> QED
      BY <3>1, <3>2
  <2>8. CASE Char(i) # q /\ Char(i) = "bslash" /\ q # "bquote"
    <3>0. i # BufferEnd
      BY <1>0, <2>8
    <3>1. CASE i + 1 = BufferEnd \/ (Char(i + 1) \in NewLine /\ q # "bquote")
      <4>1. f[i] = [end |-> i + 1, closed |-> FALSE]
        BY <2>4, <2>8, <3>1 DEF ScanStep
      <4>2. i + 1 \in i .. BufferEnd
        BY <1>0, <2>5, <3>0
      <4> QED
        BY <2>2, <4>1, <4>2
    <3>2. CASE ~(i + 1 = BufferEnd \/ (Char(i + 1) \in NewLine /\ q # "bquote"))
      <4>1. f[i] = f[i + 1 + 1]
        BY <2>4, <2>8, <3>2 DEF ScanStep
      <4>2. i + 1 + 1 \in i + 1 .. BufferEnd
        BY <2>5, <3>0, <3>2, <1>0
      <4>3. Good(i + 1 + 1)
        BY <2>3, <4>2
      <4> QED
        BY <2>2, <2>5, <4>1, <4>3
    <3> QED
      BY <3>1, <3>2
  <2> QED
    BY <2>6, <2>7, <2>8
<1>2. ASSUME NEW i \in beg .. BufferEnd PROVE Good(i)
  <2>1. BufferEnd - i \in Nat /\ BufferEnd - (BufferEnd - i) = i
    BY <1>0
  <2> HIDE DEF Good
  <2> QED
    BY <1>1, <2>1
<1> QED
  BY <1>2

LEMMA LiteralEndRange ==
  ASSUME input \in Seq(Elements), NEW beg \in 1 .. BufferEnd, NEW q \in Quotes
  PROVE  /\ LiteralEnd(beg, q).end \in beg .. BufferEnd
         /\ LiteralEnd(beg, q).closed \in BOOLEAN
<1> DEFINE S == CHOOSE f : f = [i \in beg .. BufferEnd |-> ScanStep(f, i, q)]
<1>1. LiteralEnd(beg, q) = S[beg]
  BY DEF LiteralEnd, ScanStep
<1>2. IsScan(S, beg, q)
  BY ScanExists DEF IsScan
<1> HIDE DEF S
<1>3. beg \in beg .. BufferEnd
  BY DEF BufferEnd
<1> QED
  BY <1>1, <1>2, <1>3, ScanRange
-----------------------------------------------------------------------------
(* The type invariant.  Every element but the last two conjuncts below is  *)
(* changed only through FormToken and GoTo.                                *)

TokenTypeOK ==
  /\ BufferPtr \in 1 .. BufferEnd
  /\ LastTokenKind \in TokenKinds
  /\ pc \in {"returned", "LexNextToken", "SkipIgnoredUnits"}
  /\ flags \subseteq TokenFlags
  /\ toks \in Seq(Token)

Labels == {"LexNextToken", "SkipIgnoredUnits"}

LEMMA FormTokenType ==
  ASSUME TypeOK, NEW kind \in TokenKinds, NEW beg \in Nat, NEW end \in 1 .. BufferEnd,
         NEW fl \in SUBSET TokenFlags, FormToken(kind, beg, end, fl), input' = input
  PROVE  TokenTypeOK'
<1>1. [kind |-> kind, beg |-> beg, end |-> end, flags |-> fl] \in Token
  BY DEF Token, BufferEnd
<1>2. toks' \in Seq(Token)
  <2> DEFINE t == [kind |-> kind, beg |-> beg, end |-> end, flags |-> fl]
  <2>1. t \in Token /\ toks \in Seq(Token) /\ toks' = Append(toks, t)
    BY <1>1 DEF TypeOK, FormToken
  <2> HIDE DEF t
  <2> QED
    BY <2>1, AppendProperties
<1>3. BufferEnd' = BufferEnd
  BY DEF BufferEnd
<1> QED
  BY <1>2, <1>3 DEF TypeOK, TokenTypeOK, FormToken

LEMMA InsertSemiType ==
  ASSUME TypeOK, NEW beg \in Nat, NEW end \in 1 .. BufferEnd,
         NEW fl \in SUBSET TokenFlags, InsertSemi(beg, end, fl), input' = input
  PROVE  TokenTypeOK'
<1>1. FormToken("semi", beg, end, fl \cup {"InsertedSemi"})
  BY DEF InsertSemi
<1>2. "semi" \in TokenKinds /\ fl \cup {"InsertedSemi"} \in SUBSET TokenFlags
  BY DEF TokenKinds, TokenFlags
<1> QED
  BY <1>1, <1>2, FormTokenType

LEMMA GoToType ==
  ASSUME TypeOK, NEW label \in Labels, NEW ptr \in 1 .. BufferEnd,
         NEW fl \in SUBSET TokenFlags, GoTo(label, ptr, fl), input' = input
  PROVE  TokenTypeOK'
BY DEF TypeOK, TokenTypeOK, GoTo, Labels, BufferEnd

LEMMA SpaceFlagsType ==
  ASSUME NEW fl \in SUBSET TokenFlags, NEW p, NEW e
  PROVE  SpaceFlags(fl, p, e) \in SUBSET TokenFlags
BY DEF SpaceFlags, TokenFlags

LEMMA SpaceRange ==
  ASSUME input \in Seq(Elements), NEW p \in 1 .. BufferEnd
  PROVE  /\ SpaceEnd(p) \in p .. BufferEnd
         /\ LineEnds(p) \in SUBSET (p .. BufferEnd)
         /\ LineEnds(p) # {} => Min(LineEnds(p)) \in p .. BufferEnd
<1>1. SpaceEnd(p) \in p .. BufferEnd
  BY SkipOverRange DEF SpaceEnd, Blank, NewLine
<1>2. BufferEnd \in Nat
  BY DEF BufferEnd
<1>3. LineEnds(p) \in SUBSET (p .. BufferEnd)
  BY <1>1, <1>2 DEF LineEnds
<1>4. LineEnds(p) \in SUBSET Nat
  BY <1>2, <1>3
<1> QED
  BY <1>1, <1>3, <1>4, MinIsLeast

LEMMA SkipWhitespaceType ==
  ASSUME TypeOK, input \in Seq(Elements), NEW beg \in Nat, NEW p \in 1 .. BufferEnd,
         NEW fl \in SUBSET TokenFlags, NEW label \in Labels,
         SkipWhitespace(beg, p, fl, label), input' = input
  PROVE  TokenTypeOK'
<1>1. BufferEnd \in Nat
  BY DEF BufferEnd
<1>2. CASE LineEnds(p) # {} /\ InsertSemi(beg, Min(LineEnds(p)), fl)
  <2>1. Min(LineEnds(p)) \in 1 .. BufferEnd
    BY <1>1, <1>2, SpaceRange
  <2> QED
    BY <1>2, <2>1, InsertSemiType
<1>3. CASE GoTo(label, SpaceEnd(p), SpaceFlags(fl, p, SpaceEnd(p)))
  <2>1. SpaceEnd(p) \in 1 .. BufferEnd
    BY <1>1, SpaceRange
  <2>2. SpaceFlags(fl, p, SpaceEnd(p)) \in SUBSET TokenFlags
    BY SpaceFlagsType
  <2> QED
    BY <1>3, <2>1, <2>2, GoToType
<1> QED
  BY <1>2, <1>3 DEF SkipWhitespace

LEMMA CommentType ==
  ASSUME TypeOK, NEW beg \in Nat, NEW end \in Nat, handleComment(beg, end)
  PROVE  comments' \in Seq([beg : Nat, end : Nat])
<1> DEFINE c == [beg |-> beg, end |-> end]
<1>1. c \in [beg : Nat, end : Nat] /\ comments \in Seq([beg : Nat, end : Nat])
        /\ comments' = Append(comments, c)
  BY DEF TypeOK, handleComment
<1> HIDE DEF c
<1> QED
  BY <1>1, AppendProperties

LEMMA SkipLineCommentType ==
  ASSUME TypeOK, input \in Seq(Elements), NEW beg \in Nat, NEW p \in 1 .. BufferEnd,
         NEW fl \in SUBSET TokenFlags, SkipLineComment(beg, p, fl), input' = input
  PROVE  TokenTypeOK' /\ comments' \in Seq([beg : Nat, end : Nat])
<1> DEFINE e == SkipTo(p, NewLine)
<1>1. BufferEnd \in Nat
  BY DEF BufferEnd
<1>2. e \in p .. BufferEnd
  BY SkipToRange
<1>3. handleComment(beg, e)
  BY DEF SkipLineComment
<1>4. \/ GoTo("SkipIgnoredUnits", e, fl)
      \/ e # BufferEnd /\ InsertSemi(beg, e + 1, fl)
      \/ e # BufferEnd /\ GoTo("SkipIgnoredUnits", e + 1,
                               (fl \cup {"StartOfLine"}) \ {"LeadingSpace"})
  BY DEF SkipLineComment
<1> HIDE DEF e
<1>5. e \in 1 .. BufferEnd /\ (e # BufferEnd => e + 1 \in 1 .. BufferEnd)
  BY <1>1, <1>2
<1>6. (fl \cup {"StartOfLine"}) \ {"LeadingSpace"} \in SUBSET TokenFlags
  BY DEF TokenFlags
<1>7. "SkipIgnoredUnits" \in Labels
  BY DEF Labels
<1>8. TokenTypeOK'
  BY <1>4, <1>5, <1>6, <1>7, GoToType, InsertSemiType
<1> QED
  BY <1>3, <1>5, <1>8, CommentType

LEMMA SkipBlockCommentType ==
  ASSUME TypeOK, input \in Seq(Elements), NEW beg \in Nat, NEW p \in 1 .. BufferEnd + 1,
         NEW fl \in SUBSET TokenFlags, NEW label \in Labels,
         SkipBlockComment(beg, p, fl, label), input' = input
  PROVE  TokenTypeOK' /\ comments' \in Seq([beg : Nat, end : Nat])
<1>1. BufferEnd \in Nat \ {0}
  BY DEF BufferEnd
<1>2. CASE CommentEnds(p) = {}
  <2>1. GoTo(label, BufferEnd, fl) /\ UNCHANGED comments
    BY <1>2 DEF SkipBlockComment
  <2>2. BufferEnd \in 1 .. BufferEnd
    BY <1>1
  <2> QED
    BY <2>1, <2>2, GoToType DEF TypeOK
<1>3. CASE CommentEnds(p) # {}
  <2> DEFINE e == Min(CommentEnds(p))
             after == fl \cup {"LeadingSpace"}
  <2>1. e \in 1 .. BufferEnd
    <3>1. CommentEnds(p) \in SUBSET Nat /\ CommentEnds(p) \in SUBSET (1 .. BufferEnd)
      BY <1>1 DEF CommentEnds
    <3> QED
      BY <1>3, <3>1, MinIsLeast
  <2>2. handleComment(beg, e)
    BY <1>3 DEF SkipBlockComment
  <2>3. \/ InsertSemi(beg, e, fl)
        \/ GoTo(label, e, after)
        \/ /\ Char(e) \in Blank
           /\ GoTo(label, SpaceEnd(e + 1), SpaceFlags(after, e + 1, SpaceEnd(e + 1)))
        \/ /\ Char(e) \in Blank
           /\ LineEnds(e + 1) # {}
           /\ pc' = label
           /\ LastTokenKind' = "semi"
           /\ BufferPtr' = Min(LineEnds(e + 1))
           /\ flags' = after \cup {"InsertedSemi"}
           /\ UNCHANGED toks
    BY <1>3 DEF SkipBlockComment
  <2>4. after \in SUBSET TokenFlags
    BY DEF TokenFlags
  <2> HIDE DEF e, after
  <2>5. Char(e) \in Blank => e + 1 \in 1 .. BufferEnd
    BY <1>1, <2>1, CharIn DEF Blank, BufferEnd
  <2>6. ASSUME InsertSemi(beg, e, fl) PROVE TokenTypeOK'
    BY <2>1, <2>6, InsertSemiType
  <2>7. ASSUME GoTo(label, e, after) PROVE TokenTypeOK'
    BY <2>1, <2>4, <2>7, GoToType
  <2>8. ASSUME Char(e) \in Blank,
               GoTo(label, SpaceEnd(e + 1), SpaceFlags(after, e + 1, SpaceEnd(e + 1)))
        PROVE  TokenTypeOK'
    <3>1. SpaceEnd(e + 1) \in 1 .. BufferEnd
      BY <1>1, <2>5, <2>8, SpaceRange
    <3>2. SpaceFlags(after, e + 1, SpaceEnd(e + 1)) \in SUBSET TokenFlags
      BY <2>4, SpaceFlagsType
    <3> QED
      BY <2>8, <3>1, <3>2, GoToType
  <2>9. ASSUME Char(e) \in Blank, LineEnds(e + 1) # {}, pc' = label,
               LastTokenKind' = "semi", BufferPtr' = Min(LineEnds(e + 1)),
               flags' = after \cup {"InsertedSemi"}, UNCHANGED toks
        PROVE  TokenTypeOK'
    <3>1. Min(LineEnds(e + 1)) \in 1 .. BufferEnd
      BY <1>1, <2>5, <2>9, SpaceRange
    <3>2. BufferEnd' = BufferEnd
      BY DEF BufferEnd
    <3> QED
      BY <2>4, <2>9, <3>1, <3>2 DEF TypeOK, TokenTypeOK, Labels, TokenKinds, TokenFlags
  <2>10. comments' \in Seq([beg : Nat, end : Nat])
    BY <2>1, <2>2, CommentType
  <2> QED
    BY <2>3, <2>6, <2>7, <2>8, <2>9, <2>10
<1> QED
  BY <1>2, <1>3

LEMMA LexLiteralType ==
  ASSUME TypeOK, input \in Seq(Elements), NEW p \in 1 .. BufferEnd,
         NEW fl \in SUBSET TokenFlags, Char(p) \in Quotes, LexLiteral(p, fl), input' = input
  PROVE  TokenTypeOK'
<1> DEFINE lit == LiteralEnd(p + 1, Char(p))
<1>1. BufferEnd \in Nat \ {0}
  BY DEF BufferEnd
<1>2. p + 1 \in 1 .. BufferEnd
  BY <1>1, CharIn DEF Quotes, BufferEnd
<1>3. lit.end \in 1 .. BufferEnd
  BY <1>1, <1>2, LiteralEndRange
<1>4. \/ Char(p + 1) = Char(p) /\ FormToken("unknown", p, p + 2, fl)
      \/ FormToken("unknown", p, lit.end, fl)
      \/ FormToken(LiteralKind(Char(p)), p, lit.end, fl)
  BY DEF LexLiteral
<1>5. Char(p + 1) = Char(p) => p + 2 \in 1 .. BufferEnd
  BY <1>1, <1>2, CharIn DEF Quotes, BufferEnd
<1>6. "unknown" \in TokenKinds /\ LiteralKind(Char(p)) \in TokenKinds
  BY DEF TokenKinds, LiteralKind
<1> HIDE DEF lit
<1> QED
  BY <1>3, <1>4, <1>5, <1>6, FormTokenType
-----------------------------------------------------------------------------
(* The position of the switch, and the theorem.                            *)

LEMMA TokType ==
  ASSUME TypeOK
  PROVE  /\ input \in Seq(Elements)
         /\ BufferEnd \in Nat \ {0}
         /\ Tok \in 1 .. BufferEnd
         /\ TokFlags \in SUBSET TokenFlags
<1>1. input \in Seq(Elements)
  BY DEF TypeOK
<1>2. BufferEnd \in Nat \ {0}
  BY <1>1 DEF BufferEnd
<1>3. Tok \in BufferPtr .. BufferEnd
  BY <1>1, SkipOverRange DEF Tok, TypeOK, Blank
<1>4. Tok \in 1 .. BufferEnd
  BY <1>2, <1>3 DEF TypeOK
<1>5. TokFlags \in SUBSET TokenFlags
  BY DEF TokFlags, TypeOK, TokenFlags
<1> QED
  BY <1>1, <1>2, <1>4, <1>5

(* Diagnostics are about places in the buffer.                             *)
LEMMA DiagType ==
  ASSUME TypeOK, NEW id \in Diagnostics, NEW loc \in Nat, Diag(id, loc)
  PROVE  diags' \in Seq(Diagnostics \X Nat)
<1> DEFINE d == <<id, loc>>
<1>1. d \in Diagnostics \X Nat /\ diags \in Seq(Diagnostics \X Nat) /\ diags' = Append(diags, d)
  BY DEF TypeOK, Diag
<1> HIDE DEF d, Diagnostics
<1> QED
  BY <1>1, AppendProperties

LEMMA LiteralDiagType ==
  ASSUME NEW q \in Quotes, NEW what \in {"null_in", "unterminated"}
  PROVE  LiteralDiag(q, what) \in Diagnostics \ {"conflict_marker", "unterminated_block_comment"}
BY DEF LiteralDiag, Quotes, Diagnostics

(* The last NUL of a literal.                                              *)
LEMMA LastNul ==
  ASSUME input \in Seq(Elements), NEW p \in 1 .. BufferEnd, NEW e \in 1 .. BufferEnd,
         NEW S, S = {i \in p .. e - 1 : Char(i) = "nul"}, S # {}
  PROVE  Max(S) \in S /\ Max(S) \in Nat
<1>1. BufferEnd \in Nat /\ S \in SUBSET (1 .. BufferEnd)
  BY DEF BufferEnd
<1>2. Max(S) \in S
  BY <1>1, MaxIsGreatest
<1> QED
  BY <1>1, <1>2

LEMMA NextDiags ==
  ASSUME TypeOK, Next
  PROVE  diags' \in Seq(Diagnostics \X Nat)
<1>0. /\ input \in Seq(Elements) /\ BufferEnd \in Nat \ {0}
      /\ Tok \in 1 .. BufferEnd /\ Tok \in Nat /\ BufferPtr \in Nat
  BY TokType DEF TypeOK
<1>1. /\ "null_in_file" \in Diagnostics /\ "unterminated_block_comment" \in Diagnostics
      /\ "conflict_marker" \in Diagnostics /\ "empty_rune" \in Diagnostics
  BY DEF Diagnostics
<1>2. diags \in Seq(Diagnostics \X Nat)
  BY DEF TypeOK
<1>3. CASE UNCHANGED diags
  BY <1>2, <1>3
<1>4. CASE LexNul
  BY <1>0, <1>1, <1>4, DiagType DEF LexNul
<1>5. ASSUME NEW beg \in Nat, NEW p, NEW fl, NEW label, SkipBlockComment(beg, p, fl, label)
      PROVE  diags' \in Seq(Diagnostics \X Nat)
  <2>1. Diag("unterminated_block_comment", beg) \/ UNCHANGED diags
    BY <1>5 DEF SkipBlockComment
  <2> QED
    BY <1>1, <1>3, <2>1, DiagType
<1>6. CASE LexSlash
  <2>1. UNCHANGED diags \/ SkipBlockComment(Tok, Tok + 2, TokFlags, "LexNextToken")
    BY <1>6 DEF LexSlash, SkipLineComment, unchangedObservers
  <2> QED
    BY <1>0, <1>3, <1>5, <2>1
<1>7. CASE SkipIgnoredUnits
  <2>1. UNCHANGED diags \/ SkipBlockComment(BufferPtr, BufferPtr + 2, flags, "SkipIgnoredUnits")
    BY <1>7 DEF SkipIgnoredUnits, SkipLineComment, unchangedObservers
  <2> QED
    BY <1>0, <1>3, <1>5, <2>1
<1>8. CASE LexMarker
  BY <1>0, <1>1, <1>3, <1>8, DiagType DEF LexMarker
<1>9. CASE LexQuote
  <2> DEFINE lit == LiteralEnd(Tok + 1, Char(Tok))
             nuls == {i \in Tok + 1 .. lit.end - 1 : Char(i) = "nul"}
  <2>1. Char(Tok) \in Quotes /\ LexLiteral(Tok, TokFlags)
    BY <1>9 DEF LexQuote
  <2>2. Tok + 1 \in 1 .. BufferEnd
    BY <1>0, <2>1, CharIn DEF Quotes, BufferEnd
  <2>3. lit.end \in 1 .. BufferEnd
    BY <1>0, <2>1, <2>2, LiteralEndRange
  <2>4. nuls # {} => Max(nuls) \in Nat
    <3> HIDE DEF lit
    <3> QED
      BY <1>0, <2>2, <2>3, LastNul
  <2>5. \/ UNCHANGED diags
        \/ Diag("empty_rune", Tok)
        \/ Diag(LiteralDiag(Char(Tok), "unterminated"), Tok)
        \/ nuls # {} /\ Diag(LiteralDiag(Char(Tok), "null_in"), Max(nuls))
    BY <2>1 DEF LexLiteral
  <2> HIDE DEF nuls
  <2> QED
    BY <1>0, <1>1, <1>3, <2>1, <2>4, <2>5, DiagType, LiteralDiagType
<1> QED
  BY <1>3, <1>4, <1>6, <1>7, <1>8, <1>9
     DEF Next, LexTokenInternal, Lex, Done, vars, LexEndOfFile, LexNewLine, LexLexeme, LexOther,
         unchangedObservers

LEMMA NextType ==
  ASSUME TypeOK, Next
  PROVE  TypeOK'
<1>0. /\ input \in Seq(Elements)
      /\ BufferEnd \in Nat \ {0}
      /\ Tok \in 1 .. BufferEnd /\ Tok \in Nat
      /\ TokFlags \in SUBSET TokenFlags
  BY TokType
<1>1. CASE Lex
  BY <1>1, NextDiags DEF Lex, TypeOK, BufferEnd, TokenFlags
<1>2. ASSUME TokenTypeOK', comments' \in Seq([beg : Nat, end : Nat]),
             CurrentConflictMarkerState' \in MarkerStates, unchangedEnv
      PROVE  TypeOK'
  BY <1>2, NextDiags DEF TypeOK, TokenTypeOK, unchangedEnv
<1>3. \A i \in 1 .. BufferEnd : Char(i) # "nul" => i + 1 \in 1 .. BufferEnd
  BY <1>0, CharIn DEF BufferEnd
<1>4. unchangedEnv => input' = input
  BY DEF unchangedEnv
<1>5. CASE LexEndOfFile
  <2>1. BufferEnd \in 1 .. BufferEnd /\ "eof" \in TokenKinds /\ {} \in SUBSET TokenFlags
    BY <1>0 DEF TokenKinds
  <2>2. TokenTypeOK'
    BY <1>0, <1>4, <1>5, <2>1, InsertSemiType, FormTokenType DEF LexEndOfFile
  <2> QED
    BY <1>2, <1>5, <2>2 DEF LexEndOfFile, unchangedObservers, TypeOK
<1>6. CASE LexNul
  <2>1. Tok + 1 \in 1 .. BufferEnd
    BY <1>0, <1>6 DEF LexNul
  <2>2. TokFlags \cup {"LeadingSpace"} \in SUBSET TokenFlags /\ "LexNextToken" \in Labels
    BY <1>0 DEF TokenFlags, Labels
  <2>3. TokenTypeOK'
    BY <1>0, <1>4, <1>6, <2>1, <2>2, SkipWhitespaceType DEF LexNul
  <2> QED
    BY <1>2, <1>6, <2>3 DEF LexNul, TypeOK
<1>7. CASE LexNewLine
  <2>1. Tok + 1 \in 1 .. BufferEnd
    BY <1>0, <1>3, <1>7 DEF LexNewLine, NewLine
  <2>2. /\ (TokFlags \cup {"StartOfLine"}) \ {"LeadingSpace"} \in SUBSET TokenFlags
        /\ "LexNextToken" \in Labels
    BY <1>0 DEF TokenFlags, Labels
  <2>3. TokenTypeOK'
    BY <1>0, <1>4, <1>7, <2>1, <2>2, SkipWhitespaceType, InsertSemiType DEF LexNewLine
  <2> QED
    BY <1>2, <1>7, <2>3 DEF LexNewLine, unchangedObservers, TypeOK
<1>8. CASE LexLexeme
  <2>1. Char(Tok) \in TokenKinds /\ Char(Tok) # "nul"
    BY <1>8, LexemesAssumption DEF LexLexeme, TokenKinds
  <2>2. TokenTypeOK'
    BY <1>0, <1>3, <1>4, <1>8, <2>1, FormTokenType DEF LexLexeme
  <2> QED
    BY <1>2, <1>8, <2>2 DEF LexLexeme, unchangedObservers, TypeOK
<1>9. CASE LexQuote
  <2>1. TokenTypeOK'
    BY <1>0, <1>4, <1>9, LexLiteralType DEF LexQuote
  <2> QED
    BY <1>2, <1>9, <2>1 DEF LexQuote, TypeOK
<1>10. CASE LexSlash
  <2>1. Tok + 1 \in 1 .. BufferEnd
    BY <1>0, <1>3, <1>10 DEF LexSlash
  <2>2. Char(Tok + 1) \in {"/", "*"} => Tok + 2 \in 1 .. BufferEnd
    BY <1>0, <1>3, <2>1
  <2>3. Tok + 2 \in 1 .. BufferEnd => Tok + 2 \in 1 .. BufferEnd + 1
    BY <1>0
  <2>4. "LexNextToken" \in Labels /\ "slash" \in TokenKinds
    BY DEF Labels, TokenKinds
  <2>5. CASE Char(Tok + 1) = "/" /\ SkipLineComment(Tok, Tok + 2, TokFlags)
    <3>1. TokenTypeOK' /\ comments' \in Seq([beg : Nat, end : Nat])
      BY <1>0, <1>4, <1>10, <2>2, <2>5, SkipLineCommentType DEF LexSlash
    <3> QED
      BY <1>2, <1>10, <3>1 DEF LexSlash, TypeOK
  <2>6. CASE Char(Tok + 1) = "*" /\ SkipBlockComment(Tok, Tok + 2, TokFlags, "LexNextToken")
    <3>1. TokenTypeOK' /\ comments' \in Seq([beg : Nat, end : Nat])
      BY <1>0, <1>4, <1>10, <2>2, <2>3, <2>4, <2>6, SkipBlockCommentType DEF LexSlash
    <3> QED
      BY <1>2, <1>10, <3>1 DEF LexSlash, TypeOK
  <2>7. CASE FormToken("slash", Tok, Tok + 1, TokFlags) /\ unchangedObservers
    <3>1. TokenTypeOK'
      BY <1>0, <1>4, <1>10, <2>1, <2>4, <2>7, FormTokenType DEF LexSlash
    <3> QED
      BY <1>2, <1>10, <2>7, <3>1 DEF LexSlash, unchangedObservers, TypeOK
  <2> QED
    BY <1>10, <2>5, <2>6, <2>7 DEF LexSlash
<1>11. CASE LexOther
  <2>1. Tok + 1 \in 1 .. BufferEnd /\ "star" \in TokenKinds /\ "unknown" \in TokenKinds
    BY <1>0, <1>3, <1>11 DEF LexOther, TokenKinds
  <2>2. TokenTypeOK'
    BY <1>0, <1>4, <1>11, <2>1, FormTokenType DEF LexOther
  <2> QED
    BY <1>2, <1>11, <2>2 DEF LexOther, unchangedObservers, TypeOK
<1>12. CASE LexMarker
  <2>1. Tok + 1 \in 1 .. BufferEnd /\ "marker_ops" \in TokenKinds /\ "LexNextToken" \in Labels
    BY <1>0, <1>3, <1>12 DEF LexMarker, Markers, TokenKinds, Labels
  <2>2. SkipTo(Tok, NewLine) \in 1 .. BufferEnd
    BY <1>0, SkipToRange
  <2>3. EndsConflict(Tok) => ConflictLineEnd(Tok) \in 1 .. BufferEnd
    <3> DEFINE E == ConflictEnds(Tok + 1, CurrentConflictMarkerState)
    <3>1. E \in SUBSET Nat /\ E \in SUBSET (1 .. BufferEnd)
      BY <1>0 DEF ConflictEnds, BufferEnd
    <3>2. E # {} => Min(E) \in 1 .. BufferEnd
      BY <3>1, MinIsLeast
    <3>3. E # {} => SkipTo(Min(E), NewLine) \in 1 .. BufferEnd
      BY <1>0, <3>2, SkipToRange
    <3> QED
      BY <3>3 DEF EndsConflict, ConflictLineEnd
  <2>4. TokenTypeOK'
    BY <1>0, <1>4, <1>12, <2>1, <2>2, <2>3, FormTokenType, GoToType DEF LexMarker
  <2>5. CurrentConflictMarkerState' \in MarkerStates
    BY <1>12 DEF LexMarker, MarkerKind, MarkerStates, TypeOK
  <2> QED
    BY <1>2, <1>12, <2>4, <2>5 DEF LexMarker, TypeOK
<1>13. CASE SkipIgnoredUnits
  <2> DEFINE p == BufferPtr
  <2>0. p \in 1 .. BufferEnd /\ p \in Nat /\ flags \in SUBSET TokenFlags
    BY <1>0 DEF TypeOK
  <2>1. Char(p) = "/" => p + 1 \in 1 .. BufferEnd
    BY <1>3, <2>0
  <2>2. Char(p) = "/" /\ Char(p + 1) \in {"/", "*"} =>
          p + 2 \in 1 .. BufferEnd /\ p + 2 \in 1 .. BufferEnd + 1
    BY <1>0, <1>3, <2>0, <2>1
  <2>3. /\ "SkipIgnoredUnits" \in Labels /\ AfterIgnored \in Labels
        /\ flags \cup {"LeadingSpace"} \in SUBSET TokenFlags
    BY <2>0 DEF Labels, AfterIgnored, TokenFlags
  <2>4. TokenTypeOK' /\ comments' \in Seq([beg : Nat, end : Nat])
    <3>1. ASSUME Char(p) = "/", Char(p + 1) = "/", SkipLineComment(p, p + 2, flags)
          PROVE  TokenTypeOK' /\ comments' \in Seq([beg : Nat, end : Nat])
      BY <1>0, <1>4, <1>13, <2>0, <2>2, <3>1, SkipLineCommentType DEF SkipIgnoredUnits
    <3>2. ASSUME Char(p) = "/", Char(p + 1) = "*",
                 SkipBlockComment(p, p + 2, flags, "SkipIgnoredUnits")
          PROVE  TokenTypeOK' /\ comments' \in Seq([beg : Nat, end : Nat])
      BY <1>0, <1>4, <1>13, <2>0, <2>2, <2>3, <3>2, SkipBlockCommentType DEF SkipIgnoredUnits
    <3>3. ASSUME SkipWhitespace(p, p, flags \cup {"LeadingSpace"}, "SkipIgnoredUnits"),
                 unchangedObservers
          PROVE  TokenTypeOK' /\ comments' \in Seq([beg : Nat, end : Nat])
      BY <1>0, <1>4, <1>13, <2>0, <2>3, <3>3, SkipWhitespaceType
      DEF SkipIgnoredUnits, unchangedObservers, TypeOK
    <3>4. ASSUME GoTo(AfterIgnored, p, flags), unchangedObservers
          PROVE  TokenTypeOK' /\ comments' \in Seq([beg : Nat, end : Nat])
      BY <1>4, <1>13, <2>0, <2>3, <3>4, GoToType
      DEF SkipIgnoredUnits, unchangedObservers, TypeOK
    <3> QED
      BY <1>13, <3>1, <3>2, <3>3, <3>4 DEF SkipIgnoredUnits
  <2> QED
    BY <1>2, <1>13, <2>4 DEF SkipIgnoredUnits, TypeOK
<1>14. CASE Done
  BY <1>14 DEF Done, vars, TypeOK, BufferEnd
<1> QED
  BY <1>1, <1>5, <1>6, <1>7, <1>8, <1>9, <1>10, <1>11, <1>12, <1>13, <1>14
  DEF Next, LexTokenInternal

(* TypeOK is invariant: in particular no path of the lexer, whatever the   *)
(* buffer, leaves BufferPtr past the NUL that ends it.                     *)
THEOREM TypeCorrect == Spec => []TypeOK
<1>1. Init => TypeOK
  <2>1. "eof" \in TokenKinds /\ "CMK_None" \in MarkerStates
    BY DEF TokenKinds, MarkerStates
  <2>2. Init => BufferEnd \in Nat \ {0}
    BY InputsAssumption DEF Init, BufferEnd
  <2> QED
    BY <2>1, <2>2, InputsAssumption DEF Init, TypeOK
<1>2. TypeOK /\ [Next]_vars => TypeOK'
  <2>1. TypeOK /\ UNCHANGED vars => TypeOK'
    BY DEF vars, TypeOK, BufferEnd
  <2> QED
    BY <2>1, NextType
<1> QED
  BY <1>1, <1>2, PTL DEF Spec
-----------------------------------------------------------------------------
(* Semicolon insertion.  The lexer decides on LastTokenKind alone, so the  *)
(* invariant ties it to the token last handed out.  The converse does not  *)
(* hold: a block comment may have reset LastTokenKind without a token.     *)

LastKindInv ==
  LastTokenKind \in SemiKinds =>
    Len(toks) > 0 /\ toks[Len(toks)].kind = LastTokenKind

(* All that a step does to toks and LastTokenKind.                         *)
KindStep ==
  \/ \E kind \in TokenKinds \ {"semi"} : \E beg, end, fl : FormToken(kind, beg, end, fl)
  \/ \E beg, end, fl : InsertSemi(beg, end, fl)
  \/ UNCHANGED toks /\ LastTokenKind' \in {LastTokenKind, "semi"}

LEMMA GoToKind ==
  ASSUME NEW label, NEW ptr, NEW fl, GoTo(label, ptr, fl)
  PROVE  KindStep
BY DEF GoTo, KindStep

LEMMA SkipWhitespaceKind ==
  ASSUME NEW beg, NEW p, NEW fl, NEW label, SkipWhitespace(beg, p, fl, label)
  PROVE  KindStep
BY GoToKind DEF SkipWhitespace, KindStep

LEMMA SkipLineCommentKind ==
  ASSUME NEW beg, NEW p, NEW fl, SkipLineComment(beg, p, fl)
  PROVE  KindStep
BY GoToKind DEF SkipLineComment, KindStep

LEMMA SkipBlockCommentKind ==
  ASSUME NEW beg, NEW p, NEW fl, NEW label, SkipBlockComment(beg, p, fl, label)
  PROVE  KindStep
<1>1. CASE CommentEnds(p) = {}
  BY <1>1, GoToKind DEF SkipBlockComment
<1>2. CASE CommentEnds(p) # {}
  <2> DEFINE e == Min(CommentEnds(p))
  <2>1. \/ InsertSemi(beg, e, fl)
        \/ \E ptr, f : GoTo(label, ptr, f)
        \/ LastTokenKind' = "semi" /\ UNCHANGED toks
    BY <1>2 DEF SkipBlockComment
  <2> QED
    BY <2>1, GoToKind DEF KindStep
<1> QED
  BY <1>1, <1>2

LEMMA LexLiteralKind ==
  ASSUME NEW p, NEW fl, LexLiteral(p, fl)
  PROVE  KindStep
<1>1. {"unknown", LiteralKind(Char(p))} \in SUBSET (TokenKinds \ {"semi"})
  BY DEF LiteralKind, TokenKinds
<1>2. \E kind \in {"unknown", LiteralKind(Char(p))} : \E beg, end, f :
        FormToken(kind, beg, end, f)
  BY DEF LexLiteral
<1> QED
  BY <1>1, <1>2 DEF KindStep

LEMMA NextKind ==
  ASSUME Next
  PROVE  KindStep
<1>1. {"slash", "star", "unknown", "marker_ops", "eof"} \in SUBSET (TokenKinds \ {"semi"})
  BY DEF TokenKinds
<1>2. Lexemes \in SUBSET (TokenKinds \ {"semi"})
  BY LexemesAssumption DEF TokenKinds
<1>3. CASE Lex \/ Done
  BY <1>3 DEF Lex, Done, vars, KindStep
<1>4. CASE LexEndOfFile
  BY <1>1, <1>4 DEF LexEndOfFile, KindStep
<1>5. CASE LexNul
  BY <1>5, SkipWhitespaceKind DEF LexNul
<1>6. CASE LexNewLine
  BY <1>6, SkipWhitespaceKind DEF LexNewLine, KindStep
<1>7. CASE LexLexeme
  BY <1>2, <1>7 DEF LexLexeme, KindStep
<1>8. CASE LexQuote
  BY <1>8, LexLiteralKind DEF LexQuote
<1>9. CASE LexSlash
  BY <1>1, <1>9, SkipLineCommentKind, SkipBlockCommentKind DEF LexSlash, KindStep
<1>10. CASE LexOther
  BY <1>1, <1>10 DEF LexOther, KindStep
<1>11. CASE LexMarker
  BY <1>1, <1>11, GoToKind DEF LexMarker, KindStep
<1>12. CASE SkipIgnoredUnits
  BY <1>12, SkipLineCommentKind, SkipBlockCommentKind, SkipWhitespaceKind, GoToKind
  DEF SkipIgnoredUnits
<1> QED
  BY <1>3, <1>4, <1>5, <1>6, <1>7, <1>8, <1>9, <1>10, <1>11, <1>12 DEF Next, LexTokenInternal

LEMMA AppendToken ==
  ASSUME toks \in Seq(Token), NEW t, toks' = Append(toks, t)
  PROVE  /\ Len(toks) \in Nat /\ DOMAIN toks = 1 .. Len(toks)
         /\ Len(toks') = Len(toks) + 1 /\ DOMAIN toks' = 1 .. Len(toks) + 1
         /\ \A i \in 1 .. Len(toks) : toks'[i] = toks[i]
         /\ toks'[Len(toks) + 1] = t
OBVIOUS

LEMMA SemiStep ==
  ASSUME TypeOK, LastKindInv, SemiFollowsSemiKind, KindStep
  PROVE  LastKindInv' /\ SemiFollowsSemiKind'
<1>0. toks \in Seq(Token)
  BY DEF TypeOK
<1>1. ASSUME NEW kind \in TokenKinds \ {"semi"}, NEW beg, NEW end, NEW fl,
             FormToken(kind, beg, end, fl)
      PROVE  LastKindInv' /\ SemiFollowsSemiKind'
  <2> DEFINE t == [kind |-> kind, beg |-> beg, end |-> end, flags |-> fl]
  <2>1. toks' = Append(toks, t) /\ LastTokenKind' = kind
    BY <1>1 DEF FormToken
  <2>2. t.kind = kind /\ ~Inserted(t)
    BY DEF Inserted
  <2> HIDE DEF t
  <2>3. LastKindInv'
    BY <1>0, <2>1, <2>2, AppendToken DEF LastKindInv
  <2>4. SemiFollowsSemiKind'
    BY <1>0, <2>1, <2>2, AppendToken DEF SemiFollowsSemiKind, Inserted
  <2> QED
    BY <2>3, <2>4
<1>2. ASSUME NEW beg, NEW end, NEW fl, InsertSemi(beg, end, fl)
      PROVE  LastKindInv' /\ SemiFollowsSemiKind'
  <2> DEFINE t == [kind |-> "semi", beg |-> beg, end |-> end,
                   flags |-> fl \cup {"InsertedSemi"}]
  <2>1. toks' = Append(toks, t) /\ LastTokenKind' = "semi" /\ LastTokenKind \in SemiKinds
    BY <1>2 DEF InsertSemi, FormToken, WantsSemi
  <2>2. Len(toks) > 0 /\ toks[Len(toks)].kind \in SemiKinds
    BY <2>1 DEF LastKindInv
  <2> HIDE DEF t
  <2>3. LastKindInv'
    BY <2>1 DEF LastKindInv, SemiKinds
  <2>4. SemiFollowsSemiKind'
    BY <1>0, <2>1, <2>2, AppendToken DEF SemiFollowsSemiKind, Inserted
  <2> QED
    BY <2>3, <2>4
<1>3. CASE UNCHANGED toks /\ LastTokenKind' \in {LastTokenKind, "semi"}
  BY <1>3 DEF LastKindInv, SemiFollowsSemiKind, SemiKinds, Inserted
<1> QED
  BY <1>1, <1>2, <1>3 DEF KindStep

(* In every run over every buffer, an inserted semicolon directly follows  *)
(* a token after which Go inserts one: InsertSemi acts on what the client  *)
(* was given last, also when comments and conflict markers intervene.      *)
THEOREM SemiFollowsCorrect == Spec => []SemiFollowsSemiKind
<1>1. Init => LastKindInv /\ SemiFollowsSemiKind
  BY DEF Init, LastKindInv, SemiFollowsSemiKind, SemiKinds
<1>2. TypeOK /\ LastKindInv /\ SemiFollowsSemiKind /\ [Next]_vars
        => LastKindInv' /\ SemiFollowsSemiKind'
  <2>1. LastKindInv /\ SemiFollowsSemiKind /\ UNCHANGED vars
          => LastKindInv' /\ SemiFollowsSemiKind'
    BY DEF vars, LastKindInv, SemiFollowsSemiKind, Inserted
  <2> QED
    BY <2>1, NextKind, SemiStep
<1> QED
  BY <1>1, <1>2, TypeCorrect, PTL DEF Spec

-----------------------------------------------------------------------------
(* The shape of a literal that opens at b with the quote q.  The scan      *)
(* visits an index, in a literal with escapes, only when the backslashes   *)
(* right before it are even in number; below every such index it finds     *)
(* the rest of the literal well formed.                                    *)

AfterEven(b, i) ==
  \E k \in b + 1 .. i :
    /\ \A j \in k .. i - 1 : Char(j) = "bslash"
    /\ Char(k - 1) # "bslash" /\ (i - k) % 2 = 0

WellFormedFrom(b, i, z, q) ==
  /\ z \in i .. Len(input) /\ Char(z) = q
  /\ \A p \in i .. z : Char(p) = q => (p = z <=> q = "bquote" \/ ~Escaped(b, p))
  /\ \A p \in i .. z : Char(p) \in NewLine => q = "bquote"

LEMMA EvenIsNotEscaped ==
  ASSUME NEW b \in Nat, NEW i \in Nat, AfterEven(b, i)
  PROVE  ~Escaped(b, i)
<1> SUFFICES ASSUME Escaped(b, i) PROVE FALSE
  OBVIOUS
<1>1. PICK k \in b + 1 .. i : /\ \A j \in k .. i - 1 : Char(j) = "bslash"
                              /\ Char(k - 1) # "bslash" /\ (i - k) % 2 = 0
  BY DEF AfterEven
<1>2. PICK m \in b + 1 .. i - 1 : /\ \A j \in m .. i - 1 : Char(j) = "bslash"
                                  /\ Char(m - 1) # "bslash" /\ (i - m) % 2 = 1
  BY DEF Escaped
<1>3. ~(m < k)
  <2>1. m < k => k - 1 \in m .. i - 1
    BY <1>1, <1>2
  <2> QED
    BY <1>1, <1>2, <2>1
<1>4. ~(k < m)
  <2>1. k < m => m - 1 \in k .. i - 1
    BY <1>1, <1>2
  <2> QED
    BY <1>1, <1>2, <2>1
<1>5. k = m
  BY <1>1, <1>2, <1>3, <1>4
<1> QED
  BY <1>1, <1>2, <1>5

LEMMA BackslashEscapes ==
  ASSUME NEW b \in Nat, NEW i \in Nat, AfterEven(b, i), Char(i) = "bslash"
  PROVE  Escaped(b, i + 1) /\ AfterEven(b, i + 2)
<1>1. PICK k \in b + 1 .. i : /\ \A j \in k .. i - 1 : Char(j) = "bslash"
                              /\ Char(k - 1) # "bslash" /\ (i - k) % 2 = 0
  BY DEF AfterEven
<1>2. \A j \in k .. i : Char(j) = "bslash"
  <2>1. \A j \in k .. i : j = i \/ j \in k .. i - 1
    BY <1>1
  <2> QED
    BY <1>1, <2>1
<1>3. (i + 1 - k) % 2 = 1 /\ (i + 2 - k) % 2 = 0
  <2>1. i - k \in Int /\ i + 1 - k = (i - k) + 1 /\ i + 2 - k = (i - k) + 2
    BY <1>1
  <2> QED
    BY <1>1, <2>1
<1>4. Escaped(b, i + 1)
  <2>1. k \in b + 1 .. i + 1 - 1 /\ k .. i + 1 - 1 = k .. i
    BY <1>1
  <2> QED
    BY <1>1, <1>2, <1>3, <2>1 DEF Escaped
<1>5. CASE Char(i + 1) = "bslash"
  <2>1. k \in b + 1 .. i + 2 /\ \A j \in k .. i + 2 - 1 : j = i + 1 \/ j \in k .. i
    BY <1>1
  <2>2. \A j \in k .. i + 2 - 1 : Char(j) = "bslash"
    BY <1>2, <1>5, <2>1
  <2> QED
    BY <1>1, <1>3, <1>4, <2>1, <2>2 DEF AfterEven
<1>6. CASE Char(i + 1) # "bslash"
  <2>1. i + 2 \in b + 1 .. i + 2 /\ i + 2 .. i + 2 - 1 = {} /\ i + 2 - 1 = i + 1
        /\ (i + 2 - (i + 2)) % 2 = 0
    BY <1>1
  <2> QED
    BY <1>4, <1>6, <2>1 DEF AfterEven
<1> QED
  BY <1>5, <1>6

LEMMA OthersDoNotEscape ==
  ASSUME NEW b \in Nat, NEW i \in b .. BufferEnd, Char(i) # "bslash"
  PROVE  AfterEven(b, i + 1)
<1>1. i + 1 \in b + 1 .. i + 1 /\ i + 1 .. i + 1 - 1 = {} /\ i + 1 - 1 = i
      /\ (i + 1 - (i + 1)) % 2 = 0
  BY DEF BufferEnd
<1> QED
  BY <1>1 DEF AfterEven

LEMMA ScanShape ==
  ASSUME input \in Seq(Elements), NEW b \in Nat \ {0}, b + 1 \in 1 .. BufferEnd,
         NEW q \in Quotes, NEW f, IsScan(f, b + 1, q)
  PROVE  \A i \in b + 1 .. BufferEnd :
           f[i].closed /\ (q = "bquote" \/ AfterEven(b, i)) => WellFormedFrom(b, i, f[i].end - 1, q)
<1> DEFINE Good(i) == f[i].closed /\ (q = "bquote" \/ AfterEven(b, i))
                         => WellFormedFrom(b, i, f[i].end - 1, q)
           Bad == {k \in Nat : BufferEnd - k \in b + 1 .. BufferEnd /\ ~Good(BufferEnd - k)}
<1>0. BufferEnd \in Nat \ {0} /\ Char(BufferEnd) = "nul" /\ q # "nul" /\ q # "bslash"
      /\ q \notin NewLine /\ "bslash" \notin NewLine
  BY DEF BufferEnd, Char, Quotes, NewLine
<1>1. ASSUME Bad # {} PROVE FALSE
  <2>1. PICK k \in Bad : \A m \in Bad : k <= m
    <3> HIDE DEF Bad
    <3>1. Bad \in SUBSET Nat
      BY DEF Bad
    <3> QED
      BY <1>1, <3>1, LeastElement
  <2> DEFINE i == BufferEnd - k
  <2>2. k \in Nat /\ i \in b + 1 .. BufferEnd /\ ~Good(i)
    BY <2>1
  <2>3. ASSUME NEW j \in i + 1 .. BufferEnd PROVE Good(j)
    <3>1. BufferEnd - j \in Nat /\ ~(k <= BufferEnd - j)
            /\ BufferEnd - (BufferEnd - j) = j /\ j \in b + 1 .. BufferEnd
      BY <1>0, <2>2
    <3>2. BufferEnd - j \notin Bad
      <4> HIDE DEF Bad
      <4> QED
        BY <2>1, <3>1
    <3> HIDE DEF Good
    <3> QED
      BY <3>1, <3>2
  <2>4. f[i] = ScanStep(f, i, q)
    <3> HIDE DEF i
    <3> QED
      BY <2>2 DEF IsScan
  <2>5. i \in 1 .. BufferEnd /\ i \in Nat /\ i \in b + 1 .. BufferEnd
    BY <2>2, <1>0
  <2>6. f[i].closed /\ (q = "bquote" \/ AfterEven(b, i)) /\ ~WellFormedFrom(b, i, f[i].end - 1, q)
    BY <2>2
  <2> HIDE DEF i
  <2>7. CASE Char(i) = q
    <3>1. f[i].end = i + 1
      BY <2>4, <2>7 DEF ScanStep
    <3>2. i # BufferEnd
      BY <1>0, <2>7
    <3>3. f[i].end - 1 = i /\ i \in i .. Len(input) /\ \A p \in i .. i : p = i
      BY <2>5, <3>1, <3>2 DEF BufferEnd
    <3>4. q = "bquote" \/ ~Escaped(b, i)
      BY <2>5, <2>6, EvenIsNotEscaped
    <3> QED
      BY <1>0, <2>6, <2>7, <3>3, <3>4 DEF WellFormedFrom
  <2>8. CASE Char(i) # q /\ ~(Char(i) = "bslash" /\ q # "bquote")
    <3>1. ~(i = BufferEnd \/ (Char(i) \in NewLine /\ q # "bquote")) /\ f[i] = f[i + 1]
      BY <2>4, <2>6, <2>8 DEF ScanStep
    <3>2. i + 1 \in i + 1 .. BufferEnd /\ i + 1 \in b + 1 .. BufferEnd /\ i \in b .. BufferEnd
      BY <2>5, <3>1, <1>0
    <3>3. q = "bquote" \/ AfterEven(b, i + 1)
      BY <2>8, <3>2, OthersDoNotEscape
    <3>4. WellFormedFrom(b, i + 1, f[i + 1].end - 1, q)
      BY <2>3, <2>6, <3>1, <3>2, <3>3
    <3> DEFINE z == f[i + 1].end - 1
    <3>5. z \in i + 1 .. Len(input)
      BY <3>4 DEF WellFormedFrom
    <3>6. z \in i .. Len(input) /\ \A p \in i .. z : p = i \/ p \in i + 1 .. z
      <4> HIDE DEF z
      <4> QED
        BY <2>5, <3>5 DEF BufferEnd
    <3>7. WellFormedFrom(b, i, z, q)
      <4> HIDE DEF z
      <4>1. WellFormedFrom(b, i + 1, z, q)
        BY <3>4 DEF z
      <4> QED
        BY <2>8, <3>1, <3>6, <4>1 DEF WellFormedFrom
    <3> QED
      BY <2>6, <3>1, <3>7
  <2>9. CASE Char(i) = "bslash" /\ q # "bquote"
    <3>0. i # BufferEnd
      BY <1>0, <2>9
    <3>1. ~(i + 1 = BufferEnd \/ Char(i + 1) \in NewLine) /\ f[i] = f[i + 1 + 1]
      BY <1>0, <2>4, <2>6, <2>9 DEF ScanStep
    <3>2. i + 2 \in i + 1 .. BufferEnd /\ i + 1 + 1 = i + 2
      BY <2>5, <3>0, <3>1, <1>0
    <3>3. Escaped(b, i + 1) /\ AfterEven(b, i + 2)
      BY <2>5, <2>6, <2>9, BackslashEscapes
    <3>4. WellFormedFrom(b, i + 2, f[i + 2].end - 1, q)
      BY <2>3, <2>6, <3>1, <3>2, <3>3
    <3> DEFINE z == f[i + 2].end - 1
    <3>5. z \in i + 2 .. Len(input)
      BY <3>4 DEF WellFormedFrom
    <3>6. /\ z \in i .. Len(input) /\ i + 1 # z
          /\ \A p \in i .. z : p = i \/ p = i + 1 \/ p \in i + 2 .. z
      <4> HIDE DEF z
      <4> QED
        BY <2>5, <3>5 DEF BufferEnd
    <3>7. WellFormedFrom(b, i, z, q)
      <4> HIDE DEF z
      <4>1. WellFormedFrom(b, i + 2, z, q)
        BY <3>4 DEF z
      <4> QED
        BY <1>0, <2>9, <3>1, <3>3, <3>6, <4>1 DEF WellFormedFrom
    <3> QED
      BY <2>6, <3>1, <3>2, <3>7
  <2> QED
    BY <1>0, <2>7, <2>8, <2>9
<1>2. ASSUME NEW i \in b + 1 .. BufferEnd PROVE Good(i)
  <2>1. BufferEnd - i \in Nat /\ BufferEnd - (BufferEnd - i) = i
    BY <1>0
  <2> HIDE DEF Good
  <2> QED
    BY <1>1, <2>1
<1> QED
  BY <1>2

LEMMA LiteralShape ==
  ASSUME input \in Seq(Elements), NEW b \in 1 .. Len(input), Char(b) \in Quotes,
         LiteralEnd(b + 1, Char(b)).closed
  PROVE  WellFormedFrom(b, b + 1, LiteralEnd(b + 1, Char(b)).end - 1, Char(b))
<1> DEFINE q == Char(b)
           S == CHOOSE f : f = [i \in b + 1 .. BufferEnd |-> ScanStep(f, i, q)]
<1>1. LiteralEnd(b + 1, q) = S[b + 1]
  BY DEF LiteralEnd, ScanStep
<1>2. b \in Nat \ {0} /\ b + 1 \in 1 .. BufferEnd /\ b + 1 \in b + 1 .. BufferEnd
      /\ b \in b .. BufferEnd
  BY DEF BufferEnd
<1>3. IsScan(S, b + 1, q)
  BY <1>2, ScanExists DEF IsScan
<1>4. AfterEven(b, b + 1)
  BY <1>2, OthersDoNotEscape DEF Quotes
<1> HIDE DEF S
<1> QED
  BY <1>1, <1>2, <1>3, <1>4, ScanShape

-----------------------------------------------------------------------------
(* What a trip through the switch does to the text.  It starts at b, after *)
(* blanks, with flags fl, and makes one of seven moves.                    *)

White(q) == Char(q) \in Blank \cup NewLine \cup {"nul"}
HasLineEnd(p, e) == \E q \in p .. e - 1 : Char(q) \in NewLine
SameStart(f, fl) == "StartOfLine" \in f <=> "StartOfLine" \in fl

StartsAt(b, fl) ==
  /\ b \in BufferPtr .. BufferEnd
  /\ \A q \in BufferPtr .. b - 1 : Char(q) \in Blank
  /\ SameStart(fl, flags)

(* A diagnostic the other invariants do not ask about, or none.            *)
Quiet ==
  \/ UNCHANGED diags
  \/ \E id \in Diagnostics \ {"conflict_marker", "unterminated_block_comment"} :
       \E loc \in Nat : Diag(id, loc)

FormsToken(b, fl) ==
  \E kind \in TokenKinds \ {"semi"}, end \in b .. BufferEnd, f \in SUBSET TokenFlags :
    /\ FormToken(kind, b, end, f)
    /\ IF kind = "eof" THEN b = BufferEnd /\ ~WantsSemi
                       ELSE end > b /\ SameStart(f, fl) /\ ~White(b)
    /\ kind \in SemiKinds => Char(end - 1) \notin NewLine
    /\ kind \in {"string_literal", "rune_literal"} =>
         /\ Char(b) \in Quotes /\ b < Len(input)
         /\ WellFormedFrom(b, b + 1, end - 1, Char(b))
    /\ Char(b) \in Markers => ~StartsConflict(b) /\ ~EndsConflict(b)
    /\ UNCHANGED <<comments, CurrentConflictMarkerState>>
    /\ Quiet

InsertsSemi(b, fl) ==
  \E end \in b .. BufferEnd, f \in SUBSET TokenFlags :
    /\ InsertSemi(b, end, f)
    /\ SameStart(f, fl)
    /\ \E q \in b .. end : q = BufferEnd \/ Char(q) \in NewLine
    /\ UNCHANGED comments \/ \E e \in b .. end : handleComment(b, e)
    /\ Char(b) \notin Markers
    /\ UNCHANGED CurrentConflictMarkerState
    /\ Quiet

(* Over a comment that ends at e, if e # b, and white space after it.      *)
PassesOver(b, fl) ==
  \E e \in b .. BufferEnd : \E end \in e .. BufferEnd, f \in SUBSET TokenFlags, label \in Labels :
    /\ GoTo(label, end, f)
    /\ IF e = b THEN UNCHANGED comments
                ELSE handleComment(b, e) /\ Char(b) = "/" /\ Char(e - 1) \notin NewLine
    /\ \A q \in e .. end - 1 : White(q)
    /\ "StartOfLine" \in f <=> "StartOfLine" \in fl \/ HasLineEnd(e, end)
    /\ WantsSemi => ~HasLineEnd(e, end) /\ \A q \in b .. e - 1 : Char(q) # "nl"
    /\ UNCHANGED CurrentConflictMarkerState
    /\ Quiet

(* The same, but a semicolon that was due is lost.                         *)
SwallowsSemi(b, fl) ==
  \E e \in b + 1 .. BufferEnd : \E end \in e .. BufferEnd, f \in SUBSET TokenFlags :
    /\ WantsSemi
    /\ LastTokenKind' = "semi" /\ BufferPtr' = end /\ flags' = f /\ pc' \in Labels
    /\ handleComment(b, e) /\ Char(b) = "/" /\ Char(b + 1) = "*" /\ Char(e) \in Blank
    /\ \A q \in e .. end - 1 : White(q) /\ Char(q) \notin NewLine
    /\ SameStart(f, fl)
    /\ UNCHANGED <<toks, diags, CurrentConflictMarkerState>>

RunsOff(b, fl) ==
  /\ \E label \in Labels : GoTo(label, BufferEnd, fl)
  /\ Diag("unterminated_block_comment", b) /\ Char(b) = "/"
  /\ UNCHANGED <<comments, CurrentConflictMarkerState>>

OpensConflict(b, fl) ==
  /\ StartsConflict(b)
  /\ Diag("conflict_marker", b)
  /\ CurrentConflictMarkerState' = MarkerKind(Char(b))
  /\ GoTo("LexNextToken", SkipTo(b, NewLine), fl)
  /\ UNCHANGED comments

ClosesConflict(b, fl) ==
  /\ Char(b) \in Markers /\ EndsConflict(b)
  /\ CurrentConflictMarkerState' = "CMK_None"
  /\ GoTo("LexNextToken", ConflictLineEnd(b), fl)
  /\ UNCHANGED <<comments, diags>>

Move(b, fl) ==
  \/ FormsToken(b, fl) \/ InsertsSemi(b, fl) \/ PassesOver(b, fl) \/ SwallowsSemi(b, fl)
  \/ RunsOff(b, fl) \/ OpensConflict(b, fl) \/ ClosesConflict(b, fl)

LEMMA SpaceFlagsStart ==
  ASSUME NEW g, NEW p, NEW e
  PROVE  "StartOfLine" \in SpaceFlags(g, p, e) <=> "StartOfLine" \in g \/ HasLineEnd(p, e)
BY DEF SpaceFlags, HasLineEnd

LEMMA SpaceIsWhite ==
  ASSUME input \in Seq(Elements), NEW p \in 1 .. BufferEnd
  PROVE  /\ SpaceEnd(p) \in p .. BufferEnd
         /\ \A q \in p .. SpaceEnd(p) - 1 : White(q)
         /\ HasLineEnd(p, SpaceEnd(p)) <=> LineEnds(p) # {}
         /\ LineEnds(p) # {} =>
              /\ Min(LineEnds(p)) \in p .. SpaceEnd(p) - 1
              /\ Char(Min(LineEnds(p))) \in NewLine
              /\ \A q \in p .. Min(LineEnds(p)) - 1 : Char(q) \notin NewLine
<1>1. /\ SpaceEnd(p) \in p .. BufferEnd
      /\ \A q \in p .. SpaceEnd(p) - 1 : White(q)
  BY SkipOverRange DEF SpaceEnd, Blank, NewLine, White
<1>2. BufferEnd \in Nat
  BY DEF BufferEnd
<1>3. HasLineEnd(p, SpaceEnd(p)) <=> LineEnds(p) # {}
  BY DEF HasLineEnd, LineEnds
<1>4. ASSUME LineEnds(p) # {}
      PROVE  /\ Min(LineEnds(p)) \in p .. SpaceEnd(p) - 1
             /\ Char(Min(LineEnds(p))) \in NewLine
             /\ \A q \in p .. Min(LineEnds(p)) - 1 : Char(q) \notin NewLine
  <2>1. LineEnds(p) \in SUBSET Nat
    BY <1>1, <1>2 DEF LineEnds
  <2>2. Min(LineEnds(p)) \in LineEnds(p) /\ \A y \in LineEnds(p) : Min(LineEnds(p)) <= y
    BY <1>4, <2>1, MinIsLeast
  <2>3. PICK m \in LineEnds(p) : m = Min(LineEnds(p))
    BY <2>2
  <2>4. m \in p .. SpaceEnd(p) - 1 /\ Char(m) \in NewLine
    BY <2>3 DEF LineEnds
  <2>5. ASSUME NEW q \in p .. m - 1 PROVE Char(q) \notin NewLine
    <3>1. q \in p .. SpaceEnd(p) - 1 /\ ~(m <= q)
      BY <1>1, <1>2, <2>4
    <3>2. q \notin LineEnds(p)
      BY <2>2, <2>3, <3>1
    <3> QED
      BY <3>1, <3>2 DEF LineEnds
  <2> QED
    BY <2>3, <2>4, <2>5
<1> QED
  BY <1>1, <1>3, <1>4

LEMMA SkipWhitespaceMove ==
  ASSUME input \in Seq(Elements), NEW b \in 1 .. BufferEnd, NEW p \in b .. BufferEnd,
         NEW fl, NEW g \in SUBSET TokenFlags, NEW label \in Labels,
         \A q \in b .. p - 1 : White(q),
         WantsSemi => ~HasLineEnd(b, p),
         "StartOfLine" \in g <=> "StartOfLine" \in fl \/ HasLineEnd(b, p),
         SkipWhitespace(b, p, g, label), Char(b) \notin Markers,
         UNCHANGED <<comments, CurrentConflictMarkerState>>, Quiet
  PROVE  InsertsSemi(b, fl) \/ PassesOver(b, fl)
<1> DEFINE e == SpaceEnd(p)
           m == Min(LineEnds(p))
<1>1. BufferEnd \in Nat /\ b \in Nat /\ p \in Nat /\ p \in 1 .. BufferEnd
  BY DEF BufferEnd
<1>2. /\ e \in p .. BufferEnd
      /\ \A q \in p .. e - 1 : White(q)
      /\ HasLineEnd(p, e) <=> LineEnds(p) # {}
      /\ LineEnds(p) # {} => m \in p .. e - 1 /\ Char(m) \in NewLine
  BY <1>1, SpaceIsWhite
<1>3. CASE LineEnds(p) # {} /\ InsertSemi(b, m, g)
  <2>1. m \in b .. BufferEnd /\ Char(m) \in NewLine
    BY <1>1, <1>2, <1>3
  <2>2. SameStart(g, fl)
    BY <1>3 DEF SameStart, InsertSemi
  <2> HIDE DEF m
  <2> QED
    BY <1>3, <2>1, <2>2 DEF InsertsSemi
<1>4. CASE (LineEnds(p) = {} \/ ~WantsSemi) /\ GoTo(label, e, SpaceFlags(g, p, e))
  <2> DEFINE f == SpaceFlags(g, p, e)
  <2>1. f \in SUBSET TokenFlags /\ ("StartOfLine" \in f <=> "StartOfLine" \in g \/ HasLineEnd(p, e))
    BY SpaceFlagsType, SpaceFlagsStart
  <2>2. HasLineEnd(b, e) <=> HasLineEnd(b, p) \/ HasLineEnd(p, e)
    BY <1>1, <1>2 DEF HasLineEnd
  <2>3. \A q \in b .. e - 1 : White(q)
    BY <1>1, <1>2
  <2>4. WantsSemi => ~HasLineEnd(b, e)
    BY <1>2, <1>4, <2>2
  <2>5. b \in b .. BufferEnd /\ e \in b .. BufferEnd /\ b .. b - 1 = {}
    BY <1>1, <1>2
  <2> HIDE DEF e, f
  <2> QED
    BY <1>4, <2>1, <2>2, <2>3, <2>4, <2>5 DEF PassesOver, f
<1> QED
  BY <1>3, <1>4 DEF SkipWhitespace

LEMMA SkipLineCommentMove ==
  ASSUME input \in Seq(Elements), NEW b \in 1 .. BufferEnd, b + 2 \in 1 .. BufferEnd,
         Char(b) = "/", Char(b + 1) = "/", NEW fl \in SUBSET TokenFlags,
         SkipLineComment(b, b + 2, fl), UNCHANGED CurrentConflictMarkerState
  PROVE  InsertsSemi(b, fl) \/ PassesOver(b, fl)
<1> DEFINE e == SkipTo(b + 2, NewLine)
           f == (fl \cup {"StartOfLine"}) \ {"LeadingSpace"}
<1>1. BufferEnd \in Nat /\ b \in Nat
  BY DEF BufferEnd
<1>2. /\ e \in b + 2 .. BufferEnd
      /\ e = BufferEnd \/ Char(e) \in NewLine
      /\ \A i \in b + 2 .. e - 1 : Char(i) \notin NewLine
  BY SkipToRange
<1>3. handleComment(b, e) /\ UNCHANGED diags
  BY DEF SkipLineComment
<1>4. \/ e = BufferEnd /\ GoTo("SkipIgnoredUnits", e, fl)
      \/ e # BufferEnd /\ InsertSemi(b, e + 1, fl)
      \/ e # BufferEnd /\ ~WantsSemi /\ GoTo("SkipIgnoredUnits", e + 1, f)
  BY DEF SkipLineComment
<1>5. f \in SUBSET TokenFlags /\ "StartOfLine" \in f /\ "SkipIgnoredUnits" \in Labels
      /\ Quiet /\ Char(b) \notin Markers
  BY <1>3 DEF TokenFlags, Labels, Quiet, Markers
<1> HIDE DEF e, f
<1>6. \A i \in b .. e - 1 : Char(i) \notin NewLine
  <2>1. \A i \in b .. e - 1 : i = b \/ i = b + 1 \/ i \in b + 2 .. e - 1
    BY <1>1, <1>2
  <2> QED
    BY <1>2, <2>1 DEF NewLine
<1>7. \A i \in b .. e - 1 : Char(i) # "nl"
  BY <1>6 DEF NewLine
<1>8. e \in b .. BufferEnd /\ e # b /\ e - 1 \in b .. e - 1
  BY <1>1, <1>2
<1>9. CASE e = BufferEnd /\ GoTo("SkipIgnoredUnits", e, fl)
  <2>1. e \in e .. BufferEnd /\ e .. e - 1 = {}
    BY <1>8, <1>1
  <2> QED
    BY <1>3, <1>5, <1>6, <1>7, <1>8, <1>9, <2>1 DEF PassesOver, HasLineEnd
<1>10. CASE e # BufferEnd /\ InsertSemi(b, e + 1, fl)
  <2>1. e + 1 \in b .. BufferEnd /\ e \in b .. e + 1 /\ Char(e) \in NewLine
    BY <1>1, <1>2, <1>10
  <2> QED
    BY <1>3, <1>5, <1>10, <2>1 DEF InsertsSemi, SameStart
<1>11. CASE e # BufferEnd /\ ~WantsSemi /\ GoTo("SkipIgnoredUnits", e + 1, f)
  <2>1. e + 1 \in e .. BufferEnd /\ Char(e) \in NewLine /\ e \in e .. e + 1 - 1
    BY <1>1, <1>2, <1>11
  <2>2. (\A q \in e .. e + 1 - 1 : q = e)
    BY <1>8
  <2>3. (\A q \in e .. e + 1 - 1 : White(q)) /\ HasLineEnd(e, e + 1)
    BY <2>1, <2>2 DEF White, HasLineEnd
  <2> QED
    BY <1>3, <1>5, <1>6, <1>8, <1>11, <2>1, <2>3 DEF PassesOver
<1> QED
  BY <1>4, <1>9, <1>10, <1>11

LEMMA SkipBlockCommentMove ==
  ASSUME input \in Seq(Elements), NEW b \in 1 .. BufferEnd, b + 2 \in 1 .. BufferEnd,
         Char(b) = "/", Char(b + 1) = "*", NEW fl \in SUBSET TokenFlags, NEW label \in Labels,
         SkipBlockComment(b, b + 2, fl, label), UNCHANGED CurrentConflictMarkerState
  PROVE  InsertsSemi(b, fl) \/ PassesOver(b, fl) \/ SwallowsSemi(b, fl) \/ RunsOff(b, fl)
<1>1. BufferEnd \in Nat /\ b \in Nat /\ b + 2 \in Nat
  BY DEF BufferEnd
<1>2. CASE CommentEnds(b + 2) = {}
  BY <1>2 DEF SkipBlockComment, RunsOff
<1>3. CASE CommentEnds(b + 2) # {}
  <2> DEFINE e == Min(CommentEnds(b + 2))
             after == fl \cup {"LeadingSpace"}
             multiline == Multiline(b + 2, e)
             p == e + 1
             s == SpaceEnd(p)
             m == Min(LineEnds(p))
  <2>1. e \in b + 4 .. BufferEnd /\ Char(e - 1) = "/"
    <3>1. CommentEnds(b + 2) \in SUBSET Nat
      BY <1>1 DEF CommentEnds
    <3>2. e \in CommentEnds(b + 2)
      BY <1>3, <3>1, MinIsLeast
    <3> HIDE DEF e
    <3>3. e \in b + 2 + 2 .. BufferEnd /\ Char(e - 1) = "/"
      BY <3>2 DEF CommentEnds
    <3> QED
      BY <1>1, <3>3
  <2>2. handleComment(b, e) /\ UNCHANGED diags
    BY <1>3 DEF SkipBlockComment
  <2>3. \/ multiline /\ InsertSemi(b, e, fl)
        \/ ~(multiline /\ WantsSemi) /\ GoTo(label, e, after)
        \/ /\ ~(multiline /\ WantsSemi) /\ Char(e) \in Blank
           /\ LineEnds(p) = {} \/ ~WantsSemi
           /\ GoTo(label, s, SpaceFlags(after, p, s))
        \/ /\ ~multiline /\ Char(e) \in Blank /\ LineEnds(p) # {} /\ WantsSemi
           /\ pc' = label /\ LastTokenKind' = "semi" /\ BufferPtr' = m
           /\ flags' = after \cup {"InsertedSemi"} /\ UNCHANGED toks
    BY <1>3 DEF SkipBlockComment
  <2>4. /\ after \in SUBSET TokenFlags /\ ("StartOfLine" \in after <=> "StartOfLine" \in fl)
        /\ Quiet /\ Char(b) \notin Markers /\ Char(e - 1) \notin NewLine
        /\ after \cup {"InsertedSemi"} \in SUBSET TokenFlags
    BY <2>1, <2>2 DEF TokenFlags, Quiet, Markers, NewLine
  <2>5. ~multiline => \A q \in b .. e - 1 : Char(q) # "nl"
    <3>1. \A q \in b .. e - 1 : q = b \/ q = b + 1 \/ q \in b + 2 .. e - 1
      BY <1>1, <2>1
    <3> QED
      BY <3>1 DEF Multiline
  <2>6. Char(e) \in Blank => p \in 1 .. BufferEnd /\ p \in Nat
    BY <1>1, <2>1, CharIn DEF Blank, BufferEnd
  <2>7. Char(e) \in Blank =>
          /\ s \in p .. BufferEnd
          /\ \A q \in p .. s - 1 : White(q)
          /\ HasLineEnd(p, s) <=> LineEnds(p) # {}
          /\ LineEnds(p) # {} =>
               /\ m \in p .. s - 1 /\ Char(m) \in NewLine
               /\ \A q \in p .. m - 1 : Char(q) \notin NewLine
    BY <2>6, SpaceIsWhite
  <2> HIDE DEF e, after, multiline, s, m
  <2>8. e \in b .. BufferEnd /\ e # b /\ e \in b + 1 .. BufferEnd /\ e \in Nat
    BY <1>1, <2>1
  <2>9. CASE multiline /\ InsertSemi(b, e, fl)
    <3>1. PICK q \in b + 2 .. e - 1 : Char(q) = "nl"
      BY <2>9 DEF Multiline, multiline
    <3>2. q \in b .. e /\ Char(q) \in NewLine
      BY <1>1, <2>1, <3>1 DEF NewLine
    <3>3. e \in b .. e
      BY <2>8
    <3> QED
      BY <2>2, <2>4, <2>8, <2>9, <3>2, <3>3 DEF InsertsSemi, SameStart
  <2>10. CASE ~(multiline /\ WantsSemi) /\ GoTo(label, e, after)
    <3>1. e \in e .. BufferEnd /\ e .. e - 1 = {}
      BY <2>8
    <3>2. PassesOver(b, fl)
      BY <2>2, <2>4, <2>5, <2>8, <2>10, <3>1, Zenon DEF PassesOver, HasLineEnd
    <3> QED
      BY <3>2
  <2>11. CASE /\ ~(multiline /\ WantsSemi) /\ Char(e) \in Blank
              /\ LineEnds(p) = {} \/ ~WantsSemi
              /\ GoTo(label, s, SpaceFlags(after, p, s))
    <3> DEFINE f == SpaceFlags(after, p, s)
    <3>1. f \in SUBSET TokenFlags /\ ("StartOfLine" \in f <=> "StartOfLine" \in fl \/ HasLineEnd(p, s))
      BY <2>4, SpaceFlagsType, SpaceFlagsStart
    <3>2. Char(e) \notin NewLine /\ White(e)
      BY <2>11 DEF Blank, NewLine, White
    <3>3. s \in e .. BufferEnd /\ \A q \in e .. s - 1 : q = e \/ q \in p .. s - 1
      BY <2>6, <2>7, <2>8, <2>11
    <3>4. \A q \in e .. s - 1 : White(q)
      BY <2>7, <2>11, <3>2, <3>3
    <3>5. HasLineEnd(e, s) <=> HasLineEnd(p, s)
      <4>1. \A q \in p .. s - 1 : q \in e .. s - 1
        BY <2>7, <2>8, <2>11
      <4> HIDE DEF p
      <4> QED
        BY <3>2, <3>3, <4>1 DEF HasLineEnd
    <3>6. WantsSemi => ~HasLineEnd(e, s)
      BY <2>7, <2>11, <3>5
    <3> HIDE DEF f, p
    <3> QED
      BY <2>2, <2>4, <2>5, <2>8, <2>11, <3>1, <3>3, <3>4, <3>5, <3>6 DEF PassesOver, f
  <2>12. CASE /\ ~multiline /\ Char(e) \in Blank /\ LineEnds(p) # {} /\ WantsSemi
              /\ pc' = label /\ LastTokenKind' = "semi" /\ BufferPtr' = m
              /\ flags' = after \cup {"InsertedSemi"} /\ UNCHANGED toks
    <3>1. m \in p .. s - 1 /\ m \in e .. BufferEnd
          /\ \A q \in e .. m - 1 : q = e \/ (q \in p .. s - 1 /\ q \in p .. m - 1)
      <4>1. m \in p .. s - 1 /\ s \in p .. BufferEnd
        BY <2>7, <2>12
      <4> QED
        BY <1>1, <2>8, <4>1
    <3>2. \A q \in e .. m - 1 : White(q) /\ Char(q) \notin NewLine
      <4>1. Char(e) \notin NewLine /\ White(e)
        BY <2>12 DEF Blank, NewLine, White
      <4> QED
        BY <2>7, <2>12, <3>1, <4>1
    <3>3. SameStart(after \cup {"InsertedSemi"}, fl)
      BY <2>4 DEF SameStart
    <3> HIDE DEF p
    <3> QED
      BY <2>2, <2>4, <2>8, <2>12, <3>1, <3>2, <3>3 DEF SwallowsSemi
  <2> QED
    BY <2>3, <2>9, <2>10, <2>11, <2>12
<1> QED
  BY <1>2, <1>3

LEMMA LexLiteralMove ==
  ASSUME TypeOK, NEW b \in 1 .. BufferEnd, Char(b) \in Quotes, NEW fl \in SUBSET TokenFlags,
         LexLiteral(b, fl), UNCHANGED <<comments, CurrentConflictMarkerState>>
  PROVE  FormsToken(b, fl)
<1> DEFINE q == Char(b)
           lit == LiteralEnd(b + 1, q)
           nuls == {i \in b + 1 .. lit.end - 1 : Char(i) = "nul"}
<1>1. BufferEnd \in Nat /\ b \in Nat /\ input \in Seq(Elements)
  BY DEF BufferEnd, TypeOK
<1>2. b + 1 \in 1 .. BufferEnd /\ (Char(b + 1) = q => b + 2 \in b .. BufferEnd)
  BY <1>1, CharIn DEF Quotes, BufferEnd
<1>3. lit.end \in b + 1 .. BufferEnd /\ lit.closed \in BOOLEAN
  BY <1>1, <1>2, LiteralEndRange
<1>4. nuls # {} => Max(nuls) \in Nat
  <2> HIDE DEF lit
  <2>1. lit.end \in 1 .. BufferEnd
    BY <1>1, <1>3
  <2> QED
    BY <1>1, <1>2, <2>1, LastNul
<1>5. \/ Char(b + 1) = q /\ Diag("empty_rune", b) /\ FormToken("unknown", b, b + 2, fl)
      \/ Diag(LiteralDiag(q, "unterminated"), b) /\ FormToken("unknown", b, lit.end, fl)
      \/ /\ lit.closed
         /\ UNCHANGED diags \/ (nuls # {} /\ Diag(LiteralDiag(q, "null_in"), Max(nuls)))
         /\ FormToken(LiteralKind(q), b, lit.end, fl)
  BY DEF LexLiteral
<1>6. Quiet
  <2> HIDE DEF lit, nuls, q
  <2>1. "empty_rune" \in Diagnostics \ {"conflict_marker", "unterminated_block_comment"}
    BY DEF Diagnostics
  <2>2. q \in Quotes
    BY DEF q
  <2> QED
    BY <1>1, <1>4, <1>5, <2>1, <2>2, LiteralDiagType DEF Quiet
<1>7. /\ Char(b) \notin Markers /\ ~White(b)
      /\ "unknown" \in TokenKinds \ {"semi"} /\ LiteralKind(q) \in TokenKinds \ {"semi"}
      /\ "unknown" \notin SemiKinds \cup {"eof", "string_literal", "rune_literal"}
      /\ LiteralKind(q) # "eof"
  BY DEF Quotes, Markers, White, NewLine, Blank, TokenKinds, SemiKinds, LiteralKind
<1>8. CASE Char(b + 1) = q /\ FormToken("unknown", b, b + 2, fl)
  <2>1. b + 2 > b /\ b + 2 \in b .. BufferEnd
    BY <1>1, <1>2, <1>8
  <2> QED
    BY <1>6, <1>7, <1>8, <2>1 DEF FormsToken, SameStart
<1>9. CASE FormToken("unknown", b, lit.end, fl)
  <2>1. lit.end > b /\ lit.end \in b .. BufferEnd
    BY <1>1, <1>3
  <2> HIDE DEF lit
  <2> QED
    BY <1>6, <1>7, <1>9, <2>1 DEF FormsToken, SameStart
<1>10. CASE lit.closed /\ FormToken(LiteralKind(q), b, lit.end, fl)
  <2> DEFINE z == lit.end - 1
  <2>1. lit.end > b /\ lit.end \in b .. BufferEnd /\ b \in 1 .. Len(input)
    BY <1>1, <1>2, <1>3 DEF BufferEnd
  <2>2. WellFormedFrom(b, b + 1, z, q)
    BY <1>1, <1>10, <2>1, LiteralShape
  <2>3. Char(z) \notin NewLine /\ z \in b + 1 .. Len(input)
    <3> HIDE DEF z, lit
    <3> QED
      BY <2>2 DEF WellFormedFrom, Quotes, NewLine
  <2>4. b < Len(input)
    <3> HIDE DEF z, lit
    <3> QED
      BY <1>1, <2>3
  <2> HIDE DEF lit
  <2> QED
    BY <1>6, <1>7, <1>10, <2>1, <2>2, <2>3, <2>4 DEF FormsToken, SameStart
<1> QED
  BY <1>5, <1>8, <1>9, <1>10

LEMMA TokStart ==
  ASSUME TypeOK
  PROVE  /\ Tok \in 1 .. BufferEnd /\ Tok \in Nat /\ BufferEnd \in Nat \ {0}
         /\ TokFlags \in SUBSET TokenFlags
         /\ StartsAt(Tok, TokFlags)
<1>1. BufferPtr \in 1 .. BufferEnd /\ input \in Seq(Elements)
  BY DEF TypeOK
<1>2. Tok \in BufferPtr .. BufferEnd /\ \A q \in BufferPtr .. Tok - 1 : Char(q) \in Blank
  BY <1>1, SkipOverRange DEF Tok, Blank
<1>3. SameStart(TokFlags, flags)
  BY DEF SameStart, TokFlags
<1> QED
  BY <1>2, <1>3, TokType DEF StartsAt

LEMMA StartHere ==
  ASSUME TypeOK
  PROVE  /\ BufferPtr \in 1 .. BufferEnd /\ flags \in SUBSET TokenFlags
         /\ StartsAt(BufferPtr, flags)
<1>1. BufferPtr \in BufferPtr .. BufferEnd /\ BufferPtr .. BufferPtr - 1 = {}
  BY DEF TypeOK, BufferEnd
<1> QED
  BY <1>1 DEF TypeOK, StartsAt, SameStart

LEMMA FormsOneMore ==
  ASSUME TypeOK, NEW b \in 1 .. BufferEnd, b + 1 \in 1 .. BufferEnd,
         NEW fl \in SUBSET TokenFlags, NEW kind \in TokenKinds \ {"semi"},
         FormToken(kind, b, b + 1, fl),
         kind \notin {"eof", "string_literal", "rune_literal"}, ~White(b),
         Char(b) \in Markers => ~StartsConflict(b) /\ ~EndsConflict(b),
         UNCHANGED <<comments, CurrentConflictMarkerState>>, Quiet
  PROVE  FormsToken(b, fl)
<1>1. b + 1 \in b .. BufferEnd /\ b + 1 > b /\ b + 1 - 1 = b
  BY DEF BufferEnd
<1>2. Char(b) \notin NewLine /\ SameStart(fl, fl)
  BY DEF White, SameStart
<1> QED
  BY <1>1, <1>2 DEF FormsToken

LEMMA SwitchMoves ==
  ASSUME TypeOK, LexTokenInternal, ~SkipIgnoredUnits
  PROVE  Move(Tok, TokFlags)
<1> DEFINE b == Tok
           fl == TokFlags
<1>0. /\ b \in 1 .. BufferEnd /\ b \in Nat /\ BufferEnd \in Nat \ {0} /\ fl \in SUBSET TokenFlags
      /\ input \in Seq(Elements)
  BY TokStart DEF TypeOK
<1> SUFFICES Move(b, fl)
  OBVIOUS
<1> HIDE DEF b, fl
<1>1. \A i \in 1 .. BufferEnd : Char(i) # "nul" => i + 1 \in 1 .. BufferEnd
  BY <1>0, CharIn DEF BufferEnd
<1>2. b + 1 \in 1 .. BufferEnd =>
        /\ b + 1 \in b .. BufferEnd
        /\ \A q \in b .. b + 1 - 1 : q = b
        /\ b \in b .. b + 1 - 1
  BY <1>0
<1>3. "LexNextToken" \in Labels /\ (UNCHANGED diags => Quiet)
  BY DEF Labels, Quiet
<1>4. CASE LexEndOfFile
  <2>1. Char(b) \notin Markers /\ BufferEnd \in b .. BufferEnd /\ b = BufferEnd
        /\ "eof" \in TokenKinds \ {"semi"} /\ {} \in SUBSET TokenFlags
        /\ "eof" \notin SemiKinds \cup {"string_literal", "rune_literal"}
    BY <1>0, <1>4 DEF LexEndOfFile, b, Char, BufferEnd, Markers, TokenKinds, SemiKinds
  <2>2. UNCHANGED <<comments, CurrentConflictMarkerState>> /\ Quiet
    BY <1>3, <1>4 DEF LexEndOfFile, unchangedObservers
  <2>3. CASE InsertSemi(b, BufferEnd, fl)
    BY <1>0, <2>1, <2>2, <2>3 DEF InsertsSemi, SameStart, Move
  <2>4. CASE ~WantsSemi /\ FormToken("eof", BufferEnd, BufferEnd, {})
    BY <1>0, <2>1, <2>2, <2>4 DEF FormsToken, Move
  <2> QED
    BY <1>4, <2>3, <2>4 DEF LexEndOfFile, b, fl
<1>5. CASE LexNul
  <2>1. b # BufferEnd /\ Char(b) = "nul" /\ Diag("null_in_file", b)
        /\ SkipWhitespace(b, b + 1, fl \cup {"LeadingSpace"}, "LexNextToken")
        /\ UNCHANGED <<comments, CurrentConflictMarkerState>>
    BY <1>5 DEF LexNul, b, fl
  <2>2. b + 1 \in 1 .. BufferEnd
    BY <1>0, <2>1
  <2>3. Quiet /\ Char(b) \notin Markers /\ White(b) /\ Char(b) \notin NewLine
    BY <1>0, <2>1 DEF Quiet, Diagnostics, Markers, White, NewLine
  <2>4. ~HasLineEnd(b, b + 1) /\ \A q \in b .. b + 1 - 1 : White(q)
    BY <1>2, <2>2, <2>3 DEF HasLineEnd
  <2>5. fl \cup {"LeadingSpace"} \in SUBSET TokenFlags
        /\ ("StartOfLine" \in fl \cup {"LeadingSpace"} <=> "StartOfLine" \in fl)
    BY <1>0 DEF TokenFlags
  <2> QED
    BY <1>0, <1>2, <1>3, <2>1, <2>2, <2>3, <2>4, <2>5, SkipWhitespaceMove DEF Move
<1>6. CASE LexNewLine
  <2> DEFINE g == (fl \cup {"StartOfLine"}) \ {"LeadingSpace"}
  <2>1. /\ Char(b) \in NewLine
        /\ \/ InsertSemi(b, b, fl)
           \/ ~WantsSemi /\ SkipWhitespace(b, b + 1, g, "LexNextToken")
        /\ UNCHANGED <<comments, diags, CurrentConflictMarkerState>>
    BY <1>6 DEF LexNewLine, b, fl, unchangedObservers
  <2>2. b + 1 \in 1 .. BufferEnd /\ b \in b .. BufferEnd /\ b \in b .. b
    BY <1>0, <1>1, <2>1 DEF NewLine
  <2>3. Quiet /\ Char(b) \notin Markers /\ White(b)
    BY <1>3, <2>1 DEF Markers, White, NewLine
  <2>4. HasLineEnd(b, b + 1) /\ \A q \in b .. b + 1 - 1 : White(q)
    BY <1>2, <2>1, <2>2, <2>3 DEF HasLineEnd
  <2>5. g \in SUBSET TokenFlags /\ "StartOfLine" \in g
    BY <1>0 DEF TokenFlags
  <2> HIDE DEF g
  <2>6. CASE InsertSemi(b, b, fl)
    BY <1>0, <2>1, <2>2, <2>3, <2>6 DEF InsertsSemi, SameStart, Move
  <2>7. CASE ~WantsSemi /\ SkipWhitespace(b, b + 1, g, "LexNextToken")
    BY <1>0, <1>2, <1>3, <2>1, <2>2, <2>3, <2>4, <2>5, <2>7, SkipWhitespaceMove DEF Move
  <2> QED
    BY <2>1, <2>6, <2>7
<1>7. CASE LexLexeme
  <2>1. Char(b) \in Lexemes /\ FormToken(Char(b), b, b + 1, fl)
        /\ UNCHANGED <<comments, diags, CurrentConflictMarkerState>>
    BY <1>7 DEF LexLexeme, b, fl, unchangedObservers
  <2>2. /\ Char(b) \in TokenKinds \ {"semi"} /\ Char(b) # "nul" /\ Char(b) \notin Markers
        /\ Char(b) \notin {"eof", "string_literal", "rune_literal"} /\ ~White(b)
    BY <2>1, LexemesAssumption DEF TokenKinds, White
  <2> QED
    BY <1>0, <1>1, <1>3, <2>1, <2>2, FormsOneMore DEF Move
<1>8. CASE LexQuote
  <2>1. Char(b) \in Quotes /\ LexLiteral(b, fl) /\ UNCHANGED <<comments, CurrentConflictMarkerState>>
    BY <1>8 DEF LexQuote, b, fl
  <2> QED
    BY <1>0, <2>1, LexLiteralMove DEF Move
<1>9. CASE LexSlash
  <2>1. Char(b) = "/" /\ UNCHANGED CurrentConflictMarkerState
    BY <1>9 DEF LexSlash, b
  <2>2. b + 1 \in 1 .. BufferEnd
    BY <1>0, <1>1, <2>1
  <2>3. Char(b + 1) \in {"/", "*"} => b + 2 \in 1 .. BufferEnd
    BY <1>0, <1>1, <2>2
  <2>4. \/ Char(b + 1) = "/" /\ SkipLineComment(b, b + 2, fl)
        \/ Char(b + 1) = "*" /\ SkipBlockComment(b, b + 2, fl, "LexNextToken")
        \/ FormToken("slash", b, b + 1, fl) /\ UNCHANGED <<comments, diags>>
    BY <1>9 DEF LexSlash, b, fl, unchangedObservers
  <2>5. CASE Char(b + 1) = "/" /\ SkipLineComment(b, b + 2, fl)
    BY <1>0, <2>1, <2>3, <2>5, SkipLineCommentMove DEF Move
  <2>6. CASE Char(b + 1) = "*" /\ SkipBlockComment(b, b + 2, fl, "LexNextToken")
    BY <1>0, <1>3, <2>1, <2>3, <2>6, SkipBlockCommentMove DEF Move
  <2>7. CASE FormToken("slash", b, b + 1, fl) /\ UNCHANGED <<comments, diags>>
    <3>1. "slash" \in TokenKinds \ {"semi"} /\ ~White(b) /\ Char(b) \notin Markers
      BY <2>1 DEF TokenKinds, White, Blank, NewLine, Markers
    <3> QED
      BY <1>0, <1>3, <2>1, <2>2, <2>7, <3>1, FormsOneMore DEF Move
  <2> QED
    BY <2>4, <2>5, <2>6, <2>7
<1>10. CASE LexOther
  <2>1. /\ \/ Char(b) = "*" /\ FormToken("star", b, b + 1, fl)
           \/ Char(b) = "bslash" /\ FormToken("unknown", b, b + 1, fl)
        /\ UNCHANGED <<comments, diags, CurrentConflictMarkerState>>
    BY <1>10 DEF LexOther, b, fl, unchangedObservers
  <2>2. b + 1 \in 1 .. BufferEnd /\ ~White(b) /\ Char(b) \notin Markers
        /\ "star" \in TokenKinds \ {"semi"} /\ "unknown" \in TokenKinds \ {"semi"}
    BY <1>0, <1>1, <2>1 DEF White, Blank, NewLine, Markers, TokenKinds
  <2> QED
    BY <1>0, <1>3, <2>1, <2>2, FormsOneMore DEF Move
<1>11. CASE LexMarker
  <2>1. Char(b) \in Markers /\ UNCHANGED comments
    BY <1>11 DEF LexMarker, b
  <2>2. \/ /\ StartsConflict(b) /\ Diag("conflict_marker", b)
           /\ CurrentConflictMarkerState' = MarkerKind(Char(b))
           /\ GoTo("LexNextToken", SkipTo(b, NewLine), fl)
        \/ /\ EndsConflict(b) /\ CurrentConflictMarkerState' = "CMK_None"
           /\ GoTo("LexNextToken", ConflictLineEnd(b), fl)
           /\ UNCHANGED diags
        \/ /\ ~StartsConflict(b) /\ ~EndsConflict(b)
           /\ FormToken("marker_ops", b, b + 1, fl)
           /\ UNCHANGED <<diags, CurrentConflictMarkerState>>
    BY <1>11 DEF LexMarker, b, fl
  <2>3. b + 1 \in 1 .. BufferEnd /\ ~White(b) /\ "marker_ops" \in TokenKinds \ {"semi"}
    BY <1>0, <1>1, <2>1 DEF White, Blank, NewLine, Markers, TokenKinds
  <2>4. CASE /\ ~StartsConflict(b) /\ ~EndsConflict(b)
             /\ FormToken("marker_ops", b, b + 1, fl)
             /\ UNCHANGED <<diags, CurrentConflictMarkerState>>
    BY <1>0, <1>3, <2>1, <2>3, <2>4, FormsOneMore DEF Move
  <2> QED
    BY <2>1, <2>2, <2>4 DEF Move, OpensConflict, ClosesConflict
<1> QED
  BY <1>4, <1>5, <1>6, <1>7, <1>8, <1>9, <1>10, <1>11 DEF LexTokenInternal, b, fl

LEMMA IgnoredMoves ==
  ASSUME TypeOK, SkipIgnoredUnits
  PROVE  Move(BufferPtr, flags)
<1> DEFINE b == BufferPtr
           fl == flags
<1>0. /\ b \in 1 .. BufferEnd /\ b \in Nat /\ BufferEnd \in Nat \ {0} /\ fl \in SUBSET TokenFlags
      /\ input \in Seq(Elements) /\ b \in b .. BufferEnd /\ b .. b - 1 = {}
  BY TokType, StartHere DEF TypeOK
<1> SUFFICES Move(b, fl)
  OBVIOUS
<1> HIDE DEF b, fl
<1>1. \A i \in 1 .. BufferEnd : Char(i) # "nul" => i + 1 \in 1 .. BufferEnd
  BY <1>0, CharIn DEF BufferEnd
<1>2. Char(b) = "/" /\ Char(b + 1) \in {"/", "*"} => b + 2 \in 1 .. BufferEnd
  <2>1. Char(b) = "/" => b + 1 \in 1 .. BufferEnd
    BY <1>0, <1>1
  <2> QED
    BY <1>0, <1>1, <2>1
<1>3. "SkipIgnoredUnits" \in Labels /\ AfterIgnored \in Labels /\ (UNCHANGED diags => Quiet)
  BY DEF Labels, Quiet, AfterIgnored
<1>4. /\ UNCHANGED CurrentConflictMarkerState
      /\ \/ Char(b) = "/" /\ Char(b + 1) = "/" /\ SkipLineComment(b, b + 2, fl)
         \/ /\ Char(b) = "/" /\ Char(b + 1) = "*"
            /\ SkipBlockComment(b, b + 2, fl, "SkipIgnoredUnits")
         \/ /\ Char(b) \in Blank
            /\ SkipWhitespace(b, b, fl \cup {"LeadingSpace"}, "SkipIgnoredUnits")
            /\ UNCHANGED <<comments, diags>>
         \/ GoTo(AfterIgnored, b, fl) /\ UNCHANGED <<comments, diags>>
  BY DEF SkipIgnoredUnits, b, fl, unchangedObservers
<1>5. CASE Char(b) = "/" /\ Char(b + 1) = "/" /\ SkipLineComment(b, b + 2, fl)
  BY <1>0, <1>2, <1>4, <1>5, SkipLineCommentMove DEF Move
<1>6. CASE /\ Char(b) = "/" /\ Char(b + 1) = "*"
           /\ SkipBlockComment(b, b + 2, fl, "SkipIgnoredUnits")
  BY <1>0, <1>2, <1>3, <1>4, <1>6, SkipBlockCommentMove DEF Move
<1>7. CASE /\ Char(b) \in Blank
           /\ SkipWhitespace(b, b, fl \cup {"LeadingSpace"}, "SkipIgnoredUnits")
           /\ UNCHANGED <<comments, diags>>
  <2>1. Char(b) \notin Markers /\ ~HasLineEnd(b, b)
    BY <1>0, <1>7 DEF Blank, Markers, HasLineEnd
  <2>2. fl \cup {"LeadingSpace"} \in SUBSET TokenFlags
        /\ ("StartOfLine" \in fl \cup {"LeadingSpace"} <=> "StartOfLine" \in fl)
    BY <1>0 DEF TokenFlags
  <2> QED
    BY <1>0, <1>3, <1>4, <1>7, <2>1, <2>2, SkipWhitespaceMove DEF Move
<1>8. CASE GoTo(AfterIgnored, b, fl) /\ UNCHANGED <<comments, diags>>
  <2>1. ~HasLineEnd(b, b)
    BY <1>0 DEF HasLineEnd
  <2> QED
    BY <1>0, <1>3, <1>4, <1>8, <2>1 DEF PassesOver, Move
<1> QED
  BY <1>4, <1>5, <1>6, <1>7, <1>8 DEF b, fl

(* Every trip through the switch makes one of the moves.                   *)
LEMMA Moves ==
  ASSUME TypeOK, LexTokenInternal
  PROVE  /\ pc \in Labels /\ UNCHANGED <<input, IsAtStartOfLine>>
         /\ \E b \in 1 .. BufferEnd, fl \in SUBSET TokenFlags : StartsAt(b, fl) /\ Move(b, fl)
<1>1. pc \in Labels /\ UNCHANGED <<input, IsAtStartOfLine>>
  BY DEF LexTokenInternal, LexEndOfFile, LexNul, LexNewLine, LexLexeme, LexQuote, LexSlash,
         LexOther, LexMarker, SkipIgnoredUnits, Labels, unchangedEnv
<1>2. CASE SkipIgnoredUnits
  BY <1>1, <1>2, StartHere, IgnoredMoves
<1>3. CASE ~SkipIgnoredUnits
  BY <1>1, <1>3, TokStart, SwitchMoves
<1> QED
  BY <1>2, <1>3

-----------------------------------------------------------------------------
(* What was handed out stays: tokens, comments and diagnostics are only    *)
(* ever appended to.                                                       *)

Longer(s, t) == \A i \in DOMAIN s : i \in DOMAIN t /\ t[i] = s[i]

Appended(s, x, t) ==
  /\ Len(s) \in Nat /\ DOMAIN s = 1 .. Len(s)
  /\ Len(t) = Len(s) + 1 /\ DOMAIN t = 1 .. Len(s) + 1
  /\ \A i \in 1 .. Len(s) : t[i] = s[i]
  /\ t[Len(s) + 1] = x
  /\ Longer(s, t)

LEMMA AppendOne ==
  ASSUME NEW S, NEW s \in Seq(S), NEW x \in S
  PROVE  Appended(s, x, Append(s, x))
<1> DEFINE t == Append(s, x)
<1>1. t \in Seq(S) /\ Len(t) = Len(s) + 1 /\ Len(s) \in Nat
      /\ (\A i \in 1 .. Len(s) : t[i] = s[i]) /\ t[Len(s) + 1] = x
  BY AppendProperties
<1> HIDE DEF t
<1>2. DOMAIN s = 1 .. Len(s) /\ DOMAIN t = 1 .. Len(s) + 1
  BY <1>1
<1>3. \A i \in 1 .. Len(s) : i \in 1 .. Len(s) + 1
  BY <1>1
<1>4. Longer(s, t)
  BY <1>1, <1>2, <1>3 DEF Longer
<1>5. Appended(s, x, t)
  BY <1>1, <1>2, <1>4 DEF Appended
<1> QED
  BY <1>5 DEF t

LEMMA SameLonger ==
  ASSUME NEW s, NEW t, t = s
  PROVE  Longer(s, t)
BY DEF Longer

(* The token under construction is the one appended.                       *)
LEMMA OneToken ==
  ASSUME TypeOK, NEW kind \in TokenKinds, NEW b \in 1 .. BufferEnd, NEW end \in b .. BufferEnd,
         NEW fl \in SUBSET TokenFlags, FormToken(kind, b, end, fl)
  PROVE  LET t == [kind |-> kind, beg |-> b, end |-> end, flags |-> fl]
         IN /\ Len(toks) \in Nat /\ DOMAIN toks = 1 .. Len(toks)
            /\ Len(toks') = Len(toks) + 1 /\ DOMAIN toks' = 1 .. Len(toks) + 1
            /\ \A i \in 1 .. Len(toks) : toks'[i] = toks[i]
            /\ toks'[Len(toks) + 1] = t
            /\ Longer(toks, toks')
<1> DEFINE t == [kind |-> kind, beg |-> b, end |-> end, flags |-> fl]
<1>1. BufferEnd \in Nat
  BY DEF TypeOK, BufferEnd
<1>2. t \in Token
  BY <1>1 DEF Token
<1>3. toks \in Seq(Token) /\ toks' = Append(toks, t)
  BY DEF TypeOK, FormToken
<1> HIDE DEF t
<1>4a. Appended(toks, t, toks')
  BY <1>2, <1>3, AppendOne
<1>4. /\ Len(toks) \in Nat /\ DOMAIN toks = 1 .. Len(toks)
      /\ Len(toks') = Len(toks) + 1 /\ DOMAIN toks' = 1 .. Len(toks) + 1
      /\ \A i \in 1 .. Len(toks) : toks'[i] = toks[i]
      /\ toks'[Len(toks) + 1] = t
      /\ Longer(toks, toks')
  BY <1>4a DEF Appended
<1> USE DEF t
<1> QED
  BY <1>4

LEMMA OneSemi ==
  ASSUME TypeOK, NEW b \in 1 .. BufferEnd, NEW end \in b .. BufferEnd,
         NEW fl \in SUBSET TokenFlags, InsertSemi(b, end, fl)
  PROVE  LET f == fl \cup {"InsertedSemi"}
         IN FormToken("semi", b, end, f) /\ f \in SUBSET TokenFlags /\ "semi" \in TokenKinds
BY DEF InsertSemi, TokenFlags, TokenKinds

LEMMA OneComment ==
  ASSUME TypeOK, NEW b \in Nat, NEW e \in Nat, handleComment(b, e)
  PROVE  /\ Longer(comments, comments')
         /\ Len(comments) \in Nat /\ DOMAIN comments = 1 .. Len(comments)
         /\ DOMAIN comments' = 1 .. Len(comments) + 1
         /\ comments'[Len(comments) + 1] = [beg |-> b, end |-> e]
<1> DEFINE c == [beg |-> b, end |-> e]
           S == [beg : Nat, end : Nat]
<1>1. c \in S /\ comments \in Seq(S) /\ comments' = Append(comments, c)
  BY DEF TypeOK, handleComment
<1> HIDE DEF c, S
<1>2a. Appended(comments, c, comments')
  BY <1>1, AppendOne
<1>2. /\ Longer(comments, comments') /\ DOMAIN comments' = 1 .. Len(comments) + 1
      /\ comments'[Len(comments) + 1] = c /\ Len(comments) \in Nat
      /\ DOMAIN comments = 1 .. Len(comments)
  BY <1>2a DEF Appended
<1> QED
  BY <1>2 DEF c

LEMMA OneDiag ==
  ASSUME TypeOK, NEW id \in Diagnostics, NEW loc \in Nat, Diag(id, loc)
  PROVE  /\ Longer(diags, diags')
         /\ Len(diags) \in Nat /\ DOMAIN diags = 1 .. Len(diags)
         /\ DOMAIN diags' = 1 .. Len(diags) + 1
         /\ diags'[Len(diags) + 1] = <<id, loc>>
<1> DEFINE d == <<id, loc>>
           S == Diagnostics \X Nat
<1>1. d \in S /\ diags \in Seq(S) /\ diags' = Append(diags, d)
  BY DEF TypeOK, Diag
<1> HIDE DEF d, S
<1>2a. Appended(diags, d, diags')
  BY <1>1, AppendOne
<1>2. /\ Longer(diags, diags') /\ DOMAIN diags' = 1 .. Len(diags) + 1
      /\ diags'[Len(diags) + 1] = d /\ Len(diags) \in Nat
      /\ DOMAIN diags = 1 .. Len(diags)
  BY <1>2a DEF Appended
<1> QED
  BY <1>2 DEF d

(* A move that is quiet, and one that reports nothing new of interest.     *)
LEMMA QuietDiags ==
  ASSUME TypeOK, Quiet
  PROVE  /\ Longer(diags, diags')
         /\ \A d \in DOMAIN diags' \ DOMAIN diags :
              diags'[d][1] \notin {"conflict_marker", "unterminated_block_comment"}
<1>1. CASE UNCHANGED diags
  BY <1>1, SameLonger
<1>2. ASSUME NEW id \in Diagnostics \ {"conflict_marker", "unterminated_block_comment"},
             NEW loc \in Nat, Diag(id, loc)
      PROVE  /\ Longer(diags, diags')
             /\ \A d \in DOMAIN diags' \ DOMAIN diags : diags'[d][1] = id
  <2>1. /\ Longer(diags, diags')
        /\ Len(diags) \in Nat /\ DOMAIN diags = 1 .. Len(diags)
        /\ DOMAIN diags' = 1 .. Len(diags) + 1
        /\ diags'[Len(diags) + 1] = <<id, loc>>
    BY <1>2, OneDiag
  <2>2. \A d \in DOMAIN diags' \ DOMAIN diags : d = Len(diags) + 1
    BY <2>1
  <2> QED
    BY <2>1, <2>2
<1> QED
  BY <1>1, <1>2 DEF Quiet

LEMMA StaysCovered ==
  ASSUME Longer(toks, toks'), Longer(comments, comments'), Longer(diags, diags'), NEW p
  PROVE  /\ InToken(p) => InToken(p)'
         /\ InComment(p) => InComment(p)'
         /\ \A id : DiagBefore(p, id) => DiagBefore(p, id)'
<1>1. InToken(p) => InToken(p)'
  BY DEF Longer, InToken
<1>2. \A id : DiagBefore(p, id) => DiagBefore(p, id)'
  BY DEF Longer, DiagBefore
<1>3. (\E i \in DOMAIN comments : p \in comments[i].beg .. comments[i].end - 1)
        => (\E i \in DOMAIN comments' : p \in comments'[i].beg .. comments'[i].end - 1)
  BY DEF Longer
<1> QED
  BY <1>1, <1>2, <1>3 DEF InComment
-----------------------------------------------------------------------------
(* Nothing is lost: what a move passes over is accounted for at once, and  *)
(* it starts no token before where the last one ended.                     *)

LastEndsBefore == toks # << >> => toks[Len(toks)].end <= BufferPtr
OpenIsReported == CurrentConflictMarkerState # "CMK_None" => DiagBefore(BufferPtr, "conflict_marker")
TextInv == NoTextLost /\ LastEndsBefore /\ OpenIsReported

Accounted(p) ==
  \/ Char(p) \in Blank \cup NewLine \cup {"nul"}
  \/ InToken(p) \/ InComment(p) \/ DiagBefore(p, "conflict_marker")

(* A token that starts at b keeps the order of tokens.                     *)
LEMMA TokenInOrder ==
  ASSUME TypeOK, TextInv, NEW kind \in TokenKinds, NEW b \in BufferPtr .. BufferEnd,
         NEW end \in b .. BufferEnd, NEW fl \in SUBSET TokenFlags, FormToken(kind, b, end, fl)
  PROVE  /\ LastEndsBefore'
         /\ \A i \in Neighbours' : toks'[i].end <= toks'[i + 1].beg
         /\ Longer(toks, toks')
         /\ BufferPtr' = end
         /\ \A p \in b .. end - 1 : InToken(p)'
<1> DEFINE t == [kind |-> kind, beg |-> b, end |-> end, flags |-> fl]
<1>0. BufferPtr \in 1 .. BufferEnd /\ BufferEnd \in Nat /\ b \in 1 .. BufferEnd
  BY DEF TypeOK, BufferEnd
<1>1. /\ Len(toks) \in Nat /\ DOMAIN toks = 1 .. Len(toks)
      /\ Len(toks') = Len(toks) + 1 /\ DOMAIN toks' = 1 .. Len(toks) + 1
      /\ \A i \in 1 .. Len(toks) : toks'[i] = toks[i]
      /\ toks'[Len(toks) + 1] = t
      /\ Longer(toks, toks')
  BY <1>0, OneToken
<1>2. BufferPtr' = end
  BY DEF FormToken
<1>3. t.end = end /\ t.beg = b
  OBVIOUS
<1> HIDE DEF t
<1>4. LastEndsBefore'
  BY <1>0, <1>1, <1>2, <1>3 DEF LastEndsBefore
<1>5. ASSUME NEW i \in DOMAIN toks', i + 1 \in DOMAIN toks'
      PROVE  toks'[i].end <= toks'[i + 1].beg
  <2>1. CASE i + 1 \in DOMAIN toks
    <3>1. i \in Neighbours /\ toks'[i] = toks[i] /\ toks'[i + 1] = toks[i + 1]
      BY <1>1, <2>1 DEF Neighbours
    <3> QED
      BY <3>1 DEF TextInv, NoTextLost
  <2>2. CASE i + 1 \notin DOMAIN toks
    <3>1. i = Len(toks) /\ i \in 1 .. Len(toks)
      <4>1. i \in 1 .. Len(toks) + 1 /\ i + 1 \in 1 .. Len(toks) + 1 /\ i + 1 \notin 1 .. Len(toks)
        BY <1>1, <1>5, <2>2
      <4> QED
        BY <1>1, <4>1
    <3>2. toks # << >> /\ toks'[i] = toks[Len(toks)] /\ toks'[i + 1] = t
      BY <1>1, <3>1
    <3>3. toks[Len(toks)].end <= BufferPtr /\ toks[Len(toks)].end \in Nat
      <4>1. toks[i] \in Token
        BY <3>1 DEF TypeOK
      <4> QED
        BY <3>1, <3>2, <4>1 DEF TextInv, LastEndsBefore, Token
    <3> QED
      BY <1>0, <1>3, <3>2, <3>3
  <2> QED
    BY <2>1, <2>2
<1>6. \A p \in b .. end - 1 : InToken(p)'
  BY <1>1, <1>3 DEF InToken
<1> QED
  BY <1>1, <1>2, <1>4, <1>5, <1>6 DEF Neighbours

(* A move that makes no token keeps it trivially.                          *)
LEMMA NoTokenInOrder ==
  ASSUME TypeOK, TextInv, UNCHANGED toks, BufferPtr' \in BufferPtr .. BufferEnd
  PROVE  /\ LastEndsBefore'
         /\ \A i \in Neighbours' : toks'[i].end <= toks'[i + 1].beg
         /\ Longer(toks, toks')
<1>1. toks # << >> => toks[Len(toks)].end \in Nat
  <2>0. toks \in Seq(Token)
    BY DEF TypeOK
  <2>1. toks # << >> => toks[Len(toks)] \in Token
    BY <2>0
  <2> QED
    BY <2>1 DEF Token
<1>2. LastEndsBefore'
  BY <1>1 DEF TextInv, LastEndsBefore, TypeOK
<1> QED
  BY <1>2, SameLonger DEF TextInv, NoTextLost, Neighbours

LEMMA TextStep ==
  ASSUME TypeOK, TextInv, input' = input, NEW b \in 1 .. BufferEnd,
         NEW fl \in SUBSET TokenFlags, StartsAt(b, fl), Move(b, fl)
  PROVE  TextInv'
<1>0. /\ BufferPtr \in 1 .. BufferEnd /\ BufferEnd \in Nat /\ b \in Nat /\ b \in BufferPtr .. BufferEnd
      /\ \A q \in BufferPtr .. b - 1 : Char(q) \in Blank
      /\ b - 1 \in Int /\ BufferEnd' = BufferEnd /\ \A q : Char(q)' = Char(q)
  BY DEF TypeOK, BufferEnd, StartsAt, Char
(* What each move has to show.                                             *)
<1>1. ASSUME LastEndsBefore', \A i \in Neighbours' : toks'[i].end <= toks'[i + 1].beg,
             Longer(toks, toks'), Longer(comments, comments'), Longer(diags, diags'),
             BufferPtr' \in b .. BufferEnd,
             \A p \in b .. BufferPtr' - 1 : Accounted(p)', OpenIsReported'
      PROVE  TextInv'
  <2>1. ASSUME NEW p \in 1 .. BufferPtr' - 1
        PROVE  Accounted(p)'
    <3>1. CASE p \in 1 .. BufferPtr - 1
      <4>1. Accounted(p)
        BY <3>1 DEF TextInv, NoTextLost, Accounted
      <4> QED
        BY <1>0, <1>1, <4>1, StaysCovered DEF Accounted
    <3>2. CASE p \in BufferPtr .. b - 1
      BY <1>0, <3>2 DEF Accounted
    <3>3. CASE p \in b .. BufferPtr' - 1
      BY <1>1, <3>3
    <3> QED
      BY <1>0, <1>1, <3>1, <3>2, <3>3
  <2> QED
    BY <1>1, <2>1 DEF TextInv, NoTextLost, Accounted
<1>2. ASSUME UNCHANGED CurrentConflictMarkerState, Longer(diags, diags'),
             BufferPtr' \in b .. BufferEnd
      PROVE  OpenIsReported'
  <2>1. CurrentConflictMarkerState # "CMK_None" => DiagBefore(BufferPtr, "conflict_marker")
    BY DEF TextInv, OpenIsReported
  <2>2. ASSUME NEW i \in DOMAIN diags, diags[i][2] <= BufferPtr
        PROVE  diags[i][2] <= BufferPtr'
    BY <1>0, <1>2, <2>2 DEF TypeOK
  <2> QED
    BY <1>2, <2>1, <2>2 DEF OpenIsReported, DiagBefore, Longer
<1>3. CASE FormsToken(b, fl)
  <2>1. PICK kind \in TokenKinds, end \in b .. BufferEnd, f \in SUBSET TokenFlags :
          FormToken(kind, b, end, f)
    BY <1>3 DEF FormsToken
  <2>2. /\ LastEndsBefore' /\ \A i \in Neighbours' : toks'[i].end <= toks'[i + 1].beg
        /\ Longer(toks, toks') /\ BufferPtr' = end /\ \A p \in b .. end - 1 : InToken(p)'
    BY <1>0, <2>1, TokenInOrder
  <2>3. Longer(comments, comments') /\ Longer(diags, diags')
    BY <1>3, SameLonger, QuietDiags DEF FormsToken
  <2>4. OpenIsReported'
    BY <1>2, <1>3, <2>1, <2>2, <2>3 DEF FormsToken
  <2> QED
    BY <1>1, <2>1, <2>2, <2>3, <2>4 DEF Accounted
<1>4. CASE InsertsSemi(b, fl)
  <2>1. PICK end \in b .. BufferEnd, f \in SUBSET TokenFlags :
          /\ InsertSemi(b, end, f)
          /\ UNCHANGED comments \/ \E e \in b .. end : handleComment(b, e)
    BY <1>4 DEF InsertsSemi
  <2>2. /\ LastEndsBefore' /\ \A i \in Neighbours' : toks'[i].end <= toks'[i + 1].beg
        /\ Longer(toks, toks') /\ BufferPtr' = end /\ \A p \in b .. end - 1 : InToken(p)'
    BY <1>0, <2>1, OneSemi, TokenInOrder
  <2>3. Longer(diags, diags')
    BY <1>4, QuietDiags DEF InsertsSemi
  <2>4. Longer(comments, comments')
    <3>1. ASSUME NEW e \in b .. end, handleComment(b, e) PROVE Longer(comments, comments')
      <4>1. e \in Nat
        BY <1>0
      <4> QED
        BY <1>0, <3>1, <4>1, OneComment
    <3> QED
      BY <2>1, <3>1, SameLonger
  <2>5. OpenIsReported'
    BY <1>2, <1>4, <2>1, <2>2, <2>3 DEF InsertsSemi
  <2> QED
    BY <1>1, <2>1, <2>2, <2>3, <2>4, <2>5 DEF Accounted
(* Over a comment and white space.                                         *)
<1>5. ASSUME NEW e \in b .. BufferEnd, NEW end \in e .. BufferEnd, BufferPtr' = end,
             UNCHANGED <<toks, CurrentConflictMarkerState>>, Longer(diags, diags'),
             IF e = b THEN UNCHANGED comments ELSE handleComment(b, e),
             \A q \in e .. end - 1 : White(q)
      PROVE  TextInv'
  <2>1. e \in Nat /\ end \in b .. BufferEnd /\ end \in BufferPtr .. BufferEnd
    BY <1>0, <1>5
  <2>2. Longer(comments, comments') /\ \A q \in b .. e - 1 : InComment(q)'
    <3>1. CASE e = b
      BY <1>0, <1>5, <3>1, SameLonger
    <3>2. CASE e # b
      <4>1. /\ Longer(comments, comments') /\ Len(comments) + 1 \in DOMAIN comments'
            /\ comments'[Len(comments) + 1] = [beg |-> b, end |-> e]
        BY <1>0, <1>5, <2>1, <3>2, OneComment
      <4> QED
        BY <4>1 DEF InComment
    <3> QED
      BY <3>1, <3>2
  <2>3. \A q \in e .. end - 1 : Accounted(q)'
    BY <1>0, <1>5 DEF Accounted, White
  <2>4. ASSUME NEW q \in b .. end - 1 PROVE Accounted(q)'
    <3>1. q \in b .. e - 1 \/ q \in e .. end - 1
      BY <1>0, <2>1
    <3> QED
      BY <2>2, <2>3, <3>1 DEF Accounted
  <2> QED
    BY <1>1, <1>2, <1>5, <2>1, <2>2, <2>4, NoTokenInOrder
<1>6. CASE PassesOver(b, fl)
  <2>1. PICK e \in b .. BufferEnd : \E end \in e .. BufferEnd :
          /\ BufferPtr' = end /\ UNCHANGED <<toks, CurrentConflictMarkerState>> /\ Quiet
          /\ IF e = b THEN UNCHANGED comments ELSE handleComment(b, e)
          /\ \A q \in e .. end - 1 : White(q)
    BY <1>6 DEF PassesOver, GoTo
  <2> QED
    BY <1>5, <2>1, QuietDiags
<1>7. CASE SwallowsSemi(b, fl)
  <2>1. PICK e \in b + 1 .. BufferEnd : \E end \in e .. BufferEnd :
          /\ BufferPtr' = end /\ UNCHANGED <<toks, CurrentConflictMarkerState, diags>>
          /\ handleComment(b, e)
          /\ \A q \in e .. end - 1 : White(q)
    BY <1>7 DEF SwallowsSemi
  <2>2. e \in b .. BufferEnd /\ e # b
    BY <1>0
  <2> QED
    BY <1>5, <2>1, <2>2, SameLonger
<1>8. CASE RunsOff(b, fl)
  <2>1. BufferPtr' = BufferEnd /\ UNCHANGED <<toks, comments, CurrentConflictMarkerState>>
        /\ Diag("unterminated_block_comment", b)
    BY <1>8 DEF RunsOff, GoTo
  <2>2. /\ Longer(diags, diags') /\ Len(diags) + 1 \in DOMAIN diags'
        /\ diags'[Len(diags) + 1] = <<"unterminated_block_comment", b>>
    BY <1>0, <2>1, OneDiag DEF Diagnostics
  <2>3. BufferEnd \in BufferPtr .. BufferEnd /\ BufferEnd \in b .. BufferEnd
    BY <1>0
  <2>4. \A q \in b .. BufferEnd - 1 : DiagBefore(q, "unterminated_block_comment")'
    BY <2>2 DEF DiagBefore
  <2> QED
    BY <1>1, <1>2, <2>1, <2>2, <2>3, <2>4, NoTokenInOrder, SameLonger DEF Accounted, InComment
<1>9. CASE OpensConflict(b, fl)
  <2> DEFINE end == SkipTo(b, NewLine)
  <2>1. BufferPtr' = end /\ UNCHANGED <<toks, comments>> /\ Diag("conflict_marker", b)
    BY <1>9 DEF OpensConflict, GoTo
  <2>2. /\ Longer(diags, diags') /\ Len(diags) + 1 \in DOMAIN diags'
        /\ diags'[Len(diags) + 1] = <<"conflict_marker", b>>
    BY <1>0, <2>1, OneDiag DEF Diagnostics
  <2>3. end \in b .. BufferEnd
    BY <1>0, SkipToRange DEF TypeOK
  <2> HIDE DEF end
  <2>4. end \in BufferPtr .. BufferEnd /\ b <= end
    BY <1>0, <2>3
  <2>5. \A q \in b .. end : DiagBefore(q, "conflict_marker")'
    BY <2>2 DEF DiagBefore
  <2>6. OpenIsReported'
    BY <1>0, <2>1, <2>3, <2>4, <2>5 DEF OpenIsReported
  <2>7. \A q \in b .. end - 1 : q \in b .. end
    BY <1>0, <2>3
  <2> QED
    BY <1>1, <2>1, <2>2, <2>3, <2>4, <2>5, <2>6, <2>7, NoTokenInOrder, SameLonger DEF Accounted
<1>10. CASE ClosesConflict(b, fl)
  <2> DEFINE E == ConflictEnds(b + 1, CurrentConflictMarkerState)
             end == ConflictLineEnd(b)
  <2>1. BufferPtr' = end /\ UNCHANGED <<toks, comments, diags>> /\ E # {}
        /\ CurrentConflictMarkerState # "CMK_None" /\ CurrentConflictMarkerState' = "CMK_None"
    BY <1>10 DEF ClosesConflict, GoTo, EndsConflict
  <2>2. end \in b .. BufferEnd
    <3>1. E \in SUBSET Nat /\ E \in SUBSET (b .. BufferEnd) /\ E \in SUBSET (1 .. BufferEnd)
      BY <1>0 DEF ConflictEnds, BufferEnd
    <3>2. Min(E) \in b .. BufferEnd /\ Min(E) \in 1 .. BufferEnd
      BY <2>1, <3>1, MinIsLeast
    <3> DEFINE m == Min(E)
    <3>3. end = SkipTo(m, NewLine)
      BY DEF ConflictLineEnd
    <3>4. m \in b .. BufferEnd /\ m \in 1 .. BufferEnd
      BY <3>2
    <3> HIDE DEF m, end, E
    <3>5. end \in m .. BufferEnd
      BY <3>3, <3>4, SkipToRange DEF TypeOK
    <3> QED
      BY <1>0, <3>4, <3>5
  <2> HIDE DEF end
  <2>3. end \in BufferPtr .. BufferEnd
    BY <1>0, <2>2
  <2>4. DiagBefore(BufferPtr, "conflict_marker")'
    <3>1. PICK i \in DOMAIN diags : diags[i][1] = "conflict_marker" /\ diags[i][2] <= BufferPtr
      BY <2>1 DEF TextInv, OpenIsReported, DiagBefore
    <3>2. diags[i][2] \in Nat
      BY <3>1 DEF TypeOK
    <3>3. diags[i][2] <= end
      BY <1>0, <2>2, <3>1, <3>2
    <3> QED
      BY <2>1, <3>1, <3>3 DEF DiagBefore
  <2>5. ASSUME NEW q \in b .. end - 1 PROVE DiagBefore(q, "conflict_marker")'
    <3>1. PICK i \in DOMAIN diags : diags[i][1] = "conflict_marker" /\ diags[i][2] <= BufferPtr
      BY <2>1 DEF TextInv, OpenIsReported, DiagBefore
    <3>2. diags[i][2] \in Nat
      BY <3>1 DEF TypeOK
    <3>3. diags[i][2] <= q
      BY <1>0, <2>2, <3>1, <3>2
    <3> QED
      BY <2>1, <3>1, <3>3 DEF DiagBefore
  <2>6. OpenIsReported'
    BY <2>1 DEF OpenIsReported
  <2> QED
    BY <1>1, <2>1, <2>2, <2>3, <2>5, <2>6, NoTokenInOrder, SameLonger DEF Accounted
<1> QED
  BY <1>3, <1>4, <1>6, <1>7, <1>8, <1>9, <1>10 DEF Move

LEMMA TextInvariant == Spec => []TextInv
<1>1. Init => TextInv
  <2>1. Init => 1 .. BufferPtr - 1 = {} /\ DOMAIN toks = {}
    BY DEF Init
  <2> QED
    BY <2>1 DEF Init, TextInv, NoTextLost, LastEndsBefore, OpenIsReported, Neighbours
<1>2. TypeOK /\ TextInv /\ [Next]_vars => TextInv'
  <2> SUFFICES ASSUME TypeOK, TextInv, [Next]_vars PROVE TextInv'
    OBVIOUS
  <2>1. CASE LexTokenInternal
    <3>1. input' = input
      BY <2>1, Moves
    <3>2. PICK b \in 1 .. BufferEnd, fl \in SUBSET TokenFlags : StartsAt(b, fl) /\ Move(b, fl)
      BY <2>1, Moves
    <3> QED
      BY <3>1, <3>2, TextStep
  <2>2. CASE Lex \/ UNCHANGED vars
    <3>1. UNCHANGED <<input, BufferPtr, CurrentConflictMarkerState, toks, comments, diags>>
      BY <2>2 DEF Lex, vars
    <3> QED
      BY <3>1 DEF TextInv, NoTextLost, LastEndsBefore, OpenIsReported, Neighbours, Char, InToken,
                  InComment, DiagBefore
  <2> QED
    BY <2>1, <2>2 DEF Next, Done
<1> QED
  BY <1>1, <1>2, TypeCorrect, PTL DEF Spec

(* On every path of the lexer over every buffer, the text it has passed    *)
(* is in a token, in a comment, white, or part of a reported conflict, and *)
(* the tokens handed to the client do not overlap.                         *)
THEOREM NoTextLostCorrect == Spec => []NoTextLost
<1>1. TextInv => NoTextLost
  BY DEF TextInv
<1> QED
  BY <1>1, TextInvariant, PTL

-----------------------------------------------------------------------------
(* Literals.  A move forms a literal token only from a closed scan, whose  *)
(* shape is known; no move changes a token.                                *)

Literal(t) ==
  LET b == t.beg  z == t.end - 1  raw == Char(b) = "bquote"
  IN /\ b < z /\ Char(z) = Char(b)
     /\ \A p \in b + 1 .. z : Char(p) = Char(b) => (p = z <=> raw \/ ~Escaped(b, p))
     /\ \A p \in b .. z : Char(p) \in NewLine => raw
LiteralKinds == {"string_literal", "rune_literal"}

LEMMA LiteralsAre ==
  LiteralsWellFormed <=> \A i \in DOMAIN toks : toks[i].kind \in LiteralKinds => Literal(toks[i])
BY DEF LiteralsWellFormed, Literal, LiteralKinds

LEMMA SameText ==
  ASSUME input' = input
  PROVE  /\ BufferEnd' = BufferEnd
         /\ \A p : Char(p)' = Char(p)
         /\ \A t : Literal(t)' <=> Literal(t)
<1>1. \A p : Char(p)' = Char(p)
  BY DEF Char
<1>2. \A b, p : Escaped(b, p)' <=> Escaped(b, p)
  BY DEF Escaped, Char
<1>3. \A t : Literal(t)' <=> Literal(t)
  BY <1>1, <1>2 DEF Literal
<1> QED
  BY <1>1, <1>3 DEF BufferEnd

LEMMA ShapeIsLiteral ==
  ASSUME NEW b \in Nat, NEW end \in Nat, Char(b) \in Quotes,
         WellFormedFrom(b, b + 1, end - 1, Char(b)), NEW t, t.beg = b, t.end = end
  PROVE  Literal(t)
<1> DEFINE z == end - 1
<1>1. z \in b + 1 .. Len(input) /\ Char(z) = Char(b)
      /\ (\A p \in b + 1 .. z : Char(p) = Char(b) => (p = z <=> Char(b) = "bquote" \/ ~Escaped(b, p)))
      /\ \A p \in b + 1 .. z : Char(p) \in NewLine => Char(b) = "bquote"
  BY DEF WellFormedFrom
<1>2. z \in Int /\ z = t.end - 1
  OBVIOUS
<1> HIDE DEF z
<1>3. b < z /\ \A p \in b .. z : p = b \/ p \in b + 1 .. z
  BY <1>1, <1>2
<1>4. Char(b) \notin NewLine
  BY DEF Quotes, NewLine
<1> QED
  BY <1>1, <1>2, <1>3, <1>4 DEF Literal

LEMMA LiteralsStand ==
  ASSUME input' = input,
         \A i \in DOMAIN toks' : toks'[i].kind \in LiteralKinds => Literal(toks'[i])
  PROVE  LiteralsWellFormed'
<1>1. (\A i \in DOMAIN toks : toks[i].kind \in LiteralKinds => Literal(toks[i]))'
  BY SameText
<1>2. (LiteralsWellFormed <=> \A i \in DOMAIN toks : toks[i].kind \in LiteralKinds => Literal(toks[i]))'
  BY LiteralsAre, PTL
<1> QED
  BY <1>1, <1>2

LEMMA LiteralStep ==
  ASSUME TypeOK, LiteralsWellFormed, input' = input, NEW b \in 1 .. BufferEnd,
         NEW fl \in SUBSET TokenFlags, Move(b, fl)
  PROVE  LiteralsWellFormed'
<1>1. \A i \in DOMAIN toks : toks[i].kind \in LiteralKinds => Literal(toks[i])
  BY LiteralsAre
<1>2. SUFFICES \A i \in DOMAIN toks' : toks'[i].kind \in LiteralKinds => Literal(toks'[i])
  BY LiteralsStand
<1>3. CASE UNCHANGED toks
  BY <1>1, <1>3
<1>4. ASSUME NEW kind \in TokenKinds, NEW end \in b .. BufferEnd, NEW f \in SUBSET TokenFlags,
             FormToken(kind, b, end, f),
             kind \in LiteralKinds =>
               Char(b) \in Quotes /\ WellFormedFrom(b, b + 1, end - 1, Char(b)),
             NEW i \in DOMAIN toks', toks'[i].kind \in LiteralKinds
      PROVE  Literal(toks'[i])
  <2> DEFINE t == [kind |-> kind, beg |-> b, end |-> end, flags |-> f]
  <2>1. DOMAIN toks = 1 .. Len(toks) /\ DOMAIN toks' = 1 .. Len(toks) + 1 /\ Len(toks) \in Nat
        /\ (\A j \in 1 .. Len(toks) : toks'[j] = toks[j]) /\ toks'[Len(toks) + 1] = t
    BY <1>4, OneToken
  <2>2. t.kind = kind /\ t.beg = b /\ t.end = end /\ b \in Nat /\ end \in Nat
    BY DEF TypeOK, BufferEnd
  <2> HIDE DEF t
  <2>3. CASE i \in DOMAIN toks
    BY <1>1, <1>4, <2>1, <2>3
  <2>4. CASE i \notin DOMAIN toks
    <3>1. toks'[i] = t
      BY <2>1, <2>4
    <3> QED
      BY <1>4, <2>2, <3>1, ShapeIsLiteral
  <2> QED
    BY <2>3, <2>4
<1>5. CASE FormsToken(b, fl)
  <2>1. PICK kind \in TokenKinds, end \in b .. BufferEnd, f \in SUBSET TokenFlags :
          /\ FormToken(kind, b, end, f)
          /\ kind \in LiteralKinds =>
               Char(b) \in Quotes /\ WellFormedFrom(b, b + 1, end - 1, Char(b))
    BY <1>5 DEF FormsToken, LiteralKinds
  <2> QED
    BY <1>4, <2>1
<1>6. CASE InsertsSemi(b, fl)
  <2>1. PICK end \in b .. BufferEnd, f \in SUBSET TokenFlags : InsertSemi(b, end, f)
    BY <1>6 DEF InsertsSemi
  <2>2. "semi" \notin LiteralKinds
    BY DEF LiteralKinds
  <2> QED
    BY <1>4, <2>1, <2>2, OneSemi
<1>7. CASE PassesOver(b, fl) \/ SwallowsSemi(b, fl) \/ RunsOff(b, fl)
           \/ OpensConflict(b, fl) \/ ClosesConflict(b, fl)
  BY <1>3, <1>7 DEF PassesOver, SwallowsSemi, RunsOff, OpensConflict, ClosesConflict, GoTo
<1> QED
  BY <1>5, <1>6, <1>7 DEF Move

(* In every run over every buffer, a string or rune token ends at the      *)
(* first quote like its own that no backslash escapes, with backslashes    *)
(* themselves escaped in pairs, and only a raw string spans lines.         *)
THEOREM LiteralsCorrect == Spec => []LiteralsWellFormed
<1>1. Init => LiteralsWellFormed
  BY DEF Init, LiteralsWellFormed
<1>2. TypeOK /\ LiteralsWellFormed /\ [Next]_vars => LiteralsWellFormed'
  <2> SUFFICES ASSUME TypeOK, LiteralsWellFormed, [Next]_vars PROVE LiteralsWellFormed'
    OBVIOUS
  <2>1. CASE LexTokenInternal
    <3>1. input' = input
      BY <2>1, Moves
    <3>2. PICK b \in 1 .. BufferEnd, fl \in SUBSET TokenFlags : Move(b, fl)
      BY <2>1, Moves
    <3> QED
      BY <3>1, <3>2, LiteralStep
  <2>2. CASE Lex \/ UNCHANGED vars
    <3>1. UNCHANGED <<input, toks>>
      BY <2>2 DEF Lex, vars
    <3>2. \A i \in DOMAIN toks' : toks'[i].kind \in LiteralKinds => Literal(toks'[i])
      BY <3>1, LiteralsAre
    <3> QED
      BY <3>1, <3>2, LiteralsStand
  <2> QED
    BY <2>1, <2>2 DEF Next, Done
<1> QED
  BY <1>1, <1>2, TypeCorrect, PTL DEF Spec

-----------------------------------------------------------------------------
(* Conflicts.  While BufferPtr is before the closing marker of a reported  *)
(* conflict, the lexer remembers the kind of the conflict, and the markers *)
(* it has passed at the start of a line were inside a token or a comment;  *)
(* so the next one that is not ends the conflict.                          *)

Ends(o)  == ConflictEnds(o + 1, MarkerKind(Char(o)))
Close(o) == Min(Ends(o))
LineMarker(m) == Char(m) \in Markers /\ AtLineStart(m)
ReportedAt(d, o) == d \in DOMAIN diags /\ diags[d][1] = "conflict_marker" /\ diags[d][2] = o

Opened(o) == o < BufferPtr /\ Char(o) \in {"<7", ">4"} /\ Ends(o) # {}
StillOpen(o) ==
  BufferPtr <= Close(o) =>
    /\ CurrentConflictMarkerState = MarkerKind(Char(o))
    /\ \A m \in o + 1 .. BufferPtr - 1 : LineMarker(m) => Swallowed(m)
OneSide(o) ==
  \A m \in o + 1 .. Close(o) - 1 :
    LineMarker(m) /\ ~Swallowed(m) => \A i \in DOMAIN toks : toks[i].beg \notin m .. Close(o)

TokensBehind == \A i \in DOMAIN toks : toks[i].beg <= BufferPtr
ConflictInv ==
  /\ \A o \in Nat, d \in Nat : ReportedAt(d, o) => Opened(o) /\ StillOpen(o) /\ OneSide(o)
  /\ \A o, p \in Nat, i, j \in Nat :
       i < j /\ ReportedAt(i, o) /\ ReportedAt(j, p) => Close(o) < p
  /\ TokensBehind

LEMMA CloseIsLeast ==
  ASSUME NEW o \in Nat, NEW kind, ConflictEnds(o + 1, kind) # {}, input \in Seq(Elements)
  PROVE  /\ Min(ConflictEnds(o + 1, kind)) \in ConflictEnds(o + 1, kind)
         /\ Min(ConflictEnds(o + 1, kind)) \in o + 1 .. Len(input)
         /\ Char(Min(ConflictEnds(o + 1, kind))) \notin NewLine
         /\ \A y \in ConflictEnds(o + 1, kind) : Min(ConflictEnds(o + 1, kind)) <= y
<1> DEFINE E == ConflictEnds(o + 1, kind)
<1>1. E \in SUBSET Nat /\ E \in SUBSET (o + 1 .. Len(input))
      /\ \A y \in E : Char(y) \notin NewLine
  BY DEF ConflictEnds, NewLine
<1>2. Min(E) \in E /\ \A y \in E : Min(E) <= y
  BY <1>1, MinIsLeast
<1> HIDE DEF E
<1>3. Min(E) \in o + 1 .. Len(input) /\ Char(Min(E)) \notin NewLine
  BY <1>1, <1>2
<1> QED
  BY <1>2, <1>3 DEF E

LEMMA LaterEnds ==
  ASSUME NEW o \in Nat, NEW b \in Nat, o <= b, NEW kind, NEW y
  PROVE  /\ y \in ConflictEnds(b + 1, kind) => y \in ConflictEnds(o + 1, kind)
         /\ y \in ConflictEnds(o + 1, kind) /\ b < y => y \in ConflictEnds(b + 1, kind)
BY DEF ConflictEnds

LEMMA SkipsMarker ==
  ASSUME input \in Seq(Elements), NEW p \in 1 .. Len(input), Char(p) \notin NewLine
  PROVE  /\ SkipTo(p, NewLine) \in p + 1 .. BufferEnd
         /\ \A i \in p .. SkipTo(p, NewLine) - 1 : Char(i) \notin NewLine
<1>1. p \in 1 .. BufferEnd /\ p # BufferEnd /\ p \in Nat
  BY DEF BufferEnd
<1> DEFINE e == SkipTo(p, NewLine)
<1>2. e \in p .. BufferEnd /\ (e = BufferEnd \/ Char(e) \in NewLine)
      /\ \A i \in p .. e - 1 : Char(i) \notin NewLine
  BY <1>1, SkipToRange
<1> HIDE DEF e
<1>3. e # p
  BY <1>1, <1>2
<1>4. e \in p + 1 .. BufferEnd
  BY <1>1, <1>2, <1>3
<1> QED
  BY <1>2, <1>4 DEF e

LEMMA ConflictsFollowInput ==
  ASSUME input' = input
  PROVE  /\ \A o : Ends(o)' = Ends(o) /\ Close(o)' = Close(o)
         /\ \A m : LineMarker(m)' <=> LineMarker(m)
         /\ \A p : Char(p)' = Char(p)
<1>1. \A p : Char(p)' = Char(p)
  BY DEF Char
<1>2. \A m : AtLineStart(m)' <=> AtLineStart(m)
  BY <1>1 DEF AtLineStart
<1>3. \A p, kind : ConflictEnds(p, kind)' = ConflictEnds(p, kind)
  BY DEF ConflictEnds, Char, AtLineStart
<1>4. \A o : Ends(o)' = Ends(o)
  BY <1>3, <1>1 DEF Ends
<1>5. \A o : Close(o)' = Close(o)
  BY <1>4 DEF Close
<1> QED
  BY <1>1, <1>2, <1>4, <1>5 DEF LineMarker

LEMMA StaysSwallowed ==
  ASSUME Longer(toks, toks'), Longer(comments, comments'), NEW p, Swallowed(p)
  PROVE  Swallowed(p)'
<1>1. CASE \E i \in DOMAIN toks : p \in toks[i].beg + 1 .. toks[i].end - 1
  BY <1>1 DEF Swallowed, Longer
<1>2. CASE \E i \in DOMAIN comments : p \in comments[i].beg + 1 .. comments[i].end - 1
  BY <1>2 DEF Swallowed, Longer
<1> QED
  BY <1>1, <1>2 DEF Swallowed

(* A conflict that was reported before a move.  The move passes a marker   *)
(* at the start of a line, short of the end of the conflict, only inside a *)
(* token or a comment, and starts no token at one.                         *)
LEMMA ConflictStays ==
  ASSUME TypeOK, TokensBehind, input' = input, NEW b \in 1 .. BufferEnd, b >= BufferPtr,
         \A q \in BufferPtr .. b - 1 : Char(q) \in Blank,
         Longer(toks, toks'), Longer(comments, comments'), BufferPtr' \in b .. BufferEnd,
         \A i \in DOMAIN toks' : i \in DOMAIN toks \/ toks'[i].beg = b,
         NEW o \in Nat, Opened(o), StillOpen(o), OneSide(o),
         BufferPtr' <= Close(o) =>
           /\ UNCHANGED CurrentConflictMarkerState
           /\ \A m \in b .. BufferPtr' - 1 : LineMarker(m) => Swallowed(m)',
         BufferPtr <= Close(o) /\ LineMarker(b) /\ b < Close(o) => UNCHANGED toks
  PROVE  Opened(o)' /\ StillOpen(o)' /\ OneSide(o)'
<1>0. /\ Ends(o)' = Ends(o) /\ Close(o)' = Close(o) /\ Char(o)' = Char(o)
      /\ \A m : LineMarker(m)' <=> LineMarker(m)
  BY ConflictsFollowInput
<1>1. BufferPtr \in Nat /\ b \in Nat /\ BufferPtr' \in Nat /\ BufferEnd \in Nat /\ BufferPtr' >= b
  BY DEF TypeOK, BufferEnd
<1>2. Close(o) \in o + 1 .. Len(input) /\ Close(o) \in Nat
  <2> DEFINE kind == MarkerKind(Char(o))
  <2>1. input \in Seq(Elements) /\ ConflictEnds(o + 1, kind) # {}
    BY DEF Opened, Ends, TypeOK
  <2> HIDE DEF kind
  <2>2. Min(ConflictEnds(o + 1, kind)) \in o + 1 .. Len(input)
    BY <2>1, CloseIsLeast
  <2>3. Close(o) \in o + 1 .. Len(input)
    BY <2>2 DEF Close, Ends, kind
  <2>4. Len(input) \in Nat
    BY <2>1
  <2> QED
    BY <2>3, <2>4
<1>3. \A m \in BufferPtr .. b - 1 : ~LineMarker(m)
  BY DEF LineMarker, Blank, Markers
<1>4. Opened(o)'
  BY <1>0, <1>1 DEF Opened
<1>5. StillOpen(o)'
  <2>1. ASSUME BufferPtr' <= Close(o), NEW m \in o + 1 .. BufferPtr' - 1, LineMarker(m)
        PROVE  Swallowed(m)'
    <3>1. CASE m \in o + 1 .. BufferPtr - 1
      <4>1. BufferPtr <= Close(o)
        BY <1>1, <1>2, <2>1
      <4> QED
        BY <2>1, <3>1, <4>1, StaysSwallowed DEF StillOpen
    <3>2. CASE m \in BufferPtr .. b - 1
      BY <1>3, <2>1, <3>2
    <3>3. CASE m \in b .. BufferPtr' - 1
      BY <2>1, <3>3
    <3> QED
      BY <1>1, <2>1, <3>1, <3>2, <3>3
  <2>2. BufferPtr' <= Close(o) => CurrentConflictMarkerState' = MarkerKind(Char(o))
    BY <1>1, <1>2 DEF StillOpen
  <2> QED
    BY <1>0, <2>1, <2>2 DEF StillOpen
<1>6. OneSide(o)'
  <2>1. ASSUME NEW m \in o + 1 .. Close(o) - 1, LineMarker(m), ~Swallowed(m)',
               NEW i \in DOMAIN toks', toks'[i].beg \in m .. Close(o)
        PROVE  FALSE
    <3>0. ~Swallowed(m)
      BY <2>1, StaysSwallowed
    <3>1. i \notin DOMAIN toks
      BY <2>1, <3>0 DEF OneSide, Longer
    <3>2. toks'[i].beg = b
      BY <3>1
    <3>3. m <= b /\ BufferPtr <= Close(o)
      BY <1>1, <1>2, <2>1, <3>2
    <3>4. ~(m < BufferPtr)
      <4>1. m < BufferPtr => m \in o + 1 .. BufferPtr - 1
        BY <1>1, <1>2
      <4> QED
        BY <2>1, <3>0, <3>3, <4>1 DEF StillOpen
    <3>5. m = b
      BY <1>1, <1>2, <1>3, <2>1, <3>3, <3>4
    <3>6. UNCHANGED toks
      BY <1>2, <2>1, <3>3, <3>5
    <3> QED
      BY <3>1, <3>6
  <2> QED
    BY <1>0, <2>1 DEF OneSide
<1> QED
  BY <1>4, <1>5, <1>6

(* Before the end of an open conflict a marker at the start of a line      *)
(* cannot be taken for operators: it ends the conflict.                    *)
LEMMA MarkerEnds ==
  ASSUME TypeOK, NEW b \in 1 .. BufferEnd, b >= BufferPtr, NEW o \in Nat,
         Opened(o), StillOpen(o), BufferPtr <= Close(o), b < Close(o), LineMarker(b)
  PROVE  /\ EndsConflict(b)
         /\ Min(ConflictEnds(b + 1, CurrentConflictMarkerState)) = Close(o)
<1>1. CurrentConflictMarkerState = MarkerKind(Char(o))
  BY DEF StillOpen
<1>2. o <= b /\ b \in Nat /\ input \in Seq(Elements)
  BY DEF Opened, TypeOK, BufferEnd
<1> DEFINE kind == MarkerKind(Char(o))
           E == ConflictEnds(b + 1, kind)
<1>3. Close(o) \in Ends(o) /\ (\A y \in Ends(o) : Close(o) <= y) /\ Close(o) \in Nat
  BY <1>2, CloseIsLeast DEF Opened, Ends, Close
<1>4. Close(o) \in E
  BY <1>2, <1>3, LaterEnds DEF Ends
<1>5. Min(E) \in E /\ (\A y \in E : Min(E) <= y) /\ Min(E) \in b + 1 .. Len(input)
  BY <1>2, <1>4, CloseIsLeast
<1>6. Min(E) \in Ends(o)
  BY <1>2, <1>5, LaterEnds DEF Ends
<1> HIDE DEF E
<1>7. Min(E) = Close(o)
  <2>1. Min(E) <= Close(o) /\ Close(o) <= Min(E) /\ Min(E) \in Nat
    BY <1>2, <1>3, <1>4, <1>5, <1>6
  <2> QED
    BY <1>3, <2>1
<1>8. kind # "CMK_None"
  BY DEF MarkerKind
<1> USE DEF E
<1> QED
  BY <1>1, <1>4, <1>7, <1>8 DEF EndsConflict, LineMarker

LEMMA TokenFields ==
  ASSUME TypeOK
  PROVE  \A i \in DOMAIN toks :
           toks[i].beg \in Nat /\ toks[i].end \in Nat /\ toks[i].kind \in TokenKinds
<1>1. toks \in Seq(Token)
  BY DEF TypeOK
<1>2. \A i \in DOMAIN toks : toks[i] \in Token
  BY <1>1
<1> QED
  BY <1>2 DEF Token

LEMMA ConflictMove ==
  ASSUME TypeOK, TokensBehind, input' = input, NEW b \in 1 .. BufferEnd,
         NEW fl \in SUBSET TokenFlags, StartsAt(b, fl), Move(b, fl)
  PROVE  /\ Longer(toks, toks') /\ Longer(comments, comments') /\ BufferPtr' \in b .. BufferEnd
         /\ \A i \in DOMAIN toks' : i \in DOMAIN toks \/ toks'[i].beg = b
         /\ TokensBehind'
         /\ \A o \in Nat : Opened(o) /\ StillOpen(o) =>
              /\ BufferPtr' <= Close(o) =>
                   /\ UNCHANGED CurrentConflictMarkerState
                   /\ \A m \in b .. BufferPtr' - 1 : LineMarker(m) => Swallowed(m)'
              /\ BufferPtr <= Close(o) /\ LineMarker(b) /\ b < Close(o) => UNCHANGED toks
<1>0. /\ BufferPtr \in 1 .. BufferEnd /\ BufferPtr \in Nat /\ BufferEnd \in Nat /\ b \in Nat
      /\ b >= BufferPtr /\ input \in Seq(Elements) /\ BufferEnd = Len(input) + 1
      /\ Len(input) \in Nat
  BY DEF TypeOK, BufferEnd, StartsAt
<1>1. \A o \in Nat : Opened(o) => Close(o) \in o + 1 .. Len(input)
  BY <1>0, CloseIsLeast DEF Opened, Ends, Close
<1>2. ASSUME NEW kind \in TokenKinds, NEW end \in b .. BufferEnd, NEW f \in SUBSET TokenFlags,
             FormToken(kind, b, end, f)
      PROVE  /\ Longer(toks, toks') /\ BufferPtr' = end
             /\ \A i \in DOMAIN toks' : i \in DOMAIN toks \/ toks'[i].beg = b
             /\ TokensBehind'
             /\ \A m \in b + 1 .. end - 1 : Swallowed(m)'
  <2> DEFINE t == [kind |-> kind, beg |-> b, end |-> end, flags |-> f]
  <2>1. /\ Longer(toks, toks')
        /\ DOMAIN toks = 1 .. Len(toks) /\ DOMAIN toks' = 1 .. Len(toks) + 1 /\ Len(toks) \in Nat
        /\ (\A j \in 1 .. Len(toks) : toks'[j] = toks[j]) /\ toks'[Len(toks) + 1] = t
    BY <1>2, OneToken
  <2>2. t.beg = b /\ t.end = end /\ BufferPtr' = end
    BY <1>2 DEF FormToken
  <2> HIDE DEF t
  <2>3. \A i \in DOMAIN toks' : i \in DOMAIN toks \/ toks'[i].beg = b
    BY <2>1, <2>2
  <2>4. \A i \in DOMAIN toks' : toks'[i].beg <= BufferPtr'
    <3>1. \A i \in DOMAIN toks : toks'[i] = toks[i] /\ toks[i].beg <= BufferPtr /\ toks[i].beg \in Nat
      BY <2>1, TokenFields DEF TokensBehind
    <3> QED
      BY <1>0, <2>2, <2>3, <3>1
  <2>5. \A m \in b + 1 .. end - 1 : Swallowed(m)'
    BY <2>1, <2>2 DEF Swallowed
  <2> QED
    BY <2>1, <2>2, <2>3, <2>4, <2>5 DEF TokensBehind
<1>3. ASSUME UNCHANGED toks, BufferPtr' \in b .. BufferEnd
      PROVE  /\ Longer(toks, toks') /\ TokensBehind'
             /\ \A i \in DOMAIN toks' : i \in DOMAIN toks \/ toks'[i].beg = b
  <2>1. \A i \in DOMAIN toks : toks[i].beg <= BufferPtr /\ toks[i].beg \in Nat
    BY TokenFields DEF TokensBehind
  <2>2. \A i \in DOMAIN toks : toks[i].beg <= BufferPtr'
    BY <1>0, <1>3, <2>1
  <2> QED
    BY <1>3, <2>2, SameLonger DEF TokensBehind
<1>4. CASE FormsToken(b, fl)
  <2>1. PICK kind \in TokenKinds, end \in b .. BufferEnd, f \in SUBSET TokenFlags :
          /\ FormToken(kind, b, end, f)
          /\ kind # "eof" => end > b
          /\ kind = "eof" => b = BufferEnd
    BY <1>4 DEF FormsToken
  <2>2. /\ Longer(toks, toks') /\ BufferPtr' = end
        /\ \A i \in DOMAIN toks' : i \in DOMAIN toks \/ toks'[i].beg = b
        /\ TokensBehind'
        /\ \A m \in b + 1 .. end - 1 : Swallowed(m)'
    BY <1>2, <2>1
  <2>3. UNCHANGED <<comments, CurrentConflictMarkerState>> /\ Longer(comments, comments')
    BY <1>4, SameLonger DEF FormsToken
  <2>4. ASSUME NEW o \in Nat, Opened(o), StillOpen(o), BufferPtr <= Close(o), b < Close(o),
               LineMarker(b)
        PROVE  FALSE
    <3>1. ~EndsConflict(b)
      BY <1>4, <2>4 DEF FormsToken, LineMarker
    <3> QED
      BY <1>0, <2>4, <3>1, MarkerEnds
  <2>5. ASSUME NEW o \in Nat, Opened(o), StillOpen(o), end <= Close(o), NEW m \in b .. end - 1,
               LineMarker(m)
        PROVE  Swallowed(m)'
    <3>1. m # b
      <4>1. BufferPtr <= Close(o) /\ (m = b => b < Close(o))
        BY <1>0, <1>1, <2>5
      <4> QED
        BY <2>4, <2>5, <4>1
    <3>2. m \in b + 1 .. end - 1
      BY <1>0, <3>1
    <3> QED
      BY <2>2, <3>2
  <2> QED
    BY <2>1, <2>2, <2>3, <2>4, <2>5
<1>5. CASE InsertsSemi(b, fl)
  <2>1. PICK end \in b .. BufferEnd, f \in SUBSET TokenFlags :
          /\ InsertSemi(b, end, f)
          /\ UNCHANGED comments \/ \E e \in b .. end : handleComment(b, e)
    BY <1>5 DEF InsertsSemi
  <2>2. /\ Longer(toks, toks') /\ BufferPtr' = end
        /\ \A i \in DOMAIN toks' : i \in DOMAIN toks \/ toks'[i].beg = b
        /\ TokensBehind'
        /\ \A m \in b + 1 .. end - 1 : Swallowed(m)'
    BY <1>2, <2>1, OneSemi
  <2>3. Longer(comments, comments')
    <3>1. ASSUME NEW e \in b .. end, handleComment(b, e) PROVE Longer(comments, comments')
      <4>1. e \in Nat
        BY <1>0
      <4> QED
        BY <1>0, <3>1, <4>1, OneComment
    <3> QED
      BY <2>1, <3>1, SameLonger
  <2>4. UNCHANGED CurrentConflictMarkerState /\ ~LineMarker(b)
    BY <1>5 DEF InsertsSemi, LineMarker
  <2>5. ASSUME NEW m \in b .. end - 1, LineMarker(m) PROVE Swallowed(m)'
    <3>1. m \in b + 1 .. end - 1
      BY <1>0, <2>4, <2>5
    <3> QED
      BY <2>2, <3>1
  <2> QED
    BY <2>1, <2>2, <2>3, <2>4, <2>5
<1>6. ASSUME NEW e \in b .. BufferEnd, NEW end \in e .. BufferEnd, BufferPtr' = end,
             UNCHANGED <<toks, CurrentConflictMarkerState>>,
             IF e = b THEN UNCHANGED comments ELSE handleComment(b, e) /\ Char(b) = "/",
             \A q \in e .. end - 1 : White(q)
      PROVE  /\ Longer(comments, comments') /\ BufferPtr' \in b .. BufferEnd
             /\ \A m \in b .. BufferPtr' - 1 : LineMarker(m) => Swallowed(m)'
  <2>1. e \in Nat /\ end \in b .. BufferEnd /\ end \in Nat
    BY <1>0, <1>6
  <2>2. Longer(comments, comments') /\ \A q \in b + 1 .. e - 1 : Swallowed(q)'
    <3>1. CASE e = b
      BY <1>0, <1>6, <3>1, SameLonger
    <3>2. CASE e # b
      <4>1. /\ Longer(comments, comments') /\ Len(comments) + 1 \in DOMAIN comments'
            /\ comments'[Len(comments) + 1] = [beg |-> b, end |-> e]
        BY <1>0, <1>6, <2>1, <3>2, OneComment
      <4> QED
        BY <4>1 DEF Swallowed
    <3> QED
      BY <3>1, <3>2
  <2>3. ASSUME NEW m \in b .. end - 1, LineMarker(m) PROVE Swallowed(m)'
    <3>1. m \notin e .. end - 1
      BY <1>6, <2>3 DEF White, LineMarker, Blank, NewLine, Markers
    <3>2. m # b
      <4>1. CASE e = b
        BY <1>0, <2>1, <3>1, <4>1
      <4>2. CASE e # b
        BY <1>6, <2>3, <4>2 DEF LineMarker, Markers
      <4> QED
        BY <4>1, <4>2
    <3>3. m \in b + 1 .. e - 1
      BY <1>0, <2>1, <3>1, <3>2
    <3> QED
      BY <2>2, <3>3
  <2> QED
    BY <1>6, <2>1, <2>2, <2>3
<1>7. CASE PassesOver(b, fl)
  <2>1. PICK e \in b .. BufferEnd : \E end \in e .. BufferEnd :
          /\ BufferPtr' = end /\ UNCHANGED <<toks, CurrentConflictMarkerState>>
          /\ IF e = b THEN UNCHANGED comments ELSE handleComment(b, e) /\ Char(b) = "/"
          /\ \A q \in e .. end - 1 : White(q)
    BY <1>7 DEF PassesOver, GoTo
  <2> QED
    BY <1>3, <1>6, <2>1
<1>8. CASE SwallowsSemi(b, fl)
  <2>1. PICK e \in b + 1 .. BufferEnd : \E end \in e .. BufferEnd :
          /\ BufferPtr' = end /\ UNCHANGED <<toks, CurrentConflictMarkerState, diags>>
          /\ handleComment(b, e) /\ Char(b) = "/"
          /\ \A q \in e .. end - 1 : White(q)
    BY <1>8 DEF SwallowsSemi
  <2>2. e \in b .. BufferEnd /\ e # b
    BY <1>0
  <2> QED
    BY <1>3, <1>6, <2>1, <2>2
<1>9. CASE RunsOff(b, fl)
  <2>1. BufferPtr' = BufferEnd /\ UNCHANGED <<toks, comments>> /\ BufferEnd \in b .. BufferEnd
    BY <1>0, <1>9 DEF RunsOff, GoTo
  <2>2. \A o \in Nat : Opened(o) => ~(BufferPtr' <= Close(o))
    BY <1>0, <1>1, <2>1
  <2> QED
    BY <1>3, <2>1, <2>2, SameLonger
<1>10. CASE OpensConflict(b, fl)
  <2> DEFINE end == SkipTo(b, NewLine)
  <2>1. BufferPtr' = end /\ UNCHANGED <<toks, comments>> /\ CurrentConflictMarkerState = "CMK_None"
    BY <1>10 DEF OpensConflict, GoTo, StartsConflict
  <2>2. end \in b .. BufferEnd
    BY <1>0, SkipToRange
  <2> HIDE DEF end
  <2>3. \A o \in Nat : Opened(o) /\ StillOpen(o) => ~(BufferPtr <= Close(o))
    BY <2>1 DEF StillOpen, MarkerKind
  <2>4. \A o \in Nat : Opened(o) /\ StillOpen(o) => ~(BufferPtr' <= Close(o))
    BY <1>0, <1>1, <2>1, <2>2, <2>3
  <2> QED
    BY <1>3, <2>1, <2>2, <2>4, SameLonger
<1>11. CASE ClosesConflict(b, fl)
  <2> DEFINE c == Min(ConflictEnds(b + 1, CurrentConflictMarkerState))
             end == ConflictLineEnd(b)
  <2>1. BufferPtr' = end /\ UNCHANGED <<toks, comments>> /\ EndsConflict(b) /\ Char(b) \in Markers
        /\ LineMarker(b)
    BY <1>11 DEF ClosesConflict, GoTo, EndsConflict, LineMarker
  <2>2. c \in b + 1 .. Len(input) /\ Char(c) \notin NewLine
    BY <1>0, <2>1, CloseIsLeast DEF EndsConflict
  <2>3. end = SkipTo(c, NewLine)
    BY DEF ConflictLineEnd
  <2> HIDE DEF c, end
  <2>4. c \in 1 .. Len(input)
    BY <1>0, <2>2
  <2>5. end \in c + 1 .. BufferEnd
    BY <1>0, <2>2, <2>3, <2>4, SkipsMarker
  <2>6. end \in b .. BufferEnd /\ end > c /\ end > b
    BY <1>0, <2>2, <2>5
  <2>7. ASSUME NEW o \in Nat, Opened(o), StillOpen(o), BufferPtr' <= Close(o)
        PROVE  FALSE
    <3>1. BufferPtr <= Close(o) /\ b < Close(o)
      BY <1>0, <1>1, <2>1, <2>6, <2>7
    <3>2. c = Close(o)
      BY <1>0, <2>1, <2>7, <3>1, MarkerEnds DEF c
    <3> QED
      BY <1>0, <2>1, <2>2, <2>6, <2>7, <3>2
  <2> QED
    BY <1>3, <2>1, <2>6, <2>7, SameLonger
<1> QED
  BY <1>4, <1>5, <1>7, <1>8, <1>9, <1>10, <1>11 DEF Move

(* All that a move reports of conflicts.                                   *)
LEMMA ReportedConflicts ==
  ASSUME TypeOK, NEW b \in 1 .. BufferEnd, NEW fl, Move(b, fl)
  PROVE  \/ \A d, o : ReportedAt(d, o)' => ReportedAt(d, o)
         \/ /\ OpensConflict(b, fl)
            /\ Len(diags) \in Nat
            /\ \A d, o : ReportedAt(d, o)' =>
                 ReportedAt(d, o) \/ (d = Len(diags) + 1 /\ o = b)
            /\ \A d, o : ReportedAt(d, o) => d <= Len(diags)
<1>0. b \in Nat
  BY DEF TypeOK, BufferEnd
<1>1. CASE FormsToken(b, fl) \/ InsertsSemi(b, fl) \/ PassesOver(b, fl)
  <2>1. Quiet
    BY <1>1 DEF FormsToken, InsertsSemi, PassesOver
  <2> QED
    BY <2>1, QuietDiags DEF ReportedAt, Longer
<1>2. CASE SwallowsSemi(b, fl) \/ ClosesConflict(b, fl)
  BY <1>2 DEF SwallowsSemi, ClosesConflict, ReportedAt
<1>3. CASE RunsOff(b, fl)
  <2>1. Diag("unterminated_block_comment", b) /\ "unterminated_block_comment" \in Diagnostics
    BY <1>3 DEF RunsOff, Diagnostics
  <2>2. /\ Longer(diags, diags')
        /\ Len(diags) \in Nat /\ DOMAIN diags = 1 .. Len(diags)
        /\ DOMAIN diags' = 1 .. Len(diags) + 1
        /\ diags'[Len(diags) + 1] = <<"unterminated_block_comment", b>>
    BY <1>0, <2>1, OneDiag
  <2>3. \A d \in DOMAIN diags' : d \in DOMAIN diags \/ d = Len(diags) + 1
    BY <2>2
  <2> QED
    BY <2>2, <2>3 DEF ReportedAt, Longer
<1>4. CASE OpensConflict(b, fl)
  <2>1. Diag("conflict_marker", b) /\ "conflict_marker" \in Diagnostics
    BY <1>4 DEF OpensConflict, Diagnostics
  <2>2. /\ Longer(diags, diags')
        /\ Len(diags) \in Nat /\ DOMAIN diags = 1 .. Len(diags)
        /\ DOMAIN diags' = 1 .. Len(diags) + 1
        /\ diags'[Len(diags) + 1] = <<"conflict_marker", b>>
    BY <1>0, <2>1, OneDiag
  <2>3. \A d \in DOMAIN diags' : d \in DOMAIN diags \/ d = Len(diags) + 1
    BY <2>2
  <2>4. \A d, o : ReportedAt(d, o)' => ReportedAt(d, o) \/ (d = Len(diags) + 1 /\ o = b)
    BY <2>2, <2>3 DEF ReportedAt, Longer
  <2>5. \A d, o : ReportedAt(d, o) => d <= Len(diags)
    BY <2>2 DEF ReportedAt
  <2> QED
    BY <1>4, <2>2, <2>4, <2>5
<1> QED
  BY <1>1, <1>2, <1>3, <1>4 DEF Move

LEMMA ConflictStep ==
  ASSUME TypeOK, ConflictInv, input' = input, NEW b \in 1 .. BufferEnd,
         NEW fl \in SUBSET TokenFlags, StartsAt(b, fl), Move(b, fl)
  PROVE  ConflictInv'
<1>0. /\ BufferPtr \in 1 .. BufferEnd /\ BufferPtr \in Nat /\ BufferEnd \in Nat /\ b \in Nat
      /\ b >= BufferPtr /\ input \in Seq(Elements) /\ BufferEnd = Len(input) + 1
      /\ Len(input) \in Nat /\ \A q \in BufferPtr .. b - 1 : Char(q) \in Blank
  BY DEF TypeOK, BufferEnd, StartsAt
<1>1. /\ TokensBehind
      /\ \A o \in Nat, d \in Nat : ReportedAt(d, o) => Opened(o) /\ StillOpen(o) /\ OneSide(o)
      /\ \A o, p \in Nat, i, j \in Nat :
           i < j /\ ReportedAt(i, o) /\ ReportedAt(j, p) => Close(o) < p
  BY DEF ConflictInv
<1>2. /\ Longer(toks, toks') /\ Longer(comments, comments') /\ BufferPtr' \in b .. BufferEnd
      /\ \A i \in DOMAIN toks' : i \in DOMAIN toks \/ toks'[i].beg = b
      /\ TokensBehind'
  BY <1>1, ConflictMove
<1>3. ASSUME NEW o \in Nat, NEW d \in Nat, ReportedAt(d, o)
      PROVE  Opened(o)' /\ StillOpen(o)' /\ OneSide(o)'
  <2>1. Opened(o) /\ StillOpen(o) /\ OneSide(o)
    BY <1>1, <1>3
  <2>2. /\ BufferPtr' <= Close(o) =>
             /\ UNCHANGED CurrentConflictMarkerState
             /\ \A m \in b .. BufferPtr' - 1 : LineMarker(m) => Swallowed(m)'
        /\ BufferPtr <= Close(o) /\ LineMarker(b) /\ b < Close(o) => UNCHANGED toks
    BY <1>1, <2>1, ConflictMove
  <2> QED
    BY <1>0, <1>1, <1>2, <2>1, <2>2, ConflictStays
<1>4. \A o : Close(o)' = Close(o)
  BY ConflictsFollowInput
<1>5. CASE \A d, o : ReportedAt(d, o)' => ReportedAt(d, o)
  BY <1>1, <1>2, <1>3, <1>4, <1>5 DEF ConflictInv
<1>6. CASE /\ OpensConflict(b, fl)
           /\ Len(diags) \in Nat
           /\ \A d, o : ReportedAt(d, o)' => ReportedAt(d, o) \/ (d = Len(diags) + 1 /\ o = b)
           /\ \A d, o : ReportedAt(d, o) => d <= Len(diags)
  <2> DEFINE end == SkipTo(b, NewLine)
  <2>1. /\ StartsConflict(b) /\ BufferPtr' = end /\ UNCHANGED toks
        /\ CurrentConflictMarkerState' = MarkerKind(Char(b))
    BY <1>6 DEF OpensConflict, GoTo
  <2>2. /\ Char(b) \in {"<7", ">4"} /\ Ends(b) # {} /\ CurrentConflictMarkerState = "CMK_None"
        /\ Char(b) \notin NewLine /\ Char(b) # "nul"
    BY <2>1 DEF StartsConflict, Ends, NewLine
  <2>3. b \in 1 .. Len(input)
    BY <1>0, <2>2, CharIn
  <2>4. end \in b + 1 .. BufferEnd /\ \A i \in b .. end - 1 : Char(i) \notin NewLine
    BY <1>0, <2>2, <2>3, SkipsMarker
  <2>5. Close(b) \in b + 1 .. Len(input)
    BY <1>0, <2>2, CloseIsLeast DEF Ends, Close
  <2> HIDE DEF end
  <2>6. /\ Ends(b)' = Ends(b) /\ Close(b)' = Close(b) /\ Char(b)' = Char(b)
        /\ \A m : LineMarker(m)' <=> LineMarker(m)
    BY ConflictsFollowInput
  <2>7. Opened(b)'
    BY <1>0, <2>1, <2>2, <2>4, <2>6 DEF Opened
  <2>8. StillOpen(b)'
    <3>1. ASSUME NEW m \in b + 1 .. end - 1 PROVE ~LineMarker(m)
      <4>1. m - 1 \in b .. end - 1 /\ m # 1
        BY <1>0, <2>3, <2>4
      <4> QED
        BY <2>4, <4>1 DEF LineMarker, AtLineStart
    <3> QED
      BY <2>1, <2>6, <3>1 DEF StillOpen
  <2>9. OneSide(b)'
    <3>1. ASSUME NEW m \in b + 1 .. Close(b) - 1, NEW i \in DOMAIN toks
          PROVE  toks[i].beg \notin m .. Close(b)
      <4>1. toks[i].beg <= BufferPtr /\ toks[i].beg \in Nat
        BY <1>1, TokenFields DEF TokensBehind
      <4> QED
        BY <1>0, <2>5, <4>1
    <3> QED
      BY <2>1, <2>6, <3>1 DEF OneSide
  <2>10. ASSUME NEW o \in Nat, NEW d \in Nat, ReportedAt(d, o)
         PROVE  Close(o) < b
    <3>1. Opened(o) /\ ~(BufferPtr <= Close(o))
      BY <1>1, <2>2, <2>10 DEF StillOpen, MarkerKind
    <3>2. Close(o) \in o + 1 .. Len(input)
      BY <1>0, <3>1, CloseIsLeast DEF Opened, Ends, Close
    <3> QED
      BY <1>0, <3>1, <3>2
  <2>11. \A o \in Nat, d \in Nat : ReportedAt(d, o)' => Opened(o)' /\ StillOpen(o)' /\ OneSide(o)'
    BY <1>3, <1>6, <2>7, <2>8, <2>9
  <2>12. ASSUME NEW o \in Nat, NEW p \in Nat, NEW i \in Nat, NEW j \in Nat, i < j,
                ReportedAt(i, o)', ReportedAt(j, p)'
         PROVE  Close(o)' < p
    <3>1. CASE ReportedAt(i, o) /\ ReportedAt(j, p)
      BY <1>1, <1>4, <2>12, <3>1
    <3>2. CASE ReportedAt(i, o) /\ p = b
      BY <1>4, <2>10, <3>2
    <3>3. CASE i = Len(diags) + 1 /\ (ReportedAt(j, p) \/ j = Len(diags) + 1)
      BY <1>6, <2>12, <3>3
    <3> QED
      BY <1>6, <2>12, <3>1, <3>2, <3>3
  <2> QED
    BY <1>2, <2>11, <2>12 DEF ConflictInv
<1> QED
  BY <1>5, <1>6, ReportedConflicts

LEMMA DiagFields ==
  ASSUME TypeOK
  PROVE  \A d \in DOMAIN diags : d \in Nat /\ diags[d][2] \in Nat
<1> DEFINE S == Diagnostics \X Nat
<1>1. diags \in Seq(S)
  BY DEF TypeOK
<1> HIDE DEF S
<1>2. \A d \in DOMAIN diags : d \in Nat /\ diags[d] \in S
  BY <1>1
<1> QED
  BY <1>2 DEF S

LEMMA ConflictImplies ==
  TypeOK /\ ConflictInv => OneSideOfConflicts
<1> SUFFICES ASSUME TypeOK, ConflictInv PROVE OneSideOfConflicts
  OBVIOUS
<1>0. input \in Seq(Elements)
  BY DEF TypeOK
<1>1. ASSUME NEW i \in DOMAIN diags, diags[i][1] = "conflict_marker"
      PROVE  /\ Opened(diags[i][2]) /\ OneSide(diags[i][2])
             /\ diags[i][2] \in Nat /\ i \in Nat /\ ReportedAt(i, diags[i][2])
             /\ Close(diags[i][2]) \in Ends(diags[i][2])
  <2>1. diags[i][2] \in Nat /\ i \in Nat /\ ReportedAt(i, diags[i][2])
    BY <1>1, DiagFields DEF ReportedAt
  <2>2. Opened(diags[i][2]) /\ OneSide(diags[i][2])
    BY <2>1 DEF ConflictInv
  <2>3. Close(diags[i][2]) \in Ends(diags[i][2])
    BY <1>0, <2>1, <2>2, CloseIsLeast DEF Opened, Ends, Close
  <2> QED
    BY <2>1, <2>2, <2>3
<1>2. ASSUME NEW i \in DOMAIN diags, NEW j \in DOMAIN diags, i < j,
             diags[i][1] = "conflict_marker", diags[j][1] = "conflict_marker"
      PROVE  Close(diags[i][2]) \in Ends(diags[i][2]) /\ Close(diags[i][2]) < diags[j][2]
  BY <1>1, <1>2 DEF ConflictInv
<1>3. \A d \in DOMAIN diags : diags[d][1] = "conflict_marker" => OneSide(diags[d][2])
  BY <1>1
<1> QED
  BY <1>2, <1>3 DEF OneSideOfConflicts, Ends, Close, OneSide, LineMarker

LEMMA ConflictInvariant == Spec => []ConflictInv
<1>1. Init => ConflictInv
  BY DEF Init, ConflictInv, ReportedAt, TokensBehind
<1>2. TypeOK /\ ConflictInv /\ [Next]_vars => ConflictInv'
  <2> SUFFICES ASSUME TypeOK, ConflictInv, [Next]_vars PROVE ConflictInv'
    OBVIOUS
  <2>1. CASE LexTokenInternal
    <3>1. input' = input
      BY <2>1, Moves
    <3>2. PICK b \in 1 .. BufferEnd, fl \in SUBSET TokenFlags : StartsAt(b, fl) /\ Move(b, fl)
      BY <2>1, Moves
    <3> QED
      BY <3>1, <3>2, ConflictStep
  <2>2. CASE Lex \/ UNCHANGED vars
    <3>1. UNCHANGED <<input, BufferPtr, CurrentConflictMarkerState, toks, comments, diags>>
      BY <2>2 DEF Lex, vars
    <3>2. /\ \A o : Ends(o)' = Ends(o) /\ Close(o)' = Close(o) /\ Char(o)' = Char(o)
          /\ \A m : LineMarker(m)' <=> LineMarker(m)
      BY <3>1, ConflictsFollowInput
    <3>3. /\ \A m : Swallowed(m)' <=> Swallowed(m)
          /\ \A d, o : ReportedAt(d, o)' <=> ReportedAt(d, o)
          /\ TokensBehind' <=> TokensBehind
      BY <3>1 DEF Swallowed, ReportedAt, TokensBehind
    <3>4. \A o : Opened(o)' <=> Opened(o)
      BY <3>1, <3>2 DEF Opened
    <3>5. \A o : StillOpen(o)' <=> StillOpen(o)
      BY <3>1, <3>2, <3>3 DEF StillOpen
    <3>6. \A o : OneSide(o)' <=> OneSide(o)
      BY <3>1, <3>2, <3>3 DEF OneSide
    <3> QED
      BY <3>2, <3>3, <3>4, <3>5, <3>6 DEF ConflictInv
  <2> QED
    BY <2>1, <2>2 DEF Next, Done
<1> QED
  BY <1>1, <1>2, TypeCorrect, PTL DEF Spec

(* In every run over every buffer, conflicts are reported one at a time    *)
(* and only one of their sides is lexed: a marker that is met inside an    *)
(* open conflict takes the lexer past the end of the conflict.             *)
THEOREM OneSideCorrect == Spec => []OneSideOfConflicts
BY ConflictInvariant, ConflictImplies, TypeCorrect, PTL

-----------------------------------------------------------------------------
(* Line ends.  What the lexer remembers between tokens: the flag           *)
(* StartOfLine of the token under construction says whether a line end was *)
(* seen since the last token, unless one is just ahead; and LastTokenKind  *)
(* still asks for a semicolon if no line end was passed, unless a block    *)
(* comment with a blank after it has answered it.                          *)

LastEnd == IF toks = << >> THEN 1 ELSE toks[Len(toks)].end
LineEndSeen == \E q \in LastEnd .. BufferPtr - 1 : Char(q) \in NewLine /\ ~InComment(q)
LineEndAhead == ~WantsSemi /\ (BufferPtr = BufferEnd \/ Char(BufferPtr) \in NewLine)

CommentsBehind ==
  /\ \A c \in DOMAIN comments : comments[c].end <= BufferPtr
  /\ DiagBefore(BufferEnd, "unterminated_block_comment") => BufferPtr = BufferEnd

WantedInLine ==
  WantsSemi => BufferPtr > 1 /\ (BufferPtr = BufferEnd \/ Char(BufferPtr - 1) \notin NewLine)

NoLineEndYet == BufferPtr = BufferEnd \/ \A p \in LastEnd .. BufferPtr - 1 : Char(p) # "nl"
SemiForgotten ==
  \E c \in DOMAIN comments :
    /\ comments[c].beg \in LastEnd .. BufferPtr - 1
    /\ Char(comments[c].beg + 1) = "*" /\ Char(comments[c].end) \in Blank
SemiStillDue ==
  toks # << >> /\ toks[Len(toks)].kind \in SemiKinds =>
    \/ LastTokenKind = toks[Len(toks)].kind /\ NoLineEndYet
    \/ LastTokenKind = "semi" /\ SemiForgotten

StartsNoticed ==
  /\ pc = "returned" =>
       /\ IsAtStartOfLine <=> toks = << >>
       /\ toks # << >> => BufferPtr = LastEnd
  /\ pc # "returned" =>
       /\ ~IsAtStartOfLine
       /\ ("StartOfLine" \in flags <=> toks = << >> \/ LineEndSeen) \/ LineEndAhead

LineInv == LineEndsNoticed /\ CommentsBehind /\ WantedInLine /\ SemiStillDue /\ StartsNoticed

(* LineEndsNoticed, token by token.                                        *)
SemiAfter(i) ==
  toks[i].kind \in SemiKinds /\ EndsLine(i) => Inserted(toks[i + 1]) \/ BlankAfterComment(i)
SemiPlace(i) ==
  Inserted(toks[i + 1]) =>
    \E p \in toks[i].end .. toks[i + 1].end : p = BufferEnd \/ Char(p) \in NewLine
Started(i) ==
  toks[i].kind # "eof" =>
    ("StartOfLine" \in toks[i].flags <=>
       i = 1 \/ \E p \in Gap(i - 1) : Char(p) \in NewLine /\ ~InComment(p))

LEMMA NoticedByToken ==
  LineEndsNoticed <=> /\ \A i \in Neighbours : SemiAfter(i) /\ SemiPlace(i)
                      /\ \A i \in DOMAIN toks : Started(i)
BY DEF LineEndsNoticed, SemiAfter, SemiPlace, Started

(* What a move does to comments.                                           *)
LEMMA MoveComments ==
  ASSUME TypeOK, NEW b \in 1 .. BufferEnd, NEW fl, Move(b, fl), BufferPtr <= b
  PROVE  /\ BufferPtr' \in b .. BufferEnd
         /\ UNCHANGED comments \/ \E e \in b .. BufferPtr' : handleComment(b, e)
         /\ \A d \in DOMAIN diags' : diags'[d][1] = "unterminated_block_comment" =>
              \/ d \in DOMAIN diags /\ diags'[d] = diags[d]
              \/ diags'[d][2] = b /\ BufferPtr' = BufferEnd
         /\ Longer(diags, diags')
<1>0. /\ BufferPtr \in Nat /\ BufferEnd \in Nat /\ b \in Nat
      /\ input \in Seq(Elements) /\ b \in b .. BufferEnd
  BY DEF TypeOK, BufferEnd
<1>1. ASSUME Quiet
      PROVE  /\ Longer(diags, diags')
             /\ \A d \in DOMAIN diags' : diags'[d][1] = "unterminated_block_comment" =>
                  d \in DOMAIN diags /\ diags'[d] = diags[d]
  BY <1>1, QuietDiags DEF Longer
<1>2. CASE FormsToken(b, fl)
  <2>1. UNCHANGED comments /\ Quiet /\ BufferPtr' \in b .. BufferEnd
    BY <1>2 DEF FormsToken, FormToken
  <2> QED
    BY <1>1, <2>1
<1>3. CASE InsertsSemi(b, fl)
  <2>1. PICK end \in b .. BufferEnd :
          /\ BufferPtr' = end /\ Quiet
          /\ UNCHANGED comments \/ \E e \in b .. end : handleComment(b, e)
    BY <1>3 DEF InsertsSemi, InsertSemi, FormToken
  <2> QED
    BY <1>1, <2>1
<1>4. CASE PassesOver(b, fl)
  <2>1. PICK e \in b .. BufferEnd : \E end \in e .. BufferEnd :
          BufferPtr' = end /\ (UNCHANGED comments \/ handleComment(b, e)) /\ Quiet
    BY <1>4 DEF PassesOver, GoTo
  <2>2. BufferPtr' \in b .. BufferEnd /\ e \in b .. BufferPtr'
    BY <1>0, <2>1
  <2> QED
    BY <1>1, <2>1, <2>2
<1>5. CASE SwallowsSemi(b, fl)
  <2>1. PICK e \in b + 1 .. BufferEnd : \E end \in e .. BufferEnd :
          BufferPtr' = end /\ handleComment(b, e) /\ UNCHANGED diags
    BY <1>5 DEF SwallowsSemi
  <2>2. BufferPtr' \in b .. BufferEnd /\ e \in b .. BufferPtr' /\ Quiet
    BY <1>0, <2>1 DEF Quiet
  <2> QED
    BY <1>1, <2>1, <2>2
<1>6. CASE RunsOff(b, fl)
  <2>1. BufferPtr' = BufferEnd /\ UNCHANGED comments
        /\ Diag("unterminated_block_comment", b) /\ "unterminated_block_comment" \in Diagnostics
    BY <1>6 DEF RunsOff, GoTo, Diagnostics
  <2>2. /\ Longer(diags, diags')
        /\ Len(diags) \in Nat /\ DOMAIN diags = 1 .. Len(diags)
        /\ DOMAIN diags' = 1 .. Len(diags) + 1
        /\ diags'[Len(diags) + 1] = <<"unterminated_block_comment", b>>
    BY <1>0, <2>1, OneDiag
  <2>3. \A d \in DOMAIN diags' : d \in DOMAIN diags \/ d = Len(diags) + 1
    BY <2>2
  <2>4. BufferEnd \in b .. BufferEnd
    BY <1>0
  <2>5. \A d \in DOMAIN diags' : (d \in DOMAIN diags /\ diags'[d] = diags[d]) \/ diags'[d][2] = b
    BY <2>2, <2>3 DEF Longer
  <2> QED
    BY <2>1, <2>2, <2>4, <2>5
<1>7. CASE OpensConflict(b, fl)
  <2> DEFINE end == SkipTo(b, NewLine)
  <2>1. BufferPtr' = end /\ UNCHANGED comments
        /\ Diag("conflict_marker", b) /\ "conflict_marker" \in Diagnostics
    BY <1>7 DEF OpensConflict, GoTo, Diagnostics
  <2>2. end \in b .. BufferEnd
    BY <1>0, SkipToRange
  <2> HIDE DEF end
  <2>3. /\ Longer(diags, diags')
        /\ Len(diags) \in Nat /\ DOMAIN diags = 1 .. Len(diags)
        /\ DOMAIN diags' = 1 .. Len(diags) + 1
        /\ diags'[Len(diags) + 1] = <<"conflict_marker", b>>
    BY <1>0, <2>1, OneDiag
  <2>4. \A d \in DOMAIN diags' : d \in DOMAIN diags \/ d = Len(diags) + 1
    BY <2>3
  <2>5. \A d \in DOMAIN diags' :
          (d \in DOMAIN diags /\ diags'[d] = diags[d]) \/ diags'[d][1] = "conflict_marker"
    BY <2>3, <2>4 DEF Longer
  <2> QED
    BY <2>1, <2>2, <2>3, <2>5
<1>8. CASE ClosesConflict(b, fl)
  <2> DEFINE c == Min(ConflictEnds(b + 1, CurrentConflictMarkerState))
             end == ConflictLineEnd(b)
  <2>1. BufferPtr' = end /\ UNCHANGED <<comments, diags>> /\ EndsConflict(b)
    BY <1>8 DEF ClosesConflict, GoTo
  <2>2. c \in b + 1 .. Len(input)
    BY <1>0, <2>1, CloseIsLeast DEF EndsConflict
  <2>3. end = SkipTo(c, NewLine)
    BY DEF ConflictLineEnd
  <2> HIDE DEF c, end
  <2>4. c \in 1 .. BufferEnd /\ c \in Nat /\ b <= c
    BY <1>0, <2>2 DEF BufferEnd
  <2>5. end \in c .. BufferEnd
    BY <1>0, <2>3, <2>4, SkipToRange
  <2>6. end \in b .. BufferEnd
    BY <1>0, <2>4, <2>5
  <2>7. Quiet
    BY <2>1 DEF Quiet
  <2> QED
    BY <1>1, <2>1, <2>6, <2>7
<1> QED
  BY <1>2, <1>3, <1>4, <1>5, <1>6, <1>7, <1>8 DEF Move

LEMMA CommentFields ==
  ASSUME TypeOK
  PROVE  \A c \in DOMAIN comments : comments[c].beg \in Nat /\ comments[c].end \in Nat
<1> DEFINE S == [beg : Nat, end : Nat]
<1>1. comments \in Seq(S)
  BY DEF TypeOK
<1> HIDE DEF S
<1>2. \A c \in DOMAIN comments : comments[c] \in S
  BY <1>1
<1> QED
  BY <1>2 DEF S

(* Where the lexer has been, comments are settled.                         *)
LEMMA CommentsSettle ==
  ASSUME TypeOK, CommentsBehind, input' = input, NEW b \in 1 .. BufferEnd, BufferPtr <= b,
         NEW fl, Move(b, fl)
  PROVE  /\ CommentsBehind'
         /\ Longer(comments, comments')
         /\ \A p \in Nat : p < BufferPtr => (InComment(p)' <=> InComment(p))
<1>0. /\ BufferPtr \in Nat /\ BufferEnd \in Nat /\ b \in Nat /\ BufferEnd' = BufferEnd
  BY DEF TypeOK, BufferEnd
<1>1. /\ BufferPtr' \in b .. BufferEnd
      /\ UNCHANGED comments \/ \E e \in b .. BufferPtr' : handleComment(b, e)
      /\ \A d \in DOMAIN diags' : diags'[d][1] = "unterminated_block_comment" =>
           \/ d \in DOMAIN diags /\ diags'[d] = diags[d]
           \/ diags'[d][2] = b /\ BufferPtr' = BufferEnd
      /\ Longer(diags, diags')
  BY MoveComments
<1>2. BufferPtr' \in Nat /\ BufferPtr <= BufferPtr'
  BY <1>0, <1>1
<1>3. /\ Longer(comments, comments')
      /\ \A c \in DOMAIN comments' :
           \/ c \in DOMAIN comments /\ comments'[c] = comments[c]
           \/ comments'[c].beg = b /\ comments'[c].end <= BufferPtr'
  <2>1. CASE UNCHANGED comments
    BY <2>1, SameLonger
  <2>2. ASSUME NEW e \in b .. BufferPtr', handleComment(b, e)
        PROVE  /\ Longer(comments, comments')
               /\ \A c \in DOMAIN comments' :
                    \/ c \in DOMAIN comments /\ comments'[c] = comments[c]
                    \/ comments'[c].beg = b /\ comments'[c].end <= BufferPtr'
    <3>1. e \in Nat /\ e <= BufferPtr'
      BY <1>0, <1>2
    <3>2. /\ Longer(comments, comments')
          /\ Len(comments) \in Nat /\ DOMAIN comments = 1 .. Len(comments)
          /\ DOMAIN comments' = 1 .. Len(comments) + 1
          /\ comments'[Len(comments) + 1] = [beg |-> b, end |-> e]
      BY <1>0, <2>2, <3>1, OneComment
    <3>3. \A c \in DOMAIN comments' : c \in DOMAIN comments \/ c = Len(comments) + 1
      BY <3>2
    <3> QED
      BY <3>1, <3>2, <3>3 DEF Longer
  <2> QED
    BY <1>1, <2>1, <2>2
<1>4. CommentsBehind'
  <2>1. ASSUME NEW c \in DOMAIN comments' PROVE comments'[c].end <= BufferPtr'
    <3>1. CASE c \in DOMAIN comments /\ comments'[c] = comments[c]
      <4>1. comments[c].end <= BufferPtr /\ comments[c].end \in Nat
        BY <3>1, CommentFields DEF CommentsBehind
      <4> QED
        BY <1>0, <1>2, <3>1, <4>1
    <3> QED
      BY <1>3, <3>1
  <2>2. ASSUME NEW d \in DOMAIN diags', diags'[d][1] = "unterminated_block_comment",
               diags'[d][2] <= BufferEnd
        PROVE  BufferPtr' = BufferEnd
    <3>1. CASE d \in DOMAIN diags /\ diags'[d] = diags[d]
      <4>1. BufferPtr = BufferEnd
        BY <2>2, <3>1 DEF CommentsBehind, DiagBefore
      <4> QED
        BY <1>0, <1>1, <1>2, <4>1
    <3> QED
      BY <1>1, <2>2, <3>1
  <2> QED
    BY <1>0, <2>1, <2>2 DEF CommentsBehind, DiagBefore
<1>5. ASSUME NEW p \in Nat, p < BufferPtr
      PROVE  InComment(p)' <=> InComment(p)
  <2>1. (\E c \in DOMAIN comments' : p \in comments'[c].beg .. comments'[c].end - 1)
          <=> (\E c \in DOMAIN comments : p \in comments[c].beg .. comments[c].end - 1)
    <3>1. ASSUME NEW c \in DOMAIN comments', p \in comments'[c].beg .. comments'[c].end - 1
          PROVE  c \in DOMAIN comments /\ comments'[c] = comments[c]
      <4>1. comments'[c].beg # b
        BY <1>0, <1>5, <3>1
      <4> QED
        BY <1>3, <4>1
    <3> QED
      BY <1>3, <3>1 DEF Longer
  <2>2. DiagBefore(p, "unterminated_block_comment")' <=> DiagBefore(p, "unterminated_block_comment")
    <3>1. ASSUME NEW d \in DOMAIN diags', diags'[d][1] = "unterminated_block_comment",
                 diags'[d][2] <= p
          PROVE  d \in DOMAIN diags /\ diags'[d] = diags[d]
      <4>1. diags'[d][2] # b
        BY <1>0, <1>5, <3>1
      <4> QED
        BY <1>1, <3>1, <4>1
    <3> QED
      BY <1>1, <3>1 DEF DiagBefore, Longer
  <2> QED
    BY <2>1, <2>2 DEF InComment
<1> QED
  BY <1>3, <1>4, <1>5

(* After the comment a move passes over there is none.                     *)
LEMMA WhiteIsUncommented ==
  ASSUME TypeOK, CommentsBehind, input' = input, NEW b \in 1 .. BufferEnd, BufferPtr <= b,
         NEW e \in b .. BufferEnd, IF e = b THEN UNCHANGED comments ELSE handleComment(b, e),
         Quiet
  PROVE  /\ \A p \in e .. BufferEnd - 1 : ~InComment(p)'
         /\ \A p \in b .. e - 1 : InComment(p)'
<1>0. BufferPtr \in Nat /\ BufferEnd \in Nat /\ b \in Nat /\ e \in Nat /\ BufferPtr <= e
  BY DEF TypeOK, BufferEnd
<1>1. /\ Longer(diags, diags')
      /\ \A d \in DOMAIN diags' : diags'[d][1] = "unterminated_block_comment" =>
           d \in DOMAIN diags /\ diags'[d] = diags[d]
  BY QuietDiags DEF Longer
<1>2. /\ \A c \in DOMAIN comments' :
           (c \in DOMAIN comments /\ comments'[c] = comments[c]) \/ comments'[c].end = e
      /\ e # b => \E c \in DOMAIN comments' : comments'[c] = [beg |-> b, end |-> e]
  <2>1. CASE e = b
    BY <2>1
  <2>2. CASE e # b
    <3>1. /\ Longer(comments, comments')
          /\ Len(comments) \in Nat /\ DOMAIN comments = 1 .. Len(comments)
          /\ DOMAIN comments' = 1 .. Len(comments) + 1
          /\ comments'[Len(comments) + 1] = [beg |-> b, end |-> e]
      BY <1>0, <2>2, OneComment
    <3>2. \A c \in DOMAIN comments' : c \in DOMAIN comments \/ c = Len(comments) + 1
      BY <3>1
    <3>3. Len(comments) + 1 \in DOMAIN comments'
      BY <3>1
    <3> QED
      BY <3>1, <3>2, <3>3 DEF Longer
  <2> QED
    BY <2>1, <2>2
<1>3. ASSUME NEW p \in e .. BufferEnd - 1, InComment(p)'
      PROVE  FALSE
  <2>1. CASE \E c \in DOMAIN comments' : p \in comments'[c].beg .. comments'[c].end - 1
    <3>1. PICK c \in DOMAIN comments' : p \in comments'[c].beg .. comments'[c].end - 1
      BY <2>1
    <3>2. comments'[c].end <= e /\ comments'[c].end \in Nat
      BY <1>0, <1>2, CommentFields DEF CommentsBehind
    <3> QED
      BY <1>0, <1>3, <3>1, <3>2
  <2>2. CASE DiagBefore(p, "unterminated_block_comment")'
    <3>1. PICK d \in DOMAIN diags' : diags'[d][1] = "unterminated_block_comment" /\ diags'[d][2] <= p
      BY <2>2 DEF DiagBefore
    <3>2. d \in DOMAIN diags /\ diags'[d] = diags[d] /\ diags[d][2] \in Nat
      BY <1>1, <3>1, DiagFields
    <3>3. diags[d][2] <= BufferEnd
      BY <1>0, <1>3, <3>1, <3>2
    <3>4. BufferPtr = BufferEnd
      BY <3>1, <3>2, <3>3 DEF CommentsBehind, DiagBefore
    <3> QED
      BY <1>0, <1>3, <3>4
  <2> QED
    BY <1>3, <2>1, <2>2 DEF InComment
<1>4. ASSUME NEW p \in b .. e - 1 PROVE InComment(p)'
  <2>1. e # b
    BY <1>0
  <2>2. PICK c \in DOMAIN comments' : comments'[c] = [beg |-> b, end |-> e]
    BY <1>2, <2>1
  <2>3. p \in comments'[c].beg .. comments'[c].end - 1
    BY <2>2
  <2> QED
    BY <2>3 DEF InComment
<1> QED
  BY <1>3, <1>4

(* Where the lexer is in a step, and what the other invariants say of it.  *)
AtMove(b, fl) ==
  /\ TypeOK /\ TextInv /\ TokensBehind /\ LineInv
  /\ pc \in Labels /\ UNCHANGED <<input, IsAtStartOfLine>>
  /\ b \in 1 .. BufferEnd /\ StartsAt(b, fl) /\ Move(b, fl)

LEMMA MoveFacts ==
  ASSUME NEW b, NEW fl, AtMove(b, fl)
  PROVE  /\ BufferPtr \in 1 .. BufferEnd /\ BufferPtr \in Nat /\ BufferEnd \in Nat /\ b \in Nat
         /\ b \in BufferPtr .. BufferEnd /\ b \in 1 .. BufferEnd /\ BufferPtr <= b
         /\ \A q \in BufferPtr .. b - 1 : Char(q) \in Blank /\ Char(q) \notin NewLine /\ Char(q) # "nl"
         /\ Char(BufferPtr) \in NewLine => b = BufferPtr
         /\ BufferPtr = BufferEnd => b = BufferEnd
         /\ BufferEnd' = BufferEnd /\ input' = input /\ \A q : Char(q)' = Char(q)
         /\ LastEnd \in Nat /\ LastEnd <= BufferPtr
         /\ toks # << >> => LastEnd = toks[Len(toks)].end
         /\ SameStart(fl, flags)
<1>1. /\ BufferPtr \in 1 .. BufferEnd /\ BufferEnd \in Nat
      /\ b \in BufferPtr .. BufferEnd /\ \A q \in BufferPtr .. b - 1 : Char(q) \in Blank
      /\ input' = input /\ SameStart(fl, flags) /\ b \in 1 .. BufferEnd
  BY DEF AtMove, TypeOK, BufferEnd, StartsAt
<1>2. \A q \in BufferPtr .. b - 1 : Char(q) \notin NewLine /\ Char(q) # "nl"
  BY <1>1 DEF Blank, NewLine
<1>3. b # BufferPtr => BufferPtr \in BufferPtr .. b - 1
  BY <1>1
<1>4. LastEnd \in Nat /\ LastEnd <= BufferPtr /\ (toks # << >> => LastEnd = toks[Len(toks)].end)
  <2>1. CASE toks = << >>
    BY <1>1, <2>1 DEF LastEnd
  <2>2. CASE toks # << >>
    <3>1. toks \in Seq(Token)
      BY DEF AtMove, TypeOK
    <3>2. Len(toks) \in DOMAIN toks
      BY <2>2, <3>1
    <3>3. toks[Len(toks)].end \in Nat /\ toks[Len(toks)].end <= BufferPtr
      BY <2>2, <3>2, TokenFields DEF AtMove, TextInv, LastEndsBefore
    <3> QED
      BY <2>2, <3>3 DEF LastEnd
  <2> QED
    BY <2>1, <2>2
<1>5. BufferEnd' = BufferEnd /\ \A q : Char(q)' = Char(q)
  BY <1>1 DEF BufferEnd, Char
<1> QED
  BY <1>1, <1>2, <1>3, <1>4, <1>5

(* The tokens handed out before stay as they are judged.                   *)
LEMMA OldTokens ==
  ASSUME NEW b, NEW fl, AtMove(b, fl), Longer(toks, toks')
  PROVE  /\ \A i \in Neighbours : SemiAfter(i)' /\ SemiPlace(i)'
         /\ \A i \in DOMAIN toks : Started(i)'
<1>0. /\ BufferPtr \in Nat /\ BufferEnd \in Nat /\ BufferEnd' = BufferEnd
      /\ \A q : Char(q)' = Char(q)
  BY MoveFacts
<1>1. /\ Longer(comments, comments')
      /\ \A p \in Nat : p < BufferPtr => (InComment(p)' <=> InComment(p))
  BY MoveFacts, CommentsSettle DEF AtMove, LineInv
<1>2. /\ \A i \in Neighbours : SemiAfter(i) /\ SemiPlace(i)
      /\ \A i \in DOMAIN toks : Started(i)
  BY NoticedByToken DEF AtMove, LineInv
<1>3. \A i \in DOMAIN toks : toks'[i] = toks[i] /\ i \in DOMAIN toks' /\ toks[i].beg <= BufferPtr
        /\ toks[i].beg \in Nat /\ toks[i].end \in Nat /\ i \in Nat
  <2>1. \A i \in DOMAIN toks : i \in Nat
    <3>1. toks \in Seq(Token)
      BY DEF AtMove, TypeOK
    <3> QED
      BY <3>1
  <2> QED
    BY <2>1, TokenFields DEF Longer, AtMove, TokensBehind
<1>4. ASSUME NEW i \in Neighbours
      PROVE  SemiAfter(i)' /\ SemiPlace(i)'
  <2>1. i \in DOMAIN toks /\ i + 1 \in DOMAIN toks
    BY DEF Neighbours
  <2>2. Gap(i)' = Gap(i)
    BY <1>3, <2>1 DEF Gap
  <2>3. toks'[i] = toks[i] /\ toks'[i + 1] = toks[i + 1]
    BY <1>3, <2>1
  <2>4. BlankAfterComment(i) => BlankAfterComment(i)'
    BY <1>0, <1>1, <2>2 DEF BlankAfterComment, Longer
  <2>5. EndsLine(i)' => EndsLine(i)
    BY <1>0, <2>2, <2>3 DEF EndsLine
  <2>6. SemiAfter(i)'
    BY <1>2, <2>3, <2>4, <2>5 DEF SemiAfter, Inserted
  <2>7. SemiPlace(i)'
    BY <1>0, <1>2, <2>3 DEF SemiPlace, Inserted
  <2> QED
    BY <2>6, <2>7
<1>5. ASSUME NEW i \in DOMAIN toks
      PROVE  Started(i)'
  <2>1. toks'[i] = toks[i] /\ Started(i)
    BY <1>2, <1>3
  <2>2. CASE i = 1
    BY <2>1, <2>2 DEF Started
  <2>3. CASE i # 1
    <3>1. i - 1 \in DOMAIN toks /\ i - 1 + 1 = i
      <4>1. toks \in Seq(Token)
        BY DEF AtMove, TypeOK
      <4> QED
        BY <2>3, <4>1
    <3>2. Gap(i - 1)' = Gap(i - 1)
      BY <1>3, <3>1 DEF Gap
    <3>3. \A p \in Gap(i - 1) : p \in Nat /\ p < BufferPtr
      <4>1. toks[i - 1].end \in Nat /\ toks[i].beg \in Nat /\ toks[i].beg <= BufferPtr
            /\ Gap(i - 1) = toks[i - 1].end .. toks[i].beg - 1
        BY <1>3, <3>1 DEF Gap
      <4> QED
        BY <1>0, <4>1
    <3>4. (\E p \in Gap(i - 1) : Char(p) \in NewLine /\ ~InComment(p))'
            <=> \E p \in Gap(i - 1) : Char(p) \in NewLine /\ ~InComment(p)
      BY <1>0, <1>1, <3>2, <3>3
    <3> QED
      BY <2>1, <3>4 DEF Started
  <2> QED
    BY <2>2, <2>3
<1> QED
  BY <1>4, <1>5

(* A move that hands out a token.                                          *)
LEMMA TokenLine ==
  ASSUME NEW b, NEW fl, AtMove(b, fl), NEW kind \in TokenKinds, NEW end \in b .. BufferEnd,
         NEW f \in SUBSET TokenFlags, FormToken(kind, b, end, f),
         kind = "semi" => /\ WantsSemi /\ "InsertedSemi" \in f
                          /\ \E q \in b .. end : q = BufferEnd \/ Char(q) \in NewLine,
         kind = "eof" => ~WantsSemi,
         kind \notin {"semi", "eof"} => end > b /\ ~White(b),
         kind # "eof" => SameStart(f, fl),
         kind \in SemiKinds => Char(end - 1) \notin NewLine
  PROVE  LineEndsNoticed' /\ WantedInLine' /\ SemiStillDue' /\ StartsNoticed'
<1> DEFINE t == [kind |-> kind, beg |-> b, end |-> end, flags |-> f]
<1>a. PICK n \in Nat : n = Len(toks) + 1
  <2>1. toks \in Seq(Token)
    BY DEF AtMove, TypeOK
  <2> QED
    BY <2>1
<1>0. /\ BufferPtr \in Nat /\ BufferEnd \in Nat /\ b \in Nat
      /\ b \in BufferPtr .. BufferEnd /\ b \in 1 .. BufferEnd
      /\ \A q \in BufferPtr .. b - 1 : Char(q) \notin NewLine /\ Char(q) # "nl"
      /\ Char(BufferPtr) \in NewLine => b = BufferPtr
      /\ BufferPtr = BufferEnd => b = BufferEnd
      /\ BufferEnd' = BufferEnd /\ \A q : Char(q)' = Char(q)
      /\ LastEnd \in Nat /\ LastEnd <= BufferPtr /\ SameStart(fl, flags) /\ end \in Nat
  BY MoveFacts
<1>1. /\ Len(toks) \in Nat /\ DOMAIN toks = 1 .. Len(toks) /\ DOMAIN toks' = 1 .. n
      /\ Len(toks') = n /\ (\A i \in 1 .. Len(toks) : toks'[i] = toks[i]) /\ toks'[n] = t
      /\ Longer(toks, toks')
  BY <1>a, <1>0, OneToken DEF AtMove
<1>2. /\ t.kind = kind /\ t.beg = b /\ t.end = end /\ t.flags = f
      /\ LastTokenKind' = kind /\ BufferPtr' = end /\ pc' = "returned"
  BY DEF FormToken
<1> HIDE DEF t
<1>3. /\ \A i \in Neighbours : SemiAfter(i)' /\ SemiPlace(i)'
      /\ \A i \in DOMAIN toks : Started(i)'
  BY <1>1, OldTokens
<1>4. /\ Longer(comments, comments')
      /\ \A p \in Nat : p < BufferPtr => (InComment(p)' <=> InComment(p))
  BY MoveFacts, CommentsSettle DEF AtMove, LineInv
<1>5. toks = << >> <=> n = 1
  <2>1. toks \in Seq(Token)
    BY DEF AtMove, TypeOK
  <2> QED
    BY <1>a, <2>1
<1>6. toks # << >> =>
        /\ n - 1 \in DOMAIN toks /\ n - 1 + 1 = n /\ toks'[n - 1] = toks[Len(toks)]
        /\ Gap(n - 1)' = LastEnd .. b - 1
        /\ toks[Len(toks)].end = LastEnd
  <2>1. toks # << >> => n - 1 \in 1 .. Len(toks) /\ n - 1 + 1 = n /\ n - 1 = Len(toks)
    BY <1>a, <1>1, <1>5
  <2>2. toks # << >> => toks[Len(toks)].end = LastEnd
    BY MoveFacts
  <2> QED
    BY <1>1, <1>2, <2>1, <2>2 DEF Gap
<1>7. Started(n)'
  <2> SUFFICES ASSUME kind # "eof"
               PROVE  "StartOfLine" \in f <=>
                        n = 1 \/ (\E p \in Gap(n - 1) : Char(p) \in NewLine /\ ~InComment(p))'
    BY <1>1, <1>2 DEF Started
  <2>1. ~LineEndAhead
    <3>1. CASE kind = "semi"
      BY <3>1 DEF LineEndAhead
    <3>2. CASE kind # "semi"
      BY <1>0, <3>2 DEF LineEndAhead, White
    <3> QED
      BY <3>1, <3>2
  <2>2. "StartOfLine" \in f <=> toks = << >> \/ LineEndSeen
    BY <1>0, <2>1 DEF AtMove, LineInv, StartsNoticed, Labels, SameStart
  <2>3. toks # << >> => ((\E p \in Gap(n - 1) : Char(p) \in NewLine /\ ~InComment(p))' <=> LineEndSeen)
    <3>1. \A p \in LastEnd .. b - 1 : p \in LastEnd .. BufferPtr - 1 \/ p \in BufferPtr .. b - 1
      BY <1>0
    <3>2. \A p \in LastEnd .. BufferPtr - 1 : p \in LastEnd .. b - 1 /\ p \in Nat /\ p < BufferPtr
      BY <1>0
    <3>3. (\E p \in LastEnd .. b - 1 : Char(p) \in NewLine /\ ~InComment(p)') <=> LineEndSeen
      BY <1>0, <1>4, <3>1, <3>2 DEF LineEndSeen
    <3> QED
      BY <1>0, <1>6, <3>3
  <2> QED
    BY <1>5, <2>2, <2>3
<1>8. ASSUME toks # << >>, toks[Len(toks)].kind \in SemiKinds, ~Inserted(t),
             kind = "eof" \/ \E p \in LastEnd .. b - 1 : Char(p) = "nl"
      PROVE  SemiForgotten
  <2>1. kind # "semi"
    BY <1>2, <1>8 DEF Inserted
  <2>2. CASE LastTokenKind = toks[Len(toks)].kind /\ NoLineEndYet
    <3>1. kind # "eof"
      BY <1>8, <2>2 DEF WantsSemi
    <3>2. BufferPtr # BufferEnd
      BY <1>0, <2>1, <3>1
    <3>3. PICK p \in LastEnd .. b - 1 : Char(p) = "nl"
      BY <1>8, <3>1
    <3>4. p \in LastEnd .. BufferPtr - 1 \/ p \in BufferPtr .. b - 1
      BY <1>0
    <3> QED
      BY <1>0, <2>2, <3>2, <3>3, <3>4 DEF NoLineEndYet
  <2> QED
    BY <1>8, <2>2 DEF AtMove, LineInv, SemiStillDue
<1>9. toks # << >> => SemiAfter(n - 1)'
  <2> SUFFICES ASSUME toks # << >>, toks[Len(toks)].kind \in SemiKinds, ~Inserted(t),
                      EndsLine(n - 1)'
               PROVE  BlankAfterComment(n - 1)'
    BY <1>1, <1>6 DEF SemiAfter, Inserted
  <2>1. kind = "eof" \/ \E p \in LastEnd .. b - 1 : Char(p) = "nl"
    BY <1>0, <1>1, <1>2, <1>6 DEF EndsLine
  <2>2. PICK c \in DOMAIN comments :
          /\ comments[c].beg \in LastEnd .. BufferPtr - 1
          /\ Char(comments[c].beg + 1) = "*" /\ Char(comments[c].end) \in Blank
    BY <1>8, <2>1 DEF SemiForgotten
  <2>3. comments[c].beg \in LastEnd .. b - 1
    BY <1>0, <2>2
  <2> QED
    BY <1>0, <1>4, <1>6, <2>2, <2>3 DEF BlankAfterComment, Longer
<1>10. toks # << >> => SemiPlace(n - 1)'
  <2> SUFFICES ASSUME toks # << >>, kind = "semi"
               PROVE  \E p \in LastEnd .. end : p = BufferEnd \/ Char(p) \in NewLine
    BY <1>0, <1>1, <1>2, <1>6 DEF SemiPlace, Inserted
  <2>1. PICK q \in b .. end : q = BufferEnd \/ Char(q) \in NewLine
    OBVIOUS
  <2>2. q \in LastEnd .. end
    BY <1>0
  <2> QED
    BY <2>1, <2>2
<1>11. LineEndsNoticed'
  <2>1. ASSUME NEW i \in Neighbours' PROVE SemiAfter(i)' /\ SemiPlace(i)'
    <3>1. i \in 1 .. n /\ i + 1 \in 1 .. n
      BY <1>1 DEF Neighbours
    <3>2. CASE i + 1 \in DOMAIN toks
      <4>1. i \in Neighbours
        BY <1>1, <3>1, <3>2 DEF Neighbours
      <4> QED
        BY <1>3, <4>1
    <3>3. CASE i + 1 \notin DOMAIN toks
      <4>1. i = n - 1 /\ n # 1
        <5>1. DOMAIN toks = 1 .. n - 1
          BY <1>a, <1>1
        <5>2. i + 1 \notin 1 .. n - 1
          BY <3>3, <5>1
        <5> QED
          BY <1>a, <3>1, <5>2
      <4> QED
        BY <1>5, <1>9, <1>10, <4>1
    <3> QED
      BY <3>2, <3>3
  <2>2. ASSUME NEW i \in DOMAIN toks' PROVE Started(i)'
    <3>1. i \in DOMAIN toks \/ i = n
      BY <1>a, <1>1
    <3> QED
      BY <1>3, <1>7, <3>1
  <2>3. (LineEndsNoticed <=> /\ \A i \in Neighbours : SemiAfter(i) /\ SemiPlace(i)
                             /\ \A i \in DOMAIN toks : Started(i))'
    BY NoticedByToken, PTL
  <2> QED
    BY <2>1, <2>2, <2>3
<1>12. toks' # << >> /\ toks'[Len(toks')] = t /\ LastEnd' = end
  <2>1. n # 0 /\ Len(toks') = n
    BY <1>a, <1>1
  <2>2. toks' # << >>
    BY <2>1
  <2> QED
    BY <1>1, <1>2, <2>2 DEF LastEnd
<1>13. WantedInLine'
  <2>1. kind \in SemiKinds => end > 1 /\ Char(end - 1) \notin NewLine
    <3>1. kind \in SemiKinds => kind \notin {"semi", "eof"}
      BY DEF SemiKinds
    <3> QED
      BY <1>0, <3>1
  <2> QED
    BY <1>0, <1>2, <2>1 DEF WantedInLine, WantsSemi
<1>14. SemiStillDue'
  <2>1. LastEnd' .. BufferPtr' - 1 = {}
    BY <1>0, <1>2, <1>12
  <2> QED
    BY <1>2, <1>12, <2>1 DEF SemiStillDue, NoLineEndYet
<1>15. StartsNoticed'
  <2>1. ~IsAtStartOfLine'
    BY DEF AtMove, LineInv, StartsNoticed, Labels
  <2> QED
    BY <1>2, <1>12, <2>1 DEF StartsNoticed
<1> QED
  BY <1>11, <1>13, <1>14, <1>15

(* A move that hands out none.                                             *)
LEMMA NoTokenLine ==
  ASSUME NEW b, NEW fl, AtMove(b, fl), UNCHANGED toks
  PROVE  /\ LineEndsNoticed'
         /\ BufferPtr' \in b .. BufferEnd /\ LastEnd' = LastEnd
         /\ LineEndSeen' <=> \/ LineEndSeen
                             \/ \E q \in b .. BufferPtr' - 1 : Char(q) \in NewLine /\ ~InComment(q)'
         /\ SemiForgotten => SemiForgotten'
         /\ NoLineEndYet /\ (\A q \in b .. BufferPtr' - 1 : Char(q) # "nl") => NoLineEndYet'
<1>0. /\ BufferPtr \in Nat /\ BufferEnd \in Nat /\ b \in Nat /\ BufferPtr <= b
      /\ b \in BufferPtr .. BufferEnd /\ b \in 1 .. BufferEnd
      /\ \A q \in BufferPtr .. b - 1 : Char(q) \notin NewLine /\ Char(q) # "nl"
      /\ BufferPtr = BufferEnd => b = BufferEnd
      /\ BufferEnd' = BufferEnd /\ \A q : Char(q)' = Char(q)
      /\ LastEnd \in Nat /\ LastEnd <= BufferPtr
  BY MoveFacts
<1>1. /\ \A i \in Neighbours : SemiAfter(i)' /\ SemiPlace(i)'
      /\ \A i \in DOMAIN toks : Started(i)'
  BY OldTokens, SameLonger
<1>2. /\ Longer(comments, comments')
      /\ \A p \in Nat : p < BufferPtr => (InComment(p)' <=> InComment(p))
  BY MoveFacts, CommentsSettle DEF AtMove, LineInv
<1>3. BufferPtr' \in b .. BufferEnd
  BY <1>0, MoveComments DEF AtMove
<1>4. LineEndsNoticed'
  <2>1. (LineEndsNoticed <=> /\ \A i \in Neighbours : SemiAfter(i) /\ SemiPlace(i)
                             /\ \A i \in DOMAIN toks : Started(i))'
    BY NoticedByToken, PTL
  <2>2. Neighbours' = Neighbours
    BY DEF Neighbours
  <2> QED
    BY <1>1, <2>1, <2>2
<1>5. LastEnd' = LastEnd
  BY DEF LastEnd
<1>6. PICK L \in Nat : L = LastEnd
  BY <1>0
<1>7. PICK z \in b .. BufferEnd : z = BufferPtr'
  BY <1>3
<1>8. /\ \A p \in L .. z - 1 :
           p \in L .. BufferPtr - 1 \/ p \in BufferPtr .. b - 1 \/ p \in b .. z - 1
      /\ \A p \in L .. BufferPtr - 1 : p \in L .. z - 1 /\ p \in Nat /\ p < BufferPtr
      /\ \A p \in b .. z - 1 : p \in L .. z - 1
  <2>1. z \in Nat /\ L \in Nat /\ L <= BufferPtr /\ BufferPtr <= b /\ b <= z
    BY <1>0, <1>6, <1>7
  <2> QED
    BY <1>0, <2>1
<1>9. LineEndSeen' <=> \/ LineEndSeen
                       \/ \E q \in b .. z - 1 : Char(q) \in NewLine /\ ~InComment(q)'
  BY <1>0, <1>2, <1>5, <1>6, <1>7, <1>8 DEF LineEndSeen
<1>10. SemiForgotten => SemiForgotten'
  BY <1>0, <1>2, <1>5, <1>6, <1>7, <1>8 DEF SemiForgotten, Longer
<1>11. NoLineEndYet /\ (\A q \in b .. z - 1 : Char(q) # "nl") => NoLineEndYet'
  <2>1. CASE BufferPtr = BufferEnd
    <3>1. z = BufferEnd
      BY <1>0, <1>7, <2>1
    <3> QED
      BY <1>0, <1>7, <3>1 DEF NoLineEndYet
  <2>2. CASE BufferPtr # BufferEnd
    BY <1>0, <1>5, <1>6, <1>7, <1>8, <2>2 DEF NoLineEndYet
  <2> QED
    BY <2>1, <2>2
<1> QED
  BY <1>3, <1>4, <1>5, <1>7, <1>9, <1>10, <1>11

LEMMA PassesOverLine ==
  ASSUME NEW b, NEW fl, AtMove(b, fl), PassesOver(b, fl)
  PROVE  LineEndsNoticed' /\ WantedInLine' /\ SemiStillDue' /\ StartsNoticed'
<1>0. /\ BufferPtr \in Nat /\ BufferEnd \in Nat /\ b \in Nat /\ BufferPtr <= b
      /\ b \in 1 .. BufferEnd
      /\ \A q \in BufferPtr .. b - 1 : Char(q) \notin NewLine
      /\ Char(BufferPtr) \in NewLine => b = BufferPtr
      /\ BufferPtr = BufferEnd => b = BufferEnd
      /\ BufferEnd' = BufferEnd /\ \A q : Char(q)' = Char(q)
      /\ SameStart(fl, flags) /\ input' = input
  BY MoveFacts
<1>a. PICK e \in b .. BufferEnd :
        \E end \in e .. BufferEnd, f \in SUBSET TokenFlags, label \in Labels :
          /\ GoTo(label, end, f)
          /\ IF e = b THEN UNCHANGED comments
                      ELSE handleComment(b, e) /\ Char(b) = "/" /\ Char(e - 1) \notin NewLine
          /\ "StartOfLine" \in f <=> "StartOfLine" \in fl \/ HasLineEnd(e, end)
          /\ WantsSemi => ~HasLineEnd(e, end) /\ \A q \in b .. e - 1 : Char(q) # "nl"
          /\ Quiet
  BY DEF PassesOver
<1>1. PICK end \in e .. BufferEnd, f \in SUBSET TokenFlags, label \in Labels :
        /\ GoTo(label, end, f)
        /\ IF e = b THEN UNCHANGED comments
                    ELSE handleComment(b, e) /\ Char(b) = "/" /\ Char(e - 1) \notin NewLine
        /\ "StartOfLine" \in f <=> "StartOfLine" \in fl \/ HasLineEnd(e, end)
        /\ WantsSemi => ~HasLineEnd(e, end) /\ \A q \in b .. e - 1 : Char(q) # "nl"
        /\ Quiet
  BY <1>a
<1>2. /\ UNCHANGED <<toks, LastTokenKind>> /\ BufferPtr' = end /\ flags' = f /\ pc' # "returned"
      /\ WantsSemi' <=> WantsSemi
  BY <1>1 DEF GoTo, WantsSemi, Labels
<1>3. e \in Nat /\ end \in Nat /\ end \in b .. BufferEnd /\ b <= e /\ e <= end
  BY <1>0
<1>4. /\ LineEndsNoticed' /\ LastEnd' = LastEnd
      /\ LineEndSeen' <=> \/ LineEndSeen
                          \/ \E q \in b .. end - 1 : Char(q) \in NewLine /\ ~InComment(q)'
      /\ SemiForgotten => SemiForgotten'
      /\ NoLineEndYet /\ (\A q \in b .. end - 1 : Char(q) # "nl") => NoLineEndYet'
  BY <1>2, NoTokenLine
<1>5. /\ \A p \in e .. BufferEnd - 1 : ~InComment(p)'
      /\ \A p \in b .. e - 1 : InComment(p)'
  BY <1>0, <1>1, WhiteIsUncommented DEF AtMove, LineInv
<1>6. HasLineEnd(e, end) <=> \E q \in b .. end - 1 : Char(q) \in NewLine /\ ~InComment(q)'
  <2>1. /\ \A q \in b .. end - 1 : q \in b .. e - 1 \/ q \in e .. end - 1
        /\ \A q \in e .. end - 1 : q \in b .. end - 1 /\ q \in e .. BufferEnd - 1
    BY <1>0, <1>3
  <2> QED
    BY <1>5, <2>1 DEF HasLineEnd
<1>7. WantedInLine'
  <2> SUFFICES ASSUME WantsSemi PROVE end > 1 /\ (end = BufferEnd \/ Char(end - 1) \notin NewLine)
    BY <1>0, <1>2 DEF WantedInLine
  <2>1. BufferPtr > 1 /\ (BufferPtr = BufferEnd \/ Char(BufferPtr - 1) \notin NewLine)
    BY DEF AtMove, LineInv, WantedInLine
  <2>2. end > 1
    BY <1>0, <1>3, <2>1
  <2>3. CASE end # e
    <3>1. end - 1 \in e .. end - 1
      BY <1>3, <2>3
    <3> QED
      BY <1>1, <2>2, <3>1 DEF HasLineEnd
  <2>4. CASE end = e /\ e # b
    BY <1>1, <2>2, <2>4
  <2>5. CASE end = b /\ b # BufferPtr
    <3>1. end - 1 \in BufferPtr .. b - 1
      BY <1>0, <2>5
    <3> QED
      BY <1>0, <2>2, <3>1
  <2>6. CASE end = b /\ b = BufferPtr
    BY <2>1, <2>6
  <2> QED
    BY <2>3, <2>4, <2>5, <2>6
<1>8. SemiStillDue'
  <2> SUFFICES ASSUME toks # << >>, toks[Len(toks)].kind \in SemiKinds
               PROVE  \/ LastTokenKind = toks[Len(toks)].kind /\ NoLineEndYet'
                      \/ LastTokenKind = "semi" /\ SemiForgotten'
    BY <1>2 DEF SemiStillDue
  <2>1. CASE LastTokenKind = toks[Len(toks)].kind /\ NoLineEndYet
    <3>1. ~HasLineEnd(e, end) /\ \A q \in b .. e - 1 : Char(q) # "nl"
      BY <1>1, <2>1 DEF WantsSemi
    <3>2. \A q \in b .. end - 1 : q \in b .. e - 1 \/ q \in e .. end - 1
      BY <1>0, <1>3
    <3>3. \A q \in b .. end - 1 : Char(q) # "nl"
      BY <3>1, <3>2 DEF HasLineEnd, NewLine
    <3> QED
      BY <1>4, <2>1, <3>3
  <2>2. CASE LastTokenKind = "semi" /\ SemiForgotten
    BY <1>4, <2>2
  <2> QED
    BY <2>1, <2>2 DEF AtMove, LineInv, SemiStillDue
<1>9. StartsNoticed'
  <2> SUFFICES ("StartOfLine" \in f <=> toks = << >> \/ LineEndSeen') \/ LineEndAhead'
    BY <1>2 DEF StartsNoticed, AtMove, LineInv, Labels
  <2>1. CASE "StartOfLine" \in flags <=> toks = << >> \/ LineEndSeen
    BY <1>0, <1>1, <1>4, <1>6, <2>1 DEF SameStart
  <2>2. CASE LineEndAhead
    <3>1. CASE BufferPtr = BufferEnd
      <4>1. end = BufferEnd
        BY <1>0, <1>3, <3>1
      <4> QED
        BY <1>0, <1>2, <2>2, <4>1 DEF LineEndAhead
    <3>2. CASE Char(BufferPtr) \in NewLine /\ end = b
      BY <1>0, <1>2, <2>2, <3>2 DEF LineEndAhead
    <3>3. CASE Char(BufferPtr) \in NewLine /\ end # b
      <4>1. b = BufferPtr /\ Char(b) \in NewLine
        BY <1>0, <3>3
      <4>2. e = b
        BY <1>1, <4>1 DEF NewLine
      <4>3. b \in e .. end - 1
        BY <1>3, <3>3, <4>2
      <4>4. HasLineEnd(e, end)
        BY <4>1, <4>3 DEF HasLineEnd
      <4> QED
        BY <1>1, <1>4, <1>6, <4>4
    <3> QED
      BY <2>2, <3>1, <3>2, <3>3 DEF LineEndAhead
  <2> QED
    BY <2>1, <2>2 DEF AtMove, LineInv, StartsNoticed, Labels
<1> QED
  BY <1>4, <1>7, <1>8, <1>9

LEMMA SwallowsSemiLine ==
  ASSUME NEW b, NEW fl, AtMove(b, fl), SwallowsSemi(b, fl)
  PROVE  LineEndsNoticed' /\ WantedInLine' /\ SemiStillDue' /\ StartsNoticed'
<1>0. /\ BufferPtr \in Nat /\ BufferEnd \in Nat /\ b \in Nat /\ BufferPtr <= b
      /\ b \in 1 .. BufferEnd
      /\ BufferEnd' = BufferEnd /\ \A q : Char(q)' = Char(q)
      /\ SameStart(fl, flags) /\ input' = input /\ LastEnd \in Nat /\ LastEnd <= BufferPtr
  BY MoveFacts
<1>a. PICK e \in b + 1 .. BufferEnd :
        \E end \in e .. BufferEnd, f \in SUBSET TokenFlags :
          /\ WantsSemi
          /\ LastTokenKind' = "semi" /\ BufferPtr' = end /\ flags' = f /\ pc' \in Labels
          /\ handleComment(b, e) /\ Char(b + 1) = "*" /\ Char(e) \in Blank
          /\ \A q \in e .. end - 1 : Char(q) \notin NewLine
          /\ SameStart(f, fl)
          /\ UNCHANGED <<toks, diags>>
  BY DEF SwallowsSemi
<1>1. PICK end \in e .. BufferEnd, f \in SUBSET TokenFlags :
        /\ WantsSemi
        /\ LastTokenKind' = "semi" /\ BufferPtr' = end /\ flags' = f /\ pc' \in Labels
        /\ handleComment(b, e) /\ Char(b + 1) = "*" /\ Char(e) \in Blank
        /\ \A q \in e .. end - 1 : Char(q) \notin NewLine
        /\ SameStart(f, fl)
        /\ UNCHANGED <<toks, diags>>
  BY <1>a
<1>2. e \in Nat /\ end \in Nat /\ b < e /\ e <= end /\ e \in b .. BufferEnd /\ e # b
  BY <1>0
<1>3. /\ LineEndsNoticed' /\ LastEnd' = LastEnd
      /\ LineEndSeen' <=> \/ LineEndSeen
                          \/ \E q \in b .. end - 1 : Char(q) \in NewLine /\ ~InComment(q)'
  BY <1>1, NoTokenLine
<1>4. \A p \in b .. e - 1 : InComment(p)'
  <2>1. Quiet
    BY <1>1 DEF Quiet
  <2> QED
    BY <1>0, <1>1, <1>2, <2>1, WhiteIsUncommented DEF AtMove, LineInv
<1>5. ~\E q \in b .. end - 1 : Char(q) \in NewLine /\ ~InComment(q)'
  <2>1. \A q \in b .. end - 1 : q \in b .. e - 1 \/ q \in e .. end - 1
    BY <1>0, <1>2
  <2> QED
    BY <1>1, <1>4, <2>1
<1>6. WantedInLine'
  BY <1>1 DEF WantedInLine, WantsSemi, SemiKinds
<1>7. SemiForgotten'
  <2>1. /\ Len(comments) + 1 \in DOMAIN comments'
        /\ comments'[Len(comments) + 1] = [beg |-> b, end |-> e]
    BY <1>0, <1>1, <1>2, OneComment DEF AtMove
  <2>2. b \in LastEnd .. end - 1
    BY <1>0, <1>2
  <2> QED
    BY <1>0, <1>1, <1>3, <2>1, <2>2 DEF SemiForgotten
<1>8. SemiStillDue'
  BY <1>1, <1>7 DEF SemiStillDue
<1>9. "StartOfLine" \in flags <=> toks = << >> \/ LineEndSeen
  BY <1>1 DEF AtMove, LineInv, StartsNoticed, Labels, LineEndAhead
<1>10. StartsNoticed'
  <2>1. "StartOfLine" \in f <=> toks = << >> \/ LineEndSeen'
    BY <1>0, <1>1, <1>3, <1>5, <1>9 DEF SameStart
  <2> QED
    BY <1>1, <2>1 DEF StartsNoticed, AtMove, LineInv, Labels
<1> QED
  BY <1>3, <1>6, <1>8, <1>10

LEMMA RunsOffLine ==
  ASSUME NEW b, NEW fl, AtMove(b, fl), RunsOff(b, fl)
  PROVE  LineEndsNoticed' /\ WantedInLine' /\ SemiStillDue' /\ StartsNoticed'
<1>0. /\ BufferPtr \in Nat /\ BufferEnd \in Nat /\ b \in Nat /\ BufferPtr <= b
      /\ b \in 1 .. BufferEnd
      /\ BufferEnd' = BufferEnd /\ SameStart(fl, flags)
  BY MoveFacts
<1>1. /\ UNCHANGED <<toks, LastTokenKind>> /\ BufferPtr' = BufferEnd /\ flags' = fl
      /\ pc' # "returned" /\ (WantsSemi' <=> WantsSemi)
      /\ Diag("unterminated_block_comment", b)
  BY DEF RunsOff, GoTo, WantsSemi, Labels
<1>2. /\ LineEndsNoticed' /\ LastEnd' = LastEnd
      /\ LineEndSeen' <=> \/ LineEndSeen
                          \/ \E q \in b .. BufferEnd - 1 : Char(q)' \in NewLine /\ ~InComment(q)'
      /\ SemiForgotten => SemiForgotten'
  <2>1. \A q : Char(q)' = Char(q)
    BY MoveFacts
  <2> QED
    BY <1>1, <2>1, NoTokenLine
<1>3. \A p \in b .. BufferEnd - 1 : InComment(p)'
  <2>1. Len(diags) + 1 \in DOMAIN diags'
        /\ diags'[Len(diags) + 1] = <<"unterminated_block_comment", b>>
    BY <1>0, <1>1, OneDiag DEF AtMove, Diagnostics
  <2>2. \A p \in b .. BufferEnd - 1 : b <= p
    BY <1>0
  <2> QED
    BY <2>1, <2>2 DEF InComment, DiagBefore
<1>4. WantedInLine'
  <2>1. WantsSemi => BufferPtr > 1 /\ BufferEnd > 1
    BY <1>0 DEF AtMove, LineInv, WantedInLine
  <2> QED
    BY <1>0, <1>1, <2>1 DEF WantedInLine
<1>5. SemiStillDue'
  BY <1>0, <1>1, <1>2 DEF SemiStillDue, NoLineEndYet, AtMove, LineInv
<1>6. StartsNoticed'
  <2> SUFFICES ("StartOfLine" \in fl <=> toks = << >> \/ LineEndSeen') \/ LineEndAhead'
    BY <1>1 DEF StartsNoticed, AtMove, LineInv, Labels
  <2>1. CASE "StartOfLine" \in flags <=> toks = << >> \/ LineEndSeen
    BY <1>0, <1>2, <1>3, <2>1 DEF SameStart
  <2>2. CASE LineEndAhead
    BY <1>0, <1>1, <2>2 DEF LineEndAhead
  <2> QED
    BY <2>1, <2>2 DEF AtMove, LineInv, StartsNoticed, Labels
<1> QED
  BY <1>2, <1>4, <1>5, <1>6

(* A conflict marker that is acted on starts a line, so no semicolon is    *)
(* due; what is skipped ends just before a line end.                       *)
LEMMA ConflictLine ==
  ASSUME NEW b, NEW fl, AtMove(b, fl), OpensConflict(b, fl) \/ ClosesConflict(b, fl)
  PROVE  LineEndsNoticed' /\ WantedInLine' /\ SemiStillDue' /\ StartsNoticed'
<1>0. /\ BufferPtr \in Nat /\ BufferEnd \in Nat /\ b \in Nat /\ BufferPtr <= b
      /\ b \in 1 .. BufferEnd /\ BufferEnd' = BufferEnd /\ \A q : Char(q)' = Char(q)
      /\ \A q \in BufferPtr .. b - 1 : Char(q) \notin NewLine
      /\ BufferPtr = BufferEnd => b = BufferEnd
  BY MoveFacts
<1>1. input \in Seq(Elements)
  BY DEF AtMove, TypeOK
<1>2. PICK p \in 1 .. BufferEnd : GoTo("LexNextToken", SkipTo(p, NewLine), fl)
  <2>1. CASE OpensConflict(b, fl)
    BY <1>0, <2>1 DEF OpensConflict
  <2>2. CASE ClosesConflict(b, fl)
    <3> DEFINE c == Min(ConflictEnds(b + 1, CurrentConflictMarkerState))
    <3>1. c \in b + 1 .. Len(input)
      BY <1>0, <1>1, <2>2, CloseIsLeast DEF ClosesConflict, EndsConflict
    <3>2. GoTo("LexNextToken", SkipTo(c, NewLine), fl)
      BY <2>2 DEF ClosesConflict, ConflictLineEnd
    <3> HIDE DEF c
    <3>3. c \in 1 .. BufferEnd
      BY <1>0, <3>1 DEF BufferEnd
    <3> QED
      BY <3>2, <3>3
  <2> QED
    BY <2>1, <2>2
<1>3. PICK end : /\ end = SkipTo(p, NewLine) /\ end \in p .. BufferEnd
                 /\ end = BufferEnd \/ Char(end) \in NewLine
  BY <1>1, SkipToRange
<1>4. /\ UNCHANGED <<toks, LastTokenKind>> /\ BufferPtr' = end
      /\ pc' # "returned" /\ (WantsSemi' <=> WantsSemi)
  BY <1>2, <1>3 DEF GoTo, WantsSemi
<1>5. LineMarker(b)
  BY DEF OpensConflict, ClosesConflict, StartsConflict, EndsConflict, LineMarker, Markers
<1>6. ~WantsSemi
  <2> SUFFICES ASSUME WantsSemi PROVE FALSE
    OBVIOUS
  <2>1. BufferPtr > 1 /\ (BufferPtr = BufferEnd \/ Char(BufferPtr - 1) \notin NewLine)
    BY DEF AtMove, LineInv, WantedInLine
  <2>2. b # BufferEnd
    BY <1>5 DEF LineMarker, Char, BufferEnd, Markers
  <2>3. b # 1 /\ Char(b - 1) \in NewLine
    BY <1>0, <1>5, <2>1 DEF LineMarker, AtLineStart
  <2>4. b = BufferPtr
    <3>1. b # BufferPtr => b - 1 \in BufferPtr .. b - 1
      BY <1>0
    <3> QED
      BY <1>0, <2>3, <3>1
  <2> QED
    BY <1>0, <2>1, <2>2, <2>3, <2>4
<1>7. /\ LineEndsNoticed' /\ (SemiForgotten => SemiForgotten')
  BY <1>4, NoTokenLine
<1>8. WantedInLine'
  BY <1>4, <1>6 DEF WantedInLine
<1>9. SemiStillDue'
  BY <1>4, <1>6, <1>7 DEF SemiStillDue, AtMove, LineInv, WantsSemi
<1>10. StartsNoticed'
  <2>1. LineEndAhead'
    BY <1>0, <1>3, <1>4, <1>6 DEF LineEndAhead
  <2> QED
    BY <1>4, <2>1 DEF StartsNoticed, AtMove, LineInv, Labels
<1> QED
  BY <1>7, <1>8, <1>9, <1>10

LEMMA LineStep ==
  ASSUME NEW b, NEW fl, AtMove(b, fl)
  PROVE  LineInv'
<1>0. b \in 1 .. BufferEnd /\ BufferPtr <= b /\ input' = input /\ BufferEnd \in Nat /\ b \in Nat
  BY MoveFacts
<1>1. CommentsBehind'
  BY <1>0, CommentsSettle DEF AtMove, LineInv
<1>2. CASE FormsToken(b, fl)
  <2>1. PICK kind \in TokenKinds \ {"semi"}, end \in b .. BufferEnd, f \in SUBSET TokenFlags :
          /\ FormToken(kind, b, end, f)
          /\ IF kind = "eof" THEN b = BufferEnd /\ ~WantsSemi
                             ELSE end > b /\ SameStart(f, fl) /\ ~White(b)
          /\ kind \in SemiKinds => Char(end - 1) \notin NewLine
    BY <1>2 DEF FormsToken
  <2>2. kind \in TokenKinds /\ kind # "semi"
    OBVIOUS
  <2>3. LineEndsNoticed' /\ WantedInLine' /\ SemiStillDue' /\ StartsNoticed'
    BY <2>1, <2>2, TokenLine
  <2> QED
    BY <1>1, <2>3 DEF LineInv
<1>3. CASE InsertsSemi(b, fl)
  <2>1. PICK end \in b .. BufferEnd, f \in SUBSET TokenFlags :
          /\ InsertSemi(b, end, f) /\ SameStart(f, fl)
          /\ \E q \in b .. end : q = BufferEnd \/ Char(q) \in NewLine
    BY <1>3 DEF InsertsSemi
  <2> DEFINE g == f \cup {"InsertedSemi"}
  <2>2. FormToken("semi", b, end, g) /\ g \in SUBSET TokenFlags /\ "semi" \in TokenKinds
    BY <1>0, <2>1, OneSemi DEF AtMove
  <2>3. WantsSemi /\ "InsertedSemi" \in g /\ SameStart(g, fl) /\ "semi" \notin SemiKinds
    BY <2>1 DEF InsertSemi, SameStart, SemiKinds
  <2> HIDE DEF g
  <2>4. LineEndsNoticed' /\ WantedInLine' /\ SemiStillDue' /\ StartsNoticed'
    BY <2>1, <2>2, <2>3, TokenLine
  <2> QED
    BY <1>1, <2>4 DEF LineInv
<1> QED
  BY <1>1, <1>2, <1>3, PassesOverLine, SwallowsSemiLine, RunsOffLine, ConflictLine
  DEF LineInv, AtMove, Move

(* The client asks for the next token: nothing was passed since the last.  *)
LEMMA LexLine ==
  ASSUME TypeOK, TextInv, LineInv, Lex
  PROVE  LineInv'
<1>1. /\ UNCHANGED <<input, BufferPtr, LastTokenKind, toks, comments, diags>>
      /\ flags' = IF IsAtStartOfLine THEN {"StartOfLine"} ELSE {}
      /\ IsAtStartOfLine' = FALSE /\ pc = "returned" /\ pc' = "LexNextToken"
  BY DEF Lex
<1>2. LineEndsNoticed'
  BY <1>1 DEF LineInv, LineEndsNoticed, Neighbours, EndsLine, Inserted, BlankAfterComment, Gap,
              InComment, DiagBefore, Char, BufferEnd
<1>3. CommentsBehind' /\ WantedInLine' /\ SemiStillDue'
  BY <1>1 DEF LineInv, CommentsBehind, DiagBefore, WantedInLine, WantsSemi, SemiStillDue,
              NoLineEndYet, SemiForgotten, LastEnd, Char, BufferEnd
<1>4. "StartOfLine" \in flags' <=> toks = << >>
  BY <1>1 DEF LineInv, StartsNoticed
<1>5. toks # << >> => ~LineEndSeen'
  <2>1. ASSUME toks # << >> PROVE LastEnd' .. BufferPtr' - 1 = {}
    <3>1. BufferPtr = LastEnd /\ BufferPtr \in Nat
      BY <1>1, <2>1 DEF LineInv, StartsNoticed, TypeOK
    <3> QED
      BY <1>1, <3>1 DEF LastEnd
  <2> QED
    BY <2>1 DEF LineEndSeen
<1>6. StartsNoticed'
  BY <1>1, <1>4, <1>5 DEF StartsNoticed
<1> QED
  BY <1>2, <1>3, <1>6 DEF LineInv

(* In every run over every buffer, each line end is noticed once: the      *)
(* semicolons are where the rule the code follows puts them, and           *)
(* StartOfLine marks the tokens that a line end precedes, on whichever of  *)
(* the lexer's paths the line end was passed.                              *)
THEOREM LineEndsCorrect == Spec => []LineEndsNoticed
<1>1. Init => LineInv
  <2>1. Init => DOMAIN toks = {} /\ DOMAIN comments = {} /\ DOMAIN diags = {}
    BY DEF Init
  <2>2. Init => ~WantsSemi
    BY DEF Init, WantsSemi, SemiKinds
  <2> QED
    BY <2>1, <2>2 DEF Init, LineInv, LineEndsNoticed, Neighbours, CommentsBehind, DiagBefore,
                      WantedInLine, SemiStillDue, StartsNoticed
<1>2. TypeOK /\ TextInv /\ ConflictInv /\ LineInv /\ [Next]_vars => LineInv'
  <2> SUFFICES ASSUME TypeOK, TextInv, ConflictInv, LineInv, [Next]_vars PROVE LineInv'
    OBVIOUS
  <2>1. CASE LexTokenInternal
    <3>1. pc \in Labels /\ UNCHANGED <<input, IsAtStartOfLine>>
      BY <2>1, Moves
    <3>2. PICK b \in 1 .. BufferEnd, fl \in SUBSET TokenFlags : StartsAt(b, fl) /\ Move(b, fl)
      BY <2>1, Moves
    <3>3. AtMove(b, fl)
      BY <3>1, <3>2 DEF AtMove, ConflictInv
    <3> QED
      BY <3>3, LineStep
  <2>2. CASE Lex
    BY <2>2, LexLine
  <2>3. CASE UNCHANGED vars
    BY <2>3 DEF vars, LineInv, LineEndsNoticed, Neighbours, EndsLine, Inserted, BlankAfterComment,
                Gap, InComment, DiagBefore, Char, BufferEnd, CommentsBehind, WantedInLine,
                WantsSemi, SemiStillDue, NoLineEndYet, SemiForgotten, LastEnd, StartsNoticed,
                LineEndSeen, LineEndAhead
  <2> QED
    BY <2>1, <2>2, <2>3 DEF Next, Done
<1>3. LineInv => LineEndsNoticed
  BY DEF LineInv
<1> QED
  BY <1>1, <1>2, <1>3, TypeCorrect, TextInvariant, ConflictInvariant, PTL DEF Spec
=============================================================================
