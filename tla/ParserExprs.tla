---------------------------- MODULE ParserExprs -----------------------------
(***************************************************************************)
(* Expressions: lib/Parse/ParseExpr.cpp.  The parameter g of an expression *)
(* tells whether it may be a type switch guard (TSGOpt), t whether it may  *)
(* be a type (TOpt).  The operators of one class share a kind, and the     *)
(* shape precedences give to an expression is left out, as is whether an   *)
(* expression is valid.                                                    *)
(***************************************************************************)
EXTENDS ParserCore

Expression == <<"Expression", FALSE, FALSE>>

(* A TypeSwitchGuardParam that is passed on is reset.                      *)
ResetThen(g, steps) ==
  Stay /\ Reset(g) /\ Do(steps) /\ Clear /\ UNCHANGED <<needsParens, isType>>

ParseExpression ==
  \/ /\ At("Expression")
     /\ Continue(<< <<"UnaryExpr", Arg(1), Arg(2)>>, <<"BinaryTail", Arg(1)>> >>)
  \/ /\ At("ExpressionTail")
     /\ Continue(<< <<"PrimaryExprTail">>, <<"Suffix", Arg(1)>>, <<"BinaryTail", Arg(1)>> >>)

ParseRHSOfBinaryExpression ==
  \/ /\ At("BinaryTail")
     /\ IF tok \in BinaryOps THEN ResetThen(Arg(1), << <<"BinaryOp", Arg(1)>> >>)
                             ELSE Continue(<< >>)
  \/ /\ At("BinaryOp")
     /\ Advance(<< <<"UnaryExpr", FALSE, FALSE>>, <<"BinaryTail", Arg(1)>> >>)

PrimaryStart == Literals \cup (TypeStart \ {"star", "lessminus"})

(* ParseUnaryExpr, and ParsePrimaryExpr by the kind of the token.  What    *)
(* starts no expression is left alone, and nothing says so.                *)
ParseUnaryExpr ==
  /\ At("UnaryExpr")
  /\ LET g == Arg(1)
         t == Arg(2)
         suffix == <<"Suffix", g>>
     IN
     \/ tok \in UnaryOps /\ Advance(<< <<"UnaryExpr", FALSE, t>> >>)
     \/ tok \in Literals /\ Advance(<<suffix>>)
     \/ tok = "identifier" /\ Advance(<< <<"PrimaryExprTail">>, suffix>>)
     \/ tok = "kw_struct"
        /\ Advance(<< <<"MembersOf", "FieldDecl">>, <<"CompositeLitTail", FALSE, t, TRUE>>,
                      suffix>>)
     \/ tok = "kw_map"
        /\ Advance(<< <<"MapType">>, <<"CompositeLitTail", FALSE, t, TRUE>>, suffix>>)
     \/ tok = "l_square"
        /\ OpenAs("square", "plain", << <<"CompositeLitBound", t>> >>, <<suffix>>)
     \/ tok = "kw_func"
        /\ Advance(<< <<"FunctionType">>, <<"FunctionLitTail", t>>, suffix>>)
     \/ tok \in {"kw_chan", "kw_interface"}
        /\ Continue(<< <<"Type">>, <<"ConversionOrType", t>>, suffix>>)
     \/ tok = "l_paren"
        /\ Continue(<< <<"ParenExpr", g, t, isType>>, suffix>>)
     \/ tok \notin UnaryOps \cup PrimaryStart /\ Continue(<< >>)

(* The expression in parentheses has a TypeParam of its own.               *)
ParseParenExpr ==
  \/ /\ At("ParenExpr")
     /\ Stay /\ Quiet /\ Clear /\ UNCHANGED <<needsParens, guard>>
     /\ isType' = FALSE
     /\ Do(<< <<"OpenParen", Arg(1)>>, <<"ParenExprEnd", Arg(2), Arg(3)>> >>)
  \/ /\ At("OpenParen")
     /\ Open("paren", << <<"Expression", Arg(1), TRUE>> >>)
  \/ /\ At("ParenExprEnd")
     /\ Stay /\ Do(<< >>) /\ Clear /\ UNCHANGED <<needsParens, guard>>
     /\ \/ Arg(1) /\ Quiet /\ UNCHANGED isType
        \/ /\ ~ Arg(1) /\ isType' = Arg(2)
           /\ IF isType /\ tok # "l_paren" THEN Diag ELSE Quiet

(* Where a '{' may start a literal value.                                  *)
LiteralFollows == tok = "l_brace" /\ ~ needsParens

ParsePrimaryExprTail ==
  \/ /\ At("PrimaryExprTail")
     /\ \/ LiteralFollows /\ Continue(<< <<"LiteralValue">> >>)
        \/ ~ LiteralFollows /\ Continue(<< >>)
        \/ /\ tok = "period" /\ "package" \in IdentifierTypes
           /\ Advance(<< <<"PackageMember">> >>)
        \/ /\ tok = "l_paren" /\ "builtin" \in IdentifierTypes
           /\ Stay /\ Quiet /\ Clear /\ UNCHANGED <<needsParens, guard>>
           /\ isType' = FALSE
           /\ Do(<< <<"BuiltinCall">>, <<"BuiltinEnd", isType>> >>)
  \/ /\ At("PackageMember")
     /\ IF tok = "identifier" THEN Advance(<< <<"PackageLiteral">> >>)
                              ELSE Complain(<< <<"PackageLiteral">> >>)
  \/ /\ At("PackageLiteral")
     /\ Continue(IF LiteralFollows THEN << <<"LiteralValue">> >> ELSE << >>)

(* The arguments of a builtin may start with a type.                       *)
BuiltinCall ==
  \/ /\ At("BuiltinCall")
     /\ Open("paren", << <<"BuiltinArgs">> >>)
  \/ /\ At("BuiltinArgs")
     /\ Continue(IF tok = "r_paren" THEN << >>
                 ELSE << <<"Expression", FALSE, TRUE>>, <<"ExprList", FALSE>>,
                         <<"Ellipsis">> >>)
  \/ /\ At("BuiltinEnd")
     /\ Stay /\ Quiet /\ Do(<< >>) /\ Clear /\ UNCHANGED <<needsParens, guard>>
     /\ isType' = Arg(1)

Ellipsis ==
  /\ At("Ellipsis")
  /\ IF tok = "ellipsis" THEN Advance(<< <<"CommaAfterArgs">> >>)
                         ELSE Continue(<< <<"CommaAfterArgs">> >>)
CommaAfterArgs ==
  /\ At("CommaAfterArgs")
  /\ IF tok = "comma" THEN Advance(<< >>) ELSE Continue(<< >>)

(* What follows the type of a conversion; without one it is a type.        *)
ItIsAType(complaint, t) ==
  IF t THEN Stay /\ Quiet /\ Do(<< >>) /\ Clear /\ UNCHANGED <<needsParens, guard>>
            /\ isType' = TRUE
       ELSE Complain(complaint)

ParseConversion ==
  \/ /\ At("ConversionOrType")
     /\ IF tok = "l_paren" THEN Continue(<< <<"Conversion">> >>)
                           ELSE ItIsAType(<< >>, Arg(1))
  \/ At("Conversion") /\ Open("paren", <<Expression>>)

ParseFunctionLitOrConversion ==
  /\ At("FunctionLitTail")
  /\ \/ ret = "fail" /\ Continue(<< >>)
     \/ ret # "fail" /\ tok = "l_brace" /\ Continue(<< <<"Block">> >>)
     \/ ret # "fail" /\ tok = "l_paren" /\ Continue(<< <<"Conversion">> >>)
     \/ ret # "fail" /\ tok \notin {"l_brace", "l_paren"} /\ ItIsAType(<< >>, Arg(1))

(* The tracker of the '[' is left before the type is looked at.            *)
ParseCompositeLitBound ==
  \/ /\ At("CompositeLitBound")
     /\ \/ /\ tok = "ellipsis" /\ Eat /\ Quiet
           /\ Around(<< <<"EllipsisBound">> >>, << <<"CompositeLitTail", TRUE, Arg(1), FALSE>> >>)
        \/ /\ tok # "ellipsis" /\ Stay /\ Quiet
           /\ Around(<< <<"ArrayBound">> >>,
                     << <<"ArrayElement">>, <<"CompositeLitTail", FALSE, Arg(1), FALSE>> >>)
  \/ /\ At("EllipsisBound")
     /\ Stay
     /\ \/ tok = "r_square" /\ Quiet /\ Around(<< >>, << <<"ArrayElement">> >>)
        \/ tok # "r_square" /\ Diag /\ Abandon(<< >>)

(* Parameters: "[...", t, whether an invalid type ends it.                 *)
ParseCompositeLitOrConversion ==
  /\ At("CompositeLitTail")
  /\ LET dots == Arg(1)
         t == Arg(2)
     IN
     IF Arg(3) /\ ret = "fail" THEN Continue(<< >>)
     ELSE IF ~ dots /\ tok = "l_paren" THEN Continue(<< <<"Conversion">> >>)
     ELSE IF tok = "l_brace" THEN Continue(<< <<"LiteralValue">> >>)
     ELSE ItIsAType(SkipToSemi, ~ dots /\ t)

-----------------------------------------------------------------------------
(* Suffixes *)

ParsePrimaryExprSuffix ==
  \/ /\ At("Suffix")
     /\ IF tok \in {"period", "l_square", "l_paren"}
          THEN ResetThen(Arg(1), << <<"SuffixOp", Arg(1)>>, <<"Suffix", Arg(1)>> >>)
          ELSE Continue(<< >>)
  \/ /\ At("SuffixOp")
     /\ \/ tok = "period" /\ Advance(<< <<"Selector", Arg(1)>> >>)
        \/ tok = "l_square" /\ Open("square", << <<"Index">> >>)
        \/ tok = "l_paren" /\ Open("paren", << <<"CallArgs">> >>)

ParseSelectorOrTypeAssertion ==
  /\ At("Selector")
  /\ \/ tok = "identifier" /\ Advance(<< >>)
     \/ tok = "l_paren" /\ Open("paren", << <<"AssertedType", Arg(1)>> >>)
     \/ tok \notin {"identifier", "l_paren"} /\ Complain(<< >>)

AssertedType ==
  /\ At("AssertedType")
  /\ \/ /\ tok = "kw_type" /\ Eat /\ Do(<< >>) /\ Clear
        /\ UNCHANGED <<needsParens, isType>>
        /\ IF Arg(1) THEN guard' = TRUE /\ Quiet ELSE Diag /\ UNCHANGED guard
     \/ IsType /\ Continue(<< <<"Type">> >>)
     \/ /\ tok # "kw_type" /\ ~ IsType
        /\ Stay /\ Diag /\ Abandon(<<Skip({"r_paren"}, FALSE, FALSE)>>)

(* Mutant: what is neither index nor slice is not reported.                *)
NeitherIndexNorSlice_Silent == Stay /\ Quiet /\ Abandon(<< >>)
NeitherIndexNorSlice == Stay /\ Diag /\ Abandon(<< >>)

ParseIndexOrSliceSuffix ==
  \/ /\ At("Index")
     /\ \/ tok = "r_square" /\ Complain(<< >>)
        \/ tok = "colon" /\ Advance(<< <<"SliceEnd">> >>)
        \/ tok \notin {"r_square", "colon"} /\ Continue(<<Expression, <<"IndexEnd">> >>)
  \/ /\ At("IndexEnd")
     /\ \/ tok = "r_square" /\ Continue(<< >>)
        \/ tok = "colon" /\ Advance(<< <<"SliceEnd">> >>)
        \/ tok \notin {"r_square", "colon"} /\ NeitherIndexNorSlice
  \/ /\ At("SliceEnd")
     /\ Continue(IF tok = "r_square" THEN << >> ELSE <<Expression>>)

ParseCallSuffix ==
  /\ At("CallArgs")
  /\ Continue(IF tok = "r_paren" THEN << >>
                                 ELSE << <<"ExpressionList", FALSE>>, <<"Ellipsis">> >>)

-----------------------------------------------------------------------------
(* Literal values *)

ParseLiteralValue ==
  \/ /\ At("LiteralValue")
     /\ Open("brace", << <<"Elements">> >>)
  \/ /\ At("Elements")
     /\ Continue(IF tok = "r_brace" THEN << >>
                                    ELSE << <<"Element">>, <<"MoreElements">> >>)

ParseElementList ==
  /\ At("MoreElements")
  /\ IF tok = "comma" THEN Advance(<< <<"Element">>, <<"MoreElements">> >>)
                      ELSE Continue(<< >>)

ParseElement ==
  \/ /\ At("Element")
     /\ \/ tok = "identifier" /\ Advance(<< <<"ElementName">> >>)
        \/ tok = "l_brace" /\ Continue(<< <<"ElementValue">> >>)
        \/ /\ tok \notin {"identifier", "l_brace"}
           /\ Continue(<<Expression, <<"ElementValue">> >>)
  \/ /\ At("ElementName")
     /\ Continue(IF tok = "colon" THEN << <<"ElementValue">> >>
                 ELSE << <<"ExpressionTail", FALSE>>, <<"ElementValue">> >>)
  \/ /\ At("ElementValue")
     /\ \/ tok = "colon" /\ Advance(<< <<"ElementAfterColon">> >>)
        \/ tok = "l_brace" /\ Continue(<< <<"LiteralValue">> >>)
        \/ tok \notin {"colon", "l_brace"} /\ Continue(<< >>)
  \/ /\ At("ElementAfterColon")
     /\ Continue(IF tok = "l_brace" THEN << <<"LiteralValue">> >> ELSE <<Expression>>)

-----------------------------------------------------------------------------
(* Lists of expressions.  ExprList is ParseExpressionListTail; its result  *)
(* tells a list of identifiers only, its parameter the list before it.     *)

ParseExpressionList ==
  \/ /\ At("ExpressionList")
     /\ Continue(<< <<"Expression", Arg(1), FALSE>>, <<"AfterFirst", Arg(1)>> >>)
  \/ /\ At("AfterFirst")
     /\ ResetThen(Arg(1) /\ tok = "comma", << <<"ExprList", FALSE>> >>)

ParseExpressionListTail ==
  \/ /\ At("ExprList")
     /\ \/ tok = "comma" /\ Advance(<< <<"ExprAfterComma", Arg(1)>> >>)
        \/ /\ tok # "comma" /\ Stay /\ Quiet /\ Do(<< >>)
           /\ Answer(IF Arg(1) THEN "idents" ELSE "exprs")
  \/ /\ At("ExprAfterComma")
     /\ IF tok = "identifier" THEN Advance(<< <<"IdentInExprList", Arg(1)>> >>)
                              ELSE Continue(<<Expression, <<"ExprList", FALSE>> >>)
  \/ /\ At("IdentInExprList")
     /\ Continue(IF tok \in {"comma", "colonequal"}
                   THEN << <<"ExprList", Arg(1)>> >>
                   ELSE << <<"ExpressionTail", FALSE>>, <<"ExprList", FALSE>> >>)

ExprStep ==
  \/ ParseExpression \/ ParseRHSOfBinaryExpression \/ ParseUnaryExpr
  \/ ParseParenExpr \/ ParsePrimaryExprTail \/ BuiltinCall \/ Ellipsis
  \/ CommaAfterArgs \/ ParseConversion \/ ParseFunctionLitOrConversion
  \/ ParseCompositeLitBound \/ ParseCompositeLitOrConversion
  \/ ParsePrimaryExprSuffix \/ ParseSelectorOrTypeAssertion \/ AssertedType
  \/ ParseIndexOrSliceSuffix \/ ParseCallSuffix \/ ParseLiteralValue
  \/ ParseElementList \/ ParseElement \/ ParseExpressionList
  \/ ParseExpressionListTail
=============================================================================
