---------------------------- MODULE ParserDecls -----------------------------
(***************************************************************************)
(* Source files, declarations and types: lib/Parse/Parser.cpp up to        *)
(* IsType.  An action is named after the parse function it stands for;     *)
(* where a function goes on after a token or a call, the rest of it is an  *)
(* action of its own.                                                      *)
(***************************************************************************)
EXTENDS ParserCore

-----------------------------------------------------------------------------
(* Source files and imports *)

SemiOrSkip == <<"ExpectSemi", <<Skip({"semi"}, TRUE, FALSE)>>>>

ParseSourceFile ==
  /\ At("SourceFile")
  /\ \/ tok # "kw_package" /\ Complain(<< >>)
     \/ tok = "kw_package" /\ Advance(<< <<"PackageClause">>, <<"ImportDecls">> >>)

(* The name may be "_", which is an error.                                 *)
ParsePackageClause ==
  /\ At("PackageClause")
  /\ \/ tok # "identifier" /\ Complain(<<Skip({"semi"}, TRUE, FALSE)>>)
     \/ tok = "identifier" /\ Advance(<< <<"ExpectSemi", << >>>> >>)
     \/ /\ tok = "identifier"
        /\ Eat /\ Diag /\ Do(<<Skip({"semi"}, TRUE, FALSE)>>) /\ Plain

ImportDecls ==
  /\ At("ImportDecls")
  /\ \/ tok = "kw_import"
        /\ Advance(<< <<"ImportDecl">>, SemiOrSkip, <<"ImportDecls">> >>)
     \/ tok # "kw_import" /\ Continue(<< <<"TopLevelDecls">> >>)

ImportSpecStart == {"period", "identifier", "string_literal"}

(* A single import is parsed at whatever token there is, which             *)
(* ParseImportSpec asserts to be one of these.                             *)
ParseImportDecl ==
  /\ At("ImportDecl")
  /\ \/ tok = "l_paren" /\ Open("paren", << <<"ImportSpecs">> >>)
     \/ tok \in ImportSpecStart
        /\ Continue(<< <<"ImportSpec">>, <<"OnFail", SkipToSemi>> >>)
     \/ tok \notin {"l_paren"} \cup ImportSpecStart
        /\ Continue(<< <<"ImportAssertionFails">> >>)

ImportSpecs ==
  /\ At("ImportSpecs")
  /\ \/ tok \in {"r_paren", "eof"} /\ Continue(<< >>)
     \/ /\ tok \notin {"r_paren", "eof"} \cup ImportSpecStart
        /\ Complain(SkipToSemi \o << <<"ImportSemi">> >>)
     \/ /\ tok \in ImportSpecStart
        /\ Continue(<< <<"ImportSpec">>, <<"OnFail", SkipToSemi>>, <<"ImportSemi">> >>)

ImportSemi ==
  /\ At("ImportSemi")
  /\ \/ tok = "r_paren" /\ Continue(<< >>)
     \/ tok # "r_paren" /\ Continue(<<SemiOrSkip, <<"ImportSpecs">> >>)

ParseImportSpec ==
  /\ At("ImportSpec")
  /\ \/ tok \in {"period", "identifier"}
        /\ Advance(<< <<"ImportPath", tok = "identifier">> >>)
     \/ tok \notin {"period", "identifier"} /\ Continue(<< <<"ImportPath", FALSE>> >>)

ImportPath ==
  /\ At("ImportPath")
  /\ \/ tok = "string_literal" /\ Advance(<< >>)
     \/ Arg(1) /\ tok \in {"semi", "r_paren"} /\ Complain(<< >>)
     \/ tok # "string_literal" /\ ~ (Arg(1) /\ tok \in {"semi", "r_paren"}) /\ Fail

-----------------------------------------------------------------------------
(* Declarations *)

DeclKeywords == {"kw_const", "kw_type", "kw_var"}

ParseTopLevelDecl ==
  /\ At("TopLevelDecls")
  /\ LET next == <<SemiOrSkip, <<"TopLevelDecls">> >> IN
     \/ tok = "eof" /\ Continue(<< >>)
     \/ tok = "kw_func" /\ Advance(<< <<"FunctionOrMethod">> >> \o next)
     \/ tok \in DeclKeywords /\ Continue(<< <<"Declaration">> >> \o next)
     \/ tok \notin {"eof", "kw_func"} \cup DeclKeywords /\ Complain(SkipToSemi \o next)

ParseFunctionOrMethodDecl ==
  /\ At("FunctionOrMethod")
  /\ LET rest == << <<"FunctionSignature">>, <<"FunctionBody">> >> IN
     \/ tok = "identifier" /\ Advance(rest)
     \/ tok = "l_paren" /\ Continue(<< <<"Receiver">>, <<"MethodName">> >> \o rest)
     \/ tok \notin {"identifier", "l_paren"} /\ Complain(SkipToSemi)

FunctionSignature ==
  /\ At("FunctionSignature")
  /\ IF tok = "l_paren" THEN Continue(<< <<"Signature">> >>) ELSE Complain(<< >>)

FunctionBody ==
  /\ At("FunctionBody")
  /\ Continue(IF tok = "l_brace" THEN << <<"Block">> >> ELSE << >>)

ParseReceiver ==
  /\ At("Receiver")
  /\ Open("paren", << <<"ReceiverName">> >>)

ReceiverName ==
  /\ At("ReceiverName")
  /\ IF tok = "identifier" THEN Advance(<< <<"ReceiverStar", TRUE>> >>)
                           ELSE Continue(<< <<"ReceiverStar", FALSE>> >>)

ReceiverStar ==
  /\ At("ReceiverStar")
  /\ IF tok = "star" THEN Advance(<< <<"ReceiverType", FALSE>> >>)
                     ELSE Continue(<< <<"ReceiverType", Arg(1)>> >>)

(* Without a type, a name that no '*' follows is the type.                 *)
ReceiverType ==
  /\ At("ReceiverType")
  /\ \/ tok = "identifier" /\ Advance(<< >>)
     \/ tok # "identifier" /\ Arg(1) /\ Continue(<< >>)
     \/ /\ tok # "identifier" /\ ~ Arg(1)
        /\ Complain(<<Skip({"r_paren"}, TRUE, TRUE)>>)

MethodName ==
  /\ At("MethodName")
  /\ IF tok = "identifier" THEN Advance(<< >>) ELSE Complain(<< >>)

ParseDeclaration ==
  /\ At("Declaration")
  /\ Advance(<< <<"DeclSpecs", tok>> >>)

(* ParseConstDecl, ParseTypeDecl and ParseVarDecl, after the keyword k.    *)
DeclSpecs ==
  /\ At("DeclSpecs")
  /\ LET k == Arg(1) IN
     \/ tok = "identifier" /\ Advance(<< <<"Spec", k>> >>)
     \/ tok = "l_paren" /\ Open("paren", << <<"DeclGroup", k>> >>)
     \/ tok \notin {"identifier", "l_paren"} /\ Complain(SkipToSemi)

ParseDeclGroup ==
  /\ At("DeclGroup")
  /\ LET k == Arg(1) IN
     \/ tok \in {"r_paren", "eof"} /\ Continue(<< >>)
     \/ tok \notin {"r_paren", "eof", "identifier"}
        /\ Stay /\ Diag /\ Abandon(<<Skip({"r_paren"}, FALSE, FALSE)>>)
     \/ tok = "identifier" /\ Advance(<< <<"Spec", k>>, <<"DeclGroupNext", k>> >>)

DeclGroupNext ==
  /\ At("DeclGroupNext")
  /\ LET semi == <<"DeclGroupSemi", Arg(1)>> IN
     \/ /\ ret = "fail" /\ Stay /\ Quiet
        /\ Abandon(<<Skip({"r_paren"}, FALSE, FALSE)>>)
     \/ /\ ret # "fail" /\ tok \notin {"semi", "r_paren"}
        /\ Complain(<<Skip({"r_paren"}, TRUE, TRUE), semi>>)
     \/ ret # "fail" /\ tok \in {"semi", "r_paren"} /\ Continue(<<semi>>)

DeclGroupSemi ==
  /\ At("DeclGroupSemi")
  /\ IF tok = "semi" THEN Advance(<< <<"DeclGroup", Arg(1)>> >>)
                     ELSE Continue(<< <<"DeclGroup", Arg(1)>> >>)

(* ParseConstSpec, ParseTypeSpec and ParseVarSpec, after an identifier.    *)
ParseSpec ==
  /\ At("Spec")
  /\ \/ Arg(1) = "kw_const" /\ Continue(<< <<"IdentifierList">>, <<"ConstType">> >>)
     \/ Arg(1) = "kw_var" /\ Continue(<< <<"IdentifierList">>, <<"VarType">> >>)
     \/ Arg(1) = "kw_type" /\ IsType /\ Continue(<< <<"Type">> >>)
     \/ Arg(1) = "kw_type" /\ ~ IsType /\ Fail

(* ParseIdentifierListTail; its callers ignore its result.                 *)
ParseIdentifierList ==
  \/ /\ At("IdentifierList")
     /\ IF tok = "comma" THEN Advance(<< <<"IdentifierAfterComma">> >>)
                         ELSE Continue(<< >>)
  \/ /\ At("IdentifierAfterComma")
     /\ IF tok = "identifier" THEN Advance(<< <<"IdentifierList">> >>)
                              ELSE Complain(<< >>)

SpecEnd == {"semi", "r_paren", "r_brace"}

ConstType ==
  /\ At("ConstType")
  /\ \/ tok \in SpecEnd /\ Continue(<< >>)
     \/ tok = "equal" /\ Continue(<< <<"ConstEqual">> >>)
     \/ IsType /\ Continue(<< <<"Type">>, <<"ConstEqual">> >>)
     \/ /\ tok \notin SpecEnd \cup {"equal"} /\ ~ IsType
        /\ Complain(SkipToSemi \o << <<"Return", "fail">> >>)

ConstEqual ==
  /\ At("ConstEqual")
  /\ IF tok = "equal" THEN Advance(<< <<"ConstValue">> >>)
                      ELSE Complain(<< <<"ConstValue">> >>)

(* Without a value the declaration fails, and nothing says so.             *)
ConstValue ==
  /\ At("ConstValue")
  /\ \/ IsExpression /\ Continue(<< <<"ExpressionList", FALSE>> >>)
     \/ /\ ~ IsExpression /\ Stay /\ Do(<< >>) /\ Answer("fail")
        /\ errors' = IF errors = "none" THEN "silent" ELSE errors

VarType ==
  /\ At("VarType")
  /\ \/ tok = "equal" /\ Continue(<< <<"VarEqual">> >>)
     \/ IsType /\ Continue(<< <<"Type">>, <<"VarEqual">> >>)
     \/ /\ tok # "equal" /\ ~ IsType
        /\ Complain(<<Skip(SpecEnd, FALSE, TRUE), <<"Return", "fail">> >>)

VarEqual ==
  /\ At("VarEqual")
  /\ \/ tok \in SpecEnd /\ Continue(<< >>)
     \/ tok = "equal" /\ Advance(<< <<"ExpressionList", FALSE>> >>)
     \/ /\ tok \notin SpecEnd \cup {"equal"}
        /\ Complain(<< <<"ExpressionList", FALSE>>, <<"Return", "fail">> >>)

-----------------------------------------------------------------------------
(* Signatures *)

ParseSignature ==
  \/ At("Signature") /\ Continue(<< <<"Parameters">>, <<"Result">> >>)
  \/ /\ At("Result")
     /\ \/ tok = "l_paren" /\ Continue(<< <<"Parameters">> >>)
        \/ tok # "l_paren" /\ IsType /\ Continue(<< <<"Type">> >>)
        \/ ~ IsType /\ Continue(<< >>)

ParseParameters ==
  \/ /\ At("Parameters")
     /\ Open("paren", << <<"ParameterList">> >>)
  \/ /\ At("ParameterList")
     /\ IF IsType \/ tok = "ellipsis"
          THEN Continue(<< <<"ParameterDecl">>, <<"MoreParameters">> >>)
          ELSE Continue(<< <<"TrailingComma">> >>)
  \/ /\ At("MoreParameters")
     /\ IF tok = "comma" THEN Advance(<< <<"ParameterDecl">>, <<"MoreParameters">> >>)
                         ELSE Continue(<< >>)

TrailingComma ==
  /\ At("TrailingComma")
  /\ IF tok = "comma" THEN Advance(<< >>) ELSE Continue(<< >>)

ParseParameterDecl ==
  \/ /\ At("ParameterDecl")
     /\ \/ tok = "identifier" /\ Advance(<< <<"ParameterIdent">> >>)
        \/ tok = "ellipsis" /\ Advance(<< <<"ParameterType">> >>)
        \/ tok \notin {"identifier", "ellipsis"} /\ Continue(<< <<"ParameterType">> >>)
  \/ /\ At("ParameterType")
     /\ IF IsType THEN Continue(<< <<"Type">> >>) ELSE Complain(<< >>)
  \/ /\ At("ParameterIdent")
     /\ Continue(IF tok = "period"
                   THEN << <<"TypeNameTail">>, <<"TypeList", FALSE, TRUE>>,
                           <<"ParameterDots">> >>
                   ELSE << <<"TypeList", TRUE, TRUE>>, <<"ParameterDots">> >>)

(* After a list of identifiers or types: "...", a type, both or neither.   *)
ParameterDots ==
  /\ At("ParameterDots")
  /\ IF tok = "ellipsis" THEN Advance(<< <<"ParameterEnd", ret = "idents", TRUE>> >>)
                         ELSE Continue(<< <<"ParameterEnd", ret = "idents", FALSE>> >>)

ParameterEnd ==
  /\ At("ParameterEnd")
  /\ LET idents == Arg(1)
         dots   == Arg(2)
         check(wrong) == IF wrong THEN << <<"Error">> >> ELSE << >>
     IN Continue(IF IsType THEN << <<"Type">> >> \o check(~ idents)
                           ELSE check(dots))
Error == At("Error") /\ Complain(<< >>)

(* ParseTypeListTail; the result tells a list of identifiers only.         *)
ParseTypeList ==
  \/ /\ At("TypeList")
     /\ \/ tok = "comma" /\ Advance(<< <<"TypeAfterComma", Arg(1), Arg(2)>> >>)
        \/ /\ tok # "comma" /\ Stay /\ Quiet /\ Do(<< >>)
           /\ Answer(IF Arg(1) THEN "idents" ELSE "types")
  \/ /\ At("TypeAfterComma")
     /\ LET next == << <<"TypeInList", Arg(1), Arg(2)>> >> IN
        \/ tok = "ellipsis" /\ Arg(2) /\ Advance(next)
        \/ tok = "ellipsis" /\ ~ Arg(2) /\ Eat /\ Diag /\ Do(next) /\ Plain
        \/ tok # "ellipsis" /\ Continue(next)
  \/ /\ At("TypeInList")
     /\ \/ tok = "identifier" /\ Advance(<< <<"IdentInTypeList", Arg(1), Arg(2)>> >>)
        \/ tok # "identifier" /\ Continue(<< <<"Type">>, <<"TypeList", FALSE, Arg(2)>> >>)
  \/ /\ At("IdentInTypeList")
     /\ Continue(IF tok = "period"
                   THEN << <<"TypeNameTail">>, <<"TypeList", FALSE, Arg(2)>> >>
                   ELSE << <<"TypeList", Arg(1), Arg(2)>> >>)

-----------------------------------------------------------------------------
(* Types.  The result of a type is "fail" if it is invalid.                *)

(* ParseType and ParseTypeLit.  Any other kind of token is declared        *)
(* unreachable there, and nothing is said of what follows.                 *)
ParseType ==
  /\ At("Type")
  /\ \/ tok = "identifier" /\ Advance(<< <<"TypeNameTail">> >>)
     \/ tok = "l_paren" /\ OpenAs("paren", "keep", << <<"Type">> >>, << >>)
     \/ tok = "l_square"
        /\ OpenAs("square", "plain", << <<"ArrayBound">> >>, << <<"ArrayElement">> >>)
     \/ tok = "kw_struct" /\ Advance(<< <<"MembersOf", "FieldDecl">> >>)
     \/ tok = "kw_interface" /\ Advance(<< <<"MembersOf", "MethodSpec">> >>)
     \/ tok = "star" /\ Advance(<< <<"PointeeType">> >>)
     \/ tok = "kw_func" /\ Advance(<< <<"FunctionType">> >>)
     \/ tok = "kw_map" /\ Advance(<< <<"MapType">> >>)
     \/ tok = "kw_chan" /\ Advance(<< <<"ChannelArrow">> >>)
     \/ tok = "lessminus" /\ Advance(<< <<"RecvChannel">> >>)
     \/ ~ IsType /\ Continue(<< <<"Unreachable">> >>)

(* Sema rejects, and reports, what does not name a type.                   *)
ParseTypeNameTail ==
  \/ /\ At("TypeNameTail")
     /\ \/ tok = "period" /\ Advance(<< <<"QualifiedName">> >>)
        \/ tok # "period" /\ Continue(<< >>)
        \/ tok # "period" /\ Fail
  \/ /\ At("QualifiedName")
     /\ IF tok = "identifier" THEN Advance(<< >>)
        ELSE Complain(<<Skip({"l_brace", "r_brace", "semi"}, FALSE, TRUE),
                        <<"Return", "fail">> >>)

(* ParseSliceType and ParseArrayType.                                      *)
ParseArrayOrSliceType ==
  \/ /\ At("ArrayBound")
     /\ Continue(IF tok = "r_square" THEN << >>
                                     ELSE << <<"Expression", FALSE, FALSE>> >>)
  \/ /\ At("ArrayElement")
     /\ \/ ret = "unclosed" /\ Continue(SkipToSemi \o << <<"Return", "fail">> >>)
        \/ ret # "unclosed" /\ IsType /\ Continue(<< <<"Type">> >>)
        \/ ret # "unclosed" /\ ~ IsType /\ Fail

MemberStart(m) == IF m = "FieldDecl" THEN {"identifier", "star"} ELSE {"identifier"}
SkipMember     == Skip({"r_brace"}, TRUE, TRUE)

(* ParseStructType and ParseInterfaceType; m parses one member.            *)
ParseStructType ==
  /\ At("MembersOf")
  /\ IF tok = "l_brace"
       THEN ConsumeOpen("brace",
                        << <<"Members", Arg(1)>>, CloseAs("brace", "plain", TRUE),
                           <<"Return", "ok">> >>,
                        << <<"Return", "fail">> >>)
       ELSE Complain(SkipToSemi \o << <<"Return", "fail">> >>)

(* Mutant: what starts no member is not skipped.                           *)
NoMember_Stays(m) == Complain(<< <<"MemberSemi", m>> >>)
NoMember(m) == Complain(<<SkipMember, <<"MemberSemi", m>> >>)

Members ==
  /\ At("Members")
  /\ LET m == Arg(1) IN
     \/ tok \in {"r_brace", "eof"} /\ Continue(<< >>)
     \/ tok \notin {"r_brace", "eof"} \cup MemberStart(m) /\ NoMember(m)
     \/ tok \in MemberStart(m) /\ Continue(<< <<m>>, <<"AfterMember", m>> >>)

AfterMember ==
  /\ At("AfterMember")
  /\ LET semi == <<"MemberSemi", Arg(1)>> IN
     \/ ret = "fail" /\ Continue(<<SkipMember, semi>>)
     \/ ret # "fail" /\ tok \notin {"semi", "r_brace"} /\ Complain(<<SkipMember, semi>>)
     \/ ret # "fail" /\ tok \in {"semi", "r_brace"} /\ Continue(<<semi>>)

MemberSemi ==
  /\ At("MemberSemi")
  /\ IF tok = "semi" THEN Advance(<< <<"Members", Arg(1)>> >>)
                     ELSE Continue(<< <<"Members", Arg(1)>> >>)

ParseFieldDecl ==
  \/ /\ At("FieldDecl")
     /\ IF tok = "star" THEN Advance(<< <<"AnonymousField">>, <<"FieldTag">> >>)
                        ELSE Advance(<< <<"FieldNames">> >>)
  \/ /\ At("AnonymousField")
     /\ IF tok = "identifier" THEN Advance(<< <<"TypeNameTail">> >>) ELSE Fail
  \/ /\ At("FieldNames")
     /\ \/ tok = "comma" /\ Continue(<< <<"IdentifierList">>, <<"FieldType">> >>)
        \/ IsType /\ Continue(<< <<"FieldType">> >>)
        \/ tok # "comma" /\ ~ IsType /\ Continue(<< <<"TypeNameTail">>, <<"FieldTag">> >>)
  \/ /\ At("FieldType")
     /\ IF IsType THEN Continue(<< <<"Type">>, <<"FieldTag">> >>) ELSE Fail
  \/ /\ At("FieldTag")
     /\ Quiet /\ Do(<< >>) /\ Answer(ret)
     /\ IF tok = "string_literal" THEN Eat ELSE Stay

ParseMethodSpec ==
  \/ At("MethodSpec") /\ Advance(<< <<"MethodSpecTail">> >>)
  \/ /\ At("MethodSpecTail")
     /\ Continue(IF tok = "l_paren" THEN << <<"Signature">>, <<"Return", "ok">> >>
                                    ELSE << <<"TypeNameTail">> >>)

ParsePointerType ==
  /\ At("PointeeType")
  /\ IF IsType THEN Continue(<< <<"Type">> >>)
               ELSE Complain(SkipToSemi \o << <<"Return", "fail">> >>)

ParseFunctionType ==
  /\ At("FunctionType")
  /\ IF tok = "l_paren" THEN Continue(<< <<"Signature">>, <<"Return", "ok">> >>)
                        ELSE Complain(SkipToSemi \o << <<"Return", "fail">> >>)

(* expectAndConsume looks at the depth after it has consumed the '['.      *)
ParseMapType ==
  \/ /\ At("MapType")
     /\ LET fail == SkipToSemi \o << <<"Return", "fail">> >> IN
        \/ tok # "l_square" /\ Complain(fail)
        \/ /\ tok = "l_square" /\ counts["square"] + 1 < MaxDepth
           /\ Advance(<< <<"MapKey">>, CloseAs("square", "plain", FALSE), <<"MapValue">> >>)
        \/ /\ tok = "l_square" /\ counts["square"] + 1 >= MaxDepth
           /\ Eat /\ Diag /\ Do(<<SkipToEnd>> \o fail) /\ Plain
  \/ /\ At("MapKey")
     /\ IF IsType THEN Continue(<< <<"Type">> >>)
        ELSE Stay /\ Diag /\ Abandon(SkipToSemi \o << <<"Return", "unclosed">> >>)
  \/ /\ At("MapValue")
     /\ \/ ret = "unclosed" /\ Continue(<< <<"Return", "fail">> >>)
        \/ ret # "unclosed" /\ ~ IsType
           /\ Complain(SkipToSemi \o << <<"Return", "fail">> >>)
        \/ ret = "fail" /\ IsType /\ Continue(<< <<"Type">>, <<"Return", "fail">> >>)
        \/ ret = "ok" /\ IsType /\ Continue(<< <<"Type">> >>)

ParseChannelType ==
  LET fail == <<Skip({"r_brace", "r_paren"}, TRUE, TRUE), <<"Return", "fail">> >> IN
  \/ /\ At("ChannelArrow")
     /\ IF tok = "lessminus" THEN Advance(<< <<"ChannelElement">> >>)
                             ELSE Continue(<< <<"ChannelElement">> >>)
  \/ /\ At("RecvChannel")
     /\ IF tok = "kw_chan" THEN Advance(<< <<"ChannelElement">> >>) ELSE Complain(fail)
  \/ /\ At("ChannelElement")
     /\ IF IsType THEN Continue(<< <<"Type">> >>) ELSE Complain(fail)

-----------------------------------------------------------------------------
DeclStep ==
  \/ ParseSourceFile \/ ParsePackageClause \/ ImportDecls \/ ParseImportDecl
  \/ ImportSpecs \/ ImportSemi \/ ParseImportSpec \/ ImportPath
  \/ ParseTopLevelDecl \/ ParseFunctionOrMethodDecl \/ FunctionSignature
  \/ FunctionBody \/ ParseReceiver \/ ReceiverName \/ ReceiverStar \/ ReceiverType
  \/ MethodName \/ ParseDeclaration \/ DeclSpecs \/ ParseDeclGroup \/ DeclGroupNext
  \/ DeclGroupSemi \/ ParseSpec \/ ParseIdentifierList \/ ConstType \/ ConstEqual
  \/ ConstValue \/ VarType \/ VarEqual \/ ParseSignature \/ ParseParameters
  \/ TrailingComma \/ ParseParameterDecl \/ ParameterDots \/ ParameterEnd \/ Error
  \/ ParseTypeList

TypeStep ==
  \/ ParseType \/ ParseTypeNameTail \/ ParseArrayOrSliceType \/ ParseStructType
  \/ Members \/ AfterMember \/ MemberSemi \/ ParseFieldDecl \/ ParseMethodSpec
  \/ ParsePointerType \/ ParseFunctionType \/ ParseMapType \/ ParseChannelType
=============================================================================
