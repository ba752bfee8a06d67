---------------------------- MODULE ParserStmts -----------------------------
(***************************************************************************)
(* Statements: lib/Parse/ParseStmt.cpp.  The parameter ext is the          *)
(* SimpleStmtExts of a simple statement, ids whether what was parsed of it *)
(* is a list of identifiers only.                                          *)
(***************************************************************************)
EXTENDS ParserExprs

ExpressionList == <<"ExpressionList", FALSE>>
SimpleStmt(ext) == <<"SimpleStmt", ext>>

IncDec    == {"plusplus", "minusminus"}
AssignOps == {"equal", "plusequal"}

SimpleStart == IncDec \cup Literals \cup
  {"amp", "exclaim", "kw_chan", "kw_func", "kw_interface", "kw_map", "kw_struct",
   "l_paren", "l_square", "lessminus", "plus", "star"}

ControlStart ==
  [kw_go |-> Expression, kw_defer |-> Expression, kw_return |-> <<"ReturnValues">>,
   kw_break |-> <<"Label">>, kw_continue |-> <<"Label">>, kw_goto |-> <<"GotoLabel">>,
   kw_if |-> <<"IfStmt">>, kw_switch |-> <<"SwitchStmt">>,
   kw_select |-> <<"SelectStmt">>, kw_for |-> <<"ForStmt">>]

StatementStart ==
  SimpleStart \cup DOMAIN ControlStart \cup
  {"kw_const", "kw_type", "kw_var", "kw_fallthrough", "l_brace", "semi", "identifier"}

ParseStatement ==
  /\ At("Statement")
  /\ \/ tok \in {"kw_const", "kw_type", "kw_var"} /\ Continue(<< <<"Declaration">> >>)
     \/ tok \in DOMAIN ControlStart /\ Advance(<<ControlStart[tok]>>)
     \/ tok = "kw_fallthrough" /\ Advance(<< >>)
     \/ tok = "l_brace" /\ Continue(<< <<"Block">> >>)
     \/ tok = "semi" /\ Continue(<< >>)
     \/ tok = "identifier" /\ Advance(<< <<"IdentStmt">> >>)
     \/ tok \in SimpleStart /\ Continue(<<SimpleStmt("None")>>)
     \/ tok \notin StatementStart /\ Complain(SkipToSemi)

(* The identifier may be "while", which starts a loop if what follows may. *)
ParseIdentStmt ==
  /\ At("IdentStmt")
  /\ \/ /\ (tok \in {"l_brace", "semi"} \/ IsExpression) /\ tok \notin BinaryOps
        /\ Complain(<< <<"ForStmt">> >>)
     \/ tok = "colon" /\ Advance(<< <<"Statement">> >>)
     \/ tok # "colon" /\ Continue(<< <<"SimpleTail", "None">> >>)

ParseReturnStmt ==
  /\ At("ReturnValues")
  /\ Continue(IF tok = "semi" THEN << >> ELSE <<ExpressionList>>)

(* ParseBreakStmt, ParseContinueStmt and ParseGotoStmt.                    *)
ParseBranchStmt ==
  \/ /\ At("Label")
     /\ IF tok = "identifier" THEN Advance(<< >>) ELSE Continue(<< >>)
  \/ /\ At("GotoLabel")
     /\ IF tok = "identifier" THEN Advance(<< >>) ELSE Complain(SkipToSemi)

-----------------------------------------------------------------------------
(* Simple statements.  Their kind is "Normal", "RangeClause",              *)
(* "Expression", "TypeSwitchGuard", or "Disarmed" for a normal statement   *)
(* that disarmed its TypeSwitchGuardParamRAII.                             *)

Outcome(r, k) ==
  /\ Stay /\ Do(<< >>) /\ ret' = r /\ kind' = k
  /\ UNCHANGED <<needsParens, guard, isType>>

ParseSimpleStmt ==
  \/ /\ At("SimpleStmt")
     /\ \/ tok = "semi" /\ Continue(<< >>)
        \/ tok \in IncDec /\ Advance(<< <<"SimpleStart", Arg(1), TRUE>> >>)
        \/ tok \notin {"semi"} \cup IncDec
           /\ Continue(<< <<"SimpleStart", Arg(1), FALSE>> >>)
  \/ /\ At("SimpleStart")
     /\ LET ext == Arg(1)
            end == <<"SimpleEnd", Arg(2), ext, guard>>
        IN /\ Quiet /\ Clear /\ guard' = FALSE /\ UNCHANGED <<needsParens, isType>>
           /\ IF tok = "identifier"
                THEN Eat /\ Do(<< <<"SimpleTail", ext>>, end>>)
                ELSE Stay /\ Do(<< <<"Expression", ext = "TypeSwitchGuard", FALSE>>,
                                   <<"AfterLHS", FALSE, ext>>, end>>)

(* The destructor of TypeSwitchGuardParamRAII, then what ParseSimpleStmt   *)
(* does with an operator before the statement (pre).                       *)
SimpleEnd ==
  /\ At("SimpleEnd")
  /\ LET pre    == Arg(1)
         parsed == Arg(2) = "TypeSwitchGuard" /\ guard
         armed  == kind \in {"Normal", "RangeClause"}
         out    == IF parsed /\ ~ armed THEN "TypeSwitchGuard"
                   ELSE IF kind = "Disarmed" THEN "Normal" ELSE kind
     IN /\ Stay /\ Do(<< >>)
        /\ IF pre \/ (parsed /\ armed) THEN Diag ELSE Quiet
        /\ ret' = IF pre THEN "fail" ELSE ret
        /\ kind' = IF pre THEN "Normal" ELSE out
        /\ guard' = Arg(3) /\ UNCHANGED <<needsParens, isType>>

ParseSimpleStmtTail ==
  /\ At("SimpleTail")
  /\ LET ext == Arg(1) IN
     Continue(IF tok \in {"comma", "colonequal"}
                THEN << <<"AfterLHS", TRUE, ext>> >>
                ELSE << <<"ExpressionTail", ext = "TypeSwitchGuard">>,
                        <<"AfterLHS", FALSE, ext>> >>)

SkipToBlock(more) == Skip({"semi", "l_brace"} \cup more, FALSE, TRUE)

ParseSimpleStmtTailAfterExpression ==
  /\ At("AfterLHS")
  /\ LET ids == Arg(1)
         ext == Arg(2)
     IN
     \/ tok = "comma" /\ Continue(<< <<"ExprList", ids>>, <<"AfterLHSList", ext>> >>)
     \/ /\ tok \in AssignOps /\ Eat /\ Plain
        /\ Do(<< <<"AfterAssign", IF ext = "SendRecv" THEN "equal" ELSE tok, ids, ext>> >>)
        /\ IF ext = "SendRecv" /\ tok # "equal" THEN Diag ELSE Quiet
     \/ tok = "colonequal" /\ Advance(<< <<"AfterColonEqual", ids, ext>> >>)
     \/ tok \in IncDec /\ Advance(<< >>)
     \/ tok = "lessminus" /\ Advance(<<Expression>>)
     \/ tok \notin {"comma", "colonequal", "lessminus"} \cup AssignOps \cup IncDec
        /\ Quiet /\ Outcome("ok", "Expression")

(* What follows "=", "+=" or ":=" after a single left-hand side.           *)
AfterOperator ==
  \/ /\ At("AfterAssign")
     /\ Continue(IF tok = "kw_range" THEN << <<"RangeClause", Arg(1), Arg(2), Arg(3)>> >>
                                     ELSE <<ExpressionList>>)
  \/ /\ At("AfterColonEqual")
     /\ LET ids == Arg(1)
            ext == Arg(2)
        IN \/ tok = "kw_range" /\ Continue(<< <<"RangeClause", "colonequal", ids, ext>> >>)
           \/ tok # "kw_range" /\ ids
              /\ Continue(<< <<"ExpressionList", ext = "TypeSwitchGuard">>,
                             <<"ShortVarDecl", "Disarmed">> >>)
           \/ tok # "kw_range" /\ ~ ids
              /\ Complain(<<SkipToBlock({}), <<"Outcome", "fail", "Disarmed">> >>)

(* After several left-hand sides; ret tells whether they are identifiers.  *)
AfterLHSList ==
  \/ /\ At("AfterLHSList")
     /\ LET ext == Arg(1)
            ops == {"colonequal"} \cup IF ext = "SendRecv" THEN {"equal"} ELSE AssignOps
        IN \/ tok \in ops /\ Advance(<< <<"AfterListOp", tok, ret = "idents", ext>> >>)
           \/ tok \notin ops
              /\ Complain(<<SkipToBlock({"colon"}), <<"Return", "fail">> >>)
  \/ /\ At("AfterListOp")
     /\ LET op == Arg(1)
            short == op = "colonequal" /\ Arg(2)
        IN \/ tok = "kw_range" /\ Continue(<< <<"RangeClause", op, Arg(2), Arg(3)>> >>)
           \/ tok # "kw_range" /\ short
              /\ Continue(<<ExpressionList, <<"ShortVarDecl", "Normal">> >>)
           \/ tok # "kw_range" /\ ~ short /\ op # "equal"
              /\ Complain(<<SkipToBlock({}), <<"Return", "fail">> >>)
           \/ tok # "kw_range" /\ op = "equal" /\ Continue(<<ExpressionList>>)

(* Sema may reject, and report, the declaration.                           *)
ParseShortVarDeclTail ==
  \/ /\ At("ShortVarDecl")
     /\ \/ Quiet /\ Outcome("ok", Arg(1))
        \/ Diag /\ Outcome("fail", Arg(1))
  \/ At("Outcome") /\ Quiet /\ Outcome(Arg(1), Arg(2))

ParseRangeClauseTail ==
  \/ /\ At("RangeClause")
     /\ LET op == Arg(1) IN
        /\ Eat /\ Do(<<Expression, <<"RangeEnd", op, Arg(2)>> >>) /\ Plain
        /\ IF Arg(3) # "RangeClause" \/ op \notin {"equal", "colonequal"}
             THEN Diag ELSE Quiet
  \/ /\ At("RangeEnd")
     /\ LET colonequal == Arg(1) = "colonequal"
            ids == Arg(2)
        IN \/ (~ colonequal \/ ids) /\ Quiet /\ Outcome("ok", "RangeClause")
           \/ ~ colonequal /\ Quiet /\ Outcome("fail", "RangeClause")
           \/ colonequal /\ Diag /\ Outcome("fail", "RangeClause")
           \/ colonequal /\ ~ ids /\ Diag /\ Outcome("ok", "RangeClause")

-----------------------------------------------------------------------------
(* The headers of "if", "switch" and "for": while one is parsed            *)
(* CompositeTypeNameLitNeedsParensRAIIObject holds the flag.  It asserts   *)
(* that it is the only one.                                                *)

SetFlag(b, steps) ==
  /\ Stay /\ Quiet /\ Do(steps) /\ Clear
  /\ needsParens' = b /\ UNCHANGED <<guard, isType>>

StartHeader(steps) ==
  IF needsParens THEN Continue(<< <<"AssertionFails">> >>) ELSE SetFlag(TRUE, steps)

(* Return from the statement with or without an error.                     *)
LeaveHeader(report) ==
  /\ Stay /\ (IF report THEN Diag ELSE Quiet) /\ Do(<< >>) /\ Clear
  /\ needsParens' = FALSE /\ UNCHANGED <<guard, isType>>

ParseIfStmt ==
  \/ At("IfStmt") /\ StartHeader(<<SimpleStmt("None"), <<"IfInit">> >>)
  \/ /\ At("IfInit")
     /\ \/ ret = "fail" /\ LeaveHeader(FALSE)
        \/ ret # "fail" /\ tok = "semi" /\ Advance(<<Expression, <<"IfThen">> >>)
        \/ ret # "fail" /\ tok # "semi" /\ kind # "Expression" /\ LeaveHeader(TRUE)
        \/ ret # "fail" /\ tok # "semi" /\ kind = "Expression" /\ Continue(<< <<"IfThen">> >>)
  \/ /\ At("IfThen")
     /\ IF tok = "l_brace" THEN SetFlag(FALSE, << <<"Block">>, <<"Else">> >>)
                           ELSE LeaveHeader(TRUE)

ParseElse ==
  \/ /\ At("Else")
     /\ IF tok = "kw_else" THEN Advance(<< <<"ElseBranch">> >>) ELSE Continue(<< >>)
  \/ /\ At("ElseBranch")
     /\ \/ tok = "kw_if" /\ Advance(<< <<"IfStmt">> >>)
        \/ tok = "l_brace" /\ Continue(<< <<"Block">> >>)
        \/ tok \notin {"kw_if", "l_brace"} /\ Complain(<< >>)

SkipToBrace == Skip({"l_brace"}, FALSE, TRUE)

ParseSwitchStmt ==
  \/ /\ At("SwitchStmt")
     /\ StartHeader(IF tok = "l_brace" THEN << <<"SwitchBody", "ExprCase">> >>
                    ELSE <<SimpleStmt("TypeSwitchGuard"), <<"SwitchInit">> >>)
  \/ /\ At("SwitchInit")
     /\ Continue((IF ret = "fail" THEN <<SkipToBrace>> ELSE << >>)
                 \o << <<"SwitchKind", kind>> >>)
  \/ /\ At("SwitchKind")
     /\ LET k == Arg(1) IN
        \/ k = "TypeSwitchGuard" /\ Continue(<< <<"SwitchBody", "TypeCase">> >>)
        \/ /\ k # "TypeSwitchGuard" /\ tok = "semi"
           /\ Advance(<<SimpleStmt("TypeSwitchGuard"), <<"SwitchTag">> >>)
        \/ /\ k \notin {"TypeSwitchGuard", "Expression"} /\ tok # "semi"
           /\ Complain(<< <<"SwitchBody", "ExprCase">> >>)
        \/ k = "Expression" /\ tok # "semi" /\ Continue(<< <<"SwitchBody", "ExprCase">> >>)
  \/ /\ At("SwitchTag")
     /\ \/ kind = "TypeSwitchGuard" /\ Continue(<< <<"SwitchBody", "TypeCase">> >>)
        \/ kind = "Expression" /\ Continue(<< <<"SwitchBody", "ExprCase">> >>)
        \/ kind \notin {"TypeSwitchGuard", "Expression"}
           /\ Complain(<< <<"SwitchBody", "ExprCase">> >>)

SwitchBody ==
  \/ /\ At("SwitchBody")
     /\ Stay /\ Clear /\ needsParens' = FALSE /\ UNCHANGED <<guard, isType>>
     /\ IF tok = "l_brace" THEN Quiet /\ Do(<< <<"CaseBlock", Arg(1)>> >>)
                           ELSE Diag /\ Do(<<SkipToBrace, <<"CaseBlock", Arg(1)>> >>)
  \/ /\ At("CaseBlock")
     /\ Open("brace", << <<"CaseClauses", Arg(1)>> >>)

ParseSelectStmt ==
  /\ At("SelectStmt")
  /\ IF tok = "l_brace" THEN Continue(<< <<"CaseBlock", "CommCase">> >>)
                        ELSE Complain(<< >>)

(* ParseSwitchCase and ParseCommCase, after "case".                        *)
CaseHead ==
  [ExprCase |-> <<ExpressionList>>,
   TypeCase |-> << <<"Type">>, <<"TypeList", FALSE, FALSE>> >>,
   CommCase |-> <<SimpleStmt("SendRecv")>>]

ParseCaseClause ==
  /\ At("CaseClauses")
  /\ LET clause == << <<"CaseColon">>, <<"CaseStmts">>, todo[1]>> IN
     \/ tok \in {"r_brace", "eof"} /\ Continue(<< >>)
     \/ tok = "kw_default" /\ Advance(clause)
     \/ tok = "kw_case" /\ Advance(CaseHead[Arg(1)] \o clause)
     \/ /\ tok \notin {"r_brace", "eof", "kw_default", "kw_case"}
        /\ Stay /\ Diag /\ Abandon(<<Skip({"r_brace"}, FALSE, FALSE)>>)

CaseStatements ==
  \/ /\ At("CaseColon")
     /\ IF tok = "colon" THEN Advance(<< >>) ELSE Complain(<< >>)
  \/ /\ At("CaseStmts")
     /\ Continue(IF tok \in {"kw_case", "kw_default", "r_brace", "eof"} THEN << >>
                 ELSE << <<"Statement">>, <<"CaseSemi">> >>)
  \/ /\ At("CaseSemi")
     /\ \/ tok = "r_brace" /\ Continue(<< >>)
        \/ tok = "semi" /\ Advance(<< <<"CaseStmts">> >>)
        \/ tok \notin {"r_brace", "semi"}
           /\ Complain(<<Skip({"semi", "r_brace"}, FALSE, TRUE), <<"CaseStmts">> >>)

ParseForStmt ==
  \/ /\ At("ForStmt")
     /\ StartHeader(IF tok = "l_brace" THEN << <<"ForBody">> >>
                    ELSE IF tok = "semi" THEN << <<"ForHead">> >>
                    ELSE <<SimpleStmt("RangeClause"), <<"ForHead">> >>)
  \/ /\ At("ForHead")
     /\ \/ ret = "fail" /\ LeaveHeader(FALSE)
        \/ ret # "fail" /\ kind # "RangeClause" /\ tok = "semi"
           /\ Advance(<< <<"ForCond">> >>)
        \/ ret # "fail" /\ kind = "RangeClause" /\ Continue(<< <<"ForBody">> >>)
        \/ ret # "fail" /\ kind = "Expression" /\ tok # "semi"
           /\ Continue(<< <<"ForBody">> >>)
        \/ ret # "fail" /\ kind \notin {"RangeClause", "Expression"} /\ tok # "semi"
           /\ Complain(<< <<"ForBody">> >>)

ForClause ==
  \/ /\ At("ForCond")
     /\ Continue((IF tok = "semi" THEN << >> ELSE <<Expression>>) \o << <<"ForSemi">> >>)
  \/ /\ At("ForSemi")
     /\ IF tok = "semi" THEN Advance(<< <<"ForPost">> >>) ELSE LeaveHeader(TRUE)
  \/ /\ At("ForPost")
     /\ Continue((IF tok = "l_brace" THEN << >> ELSE <<SimpleStmt("None")>>)
                 \o << <<"ForBody">> >>)
  \/ /\ At("ForBody")
     /\ IF tok = "l_brace" THEN SetFlag(FALSE, << <<"Block">> >>) ELSE LeaveHeader(TRUE)

-----------------------------------------------------------------------------
ParseBlock ==
  /\ At("Block")
  /\ Open("brace", << <<"Statements">> >>)

Statements ==
  \/ /\ At("Statements")
     /\ Continue(IF tok \in {"r_brace", "eof"} THEN << >>
                 ELSE << <<"Statement">>, <<"StatementSemi">> >>)
  \/ /\ At("StatementSemi")
     /\ Continue(IF tok = "r_brace" THEN << >>
                 ELSE << <<"ExpectSemi", << >>>>, <<"Statements">> >>)

StmtStep ==
  \/ ParseStatement \/ ParseIdentStmt \/ ParseReturnStmt \/ ParseBranchStmt
  \/ ParseSimpleStmt \/ SimpleEnd \/ ParseSimpleStmtTail
  \/ ParseSimpleStmtTailAfterExpression \/ AfterOperator \/ AfterLHSList
  \/ ParseShortVarDeclTail \/ ParseRangeClauseTail \/ ParseIfStmt \/ ParseElse
  \/ ParseSwitchStmt \/ SwitchBody \/ ParseSelectStmt \/ ParseCaseClause
  \/ CaseStatements \/ ParseForStmt \/ ForClause \/ ParseBlock \/ Statements
=============================================================================
