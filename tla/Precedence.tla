----------------------------- MODULE Precedence -----------------------------
(***************************************************************************)
(* Binary and unary expressions: the mutual recursion of ParseExpression,  *)
(* ParseRHSOfBinaryExpression, ParseUnaryExpr and ParsePrimaryExpr of      *)
(* lib/Parse/ParseExpr.cpp, with the tree it builds.                       *)
(*                                                                         *)
(* The C++ call stack is calls, innermost call first. A call is a record   *)
(* with the place it is at and its locals. What a call returns is in ret,  *)
(* until the caller takes it. The next token is any token of Vocabulary,   *)
(* chosen when it is lexed, or the end once MaxTokens have been consumed.  *)
(*                                                                         *)
(* "x" is a whole operand: what ParsePrimaryExprSuffix finds behind one    *)
(* (selectors, indices, calls, whose arguments are expressions of their    *)
(* own and whose errors ParserExprs has) belongs to it, and so it does to  *)
(* the ")" of an expression in parentheses. Hence no "(" comes next there. *)
(*                                                                         *)
(* A tree is written as its tokens, with a pair of brackets around what    *)
(* one node of the tree has built. It is Invalid when the node is.         *)
(***************************************************************************)
EXTENDS Naturals, Sequences, SequencesExt, FiniteSetsExt

CONSTANTS Vocabulary,   \* the kinds of tokens an expression has here
          MaxTokens     \* bound: tokens consumed

TokenKinds == {"x", "(", ")", "||", "&&", "==", "<", "+", "-", "*", "&", "!"}

ASSUME VocabularyAssumption == Vocabulary \subseteq TokenKinds
ASSUME MaxTokensAssumption == MaxTokens \in Nat \ {0}

VARIABLES text,         \* the tokens consumed so far
          Tok,          \* Parser::Tok
          calls,        \* the calls that have not returned
          ret,          \* what the last call returned, NoResult once it is taken
          missing,      \* history: an operand was missing
          recovered     \* history: a closing parenthesis was missing

precedenceVars == <<text, Tok, calls, ret, missing, recovered>>

Invalid == <<"invalid">>
NoResult == << >>
Eof == "eof"

(* getBinOpPrecedence: one or two operators stand for all of their level. *)
Unknown == 0
Lowest == 1
getBinOpPrecedence(kind) ==
  CASE kind = "||" -> 1
    [] kind = "&&" -> 2
    [] kind \in {"==", "<"} -> 3
    [] kind \in {"+", "-"} -> 4
    [] kind \in {"*", "&"} -> 5
    [] OTHER -> Unknown

IsUnaryOp(kind) == kind \in {"+", "-", "!", "*", "&"}

UnaryNode(op, operand) == <<"[", op>> \o operand \o <<"]">>
BinaryNode(lhs, op, rhs) == <<"[">> \o lhs \o <<op>> \o rhs \o <<"]">>
ParenNode(sub) == <<"(">> \o sub \o <<")">>

-----------------------------------------------------------------------------
(* Tokens and calls *)

ConsumeToken ==
  /\ text' = Append(text, Tok)
  /\ Tok' \in IF Len(text) + 1 < MaxTokens THEN Vocabulary \union {Eof} ELSE {Eof}

(* The last token of an operand, and ParsePrimaryExprSuffix behind it.     *)
ConsumePrimary == ConsumeToken /\ Tok' # "("

KeepToken == UNCHANGED <<text, Tok>>

Running(place) == calls # << >> /\ ret = NoResult /\ Head(calls).at = place
Returned(place) == calls # << >> /\ ret # NoResult /\ Head(calls).at = place

Return(res) == calls' = Tail(calls) /\ ret' = res

UnaryExpr == [at |-> "ParseUnaryExpr"]
RHS(lhs, MinPrec, nextTokPrec) ==
  [at |-> "loop", LHS |-> lhs, MinPrec |-> MinPrec, NextTokPrec |-> nextTokPrec]
WithOperator(c, op) ==
  [at |-> "operand", LHS |-> c.LHS, MinPrec |-> c.MinPrec, NextTokPrec |-> c.NextTokPrec, op |-> op]

-----------------------------------------------------------------------------
(* ParseUnaryExpr, ParsePrimaryExpr *)

ParseUnaryExpr ==
  /\ Running("ParseUnaryExpr") /\ IsUnaryOp(Tok)
  /\ calls' = <<UnaryExpr, [at |-> "unaryDone", op |-> Tok]>> \o Tail(calls)
  /\ ConsumeToken /\ UNCHANGED <<ret, missing, recovered>>

UnaryDone ==
  /\ Returned("unaryDone")
  /\ Return(IF ret = Invalid THEN Invalid ELSE UnaryNode(Head(calls).op, ret))
  /\ KeepToken /\ UNCHANGED <<missing, recovered>>

ParseOperand ==
  /\ Running("ParseUnaryExpr") /\ Tok = "x"
  /\ Return(<<"x">>)
  /\ ConsumePrimary /\ UNCHANGED <<missing, recovered>>

ParseParen ==
  /\ Running("ParseUnaryExpr") /\ Tok = "("
  /\ calls' = <<UnaryExpr, [at |-> "ParseExpression"], [at |-> "close"]>> \o Tail(calls)
  /\ ConsumeToken /\ UNCHANGED <<ret, missing, recovered>>

(* T.consumeClose() reports a missing parenthesis, its skipping is         *)
(* ParserCore's; the caller goes on with what it has.                      *)
ParseParenClose ==
  /\ Returned("close")
  /\ Return(IF ret = Invalid THEN Invalid ELSE ParenNode(ret))
  /\ IF Tok = ")" THEN ConsumePrimary /\ UNCHANGED recovered
                  ELSE KeepToken /\ recovered' = TRUE
  /\ UNCHANGED missing

MissingOperand ==
  /\ Running("ParseUnaryExpr") /\ ~IsUnaryOp(Tok) /\ Tok \notin {"x", "("}
  /\ Return(Invalid) /\ missing' = TRUE
  /\ KeepToken /\ UNCHANGED recovered

-----------------------------------------------------------------------------
(* ParseExpression, ParseRHSOfBinaryExpression *)

ParseExpression ==
  /\ Returned("ParseExpression")
  /\ calls' = <<RHS(ret, Lowest, getBinOpPrecedence(Tok))>> \o Tail(calls)
  /\ ret' = NoResult
  /\ KeepToken /\ UNCHANGED <<missing, recovered>>

(* The head of the loop: return, or consume the operator. *)
LoopReturns ==
  /\ Running("loop") /\ Head(calls).NextTokPrec < Head(calls).MinPrec
  /\ Return(Head(calls).LHS)
  /\ KeepToken /\ UNCHANGED <<missing, recovered>>

LoopTakesOperator ==
  /\ Running("loop") /\ Head(calls).NextTokPrec >= Head(calls).MinPrec
  /\ calls' = <<UnaryExpr, WithOperator(Head(calls), Tok)>> \o Tail(calls)
  /\ ConsumeToken /\ UNCHANGED <<ret, missing, recovered>>

(* ActOnBinaryOp unless either side is invalid, and back to the loop. *)
Combine(c, rhs) ==
  /\ calls' = <<RHS(IF Invalid \in {c.LHS, rhs} THEN Invalid ELSE BinaryNode(c.LHS, c.op, rhs),
                    c.MinPrec, getBinOpPrecedence(Tok))>> \o Tail(calls)
  /\ ret' = NoResult

(* Mutant: operators of the same level are grouped from the right. *)
TighterThan_OrAs(ThisPrec) == ThisPrec

(* MinPrec of the call that parses what binds tighter than ThisPrec. *)
TighterThan(ThisPrec) == ThisPrec + 1

OperandParsed ==
  /\ Returned("operand")
  /\ LET c == Head(calls)
         ThisPrec == c.NextTokPrec
         next == getBinOpPrecedence(Tok)
     IN  IF ThisPrec < next
         THEN /\ calls' = <<RHS(ret, TighterThan(ThisPrec), next),
                            [c EXCEPT !.at = "tighter"]>> \o Tail(calls)
              /\ ret' = NoResult
         ELSE Combine(c, ret)
  /\ KeepToken /\ UNCHANGED <<missing, recovered>>

TighterParsed ==
  /\ Returned("tighter")
  /\ Combine(Head(calls), ret)
  /\ KeepToken /\ UNCHANGED <<missing, recovered>>

PrecedenceInit ==
  /\ text = << >> /\ Tok \in Vocabulary
  /\ calls = <<UnaryExpr, [at |-> "ParseExpression"]>> /\ ret = NoResult
  /\ missing = FALSE /\ recovered = FALSE

(* The expression is not begun: nothing is enabled. *)
PrecedenceIdle ==
  /\ text = << >> /\ Tok = Eof /\ calls = << >> /\ ret = Invalid
  /\ missing = TRUE /\ recovered = FALSE

PrecedenceNext ==
  \/ ParseUnaryExpr \/ UnaryDone
  \/ ParseOperand \/ ParseParen \/ ParseParenClose \/ MissingOperand
  \/ ParseExpression \/ LoopReturns \/ LoopTakesOperator
  \/ OperandParsed \/ TighterParsed

PrecedenceSpec == PrecedenceInit /\ [][PrecedenceNext]_precedenceVars

-----------------------------------------------------------------------------
(* What the specification of the language says of a sequence of tokens, as *)
(* OperatorPrecedence.h quotes it: the operator that binds least is the    *)
(* root, the last one where there are several, and unary operators bind    *)
(* more than any.                                                          *)

DepthAt(ts, i) ==
  Cardinality({j \in 1 .. i - 1 : ts[j] = "("}) - Cardinality({j \in 1 .. i : ts[j] = ")"})

BinaryAt(ts, i) == /\ i > 1 /\ ts[i - 1] \in {"x", ")"}
                   /\ getBinOpPrecedence(ts[i]) # Unknown

Roots(ts) == {i \in DOMAIN ts : BinaryAt(ts, i) /\ DepthAt(ts, i) = 0}

Root(ts) ==
  LET least == Min({getBinOpPrecedence(ts[i]) : i \in Roots(ts)})
  IN  Max({i \in Roots(ts) : getBinOpPrecedence(ts[i]) = least})

Grouping[ts \in Seq(TokenKinds)] ==
  IF Len(ts) <= 1 THEN ts
  ELSE IF Roots(ts) # {}
  THEN BinaryNode(Grouping[SubSeq(ts, 1, Root(ts) - 1)], ts[Root(ts)],
                  Grouping[SubSeq(ts, Root(ts) + 1, Len(ts))])
  ELSE IF IsUnaryOp(ts[1]) THEN UnaryNode(ts[1], Grouping[SubSeq(ts, 2, Len(ts))])
  ELSE ParenNode(Grouping[SubSeq(ts, 2, Len(ts) - 1)])

(* The tree is the one the language gives the tokens: ParseExpression stops *)
(* at the first token that cannot go on, the precedence of each operator,  *)
(* binary or unary, and the grouping from the left are respected, and the  *)
(* result is invalid just if an operand was missing anywhere. (A comment   *)
(* in ParseRHSOfBinaryExpression has A+B+C+D grouped from the right, which *)
(* neither the language nor the code does.)                                *)
TreeFollowsPrecedence ==
  calls = << >> /\ ~recovered =>
    IF missing THEN ret = Invalid
    ELSE getBinOpPrecedence(Tok) = Unknown /\ ret = Grouping[text]
=============================================================================
