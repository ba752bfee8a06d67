----------------------------- MODULE ParserCore -----------------------------
(***************************************************************************)
(* What the recursive-descent parser is built from (Parser.h, the end of   *)
(* Parser.cpp and RAIIObjectsForParser.h): the current token and how it is *)
(* consumed, SkipUntil, the ExpectAndConsume functions and the tracker of  *)
(* a pair of delimiters.                                                   *)
(*                                                                         *)
(* The C++ call stack is the sequence todo of what the parser still has to *)
(* do, next first.  An entry is a tuple: the name of a parse function or   *)
(* of a stage of one, and its parameters.  A step handles the first entry, *)
(* and replaces it by the calls the function makes next.  A function's     *)
(* result is in ret for the entry that called it, and only until then.     *)
(*                                                                         *)
(* The source is any sequence of the token kinds of one of the sets        *)
(* Sources, followed by its end.  Scopes, identifiers, locations and what  *)
(* the Action makes of a construct are left out; where the parser acts on  *)
(* an answer of the Action, every answer is possible.                      *)
(***************************************************************************)
EXTENDS Naturals, FiniteSets, SequencesExt

CONSTANTS
  Sources,       (* sets of token kinds, one per kind of source            *)
  MaxDepth,      (* BalancedDelimiterTracker::MaxDepth                     *)
  IdentifierTypes, (* what classifyIdentifier may answer                   *)
  MaxOpen,       (* bound: delimiters the source opens and has not closed  *)
  MaxTodo        (* bound: length of todo at which a source ends           *)

ASSUME ParserAssumption ==
  /\ \A s \in Sources : IsFiniteSet(s)
  /\ MaxDepth \in Nat
  /\ MaxOpen \in [Sources -> Nat \ {0}] /\ MaxTodo \in [Sources -> Nat]

VARIABLES
  source,      (* the token kinds of this source                           *)
  tok,         (* Tok: kind of the current token                           *)
  todo,        (* what is still to be done                                 *)
  counts,      (* ParenCount, BracketCount, BraceCount                     *)
  needsParens, (* CompositeTypeNameLitNeedsParens                          *)
  ret,         (* result of the function that returned last                *)
  kind,        (* SimpleStmtKind of the simple statement parsed last       *)
  guard,       (* whether TypeSwitchGuardParam is Parsed                   *)
  isType,      (* whether TypeParam is EK_Type                             *)
  errors,      (* "none", "reported", or "silent": failed and not reported *)
  moved        (* whether the last step consumed a token                   *)

vars == <<source, tok, todo, counts, needsParens, ret, kind, guard, isType,
          errors, moved>>

Delimiters == {"paren", "square", "brace"}
Opener == [paren |-> "l_paren", square |-> "l_square", brace |-> "l_brace"]
Closer == [paren |-> "r_paren", square |-> "r_square", brace |-> "r_brace"]
Openers == {Opener[d] : d \in Delimiters}
Closers == {Closer[d] : d \in Delimiters}

Literals == {"numeric_literal", "string_literal"}

(* The kinds after which the lexer ends a line or the file with a ';'.     *)
SemiKinds == Literals \cup Closers \cup
  {"identifier", "kw_break", "kw_continue", "kw_fallthrough", "kw_return",
   "plusplus", "minusminus"}

-----------------------------------------------------------------------------
(* Steps *)

At(f)  == todo # << >> /\ todo[1][1] = f
Arg(i) == todo[1][i + 1]

Do(steps) == todo' = steps \o Tail(todo)

OpenCount(c) == c["paren"] + c["square"] + c["brace"]

(* The lexer: any kind of the source, or its end.                          *)
NextKinds ==
  LET end == IF tok \in SemiKinds THEN "semi" ELSE "eof" IN
  IF tok = "eof" \/ Len(todo) >= MaxTodo[source] THEN {end}
  ELSE {end} \cup (source \ IF OpenCount(counts') >= MaxOpen[source] THEN Openers ELSE {})

(* ConsumeAnyToken, and a mutant that lets a count go negative.            *)
Consumed_Negative(c) ==
  [d \in Delimiters |-> IF tok = Opener[d] THEN c[d] + 1
                        ELSE IF tok = Closer[d] THEN c[d] - 1 ELSE c[d]]
Consumed(c) ==
  [d \in Delimiters |-> IF tok = Opener[d] THEN c[d] + 1
                        ELSE IF tok = Closer[d] /\ c[d] > 0 THEN c[d] - 1
                        ELSE c[d]]
Eat ==
  /\ counts' = Consumed(counts)
  /\ tok' \in NextKinds
  /\ moved' = (tok # "eof")
  /\ UNCHANGED source
Stay  == moved' = FALSE /\ UNCHANGED <<source, tok, counts>>
Diag  == errors' = "reported"
Quiet == UNCHANGED errors

Clear == ret' = "ok" /\ kind' = "Normal"
Plain == Clear /\ UNCHANGED <<needsParens, guard, isType>>

(* Consume the token, leave it, or leave it and report an error; go on.    *)
Advance(steps)  == Eat  /\ Quiet /\ Do(steps) /\ Plain
Continue(steps) == Stay /\ Quiet /\ Do(steps) /\ Plain
Complain(steps) == Stay /\ Diag  /\ Do(steps) /\ Plain

(* Return a result.                                                        *)
Answer(r) == ret' = r /\ kind' = "Normal" /\ UNCHANGED <<needsParens, guard, isType>>
Return == At("Return") /\ Stay /\ Quiet /\ Do(<< >>) /\ Answer(Arg(1))
Fail   == Stay /\ Diag /\ Do(<< >>) /\ Answer("fail")

(* "if (Fail) ...".                                                        *)
OnFail ==
  /\ At("OnFail")
  /\ Continue(IF ret = "fail" THEN Arg(1) ELSE << >>)

-----------------------------------------------------------------------------
(* SkipUntil(toks, stopAtSemi, dontConsume).  first: isFirstTokenSkipped.  *)

Skip(toks, stopAtSemi, dontConsume) ==
  <<"SkipUntil", toks, stopAtSemi, dontConsume, TRUE>>

SkipToSemi == <<Skip({"semi"}, FALSE, TRUE)>>

(* SkipUntil leaves closers to the caller, except at its first token.      *)
MatchesSomething(d, first) == counts[d] > 0 /\ ~ first

SkipUntil ==
  /\ At("SkipUntil")
  /\ LET toks == Arg(1)
         stopAtSemi == Arg(2)
         dontConsume == Arg(3)
         first == Arg(4)
         again == <<"SkipUntil", toks, stopAtSemi, dontConsume, FALSE>>
     IN
     \/ tok \in toks /\ dontConsume /\ Continue(<< >>)
     \/ tok \in toks /\ ~ dontConsume /\ Advance(<< >>)
     \/ /\ tok \notin toks
        /\ \/ tok = "eof" /\ Continue(<< >>)
           \/ \E d \in Delimiters :
                /\ tok = Opener[d]
                /\ Advance(<<Skip({Closer[d]}, FALSE, FALSE), again>>)
           \/ \E d \in Delimiters :
                /\ tok = Closer[d]
                /\ IF MatchesSomething(d, first) THEN Continue(<< >>)
                                                 ELSE Advance(<<again>>)
           \/ tok = "semi" /\ stopAtSemi /\ Continue(<< >>)
           \/ /\ tok \notin Openers \cup Closers \cup {"eof"}
              /\ ~ (tok = "semi" /\ stopAtSemi)
              /\ Advance(<<again>>)

(* ExpectAndConsumeSemi, with what the caller does if it fails.            *)
ExpectSemi ==
  /\ At("ExpectSemi")
  /\ \/ tok = "semi" /\ Advance(<< >>)
     \/ tok \in {"colon", "comma"} /\ Eat /\ Diag /\ Do(<< >>) /\ Plain
     \/ tok \notin {"semi", "colon", "comma"} /\ Complain(Arg(1))

-----------------------------------------------------------------------------
(* BalancedDelimiterTracker.  Its Close entry holds the flag to restore, a *)
(* mode ("keep" leaves ret as it is) and whether the flag was cleared,     *)
(* which only a tracker that consumed its opener does.                     *)

CloseAs(d, mode, cleared) == <<"Close", d, needsParens, mode, cleared>>

(* diagnoseOverflow, which the next ';' stops as well.                     *)
SkipToEnd == Skip({"eof"}, TRUE, FALSE)

(* consumeOpen, and what its caller does if it succeeds and if it fails.   *)
Opened == needsParens' = FALSE

ConsumeOpen(d, success, failure) ==
  \/ tok # Opener[d] /\ Continue(failure)
  \/ /\ tok = Opener[d] /\ counts[d] < MaxDepth
     /\ Eat /\ Quiet /\ Do(success) /\ Clear /\ Opened /\ UNCHANGED <<guard, isType>>
  \/ /\ tok = Opener[d] /\ counts[d] >= MaxDepth
     /\ Complain(<<SkipToEnd>> \o failure)

(* Most callers do not look: they parse what is inside and close.          *)
OpenAs(d, mode, inside, after) ==
  LET tracked(cleared) == inside \o <<CloseAs(d, mode, cleared)>> \o after
  IN ConsumeOpen(d, tracked(TRUE), tracked(FALSE))
Open(d, inside) == OpenAs(d, "plain", inside, << >>)

(* consumeClose, and a mutant that does not restore the flag.              *)
Restore_Not(saved) == UNCHANGED needsParens
Restore(saved) == needsParens' = saved

ConsumeClose ==
  /\ At("Close")
  /\ LET d == Arg(1)
         mode == Arg(3)
     IN /\ Restore(Arg(2))
        /\ kind' = "Normal" /\ UNCHANGED <<guard, isType, ret>>
        /\ \/ tok = Closer[d] /\ Eat /\ Quiet /\ Do(<< >>)
           \/ /\ tok # Closer[d] /\ Stay /\ Diag
              /\ Do(<<Skip({Closer[d]}, TRUE, TRUE),
                      <<"LateClose", d, IF mode = "keep" THEN ret ELSE "unclosed">>>>)

(* The end of diagnoseMissingClose.                                        *)
LateClose ==
  /\ At("LateClose")
  /\ Quiet /\ Do(<< >>) /\ Answer(Arg(2))
  /\ IF tok = Closer[Arg(1)] THEN Eat ELSE Stay

(* Leave the scope of the tracker whose Close is the next entry.           *)
Abandon(steps) ==
  /\ needsParens' = todo[2][3]
  /\ todo' = steps \o SubSeq(todo, 3, Len(todo))
  /\ Clear /\ UNCHANGED <<guard, isType>>

(* Insert steps before the Close that is the next entry, and after it.     *)
Around(steps, after) ==
  /\ todo' = steps \o <<todo[2]>> \o after \o SubSeq(todo, 3, Len(todo))
  /\ Plain

-----------------------------------------------------------------------------
(* TypeSwitchGuardParam::Reset, where the parameter is passed on (g).      *)
(* Mutant: nothing is reported.                                            *)
Reset_Quiet(g) == Quiet /\ guard' = (guard /\ ~ g)
Reset(g) ==
  IF g /\ guard THEN Diag /\ guard' = FALSE ELSE UNCHANGED <<errors, guard>>

BinaryOps == {"plus", "star", "slash", "amp"}
UnaryOps  == {"plus", "exclaim", "star", "amp", "lessminus"}
TypeStart == {"identifier", "l_paren", "l_square", "kw_struct", "star",
              "kw_func", "kw_interface", "kw_map", "kw_chan", "lessminus"}

IsType == tok \in TypeStart
IsExpression == IsType \/ tok \in UnaryOps \/ tok \in Literals

CoreStep ==
  Return \/ OnFail \/ SkipUntil \/ ExpectSemi \/ ConsumeClose \/ LateClose
=============================================================================
