------------------------------- MODULE Parser -------------------------------
(***************************************************************************)
(* The parser as a whole: one source, from the first token of it until     *)
(* nothing is left to do, and what holds on the way.                       *)
(***************************************************************************)
EXTENDS ParserDecls, ParserStmts

Init ==
  /\ source \in Sources
  /\ tok \in source \cup {"eof"}
  /\ todo = << <<"SourceFile">> >>
  /\ counts = [d \in Delimiters |-> 0]
  /\ needsParens = FALSE
  /\ ret = "ok" /\ kind = "Normal"
  /\ guard = FALSE /\ isType = FALSE
  /\ errors = "none" /\ moved = FALSE

(* An llvm_unreachable or an assert ends the program.                      *)
Done ==
  \/ todo = << >>
  \/ At("Unreachable") \/ At("AssertionFails") \/ At("ImportAssertionFails")
Terminating == Done /\ UNCHANGED vars

Parse == CoreStep \/ DeclStep \/ TypeStep \/ ExprStep \/ StmtStep
Next == Parse \/ Terminating

Spec == Init /\ [][Next]_vars /\ WF_vars(Parse)

-----------------------------------------------------------------------------
(* The variables have their types; in particular no count of delimiters,   *)
(* an unsigned short, goes below zero.                                     *)
TypeOK ==
  /\ source \in Sources
  /\ tok \in source \cup {"semi", "eof"}
  /\ counts \in [Delimiters -> 0 .. MaxOpen[source]]
  /\ needsParens \in BOOLEAN
  /\ ret \in {"ok", "fail", "unclosed", "idents", "types", "exprs"}
  /\ kind \in {"Normal", "RangeClause", "Expression", "TypeSwitchGuard", "Disarmed"}
  /\ guard \in BOOLEAN /\ isType \in BOOLEAN
  /\ errors \in {"none", "reported", "silent"}
  /\ moved \in BOOLEAN

Headers == {"IfInit", "IfThen", "SwitchInit", "SwitchKind", "SwitchTag", "SwitchBody",
            "ForHead", "ForCond", "ForSemi", "ForPost", "ForBody"}

(* A tracker that cleared the flag, and what decides the flag at an entry: *)
(* the nearest header or such a tracker around it.                         *)
Clears(f) == f[1] = "Close" /\ f[5]
InHeader(i) ==
  \E j \in i .. Len(todo) :
    /\ todo[j][1] \in Headers
    /\ \A k \in i .. j - 1 : ~ Clears(todo[k])

(* CompositeTypeNameLitNeedsParens is set exactly while the header of an   *)
(* "if", "switch" or "for" is parsed and no tracker in it has consumed its *)
(* opener, on every way out of a construct; every tracker will restore     *)
(* what belongs to the place it was made at; and what the RAII object of a *)
(* header asserts, that no header starts while the flag is set, fails at   *)
(* most inside a tracker that was refused its opener and was parsed into   *)
(* all the same: its callers do not look, and at the depth limit it skips  *)
(* no further than to the next ';'.                                        *)
FlagMatchesHeader ==
  /\ needsParens = InHeader(1)
  /\ \A i \in 1 .. Len(todo) :
       todo[i][1] = "Close" => todo[i][3] = InHeader(i + 1)
  /\ At("AssertionFails") =>
       \E i \in 1 .. Len(todo) : todo[i][1] = "Close" /\ ~ Clears(todo[i])

(* A ".(type)" is never dropped: once it is parsed, either its statement   *)
(* becomes the guard of a type switch, or an error is reported.            *)
GuardIsUsed ==
  [][ guard /\ ~ guard' /\ errors' # "reported" =>
        \/ kind' = "TypeSwitchGuard"
        \/ \E i \in 1 .. Len(todo') : todo'[i][1] = "SimpleEnd" /\ todo'[i][4] ]_vars

(* While no error was found, the counts are those of the delimiters the    *)
(* parser is inside of: none is left open or closed twice.                 *)
BalancedUnlessError ==
  errors = "none" =>
    \A d \in Delimiters :
      counts[d] = Cardinality({i \in 1 .. Len(todo) :
                                 todo[i][1] = "Close" /\ todo[i][2] = d})

(* The parser always consumes another token or is done: no recovery from   *)
(* an error and no list loops without progress.                            *)
Progress == []<>(moved \/ Done)

(* llvm_unreachable in ParseTypeLit: a type is parsed only where one       *)
(* starts.                                                                 *)
TypesAreTypes == ~ At("Unreachable")
=============================================================================
