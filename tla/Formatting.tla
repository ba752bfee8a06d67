----------------------------- MODULE Formatting -----------------------------
(***************************************************************************)
(* The text of a diagnostic: Diagnostic::FormatDiagnostic and the handlers *)
(* of modifiers in lib/Basic/Diagnostic.cpp, which expand a description    *)
(* like "%0 %select{has|lacks}1 %2 item%s2" with the arguments given.      *)
(*                                                                         *)
(* A description is a sequence of elements: the characters with a meaning, *)
(* digits, the name of a modifier, a piece of text. FormatDiagnostic calls *)
(* itself for the option a modifier has chosen; calls are the pieces of    *)
(* the description that are still to be formatted, innermost first, each   *)
(* with what DiagStr and DiagEnd point at.                                 *)
(***************************************************************************)
EXTENDS Integers, Sequences, SequencesExt, FiniteSetsExt

CONSTANTS Words,         \* pieces of text
          Descriptions,  \* the descriptions considered, as trees, see below
          MaxNesting,    \* no option of a modifier is nested deeper in these
          Arguments      \* lists of arguments, each good for every description

VARIABLES tree,          \* the description
          Diag,          \* its elements
          args,
          pieces,        \* calls that have not returned: [DiagStr, DiagEnd]
          OutStr

formattingVars == <<tree, Diag, args, pieces, OutStr>>

DigitChars == <<"0", "1", "2", "3", "4", "5", "6", "7", "8", "9">>
Punctuation == {"%", "{", "}", "|", ":", ",", "[", "]", "="}
Modifiers == {"select", "s", "plural", "ordinal"}
isdigit(c) == c \in ToSet(DigitChars)
ispunct(c) == c \in Punctuation
DigitValue(c) == CHOOSE n \in 0 .. 9 : isdigit(c) => c = DigitChars[n + 1]

(* Decimal numbers. *)
Numeral[n \in Nat] == IF n < 10 THEN <<DigitChars[n + 1]>>
                      ELSE Append(Numeral[n \div 10], DigitChars[(n % 10) + 1])

(* A word has none of the characters that say something outside of tests. *)
ASSUME WordsAssumption == \A w \in Words : w \in STRING /\ w \notin {"%", "|", "}"}

IntKinds == {"ak_sint", "ak_uint"}
ArgumentKinds == IntKinds \union {"ak_c_string", "ak_std_string", "ak_identifierinfo"}
ASSUME ArgumentsAssumption == Arguments \subseteq Seq([kind : ArgumentKinds, value : Nat])

(* What n turns of a loop make of x. *)
Repeated(F, x, n) == LET turn[k \in Nat] == IF k = 0 THEN x ELSE F[turn[k - 1]] IN turn[n]

(* std::find *)
Find(str, from, end, c) == Min({end} \union {i \in from .. end - 1 : str[i] = c})

-----------------------------------------------------------------------------
(* Scanning *)

(* ScanFormat: the first target outside of all braces of modifiers, or end. *)
ScanFormat(str, from, end, target) ==
  LET (* Where a modifier's name ends: at a digit or a brace. *)
      NameEnd(i) == Min({end} \union {j \in i .. end - 1 : isdigit(str[j]) \/ str[j] = "{"})
      at[s \in (from .. end + 1) \X Nat] ==
        LET i == s[1]
            depth == IF i < end /\ s[2] # 0 /\ str[i] = "}" THEN s[2] - 1 ELSE s[2]
        IN  IF i >= end THEN end
            ELSE IF s[2] = 0 /\ str[i] = target THEN i
            ELSE IF str[i] # "%" THEN at[<<i + 1, depth>>]
            ELSE IF i + 1 = end THEN end
            ELSE IF isdigit(str[i + 1]) \/ ispunct(str[i + 1]) THEN at[<<i + 2, depth>>]
            ELSE LET j == NameEnd(i + 2)
                 IN  IF j = end THEN end
                     ELSE at[<<j + 1, IF str[j] = "{" THEN depth + 1 ELSE depth>>]
  IN  at[<<from, 0>>]

(* PluralNumber: the digits from a place on, and where they end. *)
NumberEnd(str, from, end) == Min({end} \union {i \in from .. end - 1 : ~isdigit(str[i])})
PluralNumber(str, from, end) ==
  LET Val[k \in Nat] == IF k = 0 THEN 0 ELSE 10 * Val[k - 1] + DigitValue(str[from + k - 1])
  IN  Val[NumberEnd(str, from, end) - from]

(* TestPluralRange, and where it leaves Start. *)
TestPluralRange(val, str, from, end) ==
  IF str[from] # "[" THEN PluralNumber(str, from, end) = val
  ELSE LET comma == NumberEnd(str, from + 1, end)
       IN  /\ PluralNumber(str, from + 1, end) <= val
           /\ val <= PluralNumber(str, comma + 1, end)

RangeEnd(str, from, end) ==
  IF str[from] # "[" THEN NumberEnd(str, from, end)
  ELSE NumberEnd(str, NumberEnd(str, from + 1, end) + 1, end) + 1

(* Mutant: a second condition is not looked at. *)
EvalPluralExpr_First(val, str, from, end) ==
  LET eq == NumberEnd(str, from + 1, end)
  IN  \/ str[from] = ":"
      \/ str[from] = "%" /\ TestPluralRange(val % PluralNumber(str, from + 1, end), str, eq + 1, end)
      \/ str[from] # "%" /\ TestPluralRange(val, str, from, end)

(* One condition, for the value or for the value modulo a number. *)
AfterModulus(str, i, end) == IF str[i] = "%" THEN NumberEnd(str, i + 1, end) + 1 ELSE i
Condition(val, str, i, end) ==
  TestPluralRange(IF str[i] = "%" THEN val % PluralNumber(str, i + 1, end) ELSE val,
                  str, AfterModulus(str, i, end), end)

(* EvalPluralExpr: an empty condition, or one of the conditions holds.     *)
(* The next one is behind the next comma.                                  *)
EvalPluralExpr(val, str, from, end) ==
  LET Next == [i \in 1 .. end + 1 |->
                 Find(str, RangeEnd(str, AfterModulus(str, i, end), end), end, ",") + 1]
  IN  \/ str[from] = ":"
      \/ \E n \in 0 .. end - from :
           LET i == Repeated(Next, from, n) IN i <= end /\ Condition(val, str, i, end)

-----------------------------------------------------------------------------
(* Modifiers: the option of a list that is formatted, as a piece. *)

HandleSelectModifier(val, from, end) ==
  LET Next == [i \in 1 .. end + 1 |-> ScanFormat(Diag, i, end, "|") + 1]
      begin == Repeated(Next, from, val)
  IN  [DiagStr |-> begin, DiagEnd |-> ScanFormat(Diag, begin, end, "|")]

HandlePluralModifier(val, from, end) ==
  LET Next == [i \in 1 .. end |-> ScanFormat(Diag, i, end - 1, "|") + 1]
      begin(n) == Repeated(Next, from, n)
      ExprEnd(n) == Find(Diag, begin(n), end, ":")
      Matches(n) == EvalPluralExpr(val, Diag, begin(n), ExprEnd(n))
      first == CHOOSE n \in 0 .. end - from : Matches(n) /\ \A m \in 0 .. n - 1 : ~Matches(m)
  IN  [DiagStr |-> ExprEnd(first) + 1, DiagEnd |-> ScanFormat(Diag, ExprEnd(first) + 1, end, "|")]

OrdinalSuffix(n) ==
  IF n % 100 \in 11 .. 13 THEN "th"
  ELSE CASE n % 10 = 1 -> "st" [] n % 10 = 2 -> "nd" [] n % 10 = 3 -> "rd" [] OTHER -> "th"

(* An argument without a modifier. *)
Spelling(arg) ==
  CASE arg.kind \in IntKinds -> Numeral[arg.value]
    [] arg.kind \in {"ak_c_string", "ak_identifierinfo"} /\ arg.value = 0 -> <<"(null)">>
    [] arg.kind = "ak_identifierinfo" -> <<"'", "name", "'">>
    [] OTHER -> <<"string">>

-----------------------------------------------------------------------------
(* Actions: the turns of FormatDiagnostic's loop *)

Piece == Head(pieces)
At(i) == Diag[Piece.DiagStr + i]
More == pieces # << >> /\ Piece.DiagStr # Piece.DiagEnd
GoOnAt(i) == <<[Piece EXCEPT !.DiagStr = i]>> \o Tail(pieces)

CopyText ==
  /\ More /\ At(0) # "%"
  /\ LET strEnd == Find(Diag, Piece.DiagStr, Piece.DiagEnd, "%")
     IN  /\ OutStr' = OutStr \o SubSeq(Diag, Piece.DiagStr, strEnd - 1)
         /\ pieces' = GoOnAt(strEnd)
  /\ UNCHANGED <<tree, Diag, args>>

Escape ==
  /\ More /\ At(0) = "%" /\ ispunct(At(1))
  /\ OutStr' = Append(OutStr, At(1))
  /\ pieces' = GoOnAt(Piece.DiagStr + 2)
  /\ UNCHANGED <<tree, Diag, args>>

PlainArgument ==
  /\ More /\ At(0) = "%" /\ isdigit(At(1))
  /\ OutStr' = OutStr \o Spelling(args[DigitValue(At(1)) + 1])
  /\ pieces' = GoOnAt(Piece.DiagStr + 2)
  /\ UNCHANGED <<tree, Diag, args>>

(* A modifier, with its options in braces if a brace follows, then the     *)
(* number of the argument.                                                 *)
ModifiedArgument ==
  /\ More /\ At(0) = "%" /\ At(1) \in Modifiers
  /\ LET from == Piece.DiagStr + 3
         end == IF At(2) = "{" THEN ScanFormat(Diag, from, Piece.DiagEnd, "}") ELSE Piece.DiagStr + 1
         val == args[DigitValue(Diag[end + 1]) + 1].value
     IN  CASE At(1) = "select" ->
                /\ pieces' = <<HandleSelectModifier(val, from, end)>> \o GoOnAt(end + 2)
                /\ UNCHANGED OutStr
           [] At(1) = "plural" ->
                /\ pieces' = <<HandlePluralModifier(val, from, end)>> \o GoOnAt(end + 2)
                /\ UNCHANGED OutStr
           [] At(1) = "s" ->
                /\ OutStr' = IF val # 1 THEN Append(OutStr, "s") ELSE OutStr
                /\ pieces' = GoOnAt(end + 2)
           [] At(1) = "ordinal" ->
                /\ OutStr' = OutStr \o Append(Numeral[val], OrdinalSuffix(val))
                /\ pieces' = GoOnAt(end + 2)
  /\ UNCHANGED <<tree, Diag, args>>

ReturnFromPiece ==
  /\ pieces # << >> /\ Piece.DiagStr = Piece.DiagEnd
  /\ pieces' = Tail(pieces)
  /\ UNCHANGED <<tree, Diag, args, OutStr>>

FormattingNext == CopyText \/ Escape \/ PlainArgument \/ ModifiedArgument \/ ReturnFromPiece

-----------------------------------------------------------------------------
(* Descriptions as trees. A tree is a sequence of nodes:                   *)
(*   [node: "text", "escape"; word]          a word, a character after %   *)
(*   [node: "argument", "s", "ordinal"; arg] the number of an argument     *)
(*   [node: "select"; arg, options]          a sequence of trees           *)
(*   [node: "plural"; arg, options]          a sequence of [tests, form]:  *)
(*      a test [mod, low, high] is for the value, modulo mod if mod # 0;   *)
(*      no tests are for every value                                       *)

PluralTests == [mod : Nat, low : Nat, high : Nat]
Nodes(trees) ==
  [node : {"text"}, word : Words] \union [node : {"escape"}, word : Punctuation]
  \union [node : {"argument", "s", "ordinal"}, arg : 0 .. 9]
  \union [node : {"select"}, arg : 0 .. 9, options : Seq(trees)]
  \union [node : {"plural"}, arg : 0 .. 9, options : Seq([tests : Seq(PluralTests), form : trees])]

Passes(t, val) == LET v == IF t.mod = 0 THEN val ELSE val % t.mod IN t.low <= v /\ v <= t.high
Fitting(options, val) ==
  {i \in DOMAIN options : \/ options[i].tests = << >>
                          \/ \E j \in DOMAIN options[i].tests : Passes(options[i].tests[j], val)}

(* The argument is there and of a kind that the modifier is for, and one   *)
(* of the options is for its value.                                        *)
GoodFor(n, as) ==
  n.node \notin {"text", "escape"} =>
    /\ n.arg < Len(as)
    /\ n.node # "argument" => as[n.arg + 1].kind \in IntKinds
    /\ n.node = "select" => as[n.arg + 1].value < Len(n.options)
    /\ n.node = "plural" => Fitting(n.options, as[n.arg + 1].value) # {}

(* The trees in which options are nested at most d deep. *)
Trees[d \in Nat] ==
  IF d = 0 THEN {<< >>}
  ELSE Seq({n \in Nodes(Trees[d - 1]) : \A as \in Arguments : GoodFor(n, as)})

ASSUME DescriptionsAssumption == MaxNesting \in Nat /\ \A t \in Descriptions : t \in Trees[MaxNesting]

(* How a tree is written in a description. *)
SpellTest(t) ==
  (IF t.mod = 0 THEN << >> ELSE <<"%">> \o Numeral[t.mod] \o <<"=">>)
  \o (IF t.low = t.high THEN Numeral[t.low]
      ELSE <<"[">> \o Numeral[t.low] \o <<",">> \o Numeral[t.high] \o <<"]">>)

Joined(ss, separator) ==
  FlattenSeq([i \in DOMAIN ss |-> IF i = 1 THEN ss[i] ELSE <<separator>> \o ss[i]])

SpellForm(option, spelled) ==
  Joined([j \in DOMAIN option.tests |-> SpellTest(option.tests[j])], ",") \o <<":">>
  \o spelled[option.form]

SpellNode(n, spelled) ==
  CASE n.node = "text" -> <<n.word>>
    [] n.node = "escape" -> <<"%", n.word>>
    [] n.node = "argument" -> <<"%">> \o Numeral[n.arg]
    [] n.node \in {"s", "ordinal"} -> <<"%", n.node>> \o Numeral[n.arg]
    [] n.node = "select" ->
         <<"%", "select", "{">> \o Joined([i \in DOMAIN n.options |-> spelled[n.options[i]]], "|")
         \o <<"}">> \o Numeral[n.arg]
    [] n.node = "plural" ->
         <<"%", "plural", "{">>
         \o Joined([i \in DOMAIN n.options |-> SpellForm(n.options[i], spelled)], "|")
         \o <<"}">> \o Numeral[n.arg]

Spell[d \in Nat] ==
  IF d = 0 THEN [t \in {<< >>} |-> << >>]
  ELSE [t \in Trees[d] |-> FlattenSeq([i \in DOMAIN t |-> SpellNode(t[i], Spell[d - 1])])]

(* What a tree says with these arguments. *)
NodeMeaning(n, as, meaning) ==
  CASE n.node \in {"text", "escape"} -> <<n.word>>
    [] n.node = "argument" -> Spelling(as[n.arg + 1])
    [] n.node = "s" -> IF as[n.arg + 1].value = 1 THEN << >> ELSE <<"s">>
    [] n.node = "ordinal" ->
         Append(Numeral[as[n.arg + 1].value], OrdinalSuffix(as[n.arg + 1].value))
    [] n.node = "select" -> meaning[n.options[as[n.arg + 1].value + 1]]
    [] n.node = "plural" ->
         meaning[n.options[Min(Fitting(n.options, as[n.arg + 1].value))].form]

Meaning[d \in Nat] ==
  [as \in Arguments |->
     IF d = 0 THEN [t \in {<< >>} |-> << >>]
     ELSE [t \in Trees[d] |-> FlattenSeq([i \in DOMAIN t |-> NodeMeaning(t[i], as, Meaning[d - 1][as])])]]

FormattingInit ==
  /\ tree \in Descriptions /\ args \in Arguments
  /\ Diag = Spell[MaxNesting][tree]
  /\ pieces = <<[DiagStr |-> 1, DiagEnd |-> Len(Diag) + 1]>>
  /\ OutStr = << >>

FormattingSpec == FormattingInit /\ [][FormattingNext]_formattingVars

(* There is nothing to format: nothing is enabled. *)
FormattingIdle ==
  /\ tree = << >> /\ args = CHOOSE as \in Arguments : TRUE
  /\ Diag = << >> /\ pieces = << >> /\ OutStr = << >>

(* FormatDiagnostic says what the description means: the scan for the      *)
(* option that is chosen, and for the end of all options, is not misled by *)
(* the braces, bars and escapes of other options or of options inside an   *)
(* option, and of several plural forms the first that fits is taken.       *)
SaysWhatIsDescribed == pieces = << >> => OutStr = Meaning[MaxNesting][args][tree]
=============================================================================
