------------------------------ MODULE Snippets ------------------------------
(***************************************************************************)
(* What a text diagnostic prints below its message: the line of source,    *)
(* the caret with the highlighted ranges, and the line of fix-it hints     *)
(* (TextDiagnostic::emitSnippetAndCaret in lib/Frontend/TextDiagnostic.cpp *)
(* and what it calls, DiagnosticRenderer::emitDiagnostic around it).       *)
(*                                                                         *)
(* Locations are offsets in bytes, what is printed is in columns, and the  *)
(* two differ. A line is a sequence of characters:                         *)
(*   "a"            one byte, one column                                   *)
(*   "blank", "tab" a space; a tab, as wide as it takes                    *)
(*   "two"          two bytes, one column (a letter of UTF-8)              *)
(*   "wide"         three bytes, two columns (an ideograph)                *)
(*   "control"      one byte that does not print, shown as <U+0001>        *)
(*   "stray"        one byte that is no UTF-8, shown as <80>               *)
(* Byte offsets and columns count from 0, as in the code; the strings that *)
(* are printed are sequences, so that column c is element c + 1.           *)
(***************************************************************************)
EXTENDS Integers, Sequences, SequencesExt, FiniteSetsExt

CONSTANTS Lines,      \* the lines of source considered
          TabStop,    \* DiagnosticOptions::TabStop
          MaxParts,   \* bound: ranges and fix-it hints of one diagnostic
          MaxText     \* bound: letters that a hint inserts

Characters == {"a", "blank", "tab", "two", "wide", "control", "stray"}

ASSUME LinesAssumption == \A l \in Lines : l \in Seq(Characters)
ASSUME NumbersAssumption == TabStop \in Nat \ {0} /\ MaxParts \in Nat /\ MaxText \in Nat

VARIABLES line,       \* the line the locations are in
          stage,      \* what emitSnippetAndCaret does next
          diagnostic, \* the one being printed
          CaretLine, FixItInsertionLine,
          PrevHintEndCol,
          printed,    \* the line as printed: for each column, the character it shows
          LastLoc, LastLevel

snippetVars == <<line, stage, diagnostic, CaretLine, FixItInsertionLine,
                 PrevHintEndCol, printed, LastLoc, LastLevel>>

-----------------------------------------------------------------------------
(* Bytes and columns *)

Bytes(c) == CASE c = "two" -> 2 [] c = "wide" -> 3 [] OTHER -> 1

IsBlank(c) == c \in {"blank", "tab"}

(* For each k the sum of the first k - 1 widths.                           *)
Totals(widths) ==
  LET Upto[k \in 1 .. Len(widths) + 1] ==
        IF k = 1 THEN 0 ELSE Upto[k - 1] + widths[k - 1]
  IN  Upto

(* The byte at which character k of l begins; that after the last character *)
(* is the size of l.                                                       *)
Start(l, k) == Totals([j \in DOMAIN l |-> Bytes(l[j])])[k]
Size(l) == Start(l, Len(l) + 1)
Starts(l) == {Start(l, k) : k \in 1 .. Len(l) + 1}
Owner(l, b) == CHOOSE k \in DOMAIN l : Start(l, k) <= b /\ b < Start(l, k + 1)
BlankAt(l, b) == IsBlank(l[Owner(l, b)])

bytesSincePreviousTabOrLineBegin(l, k) ==
  LET tabs == {j \in 1 .. k - 1 : l[j] = "tab"}
  IN  Start(l, k) - (IF tabs = {} THEN 0 ELSE Start(l, Max(tabs) + 1))

(* The number of columns of printableTextForNextCharacter. *)
printableWidth(l, k) ==
  CASE l[k] = "tab" -> TabStop - (bytesSincePreviousTabOrLineBegin(l, k) % TabStop)
    [] l[k] = "wide" -> 2
    [] l[k] = "control" -> 8
    [] l[k] = "stray" -> 4
    [] OTHER -> 1

(* Column at which each character begins, and the number of columns. *)
Column(l, k) == Totals([j \in DOMAIN l |-> printableWidth(l, j)])[k]
Columns(l) == Column(l, Len(l) + 1)

(* Mutant: every byte takes a column. *)
byteToColumn_Identity(l) == [b \in 0 .. Size(l) |-> b]

(* SourceColumnMap *)
byteToColumn(l) ==
  [b \in 0 .. Size(l) |->
     IF b \in Starts(l) THEN Column(l, CHOOSE k \in 1 .. Len(l) + 1 : Start(l, k) = b) ELSE -1]

byteToContainingColumn(l, b) ==
  byteToColumn(l)[Max({n \in 0 .. b : byteToColumn(l)[n] # -1})]

-----------------------------------------------------------------------------
(* Ranges *)

(* A range relative to the line of the caret: where it begins and where its *)
(* last token begins, each on an earlier line, this one or a later one.    *)
EarlierLine == -1
LaterLine == -2
NoRange == [begin |-> LaterLine, end |-> LaterLine, tokenLength |-> 0]

TokenStarts(l) == {Start(l, k) : k \in {j \in DOMAIN l : ~IsBlank(l[j])}}
TokenEnds(l) == {Start(l, k + 1) : k \in {j \in DOMAIN l : ~IsBlank(l[j])}}

(* Where a diagnostic or a hint can be: at a token, behind one (at a blank, *)
(* mostly: Lexer::getLocForEndOfToken), or at the end of the line.         *)
Locations(l) == TokenStarts(l) \union TokenEnds(l) \union {Size(l)}

(* The ranges a diagnostic can have: they begin and end with tokens, which *)
(* may go on behind the end of the line (a raw string); one that does both *)
(* on other lines covers a line with a token, or is not about this line.   *)
Ranges(l) ==
  {NoRange} \union
  {[begin |-> b, end |-> LaterLine, tokenLength |-> 1] :
     b \in TokenStarts(l) \union {n \in {EarlierLine} : TokenStarts(l) # {}}} \union
  {r \in [begin : TokenStarts(l) \union {EarlierLine}, end : TokenStarts(l), tokenLength : 1 .. Size(l) + 1] :
     /\ r.begin <= r.end
     /\ \/ r.end + r.tokenLength > Size(l)
        \/ /\ r.end + r.tokenLength \in Starts(l)
           /\ ~BlankAt(l, r.end + r.tokenLength - 1)}

Space == " "

(* std::string::resize to a size that is not less. *)
Filled(s, n, blank) == [i \in 1 .. Max({Len(s), n}) |-> IF i <= Len(s) THEN s[i] ELSE blank]

(* The two loops of highlightRange that leave out blanks. *)
SkipBlanksFrom(l, b) == Min({n \in Starts(l) : n >= b /\ (n = Size(l) \/ ~BlankAt(l, n))})
SkipBlanksBefore(l, e) == Max({n \in Starts(l) : n <= e /\ (n <= 1 \/ ~BlankAt(l, n - 1))})

highlightRange(l, r, caretLine) ==
  IF r.begin = LaterLine THEN caretLine
  ELSE LET StartByte == SkipBlanksFrom(l, IF r.begin = EarlierLine THEN 0 ELSE r.begin)
           EndByte == SkipBlanksBefore(l, IF r.end = LaterLine THEN Size(l)
                                          ELSE Min({r.end + r.tokenLength, Size(l)}))
           StartCol == byteToContainingColumn(l, StartByte)
           EndCol == byteToContainingColumn(l, EndByte)
           filled == Filled(caretLine, EndCol, Space)
       IN  [c \in DOMAIN filled |-> IF StartCol < c /\ c <= EndCol THEN "~" ELSE filled[c]]

-----------------------------------------------------------------------------
(* Hints: an insertion before a byte of this line or on another one. Whose *)
(* text it is matters, not what the text says: a letter in the line of     *)
(* hints is the number of the hint that it belongs to.                     *)

OtherLine == -1
NoLetter == 0
Hints(l) == [at : Locations(l), length : 1 .. MaxText] \union
            {[at |-> OtherLine, length |-> 1]}

(* Mutant: one hint may be written over another. *)
HintColumn_InPlace(l, hint, prevEnd) == byteToContainingColumn(l, hint.at)

(* HintCol is moved if the text before it reaches further. *)
HintColumn(l, hint, prevEnd) ==
  LET col == byteToContainingColumn(l, hint.at)
  IN  IF col < prevEnd THEN prevEnd + 1 ELSE col

-----------------------------------------------------------------------------
(* Actions *)

NoDiagnostic == [Loc |-> -1, Level |-> "note", Ranges |-> << >>, Hints |-> << >>, next |-> 1]

SnippetInit ==
  /\ line \in Lines
  /\ stage = "idle" /\ diagnostic = NoDiagnostic
  /\ CaretLine = << >> /\ FixItInsertionLine = << >> /\ PrevHintEndCol = 0
  /\ printed = << >> /\ LastLoc = -1 /\ LastLevel = "none"

(* No line is looked at: nothing is enabled. *)
SnippetIdle ==
  /\ line = << >> /\ stage = "none" /\ diagnostic = NoDiagnostic
  /\ CaretLine = << >> /\ FixItInsertionLine = << >> /\ PrevHintEndCol = 0
  /\ printed = << >> /\ LastLoc = -1 /\ LastLevel = "none"

(* emitDiagnostic with a location: the ranges hints remove are empty or     *)
(* have been added to the ranges. LastLoc and LastLevel, which it sets in   *)
(* the end, are read in this step only, so they are set here.              *)
emitDiagnostic ==
  /\ stage = "idle"
  /\ \E loc \in Locations(line), level \in {"note", "error"},
        ranges \in BoundedSeq(Ranges(line), MaxParts), hints \in BoundedSeq(Hints(line), MaxParts) :
       /\ Len(ranges) + Len(hints) <= MaxParts
       /\ diagnostic' = [Loc |-> loc, Level |-> level, Ranges |-> ranges, Hints |-> hints,
                         next |-> 1]
       /\ IF /\ loc = LastLoc /\ ranges = << >> /\ hints = << >>
             /\ (LastLevel # "note" \/ level = LastLevel)
          THEN stage' = "suppressed" /\ UNCHANGED CaretLine
          ELSE stage' = "ranges" /\ CaretLine' = Filled(<< >>, Size(line), Space)
       /\ LastLoc' = loc /\ LastLevel' = level
  /\ UNCHANGED <<line, FixItInsertionLine, PrevHintEndCol, printed>>

(* The ranges and then the caret over them. *)
DrawCaretLine ==
  /\ stage = "ranges" /\ stage' = "hints"
  /\ LET Drawn[i \in 0 .. Len(diagnostic.Ranges)] ==
           IF i = 0 THEN CaretLine
           ELSE highlightRange(line, diagnostic.Ranges[i], Drawn[i - 1])
         ColNo == byteToContainingColumn(line, diagnostic.Loc)
     IN  CaretLine' = [Filled(Drawn[Len(diagnostic.Ranges)], ColNo + 1, Space) EXCEPT
                         ![ColNo + 1] = "^"]
  /\ UNCHANGED <<line, diagnostic, FixItInsertionLine, PrevHintEndCol, printed,
                 LastLoc, LastLevel>>

(* One hint of buildFixItInsertionLine; one on another line clears it all. *)
insertHint ==
  /\ stage = "hints" /\ diagnostic.next <= Len(diagnostic.Hints)
  /\ LET hint == diagnostic.Hints[diagnostic.next]
         col == HintColumn(line, hint, PrevHintEndCol)
         end == col + hint.length
         filled == Filled(FixItInsertionLine, end, NoLetter)
     IN  IF hint.at = OtherLine
         THEN /\ FixItInsertionLine' = << >> /\ stage' = "snippet"
              /\ UNCHANGED <<PrevHintEndCol, diagnostic>>
         ELSE /\ FixItInsertionLine' =
                   [c \in DOMAIN filled |->
                      IF col < c /\ c <= end THEN diagnostic.next ELSE filled[c]]
              /\ PrevHintEndCol' = end
              /\ diagnostic' = [diagnostic EXCEPT !.next = @ + 1]
              /\ UNCHANGED stage
  /\ UNCHANGED <<line, CaretLine, printed, LastLoc, LastLevel>>

(* The line, character by character, and the caret line without the blanks *)
(* at its end.                                                             *)
emitSnippet ==
  /\ stage = "snippet" \/ (stage = "hints" /\ diagnostic.next > Len(diagnostic.Hints))
  /\ stage' = "printed"
  /\ printed' = FlattenSeq([k \in DOMAIN line |-> [c \in 1 .. printableWidth(line, k) |-> k]])
  /\ CaretLine' = SubSeq(CaretLine, 1, Max({c \in DOMAIN CaretLine : CaretLine[c] # Space}))
  /\ UNCHANGED <<line, diagnostic, FixItInsertionLine, PrevHintEndCol, LastLoc, LastLevel>>

(* The end of emitDiagnostic; the strings were locals.                     *)
endDiagnostic ==
  /\ stage \in {"printed", "suppressed"} /\ stage' = "idle"
  /\ diagnostic' = NoDiagnostic
  /\ CaretLine' = << >> /\ FixItInsertionLine' = << >> /\ PrevHintEndCol' = 0
  /\ printed' = << >> /\ UNCHANGED <<line, LastLoc, LastLevel>>

SnippetNext == emitDiagnostic \/ DrawCaretLine \/ insertHint \/ emitSnippet \/ endDiagnostic

SnippetSpec == SnippetInit /\ [][SnippetNext]_snippetVars

-----------------------------------------------------------------------------
(* The characters of a range that lie on the line, without the blanks at   *)
(* either end.                                                             *)
Highlighted(l, r) ==
  LET first == IF r.begin = EarlierLine THEN 0 ELSE r.begin
      end == IF r.end = LaterLine THEN Size(l) ELSE r.end + r.tokenLength
      seen == {k \in DOMAIN l : ~IsBlank(l[k]) /\ first <= Start(l, k) /\ Start(l, k) < end}
  IN  IF r.begin = LaterLine \/ seen = {} THEN {} ELSE Min(seen) .. Max(seen)

(* What is printed below the line points at what the locations mean,       *)
(* whatever tabs and characters of several bytes or columns there are: the *)
(* column maps, made first, agree with what emitSnippet prints in the end. *)
(* The caret is below the first column of the character it is for, or just *)
(* behind the line; and highlighted is every column of every character     *)
(* from the first to the last of a range, no blank before or behind it,    *)
(* and nothing behind the line.                                            *)
MarksUnderText ==
  stage = "printed" =>
    LET caret == CHOOSE c \in DOMAIN CaretLine : CaretLine[c] = "^"
    IN  /\ IF diagnostic.Loc = Size(line) THEN caret = Len(printed) + 1
           ELSE /\ printed[caret] = Owner(line, diagnostic.Loc)
                /\ caret > 1 => printed[caret - 1] # printed[caret]
        /\ \A c \in (DOMAIN CaretLine \union DOMAIN printed) \ {caret} :
             c \in DOMAIN CaretLine /\ CaretLine[c] = "~" <=>
               /\ c \in DOMAIN printed
               /\ \E i \in DOMAIN diagnostic.Ranges :
                    printed[c] \in Highlighted(line, diagnostic.Ranges[i])

(* Every hint can be read: unless one is for another line, each text is    *)
(* there in one piece, not before the place it is for, and no hint is      *)
(* written over another, in whatever order they come.                      *)
HintsReadable ==
  stage = "printed" =>
    IF \E i \in DOMAIN diagnostic.Hints : diagnostic.Hints[i].at = OtherLine
    THEN FixItInsertionLine = << >>
    ELSE \A i \in DOMAIN diagnostic.Hints :
           LET hint == diagnostic.Hints[i]
               where == {c \in DOMAIN FixItInsertionLine : FixItInsertionLine[c] = i}
           IN  /\ Cardinality(where) = hint.length
               /\ Max(where) - Min(where) < hint.length
               /\ Min(where) > byteToContainingColumn(line, hint.at)
=============================================================================
