------------------------------- MODULE Lexer --------------------------------
(***************************************************************************)
(* The Go lexer of lib/Lex/Lexer.cpp: whitespace and comment skipping,     *)
(* automatic semicolon insertion, literals and version-control conflict    *)
(* markers.  One behaviour is one run of the client loop                   *)
(*                                                                         *)
(*     do L.Lex(Tok); while (Tok.isNot(tok::eof));                         *)
(*                                                                         *)
(* over one buffer.  LexTokenInternal is a loop over two labels; pc is the *)
(* label control is at, and each action is one trip through the switch.    *)
(*                                                                         *)
(* The buffer is a sequence of input elements rather than of bytes.  The   *)
(* elements that matter to control are bytes: blanks, line ends, '/', '*', *)
(* quotes, backslash, NUL.  A maximal identifier, number or operator is    *)
(* one element, named by its token kind; a run of conflict-marker          *)
(* characters is one element as well.                                      *)
(***************************************************************************)
EXTENDS Naturals, Sequences, FiniteSetsExt

CONSTANTS
  Lexemes,   (* Token kinds that occur in the buffer as one lexeme.        *)
  Inputs     (* The buffers considered: sequences over Elements.           *)

NewLine == {"nl", "cr"}
Blank   == {"sp"}
Quotes  == {"dquote", "squote", "bquote"}

(* "<7" is '<<<<<<<', "=4" a row of '=' or '|', ">7" is '>>>>>>>'; the     *)
(* Perforce style opens with ">4", '>>>> ', and closes with "<4", '<<<<'.  *)
Markers == {"<7", "=4", ">7", ">4", "<4"}

Elements == NewLine \cup Blank \cup Quotes \cup Markers \cup Lexemes
              \cup {"/", "*", "bslash", "nul"}

(* The kinds after which a line end produces a semicolon.                  *)
SemiKinds == {"identifier", "numeric_literal", "rune_literal",
              "string_literal", "kw_break", "kw_continue", "kw_fallthrough",
              "kw_return", "plusplus", "minusminus", "r_paren", "r_square",
              "r_brace"}

TokenKinds == Lexemes \cup {"semi", "eof", "unknown", "slash", "star",
                            "rune_literal", "string_literal", "marker_ops"}
TokenFlags == {"StartOfLine", "LeadingSpace", "InsertedSemi"}
MarkerStates == {"CMK_None", "CMK_Normal", "CMK_Perforce"}

Diagnostics ==
  {"null_in_file", "unterminated_block_comment", "conflict_marker", "empty_rune",
   "unterminated_rune", "unterminated_string", "unterminated_raw_string",
   "null_in_rune", "null_in_string"}

(* A literal is never one lexeme: its quotes are elements of their own.    *)
ASSUME LexemesAssumption ==
  Lexemes \cap ({"semi", "eof", "rune_literal", "string_literal"} \cup NewLine \cup Blank \cup Quotes \cup Markers
                  \cup {"/", "*", "bslash", "nul"}) = {}
ASSUME InputsAssumption == Inputs \subseteq Seq(Elements)

VARIABLES
  input,            (* the buffer; never written                           *)
  BufferPtr,        (* index of the next element to lex                    *)
  IsAtStartOfLine,  (* the next Lex() marks its token StartOfLine          *)
  LastTokenKind,    (* kind of the last token formed                       *)
  CurrentConflictMarkerState,
  pc,               (* "returned" to the client, or a label                *)
  flags,            (* flags of the token under construction               *)
  toks,             (* tokens handed to the client so far                  *)
  comments,         (* ranges handed to the comment handlers               *)
  diags             (* <<diagnostic, location>> reported so far            *)

vars == <<input, BufferPtr, IsAtStartOfLine, LastTokenKind,
          CurrentConflictMarkerState, pc, flags, toks, comments, diags>>

-----------------------------------------------------------------------------
(* Reading the buffer.  The buffer is followed by a NUL that is not part   *)
(* of it.                                                                  *)

BufferEnd == Len(input) + 1
Char(i)   == IF i \in 1 .. Len(input) THEN input[i] ELSE "nul"

AtLineStart(i) == i = 1 \/ Char(i - 1) \in NewLine

(* First index from p on whose element is not in S, which excludes "nul".  *)
SkipOver(p, S) ==
  CHOOSE q \in p .. BufferEnd : Char(q) \notin S /\ \A i \in p .. q - 1 : Char(i) \in S

(* First index from p on that is in S, or BufferEnd.                       *)
SkipTo(p, S) ==
  CHOOSE q \in p .. BufferEnd :
    /\ q = BufferEnd \/ Char(q) \in S
    /\ \A i \in p .. q - 1 : Char(i) \notin S

-----------------------------------------------------------------------------
(* What the helpers do to the token under construction.                    *)

Diag(id, loc) == diags' = Append(diags, <<id, loc>>)

handleComment(beg, end) == comments' = Append(comments, [beg |-> beg, end |-> end])

(* FormTokenWithChars and the return to the client.                        *)
FormToken(kind, beg, end, fl) ==
  /\ toks' = Append(toks, [kind |-> kind, beg |-> beg, end |-> end, flags |-> fl])
  /\ LastTokenKind' = kind
  /\ BufferPtr' = end
  /\ pc' = "returned"
  /\ flags' = {}

GoTo(label, ptr, fl) ==
  /\ pc' = label
  /\ BufferPtr' = ptr
  /\ flags' = fl
  /\ UNCHANGED <<toks, LastTokenKind>>

WantsSemi == LastTokenKind \in SemiKinds

(* Mutant: the semicolon leaves LastTokenKind as it was.                   *)
InsertSemi_KeepsKind(beg, end, fl) ==
  /\ WantsSemi
  /\ toks' = Append(toks, [kind |-> "semi", beg |-> beg, end |-> end,
                           flags |-> fl \cup {"InsertedSemi"}])
  /\ BufferPtr' = end
  /\ pc' = "returned"
  /\ flags' = {}
  /\ UNCHANGED LastTokenKind
InsertSemi(beg, end, fl) ==
  WantsSemi /\ FormToken("semi", beg, end, fl \cup {"InsertedSemi"})

(* The flags once the whitespace in p .. e - 1 is skipped.                 *)
SpaceFlags(fl, p, e) ==
  (IF \E i \in p .. e - 1 : Char(i) \in NewLine
     THEN (fl \cup {"StartOfLine"}) \ {"LeadingSpace"} ELSE fl)
  \cup (IF Char(e - 1) \in NewLine THEN {} ELSE {"LeadingSpace"})

SpaceEnd(p)  == SkipOver(p, Blank \cup NewLine)
LineEnds(p)  == {i \in p .. SpaceEnd(p) - 1 : Char(i) \in NewLine}

(* SkipWhitespace from p on; the token under construction starts at beg.   *)
SkipWhitespace(beg, p, fl, label) ==
  \/ LineEnds(p) # {} /\ InsertSemi(beg, Min(LineEnds(p)), fl)
  \/ /\ LineEnds(p) = {} \/ ~WantsSemi
     /\ GoTo(label, SpaceEnd(p), SpaceFlags(fl, p, SpaceEnd(p)))

(* Mutants of SkipLineComment: no check for the end of the buffer; a line  *)
(* end taken to be two elements.                                           *)
SkipLineComment_NoEofCheck(beg, p, fl) ==
  LET e == SkipTo(p, NewLine)
  IN /\ handleComment(beg, e)
     /\ \/ InsertSemi(beg, e + 1, fl)
        \/ ~WantsSemi /\ GoTo("SkipIgnoredUnits", e + 1, fl \cup {"StartOfLine"})
     /\ UNCHANGED diags
SkipLineComment_EatsPair(beg, p, fl) ==
  LET e == SkipTo(p, NewLine)
      n == Min({e + 2, BufferEnd})
  IN /\ handleComment(beg, e)
     /\ \/ e # BufferEnd /\ InsertSemi(beg, n, fl)
        \/ /\ e = BufferEnd \/ ~WantsSemi
           /\ GoTo("SkipIgnoredUnits", n, fl \cup {"StartOfLine"})
     /\ UNCHANGED diags

(* SkipLineComment: beg is the first '/', p the element after the second.  *)
SkipLineComment(beg, p, fl) ==
  LET e == SkipTo(p, NewLine)
  IN /\ handleComment(beg, e)
     /\ \/ /\ e = BufferEnd
           /\ GoTo("SkipIgnoredUnits", e, fl)
        \/ /\ e # BufferEnd
           /\ InsertSemi(beg, e + 1, fl)
        \/ /\ e # BufferEnd
           /\ ~WantsSemi
           /\ GoTo("SkipIgnoredUnits", e + 1,
                   (fl \cup {"StartOfLine"}) \ {"LeadingSpace"})
     /\ UNCHANGED diags

(* Ends of a block comment whose text starts at p.  A '/' right at p does  *)
(* not close it, whatever precedes it.                                     *)
CommentEnds(p) == {i \in p + 2 .. BufferEnd : Char(i - 1) = "/" /\ Char(i - 2) = "*"}

(* Does the comment text in p .. e - 1 span lines?                          *)
Multiline_Always(p, e) == TRUE
Multiline(p, e) == \E i \in p .. e - 1 : Char(i) = "nl"

(* SkipBlockComment.  Its last branch ignores what SkipWhitespace returns: *)
(* a semicolon formed there has moved BufferPtr and LastTokenKind, but the *)
(* caller is told that there is no token and goes on to its next label.    *)
SkipBlockComment(beg, p, fl, label) ==
  \/ /\ CommentEnds(p) = {}
     /\ Diag("unterminated_block_comment", beg)
     /\ GoTo(label, BufferEnd, fl)
     /\ UNCHANGED comments
  \/ /\ CommentEnds(p) # {}
     /\ UNCHANGED diags
     /\ LET e == Min(CommentEnds(p))
            multiline == Multiline(p, e)
            after == fl \cup {"LeadingSpace"}
        IN /\ handleComment(beg, e)
           /\ \/ multiline /\ InsertSemi(beg, e, fl)
              \/ /\ ~(multiline /\ WantsSemi)
                 /\ Char(e) \notin Blank
                 /\ GoTo(label, e, after)
              \/ /\ ~(multiline /\ WantsSemi)
                 /\ Char(e) \in Blank
                 /\ LineEnds(e + 1) = {} \/ ~WantsSemi
                 /\ GoTo(label, SpaceEnd(e + 1), SpaceFlags(after, e + 1, SpaceEnd(e + 1)))
              \/ /\ ~multiline
                 /\ Char(e) \in Blank
                 /\ LineEnds(e + 1) # {} /\ WantsSemi
                 /\ pc' = label
                 /\ LastTokenKind' = "semi"
                 /\ BufferPtr' = Min(LineEnds(e + 1))
                 /\ flags' = after \cup {"InsertedSemi"}
                 /\ UNCHANGED toks

-----------------------------------------------------------------------------
(* Literals: SkipTo with escapes.  Each scan returns the index after the   *)
(* literal and whether the closing quote was found.                        *)

(* Mutant: an escape may skip a line end, as a line continuation does.     *)
LiteralEnd_Continues(beg, q) ==
  LET Scan[i \in beg .. BufferEnd + 1] ==
        IF i >= BufferEnd THEN [end |-> BufferEnd, closed |-> FALSE]
        ELSE IF Char(i) = "bslash" /\ q # "bquote" THEN Scan[i + 2]
        ELSE IF Char(i) = q THEN [end |-> i + 1, closed |-> TRUE]
        ELSE IF Char(i) \in NewLine /\ q # "bquote" THEN [end |-> i, closed |-> FALSE]
        ELSE Scan[i + 1]
  IN Scan[beg]
LiteralEnd(beg, q) ==
  LET Scan[i \in beg .. BufferEnd] ==
        LET c == IF Char(i) = "bslash" /\ q # "bquote" THEN i + 1 ELSE i
        IN IF Char(i) = q THEN [end |-> i + 1, closed |-> TRUE]
           ELSE IF c = BufferEnd \/ (Char(c) \in NewLine /\ q # "bquote")
                  THEN [end |-> c, closed |-> FALSE]
                  ELSE Scan[c + 1]
  IN Scan[beg]

LiteralKind(q) == IF q = "squote" THEN "rune_literal" ELSE "string_literal"

LiteralDiag(q, what) ==
  IF what = "null_in"
    THEN IF q = "squote" THEN "null_in_rune" ELSE "null_in_string"
    ELSE CASE q = "squote" -> "unterminated_rune"
           [] q = "dquote" -> "unterminated_string"
           [] q = "bquote" -> "unterminated_raw_string"

(* LexRuneLiteral, LexStringLiteral and LexRawStringLiteral; p is the      *)
(* opening quote.  '' is rejected; other runes may have any length.        *)
LexLiteral(p, fl) ==
  LET q    == Char(p)
      lit  == LiteralEnd(p + 1, q)
      nuls == {i \in p + 1 .. lit.end - 1 : Char(i) = "nul"}
  IN \/ /\ q = "squote" /\ Char(p + 1) = q
        /\ Diag("empty_rune", p)
        /\ FormToken("unknown", p, p + 2, fl)
     \/ /\ ~(q = "squote" /\ Char(p + 1) = q)
        /\ \/ /\ ~lit.closed
              /\ Diag(LiteralDiag(q, "unterminated"), p)
              /\ FormToken("unknown", p, lit.end, fl)
           \/ /\ lit.closed
              /\ IF nuls = {} THEN UNCHANGED diags
                              ELSE Diag(LiteralDiag(q, "null_in"), Max(nuls))
              /\ FormToken(LiteralKind(q), p, lit.end, fl)

-----------------------------------------------------------------------------
(* Conflict markers.                                                       *)

(* FindConflictEnd from p, the first element after the marker: the closing *)
(* marker must start a line, and '<<<<' must also end one.                 *)
ConflictEnds(p, kind) ==
  {i \in p .. Len(input) :
     /\ AtLineStart(i)
     /\ IF kind = "CMK_Perforce" THEN Char(i) = "<4" /\ Char(i + 1) = "nl"
                                 ELSE Char(i) = ">7"}

MarkerKind(m) == IF m = "<7" THEN "CMK_Normal" ELSE "CMK_Perforce"

(* IsStartOfConflictMarker, and a mutant without the check of the state.   *)
StartsConflict_Nested(p) ==
  /\ AtLineStart(p)
  /\ Char(p) \in {"<7", ">4"}
  /\ ConflictEnds(p + 1, MarkerKind(Char(p))) # {}
StartsConflict(p) ==
  /\ AtLineStart(p)
  /\ Char(p) \in {"<7", ">4"}
  /\ CurrentConflictMarkerState = "CMK_None"
  /\ ConflictEnds(p + 1, MarkerKind(Char(p))) # {}

(* HandleEndOfConflictMarker.  The search starts after the marker at p, so *)
(* a closing marker never finds itself.                                    *)
EndsConflict(p) ==
  /\ AtLineStart(p)
  /\ CurrentConflictMarkerState # "CMK_None"
  /\ ConflictEnds(p + 1, CurrentConflictMarkerState) # {}

(* Where lexing resumes after a marker at p that ends a conflict: at the   *)
(* end of the closing marker's line.                                       *)
ConflictLineEnd(p) ==
  SkipTo(Min(ConflictEnds(p + 1, CurrentConflictMarkerState)), NewLine)

-----------------------------------------------------------------------------
(* The actions.  Tok is the first element the switch of LexTokenInternal   *)
(* sees, after the run of blanks it skips first.                           *)

Tok == SkipOver(BufferPtr, Blank)
TokFlags == flags \cup (IF Tok > BufferPtr THEN {"LeadingSpace"} ELSE {})

unchangedEnv == UNCHANGED <<input, IsAtStartOfLine>>
unchangedObservers == UNCHANGED <<comments, diags>>

Init ==
  /\ input \in Inputs
  /\ BufferPtr = 1
  /\ IsAtStartOfLine = TRUE
  /\ LastTokenKind = "eof"
  /\ CurrentConflictMarkerState = "CMK_None"
  /\ pc = "returned"
  /\ flags = {}
  /\ toks = << >>
  /\ comments = << >>
  /\ diags = << >>

AtEOF == toks # << >> /\ toks[Len(toks)].kind = "eof"

(* The client calls Lex, until it has been given eof.                      *)
Lex ==
  /\ pc = "returned"
  /\ ~AtEOF
  /\ flags' = IF IsAtStartOfLine THEN {"StartOfLine"} ELSE {}
  /\ IsAtStartOfLine' = FALSE
  /\ pc' = "LexNextToken"
  /\ UNCHANGED <<input, BufferPtr, LastTokenKind, CurrentConflictMarkerState,
                 toks, comments, diags>>

(* LexEndOfFile: startToken() drops the flags of an eof token.             *)
LexEndOfFile ==
  /\ pc = "LexNextToken"
  /\ Tok = BufferEnd
  /\ \/ InsertSemi(Tok, BufferEnd, TokFlags)
     \/ ~WantsSemi /\ FormToken("eof", BufferEnd, BufferEnd, {})
  /\ UNCHANGED CurrentConflictMarkerState
  /\ unchangedObservers /\ unchangedEnv

(* An embedded NUL is diagnosed and skipped like a blank.                  *)
LexNul ==
  /\ pc = "LexNextToken"
  /\ Tok # BufferEnd /\ Char(Tok) = "nul"
  /\ Diag("null_in_file", Tok)
  /\ SkipWhitespace(Tok, Tok + 1, TokFlags \cup {"LeadingSpace"}, "LexNextToken")
  /\ UNCHANGED <<comments, CurrentConflictMarkerState>>
  /\ unchangedEnv

LexNewLine ==
  /\ pc = "LexNextToken"
  /\ Char(Tok) \in NewLine
  /\ \/ InsertSemi(Tok, Tok, TokFlags)
     \/ /\ ~WantsSemi
        /\ SkipWhitespace(Tok, Tok + 1,
             (TokFlags \cup {"StartOfLine"}) \ {"LeadingSpace"}, "LexNextToken")
  /\ UNCHANGED CurrentConflictMarkerState
  /\ unchangedObservers /\ unchangedEnv

(* LexIdentifier, LexUtfIdentifier, LexNumericConstant and the operators.  *)
LexLexeme ==
  /\ pc = "LexNextToken"
  /\ Char(Tok) \in Lexemes
  /\ FormToken(Char(Tok), Tok, Tok + 1, TokFlags)
  /\ UNCHANGED CurrentConflictMarkerState
  /\ unchangedObservers /\ unchangedEnv

LexQuote ==
  /\ pc = "LexNextToken"
  /\ Char(Tok) \in Quotes
  /\ LexLiteral(Tok, TokFlags)
  /\ UNCHANGED <<comments, CurrentConflictMarkerState>>
  /\ unchangedEnv

(* case '/': a comment, or the slash itself; also '*' and '\'.             *)
LexSlash ==
  /\ pc = "LexNextToken"
  /\ Char(Tok) = "/"
  /\ \/ Char(Tok + 1) = "/" /\ SkipLineComment(Tok, Tok + 2, TokFlags)
     \/ Char(Tok + 1) = "*" /\ SkipBlockComment(Tok, Tok + 2, TokFlags, "LexNextToken")
     \/ /\ Char(Tok + 1) \notin {"/", "*"}
        /\ FormToken("slash", Tok, Tok + 1, TokFlags)
        /\ unchangedObservers
  /\ UNCHANGED CurrentConflictMarkerState
  /\ unchangedEnv

LexOther ==
  /\ pc = "LexNextToken"
  /\ \/ Char(Tok) = "*" /\ FormToken("star", Tok, Tok + 1, TokFlags)
     \/ Char(Tok) = "bslash" /\ FormToken("unknown", Tok, Tok + 1, TokFlags)
  /\ UNCHANGED CurrentConflictMarkerState
  /\ unchangedObservers /\ unchangedEnv

(* A marker that opens a conflict is skipped to the end of its line; one   *)
(* inside a conflict is skipped to the end of the closing marker's line;   *)
(* any other is a few operators.                                           *)
LexMarker ==
  /\ pc = "LexNextToken"
  /\ Char(Tok) \in Markers
  /\ \/ /\ StartsConflict(Tok)
        /\ Diag("conflict_marker", Tok)
        /\ CurrentConflictMarkerState' = MarkerKind(Char(Tok))
        /\ GoTo("LexNextToken", SkipTo(Tok, NewLine), TokFlags)
     \/ /\ ~StartsConflict(Tok)
        /\ EndsConflict(Tok)
        /\ CurrentConflictMarkerState' = "CMK_None"
        /\ GoTo("LexNextToken", ConflictLineEnd(Tok), TokFlags)
        /\ UNCHANGED diags
     \/ /\ ~StartsConflict(Tok)
        /\ ~EndsConflict(Tok)
        /\ FormToken("marker_ops", Tok, Tok + 1, TokFlags)
        /\ UNCHANGED <<diags, CurrentConflictMarkerState>>
  /\ UNCHANGED comments
  /\ unchangedEnv

(* Where SkipIgnoredUnits goes on anything else, and a mutant that loops.  *)
AfterIgnored_Loops == "SkipIgnoredUnits"
AfterIgnored == "LexNextToken"

(* The label SkipIgnoredUnits: comments and blanks without the switch.     *)
SkipIgnoredUnits ==
  /\ pc = "SkipIgnoredUnits"
  /\ LET p == BufferPtr
     IN \/ /\ Char(p) = "/" /\ Char(p + 1) = "/"
           /\ SkipLineComment(p, p + 2, flags)
        \/ /\ Char(p) = "/" /\ Char(p + 1) = "*"
           /\ SkipBlockComment(p, p + 2, flags, "SkipIgnoredUnits")
        \/ /\ Char(p) \in Blank
           /\ SkipWhitespace(p, p, flags \cup {"LeadingSpace"}, "SkipIgnoredUnits")
           /\ unchangedObservers
        \/ /\ ~(Char(p) = "/" /\ Char(p + 1) \in {"/", "*"})
           /\ Char(p) \notin Blank
           /\ GoTo(AfterIgnored, p, flags)
           /\ unchangedObservers
  /\ UNCHANGED CurrentConflictMarkerState
  /\ unchangedEnv

(* The client's loop has ended.                                            *)
Done == pc = "returned" /\ AtEOF /\ UNCHANGED vars

LexTokenInternal ==
  \/ LexEndOfFile \/ LexNul \/ LexNewLine \/ LexLexeme \/ LexQuote
  \/ LexSlash \/ LexOther \/ LexMarker \/ SkipIgnoredUnits

Next == Lex \/ LexTokenInternal \/ Done

Spec == Init /\ [][Next]_vars

(* One thread runs the loop, and nothing it calls blocks.                  *)
FairSpec == Spec /\ WF_vars(Lex \/ LexTokenInternal)

-----------------------------------------------------------------------------
(* What the lexer promises.                                                *)

Token == [kind : TokenKinds, beg : Nat, end : Nat, flags : SUBSET TokenFlags]

TypeOK ==
  /\ input \in Seq(Elements)
  /\ BufferPtr \in 1 .. BufferEnd
  /\ IsAtStartOfLine \in BOOLEAN
  /\ LastTokenKind \in TokenKinds
  /\ CurrentConflictMarkerState \in MarkerStates
  /\ pc \in {"returned", "LexNextToken", "SkipIgnoredUnits"}
  /\ flags \subseteq TokenFlags
  /\ toks \in Seq(Token)
  /\ comments \in Seq([beg : Nat, end : Nat])
  /\ diags \in Seq(Diagnostics \X Nat)

Inserted(t)     == t.kind = "semi" /\ "InsertedSemi" \in t.flags
DiagBefore(p, id) == \E i \in DOMAIN diags : diags[i][1] = id /\ diags[i][2] <= p
InComment(p)    ==
  \/ \E i \in DOMAIN comments : p \in comments[i].beg .. comments[i].end - 1
  \/ DiagBefore(p, "unterminated_block_comment")
InToken(p)      == \E i \in DOMAIN toks : p \in toks[i].beg .. toks[i].end - 1
Gap(i)          == toks[i].end .. toks[i + 1].beg - 1
Neighbours      == {i \in DOMAIN toks : i + 1 \in DOMAIN toks}

(* Every element the lexer has passed is whitespace, or lies in a token or *)
(* a comment, unless a conflict was reported before it; and tokens         *)
(* come in buffer order without overlap.  No fast path (SkipIgnoredUnits,  *)
(* the blanks after a comment, an escape at the end of a line) loses or    *)
(* repeats program text.                                                   *)
NoTextLost ==
  /\ \A p \in 1 .. BufferPtr - 1 :
       \/ Char(p) \in Blank \cup NewLine \cup {"nul"}
       \/ InToken(p) \/ InComment(p) \/ DiagBefore(p, "conflict_marker")
  /\ \A i \in Neighbours : toks[i].end <= toks[i + 1].beg

(* An inserted semicolon directly follows a token of SemiKinds, never      *)
(* another semicolon and never the start of the file.                      *)
SemiFollowsSemiKind ==
  \A i \in DOMAIN toks : Inserted(toks[i]) => i > 1 /\ toks[i - 1].kind \in SemiKinds

(* The Go rule: a token of SemiKinds that ends its line, or the file, is   *)
(* followed by a semicolon.                                                *)
EndsLine(i) == toks[i + 1].kind = "eof" \/ \E p \in Gap(i) : Char(p) = "nl"
SemiAtLineEnd ==
  \A i \in Neighbours :
    toks[i].kind \in SemiKinds /\ EndsLine(i) => Inserted(toks[i + 1])

BlankAfterComment(i) ==
  \E c \in DOMAIN comments :
    /\ comments[c].beg \in Gap(i)
    /\ Char(comments[c].beg + 1) = "*"
    /\ Char(comments[c].end) \in Blank

(* Line ends are noticed once each, on whichever of the five paths they    *)
(* are met: a token of SemiKinds that ends its line is followed by a       *)
(* semicolon unless there are blanks after a block comment (which is what  *)
(* the code guarantees of the rule above); a semicolon is inserted at the  *)
(* end of a line or of the file only; and a token is marked StartOfLine    *)
(* exactly if it is the first one or a line end outside every comment      *)
(* separates it from the token, or the semicolon, before it.  The line end *)
(* of a line comment that makes a semicolon is part of that semicolon, so  *)
(* the token behind it is not marked: see StartOfLineMarked.               *)
LineEndsNoticed ==
  /\ \A i \in Neighbours :
       /\ toks[i].kind \in SemiKinds /\ EndsLine(i) =>
            Inserted(toks[i + 1]) \/ BlankAfterComment(i)
       /\ Inserted(toks[i + 1]) =>
            \E p \in toks[i].end .. toks[i + 1].end : p = BufferEnd \/ Char(p) \in NewLine
  /\ \A i \in DOMAIN toks : toks[i].kind # "eof" =>
       ("StartOfLine" \in toks[i].flags <=>
          i = 1 \/ \E p \in Gap(i - 1) : Char(p) \in NewLine /\ ~InComment(p))

(* What the flag is for: a token with only blanks before it on its line is *)
(* marked StartOfLine, and so is the one a line comment makes the next on  *)
(* its line ("The next returned token is at the start of the line.").      *)
FirstOnLine(p) ==
  \E b \in 1 .. p : AtLineStart(b) /\ \A i \in b .. p - 1 : Char(i) \in Blank
StartOfLineMarked ==
  \A i \in DOMAIN toks :
    toks[i].kind # "eof" /\ ~Inserted(toks[i]) /\ FirstOnLine(toks[i].beg) =>
      "StartOfLine" \in toks[i].flags

(* One conflict, one error, one side: the closing marker of a conflict     *)
(* lies between its opening marker and the next one that is reported, and  *)
(* no token starts between a marker that follows the opening one at the    *)
(* start of a line, outside every raw string and comment, and the closing  *)
(* marker.                                                                 *)
Swallowed(p) ==
  \/ \E i \in DOMAIN toks : p \in toks[i].beg + 1 .. toks[i].end - 1
  \/ \E i \in DOMAIN comments : p \in comments[i].beg + 1 .. comments[i].end - 1
OneSideOfConflicts ==
  /\ \A i, j \in DOMAIN diags :
       i < j /\ diags[i][1] = "conflict_marker" /\ diags[j][1] = "conflict_marker" =>
         \E e \in ConflictEnds(diags[i][2] + 1, MarkerKind(Char(diags[i][2]))) :
           e < diags[j][2]
  /\ \A d \in DOMAIN diags : diags[d][1] = "conflict_marker" =>
       LET open == diags[d][2]
           close == Min(ConflictEnds(open + 1, MarkerKind(Char(open))))
       IN \A m \in open + 1 .. close - 1 :
            Char(m) \in Markers /\ AtLineStart(m) /\ ~Swallowed(m) =>
              \A i \in DOMAIN toks : toks[i].beg \notin m .. close

(* A literal token runs from a quote to the next one like it that is not   *)
(* escaped, and, raw strings apart, stays on its line whatever is escaped. *)
Escaped(beg, p) ==
  \E k \in beg + 1 .. p - 1 :
    /\ \A i \in k .. p - 1 : Char(i) = "bslash"
    /\ Char(k - 1) # "bslash" /\ (p - k) % 2 = 1
LiteralsWellFormed ==
  \A i \in DOMAIN toks : toks[i].kind \in {"string_literal", "rune_literal"} =>
    LET b == toks[i].beg  z == toks[i].end - 1  raw == Char(b) = "bquote"
    IN /\ b < z /\ Char(z) = Char(b)
       /\ \A p \in b + 1 .. z : Char(p) = Char(b) => (p = z <=> raw \/ ~Escaped(b, p))
       /\ \A p \in b .. z : Char(p) \in NewLine => raw

(* The client's loop terminates: every trip through the switch either      *)
(* makes a token or moves on in the buffer.                                *)
ReachesEOF == <>AtEOF
=============================================================================
