------------------------------ MODULE MCLexer -------------------------------
(* The buffers the lexer is checked on.                                    *)
EXTENDS Lexer, SequencesExt

(* Comments: every buffer of at most n pieces, a piece being an element or *)
(* one of the comment delimiters.                                          *)
Pieces == {<<c>> : c \in {"sp", "nl", "identifier", "/", "*"}}
            \cup {<<"/", "/">>, <<"/", "*">>, <<"*", "/">>}
CommentInputs(n) == {FlattenSeq(ps) : ps \in BoundedSeq(Pieces, n)}

(* Literals: every buffer of at most n elements, with the three quotes, an *)
(* escape, a NUL and a line end.                                           *)
LiteralInputs(n) == BoundedSeq(Quotes \cup {"bslash", "nul", "nl"}, n)

(* Conflicts: every buffer of at most n whole lines.  A line is a marker   *)
(* of either style, an identifier or the quote of a raw string; in the     *)
(* last one the marker does not start the line.                            *)
Lines == {<<m, "nl">> : m \in Markers \cup {"identifier", "bquote"}}
           \cup {<<"plus", ">7", "nl">>}
ConflictInputs(n) == {FlattenSeq(ls) : ls \in BoundedSeq(Lines, n)}

MCInputs         == CommentInputs(5) \cup LiteralInputs(5) \cup ConflictInputs(5)
MCCommentInputs  == CommentInputs(5)
=============================================================================
