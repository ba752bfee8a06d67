------------------------------ MODULE MCParser ------------------------------
(* The vocabularies of the sources, one for each part of the parser, and   *)
(* the stack of calls at which such a source ends.                         *)
EXTENDS Parser

File   == {"kw_package", "identifier", "semi"}
Parens == {"l_paren", "r_paren"}
Square == {"l_square", "r_square"}
Braces == {"l_brace", "r_brace"}
Body   == File \cup Parens \cup Braces \cup {"kw_func"}
Value  == File \cup {"kw_var", "equal"}

Imports    == File \cup Parens \cup {"kw_import", "period", "string_literal"}
Groups     == Value \cup Parens \cup {"kw_const", "kw_type", "comma"}
Signatures == File \cup Parens \cup {"kw_func", "comma", "ellipsis", "period", "star"}
Fields     == File \cup Braces \cup {"kw_type", "kw_struct", "star", "comma",
                                     "string_literal", "period"}
Methods    == File \cup Braces \cup Parens \cup {"kw_type", "kw_interface"}
TypeKinds  == File \cup Square \cup {"kw_type", "kw_map", "kw_chan", "lessminus", "star"}
FunctionLits == Value \cup Parens \cup Braces \cup {"kw_func", "kw_chan"}
Operands   == Value \cup Parens \cup {"plus", "exclaim", "numeric_literal", "period"}
Calls      == Value \cup Parens \cup Square \cup {"colon", "ellipsis", "comma"}
Composites == Value \cup Braces \cup Square \cup {"colon", "comma", "ellipsis",
                                                  "kw_struct"}

Conditions == Body \cup {"kw_if", "kw_else", "colonequal"}
Nested     == (Body \ {"identifier", "semi"}) \cup {"kw_if"}
Loops      == Body \cup {"kw_for", "kw_range", "equal", "comma"}
Guards     == (Body \ {"semi", "r_brace"}) \cup {"kw_switch", "kw_case", "period", "kw_type"}
Cases      == Body \cup {"kw_switch", "kw_case", "kw_default", "colon"}
Comms      == Body \cup {"kw_select", "kw_case", "colon", "lessminus", "plusequal"}
Simples    == Body \cup {"comma", "colonequal", "plusequal", "plusplus", "lessminus"}
Ranges     == Body \cup {"kw_range", "comma", "colonequal", "equal"}
Branches   == Body \cup {"kw_go", "kw_return", "kw_break", "kw_goto",
                         "kw_fallthrough", "colon"}

MCTodo ==
  (Imports :> 10) @@ (Groups :> 10) @@ (Signatures :> 10) @@ (Fields :> 12)
  @@ (Methods :> 8) @@ (TypeKinds :> 10) @@ (FunctionLits :> 8) @@ (Operands :> 10)
  @@ (Calls :> 8) @@ (Composites :> 8)
  @@ (Conditions :> 10) @@ (Nested :> 12) @@ (Loops :> 9) @@ (Guards :> 12) @@ (Cases :> 9)
  @@ (Comms :> 8) @@ (Simples :> 8) @@ (Ranges :> 8) @@ (Branches :> 8)
MCSources == DOMAIN MCTodo

(* These may open one delimiter more than the trackers admit.              *)
Declarations == {Imports, Groups, Signatures, Fields, Methods, TypeKinds,
                 Operands, Calls, Composites}
MCOpen == [s \in MCSources |-> IF s \in Declarations \cup {Nested} THEN 3 ELSE 2]

(* The sources of the run that shows a finding.                            *)
MCSignatures == Signatures :> 8
MCSignatureSources == {Signatures}
MCSignatureOpen == Signatures :> 2
=============================================================================
