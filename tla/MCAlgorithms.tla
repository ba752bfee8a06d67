---------------------------- MODULE MCAlgorithms ----------------------------
(* Small instances of what is called and returns.  One of four runs, the   *)
(* others are idle: the diagnostics engine, the formatting of a            *)
(* description, the printing of the line it is about, and the parsing of   *)
(* an expression.                                                          *)
EXTENDS Diagnostics, Formatting, Snippets, Precedence, TLC

mcVars == <<vars, formattingVars, snippetVars, precedenceVars>>

MCInit ==
  /\ Init
  /\ \/ FormattingIdle /\ SnippetIdle /\ PrecedenceIdle
     \/ FormattingInit /\ SnippetIdle /\ PrecedenceIdle
     \/ FormattingIdle /\ SnippetInit /\ PrecedenceIdle
     \/ FormattingIdle /\ SnippetIdle /\ PrecedenceInit

MCNext ==
  \/ /\ FormattingIdle /\ SnippetIdle /\ PrecedenceIdle
     /\ Next /\ UNCHANGED <<formattingVars, snippetVars, precedenceVars>>
  \/ FormattingNext /\ UNCHANGED <<vars, snippetVars, precedenceVars>>
  \/ SnippetNext /\ UNCHANGED <<vars, formattingVars, precedenceVars>>
  \/ PrecedenceNext /\ UNCHANGED <<vars, formattingVars, snippetVars>>

MCSpec == MCInit /\ [][MCNext]_mcVars

BuilderSymmetry == Permutations(Builders)

MCVocabulary == {"x", "||", "&&", "+", "*", "(", ")"}

-----------------------------------------------------------------------------
(* Descriptions: %0 is for select, %1 for plural and s, %2 is a string or a *)
(* name, %3 is for ordinal. Options have at most one node, options of an    *)
(* outer modifier may be modifiers.                                         *)

Plain(w) == [node |-> "text", word |-> w]
Select(a, b) == [node |-> "select", arg |-> 0, options |-> <<a, b>>]
Plural(ts, a, b) == [node |-> "plural", arg |-> 1,
                     options |-> <<[tests |-> ts, form |-> a], [tests |-> << >>, form |-> b]>>]
Plural3(ts, us, a, b, c) ==
  [node |-> "plural", arg |-> 1,
   options |-> <<[tests |-> ts, form |-> a], [tests |-> us, form |-> b], [tests |-> << >>, form |-> c]>>]

Simple == {Plain("x")} \union {[node |-> "escape", word |-> c] : c \in {"|", "}"}}
          \union {[node |-> "argument", arg |-> a] : a \in {1, 2}}
          \union {[node |-> "s", arg |-> 1], [node |-> "ordinal", arg |-> 3]}

One == [mod |-> 0, low |-> 1, high |-> 1]
Few == [mod |-> 0, low |-> 2, high |-> 3]
TensFew == [mod |-> 10, low |-> 1, high |-> 3]
MCTests == {<<One>>, <<Few>>, <<TensFew>>, <<One, Few>>, <<Few, TensFew>>}

Within(nodes) == {<< >>} \union {<<n>> : n \in nodes}
Few2 == {<< >>, <<Plain("y")>>, <<[node |-> "escape", word |-> "|"]>>}
Inner == {Select(a, b) : a \in Within(Simple), b \in Few2}
         \union {Plural(ts, a, b) : ts \in MCTests, a \in Few2, b \in Few2}
Outer == {Select(a, b) : a \in Within(Inner), b \in Few2 \union {<<Select(<< >>, <<Plain("x")>>)>>}}
         \union {Select(b, a) : a \in Within(Inner), b \in {<< >>, <<Plain("x")>>}}
         \union {Plural(<<One>>, a, b) : a \in Within(Inner), b \in Few2}
         \union {Plural(ts, a, b) : ts \in {<<Few, TensFew>>, <<TensFew>>}, a \in Few2, b \in Within(Inner)}
         \union {Plural3(ts, us, <<Plain("x")>>, a, <<Plain("y"), Plain("y")>>) :
                   ts \in MCTests, us \in MCTests, a \in Within(Inner)}
MCWords == {"x", "y"}
MCDescriptions == {<<n>> : n \in Simple \union Inner \union Outer}
                  \union {<<Plain("x"), n, Plain("y")>> : n \in Inner}
                  \union {<<m, n>> : m \in Simple, n \in Simple}

Strings == {[kind |-> "ak_std_string", value |-> 1], [kind |-> "ak_identifierinfo", value |-> 0]}
MCArguments ==
  {<<[kind |-> "ak_uint", value |-> v], [kind |-> "ak_sint", value |-> n], s,
     [kind |-> "ak_uint", value |-> o]>> :
     v \in {0, 1}, n \in {1, 2}, s \in {[kind |-> "ak_std_string", value |-> 1]}, o \in {12}}
  \union
  {<<[kind |-> "ak_sint", value |-> 1], [kind |-> "ak_uint", value |-> n],
     [kind |-> "ak_identifierinfo", value |-> i], [kind |-> "ak_uint", value |-> o]>> :
     n \in {0, 11}, i \in {0, 1}, o \in {21}}

-----------------------------------------------------------------------------
(* Lines, each with a character that is not blank. *)
MCLines == {<<k, c, "a">> : k \in {"two", "tab"}, c \in {"a", "blank", "tab", "two", "wide"}}
           \union {<<"a", "wide", "tab">>, <<"a", "blank", "tab">>}
           \union {<<"tab", "control", "a">>, <<"stray", "tab", "two", "tab">>}
=============================================================================
