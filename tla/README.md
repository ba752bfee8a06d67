# A verification development for gong

gong is a front end for Go written in C++. It was started from clang's sources, and keeps
clang's structure: a lexer that hands out one token at a time, a recursive-descent parser
that calls an `Action` for everything it recognises, a `Sema` that implements the `Action`,
and a diagnostics engine that all of them report to. It is one thread, driven from `main()`
in `tools/driver/driver.cpp`. About 88,000 lines of C++ are in the repository, but most of
them are inherited text inside `#if 0` or comments; some 15,000 lines are active, and those
are what "the code" means below.

This directory holds TLA+ models of the parts of gong whose behaviour depends on the order
of many small steps, TLC configurations that check them on small instances, and proofs,
checked by TLAPS, of what holds for all instances.

Contents: [1. the system](#1-the-system) · [2. modules](#2-modules-and-how-they-correspond-to-the-code)
· [3. runs](#3-runs) · [4. findings](#4-findings) · [5. proofs](#5-proofs) · [6. limits](#6-what-is-left-out)
· [7. plan](#7-plan)

## 1. The system

    driver main() ──owns──> DiagnosticsEngine ──owns──> one DiagnosticConsumer
       │                         ▲      ▲      ▲            (printer | verifier)
       │ Lex                     │      │      │
     Lexer <── tokens ── Parser ─┘   Sema ─────┘
       │                   │  ▲        ▲  │
       │ comments          │  └ answers│  └── scopes, identifier chains, AST
       └──> verifier       └── Action calls

Everything is synchronous. Components interact by calls, by callbacks (the lexer's comment
handlers, `DiagnosticConsumer::handleDiagnostic`), by destructors that do work (builders of
diagnostics, RAII objects of the parser) and by state they share (the engine's argument
arrays, the `FETokenInfo` slot of an identifier, the parser's flag for composite literals).
There is no concurrency. What makes the code hard is hidden state: a decision is taken on a
value that was written many calls earlier on one of many paths.

### Lexer (`lib/Lex/Lexer.cpp`)

*State*: position in the buffer, kind of the last token formed, whether the next token starts
a line, state of version-control conflict markers. *Operations*: `Lex`, with
`LexTokenInternal`, a loop over the two labels `LexNextToken` and `SkipIgnoredUnits`; the
comment, whitespace, literal and conflict-marker helpers it calls; comment handlers.
*Hard*: semicolons are inserted at line ends depending on the last token, and line ends are
met on five paths (the switch, runs of whitespace, both kinds of comment, the end of the
file), some of which are fast paths that bypass the switch. Escapes and NULs must not move a
scan past the end of a line or the buffer. *Correct if*: no program text is lost or lexed
twice; an inserted semicolon follows exactly the tokens Go says, at line ends only; literals
and comments end where they should; a conflict is reported once and one side of it is
lexed; the loop ends.

### Diagnostics engine (`Basic/Diagnostic.h`, `lib/Basic`, `TextDiagnosticBuffer`)

*State*: the ID of the one diagnostic in flight, arrays of arguments shared by all
diagnostics, the builders that refer to them, the table of custom IDs, the client.
*Operations*: `Report`, `operator<<`, copying and destroying a `DiagnosticBuilder`,
`EmitCurrentDiagnostic`, `setClient`, `getCustomDiagID`, `FlushDiagnostics`. *Hard*: a
diagnostic is emitted by a destructor, builders are returned by value and therefore copied,
and copying one must disarm another; nothing ever clears the arrays. *Correct if*: one
diagnostic is in flight at a time, each report is emitted exactly once, in order, with its
own text and arguments.

### Driver and `-verify` consumer (`driver.cpp`, `VerifyDiagnosticConsumer.cpp`)

*State*: who owns which client, the directives found so far, the withheld diagnostics, counts
of errors per client. *Operations*: the steps of `main()`, `ParseDirective` (called by the
lexer for each comment), `CheckLists`/`CheckResults`/`CheckDiagnostics`, exit code and
destruction. *Hard*: three objects take turns at owning the clients; matching directives to
diagnostics is greedy; an error in a directive is itself a diagnostic among those being
checked. Every test of the project is only as good as this consumer: if it passes wrongly,
a test checks nothing. *Correct if*: a test that passes is right to, a test that fails is
right to or has ambiguous directives, no directive is lost silently, each client is deleted
once.

### Parser (`lib/Parse/Parser.cpp`, `ParseExpr.cpp`, `ParseStmt.cpp`, `Parser.h`)

*State*: the current token, counts of open delimiters, a flag that says whether `T {` may be
a composite literal (not in the header of an `if`, `for` or `switch`), and the call stack.
*Operations*: one function per production, `SkipUntil`, `BalancedDelimiterTracker`.
*Hard*: error recovery. Every list is a loop around a production that may fail at any token
and a skip that may stop at once; flags and counts are restored by destructors on every
path; `.(type)` is allowed in one place only and is tracked through four functions.
*Correct if*: the parser always moves on, the counts and the flag are right at every point,
`.(type)` is used or reported, no assertion or `llvm_unreachable` is reached.

### Sema: scopes and identifier resolver (`SemaDecl.cpp`, `SemaLookup.cpp`, `IdentifierResolver.cpp`, `Scope.h`)

*State*: the stack of scopes with their sets of declarations, one chain of declarations per
identifier, the current declaration context. *Operations*: entering and leaving scopes,
pushing and popping contexts, one handler per kind of declaration, the redefinition check,
lookup. *Hard*: the same facts are kept three times, in scopes, chains and contexts, and
each handler must keep them in step; declarations leave a scope in the order of their
addresses; whether something is a redefinition is decided by scopes in functions and by
contexts elsewhere. *Correct if*: a name means the declaration of the innermost scope that
has one, always, and leaving a scope restores what was meant before.

### MinimalAction and the parser's scopes (`MinimalAction.cpp`, `Scope.h`, `Parser::EnterScope`)

*State*: without Sema the parser still has to know whether an identifier is a type, a function
or a package. `MinimalAction` keeps a list of `TypeNameInfo` entries per identifier; the parser
keeps the `Scope` objects, which it recycles through a cache of 16. *Operations*: declaring,
classifying, entering and leaving a scope. *Hard*: a list has one entry per declaration, a scope
a set of identifiers, so that a second declaration leaves an entry behind; a recycled object
must hold nothing of its earlier life. *Correct if*: while no name is declared twice in a scope
an identifier is what its innermost declaration says; otherwise just the entries of
redeclarations stay behind; every object is open or cached, once.

### Struct types, member tables, selectors (`SemaDecl.cpp`, `DeclBase.cpp`, `PromotedFields.cpp`, `SemaExprMember.cpp`, `Lookup.h`)

*State*: per struct the list of its members, a lookup table that is built from the list the
first time somebody asks and kept up from then on, and its canonical type; per selector the
paths of a search and a `LookupResult`. *Operations*: declaring fields and embedded fields,
finishing a struct, renaming types, `x.f`. *Hard*: lists and tables are changed before and after
the table exists, from a transparent context inside the struct; the search is depth first but
the language wants the shallowest field; the kind of a result, its declarations and its paths
must agree; a `FieldSpec` may stay empty after an error. *Correct if*: a lookup finds what a
search of the list finds; `x.f` is the field the language names; a failure is reported once and
with all its reasons; identical structs have one canonical type.

### Sequential algorithms

Precedence climbing (`ParseRHSOfBinaryExpression` and what it calls), the expansion of a
diagnostic's text (`Diagnostic::FormatDiagnostic`) and what is printed below it
(`TextDiagnostic::emitSnippetAndCaret`) keep no state between calls. *Hard*: the mutual
recursion of the expression parser, an option of a modifier that holds modifiers, and three
units of position (bytes, characters and columns). *Correct if*: they compute what their
definition says.

### Other parts

| part | why it is left out |
|---|---|
| Sema of expressions and statements | the active handlers build a node from their arguments |
| AST nodes, arenas, printing | written once by Sema, never changed; the uniquing of struct types is modelled |
| IdentifierTable, token kinds | hash table of spellings: names stand for themselves |
| Ownership of results | move semantics, checked by C++ types |
| UTF-8 (`lib/Lex/utf`) | vendored and pure |
| LLVM's buffers, regular expressions, containers | outside of the repository |

`PROJECT.json` lists the same parts with their files and status, the hazards of the code at
the lines where they bite, and the source lines behind each definition.

## 2. Modules and how they correspond to the code

Names are the source's wherever TLA+ allows it. Definitions named `X_Something` next to a
definition `X` are mutants: plausible bugs of `X`, used to make sure that the properties
can fail. They are part of no specification.

### `Lexer`, `MCLexer`, `LexerProofs`

One behaviour is the loop `do L.Lex(Tok); while (Tok.isNot(tok::eof))` over one buffer.
The buffer is a sequence of *elements*: the bytes that matter to control (blank, `\n`,
`\r`, `/`, `*`, quotes, backslash, NUL) stand for themselves, a whole identifier, number or
operator is one element named after its token kind, a row of marker characters is one
element. `pc` is `"returned"` (the client has control) or the label the loop is at. Each
action is one trip through the switch and does all of it, helpers included: `LexSlash` is
`case '/'` with `SkipLineComment` or `SkipBlockComment` and, in the latter, the blanks after
the comment. `toks`, `comments` and `diags` are what the client, the comment handlers and
the diagnostics engine have been given.

### `Diagnostics`, `DiagnosticsProofs`

`CurDiagID` and `DiagArguments` are the engine's members, `builder` is the set of
`DiagnosticBuilder` objects with their `NumArgs`, each not constructed, active or cleared.
`Report`, `AddTaggedVal`, `CopyBuilder`, `DestroyBuilder`, `setClient` and the three steps
of `FlushDiagnostics` are the actions; any sequence of them that respects the assertions of
the code is a behaviour. An argument is a pair of the report it was given to and its place
in it, so that an argument that ends up in the wrong diagnostic is visible. The observer
`reports` says what each report asked to be printed; `emitted` is what the client formatted.
`MCAlgorithms` has its instance.

### `VerifyConsumer`, `MCVerifyConsumer`, `VerifyConsumerProofs`

One run of `main()` over one file, with or without `-verify`. The front end is the
environment: any sequence of diagnostics and comments. `Client`, `OwnsDiagClient`,
`OwnsPrimaryClient` and `OwnsCurClient` are the ownership flags of the engine, the verifier
and the local of `CheckDiagnostics`; `deleted` counts the runs of each client's destructor.
`ParseDirective` performs the checks in the code's order. `CheckDirective` is one trip
through the outer loop of `CheckLists`, described by what it does to the list: it takes the
first `Max` diagnostics that match, and adds to `missing` what it is short of `Min`.
A text is a sequence of words; matching is "occurs in", as `StandardDirective::match` does.

### `ScopeMap`, `SemaScopes`, `MCSemaScopes`, `SemaScopesProofs`

`ScopeMap` is the abstract specification: a stack of blocks, each declaring a name at most
once, and a view of what each name means, namely the declaration of the innermost block
that has one. `SemaScopes` is the code: `scopes` (Scope objects with entity and
declaration set), `slots` (what the `FETokenInfo` of an identifier holds: nothing, one
declaration, or an `IdDeclInfo` with a list), `curContext`, and one action per
`ActOn...` handler that declares a name, per kind of scope entered and for the stages of
leaving one. Handlers of identifier lists are one step for the part before the loop and one
per identifier, because `PushOnScopeChains` changes what the next lookup sees.
A declaration context is the path of context kinds that leads to it.
`ImplementsScopeMap` states the refinement:
`blocks` is the declarations open scopes still hold, `view` is what the code's `LookupName`
returns, and a scope whose entity is transparent (that of a field list) is no block at all.

### `ParserCore`, `ParserDecls`, `ParserExprs`, `ParserStmts`, `Parser`, `MCParser`, `ParserProofs`

The C++ call stack is the sequence `todo` of what is still to be done, next first: an entry
names a parse function, or a stage of one, with its parameters. A step handles the first
entry and replaces it by the calls the function makes next; what a function returns is in
`ret`, for the entry behind it, and only until then. This keeps the control of each
function, in the order of its statements, without a program counter. `ParserCore` has the
tokens and counts, `SkipUntil` (one step per token, recursive calls on `todo`), the trackers
and `ExpectAndConsumeSemi`; the other three have the functions of `Parser.cpp`,
`ParseExpr.cpp` and `ParseStmt.cpp`; `Parser` composes them and states the properties.

At the depth limit `consumeOpen` reports, skips to the end of the statement (`SkipToEnd`: it
wants `eof` but stops at a `;` too) and fails, and its callers go on as if it had not: so the
entry `Close` of a tracker says whether it got its opener and cleared the flag. A function that
asserts the token it is called at takes it without a test, as in a build without assertions;
`AssertedTokensCorrect` shows that it is at that token. Two assertions of the parser can fail, and
stop the source as `Unreachable` does: `AssertionFails` is that of a header, at the depth limit,
`ImportAssertionFails` that of `ParseImportSpec`, at a single import ([section 4](#4-findings)).

The source is not fixed in advance: the next token is any kind of the vocabulary of the
source, or its end, chosen when it is lexed. Each set of `Sources` is one vocabulary, so
that all sequences of tokens over it are parsed. `errors` remembers whether the parser has
reported an error or failed in silence, `moved` whether the last step consumed a token.
Where the parser asks the Action what an identifier is, every answer is possible.

### `MinimalAction`, `MCMinimalAction`, `MinimalActionProofs`

A second implementation of `ScopeMap`. `objects` is the heap of `Scope` objects by address,
`CurScope` and `cache` are the parser's, and `Stack` follows the parent links; `entries` are the
lists. Entering a scope takes an object from the cache or allocates one and runs `Scope::Init`
on it; leaving one is `ExitScope`, one `ActOnPopScope` per identifier in any order, and
`RecycleScope`. `DestroyParser` is `~Parser`, which finds no scope open, or the one of a source that
does not start with `package`: `ParseSourceFile` has then returned without leaving it
(`ReturnedAtOnce`), and the entries of the builtins stay. Of a scope's parent links the active code
uses `AnyParent` and `FnParent`. `valid` is chosen at the start: whether the source is one that declares no name
twice in a scope. In those the refinement is claimed, in the others `EntriesAccounted` says
exactly what goes wrong.

### `StructTypes`, `Selectors`, `MCSelectors`, `SelectorsProofs`

`StructTypes` is declaring: `structs` are the members, a sequence of `FieldSpec`s each with its
fields; `tables` the lookup tables with the state of `LookupPtr` (not made, to be made from the
list, made); `canon` the canonical types; `types` the declared types and `open` the structs not
finished. `Selectors` extends it with the selector, one action `ActOnSelectorExpr`, built of the
pure parts `lookupInBases` (the search), the choice of the shortest paths, and the
`LookupResult`. The specification of the language is a separate definition (`Shallowest`), level
by level rather than depth first. Whatever recurses is a recursive function of numbers, so that
it can be reasoned about.

### `Precedence`, `Formatting`, `Snippets`, `MCAlgorithms`

`Precedence` is the C++ call stack of the expression parser (`calls`, `ret`) over tokens chosen
when they are lexed; the reference is `Grouping`, which splits at the operator that binds least. An
operand, and an expression in parentheses, includes what `ParsePrimaryExprSuffix` reads behind it:
calls, indices and selectors are inside of it, and no `(` comes next (`ConsumePrimary`).
`Formatting` has the scan of a description with a stack for nested options; the reference is
`Meaning`, over the tree the description was spelled from. Options hold descriptions of their own,
so trees, `Spell` and `Meaning` are recursive functions of how deep options are nested, at most
`MaxNesting`. The arguments of modifiers are not negative. `Snippets` has the steps of
`emitSnippetAndCaret` for a sequence of diagnostics about one line; its columns and bytes are
running sums of the widths of characters. Diagnostics and hints are at the beginning of a token,
behind the end of one (`getLocForEndOfToken`, where the parser wants something inserted) or at the
end of the line (`Locations`). `MCAlgorithms` runs one of the three, or `Diagnostics`, at a time. The
proofs about `Snippets` and `Formatting` are in `DiagnosticsProofs`, those about `Precedence` in
`MinimalActionProofs`.

## 3. Runs

All runs finish within five minutes with two workers.

| run | checks | distinct states |
|---|---|---|
| `Lexer_text` | `TypeOK` `NoTextLost` `SemiFollowsSemiKind` `LineEndsNoticed` `LiteralsWellFormed` `OneSideOfConflicts` `ReachesEOF` | 854,699 |
| `VerifyConsumer_verdict` | `TypeOK` `SilentFileFails` `NothingSaidIsLost` `ClientsDeletedOnce` `VerdictSound` `VerdictExact` `VerdictExplained` | 4,323,000 |
| `SemaScopes_lookup` | `TypeOK` `ChainsMirrorScopes` `ContextFollowsScopes` `RedefinitionIsLocal` `ImplementsScopeMap` | 78,496 |
| `Parser_sources` | `TypeOK` `BalancedUnlessError` `FlagMatchesHeader` `GuardIsUsed` `Progress` | 1,714,623 |
| `Selectors_members` | `TypeOK` `TablesFollowLists` `SelectorRule` `FailureExplained` `IdenticalTypes` | 1,292,778 |
| `MinimalAction_names` | `RecycledScopesAreFresh` `EntriesAccounted` `ImplementsScopeMap` | 294,053 |
| `Algorithms_texts` | `TypeOK` `OneInFlight` `EmittedOnce` `SaysWhatWasReported` `SaysWhatIsDescribed` `MarksUnderText` `HintsReadable` `TreeFollowsPrecedence` | 4,931,549 |

and five runs that show a disagreement between the code and what it says of itself, see
[Findings](#4-findings): `Lexer_lost_semi`, `Lexer_line_start`, `SemaScopes_topmost`,
`Parser_unreachable`, `Selectors_iterators`.

**`Lexer_text`** lexes every buffer of up to five pieces (elements and comment delimiters)
over blanks, line ends and an identifier; every buffer of up to five quotes of the three
kinds, backslashes, NULs and line ends; and every buffer of up to five lines of conflict
markers of both styles. Five pieces suffice for a token that wants a semicolon, a comment
with a line end inside, a blank, a second line end and a further token, which is one more
than any path through the code looks at before it forgets. Five lines suffice for an opening
marker, a separator, a closing marker, and a second conflict begun inside or after the
first. The run shows that no fast path loses text, that
line ends are noticed once each, with a semicolon where one is due, everywhere but after a
block comment followed by blanks (`LineEndsNoticed` makes just this exception, and
`Lexer_lost_semi` shows why) and with `StartOfLine` on the token behind, everywhere but after a line
comment that inserted a semicolon (an exception it makes too, see `Lexer_line_start`), that one side of every conflict is lexed, and that the loop ends.
A marker on a line of its own that is inside a raw string or a block comment is no separator to
the lexer, so `OneSideOfConflicts` exempts those (`Swallowed`): the scan that finds the closing
marker of a conflict counts every line, and may find one inside a raw string of the first side.

**`VerifyConsumer_verdict`** lets up to four comments and diagnostics come in any order in a
file of two lines. The directives overlap in all the ways that matter to matching: equal,
one text inside the other, exact, open and empty counts, other lines; others have each kind
of mistake. Four events allow two directives that compete for two diagnostics, which is where
greedy matching goes wrong if it does. `VerdictExact` holds with the precondition that no
two different directives match the same diagnostic; TLC shows at once that it is needed.

**`SemaScopes_lookup`** has two identifiers, one of them a builtin type, four declarations
alive at once, four nested scopes and lists of two identifiers (which may be the same).
Four scopes allow a function in the file, a block in it, a struct type in that and its field
list. The run checks the invariants of chains and scopes and the refinement of `ScopeMap`.
The declarations are symmetric; no liveness is checked.
`CHECK_DEADLOCK FALSE`: the program ends when the scope of the translation unit is left.

**`Parser_sources`** parses all sequences of tokens over nineteen vocabularies, one for each
part of the grammar (imports, groups, signatures, struct and interface types, array, map and
channel types, function literals, operands, calls, composite literals; conditions, loops, type
switches, case and communication clauses, simple statements, range clauses, branches; and function
literals nested in the headers of "if" statements). A source
may open two or three delimiters at a time (`MCOpen`) and may go on until the stack of `todo` has the
length the vocabulary is given in `MCParser` (8 to 12); then it ends. Below these bounds a
source may be of any length, since a loop that returns to its head returns to the same state.
The depth limit of the trackers, 256 in the code, is 2: the statements, which may have two
delimiters open, nest without overflow; declarations and nested literals, which may have three,
overflow it.
The vocabulary of type switches leaves out `}` and explicit semicolons to stay within minutes.

**`Selectors_members`** declares the structs of a source in every order the grammar admits, and
selects every name from every struct and pointer at any point. Three kinds of source: four
structs that embed one another (a diamond needs four), two with names that clash in every way
(fields, embedded fields, types renamed, pointers), and three that nest and repeat each other's
fields, for type identity. `CHECK_DEADLOCK FALSE`: a source has an end.

**`MinimalAction_names`** has two identifiers, one of them predeclared, five entries alive at
once, four nested scopes and a cache of two, so that the cache is empty, partly filled and full
while scopes are open; and one redeclaration of each name. Entries are symmetric.
`CHECK_DEADLOCK FALSE`, as for `SemaScopes`.

**`Algorithms_texts`** has four parts. It parses every sequence of up to seven tokens over an operand, operators of
four of the five precedences (two of the operators also unary) and parentheses, errors included: three operators
decide every comparison of precedences, seven tokens hold three operators with their operands.
It formats all descriptions with modifiers nested two deep, options empty, escaped and plain,
and prints diagnostics with two ranges and hints at the beginning of tokens, behind them and at the
end of lines with tabs, characters of
two and three bytes, of two columns, and such that do not print; the text of a hint has one or
two characters. Last, it lets two builders of diagnostics be created, filled, copied to and fro and
destroyed, with two arguments each and up to four reports, and lets the buffer be replayed,
twice if the bound on reports admits it. Two builders are enough: at most one is active, and
a copy involves two; they are symmetric. Two arguments distinguish "none", "some" and "full". Only
one of the four is run at a time, since none uses another's state. `CHECK_DEADLOCK FALSE`: the
algorithms end.

*Fairness.* `Lexer`'s `FairSpec` and `Parser`'s `Spec` assume weak fairness of the lexer's
loop and of the parser's step, respectively. There is one thread, nothing it calls blocks,
and each of these is one C++ statement sequence that runs to its end; so an enabled step is
taken. No fairness is assumed of the choice of tokens: `Progress` must hold for whatever
source comes. The other specifications state no fairness and no liveness.

`PROJECT.json` names for each property of a passing run a mutant of the code that
violates it under the run's own configuration.

## 4. Findings

* **`Lexer_lost_semi`** (`SemiAtLineEnd`): `SkipBlockComment` ignores the result of
  `SkipWhitespace` (`lib/Lex/Lexer.cpp:657`). In `a /**/ ` followed by a line end,
  `SkipWhitespace` forms the semicolon and moves on, the caller believes that there is no
  token and lexes the next one into its place. The semicolon is lost.
* **`Lexer_line_start`** (`StartOfLineMarked`): where a line comment ends a line that wants a
  semicolon, `SkipLineComment` has gone past the newline when it returns that semicolon
  (`lib/Lex/Lexer.cpp:305-314`), so that `b` in `a // c` and `b` on the next line is not marked
  `StartOfLine`, as it is without the comment. `Token.h:163` says of the flag that it is "true if this
  token is at the start of a line", and the comment on the very lines "The next returned token is at
  the start of the line", of the semicolon or of what follows. `LineEndsNoticed` states what the flags
  are, this exception included.
* **`SemaScopes_topmost`** (`RedefinitionInTopmostScope`): methods and function literals get a
  block without a declaration context of their own, so that a local in one that shadows a
  global is reported as its redefinition. `RedefinitionIsLocal` is what does hold.
* **`Parser_unreachable`** (`TypesAreTypes`): `func f(int,)` and the like reach
  `llvm_unreachable` in `ParseType` (`lib/Parse/Parser.cpp:580`), because a list of types and
  the parenthesised type parse a type without asking whether one starts.

* **`Selectors_iterators`** (`IteratorsReachFields`): `ActOnFieldDecl` adds a `FieldSpec` to its
  struct before its fields are checked (`lib/Sema/SemaDecl.cpp:1826`). If all of them are
  redefinitions, as in `struct { x int; x int; y int }`, the `FieldSpec` stays without a member;
  `anon_field_iterator` (`AST/Decl.h:2494`) then dereferences the first member it does not have,
  and `field_iterator` goes on from the end of its list and misses the fields after it. The
  error about the redefinition has been reported; what follows it is undefined. `SelectorRule`
  and `IdenticalTypes` are stated for structs in which this did not happen.

Only readings of the code that it states itself are counted: each of these quotes a comment or
an assertion in `PROJECT.json`.

One comment disagrees with code that is right: `ParseExpr.cpp:77-79` says of the recursion in
`ParseRHSOfBinaryExpression` that "it is okay to bind exactly as tightly" and that `A+B+C+D` becomes
`A+(B+(C+D))`. The code recurses with `ThisPrec + 1` and groups operators of one precedence from the
left, as the language does; `TreeFollowsPrecedence` says so, and its mutant `TighterThan_OrAs` is the
code the comment describes.

Seen while modelling, without a run of their own:
* the search for the end of a conflict starts after the marker at hand (`lib/Lex/Lexer.cpp:1016`),
  so the closing marker of a conflict without separators never finds itself and is lexed as
  operators, although `:1403` says that it is ignored;
* `getDescription` knows only the built-in diagnostics (`lib/Basic/DiagnosticIDs.cpp:180`); a
  buffered diagnostic is replayed under a custom ID, with an empty text;
* what follows the last `\n` of a directive is dropped
  (`lib/Frontend/VerifyDiagnosticConsumer.cpp:361`), and the test expects less than it says;
* after `import fmt` (no quotes) the parser recovers by using the identifier for the path, of
  which `MinimalAction::ActOnImportSpec` (`lib/Parse/MinimalAction.cpp:107`) then strips the first
  and the last character as if they were quotes;
* at the depth limit `consumeOpen` fails with the current token left at a `;` before the end of
  the source (`lib/Parse/Parser.cpp:1507`), and the flag `CompositeTypeNameLitNeedsParens` keeps the
  value it has in the header around; `ParseBlock` ignores the failure
  (`lib/Parse/ParseStmt.cpp:945`) and parses statements, so that an `if` after that `;` finds the flag
  set and its assertion (`lib/Parse/RAIIObjectsForParser.h:31`) fails: 256 braces deep, in
  `if func(){ ... } ...;` followed by `if`. `FlagMatchesHeader` says that it fails in no other way;
* `ParseImportDecl` calls `ParseImportSpec` at whatever token follows `import`, unless it is a `(`
  (`lib/Parse/Parser.cpp:175`); `ParseImportSpec` asserts a period, an identifier or a string there
  ("Invalid ParseImportDecl start", `:188`), so that `import +` ends the program. In parentheses the
  caller looks first. `AssertedTokensCorrect` says that no other function is called so;
* two assertions in `lib/Frontend/TextDiagnostic.cpp` (`:274`, `:281`) compare a byte offset with a
  number of columns.

## 5. Proofs

TLAPS checks the theorems for every value of the constants: buffers of any length, any number
of builders and arguments, files with any directives and diagnostics, sources of any tokens,
structs of any shape, lines of any characters, expressions of any length. They
use the named assumptions of the modules, and nothing else: `LexemesAssumption` (lexeme kinds differ
from the elements with a meaning of their own and from the kinds of tokens the lexer makes
itself) and `InputsAssumption` (buffers are sequences
of elements); `BoundsAssumption` and `IDsAssumption` (capacities are numbers; built-in IDs,
custom IDs and "nothing in flight" differ); for `VerifyConsumer`, `BoundsAssumption` (a file
has a line) and `InputsAssumption` (directives and diagnostics have their fields). Each
assumption is evaluated by TLC on the instances of the runs. For `SemaScopes`
and `MinimalAction`, `ConstantsAssumption` (builtins are identifiers, the absent declaration is none, bounds are
numbers): the proofs hold for any identifiers, any set of identities and any bounds on nesting,
lists, redeclarations and the cache. For `Parser`, `ParserAssumption` (the limits are numbers, and
a vocabulary is finite): any vocabularies, any depth limit, any bound on the stack, whatever the
Action answers. For `Selectors`, `SourcesAssumption` (sources have their fields) and
`NamesAssumption` (the names of types differ, and there is one). For `Snippets`, `LinesAssumption`
(a line is a sequence of characters that have bytes and columns) and `NumbersAssumption` (a tab
stop is not zero, the bounds are numbers). For `Precedence`, `VocabularyAssumption` (tokens are of
the kinds an expression has) and `MaxTokensAssumption` (a number). For `Formatting`,
`WordsAssumption` (a word is not one of the three characters that have a meaning outside of tests),
`ArgumentsAssumption` (arguments have a kind and a number) and `DescriptionsAssumption`
(descriptions are trees, nested at most `MaxNesting` deep, whose modifiers are good for the
arguments): what the code asserts of a description is that it has this form and that some option
is for the argument. The numbers in descriptions are naturals, small enough for an `unsigned`.

**`SharedLemmas`** has what several proofs need of the library's operators: the least and the
greatest element of a set of numbers, from the well-foundedness of `<`, the front of a
sequence, and what `FlattenSeq` returns: that it is a sequence, what it is when one more is put
at the end, which elements it has and when they differ (`FlattenType`, `FlattenAppend`,
`FlattenRange`, `FlattenDistinct`), by descent on the length.

**`LexerProofs`.**
`TypeCorrect`: `TypeOK` is an invariant. The weight is in `BufferPtr \in 1 .. BufferEnd`,
that no scan runs past the end of the buffer whatever is in it. `TypeOK` is inductive. The
lemmas below it bound each scan: `SkipOverRange` and `SkipToRange` for the scans to a set of
elements, from the existence of a least element; `LiteralEndRange` for literals, whose recursive function is first shown to exist
(`ScanExists`) and then to stay in range (`ScanRange`) by descent from the end of the buffer.
Then come one lemma per helper (`InsertSemiType`, `SkipLineCommentType`, ...) and one step
per action.
`SemiFollowsCorrect`: `SemiFollowsSemiKind`. The invariant is not inductive: that a semicolon
is inserted only when `LastTokenKind` asks for one says nothing until `LastTokenKind` is tied
to the last token handed out. `LastKindInv` does that: whenever `LastTokenKind` asks for a
semicolon, it is the kind of the last token. It is as weak as that because of the semicolon
`SkipBlockComment` loses, after which the two differ.

The other four are about the text the lexer passes, and rest on one classification (`Moves`):
whatever path it takes, an action passes over white space, comments and text that is reported
without making a token (`PassesOver`), makes one token, loses a semicolon, runs off the end, or
opens or closes a conflict. `ScanShape` and `LiteralShape` say where `LexLiteral` stops, by
descent in the buffer, with `Escaped` as parity of the backslashes before a position
(`EvenIsNotEscaped`, `BackslashEscapes`, `OthersDoNotEscape`).
`NoTextLostCorrect`: `TextInv` adds that the last token ends before `BufferPtr` and that a
conflict that is open was reported.
`LiteralsCorrect` follows from `LiteralShape` and the fact that tokens are never changed.
`OneSideCorrect`: `ConflictInv` says of each conflict reported that until its closing marker is
behind, the lexer is in the state its opening marker set (`StillOpen`) and has met no marker that
would have ended the first side (`OneSide`); stated of all conflicts, not just the last, because
the lexer does not remember where the last one was opened.
`LineEndsCorrect`: `LineInv` relates `LastTokenKind` and the flags in the making to the line ends
between the last token and `BufferPtr`: a semicolon that is still due has seen none
(`SemiStillDue`, with the exception of the one that is lost), one that is wanted is at the end of
its line (`WantedInLine`), and `StartOfLine` is set just when one was passed or is next
(`StartsNoticed`).

**`DiagnosticsProofs`.** `IInv` is the conjunction of `TypeOK`, `OneInFlight`, `EmittedOnce`,
`FlushIdle` (nothing is in flight during a replay), `SaysWhatWasReported` and
`ArgumentsInv`, which says of the report in flight that the first `NumArgs` places of the
shared array hold just its own arguments; without it, nothing is known of what the next
destructor will print. It is preserved by each action (`ReportStep`, `AddStep`,
`CopyStep`, `DestroyStep`, `FlushOneStep`, ...; together `Invariance`). From it follow
`TypeCorrect`, `InFlightCorrect`, `EmissionCorrect` and `ArgumentsCorrect`.

Its second part is about `Snippets`. A place on a line is a byte, a character or a column, and the
three are related by running sums of widths, recursive functions that are shown to exist and to
grow (`SumsExist`, `SumsGrow`); `ColumnOfStart` is the map from the first byte of a character to
its column, `RowsAre` and `PrintedIs` say that the line as printed shows character k in just its
own columns. `RangeCovers`: the loops that skip blanks at the ends of a range arrive at the first
and the last character of it that shows. The tildes are filled in one range after the other, so
`OneMoreMarked` says what one more adds, and `DrawnMarked` carries it over all ranges by descent.
`CaretPut` puts the caret over a tilde, `StillPointed` shows that cutting trailing blanks takes no
mark away. `CaretInv` then gives what the caret line is at each step of the function, and
`MarksCorrect` (`MarksUnderText`) follows. For the hints, `HintInv` says that the hints printed so
far are *placed*: the text of each is in one piece, an interval of columns of its own, not before
the place it is for, and none ends beyond `PrevHintEndCol`. Without the last,
nothing is known of whether the next one overwrites a hint. `OneMorePlaced` is one trip through
the loop, and `HintsCorrect` (`HintsReadable`) follows.

Its third part is about `Formatting`. The recursive functions are shown to exist and to be unique
(`LevelsExist` once for all that go from one level to the next, used in `NumeralIs`, `TreesAre`,
`SpellIs`, `MeaningIs` and `RepeatedIs`; `ScanIs` for the scan). `Stands(str, p, s)` says that text
`s` stands at place `p`; `FlattenStands` and `JoinedStands` take it apart. The heart is
`TreesSkipped`, by induction on the nesting: the scan goes over the text of any tree, with all its
braces, bars and escapes, and is at brace level zero again behind it; so `ScanFormat` stops at the
separator or brace it was looking for (`ScanStops`). For plurals, `NumberStands`, `RangeStands`,
`TestStands` and `EvalStands` go from the digits to the conditions of one form. `SelectStands` and
`PluralStands` then say which option the handlers return: its text, all of it and nothing else. The
inductive invariant is `SaysTheRest`: what was said so far, followed by what the pieces of the
pending calls say (`PieceSays`: each is the text of some tree), is what the description means.
Without the pieces of *all* calls nothing is known of what follows the option being formatted. Each
action has its step (`CopySays`, `EscapeSays`, `PlainSays`, `ModifiedSays`, `ReturnSays`), and
`FormattingCorrect` (`SaysWhatIsDescribed`) is the state in which no call is left.

**`VerifyConsumerProofs`.**
`TypeCorrect` and `DeletionCorrect` (`ClientsDeletedOnce`) come from
`IInv == TypeOK /\ Owners`; `Owners` gives for each value of `pc` who owns which client, so
that every `setClient` is seen to delete just the one that is not used again.
`VerdictCorrect` (`VerdictSound`): exit code 0 means that directives and diagnostics fit
together. `Verdicts` carries, while the verifier has counted no problem, that the sets in
`taken` are disjoint, match, and lie within the counts (`Matching`), and that the kinds
already checked are consistent; `MatchingIsConsistent` turns the disjoint sets into the
assignment of directives to diagnostics that `Consistent` asks for.
`ExplanationCorrect` (`VerdictExplained`) and `SilenceCorrect` (`SilentFileFails`) use
`Counts`, which relates the counts of printer and verifier and the status of the directives.
`NothingLostCorrect` (`NothingSaidIsLost`): `Kept` counts for each stage of `main` the directives
seen against those accepted and the errors about others in the buffer.
`ExactnessCorrect` (`VerdictExact`): the converse of `VerdictCorrect`. `Cause` says that the
verifier's count rises only where directives and diagnostics do not fit or compete. While a list
is checked, a directive that took fewer diagnostics than it allows has left none that it matches
(`TakesAll`); so if one is short, or a diagnostic is left over, and no two directives match one
diagnostic, then every assignment is short of it too.

**`SemaScopesProofs`.** `IInv` is the conjunction of `TypeOK`, the three invariants the run checks
(`ContextFollowsScopes`, `ChainsMirrorScopes`, `RedefinitionIsLocal`) and four that make them
inductive. `EntitiesInv`: each scope's context was made in the innermost context around it, and
only the last scope can be that of a field list; without it nothing is known of the context
`PopDeclContext` returns to, nor of the scope `PushOnScopeChains` walks to. `DeclsInv`: the
declarations of a scope belong to its context, each is in one scope only, and the scope of a
field list has none; with it, the context comparison in `isDeclInScope` is a comparison of
scopes, and leaving a field list loses nothing. `ClosingInv` and `TodoInv`: nothing else happens
while a scope is being left, and a list in progress declares into a context made in the current
one by transparent steps, so that the handlers' different contexts (`ContextOfCheck`) all resolve
to the same scope. Preservation rests on a few lemmas about the code's helpers: `LookupHead` (the
first result of `LookupName` is the end of the chain), `CheckFindsAll` (a declaration of the name
in the target scope is always found by the check: a second one is never pushed),
`CheckFindsLocal`, `PushScopes`, `PushChains`, `RemoveDeclIs`; then `CheckStep`, `EnterStep`,
`LeaveStep` and `ForgetHeld` for what the handlers share, and a step per action. The theorems
are `TypeCorrect`, `ContextsCorrect`, `ChainsCorrect` and `RedefinitionCorrect`.

Its last part has `Refinement`: the code implements `ScopeMap`. What a name means in a
stack of blocks is first stated as a relation (`Means`), which determines the value
(`MeansUnique`), is what `ScopeMap` computes with `CHOOSE` (`MeansInnermost`), and depends on the
declarations of that name only (`MeansSame`). `ViewOK` shows from `ChainsMirrorScopes` that the
code's lookup has this meaning. Every action then maps to a step of the map or to none: the
redefinition check to `Declare` or a stutter (`DeclareMaps`), scopes entered to `Open` unless
they are those of field lists (`OpenMaps`, `FieldListMaps`), the stages of leaving one to
`Close`, `Forget` and `Drop` (`ExitMaps`, `ForgetMaps`, `PopMaps`).

**`SelectorsProofs`.** Most helpers of `StructTypes` read variables, and the proofs speak of them
before and after a step. They are therefore first restated as functions of the values of the
variables (`Places`, `NamedIn`, `FieldsIn`, `ProfileIn`; `State` and `NextState` say that they
are the helpers in either state). The inductive invariant `Inv` has six parts. `TypesInv`: a type's
name is declared for a name declared before it, so that resolving names ends. `OpenInv`: the
structs being parsed are nested, each begun before the next. `FieldsInv`: an embedded field embeds
a struct that began before its own, so that the search through embedded structs descends; a struct
written as the type of a field began after the field's own, and is complete. `TablesInv`: a lookup
table that is up to date finds what the list has; one that was not made and is not to be belongs to
a struct without members. `CanonInv`: a struct and its canonical struct have the same profile, and
no two canonical structs have one profile. `AnswerInv` describes the last selector's result.
`TypeCorrect` and `TablesCorrect` (`TablesFollowLists`) come from preservation, one lemma per
action.

`SelectorsCorrect` (`SelectorRule`) needs what the search computes. `SearchIs`: the paths the depth
first search records are just the routes through embedded structs to a struct that has a member of
that name, passing no other such struct, and each is recorded once. `ShortestAre` and
`ResultOf` describe the paths that are kept and the kind of result made of them; `ShallowestIs`
shows that searching level by level, as the language has it, finds the fields at the ends of the
shortest routes (`NearestRoutes`). Both sides are then statements about routes and agree
(`RuleFollows`); the reports and notes are counted along the same lines (`ErrorsAre`, `NotesAre`),
which gives `FailuresCorrect` (`FailureExplained`).
`IdenticalCorrect` (`IdenticalTypes`): identity of structs is defined by recursion on the nesting
of their types. The recursive function is shown to exist and to be unique by descent over structs
in the order they began (`SameExists`); that it agrees with having one canonical type
(`MatchAgree`, `SameFollows`) is another descent, which uses that members written earlier keep
their canonical types (`ProfilesKept`).

**`MinimalActionProofs`.** The stack of scopes is not a variable but what following
`AnyParent` from `CurScope` finds, a recursive function. `IsStack` says of a sequence that each
of its scopes has the one before it as its parent; `StackIs` shows that there is at most one such
sequence and that the function finds it. The inductive invariant is therefore stated of a
sequence, `InvFor(st)`, and each action is shown to take it to the sequence it makes
(`Append(st, a)`, `Front(st)` or `st`): `OpenStep`, `RecycleStep`, `DeclareStep`, `PopStep` and so
on. `InvFor` has the types, `IsStack`, depth and function of each scope, `ClosingInv` (what is
still to be popped is declared by the current scope), `EntriesInv`, and `ObjectsInv`, which adds to
the property that no address is in the cache twice; without it, taking one out for a new scope
might leave it there. `EndsInv`, no scope is left while imports may still come, tells the parser that
ended from the one that returned at once, after which there is nothing but the builtins' entries
(`Gone`, `AbandonStep`). `ScopesCorrect` and `EntriesCorrect` follow. For `Refinement`, `RInv` adds
that a source without redeclarations leaves no entries behind and that imports end before a second
scope is opened, so that they too are declared in the innermost one. The k-th entry of a name is
the declaration of the k-th scope that holds it (`Rank`, `RankOK`); that the last one is the
innermost declaration of the map (`ViewOK`) is then `RankOK` for the greatest such scope. The
actions map to `Declare` (`DeclarationMaps`), `Open`, `Close`, `Forget`, `Drop` (`OpenMaps`,
`ExitMaps`, `PopMaps`, `RecycleMaps`) or a stutter (`SilentMaps`, `AbandonMaps`, `GoneMaps`).

Its last part is about `Precedence`, the other calls of the parser that keep their state on a
stack. `Grouping` recurses on arbitrary parts of a sequence; that there is one such function is
shown by descent on the length (`GroupingIs`). `Expr(s, m)` says of a text that it is an
expression whose operators outside parentheses bind at least as tightly as `m`. Expressions are
put together in four ways: `OperandIs`, `UnaryIs`, `ParenIs` and `BinaryIs`, where an expression of
level q, an operator of level q and one of a higher level give an expression of level q with that
operator as its root; the operator that binds least is found by counting the parentheses before
it (`RootIs`, `RootsConcat`, `DepthConcat`). The inductive invariant `PrecedenceInv` has the types
and three parts. `LevelInv`: each call on the stack gives back what the call below wants (`Gives`,
`Wants`), and what has been returned was ended by a token the caller does not let it take.
`TextInv`: the text consumed is divided among the calls (`Explained`), each standing for an
expression of its level and holding its tree (`Stands`). `SpoiltInv`: once an operand was missing,
the result is invalid or a call holds an invalid left side; an expression that was spoilt is
never repaired. `PrecedenceCorrect` (`TreeFollowsPrecedence`) is the last state of `TextInv`.
`RecursionCorrect`, which no run checks, is the assertion "Recursion didn't work!"
(`lib/Parse/ParseExpr.cpp:88`): after the recursive call no operator that binds tighter is next,
also after errors.

**`ParserProofs`.** The stack `todo` is a sequence of tuples of different shapes, and what an
entry may assume depends on those below it. The inductive invariant `IInv` says so: every entry
`Fits` the rest of the stack below it (`Stack`), and the variables are what the whole stack says
(`Flag`, `Closes`, `Switched`). `Fits` is thus a contract of the parse functions, one conjunct for
each thing a function relies on: the type of a ".(type)" is parsed only where some statement below
may be its guard (`Claims`); a range clause only in the statement of a "for" (`InRange`); a function
that starts a header is called where the flag is not set (`Levels`), unless a tracker below was
refused its opener (`Refused`), the case of the assertion in section 4; a function that asserts its
token is only ever the first entry (`Ready`), at that token (`Starts`). An invariant of the first
entry alone would not
do, since what a function returns to was put there many steps before.

The actions have many alternatives, but there are few kinds of moves: the first entry becomes a few
entries that are its heirs (`TurnStep`, with `ContinueStep`, `AdvanceStep`, `ComplainStep`,
`FailStep`), a tracker opens (`OpenStep`), closes or is given up (`CloseStep`, `AbandonStep`,
`AroundStep`), a header begins or ends (`StartStep`, `EndHeader`), a simple statement begins or ends
(`SimpleStartStep`, `SimpleEndStep`). Each has one lemma, which rests on how `Fits` and the counts
behave when sequences are put on top of a stack (`ChainStack`, `StackConcat`, `OnTop`, `UnderSteps`);
`CoreSteps`, `DeclSteps`, `TypeSteps`, `ExprSteps` and `StmtSteps` then show of each alternative of
the actions that it is one of these moves with entries that fit. The theorems: `TypeCorrect`;
`BalancedCorrect` (`BalancedUnlessError`); `FlagCorrect` (`FlagMatchesHeader`); `GuardIsUsedCorrect`,
the action property `GuardIsUsed`; and `AssertedTokensCorrect`, which no run checks: functions that
assert their first token are called at it, also after errors, with the one exception of section 4,
which is an end of the source: where the parser goes on into an import, it is at the start of one.

Each specification's theorem combines `Init => IInv`, `IInv /\ [Next]_vars => IInv'` and
`IInv => Property` with PTL. In all, about 38,000 obligations are proved.

**Only model-checked.** Liveness (`ReachesEOF`, `Progress`): TLAPS has no rule for fairness
and `ENABLED` here. Every invariant and action property of the runs is also a theorem. The provers
at hand do not instantiate the library's induction theorems, which take an operator; where something
is true by induction over the length of a sequence (`LiteralEnd` in the lexer, the search for
promoted fields, `Grouping`, the running sums) or the nesting of descriptions, the models have
recursive *functions* of numbers, and the proofs use a least counterexample or induction over the
*set* of numbers for which a statement holds (`SetInduction`).

## 6. What is left out

Of the 88,000 lines of the implementation some 15,000 are active; the rest is inherited text
inside `#if 0` and comments, which there is nothing to say about. Of the active ones about a
third are declarations, accessors and constructors. Not modelled of the parts that are:

* *Lexer*: the bytes within identifiers, numbers and operators; UTF-8; raw mode (`getRawToken`,
  `MeasureTokenLength`); arithmetic on the length of a marker near the end of the buffer.
* *Diagnostics*: source ranges and fix-it hints on their way to the client, which are filled as
  the arguments are; levels, which no option changes. A client does not report while it handles
  a diagnostic; `Report` would assert.
* *Text diagnostics*: the region selected from long lines and word wrapping, which need a message
  length no option sets; include stacks, which need a second file; colours.
* *VerifyConsumer*: one directive per comment, and no misspelt kinds, which the code skips on
  purpose; regular expressions are texts that may be invalid; `UINT_MAX` is 5.
* *SemaScopes*: types, initialisers, members of contexts (`StructTypes` has those of structs);
  functions without a caller.
* *Selectors*: types other than structs, pointers, names and one basic type; methods, which the
  code does not look up yet; modes of the search that have no caller.
* *Parser*: operators of one class share a kind; whether an expression is valid, including
  `CheckAssignable`; scopes, which `SemaScopes` and `MinimalAction` have; what the Action makes of
  a construct. The stack of a real run is bounded by memory, that of the model by `MaxTodo`; a
  source that would exceed it ends there, which is one of the things sources do.
* The parts the last table in section 1 names.

## 7. Plan

What exists was written in this order, most important first: `Lexer`, `Diagnostics`,
`VerifyConsumer`, `SemaScopes` over `ScopeMap`, the five parser modules, `StructTypes` and
`Selectors`, `MinimalAction`, the sequential algorithms; then the proofs about `SemaScopes` and
`MinimalAction`, the rest of those about `Lexer` and `VerifyConsumer`, those about `Parser`, and
those about `Selectors`, `Snippets`, `Precedence` and `Formatting`. Next:

1. A property of the parser's silent failures: a source that is rejected is told why.
2. The lexer in raw mode, and a byte-level `FindConflictEnd`.
