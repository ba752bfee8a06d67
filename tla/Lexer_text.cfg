\* Whitespace, comments and semicolon insertion, literals, and conflict
\* markers of both styles.
CONSTANTS
  Lexemes = {"identifier", "plus"}
  Inputs <- MCInputs
SPECIFICATION FairSpec
INVARIANTS
  TypeOK
  NoTextLost
  SemiFollowsSemiKind
  LineEndsNoticed
  LiteralsWellFormed
  OneSideOfConflicts
PROPERTY ReachesEOF
