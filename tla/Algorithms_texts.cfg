\* Builders, their copies, and replays of the buffer; descriptions;
\* lines; expressions.
CONSTANTS
  Builders = {b1, b2}
  NoteIDs = {note_previous_definition}
  ErrorIDs = {redefinition}
  MaxArguments = 2
  NoID = NoID
  MaxReports = 4
  Words <- MCWords
  MaxNesting = 3
  Descriptions <- MCDescriptions
  Arguments <- MCArguments
  Lines <- MCLines
  TabStop = 3
  MaxParts = 2
  MaxText = 2
  Vocabulary <- MCVocabulary
  MaxTokens = 7
SPECIFICATION MCSpec
SYMMETRY BuilderSymmetry
INVARIANTS
  TypeOK
  OneInFlight
  EmittedOnce
  SaysWhatWasReported
  SaysWhatIsDescribed
  MarksUnderText
  HintsReadable
  TreeFollowsPrecedence
CHECK_DEADLOCK FALSE
