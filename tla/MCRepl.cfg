\* A page has room for two or three short rows, page 65535 is page 2.
CONSTANTS
  Space <- MCSpace
  Letter <- MCLetter
  Digit <- MCDigit
  Upper <- MCUpper
  Keyword <- MCKeyword
  FIELD_SEPARATOR = "|"
  Lines <- MCLines
  ExitLines <- MCExitLines
  HelpLine <- MCHelpLine
  Users <- MCUsers
  Schema <- MCSchema
  Overflow = 2
  PageRoom = 9
  SLOT_SIZE = 1
  MaxRows = 2
SPECIFICATION Spec
INVARIANT TypeOK
INVARIANT LinesAreSplitAsWritten
INVARIANT LinesAreAnsweredByTheGrammar
INVARIANT SelectShowsRows
INVARIANT AcknowledgedRowsAreDurable
INVARIANT OneRowPerInsert
INVARIANT FailedStartsLoseNothing
