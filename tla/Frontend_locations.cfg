SPECIFICATION FrontendSpec
CONSTANTS
  Names = {a}
  NoName = NoName
  Units <- LocationUnits
  MaxTokens = 3
  MaxLength = 2
  MaxLine = 3
  MaxColumn = 5
INVARIANTS
  ErrorLineExists
  NeverAhead
  ColumnIsExact
