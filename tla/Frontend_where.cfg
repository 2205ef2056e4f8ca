SPECIFICATION FrontendSpec
CONSTANTS
  Names = {a}
  NoName = NoName
  Units <- LocationUnits
  MaxTokens = 3
  MaxLength = 1
  MaxLine = 2
  MaxColumn = 4
INVARIANT ReportsWhereItOccurred
