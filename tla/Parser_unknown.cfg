SPECIFICATION Spec
CONSTANTS
  Names = {a}
  NoName = NoName
  Units <- UnknownUnits
  MaxTokens = 6
INVARIANT CompilesToEndOfFile
