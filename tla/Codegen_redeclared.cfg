SPECIFICATION CodegenSpec
CONSTANTS
  Names = {a}
  InputVar = InputVar
  MaxNodes = 4
INVARIANT ClosedScopesAreForgotten
