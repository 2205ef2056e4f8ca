SPECIFICATION CodegenSpec
CONSTANTS
  Names = {a}
  InputVar = InputVar
  MaxNodes = 4
INVARIANTS
  NamesResolve
  InsertsIntoCurrentFunction
  TablesFollowFunctions
  BlocksEndOnce
