SPECIFICATION Spec
CONSTANTS
  Names = {a, b}
  NoName = NoName
  Units <- ScopeUnits
  MaxTokens = 7
INVARIANTS
  TypeOK
  EnclosingScopesStayOpen
  NoDanglingView
  NoShadowing
  ScopesFollowText
PROPERTIES
  ImplementsDeclarations
  ClosesItsScopeUntilError
