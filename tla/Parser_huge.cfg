SPECIFICATION Spec
CONSTANTS
  Names = {a}
  NoName = NoName
  Units <- HugeUnits
  MaxTokens = 6
INVARIANT CollectedIsDisplayed
