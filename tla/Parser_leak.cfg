SPECIFICATION Spec
CONSTANTS
  Names = {a}
  NoName = NoName
  Units <- LeakUnits
  MaxTokens = 6
PROPERTY BlockClosesItsScope
