SPECIFICATION FairSpec
CONSTANTS
  Names = {a}
  NoName = NoName
  Units <- RecoveryUnits
  MaxTokens = 7
PROPERTY
  Termination
  RecoveryUsesTokens
