SPECIFICATION MainSpec
CONSTANTS
  Names = {a}
  NoName = NoName
  Units <- ExpressionUnits
  MaxTokens = 4
  Arguments <- SomeArguments
  NoText = ""
  Levels = {"2", "3"}
  DefaultLevel = "2"
  MaxArguments = 3
  DefaultExe = "a.out"
  DefaultLl = "a.ll"
  WithLl <- Extensions
  DumpFile = "dump/dump.gv"
INVARIANTS
  CompilesWholePrograms
  RejectionsAreReported
  OnlyUnknownEndsEarly
  OptionsAreAsGiven
  NothingWrittenUnlessParsed
  SuccessMeansWritten
  FilesAreWhole
