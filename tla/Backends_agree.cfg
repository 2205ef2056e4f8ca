SPECIFICATION Spec
CONSTANTS
  Width = 3
  Arbitrary <- SomeGarbage
  Typed <- SomeNumbers
  MaxTyped = 2
  MaxSteps = 54
  MaxInstructions = 40
  InputSlot = "__input_var"
  Programs <- SomePrograms
  Parts <- SomeParts
  Needs <- SomeNeeds
  Declares <- SomeDeclares
INVARIANTS
  BackendsAgree
  VariablesHaveValues
  VariablesAreKnown
  IrIsValid
  NamesReachTheirFunction
  DumpShowsTheProgram
