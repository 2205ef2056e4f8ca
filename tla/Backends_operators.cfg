SPECIFICATION Spec
CONSTANTS
  Width = 3
  Arbitrary <- SomeGarbage
  Typed <- SomeNumbers
  MaxTyped = 2
  MaxSteps = 10
  MaxInstructions = 10
  InputSlot = "__input_var"
  Programs <- Comparing
  Parts <- SomeParts
  Needs <- SomeNeeds
  Declares <- SomeDeclares
INVARIANTS
  AllOperatorsAgree
