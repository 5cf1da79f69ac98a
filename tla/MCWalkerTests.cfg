CONSTANTS
  None = None
  Panic = Panic
  NoSymbol = NoSymbol
  FillSymbolError = FillSymbolError
  W = 5
  Ptr = 1
  WinX64 = FALSE
  Build = "release"
  Modules <- FixtureModules
  FileFactChoices <- FixtureFiles
  RuleChoices <- NoRules
  Inputs <- TestInputs
  MaxFrames = 4

SPECIFICATION Spec

INVARIANT UnitTestOutcomes
