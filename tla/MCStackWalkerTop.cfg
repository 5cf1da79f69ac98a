CONSTANTS
  None = None
  Panic = Panic
  NoSymbol = NoSymbol
  FillSymbolError = FillSymbolError
  W = 4
  Ptr = 1
  WinX64 = FALSE
  Build = "release"
  Modules <- MCModules
  FileFactChoices <- MCFileFactChoices
  RuleChoices <- MCRuleChoices
  Inputs <- MCInputs
  MaxFrames = 4

SPECIFICATION Spec

INVARIANT UnwinderCoversLoadedModules
