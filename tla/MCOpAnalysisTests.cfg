CONSTANTS
  None = None
  ReadThreadInstructionFailed = ReadThreadInstructionFailed
  UnsupportedCpuArch = UnsupportedCpuArch
  InstructionTruncated = InstructionTruncated
  DecodeFailed = DecodeFailed
  RegisterInvalid = RegisterInvalid
  Panic = Panic
  W = 24
  PtrBytes = 8
  Regs <- TestRegs
  RegValues <- MCTestRegValues
  ValidSets <- MCTestValidSets
  Disps <- MCTestDisps
  Scales <- MCTestScales
  MemSizes <- AllSizes
  Opcodes <- MCTestOpcodes
  MemoryList <- MCTestMemoryList
  StackRegions <- MCTestStackRegions
  MemContents <- MCTestMemContents
  Builds <- MCTestBuilds
  Instructions <- TestInstructions
  Contexts <- TestContexts
  Inputs <- TestInputs

SPECIFICATION Spec

INVARIANT AccessTestsPass
