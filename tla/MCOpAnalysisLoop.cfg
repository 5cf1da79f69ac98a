CONSTANTS
  None = None
  ReadThreadInstructionFailed = ReadThreadInstructionFailed
  UnsupportedCpuArch = UnsupportedCpuArch
  InstructionTruncated = InstructionTruncated
  DecodeFailed = DecodeFailed
  RegisterInvalid = RegisterInvalid
  Panic = Panic
  W = 5
  PtrBytes = 8
  Regs <- MCRegs
  RegValues <- MCRegValues
  ValidSets <- MCValidSets
  Disps <- MCDisps
  Scales <- MCScales
  MemSizes <- MCMemSizes
  Opcodes <- MCOpcodesWithLoop
  MemoryList <- MCMemoryList
  StackRegions <- MCStackRegions
  MemContents <- MCMemContents
  Builds <- MCBuilds
SPECIFICATION Spec

INVARIANT NoUpdateOnlyWithoutBranch
