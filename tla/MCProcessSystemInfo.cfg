CONSTANTS
  None = None
  Bits = 4
  Inputs <- MCInputs

SPECIFICATION Spec

INVARIANT TypeOK
INVARIANT MicrocodeOfFirstEntry
INVARIANT LsbOfLastLines
