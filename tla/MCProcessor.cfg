CONSTANTS
  t1 = t1
  t2 = t2
  None = None
  ThreadIds <- MCThreadIds
  MaxThreads = 3
  MaxWalkFrames = 2

SYMMETRY MCSymmetry

SPECIFICATION Spec

INVARIANT TypeOK
INVARIANT StacksMatchThreads
INVARIANT CrashingThreadRecorded
