SPECIFICATION Spec
CONSTANTS
  MaxThreads = 4
  Faults = {}
INVARIANTS NoOrphan
