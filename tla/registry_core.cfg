\* Three requests of any kind and a list on two ids, one of them left in the
\* store by an earlier process; two slots.
SPECIFICATION ListSpec
CONSTANTS
  r1 = r1  r2 = r2  r3 = r3  i1 = i1  i2 = i2
  None = None
  Requests = {r1, r2, r3}
  Ids = {i1, i2}
  Stored = {i1}
  Kinds = {"new", "restore", "prompt", "config", "cancel", "close", "delete", "shutdown"}
  Ephemeral = {FALSE, TRUE}
  MaxActive = 2
SYMMETRY Symmetry
INVARIANTS
  TypeOK GateExclusive DeleteWins ShutdownLeavesNothing EphemeralNotStored ListComplete
