\* Four requests race on two ids, one of them stored, and two slots: restores,
\* turns, config writes, closers and deletes, and new sessions among them.
SPECIFICATION Spec
CONSTANTS
  r1 = r1  r2 = r2  r3 = r3  r4 = r4  i1 = i1  i2 = i2
  None = None
  Requests = {r1, r2, r3, r4}
  Ids = {i1, i2}
  Stored = {i1}
  Kinds = {"new", "restore", "prompt", "config", "close", "delete"}
  Ephemeral = {FALSE}
  MaxActive = 2
SYMMETRY Symmetry
INVARIANTS SlotsBounded CloseFlushes OneObjectPerThread LiveIsRegistered
PROPERTY ImplementsMirror
