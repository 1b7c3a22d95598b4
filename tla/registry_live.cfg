\* Progress under fairness; turns that nobody cancels may run for ever.
SPECIFICATION FairSpec
CONSTANTS
  r1 = r1  r2 = r2  r3 = r3  r4 = r4  i1 = i1  i2 = i2
  None = None
  Requests = {r1, r2, r3}
  Ids = {i1}
  Stored = {i1}
  Kinds = {"restore", "prompt", "cancel", "config", "close", "delete", "shutdown"}
  Ephemeral = {FALSE}
  MaxActive = 2
PROPERTY OnlyTurnsLinger
