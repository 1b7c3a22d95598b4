\* A turn admitted before another one poisons the session.
SPECIFICATION Spec
CONSTANTS
  r1 = r1  r2 = r2  r3 = r3  r4 = r4  i1 = i1  i2 = i2
  None = None
  Requests = {r1, r2, r3}
  Ids = {i1}
  Stored = {}
  Kinds = {"new", "prompt"}
  Ephemeral = {FALSE}
  MaxActive = 2
PROPERTY PoisonFence
