\* Every fault, with room for the original thread and three destinations.
SPECIFICATION FairSpec
CONSTANTS
  MaxThreads = 4
  Faults = {"crash", "discard_fails", "delete", "close", "altered"}
INVARIANTS TypeOK
PROPERTIES
  BoundSurvivesDiscard ReplacesOnlyMissing ReplacementIsComplete BindingAdvances
  RestoreReturns
