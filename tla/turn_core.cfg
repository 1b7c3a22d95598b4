SPECIFICATION FairSpec
CONSTANTS
  MaxTurns = 2
INVARIANTS TypeOK IdleIsDurable PromptWaits
PROPERTIES FinishedNeedsEvidence MirrorNeverShrinks PoisonQuarantine CancelAnswered
