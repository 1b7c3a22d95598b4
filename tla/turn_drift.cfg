SPECIFICATION Spec
CONSTANTS
  MaxTurns = 1
INVARIANTS AnsweredIsDurable
