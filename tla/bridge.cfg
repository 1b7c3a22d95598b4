SPECIFICATION Spec
CONSTANTS
  Pages = 2
  MaxChanges = 1
  MaxOthers = 1
  Failures = {"snapshot", "timer"}
INVARIANTS TypeOK ViewWasAtRest CancelNotLost
PROPERTIES ObserverEnds ImplementsObserver
