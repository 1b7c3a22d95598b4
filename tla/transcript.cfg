SPECIFICATION Spec
CONSTANTS
  Json = {"json"}
  Texts = {"plain", "json"}
  MaxMessages = 2
  MaxCalls = 2
  MaxStreamed = 2
INVARIANTS AgreementIsReal GrownThreadAccepted HistoryRecoverable
PROPERTY CommittedIsWhole
