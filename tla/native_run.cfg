SPECIFICATION Spec
CONSTANTS
  Pids = {1, 2, 3}
  MaxLaunches = 2
INVARIANTS TypeOK PluginOutlivesProcess OnlyCrashesLeak NothingLeft SuccessIsComplete
PROPERTY RunReturns
