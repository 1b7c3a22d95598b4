# Verification of acp-go-amp

TLA+ models of `acp-go-amp`, the adapter that exposes the Amp coding agent
through ACP, checked with TLC and proved about with TLAPS. Paths and line numbers are those of
the repository.

Run a model with `tlc -config <run>.cfg <module>.tla`, check the proofs of a
module with `tlapm <module>Proofs.tla`.

## 1. The system

A host speaks ACP to one `Agent`. An ACP session is a *native thread* on Amp's
service plus a *mirror* of it, a raw export with a config record, in the host's
`SessionStore`. The adapter keeps no process between turns: every prompt starts
`amp threads continue`, attaches to the thread through a temporary plugin,
submits the prompt, follows the stream, waits for the turn's receipt and the
quiet thread, stops the process, exports the thread and commits the export.

### Inventory

| Component | State it keeps | Operations | Hard behaviour | What makes it correct |
|---|---|---|---|---|
| Session registry and handlers (`agent_session.go`, `agent.go`) | `sessions`, `deleted`, `ephemeral`, `starting`, `restores`, `closed`, under `Agent.mu` | new, load, resume, prompt, set_config_option, cancel, close, delete, list, `Close` | one goroutine per request, native calls of many seconds between two critical sections | limits hold, one object per thread, a delete and a shutdown win, nobody evicts a successor |
| Session (`session.go`, `session_models.go`) | `gate`, `closing`, `closeDone`, `turn`, `poison`, `persisted`, `closeErr`, `rows` | `acquireGate`, `admissionError`, `cancel`, `close`, `poisonSession`, `setConfigOption` | close waits for the gate, everyone else tries it; flags are checked before the gate is held | foreground work excludes itself, close publishes what was captured, a poisoned session admits nothing more |
| Turn and settlement (`session_prompt.go`, `session_lifecycle.go`) | `turn`, its `Outcome`, the lifecycle incarnation | `prompt`, `consumeFrame`, `turnVerdict`, `finishTurn`, `idle` | receipt, frames, cancel, exit and deadline arrive in any order; export and commit fail | what the host is told to be over is durable; no finished turn without evidence |
| Native bridge (`internal/amp/bridge.go`, `bridge.ts`) | `attachedState`, the event file, the plugin's `epoch`, `ended`, `reading` | `installBridge`, `control`, `accept`, `stopObserver`, `sweepOrphanPlugins`; plugin `snapshot`, `cancel` | the remote turn outlives the process; asynchronous snapshots | no prompt on a view that showed remote work; every cancelled turn ends |
| Durable mirror (`session_store.go`) | the stored rows and record | `commitMirror`, `loadStored`, `hydrate`, `settleExport`, `reconcileNative`, `verifiedExport`, `replay` | stale exports, truncated threads, crashes | the mirror only moves forward |
| Recovery (`session_recovery.go`, `internal/amp/remote.go`, `import.go`) | the candidate's native id against the record's | `recoverNative`, `importRecovered`, `observeImported`, `discardUnbound` | calls applied without an answer; a destination bound or deleted at the wrong time | only a missing thread is replaced, only by the whole history; the bound thread survives |
| Process runner (`internal/amp/client.go`) | one child process | `Run`, `run`, `DecodeFrame` | three goroutines joined around one process whose pipes a descendant may hold | every call returns, a success has read all output and handed over a plain command's input |
| Export verification (`internal/amp/snapshot.go`) | none | `VerifyExport`, `VerifyMirror`, `containsReceipt` | exports lag, the plugin spells messages differently | only whole and finished threads are committed, and a prompt on one that only grew is never refused |
| Stream projection, options, metadata, images, serving, command line | none that outlives a call, or read-only | | | |

Components meet in three places: the *gate* (a handler holds a session), the
*store* (`commitMirror`, `loadStored`, `Delete`) and the *native thread*, which
the adapter, an earlier adapter process and any other client of the account may
touch.

## 2. Modules

| Module | Models | State and actions |
|---|---|---|
| `SessionRegistry` | the registry, the session objects and every request that races on them | a request is a process with a program counter; one action per critical section or native call. Each session field is a function on objects, and an object has the name of the request that built it, so one ACP id can have several objects over time |
| `DurableMirror` | what the store promises per id: absent, then a mirror that never moves back or past the thread, then a tombstone | `Turn`, `Publish`, `Delete`. `SessionRegistry` implements it (`ImplementsMirror`) with `store`, `durable` and `thread` mapped to themselves |
| `MCSessionRegistry` | instances for TLC and the symmetry set | |
| `SessionRegistryProofs`, `SessionClaimsProofs`, `SessionMirrorProofs` | the TLAPS proofs about `SessionRegistry`, each extending the one before: types and gates, who may work on a session, what reaches the store; the last also about `SessionList` | |
| `SessionList` | `ListSessions` beside the requests of `SessionRegistry`, which it EXTENDS | `lpc` is the list; `seen`, `left` and `current` are its locals, `before` is history: what the store held when it began; the registry's `Next` runs between its steps |
| `MCSessionList` | its instance for TLC | |
| `TurnSettlement` | one session's turns in full: admission, service, native process, control loop, reader, settlement, crash and restore, beside other clients' turns of the thread | threads, exports and mirrors are the sets of turns they contain; `admitted` counts prompts between `admissionError` and `acquireGate`, `inflight` are prompts on their way to the service, `report` is an event written and not yet read, `view` the quiet thread the loop accepted, `inherited` is history: the turn that ran when the process attached |
| `Recovery` | the native binding of one stored session | threads numbered in order of creation with their contents against the backup; one restore at a time (`restores.Acquire`), interleaved with everything else that touches the binding |
| `AttachedObserver` | what an attached run promises its caller: it concludes with what the thread held at rest, after its own turn | `Write`, `OthersWork`, `TurnStarts`, `TurnEnds`, `Submit`, `Conclude`, `Fail` |
| `Bridge` | one `RunAttached`: the thread, the plugin's hooks, timers, snapshots and cancels, the event file, `control` and `accept` | `pending` are notifications under way, `snap` is the one snapshot `reading` admits with its epoch (`moved`), `calls` the awaited `thread.cancel()`s, `events` the file. `ImplementsObserver` is the refinement of `AttachedObserver`, with `rests` as history |
| `NativeRun` | the goroutines of `run` around one process | `caller`, `writer`, `watcher`; `holder` is a descendant with the pipes; an attached run's writer is its control loop |
| `AttachedRun` | the runs of an adapter that crashes and restarts, with the plugin files they install and the sweeps of the adapter and a rival; it composes with `NativeRun` by EXTENDS | `files` named by process id and token, `sweeping` and `doomed` the state of a sweep between its steps |
| `Transcript` | the comparison of view, export and mirror, as operators, in a machine whose thread grows, streams, compacts and is rewritten | `thread`, the lagging `export`, the `mirror`; `Views` is everything the plugin may show of the thread |
| `TurnSettlementProofs`, `RecoveryProofs`, `BridgeProofs`, `AttachedRunProofs`, `TranscriptProofs` | the TLAPS proofs about `TurnSettlement`, `Recovery`, `Bridge`, `AttachedRun` and `Transcript` | |

The machines divide the system by what a property has to tell apart.
`SessionRegistry` keeps the interleavings of requests and folds a turn into
`NativeExit`, `Settle` and `EndTurn`, and a thread into its generation.
`TurnSettlement` opens one turn and keeps one session. `Recovery` keeps the
identity of threads, which the others do not need. `Bridge` opens one attached run
and justifies what `TurnSettlement` takes for granted of it: that a view is a
thread at rest. `Transcript` opens the verdicts `VerifyMirror`, `VerifiedExport` and
`VerifyImported` of the two, and `AttachedRun` the process below them all.

Correspondence worth knowing when reading them:

- `life` folds `closing` and `closeDone`; `turn` folds `session.turn` with its
  `cancelled` and `settling` flags; `gate` also names who filled the channel.
- `obj[r]` is the handler's local `s` or `active`; `result[r]` the answer.
- Checks made outside a lock (`ensureOpen`, `Pending`) stay in the action that
  starts the request, and the code's later checks are actions of their own, so the
  window between them is there.
- `commitMirror` on a tombstoned id succeeds and writes nothing: the store is
  external, and the repository's tests of a delete against a prepared load and
  against a crash show that contract.
- A definition headed `Mutant:` is not part of any model. It is a plausible bug
  in the definition below it, kept to show which property would catch it.

## 3. Runs

| Run | Bounds | Question and result |
|---|---|---|
| `registry_core` | 3 requests of any method and a list, 2 ids (1 stored), 2 slots, ephemeral or not; 1.56 million states | `TypeOK`, `GateExclusive`, `DeleteWins`, `ShutdownLeavesNothing`, `EphemeralNotStored`, `ListComplete`: hold |
| `registry_races` | 4 requests of new, restore, prompt, config, close, delete, 2 ids (1 stored), 2 slots; 1.44 million states | `SlotsBounded`, `CloseFlushes`, `OneObjectPerThread`, `LiveIsRegistered`, `ImplementsMirror`: hold; the mirror is a refinement |
| `registry_live` | 3 requests, all methods but new, one stored id | `OnlyTurnsLinger` under fairness: holds |
| `registry_poison` | 3 requests of new, prompt | `PoisonFence`: **violated** |
| `registry_failed_new` | 3 requests of new, prompt, config | `FailedNewNotStored`: **violated** |
| `turn_core` | 2 turns, of the session or of others; 1.11 million states | `TypeOK`, `IdleIsDurable`, `PromptWaits`, `FinishedNeedsEvidence`, `MirrorNeverShrinks`, `PoisonQuarantine`, and under fairness `CancelAnswered`: hold |
| `turn_drift` | 1 turn | `AnsweredIsDurable`: **violated** |
| `recovery_core` | 4 threads, every fault | `TypeOK`, `BoundSurvivesDiscard`, `ReplacesOnlyMissing`, `ReplacementIsComplete`, `BindingAdvances`, and under fairness `RestoreReturns`: hold |
| `recovery_orphan` | 4 threads, no crash, no failed deletion | `NoOrphan`: **violated** |
| `bridge` | 2 pages, 1 change each, 1 turn of another client and one that runs at the start | `TypeOK`, `ViewWasAtRest`, `CancelNotLost`, `ImplementsObserver`, and under fairness of the control loop `ObserverEnds`: hold |
| `native_run` | 3 process ids, 2 launches, any crash; 66,742 states | `TypeOK`, `PluginOutlivesProcess`, `OnlyCrashesLeak`, `NothingLeft`, `SuccessIsComplete`, and under fairness of the goroutines `RunReturns`: hold |
| `transcript` | 2 messages, 2 tool calls, 2 streamed parts, 3 outputs, one a text that is JSON; 0.91 million states | `AgreementIsReal`, `GrownThreadAccepted`, `HistoryRecoverable`, `CommittedIsWhole`: hold |

### Why the bounds are enough

- *Requests.* Every registry hazard is a race of at most three requests on one
  object, a fourth being needed to make a successor under the same id (a restore)
  or a third establishing request against one slot. Requests are sent once each;
  a host that sends more sends them to an agent in a state these reach.
- *Ids.* Two ids, one of them stored: a new session needs an id of its own, and
  slots are shared by ids. `registry_live` is about one id's history and has only
  that id.
- *Slots.* Two let a restore, a new session and a successor compete for the second
  one while the first is handed over; with one, a second restore would be refused
  before it could race.
- *Generations* need no bound: each prompt extends a thread at most once.
- *Turns.* Two, of which the session or another client prompts each: the second
  meets what the first left behind, a remote turn still running or not yet started,
  a stale export, rows of a failed commit, a poisoned or restarted session. With
  both admitted before the first takes the gate, the second passes the check of
  `poison` that the first then sets.
- *Threads.* Four: the original, two replacements and one orphan or failed
  destination. `Faults` names what may go wrong besides refused calls.
- *Pages.* Two, so that one is read before a change and one after it; one change
  of each suffices to tell any two moments apart. One later turn of another client
  and one left over from before meet the own turn on both sides.
- *Launches.* Two under three process ids: the file of a dead launch, a new launch
  under the same or another id, and a rival that looked at the directory in between.
- *Messages.* Two, so that a compaction summary shifts the message after it, and an
  old export or the mirror can end between them. Two tool calls, in one message or
  two, are what a repeated result can be confused with; an answer streams a
  comparable part, an opaque one or both. What holds here for two is proved for any
  number (section 4).
- *Symmetry* is over requests, in runs of safety properties only.

### Fairness

- `SessionRegistry`: weak fairness on each request's steps other than the end of
  its turn. Native commands run under `nativeCommandTimeout`, restores under
  twice that, store calls under `SessionStoreTimeout`, and a lock is held for a
  few statements. Not assumed: that a native turn ends by itself. A *cancelled*
  one does, which `CancelAnswered` shows from the bridge's deadline.
- `TurnSettlement`: weak fairness on the adapter's own progress, `SendCancel`,
  `Stop`, `LoopExits`, `Deadline` and the settlement. The service, the native
  process, the frames and the host promise nothing.
- `Bridge`: weak fairness on the control loop alone, which polls every 10 ms. The
  service, the plugin and the process promise nothing, so a settled snapshot that
  the plugin dropped (`bridge.ts:17`) is waited for until the deadline.
- `AttachedRun`: weak fairness on the caller, on the writer's reaction to a broken
  pipe or an exit, and on the watcher, whose shutdown and grace period are timed.
  Not assumed: that a process exits, a descendant lets go of the pipes, or input
  is read.
- `Recovery`: weak fairness on the steps of the restore in flight, all under
  `recoverNative`'s deadline.

Deadlock is checked in every run; `Quiescent` in `SessionRegistry` is the state in
which every request has been answered.

### What the violated runs show

1. `registry_poison`: `prompt` and `setConfigOption` look at `poison` before they
   take the gate and never again (`session_prompt.go:88` and `:92`). A prompt admitted before
   a running turn poisons the session starts a turn on it afterwards, against
   the comment at `session.go:305`.
2. `registry_failed_new`: a `session/new` whose first commit failed releases the
   gate before it claims the close (`agent_session.go:193`). The session is already
   listed; a config write in the gap stores it, against
   `TestFailedNewSessionDoesNotPersistDuringCleanup`.
3. `turn_drift`: a turn that was cancelled and whose stream drifted to another
   native session is answered as `cancelled` without an export or a commit
   (`session_prompt.go:297` precedes `:299`, and drift skips `:236`), against "The mirror is
   durable before terminal lifecycle state and the prompt response".
4. `recovery_orphan`: when Amp has created the destination thread but its URL or
   its first export is unusable, `recoverNative` returns without
   `discardUnbound` (`session_recovery.go:47`), against the README's promise to
   delete the destination it never bound.

## 4. Proofs

Eight modules hold proofs, for every value of the constants. The assumptions are
the named ASSUMEs of the component modules: requests and ids are finite sets
without `None`, inputs are methods and Booleans, process ids are positive and
finitely many, and bounds are numbers. Each theorem follows from an inductive
invariant by the same argument: a lemma for the initial states, one lemma per
conjunct with one step per action, one lemma that joins them, and temporal
induction. TLC checked every conjunct on the instance of a run before it was
proved.

| Module | Theorem | Statement |
|---|---|---|
| `SessionRegistryProofs` | `TypeCorrect` | `[]TypeOK` |
| | `ForegroundExclusive` | `[]GateExclusive` |
| `SessionClaimsProofs` | `OneObject` | `[]OneObjectPerThread` |
| | `LiveStaysRegistered` | `[]LiveIsRegistered` |
| | `LimitHolds` | `[]SlotsBounded` |
| | `CloseIsFinal` | `[]ShutdownLeavesNothing` |
| `SessionMirrorProofs` | `EphemeralStaysOut` | `[]EphemeralNotStored` |
| | `ClosePublishes` | `[]CloseFlushes` |
| | `DeleteIsFinal` | `[]DeleteWins` |
| | `StoreImplementsMirror` | `ImplementsMirror` |
| | `ListMissesNone` | `[]ListComplete` (of `ListSpec`) |
| `TurnSettlementProofs` | `TypeCorrect`, `ToldIsDurable`, `PromptAfterInherited` | `[]TypeOK`, `[]IdleIsDurable`, `[]PromptWaits` |
| | `MirrorGrows`, `FinishedWithEvidence`, `PoisonedUsesUp` | `MirrorNeverShrinks`, `FinishedNeedsEvidence`, `PoisonQuarantine` |
| `RecoveryProofs` | `TypeCorrect`, `BoundThreadStays` | `[]TypeOK`, `BoundSurvivesDiscard` |
| | `OnlyMissingReplaced`, `CompleteReplacement`, `NeverBack` | `ReplacesOnlyMissing`, `ReplacementIsComplete`, `BindingAdvances` |
| `BridgeProofs` | `TypeCorrect`, `ViewsRest` | `[]TypeOK`, `[]ViewWasAtRest` |
| | `CancelReaches` | `[]CancelNotLost`, if `"hook" \notin Failures` |
| | `Implements` | `ImplementsObserver` |
| `AttachedRunProofs` | `TypeCorrect`, `LivePluginStays`, `CleanReturn` | `[]TypeOK`, `[]PluginOutlivesProcess`, `[]OnlyCrashesLeak` |
| | `ReturnJoins`, `SuccessLosesNothing` | `[]NothingLeft`, `[]SuccessIsComplete` |
| `TranscriptProofs` | `AgreementHolds`, `GrownThreadHolds` | `[]AgreementIsReal`, `[]GrownThreadAccepted` |
| | `CommittedHolds`, `HistoryHolds` | `CommittedIsWhole`, `[]HistoryRecoverable` |

### Gates (`SessionRegistryProofs`)

`GateExclusive` says that whoever is past taking a gate is its holder, but a new
or restored object's gate is filled without looking (`HoldSessionGate`), so the
proof needs that no other request can be holding, or working on, an object that
does not exist yet. Hence
`IInv == TypeOK /\ PositionOK /\ BuilderOK /\ GateExclusive`:

- `PositionOK`: a request's program counter agrees with its method, and where a
  handler uses its id or its session it has one;
- `BuilderOK`: a request that will build an object has not built it before, works
  on another until then, and on its own afterwards;
- `BuiltOK` and `OperandsOK`, parts of `TypeOK`: whatever the registry, a request or
  `Agent.Close` refers to was built, what was built has an id, and no handler is past
  its lookup with a nil session.

### Claims (`SessionClaimsProofs`)

That two objects never serve one thread depends on everyone who holds a claim on
its id: the restore (`restoring`), the registry entry, the closer between
`closeDone` and `detach`, the new session whose id nobody knows. `ClaimsInv` adds to `IInv`:

- `LifeOK`: how far an object is open follows from who works on it, one closer
  closes it, and nobody but that closer holds the gate of a closed one;
- `RegisteredOK`: an object is under its id from `install` until it is closed;
- `RestoreOK`: one restore claims an id, and while it builds an object the id
  resolves to none. This is what keeps `install` from overwriting a live entry;
- `NewOK`: nobody has heard of a new session's id before it is installed;
- `ResultOK`, `DeleteOK`, `ShutdownOK`: what an answered or running delete and the
  first `Agent.Close` have marked, and that the latter's sessions are in its list,
  in its hands or gone;
- `SlotOK`: who establishes a session is counted in `starting` until it counts as
  active. The bound itself is by cardinalities of `Active` and `Pending`.

### Mirror (`SessionMirrorProofs`)

The refinement needs that a commit lies between the store and the thread, though
its rows were captured many steps earlier. `MirrorInv` adds to `ClaimsInv`:

- `RowsOK`: for an object in use `durable <= rows <= thread`. A commit keeps it
  because, by `OneObjectPerThread`, no other object in use could have moved the
  store meanwhile; `PublishesRows` states this once for the six actions that commit;
- `EphemeralOK`: the thread of an ephemeral session belongs to no other object,
  restores under way included, so no commit of another object stores it;
- `ErasedOK`: a delete past the store has a tombstone there, or names an ephemeral
  session, which the store never had.

A request's step is then `Turn`, `Publish`, `Delete` or a stutter of `DurableMirror`
(`MirrorSteps`).

### List (end of `SessionMirrorProofs`)

`ListOK` says of a session that was stored when the list began (`before`, whoever stored
it) and stays stored and undeleted where the list has it: in the answer, among the
summaries left, or in its hands. That no session *begins* to stay
behind the list's back follows from the refinement of `DurableMirror` (no way out of
a tombstone) and from `deleted` only growing.

### Turns (`TurnSettlementProofs`)

A host is told of a turn when the store has it (`IdleIsDurable`), but the evidence
was collected at different times, and between an event and its reading other
clients' turns and late starts change the thread. The invariant says for each stage
what is still true of it:

- `StageOK`: which of report, receipt, view, verdict and commit can exist where the
  handler is;
- `NumberOK`: turns are numbered as they come up; a turn whose end was seen is neither
  running nor on its way to the service, and admitted prompts keep their room;
- `SettledOK`: from the report (or the observation that replaces it) to the
  publication, the turn is contained in the view, then the rows, then the store,
  unless somebody truncated it away. It carries the theorem from the bridge to the host;
- `ToldOK`: a turn the host was told of is over, on the service too;
- `WaitsOK`: a quiet report was written after the inherited turn had ended, from which
  `PromptAfterInherited` follows although the report is read later;
- `RowsOK`: rows in memory are never behind the store, from which `MirrorGrows` follows;
- `VerdictOK`, `DriftOK`: what a good verdict rests on, and that a drifted run is neither
  observed, exported nor committed.

`PoisonedUsesUp` is weaker than "a poisoned session does nothing more", which is false
of the code (`registry_poison`): a poisoned session only runs prompts it had admitted
before, and the turn that drifted changes neither rows nor store.

### Recovery (`RecoveryProofs`)

The properties are about single steps, but what authorizes the step was observed
several steps before it:

- `BornOK`: threads are created in order and every thread named anywhere exists, so a
  destination is later than the thread it replaces;
- `BindingOK`: while a restore is in flight nobody but a delete moves the binding,
  because an active restore holds the gate and a cold one has no live session
  beside it. This is why comparing the candidate with the binding the restore
  *started from* is enough for `discardUnbound`;
- `CandOK`: a candidate is the thread the restore started from, or a later one while
  the service has lost the former for good, and published only when full.

### Bridge (`BridgeProofs`)

A view is accepted many steps after its pages were read, over a queue. `ViewsRest`
needs that whatever still travels is true of the thread *then*:

- `ServiceOK`: the own turn is submitted before it runs and runs alone; a thread
  at rest is in the history `rests`;
- `EndOK`, `EndNotesOK`, `EndEventsOK`: flags, notifications and events that tell of
  the turn's end come after it;
- `DetachedOK`, `ReadsRest`, `SnapOK`: a snapshot whose epoch has not moved reads the
  resting thread unless the notification that moves it is still on its way; this is
  what the second `state.get()` and the epoch check are for;
- `QuietEventsOK`, `ViewOK`: messages that count were at rest when read.

With them every step maps to a step of `AttachedObserver` or to a stutter. For the
cancel, `CancelFileOK` orders attachment, submission, file and calls, and
`CancelCarried` says that while the turn runs uncancelled the interval is still
armed, a call is under way, the start's notification is, or an error is on its way.

### Process (`AttachedRunProofs`)

- `JoinOK`: what each position of the caller says of the goroutines it joined and
  of the pipes, and that a plain command's writer ends without an error only when the
  whole input is in its pipe. `SuccessLosesNothing` says no more than that of the input:
  the process may leave it there, and an attached run's control loop may end without
  an error when the process does;
- `FilesOK`: the plugin of the current launch is in the directory, names the living
  adapter, and no sweep has found its process dead; no sweep knows the token of a
  launch that has not linked its file. The process id protects a file while its
  adapter lives, the token the file of a launch that reuses a dead one's id.

### Messages (`TranscriptProofs`)

The comparisons filter sequences of any length, so their proofs need an induction.
The library's induction theorems take an operator as a parameter, which the provers
cannot instantiate; `Induction` states the same of a *set* of numbers, and follows
from the library's minimal elements of a well-founded relation (`WFMin`). To be
within its reach `Transcript` filters with `Pick`, whose positions come from a
recursive function on the numbers, and not with `SelectSeq`. The argument climbs:

- *Positions.* The function exists and is unique (`PicksEquation`), lists exactly the
  wanted positions, once each (`PicksOK`), and a longer sequence's list begins with
  a shorter one's (`PicksPrefix`).
- *Filters.* What `Pick` keeps of equal positions and of a prefix (`PickTogether`,
  `PickBegins`), and when it keeps all, the first ones or nothing.
- *Messages.* Decoding makes no difference between a structured output and the text
  the plugin shows of it (`ShownDecodes`), and changes a text that is JSON only
  (`DecodedOK`). Dropping repeated results from what the plugin shows gives back the
  message as it is read (`Read`), however many are repeated (`UniqueDropsRepeats`). So
  `matchesMessage` sees exactly what can be read (`MatchesView`). It rests on
  results of different calls being different, which is why they carry their call.
- *Threads.* Views that list or omit compaction summaries have the thread's
  conversation (`ConversationOfView`), so that the verifications mean a comparison of
  conversations (`VerifyMirrorMeans`, `VerifyExportMeans`), and imply what `Exposed`, the
  reference, compares (`ExposedMeans`).
- *Texts that are JSON.* An export matches a view only if it has none
  (`VerifiedIsLegible`), and one without any is the same as it is shown (`LegibleIsSame`).

The machine's invariant is
`TypeInv /\ Lag /\ MirrorFinished /\ MirrorLegible /\ MirrorBegins`. `Lag`
says that an old export may lack the thread's end, but that unless somebody rewrote
the thread what the export has *finished* stands in the thread unchanged. A commit takes
only exports that are finished throughout (`VerifiedIsFinished`), hence the mirror
is finished and begins the thread, and no step of a growing thread, which only
appends or changes what is unfinished, disturbs it (`GrowthKeeps`).

### Only model-checked

Liveness under fairness and `ENABLED` are outside TLAPS: `OnlyTurnsLinger`,
`CancelAnswered`, `RestoreReturns`, `ObserverEnds` and `RunReturns` stay with TLC.

## 5. What is not modelled

- The plugin host and the service behind it are external. `Bridge` assumes what the
  plugin relies on: the host delivers answers and notifications in the order it
  produced them, the code awaiting an answer runs before the next notification,
  hooks of an agent fire for the turn of this process only, and `agent.end`
  precedes the change of the native state. The second assumption carries weight:
  if a notification could run between the answer of `state.get()` and
  `const generation = epoch` (`bridge.ts:20-21`), TLC finds a view whose pages are of
  two moments.
- `Failures` of `bridge` leaves out the hook's own `thread.cancel()`: it has no catch
  (`bridge.ts:62`), and if the interval spent its only call before the turn started,
  the cancel is then lost until the adapter's deadline.
- `Transcript` assumes that the plugin API shows structured tool outputs as JSON text
  and other texts as they are; what it really shows is not in the repository. A text
  output that is JSON itself is then decoded on one side only (`snapshot.go:164`):
  `GrownThreadAccepted` says that the export of a thread with such an output is never
  accepted, and all others are. Messages other than a streaming answer arrive whole.
- In `Transcript` view, comparison and commit are one step: the whole thread that
  `CommittedIsWhole` speaks of is the thread of the view's moment. What others do
  between the view and the commit is in `TurnSettlement`.
- `session/list` may return an entry without cwd, title or native id for a session
  that is deleted between the store's list and the load (`agent_session.go:548`).
  `ListLoad` has the step; no document says more about such an entry.
- The HTTP exchange of `remote.go`, the shape checks of `validateView` and
  `decodeSnapshot`: data.
- Stream projection, images, options, metadata, telemetry, the command line:
  sequential code whose data no property here tells apart. Of the stream,
  `TurnSettlement` keeps what reaches a decision: a frame, a message, the terminal
  result with its stop reason, a foreign session id, a malformed frame.
- A commit that reached the store although it reported a failure: the store's
  contract is external; the models take a failed `Replace` to leave the store as
  it was.
- `TurnSettlement` assumes of Amp that the service runs one turn of a thread at a time,
  that a process streams messages only of a turn the service runs or has run, and that
  the plugin's hooks fire for this process's own turn, as in `Bridge`. A submitted
  prompt may start late, after its process, its handler and the adapter are gone, or
  never. A crashed adapter may leave its native process behind; nobody reads what that
  process says, so the model only keeps its prompt. A snapshot is one step here;
  `Bridge` takes it apart. `PromptWaits` is what the ready event promises, not more: another client
  may start a turn between the event and the submission (`bridge.go:385`).
- A restore that replays the history to its host (`replay`) has no deadline in the code. The
  liveness of `OnlyTurnsLinger` and `RestoreReturns` holds for hosts that read what they
  are sent. The polling loop of `session_recovery.go:118` is one step under its deadline.
- `Recovery` lets nobody but this adapter change a destination between its verification
  and its commit: no one else knows the new thread yet, though any client of the
  account could find it.
- `AttachedRun` has one run of this adapter at a time. Runs of other sessions of the same
  adapter, and their sweeps, are not modelled beside it; a sweep by the adapter itself
  ends before it links its file, so `PluginOutlivesProcess` is about a rival's sweeps.
  `os.Remove` succeeds: an error there is ignored by `bridge.close` and would leave a file.
- `NativeRun` takes the `consume` callback to return.
- `EphemeralNotStored` checks one guard of `commitMirror` on a flag that never changes
  (`session_store.go:67`). It is kept, as cheap, and stands for no hazard.
- A host without the lifecycle extension is told less; `TurnSettlement` models
  the one that negotiated it.

## 6. State of the project

Every component with control of its own is modelled, and every safety property of
the passing runs is proved. What would add most from here
is the stream projection (`session_updates.go`): one announcement and one terminal
update per tool call, live and on replay.
