----------------------------- MODULE NativeRun -----------------------------
(***************************************************************************)
(* One native command and the goroutines of run: the caller, which reads   *)
(* the output and joins the others, the writer, and the watcher.  In an    *)
(* attached run the writer is the bridge's control loop and the context    *)
(* is never cancelled.  A descendant of the process may inherit its pipes  *)
(* and keep them open.                                                     *)
(***************************************************************************)
EXTENDS Naturals

VARIABLES
  attached,   \* RunAttached or a plain command
  root,       \* the native process
  holder,     \* a descendant holds the pipes
  unread,     \* output the caller has not consumed
  input,      \* a plain command's input is in its pipe, to the last byte
  ctx,        \* the context is done
  closed,     \* Process.Close has closed this side of the pipes
  caller, writer, watcher,
  failed      \* the goroutines that met an error

runVars == <<attached, root, holder, unread, input, ctx, closed, caller, writer, watcher, failed>>

RunTypeOK ==
  /\ root \in {"none", "running", "exited"}
  /\ caller \in {"idle", "read", "wait", "join_writer", "join_watcher", "returned"}
  /\ writer \in {"none", "writing", "done"}
  /\ watcher \in {"none", "watching", "stopping", "grace", "done"}
  /\ failed \subseteq {"caller", "writer"}
  /\ {attached, holder, unread, input, ctx, closed} \subseteq BOOLEAN

RunInit ==
  /\ attached = FALSE /\ root = "none" /\ holder = FALSE /\ unread = FALSE
  /\ input = FALSE /\ ctx = FALSE /\ closed = FALSE
  /\ caller = "idle" /\ writer = "none" /\ watcher = "none" /\ failed = {}

----------------------------------------------------------------------------
(* The native process and its descendant.                                  *)

Started ==
  /\ attached' \in BOOLEAN
  /\ root' = "running" /\ holder' = FALSE /\ unread' = FALSE
  /\ input' = FALSE /\ ctx' = FALSE /\ closed' = FALSE
  /\ caller' = "read" /\ writer' = "writing" /\ watcher' = "watching"
  /\ failed' = {}

goroutines == <<attached, input, ctx, closed, caller, writer, watcher, failed>>

Writes ==
  /\ root = "running" \/ holder
  /\ unread' = TRUE
  /\ UNCHANGED <<root, holder, goroutines>>

Forks ==
  /\ root = "running"
  /\ holder' = TRUE
  /\ UNCHANGED <<root, unread, goroutines>>

RootExits ==
  /\ root = "running"
  /\ root' = "exited"
  /\ UNCHANGED <<holder, unread, goroutines>>

HolderExits ==
  /\ holder
  /\ holder' = FALSE
  /\ UNCHANGED <<root, unread, goroutines>>

\* session/cancel, close or the command's deadline.
ContextDone ==
  /\ ~attached /\ ~ctx /\ caller \notin {"idle", "returned"}
  /\ ctx' = TRUE
  /\ UNCHANGED <<attached, root, holder, unread, input, closed, caller, writer, watcher, failed>>

----------------------------------------------------------------------------
(* The caller.                                                             *)

Kill == root' = "exited"

Consume ==
  /\ caller = "read" /\ unread /\ ~closed
  /\ unread' = FALSE
  /\ UNCHANGED <<root, holder, goroutines>>

EndOfOutput == ~unread /\ root = "exited" /\ ~holder

ReadToEnd ==
  /\ caller = "read" /\ EndOfOutput
  /\ caller' = "wait"
  /\ UNCHANGED <<attached, root, holder, unread, input, ctx, closed, writer, watcher, failed>>

\* Mutant: closed pipes count as the end of the output.
ReadFailsQuietly ==
  /\ caller = "read" /\ (closed \/ unread)
  /\ Kill
  /\ caller' = "wait"
  /\ failed' = IF closed THEN failed ELSE failed \cup {"caller"}
  /\ UNCHANGED <<attached, holder, unread, input, ctx, closed, writer, watcher>>

\* A frame is refused or too long, or the pipe was closed under the reader.
ReadFails ==
  /\ caller = "read" /\ (closed \/ unread)
  /\ Kill
  /\ caller' = "wait" /\ failed' = failed \cup {"caller"}
  /\ UNCHANGED <<attached, holder, unread, input, ctx, closed, writer, watcher>>

\* A wait the context cuts short kills the process and waits again.
Waits ==
  /\ caller = "wait"
  /\ root = "exited" \/ ctx
  /\ Kill /\ caller' = "join_writer"
  /\ UNCHANGED <<attached, holder, unread, input, ctx, closed, writer, watcher, failed>>

\* Mutant: a cancelled caller does not wait for the writer.
JoinWriterOrContext ==
  /\ caller = "join_writer" /\ (writer = "done" \/ ctx)
  /\ caller' = "join_watcher"
  /\ UNCHANGED <<attached, root, holder, unread, input, ctx, closed, writer, watcher, failed>>

JoinWriter ==
  /\ caller = "join_writer" /\ writer = "done"
  /\ caller' = "join_watcher"
  /\ UNCHANGED <<attached, root, holder, unread, input, ctx, closed, writer, watcher, failed>>

\* The deferred Close runs on return.
JoinWatcher ==
  /\ caller = "join_watcher" /\ watcher = "done"
  /\ caller' = "returned" /\ closed' = TRUE
  /\ UNCHANGED <<attached, root, holder, unread, input, ctx, writer, watcher, failed>>

Succeeded == caller = "returned" /\ ~ctx /\ failed = {}

----------------------------------------------------------------------------
(* The writer.                                                             *)

WriterEnds(error) ==
  /\ writer' = "done"
  /\ failed' = IF error THEN failed \cup {"writer"} ELSE failed
  /\ root' = IF error THEN "exited" ELSE root
  /\ UNCHANGED <<attached, holder, unread, ctx, closed, caller, watcher>>

\* The process may take the input, or leave it in the pipe.
WritesInput ==
  /\ ~attached /\ writer = "writing" /\ ~closed
  /\ root = "running" \/ holder
  /\ WriterEnds(FALSE) /\ input' = TRUE

BrokenPipe ==
  /\ ~attached /\ writer = "writing"
  /\ closed \/ (root = "exited" /\ ~holder)
  /\ WriterEnds(TRUE) /\ UNCHANGED input

\* The control loop ends with the process, stops it, or fails.
ControlEnds ==
  /\ attached /\ writer = "writing" /\ root = "exited"
  /\ \E error \in BOOLEAN : WriterEnds(error)
  /\ UNCHANGED input

ControlStops ==
  /\ attached /\ writer = "writing" /\ root = "running"
  /\ Kill
  /\ writer' = "done" /\ failed' \in {failed, failed \cup {"writer"}}
  /\ UNCHANGED <<attached, holder, unread, input, ctx, closed, caller, watcher>>

----------------------------------------------------------------------------
(* The watcher.                                                            *)

\* Mutant: the watcher is satisfied once the output has been read.
ReadDoneAfterRead == caller \notin {"idle", "read"}

ReadDone == caller \in {"join_watcher", "returned"}

WatchContext ==
  /\ watcher = "watching" /\ ctx
  /\ watcher' = "stopping"
  /\ UNCHANGED <<attached, root, holder, unread, input, ctx, closed, caller, writer, failed>>

\* Shutdown or Kill, then Close.
WatcherStops ==
  /\ watcher = "stopping"
  /\ Kill
  /\ closed' = TRUE /\ watcher' = "done"
  /\ UNCHANGED <<attached, holder, unread, input, ctx, caller, writer, failed>>

WatchExit ==
  /\ watcher = "watching" /\ root = "exited"
  /\ watcher' = "grace"
  /\ UNCHANGED <<attached, root, holder, unread, input, ctx, closed, caller, writer, failed>>

WatcherDone ==
  /\ watcher = "grace" /\ ReadDone
  /\ watcher' = "done"
  /\ UNCHANGED <<attached, root, holder, unread, input, ctx, closed, caller, writer, failed>>

\* Two seconds after the exit.
GraceExpires ==
  /\ watcher = "grace"
  /\ closed' = TRUE /\ watcher' = "done"
  /\ UNCHANGED <<attached, root, holder, unread, input, ctx, caller, writer, failed>>

----------------------------------------------------------------------------
Natives == Writes \/ Forks \/ RootExits \/ HolderExits \/ ContextDone
CallerStep == Consume \/ ReadToEnd \/ ReadFails \/ Waits \/ JoinWriter \/ JoinWatcher
WriterStep == BrokenPipe \/ ControlEnds
WatcherStep == WatchContext \/ WatcherStops \/ WatchExit \/ WatcherDone \/ GraceExpires

RunStep == Natives \/ CallerStep \/ WriterStep \/ WritesInput \/ ControlStops \/ WatcherStep
============================================================================
