----------------------------- MODULE Transcript -----------------------------
(***************************************************************************)
(* How the adapter compares a thread's messages: the plugin's view of the  *)
(* thread, the export of `threads export`, and the mirror in the store.    *)
(*                                                                         *)
(* The view and the export spell one thread differently: the plugin API    *)
(* omits opaque parts, shows structured tool outputs as JSON text, may     *)
(* repeat a completed tool result, and omits the summary of a compaction   *)
(* or lists it without content.  An export may be older than the view.     *)
(* Any client of the account may extend the thread, and rewrite it.        *)
(***************************************************************************)
EXTENDS Naturals, SequencesExt

CONSTANTS
  Json,          \* structured tool outputs
  Texts,         \* tool outputs that are text; one that is JSON is in Json as well
  MaxMessages,   \* bound: messages of the thread
  MaxCalls,      \* bound: tool calls of the thread
  MaxStreamed    \* bound: parts of the thread's answers

ASSUME BoundsAssumption == MaxMessages \in Nat /\ MaxCalls \in Nat /\ MaxStreamed \in Nat

VARIABLES
  thread,     \* the messages on Amp's service
  rewritten,  \* somebody changed what the mirror holds
  export,     \* the last answer of `threads export`
  mirror      \* the export the store holds

vars == <<thread, rewritten, export, mirror>>

Absent == [kind |-> "none", value |-> ""]
Structured(v) == [kind |-> "structured", value |-> v]
Text(v) == [kind |-> "text", value |-> v]

Part(type, call, status, body) ==
  [type |-> type, call |-> call, status |-> status, body |-> body]
TextPart(v) == Part("text", 0, "", Text(v))
OpaquePart(v) == Part("opaque", 0, "", Text(v))
ResultPart(call, status, output) == Part("tool_result", call, status, output)

Terminal == {"done", "error", "cancelled"}
Outputs == {Structured(v) : v \in Json} \cup {Text(v) : v \in Texts}

\* How a tool's run ends: with an output, or cancelled without one.
Ends == {<<"done", output>> : output \in Outputs} \cup {<<"cancelled", Absent>>}

----------------------------------------------------------------------------
(* A part of a sequence, by positions.  The positions come from a recursive *)
(* function, so that proofs can be made about them.                        *)

\* Picks(I)[n] lists the numbers of I from 1 to n in order.
Picks(I) ==
  LET picks[n \in Nat] ==
        IF n = 0 THEN <<>>
        ELSE IF n \in I THEN Append(picks[n - 1], n) ELSE picks[n - 1]
  IN  picks

Pick(s, I) ==
  LET picked == Picks(I)[Len(s)]
  IN  [k \in DOMAIN picked |-> s[picked[k]]]

----------------------------------------------------------------------------
(* What the plugin API makes of a message.                                 *)

Shown(part) ==
  IF part.body.kind = "structured" THEN [part EXCEPT !.body = Text(part.body.value)] ELSE part

IsResult(part) == part.type = "tool_result"

----------------------------------------------------------------------------
(* snapshot.go.                                                            *)

PluginContent(parts) == Pick(parts, {i \in DOMAIN parts : parts[i].type # "opaque"})

JsonText(part) == IsResult(part) /\ part.body.kind = "text" /\ part.body.value \in Json

Decoded(part) ==
  IF JsonText(part) THEN [part EXCEPT !.body = Structured(part.body.value)] ELSE part

NormalizePluginContent(parts) == [i \in DOMAIN parts |-> Decoded(parts[i])]

\* Mutant: repeated tool results are kept.
EveryToolResult(parts) == parts

\* A result repeats if the same result is before it.
Repeats(parts) ==
  {i \in DOMAIN parts : IsResult(parts[i]) /\ \E j \in 1 .. i - 1 : parts[j] = parts[i]}

UniqueToolResults(parts) == Pick(parts, DOMAIN parts \ Repeats(parts))

\* Mutant: a message is known by its id.
MatchesId(message, want) == message.id = want.id

MatchesMessage(message, want) ==
  /\ message.id = want.id /\ message.role = want.role
  /\ UniqueToolResults(PluginContent(message.parts))
       = UniqueToolResults(NormalizePluginContent(want.parts))

UnexposedInfo(message) == message.role = "info" /\ PluginContent(message.parts) = <<>>

Conversation(messages) ==
  Pick(messages, {i \in DOMAIN messages : ~UnexposedInfo(messages[i])})

\* Mutant: a message is complete once the thread is at rest.
AlwaysComplete(message) == TRUE

MessageComplete(message) ==
  /\ message.role = "assistant" => message.state \in {"complete", "error", "cancelled"}
  /\ \A i \in DOMAIN message.parts :
       IsResult(message.parts[i]) => message.parts[i].status \in Terminal

VerifyExport(messages, view) ==
  LET have == Conversation(messages)
      want == Conversation(view)
  IN  /\ Len(have) = Len(want)
      /\ \A i \in 1 .. Len(have) : MatchesMessage(have[i], want[i]) /\ MessageComplete(have[i])

VerifyMirror(messages, view) ==
  LET have == Conversation(messages)
      want == Conversation(view)
  IN  /\ Len(have) <= Len(want)
      /\ \A i \in 1 .. Len(have) : MatchesMessage(have[i], want[i])

\* reconcileNative compares the exports themselves, opaque parts included.
Reconciles(stored, rows) ==
  /\ Len(stored) <= Len(rows)
  /\ \A i \in 1 .. Len(stored) : stored[i] = rows[i]

----------------------------------------------------------------------------
(* import.go, and what the service makes of an import.                     *)

\* An info message that is no shell invocation cannot be imported.
Importable(messages) == \A i \in DOMAIN messages : messages[i].role # "info"

\* Mutant: the state of a cancelled answer is left out.
PrepareImportStateless(messages) ==
  [i \in DOMAIN messages |-> [messages[i] EXCEPT !.state = "absent"]]

PrepareImport(messages) ==
  [i \in DOMAIN messages |->
     [messages[i] EXCEPT !.state =
        IF messages[i].role = "assistant" /\ @ = "cancelled" THEN @ ELSE "absent"]]

Imported(messages) ==
  [i \in DOMAIN messages |->
     [messages[i] EXCEPT !.state =
        IF messages[i].role = "assistant" /\ @ = "absent" THEN "complete" ELSE @]]

VerifyImported(source, restored) ==
  /\ Len(source) = Len(restored)
  /\ \A i \in 1 .. Len(source) : source[i] = restored[i]

----------------------------------------------------------------------------
(* The thread.                                                             *)

Init == thread = <<>> /\ rewritten = FALSE /\ export = <<>> /\ mirror = <<>>

AtRest ==
  \A i \in DOMAIN thread :
    /\ thread[i].state # "streaming"
    /\ \A j \in DOMAIN thread[i].parts : thread[i].parts[j].status # "in-progress"

Grows == UNCHANGED <<rewritten, export, mirror>>

\* A prompt arrives whole, an answer streams, the tools it called run at the
\* same time; a compaction leaves a summary.
Messages(id) ==
  LET message(role, state, parts) == [id |-> id, role |-> role, state |-> state, parts |-> parts]
      tools(n) == [call \in 1 .. n |-> ResultPart(call, "in-progress", Absent)]
  IN  {message("user", "absent", <<TextPart("old"), OpaquePart("old")>>),
       message("assistant", "streaming", <<>>),
       message("info", "absent", <<OpaquePart("old")>>)}
      \cup {message("user", "absent", tools(n)) : n \in 1 .. MaxCalls}

Parts(messages) == UNION {{<<i, j>> : j \in DOMAIN messages[i].parts} : i \in DOMAIN messages}
Calls(messages) == {at \in Parts(messages) : IsResult(messages[at[1]].parts[at[2]])}
Streamed(messages) == {at \in Parts(messages) : messages[at[1]].role = "assistant"}

NewMessage ==
  /\ AtRest /\ Len(thread) < MaxMessages
  /\ \E message \in Messages(Len(thread) + 1) : thread' = Append(thread, message)
  /\ Cardinality(Calls(thread')) <= MaxCalls
  /\ Grows

NewPart ==
  /\ thread # <<>> /\ Last(thread).state = "streaming" /\ Cardinality(Streamed(thread)) < MaxStreamed
  /\ \E part \in {TextPart("old"), OpaquePart("old")} :
       thread' = [thread EXCEPT ![Len(thread)].parts = Append(@, part)]
  /\ Grows

ToolEnds ==
  /\ \E i \in DOMAIN thread : \E j \in DOMAIN thread[i].parts :
       /\ thread[i].parts[j].status = "in-progress"
       /\ \E end \in Ends :
            thread' = [thread EXCEPT ![i].parts[j] = ResultPart(@.call, end[1], end[2])]
  /\ Grows

AnswerEnds ==
  /\ \E i \in DOMAIN thread :
       /\ thread[i].state = "streaming"
       /\ \E state \in {"complete", "error", "cancelled"} :
            thread' = [thread EXCEPT ![i].state = state]
  /\ Grows

\* Another client removes the last message or changes a text or an image.
Rewrite ==
  /\ ~rewritten /\ thread # <<>> /\ AtRest
  /\ \/ thread' = Front(thread)
     \/ \E i \in DOMAIN thread : \E j \in DOMAIN thread[i].parts :
          /\ thread[i].parts[j].type \in {"text", "opaque"}
          /\ thread' = [thread EXCEPT ![i].parts[j].body = Text("new")]
  /\ rewritten' = TRUE
  /\ UNCHANGED <<export, mirror>>

\* The views the plugin may show of the thread.
ViewMessage(message, repeats) ==
  LET content == PluginContent(message.parts)
      shown == [i \in DOMAIN content |-> Shown(content[i])]
      again == Pick(shown, {i \in DOMAIN shown : IsResult(shown[i])})
  IN  [id |-> message.id, role |-> message.role,
       parts |-> IF repeats THEN shown \o again ELSE shown]

View(repeats, listsInfo) ==
  LET listed == IF listsInfo THEN thread ELSE Conversation(thread)
  IN  [i \in DOMAIN listed |-> ViewMessage(listed[i], repeats)]

Views == {View(repeats, listsInfo) : repeats, listsInfo \in BOOLEAN}

----------------------------------------------------------------------------
(* The adapter.                                                            *)

ExportThread ==
  /\ export' = thread
  /\ UNCHANGED <<thread, rewritten, mirror>>

\* settleExport and hydrate commit an export that reaches the view of the thread
\* at rest and continues the mirror.
Commit ==
  /\ AtRest
  /\ \E view \in Views : VerifyExport(export, view)
  /\ Reconciles(mirror, export)
  /\ mirror' = export
  /\ UNCHANGED <<thread, rewritten, export>>

Next ==
  \/ NewMessage \/ NewPart \/ ToolEnds \/ AnswerEnds \/ Rewrite \/ ExportThread \/ Commit

Spec == Init /\ [][Next]_vars

----------------------------------------------------------------------------
(* Properties.  Exposed is the reference: what of a thread is comparable.  *)
(* The plugin shows a structured output as text, so that an output that is *)
(* the same JSON as a text cannot be told from it.                         *)

Exposed(messages) ==
  LET shown == Conversation(messages)
  IN  [i \in DOMAIN shown |-> [id |-> shown[i].id, role |-> shown[i].role,
                               parts |-> NormalizePluginContent(PluginContent(shown[i].parts))]]

\* A prompt goes ahead on the view of a thread only if the thread still begins
\* with everything comparable in the mirror (VerifyMirror, before the prompt).
AgreementIsReal ==
  ~IsPrefix(Exposed(mirror), Exposed(thread)) => \A view \in Views : ~VerifyMirror(mirror, view)

\* No tool of the thread answered with a text that is JSON.
Legible(messages) ==
  \A i \in DOMAIN messages : \A j \in DOMAIN messages[i].parts : ~JsonText(messages[i].parts[j])

\* A prompt on a thread that only grew is never refused: whatever way the plugin
\* shows it, the mirror agrees with it.  Its current export continues the mirror
\* and is accepted, unless a tool answered with a text that is JSON: the text is
\* decoded in the view and not in the export, and such a thread is never settled.
GrownThreadAccepted ==
  AtRest /\ ~rewritten =>
    \A view \in Views :
      /\ VerifyMirror(mirror, view) /\ Reconciles(mirror, thread)
      /\ VerifyExport(thread, view) <=> Legible(thread)

\* What is committed is the whole thread of the view's moment, finished: an export
\* that merely lags behind is never taken for it.
CommittedIsWhole ==
  [][mirror' # mirror =>
       /\ Exposed(mirror') = Exposed(thread)
       /\ \A i \in DOMAIN mirror' :
            /\ mirror'[i].state # "streaming"
            /\ \A j \in DOMAIN mirror'[i].parts : mirror'[i].parts[j].status # "in-progress"]_vars

\* A lost thread can be recovered from the mirror: the service rebuilds every
\* message and verification accepts it, unless a compaction summary cannot be
\* imported or an answer ended in an error, which an import cannot express.
HistoryRecoverable ==
  Importable(mirror) /\ (\A i \in DOMAIN mirror : mirror[i].state # "error") =>
    VerifyImported(mirror, Imported(PrepareImport(mirror)))
============================================================================
