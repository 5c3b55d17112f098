# A TLA+ model of the MAG Agents API shim

The repository is a translation layer: it offers the OpenAI Agents API
(`POST /v1/agents/sessions`) and drives it on top of MAG's Responses API, running
the agent loop, the sandbox tools, local MCP servers and subagents itself. This
directory models the part of it that is hard to test: one asyncio process in which
requests, turns, tool calls, subagents, time-outs and cancellations interleave at
every `await`.

## Inventory of the system

| Component | Source | State | Operations | Interacts with |
|---|---|---|---|---|
| Session endpoints | `mag_agents_shim.py` 785-834 | `SESSIONS`, `CANCELS` (process-wide, in memory) | `create_session`, `get_session`, `cancel_session`, `healthz` | start a driver; set `ctx.cancel`; overwrite the stored session |
| Drivers of a turn | 717-782 | the event queue, the task of the driver | `_stream` and its `driver`, `_nonstream` | run the root loop, store the session's end, emit its events |
| Agent loop | 475-597 | turn number, `prev_id` or `history`, sandbox handle | `_run_loop`, `_guard` | MAG, tool calls (`asyncio.gather`), compaction |
| Tool dispatch | 600-669 | item events | `_dispatch_call`, `_exec_sandbox_tool` | exec-server client, MCP sessions, subagents |
| Subagents | 646-662 | `ctx.sem` | nested `_run_loop` | share `ctx` and `emit` with the root loop |
| MAG client | 217-318 | none | `_mag_stream`, `_mag_compact` | forwards deltas while it waits |
| MCP boot and routing | 407-434 | `ctx.mcp_sessions`, `ctx.mcp_router` | `_boot_mcp` | root loop only |
| Exec-server client | `codex_sandbox.py` | WebSocket, `_lock`, collected output | `connect`, `run`, `fs_*`, `close` | one connection per loop, shared by its concurrent calls |
| Local MCP session | `mcp_stdio.py` | two tables of futures, a reader task, `_dead` | `start`, `call_tool`, `close`, `_reader_loop` | one connection per server, shared by all loops |
| apply_patch | `apply_patch.py`, shim 375-404 | files of the workspace | `parse_patch`, `apply_hunks`, `_apply_patch_in_sandbox` | read, edit, write as separate runs of the exec-server, beside those of other calls |
| Conversation | shim 249-292, 313-318, 440-457, 502-586 | `prev_id` and `turn_input`, or `history` | `_run_loop`, `_mag_compact`, `_compaction_to_input`, `_last_user_index`, `_truncate` | MAG stores chained responses, or reads the whole history |
| Request parsing, API objects | shim 145-203, 675-702, `agents_api_models.py` | none | pure functions | |

What is hard about it:

* **Cancellation** reaches a turn at any suspension point. `_guard` races the work
  against `ctx.cancel`; a cancelled `gather` throws `CancelledError` into calls that
  may themselves be inside a subagent's loop, inside a guard of its own.
* **Sibling failure.** `gather` hands over the first exception and leaves the other
  calls running, under a loop that is already closing the connection they use.
* **A client that goes away** cancels the driver, not the session: no handler catches it.
* **Permits** of `ctx.sem` have to survive all of these.
* **Frames** of several processes share a WebSocket, arrive after `exited`, or after
  the run that wanted them has gone; replies overtake acknowledgements.
* **Files** are read, edited and written by separate commands, which interleave with
  those of concurrent calls and go on after their call timed out or was cancelled.
* **Compaction** replaces a prefix of the history over and over; the rest has to keep the
  task and pair each call with its output.

PROJECT.json lists each hazard at its line with the properties that cover it.

## The modules

| Module | Models | Read it with |
|---|---|---|
| `TurnContract` | what a client may rely on: announced work is settled before `turn.completed`, nothing is announced after a turn's end | `AgentSessionProperties` |
| `AgentSession` | one session: endpoints, driver, all its loops, calls, subagents, semaphore | shim 321-342, 407-434, 460-669, 717-827 |
| `AgentSessionProperties` | its invariants, action properties, liveness, the refinement of `TurnContract`, and statements of the documentation that do not hold | |
| `AgentSessionProofs` | the theorems about a session | |
| `ContractProofs` | the theorem that a session implements `TurnContract` | |
| `SandboxRun` | one exec-server connection and the commands run over it | `codex_sandbox.py` |
| `SandboxRunProofs` | the theorems about it | |
| `McpStdio` | one MCP session: its start, requests, reader, close | `mcp_stdio.py` |
| `McpStdioProofs` | the theorems about it | |
| `Workspace` | the files of a session under the patches of its agents | shim 348-404, `codex_sandbox.py` 134-171 |
| `WorkspaceProofs` | the theorems about it | |
| `ApplyPatch` | one patch envelope read line by line, and the edit of one file hunk by hunk | `apply_patch.py` |
| `ApplyPatchProofs` | the theorems about both | |
| `Conversation` | what MAG reads in each inference of a loop, and which tool answers a call | shim 249-318, 407-457, 502-586, 609-610 |
| `ConversationProofs` | the theorems about it | |
| `SequenceFacts` | lemmas about naturals, sequences and `FlattenSeq`, for the proofs of `Workspace`, `ApplyPatch` and `Conversation` | |
| `MC*` | instances for TLC | |

### AgentSession

One action is the code between two `await`s that can suspend (`emit` puts into an
unbounded queue and does not). `pc[l]` says at which await the loop `l` is suspended:
`connect` (line 495), `boot` (500), `inference` (544), `tools` (566), `compact` (583),
`unwind` (589, 593). `call[c]` does the same for a dispatched call: `ready` (its task
exists and has not run), `command` (635), `mcp` (617), `waitsem` (650), `sub` (655),
and then how it ended. A call's place is reused in the next turn of its loop. The loop
a `run_subagent` call starts carries the name of that call, so the nesting of loops is
the constant `Issuer`; the model needs two levels only, because `run_subagent` is
offered at depth 0. Where the model of a subagent asks for it nevertheless
(`NestedSubagents`), the dispatcher runs it, and the second level has subagent loops too
(whose responses then carry no calls: the assumption `TwoLevels`).

* `outcome[l]` is how `_run_loop` is being left. In `tools` it is the exception with
  which the loop's gather already ended, before the loop's task runs again.
* The `try` whose `finally` closes connections starts at line 511 only. What opens before
  it may stay: `connect()` opens the socket (`Opened`) and then waits for `initialize`, which
  may be refused (`ConnectFails`); a `start()` that raises leaves its connection, reader and
  process (`"stray"` in `mcp`; `"kept"` are those in `ctx.mcp_sessions`); and between the two,
  a malformed tool entry (422-427) or an input that is no sequence (505) raises (`EnterTry`).
  The outcome of a loop left there by an error is `early`, by a `CancelledError` `torn`; one
  left so inside the `try` is `interrupted`, and may be so again while it closes.
* `GuardCancelled` is `_guard` seeing `ctx.cancel` while its work is not done. A call in
  a subagent's loop sends that loop into its `finally`; what *that* loop's guard was
  waiting for is a task of its own and is not cancelled, so calls of a subagent can
  outlive it. They end by themselves (`SessionDrains`).
* `Raises` leaves the siblings running; nothing but their own end stops them.
* `Disconnect` is a `CancelledError` in the root loop wherever it is suspended: the
  response task awaits the driver in its `finally`, and is cancelled again there.
* `RootReturns` is the driver's `try` statement: `TurnEnd` the event, `SessionEnd` the
  record stored. `phase = "lost"` is a turn whose driver was cancelled, which no
  `except` clause of it sees.
* `Cancel` is possible once a client can know the id, and never removed: `CANCELS` is
  not cleaned up.

Abstracted: the conversation (`prev_id`, `history`), arguments and outputs of tools,
event payloads: these are in `Conversation`. A response of MAG is its final event's kind,
whether its text is empty, and the set of calls it issues. `ToolsDone` may or may not compact when it is due,
as that depends on the history.

### SandboxRun and McpStdio

`SandboxRun` is one connection: `lock` and `task` are the calls of `run()`, `wire` the
frames on their way, `proc` and `emitted` what the exec-server does with each process.
A run is its own request id and process id. Frames of other runs' processes stay on the
wire and are skipped by whoever reads next. The exec-server sends output before or after
`exited`, never after `closed`, as the comment at `codex_sandbox.py:95` says.

`McpStdio` keeps for each request where it is suspended (`stage`) and the state of its
two futures: `ack` for the exec-server's answer to the write, `fut` for the MCP server's
reply. Both are registered before the send (`sending`), and stay when it raises. A time-out
may fire over a future that is done, as `asyncio.wait_for` has it from Python 3.12 on.
`Read` is one frame in `_reader_loop`, `FailAll` is `_fail_all`, `Dropped` a
broken connection or an orderly end, `CloseBegin`/`CloseEnd` are `close()`. `seen` is a
history variable: the requests whose reply was read before they waited for it. A request
ends answered, timed out waiting for its reply, or with any other exception (`raised`).
Output may follow `exited` here too, so a reply may
come after all requests were failed.

### Workspace, ApplyPatch and Conversation

`Workspace` composes `_apply_patch_in_sandbox` with the file commands below it. A job is
one call of `apply_patch` (an `fs_write` is a patch of one addition); it waits for the
lock of its agent's connection before each of its commands (`stage`, `op`, `fetched`).
A command is a small process of its own (`proc`): a write empties the file (`Truncate`)
before it fills it (`Fill`), and any command may fail in between. `TimeOut` and
`Abandon` end the job and not the command, which runs on until it is done or killed.
A content is the set of marks edits have left, so an update that reads a half-written
file finds its mark missing. The frames of a command are `SandboxRun`'s business.

`ApplyPatch` has two halves. `ReadLine` is the scanner of `parse_patch`, one line of the
envelope a step, any line it may meet; `ApplyHunk` is the body of the loop of
`apply_hunks` on texts as sequences of characters. Beside them a hunk keeps its lines as
they stood in the envelope (`src`), and `doc` is the file edited as a list of lines, which
is the reference of `EditsWholeLines`. `Plain` says of which hunks the code can be
expected to agree with it (see the findings).

`Conversation` follows one loop: `stored` is what MAG keeps per response when requests are
chained (`every = 0`), `history` what the client keeps otherwise, and `Context` what MAG
reads in the next inference either way. `said` records everything in full; `Meaning`
expands summaries, so that `Meaning(Context) = said` says that nothing is lost, repeated
or moved. The items a client starts a session with are its own affair: they are passed
on as they are, and of them the code looks at nothing but the role `user`. "Call" and
"output" are the kinds of what this loop makes (`InputsAssumption`). `BootServer` fills the
router as `_boot_mcp` does. A compaction may fail, answer with one or two messages, or with
entries that `_compaction_to_input` drops. That the messages of a compaction pack all it was
given, and what is dropped packs nothing, is the compact route's promise (276-279) and an
assumption here (`Summaries`).

Environment actions (exec-server, MCP server, MAG) are not in the repository; they do
what the client code expects of them and are marked external in PROJECT.json.

## The runs

Bounds are named constants. All passing runs are exhaustive.

| Run | Bounds | Shows |
|---|---|---|
| `MCAgentSession` | two root calls with one call each below, 2 turns, 1 permit, compaction after each turn, all tools on | the type invariant; permits conserved (`SemaphoreConserved`) and bounding the subagents (`SubagentLimit`); no call of an earlier turn in flight in a loop in good order (`NoStrayCalls`); `turn.completed` means everything is settled (`CompletedTurnIsSettled`); the stored status (`StatusMatchesTurn`); which connections may stay open after a loop (`HandlesHaveOwners`); no inference request after a cancel (`NoInferenceAfterCancel`); the refinement of `TurnContract` (`KeepsContract`); every session ends and drains (`SessionDrains`) |
| `MCNested` | the same calls and tools, 1 turn, 2 permits, nested subagents | permits, settlement and no inference after a cancel there too; a cancel ends all loops although nobody answers (`CancelEndsLoops`) |
| `MCSandboxRun` | 2 runs, of 2 and 1 output frames | one reader (`OneReader`); a run's output is its own and in order (`CollectedIsPrefix`), and whole (`NothingDropped`); runs end (`RunsEnd`), timed-out processes are stopped (`TimedOutStops`) |
| `MCMcpStdio` | 2 requests; the server asks, or prints a stray line, only while nothing is unread | a reply that overtakes its acknowledgement is kept (`AnswerNotLost`); requests end by their timers alone (`RequestsEnd`); the server's death is told without them (`DeadEndsRequests`) |
| `MCWorkspace` | 3 jobs of 2 agents, patches of 3, 2 and 1 operations on 3 files, one of which all three share | a patch reports what it did (`ReportMatchesEffect`); a file only one patch uses follows it (`SolePathFollowsPatch`); calls of one agent do not read each other's half-written files (`NoTornRead`); patches end (`PatchesEnd`) |
| `MCApplyPatch` | 5 envelope lines, texts of 0 or 1 character, 39 files of up to 3 lines | parsing and replacing characters edits lines (`EditsWholeLines`) |
| `MCConversation` | 3 turns of up to 2 calls, no compaction or one every turn or second turn, 2 MCP servers with a colliding name, a cap of 4 | MAG reads the whole conversation once (`ReadsWholeConversation`); the active task verbatim (`ActiveTaskVerbatim`); calls with their outputs (`CallsAnswered`); the tool that answers is allowed to (`AnsweredByItsTool`); capped (`OutputsCapped`) |
| `MCLostCancel`, `MCFinalResponse`, `MCMcpIds`, `MCHunkOrder`, `MCHistory` | smallest that shows it; `MCHistory` starts from one user message and has 4 turns | the findings below |

Why the bounds are enough. Two calls per gather are what it takes for one to raise,
return or wait while another runs; two levels are all there are; two turns (in `MCAgentSession`) reuse the
places of calls, reach the head of a turn from a gather and from a compaction, and hit
the turn limit; one permit makes the second subagent wait, two let nested ones block each
other. Two runs of a command show a reader with stale frames of another and a waiter for
the lock; two output frames show order and gaps, before and after `exited`. Two MCP
requests show one ending under another. Three jobs give a sibling of the same agent (behind
the same lock) and one of another (behind a lock of its own) on a shared file, and a patch with a
second operation on the file it has just added. Five envelope lines hold a header and
a hunk of four lines, or two hunks of two; one file line contains another, so that a block
can be met inside a line. Three turns compact a history that already starts with a
summary. The safety properties of all components are also
proved for all values (below).

`CHECK_DEADLOCK FALSE` is set where the system may stop: in `MCNested`
every permit can be held by a subagent that waits for a permit (a real deadlock of the
code, which only a cancel ends; the tool is not offered to subagents, but
`_dispatch_call` does not check the depth), and in the runs of the other components,
whose behaviours end.

### Fairness

* `ShimFairness`: the event loop runs each task that can run, and requests outside any
  guard (connect, MCP boot, compaction) are answered. The last part is an assumption on
  the exec-server: `connect()` waits for `initialize` without a limit.
* `ReplyFairness`: guarded requests end. A command has 120 s, an MCP call 20 s and 30 s.
  httpx's 180 s are for each read of MAG's stream, so that the stream is finite is an
  assumption. `MCNested` does without it: that is the point
  of `CancelEndsLoops`.
* `SandboxRun!Fairness`: `pump()` reads or times out; the server answers requests and
  stops a process it was told to terminate. A process left alone may run for ever. Sends,
  which the code does not time, are instantaneous.
* `McpStdio`: a waiter whose future is done runs, and a send, which the code does not time
  either, ends (`ClientSpec`). `RequestsEnd` assumes the
  client's timers and nothing of anyone else, `DeadEndsRequests` no timer but an
  exec-server that answers writes and a reader that reads; each states its assumption.
* `Workspace!FairSpec`: a job that waits for the lock, which asyncio hands to its waiters,
  gets it, and a command's answer comes or its 120 s pass (`run()` always has a time-out).
  The exec-server is not assumed to do anything.

### Findings

The violation runs are the places where a document of the repository says something that
the code does not do; PROJECT.json quotes the lines.

* `MCLostCancel`: a cancel that is answered and lost, as the turn completes after it.
* `MCFinalResponse`: `response.failed` taken for success.
* `MCMcpIds`: a request of the MCP server taken for a reply.
* `MCHunkOrder`: a context line between two groups of changes is moved behind both, so
  that the block looked for is not the one in the envelope.
* `MCHistory`: what precedes the last user message is all that is compacted, and a tool
  loop adds no user message: the history of a session that starts from one task is never
  compacted.

Smaller ones have no run: the connection of a refused `initialize`, the connection and
process of a failed `start()`, and whatever is open when an error comes before the `try` of
line 511, are closed by nobody (`codex_sandbox.py` 54-61, shim 418, 422-427, 505);
a finished session is relabelled by a cancel (825); the
assistant message gets `turn.item.done` without `turn.item.added` (561); `subagent.active`
is emitted before the permit is there (649). And those that `Plain` excepts
from `EditsWholeLines`: a removal without context leaves an empty line, as the newlines
around the block stay; a hunk whose old side is one blank line is appended at the end of
the file; a block that occurs inside a line is replaced there; a hunk of no lines
appends a newline to a file that lacks one.

## The proofs

`AgentSessionProofs` proves, for any finite set of calls on two levels, any number of
turns, permits and compactions and any combination of tools (`SessionAssumption`,
`TwoLevels`):

`TypeCorrect`, `PermitsConserved`, `SubagentsLimited`, `StrayCallsExcluded`,
`HandlesOwned`, `CompletionSettles`, `StatusAgrees` and the action property
`CancelStopsInference`; with `ContractProofs` these are all the safety properties of
`MCAgentSession`.

`TypeOK` and `NoInferenceAfterCancel` rest on types alone; the others are not inductive.
`IInv` adds what relates the parts of the state:

* `LoopInCall`: a subagent's loop runs exactly while its call is in `sub`. This is what
  turns "one permit per call in `sub`" into a bound on loops, and what tells that an idle
  call has no loop below it.
* `OutcomeFits`: a loop at any await of its body has no outcome; one in a gather has at
  most an exception. It excludes that a loop returns an answer over a raised gather.
* `PhaseFits`: the phase of the turn follows the root loop, and a finished turn reports
  its loop's outcome. `CompletionSettles` starts from it: a completed turn's root loop
  answered, so it is calm.
* `IdleIsQuiet`: an idle place has no open item or subagent event.
* `AnswerFits`: the assistant message is there exactly when the root loop is left with a
  text; a loop that used up its turns is at its last.
* `NoStrayCalls`, `HandlesHaveOwners` and `SemaphoreConserved` themselves.

`HandlesHaveOwners` speaks of loops that got into their `try`: each has closed its connection
when it is left, except by a `CancelledError`, which may hit the closing; so has the root loop
with the MCP sessions it kept. For what an error before the `try` leaves open the code has no
owner, and the property no claim.

`InitIInv` is the base case, `NextIInv` the step, with one lemma per action and in it a
step for each conjunct. `TopEnters`, `TryEnters`, `BootOrTurnEnters` and `BeginEnters` say
once what entering a loop, or the head of its turn, can do to `pc` and `outcome`, for the seven
actions that do. `CompletionSettles`
follows from `IInv` in two steps down the levels: the root is calm, so its calls are
idle; an idle call is a calm loop, so its calls are idle; hence no call holds a permit
and all are free.

`StatusAgrees` needs `PhaseFits` only: the driver stores the end of a turn that is running.

`ContractProofs` proves that a session without nested subagents implements `TurnContract`
(`ContractKept`). Over `IInv` it needs `EventsFit`: what a call has announced follows from
where it is suspended, and a call of the root that is yet to run finds the root in its
gather, hence the turn running. The simulation has three lemmas: what starts is announced
(`StartIsAnnounced`), what returns is settled (`ReturnIsSettled`), and the driver starts and
ends the turn as the contract allows (`DriverKeepsContract`), where completion rests on
`CompletedIsSettled`; all other steps are invisible.

`SandboxRunProofs` proves, for any number of runs and any amount of output, the types of
a connection, that the holder of its lock is its only reader (`HolderReads`), that a run
collects its own output in order (`OutputIsOwn`) and, when it returns, all of it
(`OutputIsWhole`). The first two follow `End`, the one way in which every run gives the
lock on. The others rest on `WireInv`, about the frames not yet read: a process that has
not been asked for has sent none (`FreshIsSilent`); the output frames of one process are
in order (`InOrder`) and together with what was collected have no gap (`NoGap`); nothing of
a process follows its `closed` frame (`ClosedIsLast`); the exit is told before (`ExitTold`).
A frame is dropped only by a reader it does not belong to, and the run it belongs to reads
no more, as there is one reader: this is why `OneReader` is part of the invariant.

`WorkspaceProofs` proves, for any jobs, agents, files and patches, that a patch reports
what it did (`ReportsAreTrue`) and that the lock keeps an agent from its own half-written
files (`LockPreventsTornReads`). The invariant says that a command under way is for the
operation its job is at, a job that waits for it or has ended (`CommandHasJob`), that the
jobs that run are the holders of the locks (`HolderRuns`), that a change whose command is
done has landed when its job looks (`DoneHasLanded`), and that a job not yet called is at its
first operation (`IdleIsFresh`).

`SolePathIsAsReported` adds what a file that one patch alone uses holds. The content after
the first n operations is a recursive function (`Expected`); `ContentsExist` and
`ExpectedSteps` show that it is what its equations say, for a patch of any length.
The property says nothing of a file while the operation under way is on it, so it is not
inductive: `Follows` says what is true then: what the update has read and made
of it (`buf`), what stands there when the command is done, and when it is in doubt
(`InDoubt`). The commands of other jobs, late ones included, are at paths of their own.

`McpStdioProofs` proves the types of a session and `ReadIsKept`, for any number of requests:
a request does not time out in waiting for a reply that was read before it waited. Such a
request has its reply or an error while it is busy with the write, and so never gets to the
wait (the invariant `Told`).

`ApplyPatchProofs` proves, for any set of line texts, files and hunks of any length
(`PatchAssumption`: a line has no newline in it, a file has at least one line, if an empty
one):

* `Types`: what the scanner makes is well formed.
* `OrderKept`: a hunk with one group of changes has, in both of its blocks, the lines of the
  envelope in their order. It shows the finding of `MCHunkOrder` to be the only way in which
  order is lost. The invariant is `Sorted`: context comes after a change exactly when it is in
  `after`, which makes a later change a second group.
* `WholeLinesEdited`: the text that `apply_hunks` makes is the file edited line by line, under
  `Plain`. The argument goes over the text with a newline more, `Whole(d)`, which is a
  concatenation over the lines, so that parts of the file and parts of the text correspond
  (`DocConcat`, `JoinWhole`, `LineOfDoc`). Every newline of the text ends a line
  (`CutAtLine`), and text met from the start of a line is met as lines (`BlockAtLine`): so an
  occurrence on whole lines is an occurrence of lines (`LinesOfText`), and conversely
  (`TextOfLines`). Later lines start later, hence the first occurrences correspond
  (`FirstReplaced`), and what replaces them is the same (`TextReplaced`). The
  append of a pure insertion is `TextAppended`, with its separator.

`ConversationProofs` proves all invariants of `MCConversation` for any inputs, servers, tool
results, cap, turns and calls per response, and any setting of the compaction. Its invariant
(`Invariant`) relates what is kept to everything that was said:

* `Whole`: the history, or what MAG stored last, stands for all that was said.
  `MeaningConcat` and `MeaningSummaries` say that replacing a prefix by its summaries
  leaves the meaning alone.
* `Shape`: the history is k summaries and then what was said, verbatim, from its first item or
  from its last user message on. With it, the cut of the next compaction falls where the last one
  did, or inside the summaries (`CutAtTask`): this is why neither the task nor a call is ever
  lost.
* `Paired`: the calls and outputs among what was said have the ids of their turns, one output
  follows each call, and no user message comes after the first of them. `CallsHaveOutputs`
  follows as the verbatim part of the history starts no later than the last user message.
* `Routing` and `Results`: the router's names are those offered, each for a tool of a
  running server that may be offered under it; the next input answers the last calls by it.

Induction over the length of a sequence or the steps of a recursive function is done
with `InductionUpTo` of `SequenceFacts`: the library's induction theorems take a predicate as
a parameter, which the provers cannot instantiate, while a set of naturals has a least
element by a fact about sets (`LeastElement`).

So every invariant and every action property of the passing runs is a theorem, and so is the
refinement of `TurnContract`. Model-checked only is all liveness (`SessionDrains`,
`CancelEndsLoops`, `RunsEnd`, `TimedOutStops`, `RequestsEnd`, `DeadEndsRequests`,
`PatchesEnd`): the provers handle neither `ENABLED` nor arguments from fairness. `KeepsContract` is proved without nested
subagents, for which it is not claimed either.

## Not modelled

* Request parsing (`_parse`, `_parse_mcp_specs`, `_flatten_hosted_mcp`), the constructors of
  `agents_api_models.py`, `_extract_text`: pure reshaping of JSON, with no state and no
  order of steps a model could vary.
* The lines of MAG's event stream: of them only deltas, the final event and errors leave
  `_mag_stream`. Decoding of output chunk by chunk: how the exec-server cuts a stream is not
  in the repository.
* `validate_models.py`, examples, scripts.
* Several sessions at once share nothing but two dictionaries, keyed by fresh ids.
* `KeepsContract` is not claimed for nested subagents: one that outlives its turn may still
  start another.
* An update lost between two concurrent patches of one file: the code does nothing against
  it and promises nothing; the model has it.

## Plan

What would extend this project: a composition of `Workspace` with `SandboxRun`, so that a
command's result is the frames its run collected (its state space needs a smaller
environment than both have now); hosted MCP tools, which MAG executes, once the code
handles their approval requests; an abstract specification of a patch as one atomic edit
of a list of lines, which `ApplyPatch` would be proved to implement; one of the conversation
as a log that is only appended to and read in full, for `Conversation`.
