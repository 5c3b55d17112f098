---------------------------- MODULE AgentSession ----------------------------
(***************************************************************************)
(* One session of the shim (mag_agents_shim.py): the endpoint that creates *)
(* it, the driver of its only turn, the agent loop of that turn, the tool  *)
(* calls the loop runs concurrently, the subagents those calls start, the  *)
(* semaphore that bounds them, and the two ways a turn is stopped from     *)
(* outside: the cancel endpoint and a streaming client that goes away.     *)
(*                                                                         *)
(* The shim is a single-threaded asyncio program.  One action is the code  *)
(* between two suspension points of one task; emit() puts on an unbounded  *)
(* queue and never suspends, so the events a segment emits are part of its *)
(* action and are recorded in item, sub, part and phase.                   *)
(*                                                                         *)
(* A loop is one activation of _run_loop.  Calls are the places in which a *)
(* function_call of a loop is dispatched; a place is reused from one turn  *)
(* of the loop to the next.  The loop a run_subagent call starts is named  *)
(* by the call itself, so Loops is Root together with Calls.               *)
(***************************************************************************)
EXTENDS Integers, FiniteSets

CONSTANTS
    Root,             \* the root loop (depth 0)
    Calls,            \* the places for tool calls, of all loops
    Issuer,           \* the loop that dispatches a call
    MaxTurns,         \* SHIM_MAX_TURNS
    MaxSubagents,     \* max(1, multi_agent.max_concurrent_subagents)
    CompactEvery,     \* SHIM_COMPACT_EVERY, 0 for no compaction
    SandboxEnabled,   \* SANDBOX_URI is set and environment.type is not none
    McpEnabled,       \* the agent declares stdio MCP servers, SANDBOX_URI is set
    SubagentsEnabled, \* multi_agent.enabled
    NestedSubagents   \* the model calls run_subagent in loops not offered it

Loops == Calls \cup {Root}
Slots(l) == {c \in Calls : Issuer[c] = l}

ASSUME SessionAssumption ==
    /\ Root \notin Calls
    /\ IsFiniteSet(Calls)
    /\ Issuer \in [Calls -> Loops]
    /\ MaxTurns \in Nat
    /\ MaxSubagents \in Nat \ {0}
    /\ CompactEvery \in Nat
    /\ {SandboxEnabled, McpEnabled, SubagentsEnabled, NestedSubagents} \subseteq BOOLEAN

\* The calls of a session are those of the root loop and those of the loops
\* these start: run_subagent is offered at depth 0 only.
ASSUME TwoLevels == \A c \in Calls : Issuer[c] # Root => Issuer[Issuer[c]] = Root

VARIABLES
    mode,     \* the "stream" flag of the request; "none" before it
    status,   \* SESSIONS[id]["status"]; "absent" before the first _store
    cancel,   \* ctx.cancel is set
    phase,    \* how the turn ended, as its driver reports it
    pc,       \* where each loop is suspended
    turn,     \* turn_no of each loop
    outcome,  \* how _run_loop is about to be left; in "tools", the exception
              \* with which the loop's gather already ended
    sandbox,  \* the exec-server connection made for a loop is open
    mcp,      \* open MCP sessions: "kept" in ctx.mcp_sessions and routed to, or
              \* "stray" after a start() that did not return
    call,     \* where each dispatched call is suspended, or how it ended
    sem,      \* free permits of ctx.sem
    item,     \* item events of a call; at Root those of the assistant message
    sub,      \* subagent events of a call
    part,     \* content_part events of the assistant message
    final     \* the last event kind that gave the root loop its response

session == <<mode, status, cancel, phase>>
loop    == <<pc, turn, outcome>>
handles == <<sandbox, mcp>>
events  == <<item, sub, part>>
vars    == <<session, loop, handles, call, sem, events, final>>

Running == {"command", "mcp", "waitsem", "sub"}   \* suspended in a tool
Raised  == {"failed", "early", "aborted"}         \* ended with an exception
Answered == {"text", "max_turns"}                 \* _run_loop returns a string

\* _run_loop is left before its try block, and so not through the finally block:
\* by an error, or by a CancelledError.
BeforeTry == {"early", "torn"}

\* The outcomes that may leave connections open: a finally block that was not
\* entered, or one that may itself have been interrupted.
Unclosed == BeforeTry \cup {"interrupted"}

TypeOK ==
    /\ mode \in {"none", "stream", "nonstream"}
    /\ status \in {"absent", "in_progress", "idle", "cancelled", "failed"}
    /\ cancel \in BOOLEAN
    /\ phase \in {"none", "running", "completed", "cancelled", "failed", "lost"}
    /\ pc \in [Loops -> {"idle", "connect", "boot", "inference", "tools",
                         "compact", "unwind", "done"}]
    /\ turn \in [Loops -> 0..MaxTurns]
    /\ outcome \in [Loops -> {"none", "Cancelled", "error"} \cup Unclosed \cup Answered]
    /\ sandbox \in [Loops -> BOOLEAN]
    /\ mcp \subseteq {"kept", "stray"}
    /\ call \in [Calls -> {"idle", "ready", "ok", "cancelled"} \cup Running \cup Raised]
    /\ sem \in 0..MaxSubagents
    /\ item \in [Loops -> {"none", "added", "done"}]
    /\ sub \in [Calls -> {"none", "active", "closed"}]
    /\ part \in {"none", "open", "closed", "unopened"}
    /\ final \in {"none", "completed", "incomplete", "failed"}

Init ==
    /\ mode = "none" /\ status = "absent" /\ cancel = FALSE /\ phase = "none"
    /\ pc = [l \in Loops |-> "idle"]
    /\ turn = [l \in Loops |-> 0]
    /\ outcome = [l \in Loops |-> "none"]
    /\ sandbox = [l \in Loops |-> FALSE]
    /\ mcp = {}
    /\ call = [c \in Calls |-> "idle"]
    /\ sem = MaxSubagents
    /\ item = [l \in Loops |-> "none"]
    /\ sub = [c \in Calls |-> "none"]
    /\ part = "none"
    /\ final = "none"

-----------------------------------------------------------------------------
(* _run_loop: entry, the head of a turn, the ways out                      *)

\* The loop is being left.  In its finally block, unless it never got into the try
\* block, it is suspended again.
Leave(l, o) ==
    /\ pc' = [pc EXCEPT ![l] = "unwind"]
    /\ outcome' = [outcome EXCEPT ![l] = o]

TopOfTurnUnchecked(l, t) ==                 \* mutant
    \/ t >= MaxTurns /\ Leave(l, "max_turns") /\ UNCHANGED turn
    \/ /\ t < MaxTurns
       /\ turn' = [turn EXCEPT ![l] = t]
       /\ pc' = [pc EXCEPT ![l] = "inference"]
       /\ UNCHANGED outcome

\* "for turn_no in range(MAX_TURNS)" and the cancel check under it, up to the
\* await of the inference call.
TopOfTurn(l, t) ==
    \/ /\ t >= MaxTurns
       /\ Leave(l, "max_turns")
       /\ UNCHANGED turn
    \/ /\ t < MaxTurns
       /\ turn' = [turn EXCEPT ![l] = t]
       /\ \/ cancel /\ Leave(l, "Cancelled")
          \/ /\ ~cancel
             /\ pc' = [pc EXCEPT ![l] = "inference"]
             /\ UNCHANGED outcome

\* The last lines before the try block, and its first.  What the client sent as the
\* input may not be iterable; the input of a subagent is made by the shim.
EnterTry(l) ==
    \/ TopOfTurn(l, 0)
    \/ l = Root /\ Leave(l, "early") /\ UNCHANGED turn

\* The local MCP servers are booted by the root loop only.
BootOrTurn(l) ==
    \/ /\ l = Root /\ McpEnabled
       /\ pc' = [pc EXCEPT ![l] = "boot"]
       /\ UNCHANGED <<turn, outcome>>
    \/ /\ ~(l = Root /\ McpEnabled)
       /\ EnterTry(l)

Begin(l) ==
    \/ /\ SandboxEnabled
       /\ pc' = [pc EXCEPT ![l] = "connect"]
       /\ UNCHANGED <<turn, outcome>>
    \/ ~SandboxEnabled /\ BootOrTurn(l)

\* connect() opens the WebSocket, then waits for the answer to initialize.
Opened(l) ==
    /\ pc[l] = "connect" /\ ~sandbox[l]
    /\ sandbox' = [sandbox EXCEPT ![l] = TRUE]
    /\ UNCHANGED <<session, loop, mcp, call, sem, events, final>>

Connected(l) ==
    /\ pc[l] = "connect" /\ sandbox[l]
    /\ BootOrTurn(l)
    /\ UNCHANGED <<session, handles, call, sem, events, final>>

\* The workspace cannot be made, the exec-server is not there or goes away, or it
\* refuses to initialize: nobody closes a connection that was opened.
ConnectFails(l) ==
    /\ pc[l] = "connect"
    /\ Leave(l, "early")
    /\ UNCHANGED <<session, turn, handles, call, sem, events, final>>

\* An HTTP or transport error of MAG, or a stream without a final response.
InferenceFails(l) ==
    /\ pc[l] = "inference"
    /\ Leave(l, "error")
    /\ UNCHANGED <<session, turn, handles, call, sem, events, final>>

\* What _boot_mcp has done when it ends, or is interrupted: none, some or all of the
\* servers came up.  A start() that raised is skipped, with the connection it made.
BootSoFar == mcp' \in SUBSET {"kept", "stray"}

\* EnterTry's error stands also for that of a malformed tool of a server just kept.
Booted ==
    /\ pc[Root] = "boot"
    /\ BootSoFar
    /\ EnterTry(Root)
    /\ UNCHANGED <<session, sandbox, call, sem, events, final>>

-----------------------------------------------------------------------------
(* The inference call: _mag_stream under _guard                            *)

\* _on_delta: the first text delta of the root loop opens the content part.
Delta ==
    /\ pc[Root] = "inference"
    /\ part' = IF part = "none" THEN "open" ELSE part
    /\ UNCHANGED <<session, loop, handles, call, sem, item, sub, final>>

\* Any of the three events is accepted as the one carrying the response.
Response(l, kind) ==
    final' = IF l = Root THEN kind ELSE final

\* A response without function calls ends the loop with its text.
MagText(l, kind, empty) ==
    /\ pc[l] = "inference"
    /\ Response(l, kind)
    /\ Leave(l, "text")
    /\ IF l = Root
       THEN /\ part' = IF part = "none" /\ empty THEN "unopened" ELSE "closed"
            /\ item' = [item EXCEPT ![Root] = "done"]
       ELSE UNCHANGED <<part, item>>
    /\ UNCHANGED <<session, turn, handles, call, sem, sub>>

\* A response with function calls: gather creates one task per call.
MagCalls(l, kind, issued) ==
    /\ pc[l] = "inference"
    /\ issued # {}
    /\ Response(l, kind)
    /\ pc' = [pc EXCEPT ![l] = "tools"]
    /\ call' = [c \in Calls |-> IF c \in issued THEN "ready" ELSE call[c]]
    /\ UNCHANGED <<session, turn, outcome, handles, sem, events>>

-----------------------------------------------------------------------------
(* _dispatch_call: one task per call                                       *)

\* The first exception of a child becomes the result of its loop's gather,
\* unless the gather ended already; the other children keep running.
GatherRaises(l, o) ==
    outcome' = IF pc[l] = "tools" /\ outcome[l] = "none"
               THEN [outcome EXCEPT ![l] = o] ELSE outcome

\* Items are announced at depth 0 only.
Announce(c, e) ==
    item' = IF Issuer[c] = Root THEN [item EXCEPT ![c] = e] ELSE item

\* A function of the shim itself, or a name it does not know: no suspension.
FunctionCall(c) ==
    /\ call[c] = "ready"
    /\ call' = [call EXCEPT ![c] = "ok"]
    /\ UNCHANGED <<session, loop, handles, sem, events, final>>

\* From "ready": arguments that are JSON but not what the tool takes raise
\* TypeError or AttributeError before anything is announced.  From "command":
\* the exec-server refuses the process, or the connection is closed.
Raises(c, from) ==
    /\ call[c] = from
    /\ call' = [call EXCEPT ![c] = "failed"]
    /\ GatherRaises(Issuer[c], "error")
    /\ UNCHANGED <<session, pc, turn, handles, sem, events, final>>

\* A loop has a sandbox handle, if need be a closed one, whenever the sandbox is
\* enabled; the router is empty again once the root loop is left.
StartTool(c, tool) ==
    /\ call[c] = "ready"
    /\ (tool = "command" /\ SandboxEnabled) \/ (tool = "mcp" /\ "kept" \in mcp)
    /\ call' = [call EXCEPT ![c] = tool]
    /\ Announce(c, "added")
    /\ UNCHANGED <<session, loop, handles, sem, sub, part, final>>

\* An MCP call never raises: an exception of its session is turned into a failed
\* item and an error output.
ToolDone(c) ==
    /\ (call[c] = "command" /\ sandbox[Issuer[c]]) \/ call[c] = "mcp"
    /\ call' = [call EXCEPT ![c] = "ok"]
    /\ Announce(c, "done")
    /\ UNCHANGED <<session, loop, handles, sem, sub, part, final>>

\* subagent.created and subagent.active are emitted before ctx.sem is asked
\* for; nothing checks the depth.
StartSubagent(c) ==
    /\ call[c] = "ready"
    /\ SubagentsEnabled
    /\ Issuer[c] = Root \/ NestedSubagents
    /\ call' = [call EXCEPT ![c] = "waitsem"]
    /\ sub' = [sub EXCEPT ![c] = "active"]
    /\ UNCHANGED <<session, loop, handles, sem, item, part, final>>

PermitUnchecked == sem' = sem - 1           \* mutant
PermitNotTaken == sem > 0 /\ UNCHANGED sem  \* mutant
TakePermit == sem > 0 /\ sem' = sem - 1

GiveBackOnSuccess(c) ==                     \* mutant
    sem' = IF outcome[c] \in Answered THEN sem + 1 ELSE sem
GiveBack(c) == sem' = sem + 1

Acquire(c) ==
    /\ call[c] = "waitsem"
    /\ TakePermit
    /\ call' = [call EXCEPT ![c] = "sub"]
    /\ Begin(c)
    /\ UNCHANGED <<session, handles, events, final>>

CloseOnSuccess(l) ==                        \* mutant
    sandbox' = IF outcome[l] \in Answered THEN [sandbox EXCEPT ![l] = FALSE] ELSE sandbox

\* The finally block closes the connection, if it is entered and not interrupted.
Close(l) ==
    \/ outcome[l] \notin BeforeTry /\ sandbox' = [sandbox EXCEPT ![l] = FALSE]
    \/ outcome[l] \in Unclosed /\ UNCHANGED sandbox

\* What the call becomes when its subagent's loop is left.
CallEnd(o) ==
    CASE o \in Answered -> "ok"
      [] o = "Cancelled" -> "aborted"
      [] o = "early" -> "early"
      [] o \in {"interrupted", "torn"} -> "cancelled"
      [] OTHER -> "failed"

\* The subagent's loop is left: the permit is given back on every path,
\* subagent.closed is emitted on the good one only.
SubReturns(c) ==
    /\ pc[c] = "unwind"
    /\ LET end == CallEnd(outcome[c])
           up  == Issuer[c]
       IN /\ call' = [call EXCEPT ![c] = end]
          /\ sub' = IF end = "ok" THEN [sub EXCEPT ![c] = "closed"] ELSE sub
          /\ outcome' = [l \in Loops |->
                           IF l = c THEN "none"
                           ELSE IF l = up /\ end \in Raised /\ pc[l] = "tools"
                                   /\ outcome[l] = "none"
                           THEN IF end = "aborted" THEN "Cancelled" ELSE "error"
                           ELSE outcome[l]]
    /\ pc' = [pc EXCEPT ![c] = "idle"]
    /\ turn' = [turn EXCEPT ![c] = 0]
    /\ GiveBack(c)
    /\ Close(c)
    /\ UNCHANGED <<session, mcp, item, part, final>>

-----------------------------------------------------------------------------
(* The end of the gather, compaction                                       *)

\* gather has started every task before anything else can wake its loop, and an
\* error before a try block meets no suspension point on its way to the gather.
Started(l) == \A c \in Slots(l) : call[c] # "ready" /\ outcome[c] # "early"

FirstReturned(l) == \E c \in Slots(l) : call[c] = "ok"   \* mutant
AllReturned(l) == \A c \in Slots(l) : call[c] \in {"idle", "ok"}

\* Every call of the turn returned: their outputs are the next input, after a
\* compaction of the history when one is due and there is enough to compact.
ToolsDone(l) ==
    /\ pc[l] = "tools"
    /\ outcome[l] = "none"
    /\ AllReturned(l)
    /\ call' = [c \in Calls |-> IF c \in Slots(l) THEN "idle" ELSE call[c]]
    /\ item' = [k \in Loops |-> IF k \in Slots(l) THEN "none" ELSE item[k]]
    /\ sub' = [c \in Calls |-> IF c \in Slots(l) THEN "none" ELSE sub[c]]
    /\ \/ TopOfTurn(l, turn[l] + 1)
       \/ /\ CompactEvery > 0
          /\ (turn[l] + 1) % CompactEvery = 0
          /\ pc' = [pc EXCEPT ![l] = "compact"]
          /\ UNCHANGED <<turn, outcome>>
    /\ UNCHANGED <<session, handles, sem, part, final>>

\* The gather ended with an exception of a child.
ToolsRaise(l) ==
    /\ pc[l] = "tools"
    /\ outcome[l] # "none"
    /\ Started(l)
    /\ Leave(l, outcome[l])
    /\ UNCHANGED <<session, turn, handles, call, sem, events, final>>

\* _mag_compact never raises; it is not under _guard.
CompactDone(l) ==
    /\ pc[l] = "compact"
    /\ TopOfTurn(l, turn[l] + 1)
    /\ UNCHANGED <<session, handles, call, sem, events, final>>

-----------------------------------------------------------------------------
(* Cancellation inside the loop: _guard                                    *)

InferenceOnly == {"inference"}              \* mutant
GuardedWaits == {"inference", "tools"}

\* How a loop is left by a CancelledError thrown into it where it is suspended.
Interruption(l) == IF pc[l] \in {"connect", "boot"} THEN "torn" ELSE "interrupted"

\* ctx.cancel is set and the guarded work is not done: it is cancelled and
\* Cancelled raised.  Cancelling a gather throws CancelledError into the
\* suspended calls; a call inside its subagent's loop unwinds that loop, whose
\* own guard does not cancel what it was waiting for.
GuardCancelled(l) ==
    /\ cancel
    /\ pc[l] \in GuardedWaits
    /\ pc[l] = "tools" => outcome[l] = "none" /\ ~AllReturned(l)
    /\ Started(l)
    /\ LET loops == {c \in Slots(l) : call[c] = "sub"}
       IN /\ call' = [c \in Calls |-> IF c \in Slots(l) /\ call[c] \in Running \ {"sub"}
                                      THEN "cancelled" ELSE call[c]]
          /\ pc' = [k \in Loops |-> IF k \in loops \cup {l} THEN "unwind" ELSE pc[k]]
          /\ outcome' = [k \in Loops |-> IF k = l THEN "Cancelled"
                                         ELSE IF k \in loops THEN Interruption(k)
                                         ELSE outcome[k]]
    /\ UNCHANGED <<session, turn, handles, sem, events, final>>

-----------------------------------------------------------------------------
(* The endpoints and the driver of the turn                                *)

\* create_session with stream: the driver starts with the response body.
CreateStream ==
    /\ mode = "none"
    /\ mode' = "stream"
    /\ UNCHANGED <<status, cancel, phase, loop, handles, call, sem, events, final>>

DriverStart ==
    /\ mode = "stream"
    /\ phase = "none"
    /\ status' = "in_progress"
    /\ phase' = "running"
    /\ Begin(Root)
    /\ UNCHANGED <<mode, cancel, handles, call, sem, events, final>>

CreateNonstream ==
    /\ mode = "none"
    /\ mode' = "nonstream"
    /\ status' = "in_progress"
    /\ phase' = "running"
    /\ Begin(Root)
    /\ UNCHANGED <<cancel, handles, call, sem, events, final>>

TurnEndSwallowed(o) ==                      \* mutant
    CASE o = "Cancelled" -> "cancelled"
      [] o \in {"interrupted", "torn"} -> "lost"
      [] OTHER -> "completed"

\* The event the driver ends the turn with; a CancelledError passes by its
\* except clauses.
TurnEnd(o) ==
    CASE o \in Answered -> "completed"
      [] o = "Cancelled" -> "cancelled"
      [] o \in {"interrupted", "torn"} -> "lost"
      [] OTHER -> "failed"

SessionEndStale(end) ==                     \* mutant
    CASE end = "completed" -> "idle"
      [] end = "cancelled" -> "cancelled"
      [] OTHER -> status

\* The session stored with that event.
SessionEnd(end) ==
    CASE end = "completed" -> "idle"
      [] end = "lost" -> status
      [] OTHER -> end

\* The root loop is left; its finally block closes the MCP sessions it kept too.
RootReturns ==
    /\ pc[Root] = "unwind"
    /\ pc' = [pc EXCEPT ![Root] = "done"]
    /\ phase' = TurnEnd(outcome[Root])
    /\ status' = SessionEnd(TurnEnd(outcome[Root]))
    /\ Close(Root)
    /\ \/ outcome[Root] \notin BeforeTry /\ mcp' = mcp \ {"kept"}
       \/ outcome[Root] \in Unclosed /\ UNCHANGED mcp
    /\ UNCHANGED <<mode, cancel, turn, outcome, call, sem, events, final>>

\* A client knows the id from session.created, or from the whole response.
SessionKnown ==
    \/ mode = "stream" /\ phase # "none"
    \/ mode = "nonstream" /\ pc[Root] = "done"

Cancel ==
    /\ SessionKnown
    /\ cancel' = TRUE
    /\ status' = "cancelled"
    /\ UNCHANGED <<mode, phase, loop, handles, call, sem, events, final>>

\* The streaming client goes away: the response task is cancelled, and with it
\* the driver it awaits, wherever the root loop is suspended.  Its _guard, if it
\* is in one, leaves the guarded work running.
Disconnect ==
    /\ mode = "stream"
    /\ phase = "running"
    /\ Started(Root)
    /\ outcome[Root] \notin BeforeTry
    /\ Leave(Root, Interruption(Root))
    /\ IF pc[Root] = "boot" THEN BootSoFar ELSE UNCHANGED mcp
    /\ UNCHANGED <<session, turn, sandbox, call, sem, events, final>>

-----------------------------------------------------------------------------
Kinds == {"completed", "incomplete", "failed"}

\* Steps the shim takes by itself.
LoopStep(l) ==
    ToolsDone(l) \/ ToolsRaise(l) \/ GuardCancelled(l) \/ (l = Root /\ RootReturns)

CallStep(c) ==
    \/ FunctionCall(c) \/ Raises(c, "ready") \/ StartSubagent(c)
    \/ \E tool \in {"command", "mcp"} : StartTool(c, tool)
    \/ Acquire(c) \/ SubReturns(c)

\* Answers of the sandbox, the MCP servers and MAG to requests that _guard
\* does not cover.
SetupReply(l) ==
    \/ Opened(l) \/ Connected(l) \/ ConnectFails(l)
    \/ CompactDone(l) \/ (l = Root /\ Booted)

\* Answers to guarded requests.
MagReply(l) ==
    \/ InferenceFails(l)
    \/ \E kind \in Kinds : \/ \E empty \in BOOLEAN : MagText(l, kind, empty)
                           \/ \E issued \in SUBSET Slots(l) : MagCalls(l, kind, issued)

ToolReply(c) == ToolDone(c) \/ Raises(c, "command")

Next ==
    \/ CreateStream \/ CreateNonstream \/ DriverStart
    \/ \E l \in Loops : LoopStep(l) \/ SetupReply(l) \/ MagReply(l)
    \/ \E c \in Calls : CallStep(c) \/ ToolReply(c)
    \/ Delta \/ Cancel \/ Disconnect

\* The event loop runs every task that can run, and the requests outside
\* _guard are answered.
ShimFairness ==
    /\ WF_vars(DriverStart)
    /\ \A l \in Loops : WF_vars(LoopStep(l)) /\ WF_vars(SetupReply(l))
    /\ \A c \in Calls : WF_vars(CallStep(c))

\* Guarded requests end: 120 s for a command, 30 s for an MCP call.  httpx allows
\* 180 s for each read, and the stream of a response is taken to be finite.
ReplyFairness ==
    /\ \A l \in Loops : WF_vars(MagReply(l))
    /\ \A c \in Calls : WF_vars(ToolReply(c))

Spec == Init /\ [][Next]_vars
ShimSpec == Spec /\ ShimFairness
FairSpec == ShimSpec /\ ReplyFairness

=============================================================================
