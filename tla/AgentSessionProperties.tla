----------------------- MODULE AgentSessionProperties -----------------------
(***************************************************************************)
(* What makes a session correct: invariants, action properties, the        *)
(* contract its turn implements, liveness, and statements of the           *)
(* documentation the code does not keep.                                   *)
(***************************************************************************)
EXTENDS AgentSession

-----------------------------------------------------------------------------
(* Safety                                                                  *)

Holders == {c \in Calls : call[c] = "sub"}

\* The permits of ctx.sem: those free and those held by subagents' loops are
\* always all of them, whatever exception or cancellation a loop is left by.
SemaphoreConserved == sem + Cardinality(Holders) = MaxSubagents

\* multi_agent.max_concurrent_subagents bounds the subagents' loops that run.
SubagentLimit == Cardinality({c \in Calls : pc[c] # "idle"}) <= MaxSubagents

\* Nothing of the loop, its calls or the loops of these has gone wrong.
Calm(l) ==
    /\ pc[l] # "tools"
    /\ outcome[l] \in {"none"} \cup Answered
    /\ l \in Calls => call[l] \notin Raised \cup {"cancelled"}

\* A loop that is between two gathers, or left in good order, has no call of an
\* earlier turn still in flight: gather hands over either all results or an
\* exception that ends the loop.
NoStrayCalls ==
    \A l \in Loops : Calm(l) => \A c \in Slots(l) : call[c] = "idle" /\ pc[c] = "idle"

\* When turn.completed is emitted (and ever after) no tool call, subagent,
\* connection or permit of the session is in use, but for MCP servers whose start
\* failed; no announced item, subagent or content part of the turn lacks its closing
\* event, and the assistant message is there, unless the turns were used up.
CompletedTurnIsSettled ==
    phase = "completed" =>
        /\ \A c \in Calls : /\ call[c] = "idle"
                            /\ pc[c] = "idle"
                            /\ item[c] # "added"
                            /\ sub[c] # "active"
        /\ \A l \in Loops : ~sandbox[l]
        /\ "kept" \notin mcp
        /\ sem = MaxSubagents
        /\ \/ item[Root] = "done" /\ part # "open"
           \/ item[Root] = "none" /\ turn[Root] + 1 >= MaxTurns

\* The stored session agrees with the event that ended the turn, except that
\* the cancel endpoint may have overwritten it, and that a turn lost with its
\* client leaves it in progress.
StatusMatchesTurn ==
    \/ cancel /\ status = "cancelled"
    \/ status = CASE phase = "none" -> "absent"
                  [] phase \in {"running", "lost"} -> "in_progress"
                  [] phase = "completed" -> "idle"
                  [] phase = "failed" -> "failed"
                  [] phase = "cancelled" -> "cancelled"

\* A loop that got into its try block has closed its exec-server connection when it
\* is left, whatever it is left by, except a CancelledError (which may hit the closing
\* itself); so has the root loop with the MCP sessions it kept.  What opened before
\* the try block and was left by an error there stays open.
HandlesHaveOwners ==
    /\ \A l \in Loops : sandbox[l] =>
            \/ pc[l] \notin {"idle", "done"}
            \/ IF l = Root THEN outcome[l] \in Unclosed ELSE call[l] \in {"early", "cancelled"}
    /\ "kept" \in mcp => phase = "running" \/ outcome[Root] \in Unclosed

\* Once the session is cancelled no loop of it, the root's or a subagent's,
\* sends MAG another inference request.
NoInferenceAfterCancel ==
    [][\A l \in Loops : pc[l] # "inference" /\ pc'[l] = "inference" => ~cancel]_vars

\* The session implements the contract of its turn: work announced by an item
\* or a subagent event is settled before turn.completed, and nothing is
\* announced after the turn ended.
Contract == INSTANCE TurnContract
    WITH Work <- Calls,
         open <- {c \in Calls : item[c] = "added" \/ sub[c] = "active"},
         end <- phase

KeepsContract == Contract!Spec

-----------------------------------------------------------------------------
(* Liveness                                                                *)

LoopsLeft == pc[Root] = "done" /\ \A c \in Calls : pc[c] = "idle"

\* A cancelled session leaves all its loops even if MAG, the running commands
\* and the MCP servers never answer again: every wait for them is guarded.
CancelEndsLoops == cancel ~> LoopsLeft

\* Every session that starts ends, and in the end no call is left in flight
\* and no permit is lost, those of calls orphaned by a failed gather included.
Drained ==
    /\ LoopsLeft
    /\ phase \notin {"none", "running"}
    /\ \A c \in Calls : call[c] \notin {"ready"} \cup Running
    /\ sem = MaxSubagents

SessionDrains == mode # "none" ~> Drained

-----------------------------------------------------------------------------
(* What the documentation says and the code does not keep                  *)

\* README.md: the cancel endpoint "aborts mid-turn -> turn.cancelled".  A turn
\* cancelled while it runs does not end with turn.completed.
CancelledTurnNeverCompletes ==
    [][cancel /\ phase = "running" => phase' # "completed"]_vars

\* _mag_stream "return[s] the final response object (from response.completed)".
\* A completed turn rests on a completed response.
CompletedOnCompletedResponse ==
    phase = "completed" => final \in {"none", "completed"}

=============================================================================
