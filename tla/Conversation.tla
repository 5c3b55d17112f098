---------------------------- MODULE Conversation ----------------------------
(***************************************************************************)
(* What MAG reads in each inference of one _run_loop (mag_agents_shim.py), *)
(* and which tool answers each call: the exposed names of the local MCP    *)
(* servers and their router (_boot_mcp), server-side chaining by           *)
(* previous_response_id or a history kept by the client, the capped tool   *)
(* results, and the compaction of the history.                             *)
(*                                                                         *)
(* Texts are abstracted to what kind of item carries them.  Cancellation,  *)
(* errors and subagents are in AgentSession.  MAG, which stores chained    *)
(* conversations and answers a compaction with messages that stand for     *)
(* what it was given, is modelled from how the loop uses it.               *)
(***************************************************************************)
EXTENDS Naturals, Sequences, SequencesExt, TLC

CONSTANTS Inputs,          \* conversations a session may start from
          CompactSettings, \* values of SHIM_COMPACT_EVERY
          MaxTurns,        \* SHIM_MAX_TURNS
          MaxCalls,        \* bound: calls of one response
          Servers,         \* the MCP servers declared, in order: label, tools, allowed
          ExposedName,     \* sanitised "mcp_<label>_<tool>"; need not be injective
          LocalTools,      \* other names that the model may call
          RawSize,         \* length of what each tool returns
          MaxToolOutput,   \* SHIM_MAX_TOOL_OUTPUT
          Marker           \* length of the notice that text was cut out

ASSUME ConversationAssumption ==
    CompactSettings \subseteq Nat /\ {MaxTurns, MaxCalls, MaxToolOutput, Marker} \subseteq Nat

\* "call", "output" and "summary" are items that this loop makes or is given by the
\* compaction. What a client starts a session with is its own affair, earlier calls
\* included: of those items only the role "user" is looked at.
InputItems == UNION {ToSet(input) : input \in Inputs}
ASSUME InputsAssumption ==
    /\ Inputs \subseteq Seq(InputItems)
    /\ \A item \in InputItems : item.kind \notin {"call", "output", "summary"}

Exposed(s, tool) == ExposedName[<<s.label, tool>>]

\* Every name the model is offered has a tool, whose result has a length.
ASSUME ToolsAssumption ==
    /\ Servers \in Seq(ToSet(Servers))
    /\ \A s \in ToSet(Servers) :
          /\ s.tools \in Seq(ToSet(s.tools))
          /\ \A tool \in ToSet(s.tools) : Exposed(s, tool) \in DOMAIN RawSize
    /\ LocalTools \subseteq DOMAIN RawSize
    /\ \A name \in DOMAIN RawSize : RawSize[name] \in Nat

VARIABLES
    every,      \* SHIM_COMPACT_EVERY of this process
    phase,      \* "boot", "turn", "tools", "compact" or "done"
    up,         \* MCP servers that have started
    tried,      \* how many were tried
    exposed,    \* names of the function tools offered for them
    router,     \* exposed name -> server and tool
    turn,       \* turns begun
    calls,      \* the calls of the last response
    turn_input, \* input of the next chained request
    stored,     \* conversations kept by MAG, one per response
    history,    \* the conversation kept by the client
    said,       \* everything said so far, in full (history variable)
    missed      \* a compaction has failed (history variable)

boot == <<up, tried, exposed, router>>
vars == <<every, phase, boot, turn, calls, turn_input, stored, history, said, missed>>

Phases == {"boot", "turn", "tools", "compact", "done"}

TypeOK ==
    /\ every \in CompactSettings
    /\ phase \in Phases
    /\ up \subseteq 1..tried /\ tried \in 0..Len(Servers)
    /\ DOMAIN router \subseteq exposed
    /\ turn \in 0..MaxTurns
    /\ Len(calls) \in 0..MaxCalls
    /\ every > 0 => stored = <<>>
    /\ every = 0 => Len(stored) = turn
    /\ missed \in BOOLEAN

Init ==
    /\ every \in CompactSettings
    /\ phase = "boot" /\ up = {} /\ tried = 0 /\ exposed = {} /\ router = <<>>
    /\ turn = 0 /\ calls = <<>> /\ stored = <<>> /\ missed = FALSE
    /\ said \in Inputs /\ turn_input = said /\ history = said

-----------------------------------------------------------------------------
(* _boot_mcp                                                               *)

\* The tools of a server that are offered; an empty allow list allows everything.
AllTools(s) == DOMAIN s.tools                                        \* mutant
Offered(s) == {i \in DOMAIN s.tools : s.allowed = {} \/ s.tools[i] \in s.allowed}

\* The last of the tools offered under the name.
Named(s, name) ==
    CHOOSE i \in Offered(s) :
        /\ Exposed(s, s.tools[i]) = name
        /\ \A j \in Offered(s) : Exposed(s, s.tools[j]) = name => j <= i

\* A server that does not start is skipped.  A later tool takes over the name
\* of an earlier one.
BootServer ==
    /\ phase = "boot" /\ tried < Len(Servers)
    /\ tried' = tried + 1
    /\ LET s == Servers[tried']
           names == {Exposed(s, s.tools[i]) : i \in Offered(s)}
       IN \/ /\ up' = up \cup {tried'}
             /\ exposed' = exposed \cup names
             /\ router' = [name \in names \cup DOMAIN router |->
                            IF name \in names THEN <<tried', s.tools[Named(s, name)]>>
                            ELSE router[name]]
          \/ UNCHANGED <<up, exposed, router>>
    /\ UNCHANGED <<every, phase, turn, calls, turn_input, stored, history, said, missed>>

Booted ==
    /\ phase = "boot" /\ tried = Len(Servers)
    /\ phase' = "turn"
    /\ UNCHANGED <<every, boot, turn, calls, turn_input, stored, history, said, missed>>

-----------------------------------------------------------------------------
(* A turn of _run_loop                                                     *)

\* What MAG reads: the history, or the new input after what it has stored under
\* the previous response.
Context ==
    IF every > 0 THEN history
    ELSE (IF stored = <<>> THEN <<>> ELSE Last(stored)) \o turn_input

\* The conversation goes on with what the items say.
Kept(items) == IF every > 0 THEN history \o items ELSE history

StoreAlways(output) == Append(stored, Context \o output)             \* mutant
Stored(output) == IF every > 0 THEN stored ELSE Append(stored, Context \o output)

Infer ==
    /\ phase = "turn" /\ turn < MaxTurns
    /\ turn' = turn + 1
    /\ \E says \in BOOLEAN, n \in 0..MaxCalls :
       \E names \in [1..n -> exposed \cup LocalTools] :
         LET made == [i \in 1..n |-> [kind |-> "call", id |-> <<turn', i>>, name |-> names[i]]]
             output == (IF says THEN <<[kind |-> "assistant", id |-> <<turn', 0>>]>> ELSE <<>>) \o made
         IN /\ calls' = made
            /\ said' = said \o output
            /\ stored' = Stored(output)
            /\ history' = Kept(output)
            /\ phase' = IF n = 0 THEN "done" ELSE "tools"
            /\ router' = IF n = 0 THEN <<>> ELSE router
    /\ UNCHANGED <<every, up, tried, exposed, turn_input, missed>>

\* _truncate: the head and the tail of what is too long, around the notice.
WholeCap == MaxToolOutput                                            \* mutant
Half == IF MaxToolOutput \div 2 > 1 THEN MaxToolOutput \div 2 ELSE 1
Capped(n) == IF n <= MaxToolOutput THEN n ELSE 2 * Half + Marker

\* The router is looked at before any other tool.
Target(name) == IF name \in DOMAIN router THEN router[name] ELSE <<0, name>>

Due(n) == every > 0 /\ n % every = 0

StaleInput(results) == turn_input' = turn_input \o results           \* mutant
NextInput(results) == turn_input' = results

ToolsDone ==
    /\ phase = "tools"
    /\ LET results == [i \in 1..Len(calls) |->
                          [kind |-> "output", id |-> calls[i].id,
                           from |-> Target(calls[i].name), size |-> Capped(RawSize[calls[i].name])]]
       IN /\ NextInput(results)
          /\ said' = said \o results
          /\ history' = Kept(results)
    /\ phase' = IF Due(turn) THEN "compact" ELSE "turn"
    /\ UNCHANGED <<every, boot, turn, calls, stored, missed>>

-----------------------------------------------------------------------------
(* Compaction                                                              *)

\* What items stand for: a summary stands for what was compacted into it.
StandsFor(item) == IF item.kind = "summary" THEN item.of ELSE <<item>>
Meaning(items) == FlattenSeq([i \in 1..Len(items) |-> StandsFor(items[i])])

ByUser(item) == item.kind = "user" \/ (item.kind = "summary" /\ item.role = "user")

\* Number of items before the last user message: 0 if there is none.
CutAtEnd(h) == Len(h)                                                \* mutant
CutInPair(h) == IF Len(h) = 0 THEN 0 ELSE Len(h) - 1                 \* mutant
Cut(h) == LET users == {i \in 1..Len(h) : ByUser(h[i])}
          IN IF users = {} THEN 0 ELSE (CHOOSE i \in users : \A j \in users : i >= j) - 1

\* Answers of the compact route: messages with a role, and what is not a message or
\* has no text, which _compaction_to_input drops.
CompactAnswers == UNION {[1..n -> {"user", "assistant", "other"}] : n \in 0..2}
Cleaned(answer) ==
    FlattenSeq([i \in 1..Len(answer) |-> IF answer[i] = "other" THEN <<>> ELSE <<answer[i]>>])

\* The messages that are kept pack the whole prefix between them; which one says what
\* is not told apart.  That is the compact route's promise (276-279), taken as given:
\* only its marker, and messages without text, are dropped.
Summaries(roles, prefix) ==
    [i \in 1..Len(roles) |-> [kind |-> "summary", role |-> roles[i],
                              of |-> IF i = 1 THEN Meaning(prefix) ELSE <<>>]]

Compact ==
    /\ phase = "compact"
    /\ phase' = "turn"
    /\ LET cut == Cut(history)
           prefix == SubSeq(history, 1, cut)
           tail == SubSeq(history, cut + 1, Len(history))
       IN IF Len(prefix) < 2 THEN UNCHANGED <<history, missed>>
          ELSE \E answer \in CompactAnswers :
                 LET roles == Cleaned(answer)
                 IN IF roles = <<>> THEN missed' = TRUE /\ UNCHANGED history
                    ELSE history' = Summaries(roles, prefix) \o tail /\ UNCHANGED missed
    /\ UNCHANGED <<every, boot, turn, calls, turn_input, stored, said>>

\* "(max turns reached)"
MaxTurnsReached ==
    /\ phase = "turn" /\ turn = MaxTurns
    /\ phase' = "done" /\ router' = <<>>
    /\ UNCHANGED <<every, up, tried, exposed, turn, calls, turn_input, stored, history, said, missed>>

Next == BootServer \/ Booted \/ Infer \/ ToolsDone \/ Compact \/ MaxTurnsReached
Spec == Init /\ [][Next]_vars

-----------------------------------------------------------------------------
(* Properties                                                              *)

\* Whichever way the conversation is kept, and however often it was compacted, MAG
\* reads in each inference all of it, in its order, nothing twice.
ReadsWholeConversation == phase = "turn" => Meaning(Context) = said

\* The last user message and everything since, the tool loop under way, is sent as
\* it was said, never as a summary.
ActiveTaskVerbatim ==
    phase = "turn" =>
        LET task == SelectLastInSeq(said, LAMBDA item : item.kind = "user")
        IN IsSuffix(SubSeq(said, IF task = 0 THEN 1 ELSE task, Len(said)), Context)

\* A request has each call together with its one output, which follows it.
CallsAnswered ==
    phase = "turn" =>
        LET context == Context
            Items(kind) == {i \in DOMAIN context : context[i].kind = kind}
            Answers(i) == {k \in Items("output") : context[k].id = context[i].id}
        IN /\ \A i \in Items("call") : \E k \in Answers(i) : k > i /\ Answers(i) = {k}
           /\ \A k \in Items("output") : \E i \in Items("call") : k \in Answers(i)

\* A call is answered by a running server that lists the tool, that is allowed to
\* offer it, and for which the tool has the name called; by the shim's own tools
\* only if no server offers the name.
AnsweredByItsTool ==
    phase = "turn" /\ turn > 0 =>
        \A i \in DOMAIN calls :
            LET server == turn_input[i].from[1]
                tool == turn_input[i].from[2]
                s == Servers[server]
            IN /\ turn_input[i].id = calls[i].id
               /\ IF server = 0 THEN calls[i].name \notin exposed
                  ELSE /\ server \in up
                       /\ tool \in ToSet(s.tools)
                       /\ s.allowed # {} => tool \in s.allowed
                       /\ Exposed(s, tool) = calls[i].name

\* No tool result that MAG is sent is longer than the cap and the notice; one
\* character of either end is kept under the smallest caps.
Limit == IF MaxToolOutput > 2 THEN MaxToolOutput ELSE 2
OutputsCapped ==
    \A i \in DOMAIN said : said[i].kind = "output" => said[i].size <= Limit + Marker

\* mag_agents_shim.py:75-77: compacting every N tool turns "keeps a long agentic
\* session's server-side context bounded": when no compaction has failed, a request
\* has the calls of at most 2 N turns in full.
HistoryBounded ==
    phase = "turn" /\ every > 0 /\ ~missed =>
        LET full == {i \in DOMAIN history : history[i].kind = "call"}
        IN \A i, k \in full : history[k].id[1] < history[i].id[1] + 2 * every

=============================================================================
