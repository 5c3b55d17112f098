--------------------------- MODULE ContractProofs ---------------------------
(***************************************************************************)
(* A session implements the contract of its turn (TurnContract), for any   *)
(* calls, turns, permits and tools, when the models of subagents keep to   *)
(* the tools they are offered.                                             *)
(***************************************************************************)
EXTENDS AgentSessionProofs

\* The work of a turn that is announced and not settled.
Open == {c \in Calls : item[c] = "added" \/ sub[c] = "active"}

\* What a call has announced follows from where it is suspended, and a call of
\* the root loop that is yet to run finds that loop in its gather.
EventsFit ==
    \A c \in Calls :
        /\ call[c] = "ok" => c \notin Open
        /\ call[c] \in {"command", "mcp"} => sub[c] # "active"
        /\ call[c] \in {"waitsem", "sub"} => item[c] # "added"
        /\ Issuer[c] # Root => item[c] # "added"
        /\ call[c] = "ready" /\ Issuer[c] = Root => pc[Root] = "tools"

\* Entering a loop does not take the root loop out of a gather.
LEMMA EnterKeepsGather ==
    ASSUME IInv, NEW l \in Loops, Enter(l), pc[l] # "tools"
    PROVE  pc[Root] = "tools" => pc'[Root] = "tools"
  BY DEF Enter, EnterAs, IInv, TypeOK, Loops

\* Announcing is keeping to the place of the call.
LEMMA EventsFitStart ==
    ASSUME IInv, EventsFit, NEW c \in Calls,
           StartSubagent(c) \/ \E tool \in {"command", "mcp"} : StartTool(c, tool)
    PROVE  EventsFit'
<1>1. CASE StartSubagent(c)
  <2>1. item[c] = "none" /\ call'[c] = "waitsem"
    BY <1>1 DEF StartSubagent, IInv, IdleIsQuiet, TypeOK
  <2> QED
    BY <1>1, <2>1 DEF StartSubagent, EventsFit, Open, IInv, TypeOK, loop
<1>2. ASSUME NEW tool \in {"command", "mcp"}, StartTool(c, tool)
      PROVE  EventsFit'
  <2>1. sub[c] = "none" /\ call'[c] = tool
    BY <1>2 DEF StartTool, IInv, IdleIsQuiet, TypeOK
  <2> QED
    BY <1>2, <2>1 DEF StartTool, Announce, EventsFit, Open, IInv, TypeOK, loop
<1> QED
  BY <1>1, <1>2

\* A call that returns has settled what it announced.
LEMMA EventsFitReturn ==
    ASSUME IInv, EventsFit, NEW c \in Calls,
           FunctionCall(c) \/ ToolDone(c) \/ SubReturns(c)
    PROVE  EventsFit'
<1>1. CASE FunctionCall(c)
  BY <1>1 DEF FunctionCall, EventsFit, Open, IInv, IdleIsQuiet, TypeOK, loop, events
<1>2. CASE ToolDone(c)
  BY <1>2 DEF ToolDone, Announce, EventsFit, Open, IInv, TypeOK, Loops, loop
<1>3. CASE SubReturns(c)
  <2>1. call[c] = "sub" /\ pc'[Root] = pc[Root]
    BY <1>3, SessionAssumption DEF SubReturns, IInv, LoopInCall, TypeOK, Loops
  <2>2. call'[c] \in {"ok", "aborted", "cancelled", "failed", "early"}
    BY <1>3 DEF SubReturns, CallEnd, IInv, TypeOK
  <2>3. call'[c] = "ok" => c \notin Open'
    BY <1>3, <2>1 DEF SubReturns, EventsFit, Open, IInv, TypeOK
  <2> QED
    BY <1>3, <2>1, <2>2, <2>3 DEF SubReturns, EventsFit, Open, IInv, TypeOK
<1> QED
  BY <1>1, <1>2, <1>3

\* The gather's places are idle again, or nothing is left to be started in it.
LEMMA EventsFitLoop ==
    ASSUME IInv, EventsFit, NEW l \in Loops, LoopStep(l)
    PROVE  EventsFit'
<1>1. CASE ToolsDone(l)
  <2>1. \A c \in Calls : call'[c] = "ready" => call[c] = "ready" /\ c \notin Slots(l)
    BY <1>1 DEF ToolsDone, IInv, TypeOK
  <2>2. \A k \in Loops : k # l => pc'[k] = pc[k]
    BY <1>1 DEF ToolsDone, TopOfTurn, Leave, IInv, TypeOK
  <2>3. \A c \in Calls : call[c] = "ready" /\ Issuer[c] = Root /\ c \notin Slots(l)
                         => pc'[Root] = "tools"
    BY <2>2 DEF EventsFit, Slots, Loops
  <2> QED
    BY <1>1, <2>1, <2>3 DEF ToolsDone, EventsFit, Open, IInv, TypeOK, Loops
<1>2. CASE ToolsRaise(l)
  BY <1>2 DEF ToolsRaise, Started, Slots, Leave, EventsFit, Open, IInv, TypeOK, events
<1>3. CASE GuardCancelled(l)
  <2>1. \A c \in Calls : call'[c] # call[c] => call'[c] = "cancelled"
    BY <1>3 DEF GuardCancelled, IInv, TypeOK
  <2>2. pc'[Root] # pc[Root] => l = Root
    BY <1>3, SessionAssumption DEF GuardCancelled, Slots, IInv, TypeOK, Loops
  <2> QED
    BY <1>3, <2>1, <2>2 DEF GuardCancelled, Started, Slots, EventsFit, Open, events
<1>4. CASE RootReturns
  BY <1>4 DEF RootReturns, EventsFit, Open, events
<1> QED
  BY <1>1, <1>2, <1>3, <1>4 DEF LoopStep

\* The other steps change no announcement and start no call but by a response.
LEMMA EventsFitStep ==
    ASSUME IInv, EventsFit, [Next]_vars
    PROVE  EventsFit'
<1>1. ASSUME NEW l \in Loops, SetupReply(l) PROVE EventsFit'
  <2>1. UNCHANGED <<call, item, sub>>
    BY <1>1 DEF SetupReply, Opened, Connected, ConnectFails, CompactDone, Booted, events
  <2>2. pc[Root] = "tools" => pc'[Root] = "tools"
    BY <1>1 DEF SetupReply, Opened, Connected, ConnectFails, CompactDone, Booted, BootOrTurn,
                EnterTry, TopOfTurn, Leave, IInv, TypeOK, Loops, loop
  <2> QED
    BY <2>1, <2>2 DEF EventsFit, Open
<1>2. ASSUME NEW l \in Loops, MagReply(l) PROVE EventsFit'
  <2>1. CASE InferenceFails(l)
    BY <2>1 DEF InferenceFails, Leave, EventsFit, Open, IInv, TypeOK, events
  <2>2. ASSUME NEW kind \in Kinds, NEW empty \in BOOLEAN, MagText(l, kind, empty)
        PROVE  EventsFit'
    BY <2>2, SessionAssumption DEF MagText, Leave, EventsFit, Open, IInv, TypeOK, Loops
  <2>3. ASSUME NEW kind \in Kinds, NEW issued \in SUBSET Slots(l), MagCalls(l, kind, issued)
        PROVE  EventsFit'
    BY <2>3 DEF MagCalls, Slots, EventsFit, Open, IInv, TypeOK, events
  <2> QED
    BY <1>2, <2>1, <2>2, <2>3 DEF MagReply
<1>3. ASSUME NEW c \in Calls, CallStep(c) \/ ToolReply(c) PROVE EventsFit'
  <2>1. ASSUME NEW from \in {"ready", "command"}, Raises(c, from) PROVE EventsFit'
    BY <2>1 DEF Raises, EventsFit, Open, IInv, TypeOK, events
  <2>2. CASE Acquire(c)
    <3>1. Enter(c) /\ pc[c] # "tools" /\ call[c] = "waitsem"
      BY <2>2, BeginEnters DEF Acquire, IInv, LoopInCall, Loops
    <3>2. pc[Root] = "tools" => pc'[Root] = "tools"
      BY <3>1, EnterKeepsGather DEF Loops
    <3> QED
      BY <2>2, <3>1, <3>2 DEF Acquire, EventsFit, Open, IInv, TypeOK, events
  <2> QED
    BY <1>3, <2>1, <2>2, EventsFitStart, EventsFitReturn DEF CallStep, ToolReply
<1>4. CASE CreateNonstream \/ DriverStart
  <2>1. Enter(Root)
    BY <1>4, BeginEnters DEF CreateNonstream, DriverStart, IInv, Loops
  <2>2. pc[Root] = "idle"
    BY <1>4 DEF CreateNonstream, DriverStart, IInv, PhaseFits
  <2> QED
    BY <1>4, <2>2 DEF CreateNonstream, DriverStart, EventsFit, Open, events
<1>5. CASE Disconnect
  BY <1>5 DEF Disconnect, Started, Slots, Leave, EventsFit, Open, IInv, TypeOK, events
<1>6. CASE CreateStream \/ Delta \/ Cancel \/ UNCHANGED vars
  BY <1>6 DEF CreateStream, Delta, Cancel, vars, EventsFit, Open, loop, events
<1> QED
  BY <1>1, <1>2, <1>3, <1>4, <1>5, <1>6, EventsFitLoop DEF Next

-----------------------------------------------------------------------------
(* The simulation                                                          *)

\* Only the driver moves the phase of a turn.
PhaseMoves == CreateNonstream \/ DriverStart \/ RootReturns

\* A step that settles nothing and announces nothing is invisible to the client
\* while the turn goes on or is over.
Invisible == Open' = Open /\ phase' = phase

\* A call of the root loop is announced while the turn runs; what the loops of
\* subagents do is not announced.
LEMMA StartIsAnnounced ==
    ASSUME IInv, EventsFit, ~NestedSubagents, NEW c \in Calls,
           StartSubagent(c) \/ \E tool \in {"command", "mcp"} : StartTool(c, tool)
    PROVE  Contract!Announce(c) \/ Invisible
<1>1. c \notin Open /\ phase' = phase
  BY DEF IInv, IdleIsQuiet, Open, StartSubagent, StartTool, session
<1>2. CASE Issuer[c] = Root
  <2>1. phase = "running"
    BY <1>2 DEF EventsFit, IInv, PhaseFits, StartSubagent, StartTool
  <2>2. Open' = Open \cup {c}
    BY <1>2 DEF StartSubagent, StartTool, Announce, Open, IInv, TypeOK, Loops
  <2> QED
    BY <1>1, <2>1, <2>2 DEF Contract!Announce, Open
<1>3. CASE Issuer[c] # Root
  <2>1. UNCHANGED <<item, sub>>
    BY <1>3 DEF StartSubagent, StartTool, Announce
  <2> QED
    BY <1>1, <2>1 DEF Invisible, Open
<1> QED
  BY <1>2, <1>3

\* The end of a call settles what it announced, whenever it comes; a call that
\* does not return leaves it open.
LEMMA ReturnIsSettled ==
    ASSUME IInv, EventsFit, NEW c \in Calls, ToolDone(c) \/ SubReturns(c)
    PROVE  Contract!Settle(c) \/ Invisible
<1>1. phase' = phase
  BY DEF ToolDone, SubReturns, session
<1>2. Open' = Open \ {c} \/ Open' = Open
  <2>1. CASE ToolDone(c)
    BY <2>1 DEF ToolDone, Announce, EventsFit, Open, IInv, TypeOK, Loops
  <2>2. CASE SubReturns(c)
    <3>1. item[c] # "added"
      BY <2>2 DEF SubReturns, EventsFit, IInv, LoopInCall
    <3> QED
      BY <2>2, <3>1 DEF SubReturns, Open, IInv, TypeOK
  <2> QED
    BY <2>1, <2>2
<1>3. CASE Open' # Open
  <2>1. c \in Open /\ Open' = Open \ {c}
    BY <1>2, <1>3
  <2> QED
    BY <1>1, <2>1 DEF Contract!Settle, Open
<1> QED
  BY <1>1, <1>3 DEF Invisible

\* The driver ends a running turn once, and as completed only when nothing the
\* turn announced is open.
LEMMA DriverKeepsContract ==
    ASSUME IInv, CompletedTurnIsSettled', PhaseMoves
    PROVE  Contract!Start \/ Contract!Complete \/ Contract!Abort
<1>1. UNCHANGED <<item, sub>>
  BY DEF PhaseMoves, CreateNonstream, DriverStart, RootReturns, events
<1>2. Open' = Open
  BY <1>1 DEF Open
<1>3. CASE CreateNonstream \/ DriverStart
  <2>1. phase = "none" /\ phase' = "running"
    BY <1>3 DEF CreateNonstream, DriverStart, IInv, PhaseFits
  <2> QED
    BY <1>2, <2>1 DEF Contract!Start, Open
<1>4. CASE RootReturns
  <2>1. phase = "running" /\ phase' \in Contract!Ends
    BY <1>4 DEF RootReturns, TurnEnd, IInv, PhaseFits, Contract!Ends
  <2>2. CASE phase' = "completed"
    <3>1. Open = {}
      BY <1>2, <2>2 DEF CompletedTurnIsSettled, Open
    <3> QED
      BY <1>2, <2>1, <2>2, <3>1 DEF Contract!Complete, Open
  <2>3. CASE phase' # "completed"
    BY <1>2, <2>1, <2>3 DEF Contract!Abort, Open
  <2> QED
    BY <2>2, <2>3
<1> QED
  BY <1>3, <1>4 DEF PhaseMoves

-----------------------------------------------------------------------------
(* The theorem                                                             *)

\* Every step of the session is a step of the contract or invisible.
LEMMA StepKeepsContract ==
    ASSUME IInv, CompletedTurnIsSettled', EventsFit, ~NestedSubagents, [Next]_vars
    PROVE  [Contract!Next]_<<Open, phase>>
<1>1. ASSUME NEW c \in Calls, CallStep(c) \/ ToolReply(c)
      PROVE  Contract!Announce(c) \/ Contract!Settle(c) \/ Invisible
  <2>1. CASE StartSubagent(c) \/ \E tool \in {"command", "mcp"} : StartTool(c, tool)
    BY <2>1, StartIsAnnounced
  <2>2. CASE ToolDone(c) \/ SubReturns(c)
    BY <2>2, ReturnIsSettled
  <2>3. CASE FunctionCall(c) \/ Acquire(c) \/ \E from \in {"ready", "command"} : Raises(c, from)
    BY <2>3 DEF FunctionCall, Acquire, Raises, Invisible, Open, session, events
  <2> QED
    BY <1>1, <2>1, <2>2, <2>3 DEF CallStep, ToolReply
<1>2. ASSUME NEW l \in Loops, SetupReply(l) \/ MagReply(l)
      PROVE  Invisible
  BY <1>2, SessionAssumption
     DEF SetupReply, MagReply, Opened, Connected, ConnectFails, InferenceFails, CompactDone,
         Booted, MagText, MagCalls, Invisible, Open, IInv, TypeOK, Loops, session, events
<1>3. ASSUME NEW l \in Loops, LoopStep(l), ~PhaseMoves
      PROVE  Invisible
  <2>1. CASE ToolsDone(l)
    <3>1. \A c \in Slots(l) : c \notin Open
      BY <2>1 DEF ToolsDone, AllReturned, EventsFit, IInv, IdleIsQuiet, Open, Slots
    <3> QED
      BY <2>1, <3>1 DEF ToolsDone, Invisible, Open, Loops, session
  <2>2. CASE ToolsRaise(l) \/ GuardCancelled(l)
    BY <2>2 DEF ToolsRaise, GuardCancelled, Invisible, Open, session, events
  <2> QED
    BY <1>3, <2>1, <2>2 DEF LoopStep, PhaseMoves
<1>4. CASE CreateStream \/ Delta \/ Cancel \/ Disconnect \/ UNCHANGED vars
  BY <1>4 DEF CreateStream, Delta, Cancel, Disconnect, vars, Invisible, Open, session, events
<1>5. CASE PhaseMoves
  BY <1>5, DriverKeepsContract DEF Contract!Next
<1>6. CASE Invisible
  BY <1>6 DEF Invisible
<1> QED
  BY <1>1, <1>2, <1>3, <1>4, <1>5, <1>6 DEF Next, PhaseMoves, Contract!Next

\* Work that a session announces is settled before turn.completed, nothing is
\* announced after the turn ended, and it ends once: the session implements
\* TurnContract when no subagent calls run_subagent, which it is not offered.
THEOREM ContractKept ==
    ASSUME ~NestedSubagents
    PROVE  Spec => KeepsContract
<1>1. Init => EventsFit
  BY DEF Init, EventsFit, Open, Loops
<1>2. IInv /\ EventsFit /\ [Next]_vars => EventsFit'
  BY EventsFitStep
<1>3. Init => Contract!Init
  BY DEF Init, Contract!Init, Loops
<1>4. IInv /\ CompletedTurnIsSettled' /\ EventsFit /\ [Next]_vars
        => [Contract!Next]_<<Open, phase>>
  BY StepKeepsContract
<1> QED
  BY <1>1, <1>2, <1>3, <1>4, Invariance, CompletionSettles, PTL DEF Spec, KeepsContract, Contract!Spec, Open

=============================================================================
