------------------------- MODULE AgentSessionProofs -------------------------
(***************************************************************************)
(* The safety properties of a session for any calls, turns, permits and    *)
(* tools: an inductive invariant, and what follows from it.                *)
(***************************************************************************)
EXTENDS AgentSessionProperties, FiniteSetTheorems, TLAPS

Outcomes == {"none", "Cancelled", "error"} \cup Unclosed \cup Answered
CallStates == {"idle", "ready", "ok", "cancelled"} \cup Running \cup Raised

\* A subagent's loop runs exactly while its call holds a permit.
LoopInCall ==
    \A c \in Calls : /\ pc[c] # "idle" <=> call[c] = "sub"
                     /\ pc[c] \notin {"boot", "done"}

\* A loop has an outcome only when it is leaving, or in a gather that raised.
OutcomeFits ==
    \A l \in Loops :
        /\ pc[l] \in {"idle", "connect", "boot", "inference", "compact"} => outcome[l] = "none"
        /\ pc[l] = "tools" => outcome[l] \in {"none", "Cancelled", "error"}

\* The phase of the turn follows the root loop.
PhaseFits ==
    /\ mode = "none" => phase = "none"
    /\ phase = "none" <=> pc[Root] = "idle"
    /\ phase = "running" <=> pc[Root] \notin {"idle", "done"}
    /\ pc[Root] = "done" => phase = TurnEnd(outcome[Root])

\* A place no call occupies has announced nothing.
IdleIsQuiet ==
    \A c \in Calls : call[c] \in {"idle", "ready"} => item[c] = "none" /\ sub[c] = "none"

\* The assistant message is announced when the root loop is left with a text, and only
\* then; a loop that used up its turns is at the last of them.
AnswerFits ==
    /\ pc[Root] \notin {"unwind", "done"} => item[Root] = "none"
    /\ outcome[Root] = "text" => item[Root] = "done" /\ part # "open"
    /\ outcome[Root] = "max_turns" => item[Root] = "none" /\ turn[Root] + 1 >= MaxTurns

IInv ==
    /\ TypeOK
    /\ LoopInCall
    /\ OutcomeFits
    /\ PhaseFits
    /\ IdleIsQuiet
    /\ NoStrayCalls
    /\ HandlesHaveOwners
    /\ SemaphoreConserved
    /\ AnswerFits

\* What a loop does that is entered or that comes to the head of a turn.
Heads == {"connect", "boot", "inference", "compact", "unwind"}

EnterAs(l, p, o) ==
    /\ pc' = [pc EXCEPT ![l] = p]
    /\ outcome' = [outcome EXCEPT ![l] = o]
    /\ turn' \in [Loops -> 0..MaxTurns]
    /\ \A k \in Loops : k # l => turn'[k] = turn[k]
    /\ p = "boot" => l = Root
    /\ IF p = "unwind" THEN o \in {"max_turns", "Cancelled", "early"} ELSE o = outcome[l]
    /\ p = "unwind" /\ o = "max_turns" => turn'[l] + 1 >= MaxTurns

Enter(l) == \E p \in Heads, o \in Outcomes : EnterAs(l, p, o)

\* The head of a turn enters the inference, or leaves the loop with its answer
\* or cancelled.
LEMMA TopEnters ==
    ASSUME TypeOK, NEW l \in Loops, NEW t \in Nat, t <= turn[l] + 1, TopOfTurn(l, t)
    PROVE  Enter(l)
<1>0. MaxTurns \in Nat
  BY SessionAssumption
<1>1. CASE t >= MaxTurns
  <2>1. /\ pc' = [pc EXCEPT ![l] = "unwind"]
        /\ outcome' = [outcome EXCEPT ![l] = "max_turns"]
        /\ turn' = turn
    BY <1>0, <1>1 DEF TopOfTurn, Leave
  <2>2. turn'[l] + 1 >= MaxTurns
    BY <1>0, <1>1, <2>1 DEF TypeOK
  <2> QED
    BY <2>1, <2>2 DEF Enter, EnterAs, Heads, TypeOK, Outcomes, Answered
<1>2. CASE t < MaxTurns
  <2>1. turn' \in [Loops -> 0..MaxTurns] /\ \A k \in Loops : k # l => turn'[k] = turn[k]
    BY <1>0, <1>2 DEF TopOfTurn, TypeOK
  <2>2. CASE cancel
    <3>1. /\ pc' = [pc EXCEPT ![l] = "unwind"]
          /\ outcome' = [outcome EXCEPT ![l] = "Cancelled"]
      BY <1>0, <1>2, <2>2 DEF TopOfTurn, Leave
    <3>2. EnterAs(l, "unwind", "Cancelled")
      BY <2>1, <3>1 DEF EnterAs
    <3> QED
      BY <3>2 DEF Enter, Heads, Outcomes
  <2>3. CASE ~cancel
    <3>1. pc' = [pc EXCEPT ![l] = "inference"] /\ outcome' = outcome
      BY <1>0, <1>2, <2>3 DEF TopOfTurn
    <3>2. outcome' = [outcome EXCEPT ![l] = outcome[l]] /\ outcome[l] \in Outcomes
      BY <3>1 DEF TypeOK, Outcomes
    <3> QED
      BY <2>1, <3>1, <3>2 DEF Enter, EnterAs, Heads
  <2> QED
    BY <2>2, <2>3
<1> QED
  BY <1>0, <1>1, <1>2

\* The way into the try block is the head of the first turn, or an error.
LEMMA TryEnters ==
    ASSUME TypeOK, NEW l \in Loops, EnterTry(l)
    PROVE  Enter(l)
<1>1. CASE TopOfTurn(l, 0)
  <2>1. 0 \in Nat /\ 0 <= turn[l] + 1
    BY SessionAssumption DEF TypeOK
  <2> QED
    BY <1>1, <2>1, TopEnters
<1>2. CASE l = Root /\ Leave(l, "early") /\ UNCHANGED turn
  <2>1. EnterAs(l, "unwind", "early")
    BY <1>2 DEF Leave, EnterAs, TypeOK
  <2> QED
    BY <2>1 DEF Enter, Heads, Outcomes, Unclosed, BeforeTry
<1> QED
  BY <1>1, <1>2 DEF EnterTry

\* So does the code before it, except that the root loop may boot MCP servers.
LEMMA BootOrTurnEnters ==
    ASSUME TypeOK, NEW l \in Loops, BootOrTurn(l)
    PROVE  Enter(l)
<1>1. CASE l = Root /\ McpEnabled
  <2>1. pc' = [pc EXCEPT ![l] = "boot"] /\ turn' = turn /\ outcome' = outcome
    BY <1>1 DEF BootOrTurn
  <2>2. outcome' = [outcome EXCEPT ![l] = outcome[l]] /\ outcome[l] \in Outcomes
    BY <2>1 DEF TypeOK, Outcomes
  <2> QED
    BY <1>1, <2>1, <2>2 DEF Enter, EnterAs, Heads, TypeOK
<1>2. CASE ~(l = Root /\ McpEnabled)
  BY <1>2, TryEnters DEF BootOrTurn
<1> QED
  BY <1>1, <1>2

\* And so does the entry of _run_loop, except that it may connect to the exec-
\* server.
LEMMA BeginEnters ==
    ASSUME TypeOK, NEW l \in Loops, Begin(l)
    PROVE  Enter(l)
<1>1. CASE SandboxEnabled
  <2>1. pc' = [pc EXCEPT ![l] = "connect"] /\ turn' = turn /\ outcome' = outcome
    BY <1>1 DEF Begin
  <2>2. outcome' = [outcome EXCEPT ![l] = outcome[l]] /\ outcome[l] \in Outcomes
    BY <2>1 DEF TypeOK, Outcomes
  <2> QED
    BY <2>1, <2>2 DEF Enter, EnterAs, Heads, TypeOK
<1>2. CASE ~SandboxEnabled
  BY <1>2, BootOrTurnEnters DEF Begin
<1> QED
  BY <1>1, <1>2

\* A loop that is left has closed its connection, unless it was interrupted or never
\* got into its try block.
LEMMA CloseFacts ==
    ASSUME TypeOK, NEW l \in Loops, Close(l)
    PROVE  /\ sandbox' \in [Loops -> BOOLEAN]
           /\ sandbox'[l] => outcome[l] \in Unclosed
           /\ \A k \in Loops : k # l => sandbox'[k] = sandbox[k]
<1>1. CASE sandbox' = [sandbox EXCEPT ![l] = FALSE]
  BY <1>1 DEF TypeOK
<1>2. CASE outcome[l] \in Unclosed /\ UNCHANGED sandbox
  BY <1>2 DEF TypeOK
<1> QED
  BY <1>1, <1>2 DEF Close

\* A streamed request creates the session and starts nothing yet.
LEMMA CreateStreamStep ==
    ASSUME IInv, CreateStream
    PROVE  IInv'
<1>1. TypeOK'
  BY DEF IInv, CreateStream, TypeOK, session, loop, handles, events
<1>2. LoopInCall'
  BY DEF IInv, LoopInCall, CreateStream, loop
<1>3. OutcomeFits'
  BY DEF IInv, OutcomeFits, CreateStream, loop
<1>4. PhaseFits'
  BY DEF IInv, PhaseFits, CreateStream, loop
<1>5. IdleIsQuiet'
  BY DEF IInv, IdleIsQuiet, CreateStream, events
<1>6. NoStrayCalls'
  BY DEF IInv, NoStrayCalls, Calm, CreateStream, loop
<1>7. HandlesHaveOwners'
  BY DEF IInv, HandlesHaveOwners, CreateStream, loop, handles
<1>8. SemaphoreConserved'
  BY DEF IInv, SemaphoreConserved, Holders, CreateStream
<1>9. AnswerFits'
  BY SessionAssumption DEF IInv, TypeOK, OutcomeFits, AnswerFits, CreateStream, Loops,
     session, loop, handles, events
<1> QED
  BY <1>1, <1>2, <1>3, <1>4, <1>5, <1>6, <1>7, <1>8, <1>9 DEF IInv

\* The driver stores the session in progress and enters the root loop.
LEMMA DriverStartStep ==
    ASSUME IInv, DriverStart
    PROVE  IInv'
<1>a. Enter(Root)
  BY BeginEnters DEF IInv, Loops, DriverStart
<1>b. PICK p \in Heads, o \in Outcomes : EnterAs(Root, p, o)
  BY <1>a DEF Enter
<1>c. pc[Root] = "idle" /\ outcome[Root] = "none"
  BY DEF IInv, PhaseFits, OutcomeFits, DriverStart, Loops
<1>1. TypeOK'
  BY <1>b DEF EnterAs, Heads, Outcomes, IInv, DriverStart, TypeOK, session, loop,
     handles, events
<1>2. LoopInCall'
  BY <1>b, SessionAssumption DEF EnterAs, IInv, LoopInCall, DriverStart
<1>3. OutcomeFits'
  BY <1>b, <1>c DEF EnterAs, IInv, OutcomeFits, TypeOK
<1>4. PhaseFits'
  BY <1>b DEF EnterAs, Heads, IInv, PhaseFits, DriverStart, TypeOK, Loops
<1>5. IdleIsQuiet'
  BY DEF IInv, IdleIsQuiet, DriverStart, events
<1>6. NoStrayCalls'
  BY <1>b, <1>c, SessionAssumption DEF EnterAs, IInv, NoStrayCalls, Calm, DriverStart, Slots
<1>7. HandlesHaveOwners'
  BY <1>b, <1>c DEF EnterAs, IInv, HandlesHaveOwners, DriverStart, TypeOK, Unclosed,
     BeforeTry, handles
<1>8. SemaphoreConserved'
  BY DEF IInv, SemaphoreConserved, Holders, DriverStart
<1>9. AnswerFits'
  BY <1>b, <1>c, SessionAssumption DEF EnterAs, Heads, IInv, TypeOK, OutcomeFits, AnswerFits,
     DriverStart, Loops, session, loop, handles, events
<1> QED
  BY <1>1, <1>2, <1>3, <1>4, <1>5, <1>6, <1>7, <1>8, <1>9 DEF IInv

\* A plain request stores the session and enters the root loop at once.
LEMMA CreateNonstreamStep ==
    ASSUME IInv, CreateNonstream
    PROVE  IInv'
<1>a. Enter(Root)
  BY BeginEnters DEF IInv, Loops, CreateNonstream
<1>b. PICK p \in Heads, o \in Outcomes : EnterAs(Root, p, o)
  BY <1>a DEF Enter
<1>c. pc[Root] = "idle" /\ outcome[Root] = "none"
  BY DEF IInv, PhaseFits, OutcomeFits, CreateNonstream, Loops
<1>1. TypeOK'
  BY <1>b DEF EnterAs, Heads, Outcomes, IInv, CreateNonstream, TypeOK, session,
     loop, handles, events
<1>2. LoopInCall'
  BY <1>b, SessionAssumption DEF EnterAs, IInv, LoopInCall, CreateNonstream
<1>3. OutcomeFits'
  BY <1>b, <1>c DEF EnterAs, IInv, OutcomeFits, TypeOK
<1>4. PhaseFits'
  BY <1>b DEF EnterAs, Heads, IInv, PhaseFits, CreateNonstream, TypeOK, Loops
<1>5. IdleIsQuiet'
  BY DEF IInv, IdleIsQuiet, CreateNonstream, events
<1>6. NoStrayCalls'
  BY <1>b, <1>c, SessionAssumption DEF EnterAs, IInv, NoStrayCalls, Calm,
     CreateNonstream, Slots
<1>7. HandlesHaveOwners'
  BY <1>b DEF EnterAs, Heads, IInv, HandlesHaveOwners, CreateNonstream, TypeOK, handles
<1>8. SemaphoreConserved'
  BY DEF IInv, SemaphoreConserved, Holders, CreateNonstream
<1>9. AnswerFits'
  BY <1>b, <1>c, SessionAssumption DEF EnterAs, Heads, IInv, TypeOK, OutcomeFits, AnswerFits,
     CreateNonstream, Loops, session, loop, handles, events
<1> QED
  BY <1>1, <1>2, <1>3, <1>4, <1>5, <1>6, <1>7, <1>8, <1>9 DEF IInv

\* A connection is opened for a loop that is running.
LEMMA OpenedStep ==
    ASSUME IInv, NEW l \in Loops, Opened(l)
    PROVE  IInv'
<1>1. TypeOK'
  BY DEF IInv, Opened, TypeOK, session, loop, events
<1>2. LoopInCall'
  BY DEF IInv, LoopInCall, Opened, loop
<1>3. OutcomeFits'
  BY DEF IInv, OutcomeFits, Opened, loop
<1>4. PhaseFits'
  BY DEF IInv, PhaseFits, Opened, session, loop
<1>5. IdleIsQuiet'
  BY DEF IInv, IdleIsQuiet, Opened, events
<1>6. NoStrayCalls'
  BY DEF IInv, NoStrayCalls, Calm, Opened, loop
<1>7. HandlesHaveOwners'
  BY DEF IInv, HandlesHaveOwners, Opened, TypeOK, session, loop
<1>8. SemaphoreConserved'
  BY DEF IInv, SemaphoreConserved, Holders, Opened
<1>9. AnswerFits'
  BY SessionAssumption DEF IInv, TypeOK, OutcomeFits, AnswerFits, Opened, Loops,
     session, loop, handles, events
<1> QED
  BY <1>1, <1>2, <1>3, <1>4, <1>5, <1>6, <1>7, <1>8, <1>9 DEF IInv

\* The exec-server has answered: MCP servers are booted, or the try block is entered.
LEMMA ConnectedStep ==
    ASSUME IInv, NEW l \in Loops, Connected(l)
    PROVE  IInv'
<1>a. Enter(l)
  BY BootOrTurnEnters DEF IInv, Connected
<1>b. PICK p \in Heads, o \in Outcomes : EnterAs(l, p, o)
  BY <1>a DEF Enter
<1>1. TypeOK'
  BY <1>b DEF EnterAs, Heads, Outcomes, IInv, Connected, TypeOK, session, loop,
     handles, events
<1>2. LoopInCall'
  BY <1>b, SessionAssumption DEF EnterAs, Heads, IInv, LoopInCall, Connected
<1>3. OutcomeFits'
  BY <1>b DEF EnterAs, IInv, OutcomeFits, Connected, TypeOK
<1>4. PhaseFits'
  BY <1>b DEF EnterAs, Heads, IInv, PhaseFits, Connected, session
<1>5. IdleIsQuiet'
  BY DEF IInv, IdleIsQuiet, Connected, loop, handles, events
<1>6. NoStrayCalls'
  BY <1>b DEF EnterAs, IInv, OutcomeFits, NoStrayCalls, Calm, Connected
<1>7. HandlesHaveOwners'
  BY <1>b, SessionAssumption DEF EnterAs, Heads, IInv, PhaseFits, OutcomeFits,
     HandlesHaveOwners, Connected, TypeOK, Loops, session, handles
<1>8. SemaphoreConserved'
  BY DEF IInv, SemaphoreConserved, Holders, Connected
<1>9. AnswerFits'
  BY <1>b, SessionAssumption DEF EnterAs, Heads, IInv, TypeOK, OutcomeFits, AnswerFits,
     Connected, Loops, session, loop, handles, events
<1> QED
  BY <1>1, <1>2, <1>3, <1>4, <1>5, <1>6, <1>7, <1>8, <1>9 DEF IInv

\* A failed connect makes its loop leave before the try block.
LEMMA ConnectFailsStep ==
    ASSUME IInv, NEW l \in Loops, ConnectFails(l)
    PROVE  IInv'
<1>1. TypeOK'
  BY DEF IInv, ConnectFails, Leave, TypeOK, Unclosed, BeforeTry, session, handles, events
<1>2. LoopInCall'
  BY DEF IInv, LoopInCall, ConnectFails, Leave
<1>3. OutcomeFits'
  BY DEF IInv, OutcomeFits, ConnectFails, Leave, TypeOK
<1>4. PhaseFits'
  BY DEF IInv, PhaseFits, ConnectFails, Leave, session
<1>5. IdleIsQuiet'
  BY DEF IInv, IdleIsQuiet, ConnectFails, events
<1>6. NoStrayCalls'
  BY DEF IInv, OutcomeFits, NoStrayCalls, Calm, ConnectFails, Leave
<1>7. HandlesHaveOwners'
  BY SessionAssumption DEF IInv, PhaseFits, HandlesHaveOwners, ConnectFails, Leave, TypeOK,
     Loops, session, handles
<1>8. SemaphoreConserved'
  BY DEF IInv, SemaphoreConserved, Holders, ConnectFails
<1>9. AnswerFits'
  BY SessionAssumption DEF IInv, TypeOK, OutcomeFits, AnswerFits, ConnectFails, Loops,
     session, loop, handles, events, Leave
<1> QED
  BY <1>1, <1>2, <1>3, <1>4, <1>5, <1>6, <1>7, <1>8, <1>9 DEF IInv

\* A failed inference makes its loop leave with an error.
LEMMA InferenceFailsStep ==
    ASSUME IInv, NEW l \in Loops, InferenceFails(l)
    PROVE  IInv'
<1>1. TypeOK'
  BY DEF IInv, InferenceFails, Leave, TypeOK, session, loop, handles, events
<1>2. LoopInCall'
  BY DEF IInv, LoopInCall, InferenceFails, Leave
<1>3. OutcomeFits'
  BY DEF IInv, OutcomeFits, InferenceFails, Leave, TypeOK
<1>4. PhaseFits'
  BY DEF IInv, PhaseFits, InferenceFails, Leave, session
<1>5. IdleIsQuiet'
  BY DEF IInv, IdleIsQuiet, InferenceFails, events
<1>6. NoStrayCalls'
  BY DEF IInv, OutcomeFits, NoStrayCalls, Calm, InferenceFails, Leave
<1>7. HandlesHaveOwners'
  BY SessionAssumption DEF IInv, PhaseFits, HandlesHaveOwners, InferenceFails, Leave, TypeOK,
     Loops, session, handles
<1>8. SemaphoreConserved'
  BY DEF IInv, SemaphoreConserved, Holders, InferenceFails
<1>9. AnswerFits'
  BY SessionAssumption DEF IInv, TypeOK, OutcomeFits, AnswerFits, InferenceFails, Loops,
     session, loop, handles, events, Leave
<1> QED
  BY <1>1, <1>2, <1>3, <1>4, <1>5, <1>6, <1>7, <1>8, <1>9 DEF IInv

\* MCP servers come up in the root loop of a running turn.
LEMMA BootedStep ==
    ASSUME IInv, Booted
    PROVE  IInv'
<1>a. Enter(Root)
  BY TryEnters DEF IInv, Loops, Booted
<1>b. PICK p \in Heads, o \in Outcomes : EnterAs(Root, p, o)
  BY <1>a DEF Enter
<1>c. phase = "running"
  BY DEF IInv, PhaseFits, Booted
<1>1. TypeOK'
  <2>1. mcp' \subseteq {"kept", "stray"}
    BY DEF Booted, BootSoFar
  <2> QED
    BY <1>b, <2>1 DEF EnterAs, Heads, Outcomes, IInv, Booted, TypeOK, Loops, session, events
<1>2. LoopInCall'
  BY <1>b DEF EnterAs, IInv, LoopInCall, Booted
<1>3. OutcomeFits'
  BY <1>b DEF EnterAs, IInv, OutcomeFits, Booted, TypeOK
<1>4. PhaseFits'
  BY <1>b DEF EnterAs, Heads, IInv, PhaseFits, Booted, session
<1>5. IdleIsQuiet'
  BY DEF IInv, IdleIsQuiet, Booted, loop, handles, events
<1>6. NoStrayCalls'
  BY <1>b DEF EnterAs, IInv, OutcomeFits, NoStrayCalls, Calm, Booted
<1>7. HandlesHaveOwners'
  BY <1>b, <1>c DEF EnterAs, Heads, IInv, HandlesHaveOwners, Booted, session
<1>8. SemaphoreConserved'
  BY DEF IInv, SemaphoreConserved, Holders, Booted
<1>9. AnswerFits'
  BY <1>b, SessionAssumption DEF EnterAs, Heads, IInv, TypeOK, OutcomeFits, AnswerFits,
     Booted, Loops, session, loop, handles, events
<1> QED
  BY <1>1, <1>2, <1>3, <1>4, <1>5, <1>6, <1>7, <1>8, <1>9 DEF IInv

\* Text deltas change the content part only.
LEMMA DeltaStep ==
    ASSUME IInv, Delta
    PROVE  IInv'
<1>1. TypeOK'
  BY DEF IInv, Delta, TypeOK, session, loop, handles, events
<1>2. LoopInCall'
  BY DEF IInv, LoopInCall, Delta, loop, events
<1>3. OutcomeFits'
  BY DEF IInv, OutcomeFits, Delta, loop, events
<1>4. PhaseFits'
  BY DEF IInv, PhaseFits, Delta, session, loop, events
<1>5. IdleIsQuiet'
  BY DEF IInv, IdleIsQuiet, Delta, events
<1>6. NoStrayCalls'
  BY DEF IInv, NoStrayCalls, Calm, Delta, loop, events
<1>7. HandlesHaveOwners'
  BY DEF IInv, HandlesHaveOwners, Delta, session, loop, handles, events
<1>8. SemaphoreConserved'
  BY DEF IInv, SemaphoreConserved, Holders, Delta, events
<1>9. AnswerFits'
  BY SessionAssumption DEF IInv, TypeOK, OutcomeFits, AnswerFits, Delta, Loops, session,
     loop, handles, events
<1> QED
  BY <1>1, <1>2, <1>3, <1>4, <1>5, <1>6, <1>7, <1>8, <1>9 DEF IInv

\* A final text makes its loop leave with an answer.
LEMMA MagTextStep ==
    ASSUME IInv, NEW l \in Loops, NEW kind \in Kinds, NEW empty \in BOOLEAN, MagText(l, kind, empty)
    PROVE  IInv'
<1>1. TypeOK'
  BY DEF IInv, MagText, Response, Leave, Kinds, TypeOK, Answered, session, loop,
     handles, events
<1>2. LoopInCall'
  BY DEF IInv, LoopInCall, MagText, Leave, events
<1>3. OutcomeFits'
  BY DEF IInv, OutcomeFits, MagText, Leave, TypeOK, events
<1>4. PhaseFits'
  BY DEF IInv, PhaseFits, MagText, Leave, session, events
<1>5. IdleIsQuiet'
  BY SessionAssumption DEF IInv, IdleIsQuiet, MagText, TypeOK, Loops, events
<1>6. NoStrayCalls'
  BY DEF IInv, OutcomeFits, NoStrayCalls, Calm, MagText, Leave, events
<1>7. HandlesHaveOwners'
  BY SessionAssumption DEF IInv, PhaseFits, HandlesHaveOwners, MagText, Leave, TypeOK,
     Loops, session, handles
<1>8. SemaphoreConserved'
  BY DEF IInv, SemaphoreConserved, Holders, MagText, events
<1>9. AnswerFits'
  BY SessionAssumption DEF IInv, TypeOK, OutcomeFits, AnswerFits, MagText, Loops,
     session, loop, handles, events, Leave
<1> QED
  BY <1>1, <1>2, <1>3, <1>4, <1>5, <1>6, <1>7, <1>8, <1>9 DEF IInv

\* Dispatching calls puts their loop into a gather, where it is not calm.
LEMMA MagCallsStep ==
    ASSUME IInv, NEW l \in Loops, NEW kind \in Kinds, NEW issued \in SUBSET Slots(l), MagCalls(l, kind, issued)
    PROVE  IInv'
<1>a. \A c \in issued : c \in Slots(l) /\ call[c] = "idle" /\ pc[c] = "idle"
  BY DEF IInv, LoopInCall, OutcomeFits, NoStrayCalls, Calm, MagCalls, Raised
<1>1. TypeOK'
  BY DEF IInv, MagCalls, Response, Kinds, TypeOK, session, loop, handles, events
<1>2. LoopInCall'
  BY <1>a DEF IInv, LoopInCall, MagCalls
<1>3. OutcomeFits'
  BY DEF IInv, OutcomeFits, MagCalls
<1>4. PhaseFits'
  BY DEF IInv, PhaseFits, MagCalls, session
<1>5. IdleIsQuiet'
  BY <1>a DEF IInv, IdleIsQuiet, MagCalls, events
<1>6. NoStrayCalls'
  BY <1>a DEF IInv, NoStrayCalls, Calm, MagCalls, TypeOK, Raised, Slots
<1>7. HandlesHaveOwners'
  BY <1>a DEF IInv, HandlesHaveOwners, MagCalls, Loops, session, handles
<1>8. SemaphoreConserved'
  BY <1>a DEF IInv, SemaphoreConserved, Holders, MagCalls, Loops, session, handles
<1>9. AnswerFits'
  BY SessionAssumption DEF IInv, TypeOK, OutcomeFits, AnswerFits, MagCalls, Loops,
     session, loop, handles, events
<1> QED
  BY <1>1, <1>2, <1>3, <1>4, <1>5, <1>6, <1>7, <1>8, <1>9 DEF IInv

\* A local function returns at once.
LEMMA FunctionCallStep ==
    ASSUME IInv, NEW c \in Calls, FunctionCall(c)
    PROVE  IInv'
<1>1. TypeOK'
  BY DEF IInv, FunctionCall, TypeOK, session, loop, handles, events
<1>2. LoopInCall'
  BY DEF IInv, LoopInCall, FunctionCall, loop
<1>3. OutcomeFits'
  BY DEF IInv, OutcomeFits, FunctionCall, loop
<1>4. PhaseFits'
  BY DEF IInv, PhaseFits, FunctionCall, session, loop
<1>5. IdleIsQuiet'
  BY DEF IInv, IdleIsQuiet, FunctionCall, events
<1>6. NoStrayCalls'
  BY DEF IInv, NoStrayCalls, Calm, FunctionCall, Raised, loop
<1>7. HandlesHaveOwners'
  BY DEF IInv, HandlesHaveOwners, FunctionCall, session, loop, handles
<1>8. SemaphoreConserved'
  BY DEF IInv, SemaphoreConserved, Holders, FunctionCall, session, loop, events
<1>9. AnswerFits'
  BY SessionAssumption DEF IInv, TypeOK, OutcomeFits, AnswerFits, FunctionCall, Loops,
     session, loop, handles, events
<1> QED
  BY <1>1, <1>2, <1>3, <1>4, <1>5, <1>6, <1>7, <1>8, <1>9 DEF IInv

\* A call that raises ends its gather or finds it ended.
LEMMA RaisesStep ==
    ASSUME IInv, NEW c \in Calls, NEW from \in {"ready", "command"}, Raises(c, from)
    PROVE  IInv'
<1>a. outcome' \in [Loops -> Outcomes]
  BY DEF Raises, GatherRaises, IInv, TypeOK, Outcomes
<1>1. TypeOK'
  BY <1>a DEF IInv, TypeOK, Raises, Outcomes, Raised, session, handles, events
<1>2. LoopInCall'
  BY DEF IInv, LoopInCall, Raises
<1>3. OutcomeFits'
  BY DEF IInv, OutcomeFits, Raises, GatherRaises
<1>4. PhaseFits'
  BY DEF IInv, PhaseFits, Raises, GatherRaises, session
<1>5. IdleIsQuiet'
  BY DEF IInv, IdleIsQuiet, Raises, events
<1>6. NoStrayCalls'
  BY DEF IInv, NoStrayCalls, Calm, Raises, GatherRaises, Raised
<1>7. HandlesHaveOwners'
  BY SessionAssumption DEF IInv, PhaseFits, HandlesHaveOwners, Raises, GatherRaises,
     TypeOK, Raised, Loops, session, handles
<1>8. SemaphoreConserved'
  BY DEF IInv, LoopInCall, SemaphoreConserved, Holders, Raises, session
<1>9. AnswerFits'
  BY SessionAssumption DEF IInv, TypeOK, OutcomeFits, AnswerFits, Raises, Loops,
     session, loop, handles, events, GatherRaises
<1> QED
  BY <1>1, <1>2, <1>3, <1>4, <1>5, <1>6, <1>7, <1>8, <1>9 DEF IInv

\* A command or MCP call is announced and runs.
LEMMA StartToolStep ==
    ASSUME IInv, NEW c \in Calls, NEW tool \in {"command", "mcp"}, StartTool(c, tool)
    PROVE  IInv'
<1>1. TypeOK'
  BY DEF IInv, StartTool, Announce, TypeOK, Running, Loops, session, loop,
     handles, events
<1>2. LoopInCall'
  BY DEF IInv, LoopInCall, StartTool, loop, events
<1>3. OutcomeFits'
  BY DEF IInv, OutcomeFits, StartTool, loop, events
<1>4. PhaseFits'
  BY DEF IInv, PhaseFits, StartTool, session, loop, events
<1>5. IdleIsQuiet'
  BY DEF IInv, IdleIsQuiet, StartTool, Announce, TypeOK, events
<1>6. NoStrayCalls'
  BY DEF IInv, NoStrayCalls, Calm, StartTool, Raised, loop, events
<1>7. HandlesHaveOwners'
  BY DEF IInv, HandlesHaveOwners, StartTool, session, loop, handles, events
<1>8. SemaphoreConserved'
  BY DEF IInv, SemaphoreConserved, Holders, StartTool, Loops, events
<1>9. AnswerFits'
  BY SessionAssumption DEF IInv, TypeOK, OutcomeFits, AnswerFits, StartTool, Loops,
     session, loop, handles, events, Announce
<1> QED
  BY <1>1, <1>2, <1>3, <1>4, <1>5, <1>6, <1>7, <1>8, <1>9 DEF IInv

\* A command or MCP call is answered.
LEMMA ToolDoneStep ==
    ASSUME IInv, NEW c \in Calls, ToolDone(c)
    PROVE  IInv'
<1>1. TypeOK'
  BY DEF IInv, ToolDone, Announce, TypeOK, Loops, session, loop, handles, events
<1>2. LoopInCall'
  BY DEF IInv, LoopInCall, ToolDone, loop, events
<1>3. OutcomeFits'
  BY DEF IInv, OutcomeFits, ToolDone, loop, events
<1>4. PhaseFits'
  BY DEF IInv, PhaseFits, ToolDone, session, loop, events
<1>5. IdleIsQuiet'
  BY DEF IInv, IdleIsQuiet, ToolDone, Announce, events
<1>6. NoStrayCalls'
  BY DEF IInv, NoStrayCalls, Calm, ToolDone, Raised, loop, events
<1>7. HandlesHaveOwners'
  BY DEF IInv, HandlesHaveOwners, ToolDone, session, loop, handles, events
<1>8. SemaphoreConserved'
  BY DEF IInv, SemaphoreConserved, Holders, ToolDone, Loops, session, events
<1>9. AnswerFits'
  BY SessionAssumption DEF IInv, TypeOK, OutcomeFits, AnswerFits, ToolDone, Loops,
     session, loop, handles, events, Announce
<1> QED
  BY <1>1, <1>2, <1>3, <1>4, <1>5, <1>6, <1>7, <1>8, <1>9 DEF IInv

\* A subagent is announced and waits for a permit.
LEMMA StartSubagentStep ==
    ASSUME IInv, NEW c \in Calls, StartSubagent(c)
    PROVE  IInv'
<1>1. TypeOK'
  BY DEF IInv, StartSubagent, TypeOK, Running, session, loop, handles, events
<1>2. LoopInCall'
  BY DEF IInv, LoopInCall, StartSubagent, loop, events
<1>3. OutcomeFits'
  BY DEF IInv, OutcomeFits, StartSubagent, loop, events
<1>4. PhaseFits'
  BY DEF IInv, PhaseFits, StartSubagent, session, loop, events
<1>5. IdleIsQuiet'
  BY DEF IInv, IdleIsQuiet, StartSubagent, TypeOK, events
<1>6. NoStrayCalls'
  BY DEF IInv, NoStrayCalls, Calm, StartSubagent, Raised, loop, events
<1>7. HandlesHaveOwners'
  BY DEF IInv, HandlesHaveOwners, StartSubagent, session, loop, handles, events
<1>8. SemaphoreConserved'
  BY TwoLevels DEF IInv, SemaphoreConserved, Holders, StartSubagent, loop, handles, events
<1>9. AnswerFits'
  BY SessionAssumption DEF IInv, TypeOK, OutcomeFits, AnswerFits, StartSubagent, Loops,
     session, loop, handles, events
<1> QED
  BY <1>1, <1>2, <1>3, <1>4, <1>5, <1>6, <1>7, <1>8, <1>9 DEF IInv

\* A permit moves from ctx.sem to a call whose subagent's loop starts.
LEMMA AcquireStep ==
    ASSUME IInv, NEW c \in Calls, Acquire(c)
    PROVE  IInv'
<1>a. Enter(c)
  BY BeginEnters DEF IInv, Loops, Acquire
<1>b. PICK p \in Heads, o \in Outcomes : EnterAs(c, p, o)
  BY <1>a DEF Enter
<1>c. IsFiniteSet(Holders) /\ c \notin Holders /\ Holders' = Holders \cup {c}
  BY SessionAssumption, FS_Subset DEF Holders, Acquire, IInv, TypeOK
<1>1. TypeOK'
  <2>1. sem' \in 0..MaxSubagents
    BY SessionAssumption DEF IInv, TypeOK, Acquire, TakePermit
  <2>2. /\ pc' \in [Loops -> {"idle", "connect", "boot", "inference", "tools",
                            "compact", "unwind", "done"}]
        /\ outcome' \in [Loops -> Outcomes]
    BY <1>b DEF IInv, TypeOK, EnterAs, Heads, Outcomes
  <2> QED
    BY <1>b, <2>1, <2>2 DEF IInv, TypeOK, EnterAs, Acquire, Outcomes, Running,
       session, handles, events
<1>2. LoopInCall'
  BY <1>b, SessionAssumption DEF EnterAs, Heads, IInv, LoopInCall, Acquire, TypeOK, Loops
<1>3. OutcomeFits'
  BY <1>b DEF EnterAs, IInv, LoopInCall, OutcomeFits, Acquire, TypeOK
<1>4. PhaseFits'
  BY <1>b, SessionAssumption DEF EnterAs, IInv, PhaseFits, Acquire, session
<1>5. IdleIsQuiet'
  BY DEF IInv, IdleIsQuiet, Acquire, events
<1>6. NoStrayCalls'
  BY <1>b DEF EnterAs, IInv, LoopInCall, OutcomeFits, NoStrayCalls, Calm, Acquire, Raised
<1>7. HandlesHaveOwners'
  BY <1>b, SessionAssumption DEF EnterAs, Heads, IInv, HandlesHaveOwners, Acquire, TypeOK,
     Loops, session, handles
<1>8. SemaphoreConserved'
  <2>1. Cardinality(Holders') = Cardinality(Holders) + 1
    BY <1>c, FS_AddElement
  <2>2. Cardinality(Holders) \in Nat
    BY <1>c, FS_CardinalityType
  <2> QED
    BY <2>1, <2>2 DEF IInv, TypeOK, SemaphoreConserved, Acquire, TakePermit
<1>9. AnswerFits'
  BY <1>b, SessionAssumption DEF EnterAs, Heads, IInv, TypeOK, OutcomeFits, AnswerFits,
     Acquire, Loops, session, loop, handles, events
<1> QED
  BY <1>1, <1>2, <1>3, <1>4, <1>5, <1>6, <1>7, <1>8, <1>9 DEF IInv

\* A subagent's loop is left, in whatever way: its permit moves back to
\* ctx.sem.
LEMMA SubReturnsStep ==
    ASSUME IInv, NEW c \in Calls, SubReturns(c)
    PROVE  IInv'
<1>a. call[c] = "sub" /\ Issuer[c] # c
  BY SessionAssumption, TwoLevels DEF IInv, LoopInCall, SubReturns
<1>b. CallEnd(outcome[c]) \in {"ok", "aborted", "cancelled", "failed", "early"}
  BY DEF CallEnd
<1>c. IsFiniteSet(Holders) /\ c \in Holders /\ Holders' = Holders \ {c}
  BY <1>a, <1>b, SessionAssumption, FS_Subset DEF Holders, SubReturns, IInv, TypeOK
<1>d. /\ Cardinality(Holders') = Cardinality(Holders) - 1
      /\ Cardinality(Holders') \in Nat /\ Cardinality(Holders) \in Nat
  BY <1>c, FS_RemoveElement, FS_CardinalityType
<1>e. /\ sandbox' \in [Loops -> BOOLEAN]
      /\ sandbox'[c] => outcome[c] \in Unclosed
      /\ \A l \in Loops : l # c => sandbox'[l] = sandbox[l]
  BY CloseFacts DEF SubReturns, IInv, Loops
<1>f. outcome' \in [Loops -> Outcomes]
  BY DEF SubReturns, IInv, TypeOK, Outcomes, Loops
<1>g. outcome[c] \in Unclosed => CallEnd(outcome[c]) \in {"early", "cancelled"}
  BY DEF CallEnd, Unclosed, BeforeTry, Answered
<1>1. TypeOK'
  <2>1. sem' \in 0..MaxSubagents
    BY <1>d DEF IInv, TypeOK, SemaphoreConserved, SubReturns, GiveBack
  <2>2. call' \in [Calls -> CallStates]
    BY <1>b DEF SubReturns, IInv, TypeOK, CallStates, Raised
  <2>3. sub' \in [Calls -> {"none", "active", "closed"}]
    BY DEF SubReturns, IInv, TypeOK
  <2>4. pc' \in [Loops -> {"idle", "connect", "boot", "inference", "tools",
                         "compact", "unwind", "done"}]
    BY DEF SubReturns, IInv, TypeOK
  <2>5. 0 \in 0..MaxTurns
    BY SessionAssumption
  <2>6. turn' \in [Loops -> 0..MaxTurns]
    BY <2>5 DEF SubReturns, IInv, TypeOK
  <2> QED
    BY <1>e, <2>1, <2>2, <2>6 DEF IInv, TypeOK, SubReturns, session, CallStates
<1>2. LoopInCall'
  BY DEF IInv, LoopInCall, SubReturns, CallEnd, TypeOK, Loops, loop, handles, events
<1>3. OutcomeFits'
  BY DEF IInv, OutcomeFits, SubReturns, CallEnd, TypeOK, Raised, Loops, loop, handles,
     events
<1>4. PhaseFits'
  BY SessionAssumption DEF IInv, PhaseFits, SubReturns, Loops, Slots, session, loop,
     handles, events
<1>5. IdleIsQuiet'
  BY DEF IInv, LoopInCall, IdleIsQuiet, SubReturns, CallEnd, loop, handles, events
<1>6. NoStrayCalls'
  BY DEF IInv, LoopInCall, NoStrayCalls, Calm, SubReturns, CallEnd, TypeOK, Raised,
     loop, handles, events
<1>7. HandlesHaveOwners'
  <2>1. ASSUME NEW l \in Loops, sandbox'[l]
        PROVE  pc'[l] \notin {"idle", "done"}
               \/ IF l = Root THEN outcome'[l] \in Unclosed
                              ELSE call'[l] \in {"early", "cancelled"}
    <3>1. CASE l = c
      <4>1. call'[c] = CallEnd(outcome[c]) /\ c # Root
        BY SessionAssumption DEF SubReturns, IInv, TypeOK
      <4> QED
        BY <1>e, <1>g, <2>1, <3>1, <4>1
    <3>2. CASE l # c
      <4>1. /\ sandbox'[l] = sandbox[l] /\ pc'[l] = pc[l]
            /\ l \in Calls => call'[l] = call[l]
            /\ pc[l] # "tools" => outcome'[l] = outcome[l]
        BY <1>e, <3>2 DEF SubReturns, IInv, TypeOK, Loops
      <4> QED
        BY <2>1, <4>1 DEF IInv, HandlesHaveOwners, Loops
    <3> QED
      BY <3>1, <3>2
  <2>2. "kept" \in mcp' => phase' = "running" \/ outcome'[Root] \in Unclosed
    BY SessionAssumption DEF IInv, HandlesHaveOwners, SubReturns, TypeOK, Loops, Raised,
       BeforeTry, Unclosed, session
  <2> QED
    BY <2>1, <2>2 DEF HandlesHaveOwners
<1>8. SemaphoreConserved'
  BY <1>d DEF IInv, TypeOK, SemaphoreConserved, SubReturns, GiveBack
<1>9. AnswerFits'
  BY SessionAssumption DEF IInv, TypeOK, OutcomeFits, AnswerFits, SubReturns, Loops,
     session, loop, handles, events
<1> QED
  BY <1>1, <1>2, <1>3, <1>4, <1>5, <1>6, <1>7, <1>8, <1>9 DEF IInv

\* The places of a gather are free again when all its calls returned.
LEMMA ToolsDoneStep ==
    ASSUME IInv, NEW l \in Loops, ToolsDone(l)
    PROVE  IInv'
<1>a. Enter(l)
  <2>1. CASE TopOfTurn(l, turn[l] + 1)
    BY <2>1, TopEnters DEF IInv, TypeOK
  <2>2. CASE pc' = [pc EXCEPT ![l] = "compact"] /\ turn' = turn /\ outcome' = outcome
    <3>1. EnterAs(l, "compact", outcome[l]) /\ outcome[l] \in Outcomes
      BY <2>2 DEF IInv, TypeOK, EnterAs, Outcomes
    <3> QED
      BY <3>1 DEF Enter, Heads
  <2> QED
    BY <2>1, <2>2 DEF ToolsDone
<1>b. PICK p \in Heads, o \in Outcomes : EnterAs(l, p, o)
  BY <1>a DEF Enter
<1>c. \A c \in Slots(l) : pc[c] = "idle" /\ call[c] # "sub"
  BY DEF IInv, LoopInCall, ToolsDone, AllReturned, Slots
<1>1. TypeOK'
  BY <1>b DEF EnterAs, Heads, Outcomes, IInv, ToolsDone, TypeOK, session, loop, handles,
     events
<1>2. LoopInCall'
  BY <1>b, <1>c, SessionAssumption DEF EnterAs, Heads, IInv, LoopInCall, ToolsDone, events
<1>3. OutcomeFits'
  BY <1>b DEF EnterAs, IInv, OutcomeFits, ToolsDone, TypeOK, events
<1>4. PhaseFits'
  BY <1>b DEF EnterAs, Heads, IInv, PhaseFits, ToolsDone, session, events
<1>5. IdleIsQuiet'
  BY DEF IInv, IdleIsQuiet, ToolsDone, Loops, events
<1>6. NoStrayCalls'
  BY <1>b, <1>c DEF EnterAs, IInv, NoStrayCalls, Calm, ToolsDone, AllReturned, Raised,
     Slots, events
<1>7. HandlesHaveOwners'
  BY <1>b, SessionAssumption DEF EnterAs, Heads, IInv, PhaseFits, HandlesHaveOwners,
     ToolsDone, AllReturned, TypeOK, Slots, Loops, session, handles
<1>8. SemaphoreConserved'
  <2>1. Holders' = Holders
    BY <1>c DEF Holders, ToolsDone
  <2> QED
    BY <2>1 DEF IInv, SemaphoreConserved, ToolsDone
<1>9. AnswerFits'
  BY <1>b, SessionAssumption DEF EnterAs, Heads, IInv, TypeOK, OutcomeFits, AnswerFits,
     ToolsDone, Slots, Loops, session, handles
<1> QED
  BY <1>1, <1>2, <1>3, <1>4, <1>5, <1>6, <1>7, <1>8, <1>9 DEF IInv

\* A gather that raised makes its loop leave with the exception.
LEMMA ToolsRaiseStep ==
    ASSUME IInv, NEW l \in Loops, ToolsRaise(l)
    PROVE  IInv'
<1>1. TypeOK'
  BY DEF IInv, ToolsRaise, Leave, TypeOK, session, loop, handles, events
<1>2. LoopInCall'
  BY DEF IInv, LoopInCall, ToolsRaise, Leave
<1>3. OutcomeFits'
  BY DEF IInv, OutcomeFits, ToolsRaise, Leave
<1>4. PhaseFits'
  BY DEF IInv, PhaseFits, ToolsRaise, Leave, session
<1>5. IdleIsQuiet'
  BY DEF IInv, IdleIsQuiet, ToolsRaise, events
<1>6. NoStrayCalls'
  BY DEF IInv, OutcomeFits, NoStrayCalls, Calm, ToolsRaise, Leave, Answered
<1>7. HandlesHaveOwners'
  BY DEF IInv, HandlesHaveOwners, ToolsRaise, Leave, session, handles
<1>8. SemaphoreConserved'
  BY DEF IInv, SemaphoreConserved, Holders, ToolsRaise
<1>9. AnswerFits'
  BY SessionAssumption DEF IInv, TypeOK, OutcomeFits, AnswerFits, ToolsRaise, Loops,
     session, loop, handles, events, Leave
<1> QED
  BY <1>1, <1>2, <1>3, <1>4, <1>5, <1>6, <1>7, <1>8, <1>9 DEF IInv

\* A compaction is followed by the head of the next turn.
LEMMA CompactDoneStep ==
    ASSUME IInv, NEW l \in Loops, CompactDone(l)
    PROVE  IInv'
<1>a. Enter(l)
  BY TopEnters DEF IInv, TypeOK, CompactDone
<1>b. PICK p \in Heads, o \in Outcomes : EnterAs(l, p, o)
  BY <1>a DEF Enter
<1>1. TypeOK'
  BY <1>b DEF EnterAs, Heads, Outcomes, IInv, CompactDone, TypeOK, session, loop,
     handles, events
<1>2. LoopInCall'
  BY <1>b, SessionAssumption DEF EnterAs, Heads, IInv, LoopInCall, CompactDone
<1>3. OutcomeFits'
  BY <1>b DEF EnterAs, IInv, OutcomeFits, CompactDone, TypeOK
<1>4. PhaseFits'
  BY <1>b DEF EnterAs, Heads, IInv, PhaseFits, CompactDone, session
<1>5. IdleIsQuiet'
  BY DEF IInv, IdleIsQuiet, CompactDone, events
<1>6. NoStrayCalls'
  BY <1>b DEF EnterAs, IInv, OutcomeFits, NoStrayCalls, Calm, CompactDone
<1>7. HandlesHaveOwners'
  BY <1>b, SessionAssumption DEF EnterAs, Heads, IInv, PhaseFits, HandlesHaveOwners,
     CompactDone, TypeOK, Loops, session, handles
<1>8. SemaphoreConserved'
  BY DEF IInv, SemaphoreConserved, Holders, CompactDone
<1>9. AnswerFits'
  BY <1>b, SessionAssumption DEF EnterAs, Heads, IInv, TypeOK, OutcomeFits, AnswerFits,
     CompactDone, Loops, session, loop, handles, events
<1> QED
  BY <1>1, <1>2, <1>3, <1>4, <1>5, <1>6, <1>7, <1>8, <1>9 DEF IInv

\* A cancelled guard makes its loop leave, and the subagents' loops under it.
LEMMA GuardCancelledStep ==
    ASSUME IInv, NEW l \in Loops, GuardCancelled(l)
    PROVE  IInv'
<1>a. \A k \in Loops : Interruption(k) \in Unclosed
  BY DEF Interruption, Unclosed, BeforeTry
<1>b. /\ Root \notin Slots(l)
      /\ l # Root => pc'[Root] = pc[Root] /\ outcome'[Root] = outcome[Root]
  BY SessionAssumption DEF GuardCancelled, IInv, TypeOK, Slots, Loops
<1>1. TypeOK'
  <2>1. outcome' \in [Loops -> Outcomes]
    BY <1>a DEF GuardCancelled, IInv, TypeOK, Outcomes
  <2> QED
    BY <2>1 DEF IInv, GuardCancelled, TypeOK, Outcomes, session, handles, events
<1>2. LoopInCall'
  BY DEF IInv, LoopInCall, GuardCancelled, GuardedWaits, Loops
<1>3. OutcomeFits'
  BY DEF IInv, OutcomeFits, GuardCancelled
<1>4. PhaseFits'
  BY SessionAssumption DEF IInv, PhaseFits, GuardCancelled, GuardedWaits, Loops, Slots,
     session
<1>5. IdleIsQuiet'
  BY DEF IInv, IdleIsQuiet, GuardCancelled, events
<1>6. NoStrayCalls'
  BY <1>a DEF IInv, NoStrayCalls, Calm, GuardCancelled, GuardedWaits, Answered, Unclosed,
     BeforeTry, Loops, Slots
<1>7. HandlesHaveOwners'
  BY <1>b, SessionAssumption DEF IInv, LoopInCall, PhaseFits, HandlesHaveOwners,
     GuardCancelled, GuardedWaits, TypeOK, Running, Loops, Slots, session, handles
<1>8. SemaphoreConserved'
  BY DEF IInv, SemaphoreConserved, Holders, GuardCancelled, loop, handles, events
<1>9. AnswerFits'
  <2>1. item' = item /\ part' = part /\ turn' = turn
    BY DEF GuardCancelled, events
  <2>2. CASE l = Root
    <3>1. outcome'[Root] = "Cancelled" /\ pc'[Root] = "unwind"
      BY <2>2 DEF GuardCancelled, IInv, TypeOK
    <3> QED
      BY <2>1, <3>1 DEF AnswerFits
  <2>3. CASE l # Root
    BY <1>b, <2>1, <2>3 DEF IInv, AnswerFits
  <2> QED
    BY <2>2, <2>3
<1> QED
  BY <1>1, <1>2, <1>3, <1>4, <1>5, <1>6, <1>7, <1>8, <1>9 DEF IInv

\* The root loop is left: the driver reports how the turn ended.
LEMMA RootReturnsStep ==
    ASSUME IInv, RootReturns
    PROVE  IInv'
<1>a. /\ sandbox' \in [Loops -> BOOLEAN]
      /\ sandbox'[Root] => outcome[Root] \in Unclosed
      /\ \A l \in Loops : l # Root => sandbox'[l] = sandbox[l]
  BY CloseFacts DEF RootReturns, IInv, Loops
<1>b. mcp' \subseteq {"kept", "stray"} /\ ("kept" \in mcp' => outcome[Root] \in Unclosed)
  BY DEF RootReturns, IInv, TypeOK
<1>c. TurnEnd(outcome[Root]) \in {"completed", "cancelled", "failed", "lost"}
  BY DEF TurnEnd
<1>d. status' \in {"absent", "in_progress", "idle", "cancelled", "failed"}
  BY <1>c DEF RootReturns, SessionEnd, IInv, TypeOK
<1>1. TypeOK'
  <2>1. sandbox' \in [Loops -> BOOLEAN]
    BY <1>a
  <2>2. pc' \in [Loops -> {"idle", "connect", "boot", "inference", "tools",
                         "compact", "unwind", "done"}]
    BY DEF RootReturns, IInv, TypeOK
  <2> QED
    BY <1>c, <1>d, <2>1 DEF IInv, TypeOK, RootReturns, events
<1>2. LoopInCall'
  BY SessionAssumption DEF IInv, LoopInCall, RootReturns
<1>3. OutcomeFits'
  BY DEF IInv, OutcomeFits, RootReturns
<1>4. PhaseFits'
  BY DEF IInv, PhaseFits, RootReturns, TurnEnd, TypeOK, Loops
<1>5. IdleIsQuiet'
  BY DEF IInv, IdleIsQuiet, RootReturns, Slots, session, loop, handles, events
<1>6. NoStrayCalls'
  BY DEF IInv, NoStrayCalls, Calm, RootReturns
<1>7. HandlesHaveOwners'
  <2>1. ASSUME NEW l \in Loops, sandbox'[l]
        PROVE  pc'[l] \notin {"idle", "done"}
               \/ IF l = Root THEN outcome'[l] \in Unclosed
                              ELSE call'[l] \in {"early", "cancelled"}
    <3>1. CASE l = Root
      <4>1. outcome' = outcome
        BY DEF RootReturns
      <4> QED
        BY <1>a, <2>1, <3>1, <4>1
    <3>2. CASE l # Root
      <4>1. sandbox'[l] = sandbox[l] /\ pc'[l] = pc[l] /\ call' = call
        BY <1>a, <3>2 DEF RootReturns
      <4> QED
        BY <2>1, <3>2, <4>1 DEF IInv, HandlesHaveOwners
    <3> QED
      BY <3>1, <3>2
  <2>2. "kept" \in mcp' => outcome'[Root] \in Unclosed
    BY <1>b DEF RootReturns
  <2> QED
    BY <2>1, <2>2 DEF HandlesHaveOwners
<1>8. SemaphoreConserved'
  BY DEF IInv, SemaphoreConserved, Holders, RootReturns
<1>9. AnswerFits'
  BY SessionAssumption DEF IInv, TypeOK, OutcomeFits, AnswerFits, RootReturns, Loops,
     session, loop, handles, events
<1> QED
  BY <1>1, <1>2, <1>3, <1>4, <1>5, <1>6, <1>7, <1>8, <1>9 DEF IInv

\* The cancel endpoint touches the signal and the stored session only.
LEMMA CancelStep ==
    ASSUME IInv, Cancel
    PROVE  IInv'
<1>1. TypeOK'
  BY DEF IInv, Cancel, TypeOK, session, loop, handles, events
<1>2. LoopInCall'
  BY DEF IInv, LoopInCall, Cancel, loop
<1>3. OutcomeFits'
  BY DEF IInv, OutcomeFits, Cancel, loop
<1>4. PhaseFits'
  BY DEF IInv, PhaseFits, Cancel, loop
<1>5. IdleIsQuiet'
  BY DEF IInv, IdleIsQuiet, Cancel, events
<1>6. NoStrayCalls'
  BY DEF IInv, NoStrayCalls, Calm, Cancel, loop
<1>7. HandlesHaveOwners'
  BY DEF IInv, HandlesHaveOwners, Cancel, loop, handles
<1>8. SemaphoreConserved'
  BY DEF IInv, SemaphoreConserved, Holders, Cancel
<1>9. AnswerFits'
  BY SessionAssumption DEF IInv, TypeOK, OutcomeFits, AnswerFits, Cancel, Loops,
     session, loop, handles, events
<1> QED
  BY <1>1, <1>2, <1>3, <1>4, <1>5, <1>6, <1>7, <1>8, <1>9 DEF IInv

\* A lost client interrupts the root loop wherever it is.
LEMMA DisconnectStep ==
    ASSUME IInv, Disconnect
    PROVE  IInv'
<1>a. Interruption(Root) \in Unclosed
  BY DEF Interruption, Unclosed, BeforeTry
<1>1. TypeOK'
  <2>1. mcp' \subseteq {"kept", "stray"}
    BY DEF Disconnect, BootSoFar, IInv, TypeOK
  <2>2. outcome' \in [Loops -> Outcomes]
    BY <1>a DEF Disconnect, Leave, IInv, TypeOK, Outcomes
  <2> QED
    BY <2>1, <2>2 DEF IInv, Disconnect, Leave, TypeOK, Outcomes, session, events
<1>2. LoopInCall'
  BY SessionAssumption DEF IInv, LoopInCall, Disconnect, Leave
<1>3. OutcomeFits'
  BY DEF IInv, OutcomeFits, Disconnect, Leave, TypeOK
<1>4. PhaseFits'
  BY DEF IInv, PhaseFits, Disconnect, Leave, session
<1>5. IdleIsQuiet'
  BY DEF IInv, IdleIsQuiet, Disconnect, events
<1>6. NoStrayCalls'
  BY <1>a, SessionAssumption DEF IInv, NoStrayCalls, Calm, Disconnect, Leave, TypeOK,
     Answered, Unclosed, BeforeTry, Slots
<1>7. HandlesHaveOwners'
  BY <1>a DEF IInv, HandlesHaveOwners, Disconnect, Leave, TypeOK, session
<1>8. SemaphoreConserved'
  BY DEF IInv, SemaphoreConserved, Holders, Disconnect
<1>9. AnswerFits'
  BY SessionAssumption DEF IInv, TypeOK, OutcomeFits, AnswerFits, Disconnect, Loops,
     session, loop, handles, events, Leave, Interruption
<1> QED
  BY <1>1, <1>2, <1>3, <1>4, <1>5, <1>6, <1>7, <1>8, <1>9 DEF IInv

\* Base case of the inductive invariant.
LEMMA InitIInv == Init => IInv
<1> SUFFICES ASSUME Init PROVE IInv
  OBVIOUS
<1>1. TypeOK
  <2>1. 0 \in 0..MaxTurns /\ MaxSubagents \in 0..MaxSubagents
    BY SessionAssumption
  <2> QED
    BY <2>1 DEF Init, TypeOK, Answered, Running, Raised
<1>2. LoopInCall /\ OutcomeFits /\ PhaseFits /\ IdleIsQuiet
  BY SessionAssumption DEF Init, LoopInCall, OutcomeFits, PhaseFits, IdleIsQuiet, Loops
<1>3. NoStrayCalls /\ HandlesHaveOwners
  BY DEF Init, NoStrayCalls, HandlesHaveOwners, Slots, Loops
<1>5. AnswerFits
  BY DEF Init, AnswerFits, Loops
<1>4. SemaphoreConserved
  <2>1. Holders = {}
    BY DEF Init, Holders
  <2> QED
    BY <2>1, FS_EmptySet, SessionAssumption DEF Init, SemaphoreConserved
<1> QED
  BY <1>1, <1>2, <1>3, <1>4, <1>5 DEF IInv

\* A step that changes nothing preserves the invariant.
LEMMA StutterIInv == IInv /\ UNCHANGED vars => IInv'
<1> SUFFICES ASSUME IInv, UNCHANGED vars PROVE IInv'
  OBVIOUS
<1>1. TypeOK' /\ LoopInCall' /\ OutcomeFits' /\ IdleIsQuiet'
  BY DEF IInv, TypeOK, LoopInCall, OutcomeFits, IdleIsQuiet,
         vars, session, loop, handles, events
<1>2. PhaseFits'
  BY DEF IInv, PhaseFits, TurnEnd, vars, session, loop
<1>3. NoStrayCalls' /\ HandlesHaveOwners'
  BY DEF IInv, NoStrayCalls, Calm, HandlesHaveOwners, vars, session, loop, handles
<1>4. SemaphoreConserved'
  BY DEF IInv, SemaphoreConserved, Holders, vars
<1>5. AnswerFits'
  BY DEF IInv, AnswerFits, vars, loop, events
<1> QED
  BY <1>1, <1>2, <1>3, <1>4, <1>5 DEF IInv

\* Every step of the session preserves the invariant: one lemma per action.
LEMMA NextIInv == IInv /\ [Next]_vars => IInv'
<1> SUFFICES ASSUME IInv, [Next]_vars PROVE IInv'
  OBVIOUS
<1>1. ASSUME NEW l \in Loops, LoopStep(l) PROVE IInv'
  BY <1>1, ToolsDoneStep, ToolsRaiseStep, GuardCancelledStep, RootReturnsStep DEF LoopStep
<1>2. ASSUME NEW l \in Loops, SetupReply(l) PROVE IInv'
  BY <1>2, OpenedStep, ConnectedStep, ConnectFailsStep, CompactDoneStep, BootedStep DEF SetupReply
<1>3. ASSUME NEW l \in Loops, MagReply(l) PROVE IInv'
  BY <1>3, InferenceFailsStep, MagTextStep, MagCallsStep DEF MagReply
<1>4. ASSUME NEW c \in Calls, CallStep(c) PROVE IInv'
  BY <1>4, FunctionCallStep, RaisesStep, StartSubagentStep, StartToolStep, AcquireStep,
     SubReturnsStep DEF CallStep
<1>5. ASSUME NEW c \in Calls, ToolReply(c) PROVE IInv'
  BY <1>5, ToolDoneStep, RaisesStep DEF ToolReply
<1>6. CASE CreateStream \/ CreateNonstream \/ DriverStart
  BY <1>6, CreateStreamStep, CreateNonstreamStep, DriverStartStep
<1>7. CASE Delta \/ Cancel \/ Disconnect
  BY <1>7, DeltaStep, CancelStep, DisconnectStep
<1>8. CASE UNCHANGED vars
  BY <1>8, StutterIInv
<1> QED
  BY <1>1, <1>2, <1>3, <1>4, <1>5, <1>6, <1>7, <1>8 DEF Next

-----------------------------------------------------------------------------
(* The theorems                                                            *)

\* The invariant holds of every behaviour, fair or not.
THEOREM Invariance == Spec => []IInv
<1>1. Init => IInv
  BY InitIInv
<1>2. IInv /\ [Next]_vars => IInv'
  BY NextIInv
<1> QED
  BY <1>1, <1>2, PTL DEF Spec

\* Every variable of a session stays in its type; in particular ctx.sem never
\* has more permits than it was created with, nor fewer than none.
THEOREM TypeCorrect == Spec => []TypeOK
<1>1. IInv => TypeOK
  BY DEF IInv
<1> QED
  BY <1>1, Invariance, PTL

\* No exception, cancellation or lost client makes the session lose or invent a
\* permit of ctx.sem, for any number of calls and permits.
THEOREM PermitsConserved == Spec => []SemaphoreConserved
<1>1. IInv => SemaphoreConserved
  BY DEF IInv
<1> QED
  BY <1>1, Invariance, PTL

\* At most max_concurrent_subagents subagents' loops run at once.
THEOREM SubagentsLimited == Spec => []SubagentLimit
<1>1. IInv => SubagentLimit
  <2> SUFFICES ASSUME IInv PROVE SubagentLimit
    OBVIOUS
  <2>1. {c \in Calls : pc[c] # "idle"} = Holders
    BY DEF IInv, LoopInCall, Holders
  <2>2. Cardinality(Holders) \in Nat
    BY SessionAssumption, FS_Subset, FS_CardinalityType DEF Holders
  <2>3. sem + Cardinality(Holders) = MaxSubagents /\ sem \in Nat
    BY SessionAssumption DEF IInv, TypeOK, SemaphoreConserved
  <2> QED
    BY <2>1, <2>2, <2>3, SessionAssumption DEF SubagentLimit
<1> QED
  BY <1>1, Invariance, PTL

\* A loop never starts a turn, or ends in good order, over a call of an earlier
\* turn that is still in flight.
THEOREM StrayCallsExcluded == Spec => []NoStrayCalls
<1>1. IInv => NoStrayCalls
  BY DEF IInv
<1> QED
  BY <1>1, Invariance, PTL

\* Connections and kept MCP servers outlive a loop that got into its try block only
\* if a CancelledError left it; what an error before the try block leaves is named.
THEOREM HandlesOwned == Spec => []HandlesHaveOwners
<1>1. IInv => HandlesHaveOwners
  BY DEF IInv
<1> QED
  BY <1>1, Invariance, PTL

\* The invariant leaves nothing going on in a completed turn: the root's calls are
\* idle as the root is calm; so then are the subagents, and their calls with them.
LEMMA CompletedIsSettled == IInv => CompletedTurnIsSettled
<1> SUFFICES ASSUME IInv, phase = "completed" PROVE CompletedTurnIsSettled
  BY DEF CompletedTurnIsSettled
<1>1. Root \in Loops /\ \A c \in Calls : c \in Loops /\ Issuer[c] \in Loops
  BY SessionAssumption DEF Loops
<1>2. Calm(Root)
  BY <1>1, SessionAssumption
  DEF IInv, TypeOK, PhaseFits, TurnEnd, Calm, Answered
<1>3. \A c \in Slots(Root) : call[c] = "idle" /\ pc[c] = "idle"
  BY <1>1, <1>2 DEF IInv, NoStrayCalls
<1>4. ASSUME NEW c \in Calls PROVE call[c] = "idle" /\ pc[c] = "idle"
  <2>1. CASE Issuer[c] = Root
    BY <1>3, <2>1 DEF Slots
  <2>2. CASE Issuer[c] # Root
    <3>1. Issuer[c] \in Slots(Root)
      BY <1>1, <2>2, TwoLevels DEF Slots, Loops
    <3>2. call[Issuer[c]] = "idle" /\ pc[Issuer[c]] = "idle"
      BY <1>3, <3>1
    <3>3. Calm(Issuer[c])
      BY <1>1, <3>2 DEF IInv, OutcomeFits, Calm, Raised
    <3> QED
      BY <1>1, <3>3 DEF IInv, NoStrayCalls, Slots
  <2> QED
    BY <2>1, <2>2
<1>5. \A c \in Calls : item[c] = "none" /\ sub[c] = "none"
  BY <1>4 DEF IInv, IdleIsQuiet
<1>6. \A l \in Loops : ~sandbox[l]
  BY <1>2, <1>4, SessionAssumption DEF IInv, PhaseFits, HandlesHaveOwners, Calm, Answered,
     Unclosed, BeforeTry, Loops
<1>7. "kept" \notin mcp
  BY <1>2, SessionAssumption DEF IInv, HandlesHaveOwners, Calm, Answered, Unclosed, BeforeTry
<1>8. sem = MaxSubagents
  <2>1. Holders = {}
    BY <1>4 DEF Holders
  <2> QED
    BY <2>1, FS_EmptySet, SessionAssumption DEF IInv, TypeOK, SemaphoreConserved
<1>9. \/ item[Root] = "done" /\ part # "open"
      \/ item[Root] = "none" /\ turn[Root] + 1 >= MaxTurns
  <2>1. outcome[Root] \in Answered
    BY DEF IInv, PhaseFits, TurnEnd, Answered
  <2> QED
    BY <2>1 DEF IInv, AnswerFits, Answered
<1> QED
  BY <1>4, <1>5, <1>6, <1>7, <1>8, <1>9 DEF CompletedTurnIsSettled

\* turn.completed is emitted when no call, subagent, connection or permit of the
\* turn is in use, what the turn announced is closed, and its answer is there.
THEOREM CompletionSettles == Spec => []CompletedTurnIsSettled
<1> QED
  BY CompletedIsSettled, Invariance, PTL

-----------------------------------------------------------------------------
(* The stored session, and inference after a cancel                        *)

\* The session's record and the phase of its turn are written together, or the
\* record is overwritten by a cancel.
LEMMA StatusStep ==
    ASSUME IInv, StatusMatchesTurn, [Next]_vars
    PROVE  StatusMatchesTurn'
<1>1. CASE UNCHANGED <<status, cancel, phase>>
  BY <1>1 DEF StatusMatchesTurn
<1>2. CASE DriverStart
  BY <1>2 DEF DriverStart, StatusMatchesTurn
<1>3. CASE CreateNonstream
  BY <1>3 DEF CreateNonstream, StatusMatchesTurn
<1>4. CASE RootReturns
  <2>1. phase = "running"
    BY <1>4 DEF IInv, PhaseFits, RootReturns
  <2>2. CASE phase' = "lost"
    <3>1. status' = status /\ cancel' = cancel
      BY <1>4, <2>2 DEF RootReturns, SessionEnd
    <3> QED
      BY <2>1, <2>2, <3>1 DEF StatusMatchesTurn
  <2>3. CASE phase' # "lost"
    <3>1. phase' \in {"completed", "cancelled", "failed"}
      BY <1>4, <2>3 DEF RootReturns, TurnEnd
    <3>2. status' = SessionEnd(phase')
      BY <1>4 DEF RootReturns
    <3> QED
      BY <3>1, <3>2 DEF SessionEnd, StatusMatchesTurn
  <2> QED
    BY <2>2, <2>3
<1>5. CASE Cancel
  BY <1>5 DEF Cancel, StatusMatchesTurn
<1> QED
  BY <1>1, <1>2, <1>3, <1>4, <1>5
     DEF Next, LoopStep, CallStep, SetupReply, MagReply, ToolReply, vars, session,
         CreateStream, ToolsDone, ToolsRaise, GuardCancelled, FunctionCall, Raises,
         StartSubagent, StartTool, Acquire, SubReturns, Opened, Connected, ConnectFails, InferenceFails, CompactDone,
         Booted, MagText, MagCalls, ToolDone, Delta, Disconnect

\* GET and the event stream agree on how a turn ended, but for a cancel that
\* overwrote the session and a turn lost with its client.
THEOREM StatusAgrees == Spec => []StatusMatchesTurn
<1>1. Init => StatusMatchesTurn
  BY DEF Init, StatusMatchesTurn
<1>2. IInv /\ StatusMatchesTurn /\ [Next]_vars => StatusMatchesTurn'
  BY StatusStep
<1> QED
  BY <1>1, <1>2, Invariance, PTL DEF Spec

\* A loop that gets to an inference at the head of a turn has seen no cancel.
LEMMA TopSeesCancel ==
    ASSUME TypeOK, NEW l \in Loops, NEW t, NEW k \in Loops, TopOfTurn(l, t),
           pc[k] # "inference", pc'[k] = "inference"
    PROVE  ~cancel
  BY DEF TypeOK, TopOfTurn, Leave

\* A loop that is entered gets to an inference only over the head of its first turn.
LEMMA BeginSeesCancel ==
    ASSUME TypeOK, NEW l \in Loops, NEW k \in Loops, Begin(l) \/ BootOrTurn(l),
           pc[k] # "inference", pc'[k] = "inference"
    PROVE  ~cancel
<1>1. CASE TopOfTurn(l, 0)
  BY <1>1, TopSeesCancel
<1>2. CASE ~TopOfTurn(l, 0)
  BY <1>2 DEF Begin, BootOrTurn, EnterTry, Leave, TypeOK
<1> QED
  BY <1>1, <1>2

\* No loop, of any depth, sends MAG a request once its session is cancelled.
THEOREM CancelStopsInference == Spec => NoInferenceAfterCancel
<1>1. ASSUME TypeOK, [Next]_vars, NEW k \in Loops,
             pc[k] # "inference", pc'[k] = "inference"
      PROVE  ~cancel
  <2>1. ASSUME NEW l \in Loops, NEW t, TopOfTurn(l, t)
        PROVE  ~cancel
    BY <1>1, <2>1, TopSeesCancel
  <2>2. ASSUME NEW l \in Loops, Begin(l) \/ BootOrTurn(l)
        PROVE  ~cancel
    BY <1>1, <2>2, BeginSeesCancel
  <2>3. ASSUME NEW l \in Loops, LoopStep(l)
        PROVE  ~cancel
    BY <1>1, <2>1, <2>3
       DEF LoopStep, ToolsDone, ToolsRaise, GuardCancelled, RootReturns, Leave, TypeOK
  <2>4. ASSUME NEW c \in Calls, CallStep(c) \/ ToolReply(c)
        PROVE  ~cancel
    BY <1>1, <2>2, <2>4
       DEF CallStep, ToolReply, FunctionCall, Raises, StartSubagent, StartTool, Acquire,
           SubReturns, ToolDone, Loops, loop, TypeOK
  <2>5. ASSUME NEW l \in Loops, SetupReply(l)
        PROVE  ~cancel
    BY <1>1, <2>1, <2>2, <2>5
       DEF SetupReply, Opened, Connected, ConnectFails, CompactDone, Booted, EnterTry, Leave,
           loop, TypeOK
  <2>6. ASSUME NEW l \in Loops, MagReply(l)
        PROVE  ~cancel
    BY <1>1, <2>6 DEF MagReply, InferenceFails, MagText, MagCalls, Leave, TypeOK
  <2> QED
    BY <1>1, <2>2, <2>3, <2>4, <2>5, <2>6
       DEF Next, CreateStream, CreateNonstream, DriverStart, Delta, Cancel, Disconnect,
           Leave, Loops, loop, vars, TypeOK
<1>2. TypeOK /\ [Next]_vars =>
        [\A l \in Loops : pc[l] # "inference" /\ pc'[l] = "inference" => ~cancel]_vars
  BY <1>1
<1> QED
  BY <1>2, TypeCorrect, PTL DEF Spec, NoInferenceAfterCancel

=============================================================================
