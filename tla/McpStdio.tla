------------------------------ MODULE McpStdio ------------------------------
(***************************************************************************)
(* One McpStdioSession (mcp_stdio.py): the start of a local MCP server     *)
(* through the exec-server, the JSON-RPC requests that concurrent tool     *)
(* calls send it, the background reader that hands every frame to whoever  *)
(* waits for it, and the ways the server, the connection and the session   *)
(* end under pending requests.                                             *)
(*                                                                         *)
(* A request q of _mcp_request waits twice: for the exec-server to accept  *)
(* the bytes it writes to the process (a future in _exec_waiters), then    *)
(* for the server's reply (a future in _mcp_waiters, registered first).    *)
(* The exec-server and the MCP server are modelled from what the client    *)
(* expects of them.                                                        *)
(***************************************************************************)
EXTENDS Naturals, Sequences

CONSTANTS Reqs,           \* the requests that tool calls make
          ServerRequests, \* the MCP server sends requests of its own
          StrayLines,     \* it may print a line of JSON that is not an object
          MaxWire         \* bound: unread frames beyond which it prints no such line

ASSUME McpAssumption == {ServerRequests, StrayLines} \subseteq BOOLEAN /\ MaxWire \in Nat

VARIABLES
    boot,     \* progress of start(), then of close()
    ws,       \* the WebSocket
    reader,   \* _reader_loop
    dead,     \* _dead is set
    stage,    \* where each request is suspended, or how it ended
    ack,      \* its future in _exec_waiters
    fut,      \* its future in _mcp_waiters
    wire,     \* frames sent by the exec-server and not yet read
    process,  \* the MCP server's process
    inbox,    \* process/write requests on their way to the exec-server
    todo,     \* requests the MCP server has received and not answered
    seen      \* requests whose reply was read before they waited for it (history)

client == <<boot, ws, reader, dead, stage, ack, fut, seen>>
server == <<process, inbox, todo>>
vars   == <<client, wire, server>>

Writing == {"sending", "writing"}
InFlight == Writing \cup {"waiting"}
Ended == {"answered", "raised", "timed_out"}
BootSteps == <<"dial", "handshake", "launch", "initialize", "announce", "list", "ready">>
FrameKinds == {"ack", "nack", "reply", "request"}

TypeOK ==
    /\ boot \in {BootSteps[i] : i \in 1..Len(BootSteps)} \cup {"failed", "closing", "closed"}
    /\ ws \in {"none", "open", "closed"}
    /\ reader \in {"none", "running", "failed", "ended"}
    /\ dead \in BOOLEAN
    /\ stage \in [Reqs -> {"idle"} \cup InFlight \cup Ended]
    /\ ack \in [Reqs -> {"none", "pending", "done", "failed"}]
    /\ fut \in [Reqs -> {"none", "pending", "reply", "request", "failed"}]
    /\ wire \in Seq([kind : FrameKinds, req : Reqs] \cup [kind : {"exited", "closed", "stray"}])
    /\ process \in {"none", "running", "exited", "gone"}
    /\ inbox \subseteq Reqs
    /\ todo \subseteq Reqs
    /\ seen \subseteq Reqs

Init ==
    /\ boot = "dial" /\ ws = "none" /\ reader = "none" /\ dead = FALSE
    /\ stage = [q \in Reqs |-> "idle"]
    /\ ack = [q \in Reqs |-> "none"]
    /\ fut = [q \in Reqs |-> "none"]
    /\ wire = <<>>
    /\ process = "none"
    /\ inbox = {} /\ todo = {} /\ seen = {}

-----------------------------------------------------------------------------
(* start() and close()                                                     *)

\* Each step of start() waits for one answer; the reader runs from "launch" on
\* and the process from the answer to it.
BootStep ==
    \E i \in 1..Len(BootSteps) - 1 :
        /\ boot = BootSteps[i]
        /\ boot' = BootSteps[i + 1]
        /\ i > 1 => ws = "open"
        /\ i > 3 => process = "running" /\ ~dead
        /\ ws' = IF boot = "dial" THEN "open" ELSE ws
        /\ reader' = IF boot = "handshake" THEN "running" ELSE reader
        /\ process' = IF boot = "launch" THEN "running" ELSE process
        /\ UNCHANGED <<dead, stage, ack, fut, wire, inbox, todo, seen>>

\* An error, a time-out or the end of the process: start() raises and leaves the
\* connection, the reader and the process as they are.
BootFails ==
    /\ boot \notin {"ready", "failed", "closing", "closed"}
    /\ boot' = "failed"
    /\ UNCHANGED <<ws, reader, dead, stage, ack, fut, seen, wire, server>>

\* close() asks for the process to be terminated unless it is known dead, ...
CloseBegin ==
    /\ boot = "ready"
    /\ boot' = "closing"
    /\ UNCHANGED <<ws, reader, dead, stage, ack, fut, seen, wire, server>>

\* ... and after the answer, or 5 s, cancels the reader, which fails nobody.
CloseEnd ==
    /\ boot = "closing"
    /\ boot' = "closed"
    /\ ws' = "none"
    /\ reader' = IF reader = "running" THEN "ended" ELSE reader
    /\ UNCHANGED <<dead, stage, ack, fut, seen, wire, server>>

-----------------------------------------------------------------------------
(* _mcp_request, made by call_tool                                         *)

\* Both futures are registered before the request is sent; on a closed or dropped
\* connection send() raises and leaves them there.  A session being closed still gets
\* the calls of tasks that a failed turn left running.
Request(q) ==
    /\ boot \in {"ready", "closing", "closed"}
    /\ stage[q] = "idle"
    /\ fut' = [fut EXCEPT ![q] = "pending"]
    /\ ack' = [ack EXCEPT ![q] = "pending"]
    /\ stage' = [stage EXCEPT ![q] = IF ws = "open" THEN "sending" ELSE "raised"]
    /\ inbox' = IF ws = "open" THEN inbox \cup {q} ELSE inbox
    /\ UNCHANGED <<boot, ws, reader, dead, seen, wire, process, todo>>

\* The request goes on, or is left: what it waited for is over, and only the future
\* of that wait is removed from its table.
Leave(q, how) ==
    /\ stage' = [stage EXCEPT ![q] = how]
    /\ ack' = IF stage[q] = "writing" THEN [ack EXCEPT ![q] = "none"] ELSE ack
    /\ fut' = IF stage[q] = "waiting" THEN [fut EXCEPT ![q] = "none"] ELSE fut
    /\ UNCHANGED <<boot, ws, reader, dead, seen, wire, server>>

\* send() returns when the buffer has room, or raises as the connection is gone.
\* Nothing limits this wait.
Sent(q) ==
    /\ stage[q] = "sending"
    /\ Leave(q, IF ws = "open" THEN "writing" ELSE "raised")

\* How wait_for(fut) ends: with the message or the exception.
Result(q) == IF fut[q] = "failed" THEN "raised" ELSE "answered"

\* The write was refused, or failed with everything else; or it was accepted, and
\* the wait for the reply begins, or is over at once as the reply is there.
Written(q) ==
    /\ stage[q] = "writing"
    /\ \/ ack[q] = "failed" /\ Leave(q, "raised")
       \/ ack[q] = "done" /\ fut[q] = "pending" /\ Leave(q, "waiting")
       \/ /\ ack[q] = "done" /\ fut[q] # "pending"
          /\ stage' = [stage EXCEPT ![q] = Result(q)]
          /\ ack' = [ack EXCEPT ![q] = "none"]
          /\ fut' = [fut EXCEPT ![q] = "none"]
          /\ UNCHANGED <<boot, ws, reader, dead, seen, wire, server>>

Woken(q) ==
    /\ stage[q] = "waiting"
    /\ fut[q] # "pending"
    /\ Leave(q, Result(q))

\* 20 s for the write, 30 s for the reply.  Where the future is done in the same pass
\* of the event loop, wait_for prefers its result up to Python 3.11 and the time-out
\* from 3.12 on.
WriteTimerOnly == {"writing"}               \* mutant
Timed == {"writing", "waiting"}

TimeOut(q) ==
    /\ stage[q] \in Timed
    /\ Leave(q, IF stage[q] = "writing" THEN "raised" ELSE "timed_out")

Cancelled(q) ==
    /\ stage[q] \in InFlight
    /\ Leave(q, "raised")

-----------------------------------------------------------------------------
(* _reader_loop                                                            *)

\* _fail_all: every pending future of both tables.
FailReplies ==                              \* mutant
    /\ fut' = [q \in Reqs |-> IF fut[q] = "pending" THEN "failed" ELSE fut[q]]
    /\ UNCHANGED ack
FailAll ==
    /\ fut' = [q \in Reqs |-> IF fut[q] = "pending" THEN "failed" ELSE fut[q]]
    /\ ack' = [q \in Reqs |-> IF ack[q] = "pending" THEN "failed" ELSE ack[q]]

\* Hands a frame to its future unless that is done or no longer registered.  A
\* request of the server is not told from a reply with the same id.
HandReplyToWaiting(m) ==                    \* mutant
    fut' = IF m.kind \in {"reply", "request"} /\ fut[m.req] = "pending"
              /\ stage[m.req] = "waiting"
           THEN [fut EXCEPT ![m.req] = m.kind] ELSE fut
HandReplyAnyId(m) ==                        \* mutant
    fut' = IF fut[m.req] = "pending" THEN [fut EXCEPT ![m.req] = m.kind] ELSE fut
HandReply(m) ==
    fut' = IF m.kind \in {"reply", "request"} /\ fut[m.req] = "pending"
           THEN [fut EXCEPT ![m.req] = m.kind] ELSE fut

Deliver(m) ==
    /\ ack' = IF m.kind \in {"ack", "nack"} /\ ack[m.req] = "pending"
              THEN [ack EXCEPT ![m.req] = IF m.kind = "ack" THEN "done" ELSE "failed"]
              ELSE ack
    /\ HandReply(m)
    /\ seen' = IF m.kind = "reply" /\ stage[m.req] \in Writing
               THEN seen \cup {m.req} ELSE seen
    /\ UNCHANGED <<reader, dead>>

\* The exit of the process, the end of its output, or a line that the feeder
\* raises on, fails all that is pending; in the last case the loop is over too.
Read ==
    /\ reader = "running"
    /\ ws = "open"
    /\ wire # <<>>
    /\ wire' = Tail(wire)
    /\ LET m == Head(wire)
       IN IF m.kind \in {"exited", "closed", "stray"}
          THEN /\ FailAll
               /\ dead' = TRUE
               /\ reader' = IF m.kind = "stray" THEN "failed" ELSE reader
               /\ UNCHANGED seen
          ELSE Deliver(m)
    /\ UNCHANGED <<boot, ws, stage, server>>

\* The connection breaks: the loop fails all that is pending.  It is closed in
\* good order: the loop just ends.
Dropped ==
    /\ ws = "open"
    /\ reader = "running"
    /\ ws' = "closed"
    /\ wire' = <<>>
    /\ \/ FailAll /\ dead' = TRUE /\ reader' = "failed"
       \/ reader' = "ended" /\ UNCHANGED <<dead, ack, fut>>
    /\ UNCHANGED <<boot, stage, seen, server>>

-----------------------------------------------------------------------------
(* The exec-server and the MCP server                                      *)

Frame(kind, q) == [kind |-> kind, req |-> q]
Push(m) == wire' = IF ws = "open" THEN Append(wire, m) ELSE wire

Accept(q) ==
    /\ q \in inbox
    /\ inbox' = inbox \ {q}
    /\ IF process = "running"
       THEN todo' = todo \cup {q} /\ Push(Frame("ack", q))
       ELSE UNCHANGED todo /\ Push(Frame("nack", q))
    /\ UNCHANGED <<client, process>>

\* The reply may overtake the acknowledgement of the write, and output that the
\* process leaves behind may follow its exit.
Answer(q) ==
    /\ q \in todo \cup inbox
    /\ process = "running" \/ (process = "exited" /\ q \in todo)
    /\ todo' = todo \ {q}
    /\ inbox' = inbox \ {q}
    /\ IF q \in inbox
       THEN wire' = IF ws = "open" THEN wire \o <<Frame("reply", q), Frame("ack", q)>> ELSE wire
       ELSE Push(Frame("reply", q))
    /\ UNCHANGED <<client, process>>

\* The server counts its own requests from 1, as the client does.
Ask(q) ==
    /\ ServerRequests
    /\ process = "running"
    /\ q \in todo
    /\ Len(wire) < MaxWire
    /\ Push(Frame("request", q))
    /\ UNCHANGED <<client, server>>

Stray ==
    /\ StrayLines
    /\ process = "running"
    /\ boot = "ready"
    /\ Len(wire) < MaxWire
    /\ Push([kind |-> "stray"])
    /\ UNCHANGED <<client, server>>

ProcessExits ==
    /\ process = "running"
    /\ process' = "exited"
    /\ Push([kind |-> "exited"])
    /\ UNCHANGED <<client, inbox, todo>>

OutputEnds ==
    /\ process = "exited"
    /\ process' = "gone"
    /\ Push([kind |-> "closed"])
    /\ UNCHANGED <<client, inbox, todo>>

-----------------------------------------------------------------------------
Next ==
    \/ BootStep \/ BootFails \/ CloseBegin \/ CloseEnd
    \/ Read \/ Dropped \/ Stray \/ ProcessExits \/ OutputEnds
    \/ \E q \in Reqs : \/ Request(q) \/ Sent(q) \/ Written(q) \/ Woken(q)
                       \/ TimeOut(q) \/ Cancelled(q)
                       \/ Accept(q) \/ Answer(q) \/ Ask(q)

Spec == Init /\ [][Next]_vars

\* A task whose future is done is run again, and a send ends: the exec-server takes
\* what is written to its socket, or the connection is lost.
ClientSpec ==
    Spec /\ \A q \in Reqs : WF_vars(Sent(q)) /\ WF_vars(Written(q)) /\ WF_vars(Woken(q))

\* The timers of the shim run out: 20 s for a write, 30 s for a reply.
TimersFire == \A q \in Reqs : WF_vars(TimeOut(q))

\* The exec-server accepts or refuses each write, and the reader reads.
ReaderKeepsUp == WF_vars(Read) /\ \A q \in Reqs : WF_vars(Accept(q))

-----------------------------------------------------------------------------
(* Properties                                                              *)

\* A request does not time out waiting for a reply that was read before it began to
\* wait: a reply that overtakes the acknowledgement of its request's write, or even
\* the end of its send, is kept.
AnswerNotLost == \A q \in Reqs : stage[q] = "timed_out" => q \notin seen

\* However the server, the connection and the session end, and even if none of
\* them answers again, no tool call hangs in a request that was sent: its timers
\* suffice.
RequestsEnd ==
    TimersFire => \A q \in Reqs : stage[q] \in InFlight ~> stage[q] \in Ended

\* A reader that was cancelled by close(), that ended with an orderly close of the
\* connection, or that died of a line while the connection was there.
ReaderGone == reader = "ended" \/ (reader = "failed" /\ ws # "closed")

\* The death of the server, or the loss of the connection, is told to the requests
\* at once: they end though no timer fires, unless there is no reader to tell them.
DeadEndsRequests ==
    ReaderKeepsUp =>
        \A q \in Reqs : dead /\ stage[q] \in InFlight ~> stage[q] \in Ended \/ ReaderGone

\* Module docstring: requests speak "newline-delimited JSON-RPC 2.0", where what
\* answers a request is a response, never a request of the other side.
AnsweredByReplies ==
    [][\A q \in Reqs : stage[q] \in InFlight /\ stage'[q] = "answered" => fut[q] = "reply"]_vars

=============================================================================
