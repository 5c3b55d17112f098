----------------------------- MODULE SandboxRun -----------------------------
(***************************************************************************)
(* One connection of SandboxClient (codex_sandbox.py) to the exec-server:  *)
(* the handshake, the commands that the concurrent tool calls of one loop  *)
(* run over it one at a time, the frames that come back, time-outs,        *)
(* cancellation and the closing of the connection under running commands.  *)
(*                                                                         *)
(* A run is one call of run(); it stands for its task, its request id and  *)
(* its process id, all of them fresh.  The exec-server is not part of the  *)
(* repository and is modelled from what run() expects of it.               *)
(***************************************************************************)
EXTENDS Naturals, Sequences

CONSTANTS Runs,       \* the calls of run() on this connection
          MaxOutput,  \* bound: output frames of each run's process
          None        \* nobody holds the lock

ASSUME RunAssumption == MaxOutput \in [Runs -> Nat] /\ None \notin Runs

VARIABLES
    conn,     \* the connection, from connect() to close()
    lock,     \* holder of _lock
    task,     \* where each run is, or how it ended
    got,      \* output frames each run has collected
    exited,   \* exit_code of each run is set
    wire,     \* frames sent by the server and not yet received
    proc,     \* each run's process at the server
    emitted,  \* number of output frames of each process
    kill      \* processes whose termination was requested

client == <<conn, lock, task, got, exited>>
server == <<proc, emitted, kill>>
vars   == <<client, wire, server>>

Ended == {"ok", "timed_out", "raised", "cancelled"}
FrameKinds == {"started", "error", "output", "exited", "closed"}
Frame(r, kind, n) == [run |-> r, kind |-> kind, n |-> n]
Frames == [run : Runs, kind : FrameKinds, n : Nat]
OutputFrames == [run : Runs, kind : {"output"}, n : Nat]

TypeOK ==
    /\ conn \in {"new", "handshake", "open", "failed", "refused", "closed"}
    /\ lock \in Runs \cup {None}
    /\ task \in [Runs -> {"idle", "lock", "pump"} \cup Ended]
    /\ got \in [Runs -> Seq(OutputFrames)]
    /\ exited \in [Runs -> BOOLEAN]
    /\ wire \in Seq(Frames)
    /\ proc \in [Runs -> {"none", "requested", "running", "exited", "gone"}]
    /\ emitted \in [Runs -> Nat]
    /\ kill \subseteq Runs

Init ==
    /\ conn = "new"
    /\ lock = None
    /\ task = [r \in Runs |-> "idle"]
    /\ got = [r \in Runs |-> <<>>]
    /\ exited = [r \in Runs |-> FALSE]
    /\ wire = <<>>
    /\ proc = [r \in Runs |-> "none"]
    /\ emitted = [r \in Runs |-> 0]
    /\ kill = {}

-----------------------------------------------------------------------------
(* connect() and close()                                                   *)

Dial ==
    /\ conn = "new"
    /\ conn' \in {"handshake", "failed"}
    /\ UNCHANGED <<lock, task, got, exited, wire, server>>

\* The answer to "initialize" is waited for without a limit; an error raises
\* and leaves the socket to nobody.
Handshake ==
    /\ conn = "handshake"
    /\ conn' \in {"open", "refused"}
    /\ UNCHANGED <<lock, task, got, exited, wire, server>>

\* By close() of the loop that is left, or by the other side.
Close ==
    /\ conn = "open"
    /\ conn' = "closed"
    /\ UNCHANGED <<lock, task, got, exited, wire, server>>

-----------------------------------------------------------------------------
(* run()                                                                   *)

Call(r) ==
    /\ conn \in {"open", "closed"}
    /\ task[r] = "idle"
    /\ task' = [task EXCEPT ![r] = "lock"]
    /\ UNCHANGED <<conn, lock, got, exited, wire, server>>

\* A run ends however it does: leaving "async with self._lock" frees the lock.
End(r, how) ==
    /\ task' = [task EXCEPT ![r] = how]
    /\ lock' = IF lock = r THEN None ELSE lock

\* process/start is sent under the lock; on a closed connection that raises.
LockIgnored == TRUE                         \* mutant
LockFree == lock = None

Start(r) ==
    /\ task[r] = "lock"
    /\ LockFree
    /\ IF conn = "open"
       THEN /\ lock' = r
            /\ task' = [task EXCEPT ![r] = "pump"]
            /\ proc' = [proc EXCEPT ![r] = "requested"]
       ELSE End(r, "raised") /\ UNCHANGED proc
    /\ UNCHANGED <<conn, got, exited, wire, emitted, kill>>

\* pump() looks at a frame of its own process, or the error its own request
\* got; frames of processes that earlier runs left behind are skipped.
AnyFrame(r, m) == m.kind # "started"        \* mutant
Mine(r, m) == m.run = r /\ m.kind # "started"

CollectedAny(m) == TRUE                     \* mutant
Collected(m) == m.kind = "output"

\* The definitive end of a run is "closed": output may come after "exited".
LastAtExit(m) == m.kind = "exited"          \* mutant
Last(m) == m.kind = "closed"

Receive(r) ==
    /\ task[r] = "pump"
    /\ wire # <<>>
    /\ wire' = Tail(wire)
    /\ LET m == Head(wire)
           mine == Mine(r, m)
       IN /\ got' = IF mine /\ Collected(m)
                    THEN [got EXCEPT ![r] = Append(@, m)] ELSE got
          /\ exited' = IF mine /\ m.kind = "exited"
                       THEN [exited EXCEPT ![r] = TRUE] ELSE exited
          /\ IF mine /\ m.kind = "error" THEN End(r, "raised")
             ELSE IF mine /\ Last(m) THEN End(r, "ok")
             ELSE UNCHANGED <<task, lock>>
    /\ UNCHANGED <<conn, server>>

\* ws.recv() raises once the connection is closed.
ConnectionLost(r) ==
    /\ task[r] = "pump"
    /\ conn = "closed"
    /\ End(r, "raised")
    /\ UNCHANGED <<conn, got, exited, wire, server>>

\* wait_for gives up on pump(): process/terminate is sent and what was
\* collected so far is returned with exit code 124.
NoTerminate(r) == UNCHANGED kill            \* mutant
Terminate(r) == kill' = kill \cup {r}

TimeOut(r) ==
    /\ task[r] = "pump"
    /\ IF conn = "open"
       THEN End(r, "timed_out") /\ Terminate(r)
       ELSE End(r, "raised") /\ UNCHANGED kill
    /\ UNCHANGED <<conn, got, exited, wire, proc, emitted>>

\* The task of the tool call is cancelled, in the queue for the lock or in
\* pump(); the process is left to itself.
HoldLock(r) == task' = [task EXCEPT ![r] = "cancelled"] /\ UNCHANGED lock  \* mutant
Abandon(r) == End(r, "cancelled")

Cancelled(r) ==
    /\ task[r] \in {"lock", "pump"}
    /\ Abandon(r)
    /\ UNCHANGED <<conn, got, exited, wire, server>>

-----------------------------------------------------------------------------
(* The exec-server                                                         *)

Send(r, kind, n) ==
    wire' = IF conn = "open" THEN Append(wire, Frame(r, kind, n)) ELSE wire

Serve(r) ==
    /\ proc[r] = "requested"
    /\ \/ proc' = [proc EXCEPT ![r] = "running"] /\ Send(r, "started", 0)
       \/ proc' = [proc EXCEPT ![r] = "gone"] /\ Send(r, "error", 0)
    /\ UNCHANGED <<client, emitted, kill>>

\* The last output may follow "exited", never "closed".
Output(r) ==
    /\ proc[r] \in {"running", "exited"}
    /\ emitted[r] < MaxOutput[r]
    /\ emitted' = [emitted EXCEPT ![r] = @ + 1]
    /\ Send(r, "output", emitted[r] + 1)
    /\ UNCHANGED <<client, proc, kill>>

Exit(r) ==
    /\ proc[r] = "running"
    /\ proc' = [proc EXCEPT ![r] = "exited"]
    /\ Send(r, "exited", 0)
    /\ UNCHANGED <<client, emitted, kill>>

ProcessClosed(r) ==
    /\ proc[r] = "exited"
    /\ proc' = [proc EXCEPT ![r] = "gone"]
    /\ Send(r, "closed", 0)
    /\ UNCHANGED <<client, emitted, kill>>

-----------------------------------------------------------------------------
Step(r) ==
    \/ Start(r) \/ Receive(r) \/ ConnectionLost(r) \/ TimeOut(r)

ServerStep(r) ==
    \/ Serve(r) \/ Output(r) \/ Exit(r) \/ ProcessClosed(r)

Next ==
    \/ Dial \/ Handshake \/ Close
    \/ \E r \in Runs : Call(r) \/ Step(r) \/ Cancelled(r) \/ ServerStep(r)

\* The event loop runs what can run and pump()'s 120 s pass; the server answers
\* requests and stops what it is told to.  A process left alone may run for ever.
Fairness ==
    \A r \in Runs :
        /\ WF_vars(Start(r))
        /\ WF_vars(Receive(r))
        /\ WF_vars(ConnectionLost(r) \/ TimeOut(r))
        /\ WF_vars(Serve(r))
        /\ WF_vars(r \in kill /\ Exit(r))
        /\ WF_vars(ProcessClosed(r))

Spec == Init /\ [][Next]_vars
FairSpec == Spec /\ Fairness

-----------------------------------------------------------------------------
(* Properties                                                              *)

\* At most one run reads the connection, and it is the one that holds the lock:
\* a second reader would take frames away from the first.
OneReader == \A r \in Runs : task[r] = "pump" <=> lock = r

\* What a run has collected is, at every moment and so also when it times out, a
\* prefix of what its own process wrote: nothing of a process an earlier run left
\* behind, nothing twice, no gap.
CollectedIsPrefix ==
    \A r \in Runs :
        /\ Len(got[r]) <= emitted[r]
        /\ \A i \in 1..Len(got[r]) : got[r][i] = Frame(r, "output", i)

\* A run that returns normally has all of its process's output, the frames that
\* follow "exited" included, and its exit code.
NothingDropped ==
    \A r \in Runs : task[r] = "ok" => Len(got[r]) = emitted[r] /\ exited[r]

\* Every run returns or raises, behind whatever other runs it waits: those that
\* time out, raise or are cancelled give the connection on.
RunsEnd == \A r \in Runs : task[r] = "lock" ~> task[r] \in Ended

\* A process whose run timed out is stopped.
TimedOutStops == \A r \in Runs : task[r] = "timed_out" ~> proc[r] = "gone"

=============================================================================
