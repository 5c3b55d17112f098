------------------------------ MODULE Workspace ------------------------------
(***************************************************************************)
(* The files of a session's workspace under the patches that the tool      *)
(* calls of its agents apply: _apply_patch_in_sandbox and _exec_sandbox_   *)
(* tool of mag_agents_shim.py over fs_read, fs_write and fs_delete of      *)
(* codex_sandbox.py.                                                       *)
(*                                                                         *)
(* A job is one such call; it belongs to an agent, which has a connection  *)
(* of its own, and each of its operations is one command at the            *)
(* exec-server or, for an update, two.  The commands of a connection run   *)
(* one at a time, but a command that timed out or whose call was abandoned *)
(* may still run.  A file's content is abstracted to the set of marks that *)
(* edits have put there (ApplyPatch has the texts); an unfinished write    *)
(* has left no mark.  SandboxRun has the frames of one command.            *)
(***************************************************************************)
EXTENDS Naturals, Sequences

CONSTANTS Jobs,      \* the calls of apply_patch and fs_write
          Agents,    \* the root loop and its subagents
          AgentOf,   \* whose call a job is
          Paths,
          Marks,     \* what edits put into files
          Ops,       \* the operations of each job, in order
          Initial,   \* the files at first
          Absent,    \* no such file
          None       \* nobody holds a lock

Op == [kind : {"add", "update", "delete"}, path : Paths, old : Marks, new : Marks]
Content == (SUBSET Marks) \cup {Absent}

ASSUME WorkspaceAssumption ==
    /\ AgentOf \in [Jobs -> Agents]
    /\ Ops \in [Jobs -> Seq(Op)]
    /\ Initial \in [Paths -> Content]
    /\ None \notin Jobs

VARIABLES
    files,    \* content of each path
    lock,     \* holder of each connection's _lock
    stage,    \* where each job is, or how it ended
    op,       \* the operation it is at
    fetched,  \* the file of its update has been read
    buf,      \* the content read, then the content to write
    applied,  \* the operations it reports as applied
    proc,     \* its latest command at the exec-server
    kill,     \* jobs whose latest command is to be terminated
    landed,   \* operations whose effect is complete (history)
    touched   \* operations that have changed a file (history)

client  == <<lock, stage, op, fetched, applied, kill>>
server  == <<files, proc, landed, touched>>
vars    == <<client, buf, server>>

Ended == {"ok", "failed", "abandoned"}
Active == {"requested", "truncated"}

TypeOK ==
    /\ files \in [Paths -> Content]
    /\ lock \in [Agents -> Jobs \cup {None}]
    /\ stage \in [Jobs -> {"idle", "lock", "run"} \cup Ended]
    /\ op \in [Jobs -> Nat \ {0}]
    /\ \A j \in Jobs : stage[j] \in {"lock", "run"} => op[j] \in DOMAIN Ops[j]
    /\ fetched \in [Jobs -> BOOLEAN]
    /\ buf \in [Jobs -> SUBSET Marks]
    /\ applied \in [Jobs -> SUBSET Nat]
    /\ proc \in [Jobs -> {"none", "done", "failed"} \cup Active]
    /\ kill \in SUBSET Jobs
    /\ landed \in [Jobs -> SUBSET Nat]
    /\ touched \in [Jobs -> SUBSET Nat]

Init ==
    /\ files = Initial
    /\ lock = [a \in Agents |-> None]
    /\ stage = [j \in Jobs |-> "idle"]
    /\ op = [j \in Jobs |-> 1]
    /\ fetched = [j \in Jobs |-> FALSE]
    /\ buf = [j \in Jobs |-> {}]
    /\ applied = [j \in Jobs |-> {}]
    /\ proc = [j \in Jobs |-> "none"]
    /\ kill = {}
    /\ landed = [j \in Jobs |-> {}]
    /\ touched = [j \in Jobs |-> {}]

Now(j) == Ops[j][op[j]]
Path(j) == Now(j).path

\* The command of the job's operation: an update reads its file first.
Command(j) ==
    IF Now(j).kind = "update" /\ ~fetched[j] THEN "read"
    ELSE IF Now(j).kind = "delete" THEN "delete" ELSE "write"

\* What one hunk makes of a content that has the lines it replaces.
Edit(content, o) == (content \ {o.old}) \cup {o.new}
ToWrite(j) == IF Now(j).kind = "add" THEN {Now(j).new} ELSE buf[j]

-----------------------------------------------------------------------------
(* _apply_patch_in_sandbox                                                 *)

\* A patch of no operations is applied at once.
Call(j) ==
    /\ stage[j] = "idle"
    /\ stage' = [stage EXCEPT ![j] = IF Ops[j] = <<>> THEN "ok" ELSE "lock"]
    /\ UNCHANGED <<lock, op, fetched, applied, kill, buf, server>>

LockIgnored(j) == TRUE                                               \* mutant
LockFree(j) == lock[AgentOf[j]] = None

Start(j) ==
    /\ stage[j] = "lock"
    /\ LockFree(j)
    /\ lock' = [lock EXCEPT ![AgentOf[j]] = j]
    /\ stage' = [stage EXCEPT ![j] = "run"]
    /\ proc' = [proc EXCEPT ![j] = "requested"]
    /\ UNCHANGED <<op, fetched, applied, kill, buf, files, landed, touched>>

Unlock(j) ==
    lock' = IF lock[AgentOf[j]] = j THEN [lock EXCEPT ![AgentOf[j]] = None] ELSE lock

\* A command that changes the file is looked at by its exit code.
AnyExit(j) == proc[j] \in {"done", "failed"}                         \* mutant
Succeeded(j) == proc[j] = "done"

\* The file was read: the hunks are applied to it, or do not fit.
Fetched(j) ==
    /\ Command(j) = "read"
    /\ IF proc[j] = "done" /\ Now(j).old \in buf[j]
       THEN /\ stage' = [stage EXCEPT ![j] = "lock"]
            /\ fetched' = [fetched EXCEPT ![j] = TRUE]
            /\ buf' = [buf EXCEPT ![j] = Edit(@, Now(j))]
       ELSE /\ stage' = [stage EXCEPT ![j] = "failed"]
            /\ UNCHANGED <<fetched, buf>>
    /\ UNCHANGED <<op, applied>>

PastLast(j) == op[j] > Len(Ops[j])                                    \* mutant
AtLast(j) == op[j] = Len(Ops[j])

\* The file was written or deleted: the operation is applied and the next one's
\* turn, or the patch fails there.
Changed(j) ==
    /\ Command(j) # "read"
    /\ IF Succeeded(j)
       THEN /\ applied' = [applied EXCEPT ![j] = @ \cup {op[j]}]
            /\ op' = [op EXCEPT ![j] = @ + 1]
            /\ fetched' = [fetched EXCEPT ![j] = FALSE]
            /\ stage' = [stage EXCEPT ![j] = IF AtLast(j) THEN "ok" ELSE "lock"]
       ELSE /\ stage' = [stage EXCEPT ![j] = "failed"]
            /\ UNCHANGED <<applied, op, fetched>>
    /\ UNCHANGED buf

Return(j) ==
    /\ stage[j] = "run"
    /\ proc[j] \in {"done", "failed"}
    /\ Fetched(j) \/ Changed(j)
    /\ Unlock(j)
    /\ UNCHANGED <<kill, server>>

\* 120 s are over: exit code 124 fails the patch, and the command is to be
\* terminated, which it may have no time to notice.
TimeOut(j) ==
    /\ stage[j] = "run"
    /\ stage' = [stage EXCEPT ![j] = "failed"]
    /\ kill' = kill \cup {j}
    /\ Unlock(j)
    /\ UNCHANGED <<op, fetched, applied, buf, server>>

\* The call is cancelled or its connection lost; the command is left to itself.
KeepLock(j) == UNCHANGED lock                                        \* mutant
GiveUp(j) == Unlock(j)

Abandon(j) ==
    /\ stage[j] \in {"lock", "run"}
    /\ stage' = [stage EXCEPT ![j] = "abandoned"]
    /\ GiveUp(j)
    /\ UNCHANGED <<op, fetched, applied, kill, buf, server>>

-----------------------------------------------------------------------------
(* The commands at the exec-server                                         *)

Fails(j) == proc' = [proc EXCEPT ![j] = "failed"]
Finishes(j) == proc' = [proc EXCEPT ![j] = "done"]

\* base64 < path
Read(j) ==
    /\ proc[j] = "requested" /\ Command(j) = "read"
    /\ \/ files[Path(j)] # Absent /\ Finishes(j) /\ buf' = [buf EXCEPT ![j] = files[Path(j)]]
       \/ Fails(j) /\ UNCHANGED buf
    /\ UNCHANGED <<client, files, landed, touched>>

Put(j, content) ==
    /\ files' = [files EXCEPT ![Path(j)] = content]
    /\ touched' = [touched EXCEPT ![j] = @ \cup {op[j]}]
Land(j) == landed' = [landed EXCEPT ![j] = @ \cup {op[j]}]

\* mkdir -p ... && printf ... | base64 -d > path: the shell empties the file ...
Truncate(j) ==
    /\ proc[j] = "requested" /\ Command(j) = "write"
    /\ \/ proc' = [proc EXCEPT ![j] = "truncated"] /\ Put(j, {})
       \/ Fails(j) /\ UNCHANGED <<files, touched>>
    /\ UNCHANGED <<client, buf, landed>>

\* ... before the decoder fills it, which may fail.
Fill(j) ==
    /\ proc[j] = "truncated"
    /\ \/ Put(j, ToWrite(j)) /\ Land(j) /\ Finishes(j)
       \/ Fails(j) /\ UNCHANGED <<files, touched, landed>>
    /\ UNCHANGED <<client, buf>>

\* rm -f path
Delete(j) ==
    /\ proc[j] = "requested" /\ Command(j) = "delete"
    /\ \/ Put(j, Absent) /\ Land(j) /\ Finishes(j)
       \/ Fails(j) /\ UNCHANGED <<files, touched, landed>>
    /\ UNCHANGED <<client, buf>>

Killed(j) ==
    /\ j \in kill
    /\ proc[j] \in Active
    /\ Fails(j)
    /\ UNCHANGED <<client, buf, files, landed, touched>>

-----------------------------------------------------------------------------
Server(j) == Read(j) \/ Truncate(j) \/ Fill(j) \/ Delete(j) \/ Killed(j)

Next ==
    \E j \in Jobs : Call(j) \/ Start(j) \/ Return(j) \/ TimeOut(j) \/ Abandon(j) \/ Server(j)

Spec == Init /\ [][Next]_vars

\* The event loop runs what can run, and a command's answer comes or its 120 s
\* pass; the exec-server need not do anything.
FairSpec ==
    Spec /\ \A j \in Jobs : WF_vars(Start(j)) /\ WF_vars(Return(j) \/ TimeOut(j))

-----------------------------------------------------------------------------
(* Properties                                                              *)

\* What a patch reports is what it did, however it ends and whatever else runs:
\* the operations before the one it stopped at are applied, to the last byte,
\* that one is in doubt, and no later one has changed a file.
ReportMatchesEffect ==
    \A j \in Jobs :
        /\ applied[j] = 1..(op[j] - 1)
        /\ applied[j] \subseteq landed[j]
        /\ touched[j] \subseteq applied[j] \cup {op[j]}
        /\ stage[j] = "ok" => applied[j] = DOMAIN Ops[j]

\* An update under way reads no file that a call of the same agent has emptied and
\* not yet filled, unless that call has timed out or was abandoned.
NoTornRead ==
    [][\A j, k \in Jobs :
           /\ stage[j] = "run" /\ proc[j] = "requested" /\ proc'[j] = "done"
           /\ Command(j) = "read"
           /\ proc[k] = "truncated" /\ Path(k) = Path(j)
           => AgentOf[k] # AgentOf[j] \/ stage[k] \in Ended]_vars

\* What an operation makes of the content of its file.
Outcome(o, content) ==
    IF o.kind = "add" THEN {o.new}
    ELSE IF o.kind = "delete" THEN Absent ELSE Edit(content, o)

\* The content of a path after the first n operations of a job that alone uses it.
Expected(j, p) ==
    LET content[n \in 0..Len(Ops[j])] ==
            IF n = 0 THEN Initial[p]
            ELSE IF Ops[j][n].path # p THEN content[n - 1]
            ELSE Outcome(Ops[j][n], content[n - 1])
    IN content

Sole(j, p) == \A k \in Jobs \ {j} : \A i \in DOMAIN Ops[k] : Ops[k][i].path # p

\* A path that only one job uses holds, at all times, what the operations reported
\* so far make of it, unless the operation under way is on it.
SolePathFollowsPatch ==
    \A j \in Jobs, p \in Paths :
        Sole(j, p) /\ (op[j] \in DOMAIN Ops[j] => Path(j) # p)
            => files[p] = Expected(j, p)[op[j] - 1]

\* Every patch ends, behind whatever calls of its agent it waits between its
\* operations, and though no command ever answers.
PatchesEnd == \A j \in Jobs : stage[j] = "lock" ~> stage[j] \in Ended

=============================================================================
