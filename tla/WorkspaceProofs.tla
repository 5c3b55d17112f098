--------------------------- MODULE WorkspaceProofs ---------------------------
(***************************************************************************)
(* For any number of patches by any number of agents on any files: the     *)
(* types, that a patch reports what it did, and that the lock of an agent  *)
(* keeps its patches from reading what another has half written.           *)
(***************************************************************************)
EXTENDS Workspace, SequenceFacts

-----------------------------------------------------------------------------
(* What the invariants need to be inductive                                *)

\* A command runs for the operation that its job is at; its job waits for it or
\* has ended, and holds the lock of its agent while it waits.
CommandHasJob ==
    \A j \in Jobs : proc[j] \in Active =>
        op[j] \in DOMAIN Ops[j] /\ stage[j] \in {"run"} \cup Ended

HolderRuns == \A j \in Jobs : stage[j] = "run" <=> lock[AgentOf[j]] = j

\* The effect of a command that is done is there when its job looks.
DoneHasLanded ==
    \A j \in Jobs : stage[j] = "run" /\ proc[j] = "done" /\ Command(j) # "read" =>
        op[j] \in landed[j]

IdleIsFresh == \A j \in Jobs : stage[j] = "idle" => op[j] = 1

IInv ==
    TypeOK /\ CommandHasJob /\ HolderRuns /\ DoneHasLanded /\ IdleIsFresh /\ ReportMatchesEffect

\* The operation of a job that is at one is well formed.
LEMMA OpTypes ==
    ASSUME NEW j \in Jobs, op[j] \in DOMAIN Ops[j]
    PROVE  /\ Now(j).new \in Marks /\ Now(j).old \in Marks
           /\ op[j] \in 1..Len(Ops[j]) /\ Len(Ops[j]) \in Nat
<1>1. Ops[j] \in Seq(Op)
  BY WorkspaceAssumption
<1>2. Now(j) \in Op
  BY <1>1 DEF Now
<1> QED
  BY <1>1, <1>2 DEF Op

\* Leaving the lock keeps its type and gives it to nobody.
LEMMA UnlockFacts ==
    ASSUME TypeOK, NEW j \in Jobs, Unlock(j)
    PROVE  /\ lock' \in [Agents -> Jobs \cup {None}]
           /\ lock'[AgentOf[j]] # j
           /\ \A k \in Jobs : k # j => (lock'[AgentOf[k]] = k <=> lock[AgentOf[k]] = k)
  BY WorkspaceAssumption DEF Unlock, TypeOK

-----------------------------------------------------------------------------
(* The shim                                                                *)

\* A call waits for the lock, or has nothing to do.
LEMMA CallStep ==
    ASSUME IInv, NEW j \in Jobs, Call(j)
    PROVE  IInv'
<1>a. TypeOK /\ CommandHasJob /\ HolderRuns /\ DoneHasLanded /\ IdleIsFresh /\ ReportMatchesEffect
  BY DEF IInv
<1>b. /\ stage[j] = "idle" /\ op[j] = 1
      /\ UNCHANGED <<lock, op, fetched, applied, kill, buf, files, proc, landed, touched>>
      /\ stage' = [stage EXCEPT ![j] = IF Ops[j] = <<>> THEN "ok" ELSE "lock"]
  BY <1>a DEF Call, server, IdleIsFresh
<1>c. DOMAIN Ops[j] = 1..Len(Ops[j]) /\ Len(Ops[j]) \in Nat
      /\ (Ops[j] = <<>> <=> Len(Ops[j]) = 0)
  <2>1. Ops[j] \in Seq(Op)
    BY WorkspaceAssumption
  <2> QED
    BY <2>1
<1>1. TypeOK'
  BY <1>a, <1>b, <1>c DEF TypeOK, Ended
<1>2. CommandHasJob'
  BY <1>a, <1>b DEF CommandHasJob, TypeOK, Ended
<1>3. HolderRuns' /\ IdleIsFresh'
  BY <1>a, <1>b DEF HolderRuns, IdleIsFresh, TypeOK
<1>4. DoneHasLanded'
  BY <1>a, <1>b DEF DoneHasLanded, Command, Now, TypeOK
<1>5. ReportMatchesEffect'
  <2>1. Ops[j] = <<>> => applied[j] = DOMAIN Ops[j]
    BY <1>a, <1>b, <1>c DEF ReportMatchesEffect
  <2> QED
    BY <1>a, <1>b, <2>1 DEF ReportMatchesEffect, TypeOK
<1> QED
  BY <1>1, <1>2, <1>3, <1>4, <1>5 DEF IInv

\* A command is requested by the job that takes the lock.
LEMMA StartStep ==
    ASSUME IInv, NEW j \in Jobs, Start(j)
    PROVE  IInv'
<1>a. TypeOK /\ CommandHasJob /\ HolderRuns /\ DoneHasLanded /\ IdleIsFresh /\ ReportMatchesEffect
  BY DEF IInv
<1>b. /\ stage[j] = "lock" /\ lock[AgentOf[j]] = None /\ op[j] \in DOMAIN Ops[j]
      /\ UNCHANGED <<op, fetched, applied, kill, buf, files, landed, touched>>
      /\ stage' = [stage EXCEPT ![j] = "run"]
      /\ lock' = [lock EXCEPT ![AgentOf[j]] = j]
      /\ proc' = [proc EXCEPT ![j] = "requested"]
  BY <1>a DEF Start, LockFree, TypeOK
<1>1. TypeOK'
  BY <1>a, <1>b DEF TypeOK, Active
<1>2. CommandHasJob'
  BY <1>a, <1>b DEF CommandHasJob, TypeOK, Active, Ended
<1>3. HolderRuns'
  BY <1>a, <1>b, WorkspaceAssumption DEF HolderRuns, TypeOK
<1>4. DoneHasLanded'
  BY <1>a, <1>b DEF DoneHasLanded, Command, Now, TypeOK
<1>5. IdleIsFresh' /\ ReportMatchesEffect'
  BY <1>a, <1>b DEF IdleIsFresh, ReportMatchesEffect, TypeOK
<1> QED
  BY <1>1, <1>2, <1>3, <1>4, <1>5 DEF IInv

\* However a job leaves its command without an answer, it changes nothing else.
LEMMA LeaveStep ==
    ASSUME IInv, NEW j \in Jobs, TimeOut(j) \/ Abandon(j)
    PROVE  IInv'
<1>a. TypeOK /\ CommandHasJob /\ HolderRuns /\ DoneHasLanded /\ IdleIsFresh /\ ReportMatchesEffect
  BY DEF IInv
<1>b. /\ stage[j] \in {"lock", "run"} /\ Unlock(j)
      /\ UNCHANGED <<op, fetched, applied, buf, files, proc, landed, touched>>
      /\ kill' \in SUBSET Jobs
      /\ \E how \in {"failed", "abandoned"} : stage' = [stage EXCEPT ![j] = how]
  BY <1>a DEF TimeOut, Abandon, GiveUp, server, TypeOK
<1>c. PICK how \in {"failed", "abandoned"} : stage' = [stage EXCEPT ![j] = how]
  BY <1>b
<1>d. /\ lock' \in [Agents -> Jobs \cup {None}] /\ lock'[AgentOf[j]] # j
      /\ \A k \in Jobs : k # j => (lock'[AgentOf[k]] = k <=> lock[AgentOf[k]] = k)
  BY <1>a, <1>b, UnlockFacts
<1>1. TypeOK'
  BY <1>a, <1>b, <1>c, <1>d DEF TypeOK, Ended
<1>2. CommandHasJob'
  BY <1>a, <1>b, <1>c DEF CommandHasJob, TypeOK, Ended
<1>3. HolderRuns'
  BY <1>a, <1>c, <1>d DEF HolderRuns, TypeOK
<1>4. DoneHasLanded'
  BY <1>a, <1>b, <1>c DEF DoneHasLanded, Command, Now, TypeOK
<1>5. IdleIsFresh' /\ ReportMatchesEffect'
  BY <1>a, <1>b, <1>c DEF IdleIsFresh, ReportMatchesEffect, TypeOK
<1> QED
  BY <1>1, <1>2, <1>3, <1>4, <1>5 DEF IInv

\* The answer to a command is looked at: a change that is reported has landed.
LEMMA ReturnStep ==
    ASSUME IInv, NEW j \in Jobs, Return(j)
    PROVE  IInv'
<1>a. TypeOK /\ CommandHasJob /\ HolderRuns /\ DoneHasLanded /\ IdleIsFresh /\ ReportMatchesEffect
  BY DEF IInv
<1>b. /\ stage[j] = "run" /\ proc[j] \in {"done", "failed"} /\ op[j] \in DOMAIN Ops[j]
      /\ UNCHANGED <<kill, files, proc, landed, touched>> /\ Unlock(j)
  BY <1>a DEF Return, server, TypeOK
<1>c. PICK how \in {"lock", "ok", "failed"} :
        /\ stage' = [stage EXCEPT ![j] = how]
        /\ \/ applied' = applied /\ op' = op /\ how # "ok"
           \/ /\ applied' = [applied EXCEPT ![j] = applied[j] \cup {op[j]}]
              /\ op' = [op EXCEPT ![j] = op[j] + 1]
              /\ how = IF op[j] = Len(Ops[j]) THEN "ok" ELSE "lock"
              /\ Command(j) # "read" /\ proc[j] = "done"
  BY <1>a, <1>b DEF Return, Fetched, Changed, Succeeded, AtLast
<1>d. /\ lock' \in [Agents -> Jobs \cup {None}] /\ lock'[AgentOf[j]] # j
      /\ \A k \in Jobs : k # j => (lock'[AgentOf[k]] = k <=> lock[AgentOf[k]] = k)
  BY <1>a, <1>b, UnlockFacts
<1>e. Now(j).new \in Marks /\ op[j] \in 1..Len(Ops[j]) /\ Len(Ops[j]) \in Nat
      /\ DOMAIN Ops[j] = 1..Len(Ops[j])
  BY <1>b, OpTypes, WorkspaceAssumption
<1>f. fetched' \in [Jobs -> BOOLEAN] /\ buf' \in [Jobs -> SUBSET Marks]
      /\ \A k \in Jobs : k # j => fetched'[k] = fetched[k]
  <2>1. Edit(buf[j], Now(j)) \in SUBSET Marks
    BY <1>a, <1>e DEF Edit, TypeOK
  <2>2. CASE Fetched(j)
    BY <1>a, <2>1, <2>2 DEF Fetched, TypeOK
  <2>3. CASE Changed(j)
    BY <1>a, <2>3 DEF Changed, TypeOK
  <2> QED
    BY <2>2, <2>3 DEF Return
<1>g. /\ \A k \in Jobs : k # j => stage'[k] = stage[k] /\ op'[k] = op[k] /\ applied'[k] = applied[k]
      /\ stage'[j] = how /\ op[j] \in Nat \ {0}
      /\ stage' \in [Jobs -> {"idle", "lock", "run"} \cup Ended]
      /\ op' \in [Jobs -> Nat \ {0}] /\ applied' \in [Jobs -> SUBSET Nat]
  <2>1. /\ \A k \in Jobs : k # j => stage'[k] = stage[k]
        /\ stage'[j] = how /\ op[j] \in Nat \ {0}
        /\ stage' \in [Jobs -> {"idle", "lock", "run"} \cup Ended]
    BY <1>a, <1>c DEF TypeOK, Ended
  <2>2. CASE applied' = applied /\ op' = op
    BY <1>a, <2>1, <2>2 DEF TypeOK
  <2>3. CASE /\ applied' = [applied EXCEPT ![j] = applied[j] \cup {op[j]}]
             /\ op' = [op EXCEPT ![j] = op[j] + 1]
    <3>1. applied[j] \cup {op[j]} \in SUBSET Nat /\ op[j] + 1 \in Nat \ {0}
      BY <1>a, <2>1 DEF TypeOK
    <3> QED
      BY <1>a, <2>1, <2>3, <3>1 DEF TypeOK
  <2> QED
    BY <1>c, <2>1, <2>2, <2>3
<1>h. /\ how # "ok" => op'[j] \in DOMAIN Ops[j]
      /\ proc[j] \notin Active
  <2>1. proc[j] \notin Active
    BY <1>b DEF Active
  <2>2. CASE op' = op
    BY <1>b, <2>1, <2>2
  <2>3. CASE op' = [op EXCEPT ![j] = op[j] + 1]
               /\ how = IF op[j] = Len(Ops[j]) THEN "ok" ELSE "lock"
    <3>1. op'[j] = op[j] + 1
      BY <1>a, <2>3 DEF TypeOK
    <3> QED
      BY <1>e, <2>1, <2>3, <3>1
  <2> QED
    BY <1>c, <2>2, <2>3
<1>1. TypeOK'
  BY <1>a, <1>b, <1>d, <1>f, <1>g, <1>h DEF TypeOK
<1>2. CommandHasJob'
  BY <1>a, <1>b, <1>g, <1>h DEF CommandHasJob
<1>3. HolderRuns' /\ IdleIsFresh'
  BY <1>a, <1>d, <1>g DEF HolderRuns, IdleIsFresh
<1>4. DoneHasLanded'
  BY <1>a, <1>b, <1>f, <1>g DEF DoneHasLanded, Command, Now
<1>5. ReportMatchesEffect'
  <2>1. CASE applied' = applied /\ op' = op /\ how # "ok"
    BY <1>a, <1>b, <1>g, <2>1 DEF ReportMatchesEffect
  <2>2. CASE /\ applied' = [applied EXCEPT ![j] = applied[j] \cup {op[j]}]
             /\ op' = [op EXCEPT ![j] = op[j] + 1]
             /\ how = IF op[j] = Len(Ops[j]) THEN "ok" ELSE "lock"
             /\ Command(j) # "read" /\ proc[j] = "done"
    <3>1. applied'[j] = applied[j] \cup {op[j]} /\ op'[j] = op[j] + 1
      BY <1>a, <2>2 DEF TypeOK
    <3>2. op[j] \in landed[j]
      BY <1>a, <1>b, <2>2 DEF DoneHasLanded
    <3>3. applied[j] = 1..(op[j] - 1) /\ applied[j] \subseteq landed[j]
          /\ touched[j] \subseteq applied[j] \cup {op[j]}
      BY <1>a DEF ReportMatchesEffect
    <3>4. applied'[j] = 1..op[j] /\ op'[j] - 1 = op[j]
      BY <1>g, <3>1, <3>3
    <3>5. how = "ok" => applied'[j] = DOMAIN Ops[j]
      BY <1>e, <2>2, <3>4
    <3> QED
      BY <1>a, <1>b, <1>g, <3>1, <3>2, <3>3, <3>4, <3>5 DEF ReportMatchesEffect
  <2> QED
    BY <1>c, <2>1, <2>2
<1> QED
  BY <1>1, <1>2, <1>3, <1>4, <1>5 DEF IInv

-----------------------------------------------------------------------------
(* The commands                                                            *)

\* What a command may do, whichever it is: it is one for the operation its job is
\* at, it touches the file of that operation only, and it is done with its effect.
LEMMA CommandFacts ==
    ASSUME IInv, NEW j \in Jobs, Server(j)
    PROVE  /\ UNCHANGED <<lock, stage, op, fetched, applied, kill>>
           /\ proc[j] \in Active
           /\ \A k \in Jobs : k # j => proc'[k] = proc[k] /\ landed'[k] = landed[k]
                                        /\ touched'[k] = touched[k]
           /\ proc' \in [Jobs -> {"none", "done", "failed"} \cup Active]
           /\ landed[j] \subseteq landed'[j] /\ landed' \in [Jobs -> SUBSET Nat]
           /\ touched'[j] \subseteq touched[j] \cup {op[j]} /\ touched' \in [Jobs -> SUBSET Nat]
           /\ proc'[j] = "done" /\ Command(j) # "read" => op[j] \in landed'[j]
           /\ files' \in [Paths -> Content] /\ buf' \in [Jobs -> SUBSET Marks]
<1>a. TypeOK /\ CommandHasJob /\ op[j] \in Nat
  BY DEF IInv, TypeOK
<1>b. landed[j] \cup {op[j]} \in SUBSET Nat /\ touched[j] \cup {op[j]} \in SUBSET Nat
  BY <1>a DEF TypeOK
<1>c. proc[j] \in Active => Now(j).new \in Marks
  BY <1>a, OpTypes DEF CommandHasJob
<1>1. CASE Read(j)
  <2>1. buf' \in [Jobs -> SUBSET Marks]
    <3>1. CASE files[Path(j)] # Absent /\ buf' = [buf EXCEPT ![j] = files[Path(j)]]
      <4>1. Now(j).path \in Paths
        <5>1. op[j] \in DOMAIN Ops[j] /\ Ops[j] \in Seq(Op)
          BY <1>1, <1>a, WorkspaceAssumption DEF Read, CommandHasJob, Active
        <5>2. Ops[j][op[j]] \in Op
          BY <5>1
        <5> QED
          BY <5>2 DEF Now, Op
      <4>2. files[Path(j)] \in SUBSET Marks
        BY <1>a, <3>1, <4>1 DEF TypeOK, Path, Content
      <4> QED
        BY <1>a, <3>1, <4>2 DEF TypeOK
    <3>2. CASE buf' = buf
      BY <1>a, <3>2 DEF TypeOK
    <3> QED
      BY <1>1, <3>1, <3>2 DEF Read
  <2> QED
    BY <1>1, <1>a, <2>1 DEF Read, client, Finishes, Fails, TypeOK, Active
<1>2. CASE Truncate(j)
  <2>1. {} \in Content
    BY DEF Content
  <2>2. CASE proc' = [proc EXCEPT ![j] = "truncated"] /\ Put(j, {})
    BY <1>2, <1>a, <1>b, <2>1, <2>2 DEF Truncate, client, Put, TypeOK, Active
  <2>3. CASE Fails(j) /\ UNCHANGED <<files, touched>>
    BY <1>2, <1>a, <2>3 DEF Truncate, client, Fails, TypeOK, Active
  <2> QED
    BY <1>2, <2>2, <2>3 DEF Truncate
<1>3. CASE Fill(j)
  <2>1. ToWrite(j) \in Content
    BY <1>3, <1>a, <1>c DEF Fill, ToWrite, TypeOK, Content, Active
  <2>2. CASE Put(j, ToWrite(j)) /\ Land(j) /\ Finishes(j)
    BY <1>3, <1>a, <1>b, <2>1, <2>2 DEF Fill, client, Put, Land, Finishes, TypeOK, Active
  <2>3. CASE Fails(j) /\ UNCHANGED <<files, touched, landed>>
    BY <1>3, <1>a, <2>3 DEF Fill, client, Fails, TypeOK, Active
  <2> QED
    BY <1>3, <2>2, <2>3 DEF Fill
<1>4. CASE Delete(j)
  <2>1. Absent \in Content
    BY DEF Content
  <2>2. CASE Put(j, Absent) /\ Land(j) /\ Finishes(j)
    BY <1>4, <1>a, <1>b, <2>1, <2>2 DEF Delete, client, Put, Land, Finishes, TypeOK, Active
  <2>3. CASE Fails(j) /\ UNCHANGED <<files, touched, landed>>
    BY <1>4, <1>a, <2>3 DEF Delete, client, Fails, TypeOK, Active
  <2> QED
    BY <1>4, <2>2, <2>3 DEF Delete
<1>5. CASE Killed(j)
  BY <1>5, <1>a DEF Killed, client, Fails, TypeOK, Active
<1> QED
  BY <1>1, <1>2, <1>3, <1>4, <1>5 DEF Server

\* A command keeps the invariant.
LEMMA ServerStep ==
    ASSUME IInv, NEW j \in Jobs, Server(j)
    PROVE  IInv'
<1>a. TypeOK /\ CommandHasJob /\ HolderRuns /\ DoneHasLanded /\ IdleIsFresh /\ ReportMatchesEffect
  BY DEF IInv
<1>b. /\ UNCHANGED <<lock, stage, op, fetched, applied, kill>>
      /\ proc[j] \in Active
      /\ \A k \in Jobs : k # j => proc'[k] = proc[k] /\ landed'[k] = landed[k]
                                   /\ touched'[k] = touched[k]
      /\ proc' \in [Jobs -> {"none", "done", "failed"} \cup Active]
      /\ landed[j] \subseteq landed'[j] /\ landed' \in [Jobs -> SUBSET Nat]
      /\ touched'[j] \subseteq touched[j] \cup {op[j]} /\ touched' \in [Jobs -> SUBSET Nat]
      /\ proc'[j] = "done" /\ Command(j) # "read" => op[j] \in landed'[j]
      /\ files' \in [Paths -> Content] /\ buf' \in [Jobs -> SUBSET Marks]
  BY CommandFacts
<1>1. TypeOK'
  BY <1>a, <1>b DEF TypeOK
<1>2. CommandHasJob'
  BY <1>a, <1>b DEF CommandHasJob
<1>3. HolderRuns' /\ IdleIsFresh'
  BY <1>a, <1>b DEF HolderRuns, IdleIsFresh
<1>4. DoneHasLanded'
  BY <1>a, <1>b DEF DoneHasLanded, Command, Now
<1>5. ReportMatchesEffect'
  BY <1>a, <1>b DEF ReportMatchesEffect
<1> QED
  BY <1>1, <1>2, <1>3, <1>4, <1>5 DEF IInv

-----------------------------------------------------------------------------
(* The theorems                                                            *)

\* Before any call nothing is changed and nothing reported.
LEMMA InitIInv == Init => IInv
<1> SUFFICES ASSUME Init
             PROVE  IInv
  OBVIOUS
<1>1. TypeOK
  BY WorkspaceAssumption DEF Init, TypeOK
<1>2. HolderRuns
  BY WorkspaceAssumption DEF Init, HolderRuns
<1>3. CommandHasJob /\ DoneHasLanded /\ IdleIsFresh
  BY DEF Init, CommandHasJob, DoneHasLanded, IdleIsFresh, Active
<1>4. ReportMatchesEffect
  <2>1. 1..(1 - 1) = {}
    OBVIOUS
  <2> QED
    BY <2>1 DEF Init, ReportMatchesEffect
<1> QED
  BY <1>1, <1>2, <1>3, <1>4 DEF IInv

\* Every step keeps the invariant.
LEMMA NextIInv == IInv /\ [Next]_vars => IInv'
<1> SUFFICES ASSUME IInv, [Next]_vars
             PROVE  IInv'
  OBVIOUS
<1>1. CASE UNCHANGED vars
  BY <1>1 DEF IInv, TypeOK, CommandHasJob, HolderRuns, DoneHasLanded, IdleIsFresh,
     ReportMatchesEffect, Command, Now, vars, client, server
<1> QED
  BY <1>1, CallStep, StartStep, ReturnStep, LeaveStep, ServerStep DEF Next

\* Files and jobs keep their types; a job that waits for the lock or for a command
\* is at an operation that its patch has.
THEOREM TypeCorrect == Spec => []TypeOK
<1>1. IInv => TypeOK
  BY DEF IInv
<1> QED
  BY <1>1, InitIInv, NextIInv, PTL DEF Spec

\* A patch reports as applied exactly the operations whose effect is complete, but
\* for the one it stopped at, and has touched no file for a later one.
THEOREM ReportsAreTrue == Spec => []ReportMatchesEffect
<1>1. IInv => ReportMatchesEffect
  BY DEF IInv
<1> QED
  BY <1>1, InitIInv, NextIInv, PTL DEF Spec

\* No update reads a file that a live call of its own agent has emptied and not yet
\* filled: both would hold the lock of the agent's connection.
THEOREM LockPreventsTornReads == Spec => NoTornRead
<1>1. IInv /\ [Next]_vars =>
        [\A j, k \in Jobs :
           /\ stage[j] = "run" /\ proc[j] = "requested" /\ proc'[j] = "done"
           /\ Command(j) = "read"
           /\ proc[k] = "truncated" /\ Path(k) = Path(j)
           => AgentOf[k] # AgentOf[j] \/ stage[k] \in Ended]_vars
  <2> SUFFICES ASSUME IInv, NEW j \in Jobs, NEW k \in Jobs,
                      stage[j] = "run", proc[j] = "requested", proc[k] = "truncated",
                      AgentOf[k] = AgentOf[j]
               PROVE  stage[k] \in Ended
    OBVIOUS
  <2>1. stage[k] \in {"run"} \cup Ended
    BY DEF IInv, CommandHasJob, Active
  <2>2. stage[k] = "run" => k = j
    BY DEF IInv, HolderRuns
  <2> QED
    BY <2>1, <2>2
<1> QED
  BY <1>1, InitIInv, NextIInv, PTL DEF Spec, NoTornRead

-----------------------------------------------------------------------------
(* The path that one job uses alone                                        *)

\* A file that has been emptied is being written.
TruncatedWrites == \A j \in Jobs : proc[j] = "truncated" => Command(j) = "write"

IdleHasNotRead == \A j \in Jobs : stage[j] = "idle" => ~fetched[j]

\* A job is at an operation on the path that has ended or that may have begun to
\* change it.
InDoubt(j, p) ==
    /\ op[j] \in DOMAIN Ops[j] /\ Path(j) = p
    /\ \/ stage[j] \in Ended
       \/ stage[j] = "run" /\ Command(j) # "read" /\ proc[j] # "requested"

\* The path, through the operations of the job: as expected unless in doubt, as
\* expected after a change that is done; and what an update on it has read, and made
\* of that to write.
Follows(j, p) ==
    /\ ~InDoubt(j, p) => files[p] = Expected(j, p)[op[j] - 1]
    /\ op[j] \in DOMAIN Ops[j] /\ Path(j) = p =>
        /\ stage[j] = "run" /\ proc[j] = "done" =>
              IF Command(j) = "read" THEN buf[j] = files[p]
              ELSE files[p] = Expected(j, p)[op[j]]
        /\ stage[j] \notin Ended /\ fetched[j] =>
              Now(j).kind = "update" /\ buf[j] = Expected(j, p)[op[j]]

SoleFollows == \A j \in Jobs, p \in Paths : Sole(j, p) => Follows(j, p)

PathInv == IInv /\ TruncatedWrites /\ IdleHasNotRead /\ SoleFollows

\* The recursive function of Expected, up to n.
Contents(f, ops, first, p, n) ==
    f = [m \in 0..n |-> IF m = 0 THEN first
                        ELSE IF ops[m].path # p THEN f[m - 1] ELSE Outcome(ops[m], f[m - 1])]

\* It exists, up to every n.
LEMMA ContentsExist ==
    ASSUME NEW ops, NEW first, NEW p, NEW n \in Nat
    PROVE  \E f : Contents(f, ops, first, p, n)
<1>. DEFINE UpTo(f, k) == Contents(f, ops, first, p, k)
            G == {k \in 0..n : \E f : UpTo(f, k)}
<1>1. 0 \in G
  <2>. DEFINE one == [m \in 0..0 |-> first]
  <2>1. UpTo(one, 0)
    BY DEF Contents
  <2>. HIDE DEF UpTo, one
  <2>. QED
    BY <2>1
<1>2. ASSUME NEW k \in 1..n, k - 1 \in G
      PROVE  k \in G
  <2>1. PICK e : UpTo(e, k - 1)
    BY <1>2
  <2>. DEFINE new == IF ops[k].path # p THEN e[k - 1] ELSE Outcome(ops[k], e[k - 1])
              g == [m \in 0..k |-> IF m = k THEN new ELSE e[m]]
  <2>2. ASSUME NEW m \in 0..k
        PROVE  g[m] = IF m = 0 THEN first
                      ELSE IF ops[m].path # p THEN g[m - 1] ELSE Outcome(ops[m], g[m - 1])
    <3>1. CASE m = k
      <4>1. g[k - 1] = e[k - 1] /\ g[m] = new /\ m # 0
        BY <3>1
      <4>. HIDE DEF UpTo, g
      <4>. QED
        BY <3>1, <4>1
    <3>2. CASE m # k
      <4>1. m \in 0..k - 1 /\ g[m] = e[m] /\ (m # 0 => g[m - 1] = e[m - 1])
        BY <3>2
      <4>2. e[m] = IF m = 0 THEN first
                   ELSE IF ops[m].path # p THEN e[m - 1] ELSE Outcome(ops[m], e[m - 1])
        BY <2>1, <4>1 DEF Contents
      <4>. HIDE DEF UpTo, g
      <4>. QED
        BY <4>1, <4>2
    <3>. QED
      BY <3>1, <3>2
  <2>3. UpTo(g, k)
    BY <2>2 DEF Contents
  <2>. HIDE DEF UpTo, g
  <2>. QED
    BY <2>3
<1>3. \A k \in 0..n : k \in G
  <2>. HIDE DEF G
  <2>. QED
    BY <1>1, <1>2, InductionUpTo
<1>4. \E f : UpTo(f, n)
  <2>. HIDE DEF UpTo
  <2>. QED
    BY <1>3
<1>. QED
  BY <1>4

\* Operation by operation, what the path is expected to hold.
LEMMA ExpectedSteps ==
    ASSUME NEW j \in Jobs, NEW p \in Paths
    PROVE  /\ Expected(j, p)[0] = Initial[p]
           /\ \A n \in DOMAIN Ops[j] :
                 Expected(j, p)[n] = IF Ops[j][n].path # p THEN Expected(j, p)[n - 1]
                                     ELSE Outcome(Ops[j][n], Expected(j, p)[n - 1])
<1>1. Len(Ops[j]) \in Nat /\ DOMAIN Ops[j] = 1..Len(Ops[j])
  <2>1. Ops[j] \in Seq(Op)
    BY WorkspaceAssumption
  <2>. QED
    BY <2>1
<1>. DEFINE chosen == CHOOSE f : Contents(f, Ops[j], Initial[p], p, Len(Ops[j]))
<1>2. Contents(chosen, Ops[j], Initial[p], p, Len(Ops[j]))
  BY <1>1, ContentsExist
<1>3. Expected(j, p) = chosen
  BY DEF Expected, Contents
<1>. HIDE DEF chosen
<1>. QED
  BY <1>1, <1>2, <1>3 DEF Contents

\* A step that leaves the path and the job alone.
LEMMA PathUntouched ==
    ASSUME NEW j \in Jobs, NEW p \in Paths, Follows(j, p),
           files'[p] = files[p], op'[j] = op[j], stage'[j] = stage[j],
           fetched'[j] = fetched[j], buf'[j] = buf[j], proc'[j] = proc[j]
    PROVE  Follows(j, p)'
  BY DEF Follows, InDoubt, Path, Now, Command

\* No other job has an operation on the path.
LEMMA OthersElsewhere ==
    ASSUME NEW j \in Jobs, NEW p \in Paths, Sole(j, p), NEW k \in Jobs, k # j,
           op[k] \in DOMAIN Ops[k]
    PROVE  Path(k) # p
  BY DEF Sole, Path, Now

LEMMA OtherJobStep ==
    ASSUME PathInv, NEW j \in Jobs, NEW p \in Paths, Sole(j, p), NEW k \in Jobs, k # j,
           Call(k) \/ Start(k) \/ Return(k) \/ TimeOut(k) \/ Abandon(k) \/ Server(k)
    PROVE  Follows(j, p)'
<1>1. TypeOK /\ CommandHasJob /\ Follows(j, p)
  BY DEF PathInv, IInv, SoleFollows
<1>2. CASE Call(k)
  BY <1>1, <1>2, PathUntouched DEF Call, server, TypeOK
<1>3. CASE Start(k)
  BY <1>1, <1>3, PathUntouched DEF Start, TypeOK
<1>4. CASE TimeOut(k) \/ Abandon(k)
  BY <1>1, <1>4, PathUntouched DEF TimeOut, Abandon, server, TypeOK
<1>5. CASE Return(k)
  <2>1. /\ files' = files /\ proc' = proc /\ stage'[j] = stage[j] /\ op'[j] = op[j]
        /\ fetched'[j] = fetched[j] /\ buf'[j] = buf[j]
    <3>1. CASE Fetched(k)
      BY <1>1, <1>5, <3>1 DEF Return, Fetched, server, TypeOK
    <3>2. CASE Changed(k)
      BY <1>1, <1>5, <3>2 DEF Return, Changed, server, TypeOK
    <3>. QED
      BY <1>5, <3>1, <3>2 DEF Return
  <2>. QED
    BY <1>1, <2>1, PathUntouched
<1>6. CASE Server(k)
  <2>1. /\ UNCHANGED <<stage, op, fetched>> /\ proc'[j] = proc[j] /\ proc[k] \in Active
    BY <1>6, CommandFacts DEF PathInv
  <2>2. Path(k) # p
    BY <1>1, <2>1, OthersElsewhere DEF CommandHasJob
  <2>3. ASSUME NEW content, Put(k, content) PROVE files'[p] = files[p]
    BY <1>1, <2>2, <2>3 DEF Put, TypeOK
  <2>4. files'[p] = files[p] /\ buf'[j] = buf[j]
    BY <1>1, <1>6, <2>3 DEF Server, Read, Truncate, Fill, Delete, Killed, TypeOK
  <2>. QED
    BY <1>1, <2>1, <2>4, PathUntouched
<1>. QED
  BY <1>2, <1>3, <1>4, <1>5, <1>6

\* The job waits for its lock, sends a command, or leaves the operation in doubt.
LEMMA OwnWaitStep ==
    ASSUME PathInv, NEW j \in Jobs, NEW p \in Paths, Sole(j, p),
           Call(j) \/ Start(j) \/ TimeOut(j) \/ Abandon(j)
    PROVE  Follows(j, p)'
<1>1. TypeOK /\ IdleIsFresh /\ IdleHasNotRead /\ Follows(j, p)
  BY DEF PathInv, IInv, SoleFollows
<1>2. CASE Call(j)
  <2>1. /\ stage[j] = "idle" /\ ~fetched[j] /\ op[j] = 1
        /\ UNCHANGED <<op, fetched, buf, files, proc>>
        /\ stage'[j] = IF Ops[j] = <<>> THEN "ok" ELSE "lock"
    BY <1>1, <1>2 DEF Call, server, IdleIsFresh, IdleHasNotRead, TypeOK
  <2>2. Ops[j] = <<>> => DOMAIN Ops[j] = {}
    OBVIOUS
  <2>3. stage'[j] = "lock" \/ op[j] \notin DOMAIN Ops[j]
    BY <2>1, <2>2
  <2>4. ~InDoubt(j, p) /\ ~InDoubt(j, p)'
    BY <2>1, <2>3 DEF InDoubt, Ended
  <2>. QED
    BY <1>1, <2>1, <2>3, <2>4 DEF Follows, Path, Now, Command
<1>3. CASE Start(j)
  <2>1. /\ stage[j] = "lock" /\ stage'[j] = "run" /\ proc'[j] = "requested"
        /\ UNCHANGED <<op, fetched, buf, files>>
    BY <1>1, <1>3 DEF Start, TypeOK
  <2>2. ~InDoubt(j, p) /\ ~InDoubt(j, p)'
    BY <2>1 DEF InDoubt, Ended
  <2>. QED
    BY <1>1, <2>1, <2>2 DEF Follows, Path, Now, Command, Ended
<1>4. CASE TimeOut(j) \/ Abandon(j)
  <2>1. /\ stage'[j] \in Ended /\ UNCHANGED <<op, fetched, buf, files, proc>>
    BY <1>1, <1>4 DEF TimeOut, Abandon, server, TypeOK, Ended
  <2>2. op[j] \in DOMAIN Ops[j] /\ Path(j) = p => InDoubt(j, p)'
    BY <2>1 DEF InDoubt, Path, Now
  <2>3. ~(op[j] \in DOMAIN Ops[j] /\ Path(j) = p) => ~InDoubt(j, p)
    BY DEF InDoubt
  <2>4. stage'[j] # "run"
    BY <2>1 DEF Ended
  <2>. QED
    BY <1>1, <2>1, <2>2, <2>3, <2>4 DEF Follows, Path, Now, Command
<1>. QED
  BY <1>2, <1>3, <1>4

\* The job looks at its command: the hunks are applied to what was read, or the change
\* that is done takes the job to its next operation.
LEMMA OwnReturnStep ==
    ASSUME PathInv, NEW j \in Jobs, NEW p \in Paths, Sole(j, p), Return(j)
    PROVE  Follows(j, p)'
<1>1. TypeOK /\ Follows(j, p)
  BY DEF PathInv, IInv, SoleFollows
<1>2. /\ stage[j] = "run" /\ proc[j] \in {"done", "failed"} /\ op[j] \in DOMAIN Ops[j]
      /\ files' = files /\ proc' = proc
  BY <1>1 DEF Return, server, TypeOK
<1>3. ASSUME stage'[j] = "failed", UNCHANGED <<op, fetched, buf>>
      PROVE  Follows(j, p)'
  <2>1. Path(j) = p => InDoubt(j, p)'
    BY <1>2, <1>3 DEF InDoubt, Path, Now, Ended
  <2>2. Path(j) # p => ~InDoubt(j, p)
    BY DEF InDoubt
  <2>. QED
    BY <1>1, <1>2, <1>3, <2>1, <2>2 DEF Follows, Path, Now, Command, Ended
<1>4. CASE Fetched(j)
  <2>1. CASE proc[j] = "done" /\ Now(j).old \in buf[j]
    <3>1. /\ Command(j) = "read" /\ stage'[j] = "lock" /\ fetched'[j] = TRUE /\ op' = op
          /\ buf'[j] = Edit(buf[j], Now(j))
      BY <1>1, <1>4, <2>1 DEF Fetched, TypeOK
    <3>2. ~InDoubt(j, p) /\ ~InDoubt(j, p)'
      BY <1>2, <3>1 DEF InDoubt, Ended
    <3>3. ASSUME Path(j) = p
          PROVE  Now(j).kind = "update" /\ buf'[j] = Expected(j, p)[op[j]]
      <4>1. Now(j).kind = "update"
        BY <3>1 DEF Command
      <4>2. buf[j] = Expected(j, p)[op[j] - 1]
        BY <1>1, <1>2, <2>1, <3>1, <3>2, <3>3 DEF Follows
      <4>3. Expected(j, p)[op[j]] = Outcome(Now(j), Expected(j, p)[op[j] - 1])
        BY <1>2, <3>3, ExpectedSteps DEF Path, Now
      <4>. QED
        BY <3>1, <4>1, <4>2, <4>3 DEF Outcome
    <3>. QED
      BY <1>1, <1>2, <3>1, <3>2, <3>3 DEF Follows, Path, Now, Command
  <2>2. CASE ~(proc[j] = "done" /\ Now(j).old \in buf[j])
    BY <1>1, <1>3, <1>4, <2>2 DEF Fetched, TypeOK
  <2>. QED
    BY <2>1, <2>2
<1>5. CASE Changed(j)
  <2>1. CASE Succeeded(j)
    <3>1. /\ Command(j) # "read" /\ proc[j] = "done" /\ op'[j] = op[j] + 1
          /\ fetched'[j] = FALSE /\ buf' = buf
          /\ stage'[j] = IF op[j] = Len(Ops[j]) THEN "ok" ELSE "lock"
      BY <1>1, <1>5, <2>1 DEF Changed, Succeeded, AtLast, TypeOK
    <3>2. files[p] = Expected(j, p)[op[j]]
      <4>1. CASE Path(j) = p
        BY <1>1, <1>2, <3>1, <4>1 DEF Follows
      <4>2. CASE Path(j) # p
        <5>1. files[p] = Expected(j, p)[op[j] - 1]
          BY <1>1, <4>2 DEF Follows, InDoubt
        <5>. QED
          BY <1>2, <4>2, <5>1, ExpectedSteps DEF Path, Now
      <4>. QED
        BY <4>1, <4>2
    <3>3. op'[j] - 1 = op[j]
      BY <1>1, <3>1 DEF TypeOK
    <3>4. stage'[j] # "run"
      BY <3>1
    <3>. QED
      BY <1>2, <3>1, <3>2, <3>3, <3>4 DEF Follows, Path, Now, Command
  <2>2. CASE ~Succeeded(j)
    BY <1>1, <1>3, <1>5, <2>2 DEF Changed, TypeOK
  <2>. QED
    BY <2>1, <2>2
<1>. QED
  BY <1>4, <1>5 DEF Return

\* The command of the job reads the path, or changes it as the operation says.
LEMMA OwnServerStep ==
    ASSUME PathInv, NEW j \in Jobs, NEW p \in Paths, Sole(j, p), Server(j)
    PROVE  Follows(j, p)'
<1>1. TypeOK /\ Follows(j, p) /\ CommandHasJob /\ TruncatedWrites
  BY DEF PathInv, IInv, SoleFollows
<1>2. /\ UNCHANGED <<stage, op, fetched>> /\ proc[j] \in Active
      /\ op[j] \in DOMAIN Ops[j] /\ stage[j] \in {"run"} \cup Ended
  BY <1>1, CommandFacts DEF PathInv, CommandHasJob
<1>3. CASE Path(j) # p
  <2>1. ASSUME NEW content, Put(j, content) PROVE files'[p] = files[p]
    BY <1>1, <1>3, <2>1 DEF Put, TypeOK
  <2>2. files'[p] = files[p]
    BY <2>1 DEF Server, Read, Truncate, Fill, Delete, Killed
  <2>3. ~InDoubt(j, p)
    BY <1>3 DEF InDoubt
  <2>4. op' = op /\ (Path(j) # p)'
    BY <1>2, <1>3 DEF Path, Now
  <2>. QED
    BY <1>1, <2>2, <2>3, <2>4 DEF Follows
<1>4. CASE Path(j) = p /\ stage[j] \in Ended
  <2>1. InDoubt(j, p)'
    BY <1>2, <1>4 DEF InDoubt, Path, Now
  <2>2. stage'[j] \in Ended /\ stage'[j] # "run"
    BY <1>2, <1>4 DEF Ended
  <2>. QED
    BY <2>1, <2>2 DEF Follows
<1>5. CASE Path(j) = p /\ stage[j] = "run"
  <2>1. Command(j)' = Command(j) /\ Path(j)' = p /\ stage'[j] = "run" /\ stage[j] \notin Ended
    BY <1>2, <1>5 DEF Command, Path, Now, Ended
  <2>2. p \in DOMAIN files
    BY <1>1 DEF TypeOK
  <2>3. Command(j) # "read" => Expected(j, p)[op[j]] = Outcome(Now(j), Expected(j, p)[op[j] - 1])
    BY <1>2, <1>5, ExpectedSteps DEF Path, Now
  <2>4. CASE Read(j)
    <3>1. files' = files /\ Command(j) = "read" /\ (proc'[j] = "done" => buf'[j] = files[p])
      BY <1>1, <1>5, <2>4 DEF Read, Finishes, Fails, TypeOK
    <3>2. ~fetched[j]
      BY <3>1 DEF Command
    <3>3. ~InDoubt(j, p)
      BY <1>5, <3>1 DEF InDoubt, Ended
    <3>. QED
      BY <1>1, <1>2, <2>1, <3>1, <3>2, <3>3 DEF Follows
  <2>5. ASSUME Command(j) # "read", proc'[j] # "requested", buf' = buf,
               proc'[j] = "done" => files'[p] = Expected(j, p)[op[j]]
        PROVE  Follows(j, p)'
    <3>1. InDoubt(j, p)'
      BY <1>2, <2>1, <2>5 DEF InDoubt
    <3>2. fetched[j] => Now(j).kind = "update" /\ buf[j] = Expected(j, p)[op[j]]
      BY <1>1, <1>2, <1>5, <2>1 DEF Follows
    <3>3. Now(j)' = Now(j)
      BY <1>2 DEF Now
    <3>. QED
      BY <1>2, <2>1, <2>5, <3>1, <3>2, <3>3 DEF Follows
  <2>6. CASE Truncate(j)
    <3>1. Command(j) = "write" /\ proc'[j] \in {"truncated", "failed"} /\ buf' = buf
      BY <1>1, <2>6 DEF Truncate, Fails, TypeOK
    <3>. QED
      BY <2>5, <3>1
  <2>7. CASE Fill(j)
    <3>1. Command(j) = "write" /\ proc'[j] \in {"done", "failed"} /\ buf' = buf
      BY <1>1, <2>7 DEF Fill, Fails, Finishes, TypeOK, TruncatedWrites
    <3>2. proc'[j] = "done" => files'[p] = ToWrite(j)
      BY <1>1, <1>5, <2>2, <2>7 DEF Fill, Fails, Put, TypeOK
    <3>3. ToWrite(j) = Expected(j, p)[op[j]]
      <4>1. CASE Now(j).kind = "add"
        BY <2>3, <3>1, <4>1 DEF ToWrite, Outcome
      <4>2. CASE Now(j).kind # "add"
        <5>1. fetched[j]
          <6>1. Now(j).kind \in {"add", "update", "delete"}
            <7>1. Ops[j] \in Seq(Op)
              BY WorkspaceAssumption
            <7>2. Now(j) \in Op
              BY <1>2, <7>1 DEF Now
            <7>. QED
              BY <7>2 DEF Op
          <6>. QED
            BY <1>1, <3>1, <4>2, <6>1 DEF Command, TypeOK
        <5>. QED
          BY <1>1, <1>2, <1>5, <2>1, <4>2, <5>1 DEF Follows, ToWrite
      <4>. QED
        BY <4>1, <4>2
    <3>. QED
      BY <2>5, <3>1, <3>2, <3>3
  <2>8. CASE Delete(j)
    <3>1. Command(j) = "delete" /\ proc'[j] \in {"done", "failed"} /\ buf' = buf
      BY <1>1, <2>8 DEF Delete, Fails, Finishes, TypeOK
    <3>2. proc'[j] = "done" => files'[p] = Absent
      BY <1>1, <1>5, <2>2, <2>8 DEF Delete, Fails, Put, TypeOK
    <3>3. Now(j).kind = "delete"
      BY <3>1 DEF Command
    <3>4. Expected(j, p)[op[j]] = Absent
      BY <2>3, <3>1, <3>3 DEF Outcome
    <3>. QED
      BY <2>5, <3>1, <3>2, <3>4
  <2>9. CASE Killed(j)
    <3>1. proc'[j] = "failed" /\ buf' = buf /\ files' = files
      BY <1>1, <2>9 DEF Killed, Fails, TypeOK
    <3>2. CASE Command(j) # "read"
      BY <2>5, <3>1, <3>2
    <3>3. CASE Command(j) = "read"
      <4>1. ~InDoubt(j, p) /\ ~fetched[j]
        BY <1>5, <3>3 DEF InDoubt, Ended, Command
      <4>. QED
        BY <1>1, <1>2, <2>1, <3>1, <4>1 DEF Follows
    <3>. QED
      BY <3>2, <3>3
  <2>. QED
    BY <2>4, <2>6, <2>7, <2>8, <2>9 DEF Server
<1>. QED
  BY <1>2, <1>3, <1>4, <1>5

\* A command that has emptied its file is still that of a write.
LEMMA TruncatedWritesStep ==
    ASSUME PathInv, [Next]_vars
    PROVE  TruncatedWrites' /\ IdleHasNotRead'
<1>1. TypeOK /\ TruncatedWrites /\ IdleHasNotRead
  BY DEF PathInv, IInv
<1>. SUFFICES ASSUME NEW j \in Jobs
              PROVE  /\ proc'[j] = "truncated" => Command(j)' = "write"
                     /\ stage'[j] = "idle" => ~fetched'[j]
  BY DEF TruncatedWrites, IdleHasNotRead
<1>2. proc[j] = "truncated" => Command(j) = "write"
  BY <1>1 DEF TruncatedWrites
<1>3. stage[j] = "idle" => ~fetched[j]
  BY <1>1 DEF IdleHasNotRead
<1>4. ASSUME proc'[j] = "truncated" => proc[j] = "truncated", op'[j] = op[j],
             fetched'[j] = fetched[j], stage'[j] = "idle" => stage[j] = "idle"
      PROVE  /\ proc'[j] = "truncated" => Command(j)' = "write"
             /\ stage'[j] = "idle" => ~fetched'[j]
  BY <1>2, <1>3, <1>4 DEF Command, Now
<1>5. ASSUME NEW k \in Jobs, Call(k)
      PROVE  op' = op /\ fetched' = fetched /\ proc' = proc /\ (stage'[j] = "idle" => stage[j] = "idle")
  BY <1>1, <1>5 DEF Call, server, TypeOK
<1>6. ASSUME NEW k \in Jobs, Start(k)
      PROVE  /\ op' = op /\ fetched' = fetched /\ (proc'[j] = "truncated" => proc[j] = "truncated")
             /\ stage'[j] = "idle" => stage[j] = "idle"
  BY <1>1, <1>6 DEF Start, TypeOK
<1>7. ASSUME NEW k \in Jobs, TimeOut(k) \/ Abandon(k)
      PROVE  op' = op /\ fetched' = fetched /\ proc' = proc /\ (stage'[j] = "idle" => stage[j] = "idle")
  BY <1>1, <1>7 DEF TimeOut, Abandon, server, TypeOK
<1>8. ASSUME NEW k \in Jobs, Return(k)
      PROVE  /\ proc'[j] = "truncated" => Command(j)' = "write"
             /\ stage'[j] = "idle" => ~fetched'[j]
  <2>1. proc' = proc /\ proc[k] \in {"done", "failed"}
    BY <1>8 DEF Return, server
  <2>2. CASE k = j
    <3>1. stage'[j] # "idle"
      BY <1>1, <1>8, <2>2 DEF Return, Fetched, Changed, TypeOK
    <3>. QED
      BY <2>1, <2>2, <3>1
  <2>3. CASE k # j
    <3>1. op'[j] = op[j] /\ fetched'[j] = fetched[j] /\ stage'[j] = stage[j]
      <4>1. CASE Fetched(k)
        BY <1>1, <2>3, <4>1 DEF Fetched, TypeOK
      <4>2. CASE Changed(k)
        BY <1>1, <2>3, <4>2 DEF Changed, TypeOK
      <4>. QED
        BY <1>8, <4>1, <4>2 DEF Return
    <3>. QED
      BY <1>4, <2>1, <3>1
  <2>. QED
    BY <2>2, <2>3
<1>9. ASSUME NEW k \in Jobs, Server(k)
      PROVE  /\ proc'[j] = "truncated" => Command(j)' = "write"
             /\ stage'[j] = "idle" => ~fetched'[j]
  <2>1. UNCHANGED <<stage, op, fetched>> /\ (k # j => proc'[j] = proc[j])
    BY <1>9, CommandFacts DEF PathInv
  <2>2. proc'[j] = "truncated" => proc[j] = "truncated" \/ Command(j) = "write"
    BY <1>1, <1>9, <2>1 DEF Server, Read, Truncate, Fill, Delete, Killed, Fails, Finishes, TypeOK
  <2>3. Command(j)' = Command(j)
    BY <2>1 DEF Command, Now
  <2>. QED
    BY <1>2, <1>3, <2>1, <2>2, <2>3
<1>10. CASE UNCHANGED vars
  BY <1>4, <1>10 DEF vars, client, server
<1>. QED
  BY <1>4, <1>5, <1>6, <1>7, <1>8, <1>9, <1>10 DEF Next

LEMMA PathInvInit == Init => PathInv
<1>. SUFFICES ASSUME Init
              PROVE  PathInv
  OBVIOUS
<1>1. TruncatedWrites /\ IdleHasNotRead
  BY DEF Init, TruncatedWrites, IdleHasNotRead
<1>2. ASSUME NEW j \in Jobs, NEW p \in Paths PROVE Follows(j, p)
  <2>1. files[p] = Expected(j, p)[0] /\ op[j] = 1 /\ stage[j] = "idle" /\ ~fetched[j]
    BY ExpectedSteps DEF Init
  <2>2. files[p] = Expected(j, p)[op[j] - 1]
    BY <2>1
  <2>. QED
    BY <2>1, <2>2 DEF Follows
<1>. QED
  BY <1>1, <1>2, InitIInv DEF PathInv, SoleFollows

LEMMA PathInvNext == PathInv /\ [Next]_vars => PathInv'
<1>. SUFFICES ASSUME PathInv, [Next]_vars
              PROVE  PathInv'
  OBVIOUS
<1>1. IInv' /\ TruncatedWrites' /\ IdleHasNotRead'
  BY NextIInv, TruncatedWritesStep DEF PathInv
<1>2. ASSUME NEW j \in Jobs, NEW p \in Paths, Sole(j, p) PROVE Follows(j, p)'
  <2>1. CASE UNCHANGED vars
    BY <1>2, <2>1, PathUntouched DEF vars, client, server, PathInv, SoleFollows
  <2>. QED
    BY <1>2, <2>1, OtherJobStep, OwnWaitStep, OwnReturnStep, OwnServerStep DEF Next
<1>3. SoleFollows'
  BY <1>2 DEF SoleFollows, Sole
<1>. QED
  BY <1>1, <1>3 DEF PathInv

\* A path that only one patch uses holds what the operations reported so far make of
\* what it held at first, unless the operation under way is on it.
THEOREM SolePathIsAsReported == Spec => []SolePathFollowsPatch
<1>1. PathInv => SolePathFollowsPatch
  BY DEF PathInv, SoleFollows, Follows, InDoubt, SolePathFollowsPatch
<1>. QED
  BY <1>1, PathInvInit, PathInvNext, PTL DEF Spec

=============================================================================
