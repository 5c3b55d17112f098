-------------------------- MODULE SandboxRunProofs --------------------------
(***************************************************************************)
(* For any number of runs over one connection and any amount of output:    *)
(* the types, that the lock makes its holder the only reader, and that a   *)
(* run collects its own process's output in order, without a gap, and all  *)
(* of it if it returns normally.                                           *)
(***************************************************************************)
EXTENDS SandboxRun, TLAPS

-----------------------------------------------------------------------------
(* Types                                                                   *)

\* However a run ends, the lock is left free or with another run.
LEMMA EndTypes ==
    ASSUME TypeOK, NEW r \in Runs, NEW how \in Ended, End(r, how)
    PROVE  /\ task' \in [Runs -> {"idle", "lock", "pump"} \cup Ended]
           /\ lock' \in Runs \cup {None}
  BY DEF TypeOK, End

\* What the server sends extends the wire by a frame, or is lost.
LEMMA SendTypes ==
    ASSUME TypeOK, NEW r \in Runs, NEW kind \in FrameKinds, NEW n \in Nat,
           Send(r, kind, n)
    PROVE  wire' \in Seq(Frames)
<1>1. Frame(r, kind, n) \in Frames
  BY DEF Frame, Frames
<1> QED
  BY <1>1 DEF Send, TypeOK

\* Receiving a frame keeps the types: only output is collected.
LEMMA ReceiveTypes ==
    ASSUME TypeOK, NEW r \in Runs, Receive(r)
    PROVE  TypeOK'
<1>1. Head(wire) \in Frames /\ wire' \in Seq(Frames)
  BY DEF Receive, TypeOK
<1>2. got' \in [Runs -> Seq(OutputFrames)]
  <2>1. CASE Mine(r, Head(wire)) /\ Head(wire).kind = "output"
    <3>1. Head(wire) \in OutputFrames
      BY <1>1, <2>1 DEF OutputFrames, Frames
    <3>2. Append(got[r], Head(wire)) \in Seq(OutputFrames)
      BY <3>1 DEF TypeOK
    <3>3. got' = [got EXCEPT ![r] = Append(got[r], Head(wire))]
      BY <2>1 DEF Receive, Collected
    <3> QED
      BY <3>2, <3>3 DEF TypeOK
  <2>2. CASE ~(Mine(r, Head(wire)) /\ Head(wire).kind = "output")
    BY <2>2 DEF Receive, Collected, TypeOK
  <2> QED
    BY <2>1, <2>2
<1>3. exited' \in [Runs -> BOOLEAN]
  BY DEF Receive, TypeOK
<1>4. /\ task' \in [Runs -> {"idle", "lock", "pump"} \cup Ended]
      /\ lock' \in Runs \cup {None}
  BY EndTypes DEF Receive, TypeOK, Ended
<1> QED
  BY <1>1, <1>2, <1>3, <1>4 DEF Receive, TypeOK, server

\* Every step keeps the types.
LEMMA NextTypes == TypeOK /\ [Next]_vars => TypeOK'
<1> SUFFICES ASSUME TypeOK, [Next]_vars
             PROVE  TypeOK'
  OBVIOUS
<1>1. CASE Dial
  BY <1>1 DEF Dial, TypeOK, server
<1>2. CASE Handshake
  BY <1>2 DEF Handshake, TypeOK, server
<1>3. CASE Close
  BY <1>3 DEF Close, TypeOK, server
<1>4. ASSUME NEW r \in Runs, Call(r)
      PROVE  TypeOK'
  BY <1>4 DEF Call, TypeOK, server
<1>5. ASSUME NEW r \in Runs, Start(r)
      PROVE  TypeOK'
  <2>1. CASE conn = "open"
    BY <1>5, <2>1 DEF Start, TypeOK
  <2>2. CASE conn # "open"
    BY <1>5, <2>2, EndTypes DEF Start, TypeOK, Ended
  <2> QED
    BY <2>1, <2>2
<1>6. ASSUME NEW r \in Runs, ConnectionLost(r)
      PROVE  TypeOK'
  BY <1>6, EndTypes DEF ConnectionLost, TypeOK, Ended, server
<1>7. ASSUME NEW r \in Runs, TimeOut(r)
      PROVE  TypeOK'
  BY <1>7, EndTypes DEF TimeOut, Terminate, TypeOK, Ended
<1>8. ASSUME NEW r \in Runs, Cancelled(r)
      PROVE  TypeOK'
  BY <1>8, EndTypes DEF Cancelled, Abandon, TypeOK, Ended, server
<1>9. ASSUME NEW r \in Runs, Serve(r)
      PROVE  TypeOK'
  <2>1. wire' \in Seq(Frames)
    BY <1>9, SendTypes DEF Serve, FrameKinds
  <2> QED
    BY <1>9, <2>1 DEF Serve, TypeOK, client
<1>10. ASSUME NEW r \in Runs, Output(r)
       PROVE  TypeOK'
  <2>1. emitted[r] + 1 \in Nat
    BY <1>10 DEF TypeOK
  <2>2. wire' \in Seq(Frames)
    BY <1>10, <2>1, SendTypes DEF Output, FrameKinds
  <2> QED
    BY <1>10, <2>1, <2>2 DEF Output, TypeOK, client
<1>11. ASSUME NEW r \in Runs, Exit(r)
       PROVE  TypeOK'
  <2>1. wire' \in Seq(Frames)
    BY <1>11, SendTypes DEF Exit, FrameKinds
  <2> QED
    BY <1>11, <2>1 DEF Exit, TypeOK, client
<1>12. ASSUME NEW r \in Runs, ProcessClosed(r)
       PROVE  TypeOK'
  <2>1. wire' \in Seq(Frames)
    BY <1>12, SendTypes DEF ProcessClosed, FrameKinds
  <2> QED
    BY <1>12, <2>1 DEF ProcessClosed, TypeOK, client
<1>13. CASE UNCHANGED vars
  BY <1>13 DEF TypeOK, vars, client, server
<1> QED
  BY <1>1, <1>2, <1>3, <1>4, <1>5, <1>6, <1>7, <1>8, <1>9, <1>10, <1>11, <1>12, <1>13,
     ReceiveTypes DEF Next, Step, ServerStep

\* Every variable of a connection keeps its type: a run collects output only, and
\* every frame on the wire is of some run.
THEOREM TypeCorrect == Spec => []TypeOK
<1>1. Init => TypeOK
  BY RunAssumption DEF Init, TypeOK
<1> QED
  BY <1>1, NextTypes, PTL DEF Spec

-----------------------------------------------------------------------------
(* The lock                                                                *)

\* The end of a run that holds the lock, or waits for it, leaves no reader
\* without the lock and no holder that does not read.
LEMMA EndKeepsReader ==
    ASSUME TypeOK, OneReader, NEW r \in Runs, NEW how \in Ended, End(r, how)
    PROVE  OneReader'
  BY RunAssumption DEF TypeOK, OneReader, End, Ended

\* A run that takes the lock finds it free, so that nobody else is reading.
LEMMA StartKeepsReader ==
    ASSUME TypeOK, OneReader, NEW r \in Runs, Start(r)
    PROVE  OneReader'
<1>1. CASE conn = "open"
  BY <1>1, RunAssumption DEF TypeOK, OneReader, Start, LockFree
<1>2. CASE conn # "open"
  BY <1>2, EndKeepsReader DEF Start, Ended
<1> QED
  BY <1>1, <1>2

\* A run that receives a frame goes on reading, or ends and frees the lock.
LEMMA ReceiveKeepsReader ==
    ASSUME TypeOK, OneReader, NEW r \in Runs, Receive(r)
    PROVE  OneReader'
<1>1. CASE UNCHANGED <<task, lock>>
  BY <1>1 DEF OneReader
<1>2. CASE \E how \in Ended : End(r, how)
  BY <1>2, EndKeepsReader
<1> QED
  BY <1>1, <1>2 DEF Receive, Ended

\* Every step keeps the lock with its reader.
LEMMA NextKeepsReader == TypeOK /\ OneReader /\ [Next]_vars => OneReader'
<1> SUFFICES ASSUME TypeOK, OneReader, [Next]_vars
             PROVE  OneReader'
  OBVIOUS
<1>1. CASE UNCHANGED <<task, lock>>
  BY <1>1 DEF OneReader
<1>2. ASSUME NEW r \in Runs, Call(r)
      PROVE  OneReader'
  BY <1>2 DEF TypeOK, OneReader, Call
<1>3. ASSUME NEW r \in Runs, ConnectionLost(r)
      PROVE  OneReader'
  BY <1>3, EndKeepsReader DEF ConnectionLost, Ended
<1>4. ASSUME NEW r \in Runs, TimeOut(r)
      PROVE  OneReader'
  BY <1>4, EndKeepsReader DEF TimeOut, Ended
<1>5. ASSUME NEW r \in Runs, Cancelled(r)
      PROVE  OneReader'
  BY <1>5, EndKeepsReader DEF Cancelled, Abandon, Ended
<1> QED
  BY <1>1, <1>2, <1>3, <1>4, <1>5, StartKeepsReader, ReceiveKeepsReader
     DEF Next, Step, ServerStep, Dial, Handshake, Close, Serve, Output, Exit,
         ProcessClosed, client, vars

\* The lock of a connection makes its holder the only one that reads frames from
\* it, however runs end: with "closed", an error, a time-out, a lost connection or
\* a cancellation.
THEOREM HolderReads == Spec => []OneReader
<1>1. Init => OneReader
  BY RunAssumption DEF Init, OneReader
<1> QED
  BY <1>1, NextKeepsReader, TypeCorrect, PTL DEF Spec

-----------------------------------------------------------------------------
(* The frames on the wire                                                  *)

\* The places on the wire of the frames of one kind of one run's process, and the
\* output that is on its way to a run.
Sent(r, kind) == {i \in DOMAIN wire : wire[i].run = r /\ wire[i].kind = kind}
Arriving(r) == {wire[i].n : i \in Sent(r, "output")}

\* Before its process/start nothing is known of a run.
FreshIsSilent ==
    \A r \in Runs : task[r] \in {"idle", "lock"} =>
        /\ proc[r] = "none" /\ emitted[r] = 0 /\ got[r] = <<>>
        /\ \A i \in DOMAIN wire : wire[i].run # r

\* The server numbers the output of a process in the order in which it sends it.
InOrder ==
    \A r \in Runs : \A i \in Sent(r, "output") :
        /\ wire[i].n <= emitted[r]
        /\ \A k \in Sent(r, "output") : i < k => wire[i].n < wire[k].n

\* Nothing of a process follows its "closed".
ClosedIsLast ==
    \A r \in Runs : \A i \in Sent(r, "closed") :
        /\ proc[r] = "gone"
        /\ \A k \in Sent(r, "output") : k < i

\* What is on its way to a run goes on where it has got to, up to what its process
\* has written, unless the connection was lost before that was sent.
NoGap ==
    \A r \in Runs : task[r] = "pump" =>
        \E k \in Len(got[r])..emitted[r] :
            /\ Arriving(r) = (Len(got[r]) + 1)..k
            /\ conn = "open" \/ Sent(r, "closed") # {} => k = emitted[r]

\* A run is told of the exit of its process before it is told that that is all.
ExitTold ==
    \A r \in Runs : task[r] = "pump" /\ ~exited[r] =>
        /\ conn = "open" /\ proc[r] = "exited" => Sent(r, "exited") # {}
        /\ \A i \in Sent(r, "closed") : \E k \in Sent(r, "exited") : k < i

\* After a normal end nothing more is written.
OkIsWhole ==
    \A r \in Runs : task[r] = "ok" =>
        proc[r] = "gone" /\ Len(got[r]) = emitted[r] /\ exited[r]

\* No run is called before connect() has returned.
NoneEarly == conn \in {"new", "handshake"} => \A r \in Runs : task[r] = "idle"

WireInv == FreshIsSilent /\ InOrder /\ ClosedIsLast /\ NoGap /\ ExitTold /\ OkIsWhole
IInv == TypeOK /\ OneReader /\ NoneEarly /\ CollectedIsPrefix /\ WireInv

\* A frame that is sent takes the place behind all others, or is lost.
LEMMA SendPlaces ==
    ASSUME TypeOK, NEW r \in Runs, NEW kind \in FrameKinds, NEW n \in Nat,
           Send(r, kind, n)
    PROVE  /\ conn # "open" => wire' = wire
           /\ conn = "open" =>
                /\ DOMAIN wire' = 1..(Len(wire) + 1)
                /\ \A i \in 1..Len(wire) : wire'[i] = wire[i]
                /\ wire'[Len(wire) + 1] = Frame(r, kind, n)
           /\ Len(wire) \in Nat /\ DOMAIN wire = 1..Len(wire)
<1>1. Frame(r, kind, n) \in Frames
  BY DEF Frame, Frames
<1> QED
  BY <1>1 DEF Send, TypeOK

\* A frame that is received leaves the others, one place further on.
LEMMA ReceivePlaces ==
    ASSUME TypeOK, NEW r \in Runs, Receive(r)
    PROVE  /\ Len(wire) \in Nat /\ Len(wire) > 0 /\ DOMAIN wire = 1..Len(wire)
           /\ Head(wire) = wire[1] /\ 1 \in DOMAIN wire
           /\ DOMAIN wire' = 1..(Len(wire) - 1)
           /\ \A i \in DOMAIN wire' : i + 1 \in DOMAIN wire /\ wire'[i] = wire[i + 1]
           /\ \A i \in DOMAIN wire : i # 1 => i - 1 \in DOMAIN wire' /\ wire'[i - 1] = wire[i]
<1>1. wire \in Seq(Frames) /\ wire # <<>> /\ wire' = Tail(wire)
  BY DEF TypeOK, Receive
<1>2. Len(wire) \in Nat /\ Len(wire) > 0 /\ DOMAIN wire = 1..Len(wire)
  BY <1>1
<1>3. /\ DOMAIN wire' = 1..(Len(wire) - 1)
      /\ \A i \in 1..(Len(wire) - 1) : wire'[i] = wire[i + 1]
  BY <1>1, <1>2
<1> QED
  BY <1>1, <1>2, <1>3

\* Every frame has a number.
LEMMA FrameNumbers ==
    ASSUME TypeOK
    PROVE  \A i \in DOMAIN wire : wire[i] \in Frames /\ wire[i].n \in Nat
<1>1. \A i \in DOMAIN wire : wire[i] \in Frames
  BY DEF TypeOK
<1> QED
  BY <1>1 DEF Frames

-----------------------------------------------------------------------------
(* The order of the frames                                                 *)

\* What the server sends keeps the order: output is numbered upwards and not sent
\* after "closed".
LEMMA SendKeepsOrder ==
    ASSUME TypeOK, InOrder, ClosedIsLast, NEW r \in Runs,
           Serve(r) \/ Output(r) \/ Exit(r) \/ ProcessClosed(r)
    PROVE  InOrder' /\ ClosedIsLast'
<1> DEFINE last == Len(wire) + 1
<1>n. \A i \in DOMAIN wire : wire[i].n \in Nat
  BY FrameNumbers
<1>t. emitted \in [Runs -> Nat] /\ proc \in [Runs -> {"none", "requested", "running", "exited", "gone"}]
  BY DEF TypeOK
<1>1. ASSUME NEW kind \in FrameKinds, Send(r, kind, 0), kind # "output",
             emitted' = emitted,
             \A q \in Runs : proc[q] = "gone" => proc'[q] = "gone",
             kind = "closed" => proc'[r] = "gone"
      PROVE  InOrder' /\ ClosedIsLast'
  <2>1. CASE conn # "open"
    <3>1. wire' = wire
      BY <1>1, <2>1, SendPlaces
    <3> QED
      BY <1>1, <3>1 DEF InOrder, ClosedIsLast, Sent
  <2>2. CASE conn = "open"
    <3>1. /\ Len(wire) \in Nat /\ DOMAIN wire = 1..Len(wire)
          /\ DOMAIN wire' = 1..last
          /\ \A i \in DOMAIN wire : wire'[i] = wire[i]
          /\ wire'[last] = Frame(r, kind, 0)
      BY <1>1, <2>2, SendPlaces
    <3>2. \A q \in Runs : Sent(q, "output")' = Sent(q, "output")
      BY <1>1, <3>1 DEF Sent, Frame
    <3>3. \A q \in Runs : Sent(q, "closed")' \subseteq
              Sent(q, "closed") \cup (IF kind = "closed" /\ q = r THEN {last} ELSE {})
      BY <3>1 DEF Sent, Frame
    <3>4. \A q \in Runs : Sent(q, "output") \subseteq DOMAIN wire
      BY DEF Sent
    <3>5. InOrder'
      BY <1>1, <3>1, <3>2, <3>4 DEF InOrder
    <3>6. ClosedIsLast'
      BY <1>1, <3>1, <3>2, <3>3, <3>4 DEF ClosedIsLast
    <3> QED
      BY <3>5, <3>6
  <2> QED
    BY <2>1, <2>2
<1>2. CASE Output(r)
  <2>1. /\ proc' = proc /\ proc[r] # "gone"
        /\ emitted' = [emitted EXCEPT ![r] = emitted[r] + 1]
        /\ Send(r, "output", emitted[r] + 1)
    BY <1>2 DEF Output
  <2>2. \A q \in Runs : emitted'[q] >= emitted[q] /\ emitted'[q] \in Nat
    BY <1>t, <2>1
  <2>3. CASE conn # "open"
    <3>1. wire' = wire
      BY <1>t, <2>1, <2>3, SendPlaces DEF FrameKinds
    <3>2. \A q \in Runs, kind \in FrameKinds : Sent(q, kind)' = Sent(q, kind)
      BY <3>1 DEF Sent
    <3>3. InOrder'
      <4> SUFFICES ASSUME NEW q \in Runs, NEW i \in Sent(q, "output")
                   PROVE  wire[i].n <= emitted'[q]
        BY <3>1, <3>2 DEF InOrder, FrameKinds
      <4>1. wire[i].n <= emitted[q] /\ wire[i].n \in Nat
        BY <1>n DEF InOrder, Sent
      <4> QED
        BY <1>t, <2>2, <4>1
    <3> QED
      BY <2>1, <3>2, <3>3 DEF ClosedIsLast, FrameKinds
  <2>4. CASE conn = "open"
    <3>1. /\ Len(wire) \in Nat /\ DOMAIN wire = 1..Len(wire)
          /\ DOMAIN wire' = 1..last
          /\ \A i \in DOMAIN wire : wire'[i] = wire[i]
          /\ wire'[last] = Frame(r, "output", emitted[r] + 1)
      BY <1>t, <2>1, <2>4, SendPlaces DEF FrameKinds
    <3>2. \A q \in Runs : Sent(q, "closed")' = Sent(q, "closed")
      BY <3>1 DEF Sent, Frame
    <3>3. \A q \in Runs : Sent(q, "output")' = Sent(q, "output") \cup (IF q = r THEN {last} ELSE {})
      BY <3>1 DEF Sent, Frame
    <3>4. \A q \in Runs, kind \in FrameKinds : Sent(q, kind) \subseteq DOMAIN wire
      BY DEF Sent
    <3>5. InOrder'
      <4> SUFFICES ASSUME NEW q \in Runs, NEW i \in Sent(q, "output")'
                   PROVE  /\ wire'[i].n <= emitted'[q]
                          /\ \A k \in Sent(q, "output")' : i < k => wire'[i].n < wire'[k].n
        BY DEF InOrder
      <4>1. CASE i \in Sent(q, "output")
        <5>1. i \in DOMAIN wire /\ wire'[i] = wire[i] /\ wire[i].n \in Nat /\ wire[i].n <= emitted[q]
          BY <1>n, <3>1, <4>1 DEF InOrder, Sent
        <5>2. ASSUME NEW k \in Sent(q, "output"), i < k
              PROVE  wire'[i].n < wire'[k].n
          BY <3>1, <3>4, <4>1, <5>1, <5>2 DEF InOrder, FrameKinds
        <5>3. ASSUME q = r
              PROVE  wire'[i].n < wire'[last].n
          BY <1>t, <3>1, <5>1, <5>3 DEF Frame
        <5> QED
          BY <1>t, <2>2, <3>3, <5>1, <5>2, <5>3
      <4>2. CASE i \notin Sent(q, "output")
        <5>1. q = r /\ i = last
          BY <3>3, <4>2
        <5>2. wire'[i].n = emitted'[q]
          BY <1>t, <2>1, <3>1, <5>1 DEF Frame
        <5>3. \A k \in Sent(q, "output")' : k <= last
          BY <3>1, <3>3, <3>4 DEF FrameKinds
        <5> QED
          BY <1>t, <2>2, <5>1, <5>2, <5>3, <3>1, <3>3, <3>4 DEF FrameKinds
      <4> QED
        BY <4>1, <4>2
    <3>6. ClosedIsLast'
      <4> SUFFICES ASSUME NEW q \in Runs, NEW i \in Sent(q, "closed")
                   PROVE  proc[q] = "gone" /\ \A k \in Sent(q, "output")' : k < i
        BY <2>1, <3>2 DEF ClosedIsLast
      <4>1. proc[q] = "gone" /\ \A k \in Sent(q, "output") : k < i
        BY DEF ClosedIsLast
      <4> QED
        BY <2>1, <3>3, <4>1
    <3> QED
      BY <3>5, <3>6
  <2> QED
    BY <2>3, <2>4
<1>3. CASE Serve(r)
  BY <1>1, <1>3, <1>t DEF Serve, FrameKinds
<1>4. CASE Exit(r)
  BY <1>1, <1>4, <1>t DEF Exit, FrameKinds
<1>5. CASE ProcessClosed(r)
  BY <1>1, <1>5, <1>t DEF ProcessClosed, FrameKinds
<1> QED
  BY <1>2, <1>3, <1>4, <1>5

\* Receiving a frame keeps the order of those behind it.
LEMMA ReceiveKeepsOrder ==
    ASSUME TypeOK, InOrder, ClosedIsLast, NEW r \in Runs, Receive(r)
    PROVE  InOrder' /\ ClosedIsLast'
<1>1. /\ DOMAIN wire' \subseteq Nat /\ DOMAIN wire \subseteq Nat
      /\ \A i \in DOMAIN wire' : i + 1 \in DOMAIN wire /\ wire'[i] = wire[i + 1]
  BY ReceivePlaces
<1>2. emitted' = emitted /\ proc' = proc
  BY DEF Receive, server
<1>3. \A q \in Runs, kind \in FrameKinds : \A i \in Sent(q, kind)' :
          i \in Nat /\ i + 1 \in Sent(q, kind) /\ wire'[i] = wire[i + 1]
  BY <1>1 DEF Sent
<1>4. InOrder'
  <2> SUFFICES ASSUME NEW q \in Runs, NEW i \in Sent(q, "output")'
               PROVE  /\ wire'[i].n <= emitted[q]
                      /\ \A k \in Sent(q, "output")' : i < k => wire'[i].n < wire'[k].n
    BY <1>2 DEF InOrder
  <2>1. i \in Nat /\ i + 1 \in Sent(q, "output") /\ wire'[i] = wire[i + 1]
    BY <1>3 DEF FrameKinds
  <2>2. ASSUME NEW k \in Sent(q, "output")', i < k
        PROVE  wire'[i].n < wire'[k].n
    <3>1. k \in Nat /\ k + 1 \in Sent(q, "output") /\ wire'[k] = wire[k + 1]
      BY <1>3 DEF FrameKinds
    <3>2. i + 1 < k + 1
      BY <2>1, <2>2, <3>1
    <3> QED
      BY <2>1, <3>1, <3>2 DEF InOrder
  <2> QED
    BY <2>1, <2>2 DEF InOrder
<1>5. ClosedIsLast'
  <2> SUFFICES ASSUME NEW q \in Runs, NEW i \in Sent(q, "closed")'
               PROVE  proc[q] = "gone" /\ \A k \in Sent(q, "output")' : k < i
    BY <1>2 DEF ClosedIsLast
  <2>1. i \in Nat /\ i + 1 \in Sent(q, "closed")
    BY <1>3 DEF FrameKinds
  <2>2. ASSUME NEW k \in Sent(q, "output")'
        PROVE  k < i
    <3>1. k \in Nat /\ k + 1 \in Sent(q, "output")
      BY <1>3 DEF FrameKinds
    <3>2. k + 1 < i + 1
      BY <2>1, <3>1 DEF ClosedIsLast
    <3> QED
      BY <2>1, <3>1, <3>2
  <2> QED
    BY <2>1, <2>2 DEF ClosedIsLast
<1> QED
  BY <1>4, <1>5

-----------------------------------------------------------------------------
(* Nothing is lost, doubled or foreign                                     *)

\* What is on its way to a run is a set of numbers that its process has used.
LEMMA ArrivingNumbers ==
    ASSUME TypeOK, NEW r \in Runs
    PROVE  Arriving(r) \subseteq Nat
  BY FrameNumbers DEF Arriving, Sent

\* The first output on the wire is the next that its run is to get: after it is
\* received, the rest goes on from there.
LEMMA NextArrives ==
    ASSUME TypeOK, InOrder, NEW r \in Runs, Receive(r), NEW a \in Nat, NEW k \in Nat,
           Arriving(r) = a..k, 1 \in Sent(r, "output")
    PROVE  wire[1].n = a /\ a <= k /\ Arriving(r)' = (a + 1)..k
<1> DEFINE n == wire[1].n
<1>1. /\ 1 \in DOMAIN wire
      /\ \A i \in DOMAIN wire : i \in Nat /\ i >= 1 /\ wire[i].n \in Nat
  BY ReceivePlaces, FrameNumbers
<1>2. n \in a..k
  BY DEF Arriving
<1>3. \A i \in Sent(r, "output") : i # 1 => n < wire[i].n
  <2> SUFFICES ASSUME NEW i \in Sent(r, "output"), i # 1
               PROVE  n < wire[i].n
    OBVIOUS
  <2>1. 1 < i
    BY <1>1 DEF Sent
  <2> QED
    BY <2>1 DEF InOrder
<1>4. n = a
  <2>1. PICK i \in Sent(r, "output") : wire[i].n = a
    <3>1. a \in Arriving(r)
      BY <1>2
    <3> QED
      BY <3>1 DEF Arriving
  <2> QED
    BY <1>1, <1>2, <1>3, <2>1
<1>5. Arriving(r)' = {wire[i].n : i \in Sent(r, "output") \ {1}}
  <2>1. ASSUME NEW x
        PROVE  x \in Arriving(r)' <=> x \in {wire[i].n : i \in Sent(r, "output") \ {1}}
    <3>1. ASSUME NEW i \in Sent(r, "output")', x = wire'[i].n
          PROVE  \E k2 \in Sent(r, "output") \ {1} : x = wire[k2].n
      <4>1. i \in DOMAIN wire' /\ i + 1 \in DOMAIN wire /\ wire'[i] = wire[i + 1] /\ i + 1 # 1
        BY ReceivePlaces DEF Sent
      <4>2. i + 1 \in Sent(r, "output") \ {1}
        BY <4>1 DEF Sent
      <4> QED
        BY <3>1, <4>1, <4>2
    <3>2. ASSUME NEW i \in Sent(r, "output") \ {1}, x = wire[i].n
          PROVE  \E k2 \in Sent(r, "output")' : x = wire'[k2].n
      <4>1. i - 1 \in DOMAIN wire' /\ wire'[i - 1] = wire[i]
        BY ReceivePlaces DEF Sent
      <4>2. i - 1 \in Sent(r, "output")'
        BY <4>1 DEF Sent
      <4> QED
        BY <3>2, <4>1, <4>2
    <3> QED
      BY <3>1, <3>2 DEF Arriving
  <2> QED
    BY <2>1
<1>6. \A x : x \in Arriving(r)' <=> x \in (a + 1)..k
  <2> SUFFICES ASSUME NEW x
               PROVE  x \in Arriving(r)' <=> x \in (a + 1)..k
    OBVIOUS
  <2>1. ASSUME x \in Arriving(r)'
        PROVE  x \in (a + 1)..k
    <3>1. PICK i \in Sent(r, "output") \ {1} : x = wire[i].n
      BY <1>5, <2>1
    <3>2. x \in a..k /\ n < x
      BY <1>3, <3>1 DEF Arriving
    <3> QED
      BY <1>4, <3>2
  <2>2. ASSUME x \in (a + 1)..k
        PROVE  x \in Arriving(r)'
    <3>1. x \in Arriving(r) /\ x # n
      BY <1>4, <2>2
    <3>2. PICK i \in Sent(r, "output") : x = wire[i].n
      BY <3>1 DEF Arriving
    <3>3. i # 1
      BY <3>1, <3>2
    <3> QED
      BY <1>5, <3>2, <3>3
  <2> QED
    BY <2>1, <2>2
<1>7. Arriving(r)' = (a + 1)..k
  BY <1>6, SetExtensionality, Zenon
<1>8. n = a /\ a <= k
  BY <1>2, <1>4
<1> QED
  BY <1>7, <1>8

\* A frame that is not output of a run's process leaves what is on its way to it.
LEMMA OtherFrame ==
    ASSUME TypeOK, NEW r \in Runs, Receive(r), NEW kind \in FrameKinds,
           1 \notin Sent(r, kind)
    PROVE  /\ \A i \in Sent(r, kind) : i - 1 \in Sent(r, kind)'
           /\ \A i \in Sent(r, kind)' : i + 1 \in Sent(r, kind)
           /\ kind = "output" => Arriving(r)' = Arriving(r)
<1>1. ASSUME NEW i \in Sent(r, kind)
      PROVE  i - 1 \in Sent(r, kind)' /\ wire'[i - 1] = wire[i]
  <2>1. i \in DOMAIN wire /\ i # 1 /\ wire[i].run = r /\ wire[i].kind = kind
    BY DEF Sent
  <2>2. i - 1 \in DOMAIN wire' /\ wire'[i - 1] = wire[i]
    BY <2>1, ReceivePlaces
  <2> QED
    BY <2>1, <2>2 DEF Sent
<1>2. ASSUME NEW i \in Sent(r, kind)'
      PROVE  i + 1 \in Sent(r, kind) /\ wire'[i] = wire[i + 1]
  <2>1. i \in DOMAIN wire' /\ wire'[i].run = r /\ wire'[i].kind = kind
    BY DEF Sent
  <2>2. i + 1 \in DOMAIN wire /\ wire'[i] = wire[i + 1]
    BY <2>1, ReceivePlaces
  <2> QED
    BY <2>1, <2>2 DEF Sent
<1>3. ASSUME kind = "output"
      PROVE  Arriving(r)' = Arriving(r)
  <2>1. \A x \in Arriving(r) : x \in Arriving(r)'
    BY <1>1, <1>3 DEF Arriving
  <2>2. \A x \in Arriving(r)' : x \in Arriving(r)
    BY <1>2, <1>3 DEF Arriving
  <2> QED
    BY <2>1, <2>2
<1> QED
  BY <1>1, <1>2, <1>3

\* Receiving a frame keeps what is known of the frames: the reader collects the
\* next output of its process, or the frame is none of its output.
LEMMA ReceiveStep ==
    ASSUME IInv, NEW r \in Runs, Receive(r)
    PROVE  CollectedIsPrefix' /\ WireInv'
<1> DEFINE m == wire[1]
<1>a. TypeOK /\ OneReader /\ CollectedIsPrefix /\ FreshIsSilent /\ InOrder /\ ClosedIsLast
      /\ NoGap /\ ExitTold /\ OkIsWhole
  BY DEF IInv, WireInv
<1>b. /\ task[r] = "pump" /\ conn' = conn /\ proc' = proc /\ emitted' = emitted
      /\ Head(wire) = m /\ 1 \in DOMAIN wire /\ m \in Frames
  BY <1>a, ReceivePlaces, FrameNumbers DEF Receive, server
<1>c. \A q \in Runs : q # r => task[q] # "pump"
  BY <1>a, <1>b DEF OneReader
<1>d. /\ \A q \in Runs : q # r => task'[q] = task[q] /\ got'[q] = got[q] /\ exited'[q] = exited[q]
      /\ task'[r] \in {"pump", "ok", "raised"}
      /\ got'[r] = IF 1 \in Sent(r, "output") THEN Append(got[r], m) ELSE got[r]
      /\ exited'[r] = (exited[r] \/ 1 \in Sent(r, "exited"))
      /\ task'[r] = "ok" => 1 \in Sent(r, "closed")
  BY <1>a, <1>b DEF Receive, End, Mine, Collected, Last, TypeOK, Sent
<1>e. got[r] \in Seq(OutputFrames) /\ Len(got[r]) \in Nat /\ emitted[r] \in Nat /\ exited[r] \in BOOLEAN
  BY <1>a DEF TypeOK
<1>f. PICK k \in Len(got[r])..emitted[r] :
          /\ Arriving(r) = (Len(got[r]) + 1)..k
          /\ conn = "open" \/ Sent(r, "closed") # {} => k = emitted[r]
  BY <1>a, <1>b DEF NoGap
<1>g. ASSUME 1 \in Sent(r, "output")
      PROVE  /\ m.n = Len(got[r]) + 1 /\ Len(got[r]) + 1 <= k
             /\ Arriving(r)' = (Len(got[r]) + 2)..k
  <2>1. Len(got[r]) + 1 \in Nat /\ k \in Nat /\ (Len(got[r]) + 1) + 1 = Len(got[r]) + 2
    BY <1>e, <1>f
  <2> QED
    BY <1>a, <1>f, <1>g, <2>1, NextArrives
<1>h. Sent(r, "closed")' # {} => Sent(r, "closed") # {}
  BY <1>a, OtherFrame DEF FrameKinds
<1>1. FreshIsSilent'
  <2> SUFFICES ASSUME NEW q \in Runs, task'[q] \in {"idle", "lock"}
               PROVE  /\ proc[q] = "none" /\ emitted[q] = 0 /\ got'[q] = <<>>
                      /\ \A i \in DOMAIN wire' : wire'[i].run # q
    BY <1>b DEF FreshIsSilent
  <2>1. q # r
    BY <1>d
  <2>2. task[q] \in {"idle", "lock"} /\ got'[q] = got[q]
    BY <1>d, <2>1
  <2> QED
    BY <1>a, <2>2, ReceivePlaces DEF FreshIsSilent
<1>2. InOrder' /\ ClosedIsLast'
  BY <1>a, ReceiveKeepsOrder
<1>3. NoGap'
  <2> SUFFICES ASSUME task'[r] = "pump"
               PROVE  \E j \in Len(got'[r])..emitted[r] :
                        /\ Arriving(r)' = (Len(got'[r]) + 1)..j
                        /\ conn = "open" \/ Sent(r, "closed")' # {} => j = emitted[r]
    BY <1>b, <1>c, <1>d DEF NoGap
  <2>1. CASE 1 \in Sent(r, "output")
    <3>1. m \in OutputFrames
      BY <1>b, <2>1 DEF Sent, OutputFrames, Frames
    <3>2. Len(got'[r]) = Len(got[r]) + 1
      BY <1>d, <1>e, <2>1, <3>1
    <3>3. Len(got'[r]) + 1 = Len(got[r]) + 2 /\ k \in Len(got'[r])..emitted[r]
      BY <1>e, <1>f, <1>g, <2>1, <3>2
    <3> QED
      BY <1>f, <1>g, <1>h, <2>1, <3>3
  <2>2. CASE 1 \notin Sent(r, "output")
    <3>1. Arriving(r)' = Arriving(r) /\ got'[r] = got[r]
      BY <1>a, <1>d, <2>2, OtherFrame DEF FrameKinds
    <3> QED
      BY <1>f, <1>h, <3>1
  <2> QED
    BY <2>1, <2>2
<1>4. ExitTold'
  <2> SUFFICES ASSUME task'[r] = "pump", ~exited'[r]
               PROVE  /\ conn = "open" /\ proc[r] = "exited" => Sent(r, "exited")' # {}
                      /\ \A i \in Sent(r, "closed")' : \E j \in Sent(r, "exited")' : j < i
    BY <1>b, <1>c, <1>d DEF ExitTold
  <2>1. ~exited[r] /\ 1 \notin Sent(r, "exited")
    BY <1>d
  <2>2. \A i \in Sent(r, "exited") : i - 1 \in Sent(r, "exited")'
    BY <1>a, <2>1, OtherFrame DEF FrameKinds
  <2>3. ASSUME NEW i \in Sent(r, "closed")'
        PROVE  \E j \in Sent(r, "exited")' : j < i
    <3>1. i \in Nat /\ i + 1 \in Sent(r, "closed")
      <4>1. i \in DOMAIN wire' /\ i + 1 \in DOMAIN wire /\ wire'[i] = wire[i + 1] /\ i \in Nat
        BY <1>a, ReceivePlaces DEF Sent
      <4> QED
        BY <4>1 DEF Sent
    <3>2. PICK j \in Sent(r, "exited") : j < i + 1
      BY <1>a, <1>b, <2>1, <3>1 DEF ExitTold
    <3>3. j \in Nat
      BY <1>a, ReceivePlaces DEF Sent
    <3>4. j - 1 < i
      BY <3>1, <3>2, <3>3
    <3> QED
      BY <2>2, <3>4
  <2>4. ASSUME conn = "open", proc[r] = "exited"
        PROVE  Sent(r, "exited")' # {}
    <3>1. Sent(r, "exited") # {}
      BY <1>a, <1>b, <2>1, <2>4 DEF ExitTold
    <3> QED
      BY <2>2, <3>1
  <2> QED
    BY <2>3, <2>4
<1>5. OkIsWhole'
  <2>1. ASSUME task'[r] = "ok"
        PROVE  proc[r] = "gone" /\ Len(got'[r]) = emitted[r] /\ exited'[r]
    <3>1. 1 \in Sent(r, "closed") /\ 1 \notin Sent(r, "output") /\ got'[r] = got[r]
      BY <1>d, <2>1 DEF Sent
    <3>2. proc[r] = "gone" /\ Sent(r, "output") = {}
      <4>1. \A i \in Sent(r, "output") : i < 1 /\ i \in Nat /\ i >= 1
        BY <1>a, <3>1, ReceivePlaces DEF ClosedIsLast, Sent
      <4> QED
        BY <1>a, <3>1, <4>1 DEF ClosedIsLast
    <3>3. (Len(got[r]) + 1)..k = {} /\ k = emitted[r]
      BY <1>f, <3>1, <3>2 DEF Arriving
    <3>4. k = Len(got[r])
      <4>1. k \notin (Len(got[r]) + 1)..k
        BY <3>3
      <4> QED
        BY <1>e, <1>f, <4>1
    <3>5. exited[r]
      <4>1. \A i \in Sent(r, "exited") : i \in Nat /\ i >= 1
        BY <1>a, ReceivePlaces DEF Sent
      <4> QED
        BY <1>a, <1>b, <3>1, <4>1 DEF ExitTold
    <3> QED
      BY <1>d, <3>1, <3>2, <3>3, <3>4, <3>5
  <2> QED
    BY <1>a, <1>b, <1>d, <2>1 DEF OkIsWhole
<1>6. CollectedIsPrefix'
  <2>1. ASSUME 1 \in Sent(r, "output")
        PROVE  /\ Len(got'[r]) <= emitted[r]
               /\ \A i \in 1..Len(got'[r]) : got'[r][i] = Frame(r, "output", i)
    <3>1. m \in OutputFrames /\ m = Frame(r, "output", Len(got[r]) + 1)
      BY <1>b, <1>g, <2>1 DEF Sent, OutputFrames, Frames, Frame
    <3>2. /\ Len(got'[r]) = Len(got[r]) + 1
          /\ \A i \in 1..Len(got[r]) : got'[r][i] = got[r][i]
          /\ got'[r][Len(got[r]) + 1] = m
      BY <1>d, <1>e, <2>1, <3>1
    <3>3. Len(got'[r]) <= emitted[r]
      BY <1>e, <1>f, <1>g, <2>1, <3>2
    <3>4. \A i \in 1..Len(got[r]) : got[r][i] = Frame(r, "output", i)
      BY <1>a DEF CollectedIsPrefix
    <3>5. \A i \in 1..Len(got'[r]) : i \in 1..Len(got[r]) \/ i = Len(got[r]) + 1
      BY <1>e, <3>2
    <3> QED
      BY <3>1, <3>2, <3>3, <3>4, <3>5
  <2>2. ASSUME NEW q \in Runs, ~(q = r /\ 1 \in Sent(r, "output"))
        PROVE  got'[q] = got[q]
    BY <1>d, <2>2
  <2> QED
    BY <1>a, <1>b, <2>1, <2>2 DEF CollectedIsPrefix
<1> QED
  BY <1>1, <1>2, <1>3, <1>4, <1>5, <1>6 DEF WireInv

\* What the server sends joins the frames of its kind, behind all others, and, if
\* it is output, what is on its way to the run.
LEMMA SendSent ==
    ASSUME TypeOK, NEW r \in Runs, NEW kind \in FrameKinds, NEW n \in Nat,
           Send(r, kind, n)
    PROVE  /\ conn # "open" =>
                /\ wire' = wire
                /\ \A q \in Runs : Arriving(q)' = Arriving(q)
                /\ \A q \in Runs, kd \in FrameKinds : Sent(q, kd)' = Sent(q, kd)
           /\ conn = "open" =>
                /\ \A q \in Runs, kd \in FrameKinds :
                     Sent(q, kd)' = Sent(q, kd) \cup
                        (IF q = r /\ kd = kind THEN {Len(wire) + 1} ELSE {})
                /\ \A q \in Runs :
                     Arriving(q)' = Arriving(q) \cup (IF q = r /\ kind = "output" THEN {n} ELSE {})
                /\ \A i \in DOMAIN wire' : wire'[i].run = r \/ (i \in DOMAIN wire /\ wire'[i] = wire[i])
           /\ \A q \in Runs, kd \in FrameKinds : \A i \in Sent(q, kd) : i < Len(wire) + 1
<1> DEFINE last == Len(wire) + 1
<1>1. ASSUME conn # "open"
      PROVE  /\ wire' = wire
             /\ \A q \in Runs : Arriving(q)' = Arriving(q)
             /\ \A q \in Runs, kd \in FrameKinds : Sent(q, kd)' = Sent(q, kd)
  <2>1. wire' = wire
    BY <1>1, SendPlaces
  <2>2. \A q \in Runs, kd \in FrameKinds : Sent(q, kd)' = Sent(q, kd)
    BY <2>1 DEF Sent
  <2>3. \A q \in Runs : Arriving(q)' = Arriving(q)
    BY <2>1, <2>2 DEF Arriving, FrameKinds
  <2> QED
    BY <2>1, <2>2, <2>3
<1>2. ASSUME conn = "open"
      PROVE  /\ \A q \in Runs, kd \in FrameKinds :
                  Sent(q, kd)' = Sent(q, kd) \cup (IF q = r /\ kd = kind THEN {last} ELSE {})
             /\ \A q \in Runs :
                  Arriving(q)' = Arriving(q) \cup (IF q = r /\ kind = "output" THEN {n} ELSE {})
             /\ \A i \in DOMAIN wire' : wire'[i].run = r \/ (i \in DOMAIN wire /\ wire'[i] = wire[i])
  <2>1. /\ Len(wire) \in Nat /\ DOMAIN wire = 1..Len(wire)
        /\ DOMAIN wire' = 1..last
        /\ \A i \in DOMAIN wire : wire'[i] = wire[i]
        /\ wire'[last] = Frame(r, kind, n)
    BY <1>2, SendPlaces
  <2>2. \A q \in Runs, kd \in FrameKinds :
          Sent(q, kd)' = Sent(q, kd) \cup (IF q = r /\ kd = kind THEN {last} ELSE {})
    BY <2>1 DEF Sent, Frame
  <2>3. ASSUME NEW q \in Runs
        PROVE  Arriving(q)' = Arriving(q) \cup (IF q = r /\ kind = "output" THEN {n} ELSE {})
    <3>1. Sent(q, "output") \subseteq DOMAIN wire
      BY DEF Sent
    <3>2. Sent(q, "output")' = Sent(q, "output") \cup (IF q = r /\ kind = "output" THEN {last} ELSE {})
      BY <2>2 DEF FrameKinds
    <3>3. wire'[last].n = n
      BY <2>1 DEF Frame
    <3>4. ASSUME NEW x
          PROVE  x \in Arriving(q)' <=>
                 x \in Arriving(q) \cup (IF q = r /\ kind = "output" THEN {n} ELSE {})
      <4>1. x \in Arriving(q)' <=> \E i \in Sent(q, "output")' : x = wire'[i].n
        BY DEF Arriving
      <4>2. x \in Arriving(q) <=> \E i \in Sent(q, "output") : x = wire[i].n
        BY DEF Arriving
      <4> QED
        BY <2>1, <3>1, <3>2, <3>3, <4>1, <4>2
    <3> QED
      BY <3>4, SetExtensionality, Zenon
  <2>4. \A i \in DOMAIN wire' : wire'[i].run = r \/ (i \in DOMAIN wire /\ wire'[i] = wire[i])
    BY <2>1 DEF Frame
  <2> QED
    BY <2>2, <2>3, <2>4
<1>3. \A q \in Runs, kd \in FrameKinds : \A i \in Sent(q, kd) : i < last
  BY SendPlaces DEF Sent
<1> QED
  BY <1>1, <1>2, <1>3

\* What is sent disturbs no other frames.
LEMMA SendOthers ==
    ASSUME TypeOK, NEW r \in Runs, NEW kind \in FrameKinds, NEW n \in Nat,
           Send(r, kind, n), NEW q \in Runs
    PROVE  /\ \A kd \in FrameKinds : q # r \/ kd # kind => Sent(q, kd)' = Sent(q, kd)
           /\ q # r \/ kind # "output" => Arriving(q)' = Arriving(q)
<1>1. CASE conn = "open"
  <2>1. /\ \A kd \in FrameKinds :
             Sent(q, kd)' = Sent(q, kd) \cup (IF q = r /\ kd = kind THEN {Len(wire) + 1} ELSE {})
        /\ Arriving(q)' = Arriving(q) \cup (IF q = r /\ kind = "output" THEN {n} ELSE {})
    BY <1>1, SendSent
  <2> QED
    BY <2>1
<1>2. CASE conn # "open"
  BY <1>2, SendSent
<1> QED
  BY <1>1, <1>2

\* A process writes: its run's output goes on by one, if it is sent at all.
LEMMA OutputStep ==
    ASSUME IInv, NEW r \in Runs, Output(r)
    PROVE  CollectedIsPrefix' /\ WireInv'
<1>a. TypeOK /\ CollectedIsPrefix /\ FreshIsSilent /\ InOrder /\ ClosedIsLast
      /\ NoGap /\ ExitTold /\ OkIsWhole
  BY DEF IInv, WireInv
<1>b. /\ task' = task /\ got' = got /\ exited' = exited /\ conn' = conn /\ proc' = proc
      /\ proc[r] \in {"running", "exited"}
      /\ Send(r, "output", emitted[r] + 1)
      /\ emitted[r] \in Nat /\ emitted[r] + 1 \in Nat
  BY <1>a DEF Output, client, TypeOK
<1>c. \A q \in Runs : /\ emitted'[q] = IF q = r THEN emitted[r] + 1 ELSE emitted[q]
                      /\ emitted[q] \in Nat /\ Len(got[q]) \in Nat
  BY <1>a DEF Output, TypeOK
<1>d. task[r] \notin {"idle", "lock", "ok"} /\ Sent(r, "closed") = {}
  BY <1>a, <1>b DEF FreshIsSilent, OkIsWhole, ClosedIsLast
<1>e. \A q \in Runs, kd \in FrameKinds : kd # "output" => Sent(q, kd)' = Sent(q, kd)
  BY <1>a, <1>b, SendOthers DEF FrameKinds
<1>1. FreshIsSilent'
  <2> SUFFICES ASSUME NEW q \in Runs, task[q] \in {"idle", "lock"}
               PROVE  /\ emitted'[q] = 0
                      /\ \A i \in DOMAIN wire' : wire'[i].run # q
    BY <1>a, <1>b DEF FreshIsSilent
  <2>1. q # r /\ \A i \in DOMAIN wire : wire[i].run # q
    BY <1>a, <1>d DEF FreshIsSilent
  <2>2. \A i \in DOMAIN wire' : wire'[i].run # q
    BY <1>a, <1>b, <2>1, SendSent DEF FrameKinds
  <2> QED
    BY <1>a, <1>c, <2>1, <2>2 DEF FreshIsSilent
<1>2. InOrder' /\ ClosedIsLast'
  BY <1>a, SendKeepsOrder
<1>3. NoGap'
  <2> SUFFICES ASSUME NEW q \in Runs, task[q] = "pump"
               PROVE  \E j \in Len(got[q])..emitted'[q] :
                        /\ Arriving(q)' = (Len(got[q]) + 1)..j
                        /\ conn = "open" \/ Sent(q, "closed")' # {} => j = emitted'[q]
    BY <1>b DEF NoGap
  <2>1. PICK k \in Len(got[q])..emitted[q] :
          /\ Arriving(q) = (Len(got[q]) + 1)..k
          /\ conn = "open" \/ Sent(q, "closed") # {} => k = emitted[q]
    BY <1>a DEF NoGap
  <2>2. Sent(q, "closed")' = Sent(q, "closed")
    BY <1>e DEF FrameKinds
  <2>3. CASE q = r /\ conn = "open"
    <3>1. Arriving(q)' = ((Len(got[q]) + 1)..k) \cup {k + 1} /\ k = emitted[q]
      BY <1>a, <1>b, <2>1, <2>3, SendSent DEF FrameKinds
    <3>2. Arriving(q)' = (Len(got[q]) + 1)..(k + 1)
      BY <1>c, <2>1, <3>1
    <3>3. k + 1 \in Len(got[q])..emitted'[q] /\ k + 1 = emitted'[q]
      BY <1>c, <2>1, <2>3, <3>1
    <3> QED
      BY <3>2, <3>3
  <2>4. CASE q = r /\ conn # "open"
    <3>1. Arriving(q)' = Arriving(q)
      BY <1>a, <1>b, <2>4, SendSent DEF FrameKinds
    <3>2. k \in Len(got[q])..emitted'[q]
      BY <1>c, <2>1, <2>4
    <3> QED
      BY <1>d, <2>1, <2>2, <2>4, <3>1, <3>2
  <2>5. CASE q # r
    <3>1. Arriving(q)' = Arriving(q)
      BY <1>a, <1>b, <2>5, SendOthers DEF FrameKinds
    <3> QED
      BY <1>c, <2>1, <2>2, <2>5, <3>1
  <2> QED
    BY <2>3, <2>4, <2>5
<1>4. ExitTold'
  BY <1>a, <1>b, <1>e DEF ExitTold, FrameKinds
<1>5. OkIsWhole'
  BY <1>a, <1>b, <1>c, <1>d DEF OkIsWhole
<1>6. CollectedIsPrefix'
  BY <1>a, <1>b, <1>c DEF CollectedIsPrefix
<1> QED
  BY <1>1, <1>2, <1>3, <1>4, <1>5, <1>6 DEF WireInv

\* The server starts a process, refuses to, or tells of its exit or its end: none
\* of it is output, and "exited" goes before "closed".
LEMMA ServerStepKeeps ==
    ASSUME IInv, NEW r \in Runs, Serve(r) \/ Exit(r) \/ ProcessClosed(r)
    PROVE  CollectedIsPrefix' /\ WireInv'
<1>a. TypeOK /\ CollectedIsPrefix /\ FreshIsSilent /\ InOrder /\ ClosedIsLast
      /\ NoGap /\ ExitTold /\ OkIsWhole
  BY DEF IInv, WireInv
<1>b. PICK kind \in {"started", "error", "exited", "closed"} :
        /\ Send(r, kind, 0)
        /\ proc[r] \in {"requested", "running", "exited"}
        /\ kind = "closed" => proc[r] = "exited"
        /\ proc'[r] \in {"running", "exited", "gone"}
        /\ proc'[r] = "exited" => kind = "exited"
        /\ \A q \in Runs : q # r => proc'[q] = proc[q]
  BY <1>a DEF Serve, Exit, ProcessClosed, TypeOK
<1>c. /\ task' = task /\ got' = got /\ exited' = exited /\ conn' = conn /\ emitted' = emitted
  BY DEF Serve, Exit, ProcessClosed, client
<1>d. kind \in FrameKinds /\ kind # "output" /\ 0 \in Nat
  BY DEF FrameKinds
<1>e. task[r] \notin {"idle", "lock", "ok"}
  BY <1>a, <1>b DEF FreshIsSilent, OkIsWhole
<1>f. \A q \in Runs : Arriving(q)' = Arriving(q)
  BY <1>a, <1>b, <1>d, SendOthers
<1>g. \A q \in Runs, kd \in FrameKinds : kd # kind \/ q # r => Sent(q, kd)' = Sent(q, kd)
  BY <1>a, <1>b, <1>d, SendOthers
<1>1. FreshIsSilent'
  <2> SUFFICES ASSUME NEW q \in Runs, task[q] \in {"idle", "lock"}
               PROVE  proc'[q] = "none" /\ \A i \in DOMAIN wire' : wire'[i].run # q
    BY <1>a, <1>c DEF FreshIsSilent
  <2>1. q # r /\ \A i \in DOMAIN wire : wire[i].run # q
    BY <1>a, <1>e DEF FreshIsSilent
  <2>2. \A i \in DOMAIN wire' : wire'[i].run # q
    BY <1>a, <1>b, <1>d, <2>1, SendSent
  <2> QED
    BY <1>a, <1>b, <2>1, <2>2 DEF FreshIsSilent
<1>2. InOrder' /\ ClosedIsLast'
  BY <1>a, SendKeepsOrder
<1>3. NoGap'
  <2> SUFFICES ASSUME NEW q \in Runs, task[q] = "pump"
               PROVE  \E j \in Len(got[q])..emitted[q] :
                        /\ Arriving(q)' = (Len(got[q]) + 1)..j
                        /\ conn = "open" \/ Sent(q, "closed")' # {} => j = emitted[q]
    BY <1>c DEF NoGap
  <2>1. conn = "open" \/ Sent(q, "closed")' # {} => conn = "open" \/ Sent(q, "closed") # {}
    BY <1>a, <1>b, <1>d, SendSent DEF FrameKinds
  <2> QED
    BY <1>a, <1>f, <2>1 DEF NoGap
<1>4. ExitTold'
  <2> SUFFICES ASSUME NEW q \in Runs, task[q] = "pump", ~exited[q]
               PROVE  /\ conn = "open" /\ proc'[q] = "exited" => Sent(q, "exited")' # {}
                      /\ \A i \in Sent(q, "closed")' : \E k \in Sent(q, "exited")' : k < i
    BY <1>c DEF ExitTold
  <2>0. /\ conn = "open" /\ proc[q] = "exited" => Sent(q, "exited") # {}
        /\ \A i \in Sent(q, "closed") : \E k \in Sent(q, "exited") : k < i
    BY <1>a DEF ExitTold
  <2>1. CASE q # r
    BY <1>b, <1>g, <2>0, <2>1 DEF FrameKinds
  <2>2. CASE q = r /\ conn # "open"
    <3>1. \A kd \in FrameKinds : Sent(q, kd)' = Sent(q, kd)
      BY <1>a, <1>b, <1>d, <2>2, SendSent
    <3> QED
      BY <2>0, <2>2, <3>1 DEF FrameKinds
  <2>3. CASE q = r /\ conn = "open"
    <3>1. /\ \A kd \in FrameKinds : Sent(q, kd)' = Sent(q, kd) \cup
                (IF kd = kind THEN {Len(wire) + 1} ELSE {})
          /\ \A kd \in FrameKinds : \A i \in Sent(q, kd) : i < Len(wire) + 1
      BY <1>a, <1>b, <1>d, <2>3, SendSent
    <3>2. Sent(q, "exited") \subseteq Sent(q, "exited")'
      BY <3>1 DEF FrameKinds
    <3>3. proc'[q] = "exited" => Sent(q, "exited")' # {}
      BY <1>b, <2>3, <3>1 DEF FrameKinds
    <3>4. ASSUME NEW i \in Sent(q, "closed")'
          PROVE  \E k \in Sent(q, "exited")' : k < i
      <4>1. CASE i \in Sent(q, "closed")
        BY <2>0, <3>2, <4>1
      <4>2. CASE i \notin Sent(q, "closed")
        <5>1. kind = "closed" /\ i = Len(wire) + 1
          BY <3>1, <4>2 DEF FrameKinds
        <5>2. PICK k \in Sent(q, "exited") : TRUE
          BY <1>b, <2>0, <2>3, <5>1
        <5> QED
          BY <3>1, <3>2, <5>1, <5>2 DEF FrameKinds
      <4> QED
        BY <4>1, <4>2
    <3> QED
      BY <3>3, <3>4
  <2> QED
    BY <2>1, <2>2, <2>3
<1>5. OkIsWhole'
  BY <1>a, <1>b, <1>c, <1>e DEF OkIsWhole
<1>6. CollectedIsPrefix'
  BY <1>a, <1>c DEF CollectedIsPrefix
<1> QED
  BY <1>1, <1>2, <1>3, <1>4, <1>5, <1>6 DEF WireInv

\* A run that starts has no frames yet and nothing to get.
LEMMA StartStep ==
    ASSUME IInv, NEW r \in Runs, Start(r)
    PROVE  CollectedIsPrefix' /\ WireInv'
<1>a. TypeOK /\ CollectedIsPrefix /\ FreshIsSilent /\ InOrder /\ ClosedIsLast
      /\ NoGap /\ ExitTold /\ OkIsWhole
  BY DEF IInv, WireInv
<1>b. /\ got' = got /\ exited' = exited /\ conn' = conn /\ emitted' = emitted /\ wire' = wire
      /\ task[r] = "lock" /\ task'[r] \in {"pump", "raised"}
      /\ \A q \in Runs : q # r => task'[q] = task[q] /\ proc'[q] = proc[q]
      /\ proc'[r] \in {"none", "requested"}
  BY <1>a DEF Start, End, TypeOK, FreshIsSilent
<1>c. /\ proc[r] = "none" /\ emitted[r] = 0 /\ got[r] = <<>>
      /\ \A i \in DOMAIN wire : wire[i].run # r
  BY <1>a, <1>b DEF FreshIsSilent
<1>d. \A q \in Runs, kd \in FrameKinds : Sent(q, kd)' = Sent(q, kd)
  BY <1>b DEF Sent
<1>e. \A kd \in FrameKinds : Sent(r, kd) = {}
  BY <1>c DEF Sent
<1>f. Arriving(r) = {} /\ \A q \in Runs : Arriving(q)' = Arriving(q)
  BY <1>b, <1>d, <1>e DEF Arriving, FrameKinds
<1>1. FreshIsSilent'
  BY <1>a, <1>b DEF FreshIsSilent
<1>2. InOrder' /\ ClosedIsLast'
  BY <1>a, <1>b, <1>d, <1>e DEF InOrder, ClosedIsLast, FrameKinds
<1>3. NoGap'
  <2>1. Len(got[r]) = 0 /\ (Len(got[r]) + 1)..0 = {} /\ 0 \in Len(got[r])..emitted[r]
    BY <1>c
  <2>2. \E k \in Len(got[r])..emitted[r] :
          Arriving(r)' = (Len(got[r]) + 1)..k /\ k = emitted[r]
    BY <1>c, <1>f, <2>1
  <2> QED
    BY <1>a, <1>b, <1>d, <1>f, <2>2 DEF NoGap, FrameKinds
<1>4. ExitTold'
  BY <1>a, <1>b, <1>d, <1>e DEF ExitTold, FrameKinds
<1>5. OkIsWhole'
  BY <1>a, <1>b DEF OkIsWhole
<1>6. CollectedIsPrefix'
  BY <1>a, <1>b DEF CollectedIsPrefix
<1> QED
  BY <1>1, <1>2, <1>3, <1>4, <1>5, <1>6 DEF WireInv

\* Calling, ending otherwise than with "closed", and opening or closing the
\* connection touch no frame: a run stops reading, or waits for the lock.
LEMMA QuietStep ==
    ASSUME IInv, UNCHANGED <<got, exited, wire, proc, emitted>>,
           conn' = "open" => conn = "open" \/ \A r \in Runs : task[r] = "idle",
           \A r \in Runs : \/ task'[r] = task[r]
                           \/ task[r] = "idle" /\ task'[r] = "lock"
                           \/ task'[r] \in {"raised", "timed_out", "cancelled"}
    PROVE  CollectedIsPrefix' /\ WireInv'
<1>a. CollectedIsPrefix /\ FreshIsSilent /\ InOrder /\ ClosedIsLast
      /\ NoGap /\ ExitTold /\ OkIsWhole
  BY DEF IInv, WireInv
<1>b. \A q \in Runs, kd \in FrameKinds : Sent(q, kd)' = Sent(q, kd)
  BY DEF Sent
<1>c. \A q \in Runs : Arriving(q)' = Arriving(q)
  BY <1>b DEF Arriving, FrameKinds
<1>1. FreshIsSilent'
  BY <1>a DEF FreshIsSilent
<1>2. InOrder' /\ ClosedIsLast'
  BY <1>a, <1>b DEF InOrder, ClosedIsLast, FrameKinds
<1>3. NoGap'
  BY <1>a, <1>b, <1>c DEF NoGap, FrameKinds
<1>4. ExitTold'
  BY <1>a, <1>b DEF ExitTold, FrameKinds
<1>5. OkIsWhole'
  BY <1>a DEF OkIsWhole
<1>6. CollectedIsPrefix'
  BY <1>a DEF CollectedIsPrefix
<1> QED
  BY <1>1, <1>2, <1>3, <1>4, <1>5, <1>6 DEF WireInv

\* Every step keeps what is known of the frames.
LEMMA NextWire ==
    ASSUME IInv, [Next]_vars
    PROVE  IInv'
<1>a. TypeOK /\ OneReader /\ NoneEarly
  BY DEF IInv
<1>1. TypeOK' /\ OneReader'
  BY <1>a, NextTypes, NextKeepsReader
<1>2. NoneEarly'
  BY <1>a DEF NoneEarly, TypeOK, Next, Step, ServerStep, Dial, Handshake, Close, Call, Start,
     Receive, ConnectionLost, TimeOut, Cancelled, Abandon, End, Serve, Output, Exit,
     ProcessClosed, client, vars
<1>3. CollectedIsPrefix' /\ WireInv'
  <2>1. CASE Dial \/ Handshake \/ Close \/ UNCHANGED vars
    <3>1. UNCHANGED <<got, exited, wire, proc, emitted, task>>
      BY <2>1 DEF Dial, Handshake, Close, vars, client, server
    <3>2. conn' = "open" => conn = "open" \/ \A r \in Runs : task[r] = "idle"
      BY <1>a, <2>1 DEF Dial, Handshake, Close, vars, client, NoneEarly
    <3> QED
      BY <3>1, <3>2, QuietStep
  <2>2. ASSUME NEW r \in Runs,
               Call(r) \/ ConnectionLost(r) \/ TimeOut(r) \/ Cancelled(r)
        PROVE  CollectedIsPrefix' /\ WireInv'
    <3>1. UNCHANGED <<got, exited, wire, proc, emitted, conn>>
      BY <2>2 DEF Call, ConnectionLost, TimeOut, Cancelled, server
    <3>2. \A q \in Runs : \/ task'[q] = task[q]
                          \/ task[q] = "idle" /\ task'[q] = "lock"
                          \/ task'[q] \in {"raised", "timed_out", "cancelled"}
      BY <1>a, <2>2 DEF Call, ConnectionLost, TimeOut, Cancelled, Abandon, End, TypeOK
    <3> QED
      BY <3>1, <3>2, QuietStep
  <2> QED
    BY <2>1, <2>2, StartStep, ReceiveStep, OutputStep, ServerStepKeeps DEF Next, Step, ServerStep
<1> QED
  BY <1>1, <1>2, <1>3 DEF IInv

\* At first there are no frames.
LEMMA InitWire == Init => IInv
<1> SUFFICES ASSUME Init
             PROVE  IInv
  OBVIOUS
<1>1. TypeOK /\ OneReader
  BY RunAssumption DEF Init, TypeOK, OneReader
<1>2. NoneEarly /\ CollectedIsPrefix
  BY DEF Init, NoneEarly, CollectedIsPrefix
<1>3. \A r \in Runs, kind \in FrameKinds : Sent(r, kind) = {}
  BY DEF Init, Sent
<1>4. WireInv
  BY <1>3 DEF Init, WireInv, FreshIsSilent, InOrder, ClosedIsLast, NoGap, ExitTold, OkIsWhole,
     FrameKinds
<1> QED
  BY <1>1, <1>2, <1>4 DEF IInv

\* What a run has collected is its own process's output from the start, without
\* gap or repetition, whatever frames of other runs' processes are on the wire.
THEOREM OutputIsOwn == Spec => []CollectedIsPrefix
<1>1. IInv => CollectedIsPrefix
  BY DEF IInv
<1> QED
  BY <1>1, InitWire, NextWire, PTL DEF Spec

\* A run that returns normally has all the output of its process and its exit code.
THEOREM OutputIsWhole == Spec => []NothingDropped
<1>1. IInv => NothingDropped
  BY DEF IInv, WireInv, OkIsWhole, NothingDropped
<1> QED
  BY <1>1, InitWire, NextWire, PTL DEF Spec

=============================================================================
