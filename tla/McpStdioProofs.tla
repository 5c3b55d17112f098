--------------------------- MODULE McpStdioProofs ---------------------------
(***************************************************************************)
(* For any number of requests of an MCP session: the types, and that a     *)
(* reply read before its request waits for it is not lost to a time-out.   *)
(***************************************************************************)
EXTENDS McpStdio, TLAPS

\* A request whose reply was read before it waited for it has been told: as long as it
\* is busy with the write it has its reply or an error, and it never gets to the wait.
Told ==
    \A q \in seen :
        /\ stage[q] \notin {"idle", "waiting", "timed_out"}
        /\ stage[q] \in Writing => fut[q] # "pending"

AnyFrames == [kind : FrameKinds, req : Reqs] \cup [kind : {"exited", "closed", "stray"}]

-----------------------------------------------------------------------------
(* Types                                                                   *)

\* The ways in which futures are failed keep their types.
LEMMA FailAllTypes ==
    ASSUME TypeOK, FailAll
    PROVE  /\ ack' \in [Reqs -> {"none", "pending", "done", "failed"}]
           /\ fut' \in [Reqs -> {"none", "pending", "reply", "request", "failed"}]
  BY DEF TypeOK, FailAll

\* A request that is left keeps the types.
LEMMA LeaveTypes ==
    ASSUME TypeOK, NEW q \in Reqs, NEW how \in {"writing", "waiting"} \cup Ended, Leave(q, how)
    PROVE  TypeOK'
<1>1. /\ stage' \in [Reqs -> {"idle"} \cup InFlight \cup Ended]
      /\ ack' \in [Reqs -> {"none", "pending", "done", "failed"}]
      /\ fut' \in [Reqs -> {"none", "pending", "reply", "request", "failed"}]
  BY DEF TypeOK, Leave, InFlight, Writing
<1> QED
  BY <1>1 DEF TypeOK, Leave, server

\* So does one whose reply is there when its write is acknowledged.
LEMMA WrittenTypes ==
    ASSUME TypeOK, NEW q \in Reqs, Written(q)
    PROVE  TypeOK'
<1>1. CASE \E how \in {"waiting", "raised"} : Leave(q, how)
  BY <1>1, LeaveTypes DEF Ended
<1>2. CASE /\ stage' = [stage EXCEPT ![q] = Result(q)]
           /\ ack' = [ack EXCEPT ![q] = "none"]
           /\ fut' = [fut EXCEPT ![q] = "none"]
           /\ UNCHANGED <<boot, ws, reader, dead, seen, wire, server>>
  <2>1. Result(q) \in Ended
    BY DEF Result, Ended
  <2> QED
    BY <1>2, <2>1 DEF TypeOK, server
<1> QED
  BY <1>1, <1>2 DEF Written

\* What is sent extends the wire by a frame, or is lost.
LEMMA PushTypes ==
    ASSUME TypeOK, NEW m \in AnyFrames, Push(m)
    PROVE  wire' \in Seq(AnyFrames)
<1>1. wire \in Seq(AnyFrames)
  BY DEF TypeOK, AnyFrames
<1> QED
  BY <1>1 DEF Push

\* A frame that is read keeps the types.
LEMMA ReadTypes ==
    ASSUME TypeOK, Read
    PROVE  TypeOK'
<1> DEFINE m == Head(wire)
<1>1. wire \in Seq(AnyFrames) /\ wire # <<>>
  BY DEF TypeOK, AnyFrames, Read
<1>2. m \in AnyFrames /\ wire' \in Seq(AnyFrames)
  BY <1>1 DEF Read
<1>3. CASE m.kind \in {"exited", "closed", "stray"}
  <2>1. FailAll /\ dead' \in BOOLEAN /\ reader' \in {"none", "running", "failed", "ended"} /\ seen' = seen
    BY <1>3 DEF Read, TypeOK
  <2> QED
    BY <1>2, <2>1, FailAllTypes DEF Read, TypeOK, AnyFrames, server
<1>4. CASE m.kind \notin {"exited", "closed", "stray"}
  <2>1. m.req \in Reqs /\ m.kind \in FrameKinds
    BY <1>2, <1>4 DEF AnyFrames
  <2>2. Deliver(m)
    BY <1>4 DEF Read
  <2>3. ack' \in [Reqs -> {"none", "pending", "done", "failed"}]
    BY <2>1, <2>2 DEF Deliver, TypeOK
  <2>4. fut' \in [Reqs -> {"none", "pending", "reply", "request", "failed"}]
    BY <2>1, <2>2 DEF Deliver, HandReply, TypeOK
  <2>5. seen' \subseteq Reqs
    BY <2>1, <2>2 DEF Deliver, TypeOK
  <2> QED
    BY <1>2, <2>2, <2>3, <2>4, <2>5 DEF Read, Deliver, TypeOK, AnyFrames, server
<1> QED
  BY <1>3, <1>4

\* What the exec-server and the MCP server send keeps the types.
LEMMA ServerTypes ==
    ASSUME TypeOK,
           \/ Stray \/ ProcessExits \/ OutputEnds
           \/ \E q \in Reqs : Accept(q) \/ Answer(q) \/ Ask(q)
    PROVE  TypeOK'
<1>a. wire \in Seq(AnyFrames)
  BY DEF TypeOK, AnyFrames
<1>1. wire' \in Seq(AnyFrames)
  <2>1. ASSUME NEW q \in Reqs, NEW kind \in FrameKinds
        PROVE  Frame(kind, q) \in AnyFrames
    BY DEF Frame, AnyFrames
  <2>2. \A kind \in {"exited", "closed", "stray"} : [kind |-> kind] \in AnyFrames
    BY DEF AnyFrames
  <2>3. CASE Stray \/ ProcessExits \/ OutputEnds
    BY <2>2, <2>3, PushTypes DEF Stray, ProcessExits, OutputEnds
  <2>4. ASSUME NEW q \in Reqs, Accept(q) \/ Ask(q)
        PROVE  wire' \in Seq(AnyFrames)
    BY <2>1, <2>4, PushTypes DEF Accept, Ask, FrameKinds
  <2>5. ASSUME NEW q \in Reqs, Answer(q)
        PROVE  wire' \in Seq(AnyFrames)
    <3>1. <<Frame("reply", q), Frame("ack", q)>> \in Seq(AnyFrames)
      BY <2>1 DEF FrameKinds
    <3>2. wire \o <<Frame("reply", q), Frame("ack", q)>> \in Seq(AnyFrames)
      BY <1>a, <3>1
    <3>3. Push(Frame("reply", q)) => wire' \in Seq(AnyFrames)
      BY <2>1, PushTypes DEF FrameKinds
    <3> QED
      BY <1>a, <2>5, <3>2, <3>3 DEF Answer
  <2> QED
    BY <2>3, <2>4, <2>5
<1>2. /\ process' \in {"none", "running", "exited", "gone"}
      /\ inbox' \subseteq Reqs /\ todo' \subseteq Reqs /\ UNCHANGED client
  BY DEF Stray, ProcessExits, OutputEnds, Accept, Answer, Ask, server, client, TypeOK
<1> QED
  BY <1>1, <1>2 DEF TypeOK, AnyFrames, client

\* A step of start() goes on to the next.
LEMMA BootTypes ==
    ASSUME TypeOK, BootStep
    PROVE  TypeOK'
<1>1. PICK i \in 1..Len(BootSteps) - 1 :
        /\ boot = BootSteps[i] /\ boot' = BootSteps[i + 1]
        /\ ws' = IF boot = "dial" THEN "open" ELSE ws
        /\ reader' = IF boot = "handshake" THEN "running" ELSE reader
        /\ process' = IF boot = "launch" THEN "running" ELSE process
        /\ UNCHANGED <<dead, stage, ack, fut, wire, inbox, todo, seen>>
  BY DEF BootStep
<1>2. i + 1 \in 1..Len(BootSteps)
  BY <1>1 DEF BootSteps
<1> QED
  BY <1>1, <1>2 DEF TypeOK

\* Every step keeps the types.
LEMMA NextTypes == TypeOK /\ [Next]_vars => TypeOK'
<1> SUFFICES ASSUME TypeOK, [Next]_vars
             PROVE  TypeOK'
  OBVIOUS
<1>1. CASE BootFails \/ CloseBegin \/ CloseEnd
  BY <1>1 DEF BootFails, CloseBegin, CloseEnd, TypeOK, server
<1>2. CASE Dropped
  <2>1. wire' \in Seq(AnyFrames)
    BY <1>2 DEF Dropped
  <2>2. CASE FailAll /\ dead' = TRUE /\ reader' = "failed"
    BY <1>2, <2>1, <2>2, FailAllTypes DEF Dropped, TypeOK, AnyFrames, server
  <2>3. CASE reader' = "ended" /\ UNCHANGED <<dead, ack, fut>>
    BY <1>2, <2>1, <2>3 DEF Dropped, TypeOK, AnyFrames, server
  <2> QED
    BY <1>2, <2>2, <2>3 DEF Dropped
<1>3. ASSUME NEW q \in Reqs, Request(q)
      PROVE  TypeOK'
  <2>1. inbox' \subseteq Reqs
    BY <1>3 DEF Request, TypeOK
  <2>2. /\ stage' \in [Reqs -> {"idle"} \cup InFlight \cup Ended]
        /\ ack' \in [Reqs -> {"none", "pending", "done", "failed"}]
        /\ fut' \in [Reqs -> {"none", "pending", "reply", "request", "failed"}]
    BY <1>3 DEF Request, TypeOK, Ended, InFlight, Writing
  <2> QED
    BY <1>3, <2>1, <2>2 DEF Request, TypeOK
<1>4. ASSUME NEW q \in Reqs,
             Sent(q) \/ Written(q) \/ Woken(q) \/ TimeOut(q) \/ Cancelled(q)
      PROVE  TypeOK'
  BY <1>4, LeaveTypes, WrittenTypes DEF Sent, Woken, Result, TimeOut, Cancelled, Ended
<1>5. CASE UNCHANGED vars
  BY <1>5 DEF TypeOK, vars, client, server
<1> QED
  BY <1>1, <1>2, <1>3, <1>4, <1>5, ReadTypes, ServerTypes, BootTypes DEF Next

\* A session keeps its types: futures are only ever failed or given to requests of
\* its own, and every frame is one of the kinds that the reader tells apart.
THEOREM TypeCorrect == Spec => []TypeOK
<1>1. Init => TypeOK
  <2>1. "dial" = BootSteps[1] /\ 1 \in 1..Len(BootSteps)
    BY DEF BootSteps
  <2>2. "dial" \in {BootSteps[i] : i \in 1..Len(BootSteps)}
    BY <2>1
  <2>3. <<>> \in Seq([kind : FrameKinds, req : Reqs] \cup [kind : {"exited", "closed", "stray"}])
    OBVIOUS
  <2> QED
    BY <2>2, <2>3 DEF Init, TypeOK
<1> QED
  BY <1>1, NextTypes, PTL DEF Spec

-----------------------------------------------------------------------------
(* No reply is lost                                                        *)

\* A request that goes on, or is left, does not begin to wait for a reply that is there.
LEMMA LeaveTold ==
    ASSUME TypeOK, Told, NEW q \in Reqs, NEW how \in {"writing", "waiting"} \cup Ended,
           Leave(q, how),
           how = "timed_out" => stage[q] = "waiting",
           how = "waiting" => stage[q] = "writing" /\ fut[q] = "pending",
           how = "writing" => stage[q] = "sending"
    PROVE  Told'
<1>1. seen' = seen /\ \A p \in Reqs : p # q => stage'[p] = stage[p] /\ fut'[p] = fut[p]
  BY DEF Leave, TypeOK
<1>2. stage'[q] = how /\ (how = "writing" => fut'[q] = fut[q])
  BY DEF Leave, TypeOK
<1>3. q \in seen => how \notin {"timed_out", "waiting"} /\ (how = "writing" => fut'[q] # "pending")
  BY <1>2 DEF Told, Writing
<1>4. seen \subseteq Reqs
  BY DEF TypeOK
<1> QED
  BY <1>1, <1>2, <1>3, <1>4 DEF Told, Writing, Ended

\* A request that ends as its write is acknowledged has not timed out.
LEMMA WrittenTold ==
    ASSUME TypeOK, Told, NEW q \in Reqs, Written(q)
    PROVE  Told'
<1>1. CASE Leave(q, "raised") \/ (fut[q] = "pending" /\ Leave(q, "waiting"))
  BY <1>1, LeaveTold DEF Written, Ended
<1>2. CASE /\ stage' = [stage EXCEPT ![q] = Result(q)]
           /\ fut' = [fut EXCEPT ![q] = "none"]
           /\ seen' = seen
  BY <1>2 DEF Told, Result, Writing, TypeOK
<1> QED
  BY <1>1, <1>2 DEF Written

\* A reply that is read ends its request's wait for it.
LEMMA ReadTold ==
    ASSUME TypeOK, Told, Read
    PROVE  Told'
<1> DEFINE m == Head(wire)
<1>1. m \in AnyFrames /\ stage' = stage /\ seen \subseteq Reqs
  <2>1. wire \in Seq(AnyFrames) /\ wire # <<>>
    BY DEF TypeOK, AnyFrames, Read
  <2> QED
    BY <2>1 DEF Read, TypeOK
<1>2. \A q \in Reqs : fut'[q] = "pending" => fut[q] = "pending"
  BY <1>1 DEF Read, Deliver, HandReply, FailAll, AnyFrames, TypeOK
<1>3. CASE seen' = seen
  BY <1>1, <1>2, <1>3 DEF Told
<1>4. CASE /\ m.kind = "reply" /\ m.req \in Reqs /\ stage[m.req] \in Writing
           /\ seen' = seen \cup {m.req} /\ HandReply(m)
  <2>1. fut'[m.req] # "pending"
    BY <1>4 DEF HandReply, TypeOK
  <2> QED
    BY <1>1, <1>2, <1>4, <2>1 DEF Told, Writing
<1> QED
  BY <1>1, <1>3, <1>4 DEF Read, Deliver, AnyFrames

\* A reply read before its request waits for it is not lost to a time-out, in whatever order
\* it and the acknowledgement of its request's write arrive.
THEOREM ReadIsKept == Spec => []AnswerNotLost
<1>1. Init => Told
  BY DEF Init, Told
<1>2. TypeOK /\ Told /\ [Next]_vars => Told'
  <2> SUFFICES ASSUME TypeOK, Told, [Next]_vars
               PROVE  Told'
    OBVIOUS
  <2>1. CASE UNCHANGED <<stage, fut, seen>>
    BY <2>1 DEF Told
  <2>2. CASE Dropped
    <3>1. stage' = stage /\ seen' = seen /\ seen \subseteq Reqs
      BY <2>2 DEF Dropped, TypeOK
    <3>2. \A q \in Reqs : fut'[q] = "pending" => fut[q] = "pending"
      BY <2>2 DEF Dropped, FailAll
    <3> QED
      BY <3>1, <3>2 DEF Told
  <2>3. ASSUME NEW q \in Reqs, Request(q)
        PROVE  Told'
    BY <2>3 DEF Told, Request, TypeOK
  <2>4. ASSUME NEW q \in Reqs,
               Sent(q) \/ Written(q) \/ Woken(q) \/ TimeOut(q) \/ Cancelled(q)
        PROVE  Told'
    BY <2>4, LeaveTold, WrittenTold DEF Sent, Woken, Result, TimeOut, Timed, Cancelled, Ended
  <2> QED
    BY <2>1, <2>2, <2>3, <2>4, ReadTold
       DEF Next, BootStep, BootFails, CloseBegin, CloseEnd, Stray, ProcessExits, OutputEnds,
           Accept, Answer, Ask, client, vars
<1>3. Told => AnswerNotLost
  BY DEF Told, AnswerNotLost
<1> QED
  BY <1>1, <1>2, <1>3, TypeCorrect, PTL DEF Spec

=============================================================================
