---------------------------- MODULE TurnContract ----------------------------
(***************************************************************************)
(* What the client of a session may rely on, whatever happens inside: a    *)
(* turn announces pieces of work (command, MCP call and subagent), settles *)
(* them, and ends once.  A turn reported completed has settled all it      *)
(* announced, and nothing is announced after the end of any turn.          *)
(***************************************************************************)
EXTENDS Naturals

CONSTANT Work          \* the pieces of work a turn may announce

VARIABLES open,        \* announced and not settled
          end          \* how the turn ended

Ends == {"completed", "cancelled", "failed", "lost"}

Init == open = {} /\ end = "none"

Start == end = "none" /\ end' = "running" /\ UNCHANGED open

Announce(w) ==
    /\ end = "running"
    /\ w \notin open
    /\ open' = open \cup {w}
    /\ UNCHANGED end

\* Work left over by a turn that did not complete may still settle.
Settle(w) ==
    /\ w \in open
    /\ open' = open \ {w}
    /\ UNCHANGED end

Complete ==
    /\ end = "running"
    /\ open = {}
    /\ end' = "completed"
    /\ UNCHANGED open

Abort ==
    /\ end = "running"
    /\ end' \in Ends \ {"completed"}
    /\ UNCHANGED open

Next == Start \/ Complete \/ Abort \/ \E w \in Work : Announce(w) \/ Settle(w)

Spec == Init /\ [][Next]_<<open, end>>

=============================================================================
