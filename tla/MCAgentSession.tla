--------------------------- MODULE MCAgentSession ---------------------------
EXTENDS AgentSessionProperties, TLC

CONSTANTS c1, c2, d1, d2

MCCalls == {c1, c2, d1, d2}
MCIssuer == (c1 :> Root) @@ (c2 :> Root) @@ (d1 :> c1) @@ (d2 :> c2)
FlatCalls == {c1, c2}
FlatIssuer == (c1 :> Root) @@ (c2 :> Root)
=============================================================================
