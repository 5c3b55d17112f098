---------------------------- MODULE MCSandboxRun ----------------------------
\* Two runs whose processes write different amounts of output: with two frames a
\* gap, a repetition or a late frame shows; one is enough for the other run.
EXTENDS SandboxRun, TLC

CONSTANTS r1, r2
MCRuns == {r1, r2}
MCMaxOutput == (r1 :> 2) @@ (r2 :> 1)
=============================================================================
