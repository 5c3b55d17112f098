----------------------------- MODULE MCMcpStdio -----------------------------
(* Two requests of an MCP session. *)
EXTENDS McpStdio

=============================================================================
