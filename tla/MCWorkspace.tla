----------------------------- MODULE MCWorkspace -----------------------------
(* A patch of three operations, two of them on one new file, beside another   *)
(* call of the same agent and one of a second agent on the file they share.   *)
EXTENDS Workspace, TLC

CONSTANTS j1, j2, j3, root, sub, p, q, r

AddOp(path, new) == [kind |-> "add", path |-> path, old |-> "x", new |-> new]
Change(path, old, new) == [kind |-> "update", path |-> path, old |-> old, new |-> new]
Drop(path) == [kind |-> "delete", path |-> path, old |-> "x", new |-> "x"]

MCOps == (j1 :> <<AddOp(p, "x"), Change(p, "x", "y"), Change(q, "x", "y")>>)
      @@ (j2 :> <<Drop(r), Change(q, "x", "z")>>)
      @@ (j3 :> <<AddOp(q, "x")>>)
MCAgentOf == (j1 :> root) @@ (j2 :> root) @@ (j3 :> sub)
MCInitial == (p :> Absent) @@ (q :> {"x"}) @@ (r :> {"x"})
=============================================================================
