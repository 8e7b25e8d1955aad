----------------------------- MODULE MCRootSync -----------------------------
(* Bounds for checking RootSync. *)
EXTENDS RootSync

MCMethods == {"thread/start", "thread/resume", "thread/fork", "thread/archive"}

============================================================================
