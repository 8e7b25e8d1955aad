------------------------- MODULE MCWorkspaceScopes -------------------------
(* Instances of WorkspaceScopes for TLC: the run workspace, a directory    *)
(* beneath it, and an unrelated project.                                   *)
EXTENDS WorkspaceScopes, TLC

MCDirs == {"ws", "ws/sub", "other"}
MCWithin == {<<d, d>> : d \in MCDirs} \cup {<<"ws/sub", "ws">>}
MCStatic == {"ws"}
\* Both logical sessions speak through the pinned MCP connection.
MCTransportOf == [c \in Clients |-> "mcp"]

\* The logical sessions are interchangeable.
MCSymmetry == Permutations(Clients)
============================================================================
