-------------------------- MODULE MCControlChannel --------------------------
(* An instance of ControlChannel for TLC: two MCP servers of one client,    *)
(* and at most two connections or revocation threads at a time.             *)
EXTENDS ControlChannel

MCConns == 1..2
MCServers == 1..2
============================================================================
