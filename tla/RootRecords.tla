---------------------------- MODULE RootRecords ----------------------------
(***************************************************************************)
(* The supervisor's end of root synchronisation, shared by every kind of   *)
(* client: one record per logical session, replaced as a whole and only by *)
(* a newer generation (replace_workspace_session in turn.py).  The content *)
(* of the roots is a version number; WorkspaceScopes says what they allow. *)
(***************************************************************************)
EXTENDS Naturals

CONSTANTS
  Threads,        \* Codex threads
  Conversations,  \* Hermes conversations
  RootSet         \* the one logical session of an MCP transport

Sessions == Threads \cup Conversations \cup {RootSet}

ASSUME SessionsAssumption ==
  /\ Threads \cap Conversations = {}
  /\ RootSet \notin Threads \cup Conversations

VARIABLES
  record,  \* authenticated_workspace_sessions
  stated,  \* history: the versions the client has stated
  heard    \* history: the version the last accepted update was about

records == <<record, stated, heard>>

Record == [state : {"none", "active", "ended"}, generation : Nat, version : Nat]

NoRecord == [state |-> "none", generation |-> 0, version |-> 0]

RecordsInit ==
  /\ record = [s \in Sessions |-> NoRecord]
  /\ stated = [s \in Sessions |-> {0}]
  /\ heard = [s \in Sessions |-> 0]

States(s, v) == stated' = [stated EXCEPT ![s] = @ \cup {v}]

\* The clients never repeat a generation, so an equal one collides.
Fresher(s, g) == record[s].state # "none" => g > record[s].generation

\* An accepted replacement of generation g, caused by version `about', that
\* puts version v in force: `about' itself or 0, the empty set of roots.
Replace(s, g, v, state, about) ==
  /\ Fresher(s, g)
  /\ record' = [record EXCEPT ![s] =
       [state |-> state, generation |-> g, version |-> v]]
  /\ heard' = [heard EXCEPT ![s] = about]
  /\ UNCHANGED stated

\* Mutant: a state the records do not have.
WithdrawRevoked(ss) ==
  /\ record' = [s \in Sessions |->
       IF s \in ss THEN [record[s] EXCEPT !.state = "revoked"] ELSE record[s]]
  /\ UNCHANGED <<stated, heard>>

\* revoke_workspace_authority of the sessions of a lost transport.
Withdraw(ss) ==
  /\ record' = [s \in Sessions |->
       IF s \in ss /\ record[s].state = "active"
       THEN [state |-> "ended", generation |-> record[s].generation + 1,
             version |-> 0]
       ELSE record[s]]
  /\ UNCHANGED <<stated, heard>>

InForce == [s \in Sessions |->
              IF record[s].state = "active" THEN record[s].version ELSE 0]

RecordsTypeOK ==
  /\ record \in [Sessions -> Record]
  /\ stated \in [Sessions -> SUBSET Nat]
  /\ heard \in [Sessions -> Nat]

============================================================================
