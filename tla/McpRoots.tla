------------------------------ MODULE McpRoots ------------------------------
(***************************************************************************)
(* Root synchronisation of Claude: the CCC MCP server (MCPServer in        *)
(* mcp.py), the official client that owns its stdin and stdout, and the    *)
(* pinned control connection, on which every request is answered before    *)
(* the next message is read.                                               *)
(*                                                                         *)
(* The client works concurrently: it may take a snapshot of its roots,     *)
(* change them, announce the change and only then send the snapshot.  The  *)
(* server is one loop, except that a destructive tool asks the human a     *)
(* nested question and reads the next line itself.                         *)
(***************************************************************************)
EXTENDS RootRecords, Integers, Sequences

CONSTANTS
  MaxChanges,  \* bound on changes of the client's roots
  MaxCalls     \* bound on calls of destructive tools

ASSUME McpAssumption == MaxChanges \in Nat /\ MaxCalls \in Nat

VARIABLES
  roots,      \* client: the version of its roots
  owes,       \* client: a change it has not announced
  snapshot,   \* client: the version it is about to answer with, -1 for none
  asks,       \* requests of the server the client has not answered
  calls,      \* client: tool calls made
  toServer,   \* the server's stdin
  server      \* the MCPServer object

mcp == <<roots, owes, snapshot, asks, calls, toServer, server>>

Server == [at : {"reading", "eliciting", "gone"}, authorized : BOOLEAN,
           pending : BOOLEAN,       \* _pending_roots_id is not None
           refresh : BOOLEAN,       \* _roots_refresh_pending
           generation : Nat,        \* _workspace_generation
           elicitation : Nat,       \* _elicitation_id
           missed : BOOLEAN,        \* history: _elicit took a root message
           refused : BOOLEAN]       \* history: the last list was no list

Message(kind, v) == [kind |-> kind, v |-> v]

McpInit ==
  /\ roots = 0 /\ owes = FALSE /\ snapshot = -1
  /\ asks = {} /\ calls = 0
  /\ toServer = <<Message("initialize", 0), Message("initialized", 0)>>
  /\ server = [at |-> "reading", authorized |-> FALSE, pending |-> FALSE,
               refresh |-> FALSE, generation |-> 0, elicitation |-> 0,
               missed |-> FALSE, refused |-> FALSE]

----------------------------------------------------------------------------
(* The official client. *)

Sends(kind, v) == toServer' = Append(toServer, Message(kind, v))

ChangeRoots ==
  /\ roots < MaxChanges
  /\ roots' = roots + 1 /\ owes' = TRUE
  /\ States(RootSet, roots + 1)
  /\ UNCHANGED <<record, heard, snapshot, asks, calls, toServer, server>>

AnnounceChange ==
  /\ owes /\ owes' = FALSE
  /\ Sends("changed", roots)
  /\ UNCHANGED <<records, roots, snapshot, asks, calls, server>>

TakeSnapshot ==
  /\ Message("roots", 0) \in asks
  /\ asks' = asks \ {Message("roots", 0)}
  /\ snapshot' = roots
  /\ UNCHANGED <<records, roots, owes, calls, toServer, server>>

\* The answer, or an error in its place.
AnswerRoots ==
  /\ snapshot # -1 /\ snapshot' = -1
  /\ Sends("roots", snapshot) \/ Sends("error", 0)
  /\ UNCHANGED <<records, roots, owes, asks, calls, server>>

CallTool ==
  /\ calls < MaxCalls /\ calls' = calls + 1
  /\ Sends("call", 0)
  /\ UNCHANGED <<records, roots, owes, snapshot, asks, server>>

\* The human answers, sooner or later or never.
AnswerElicitation ==
  \E m \in asks :
    /\ m.kind = "elicit"
    /\ asks' = asks \ {m}
    /\ Sends("answer", m.v)
    /\ UNCHANGED <<records, roots, owes, snapshot, calls, server>>

----------------------------------------------------------------------------
(* The server: run, dispatch. *)

Reads(kind) ==
  /\ server.at = "reading" /\ toServer # <<>>
  /\ Head(toServer).kind = kind
  /\ toServer' = Tail(toServer)
  /\ UNCHANGED <<roots, owes, snapshot, calls>>

\* initialize: admission may be refused, or admit without authority.
ReadInitialize ==
  /\ Reads("initialize")
  /\ \/ \E yes \in BOOLEAN : server' = [server EXCEPT !.authorized = yes]
     \/ server' = [server EXCEPT !.at = "gone"]
  /\ UNCHANGED <<records, asks>>

\* Mutant: a change that finds a list on its way is taken to be in it.
RequestOnce(s) ==
  IF s.authorized /\ ~s.pending THEN [s EXCEPT !.pending = TRUE] ELSE s

\* _request_roots
Request(s) ==
  IF ~s.authorized THEN s
  ELSE IF s.pending THEN [s EXCEPT !.refresh = TRUE]
  ELSE [s EXCEPT !.pending = TRUE]

Asking(s) == IF Request(s).pending /\ ~s.pending
             THEN asks \cup {Message("roots", 0)} ELSE asks

ReadInitialized ==
  /\ Reads("initialized")
  /\ server' = Request(server)
  /\ asks' = Asking(server)
  /\ UNCHANGED records

Gone == [server EXCEPT !.at = "gone"]

\* A ControlError, or an error nobody catches: the process ends.
Fails ==
  /\ server' = Gone
  /\ UNCHANGED <<records, asks>>

\* _replace_workspace_roots
Replaces(s, v, about) ==
  Replace(RootSet, s.generation + 1, v, "active", about)

\* _roots_changed: the old roots go at once, the new list comes later.
ReadChanged ==
  LET s == [server EXCEPT !.generation = @ + 1] IN
  /\ Reads("changed")
  /\ \/ /\ ~server.authorized
        /\ UNCHANGED <<records, asks, server>>
     \/ /\ server.authorized
        /\ Replaces(server, 0, Head(toServer).v)
        /\ \/ server' = Request(s) /\ asks' = Asking(s)
           \/ server' = Gone /\ UNCHANGED asks  \* the answer came too late
     \/ server.authorized /\ Fails

\* Mutant: the overtaken list is dropped, and that is all.
ReadStaleRootsOnly ==
  /\ Reads("roots") \/ Reads("error")
  /\ server.pending /\ server.refresh
  /\ server' = [server EXCEPT !.pending = FALSE, !.refresh = FALSE]
  /\ UNCHANGED <<records, asks>>

\* _handle_roots_response of a list that a change has overtaken.
ReadStaleRoots ==
  LET s == [server EXCEPT !.pending = FALSE, !.refresh = FALSE] IN
  /\ Reads("roots") \/ Reads("error")
  /\ server.pending /\ server.refresh
  /\ server' = Request(s)
  /\ asks' = Asking(s)
  /\ UNCHANGED records

\* _handle_roots_response: the list is put in force, or is inadmissible.
ReadRoots ==
  LET v == Head(toServer).v IN
  /\ Reads("roots") /\ server.pending /\ ~server.refresh
  /\ \/ /\ Replaces(server, v, v)
        /\ server' \in {[server EXCEPT !.pending = FALSE, !.refused = FALSE,
                                        !.generation = @ + 1], Gone}
        /\ UNCHANGED asks
     \/ Fails

\* An error, or a result without a list of roots.
ReadError ==
  /\ Reads("error") /\ server.pending /\ ~server.refresh
  /\ server' = [server EXCEPT !.pending = FALSE, !.refused = TRUE]
  /\ UNCHANGED <<records, asks>>

\* tools/call: without authority, without a form to fill in and without paths
\* to decide about, the answer comes at once.
ReadCall ==
  /\ Reads("call")
  /\ \/ /\ server.authorized
        /\ server' = [server EXCEPT !.at = "eliciting", !.elicitation = @ + 1]
        /\ asks' = asks \cup {Message("elicit", server.elicitation + 1)}
     \/ UNCHANGED <<server, asks>>
  /\ UNCHANGED records

\* _elicit takes the next line for the answer, whatever it is.
ReadConfirmation ==
  /\ server.at = "eliciting" /\ toServer # <<>>
  /\ toServer' = Tail(toServer)
  /\ server' = [server EXCEPT !.at = "reading",
       !.missed = @ \/ Head(toServer).kind \in {"changed", "roots", "error"}]
  /\ UNCHANGED <<records, roots, owes, snapshot, asks, calls>>

\* The answer to a question the server has given up on.
ReadStray ==
  /\ Reads("answer")
  /\ UNCHANGED <<records, asks, server>>

\* stdin at its end, or a signal.
ServerEnds ==
  /\ server.at # "gone"
  /\ Fails
  /\ UNCHANGED <<roots, owes, snapshot, calls, toServer>>

\* The supervisor notices the lost transport (ControlChannel).
TransportRevoked ==
  /\ server.at = "gone" /\ record[RootSet].state = "active"
  /\ Withdraw({RootSet})
  /\ UNCHANGED mcp

ServerStep ==
  \/ ReadInitialize \/ ReadInitialized \/ ReadChanged \/ ReadStaleRoots
  \/ ReadRoots \/ ReadError \/ ReadCall \/ ReadConfirmation \/ ReadStray

McpNext ==
  \/ ChangeRoots \/ AnnounceChange \/ TakeSnapshot \/ AnswerRoots
  \/ CallTool \/ AnswerElicitation
  \/ ServerStep \/ ServerEnds \/ TransportRevoked

McpTypeOK ==
  /\ roots \in 0..MaxChanges /\ owes \in BOOLEAN
  /\ snapshot \in -1..MaxChanges
  /\ asks \subseteq [kind : {"roots", "elicit"}, v : Nat]
  /\ calls \in 0..MaxCalls
  /\ toServer \in Seq([kind : {"initialize", "initialized", "changed", "roots",
                               "error", "call", "answer"}, v : Nat])
  /\ server \in Server

============================================================================
