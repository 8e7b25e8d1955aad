--------------------------- MODULE ControlChannel ---------------------------
(***************************************************************************)
(* The control channel of a session (ControlServer in control.py): which   *)
(* connection may decide, which may replace workspace roots, and when the  *)
(* roots of a transport that closed are withdrawn.                         *)
(*                                                                         *)
(* Every connection has a thread of its own, and every lost pinned         *)
(* connection leaves a thread behind that revokes after a grace period.    *)
(* The server's locks protect single reads and writes of the pins, not the *)
(* sequences of them, so a step here ends wherever a lock is released or   *)
(* /proc is read again.                                                    *)
(*                                                                         *)
(* A process is a pid with its start time: a model value.  It stays        *)
(* visible in /proc until its parent reaps it, its connections close when  *)
(* it exits.  The MCP servers and the processes the agent starts (Tool)    *)
(* are children of the official client; the launched bwrap and PID 1 live  *)
(* until the sandbox is torn down.                                         *)
(***************************************************************************)
EXTENDS Naturals, FiniteSets

CONSTANTS
  Conns,    \* slots for connections and what their threads leave behind
  Servers,  \* processes running `ccc-agent mcp-server', in starting order
  Client,   \* the official client
  Runner,   \* namespace PID 1
  Tool,     \* any process of the agent that knows the session token
  ToolOps,  \* what it asks for
  Agents,   \* clients a session may expect
  Wrapper,  \* allow_unregistered_mcp_parent
  None

Procs == Servers \cup {Client, Runner, Tool}

\* Process incarnations whose roots end with their connection.  The roots that
\* PID 1 reports are tied to no connection, and are left out here.
Instances == Servers \cup {Client}

Admissions == {"mcp-admit", "workspace-admit"}
Requests   == {"replace", "confirm", "keep", "decide", "plain"}
Ops        == Admissions \cup Requests \cup {"register"}

\* What _eligible_mcp_peer and _eligible_workspace_peer answer.
Eligibilities == {"destructive", "read-only", "workspace", "refused"}

ASSUME ChannelAssumption ==
  /\ Agents \subseteq {"claude", "codex", "hermes"}
  /\ Wrapper \in BOOLEAN
  /\ Conns \subseteq Nat /\ Servers \subseteq Nat
  /\ ToolOps \subseteq Ops
  /\ None \notin Procs \cup Conns
  /\ {Client, Runner, Tool} \cap Servers = {}
  /\ Client # Runner /\ Client # Tool /\ Runner # Tool

VARIABLES
  agent,         \* expected_clients: one name
  proc,          \* life of a process
  hidden,        \* the client's descriptor table is hidden
  registered,    \* _registered_client_fingerprint is the client's
  conn,          \* the connections and their threads
  mcpPin,        \* _mcp_conn, with its fingerprint
  readOnly,      \* _read_only_mcp_connections
  workspacePin,  \* _workspace_conn
  workspaceUsed, \* _workspace_fingerprint is set
  admitted,      \* MCP servers that were told they are admitted
  roots,         \* the roots in the records of an authority instance: none,
                 \* in force, or ended by a revocation
  unnamed,       \* history: instances whose lost connection the supervisor
                 \* could not assign to them
  stopped        \* _stop

processes == <<proc, hidden>>
pins      == <<mcpPin, readOnly, workspacePin, workspaceUsed>>
authority == <<roots, unnamed>>
vars == <<agent, processes, registered, conn, pins, admitted, authority,
          stopped>>

\* What a connection's thread, and then its revocation thread, is doing.
ThreadStates == {"free", "reading", "admitting", "checked", "closing",
                 "releasing", "grace", "revoking"}

\* What the thread holds between two of its steps: an eligibility, or a request
\* and the authority instance it was checked for.
Connection == [peer : Procs \cup {None}, st : ThreadStates,
               op : Requests \cup {None}, eof : BOOLEAN,
               elig : Eligibilities \cup {None},
               auth : Instances \cup {Runner, None}]

FreeConnection == [peer |-> None, st |-> "free", op |-> None, eof |-> FALSE,
                   elig |-> None, auth |-> None]

Init ==
  /\ agent \in Agents
  /\ proc = [p \in Procs |-> IF p \in Servers THEN "unborn" ELSE "live"]
  /\ hidden \in BOOLEAN
  /\ registered = FALSE
  /\ conn = [c \in Conns |-> FreeConnection]
  /\ mcpPin = None /\ workspacePin = None
  /\ readOnly = {} /\ workspaceUsed = FALSE
  /\ admitted = {}
  /\ roots = [i \in Instances |-> "none"]
  /\ unnamed = {}
  /\ stopped = FALSE

----------------------------------------------------------------------------
(* What the supervisor reads in /proc. *)

\* _proc_identity compared with a fingerprint: also for one not reaped yet.
Known(p) == proc[p] \in {"live", "exited"}

\* ppid: children of a process that exited belong to PID 1.
ChildOfClient(p) == p \in Servers \cup {Tool} /\ proc[Client] = "live"

\* _proc_fds_hidden: MCP servers and PID 1 harden themselves first.
FdsHidden(p) == p \in Servers \cup {Runner} \/ (p = Client /\ hidden)

----------------------------------------------------------------------------
(* Validity of pinned connections, computed afresh for every request. *)

IsMcp(c)  == c = mcpPin \/ c \in readOnly
Pinned(c) == IsMcp(c) \/ c = workspacePin

\* _mcp_connection_valid
McpValid(c) ==
  /\ IsMcp(c)
  /\ Known(conn[c].peer) /\ Known(Client)
  /\ ChildOfClient(conn[c].peer)
  /\ c = mcpPin => FdsHidden(conn[c].peer) /\ FdsHidden(Client)

\* _workspace_connection_valid
WorkspaceValid(c) ==
  c = workspacePin /\ Known(Client) /\ FdsHidden(Client)

\* _runner_connection_state, once _wait_runner_connection has waited.
RunnerValid(c) ==
  /\ conn[c].peer = Runner /\ registered
  /\ Known(Runner) /\ proc[Client] = "live"
  /\ FdsHidden(Runner) /\ FdsHidden(Client)

\* _workspace_authority: the process incarnation that answers for the roots.
Authority(c) ==
  CASE c = mcpPin ->
         IF McpValid(c) THEN conn[c].peer ELSE None
    [] c # mcpPin /\ c = workspacePin ->
         IF WorkspaceValid(c) THEN Client ELSE None
    [] OTHER ->
         IF RunnerValid(c) /\ agent = "codex" THEN Runner ELSE None

\* _eligible_mcp_peer: behind a server wrapper the client is unregistered.
McpEligibility(p) ==
  IF \/ agent = "hermes" /\ ~registered
     \/ ~registered /\ ~Wrapper
     \/ ~Known(p) \/ ~Known(Client) \/ ~ChildOfClient(p)
  THEN "refused"
  ELSE IF registered /\ FdsHidden(p) /\ FdsHidden(Client)
       THEN "destructive" ELSE "read-only"

\* _admit_workspace_client, _eligible_workspace_peer
WorkspaceEligibility(p) ==
  IF /\ agent = "hermes" /\ registered
     /\ p = Client /\ Known(Client) /\ FdsHidden(Client)
  THEN "workspace" ELSE "refused"

----------------------------------------------------------------------------
(* Processes. *)

Spawn(m) ==
  /\ proc[m] = "unborn" /\ proc[Client] = "live" /\ agent # "hermes"
  /\ \A o \in Servers : o < m => proc[o] # "unborn"
  /\ proc' = [proc EXCEPT ![m] = "live"]
  /\ UNCHANGED <<agent, hidden, registered, conn, pins, admitted, authority, stopped>>

\* The kernel closes its connections; children of the client go to PID 1.
Exit(p) ==
  /\ p \in Servers \cup {Client} /\ proc[p] = "live"
  /\ proc' = [proc EXCEPT ![p] = "exited"]
  /\ conn' = [c \in Conns |-> IF conn[c].peer = p
                              THEN [conn[c] EXCEPT !.eof = TRUE] ELSE conn[c]]
  /\ UNCHANGED <<agent, hidden, registered, pins, admitted, authority, stopped>>

Reap(p) ==
  /\ proc[p] = "exited"
  /\ proc' = [proc EXCEPT ![p] = "gone"]
  /\ UNCHANGED <<agent, hidden, registered, conn, pins, admitted, authority, stopped>>

\* The preload constructor hides the client's descriptors; exec exposes them.
Harden ==
  /\ proc[Client] = "live" /\ hidden' = ~hidden
  /\ UNCHANGED <<agent, proc, registered, conn, pins, admitted, authority, stopped>>

\* PID 1 returned: the kernel ends the namespace, then the supervisor stops.
Teardown ==
  /\ proc[Runner] = "live"
  /\ proc' = [p \in Procs |-> "gone"]
  /\ conn' = [c \in Conns |-> IF conn[c].st = "free" THEN conn[c]
                              ELSE [conn[c] EXCEPT !.eof = TRUE]]
  /\ UNCHANGED <<agent, hidden, registered, pins, admitted, authority, stopped>>

\* stop: connection threads are not joined and go on.
Stop ==
  /\ proc[Runner] = "gone" /\ ~stopped
  /\ stopped' = TRUE
  /\ UNCHANGED <<agent, processes, registered, conn, pins, admitted, authority>>

----------------------------------------------------------------------------
(* Peers: what each of them asks for. *)

\* mcp.py, the Hermes plugin, PID 1, and whatever the agent runs.
Asks(p) ==
  CASE p \in Servers -> IF p \in admitted
                        THEN {"mcp-admit", "replace", "keep", "decide"}
                        ELSE {"mcp-admit"}
    [] p = Client    -> IF agent = "hermes" THEN {"workspace-admit", "replace"}
                                            ELSE {}
    [] p = Runner    -> {"register", "replace", "confirm"}
    [] p = Tool      -> ToolOps

\* An MCP server keeps the connection on which it was admitted, and opens a
\* new one when its admission was refused for the time being (admit).
Connect(c, p) ==
  /\ conn[c].st = "free" /\ proc[p] = "live" /\ ~stopped
  /\ \A d \in Conns : d < c => conn[d].st # "free"
  /\ Asks(p) # {}
  /\ p \in Servers =>
       /\ p \notin admitted
       /\ \A d \in Conns : conn[d].peer # p
  /\ conn' = [conn EXCEPT ![c] =
       [FreeConnection EXCEPT !.peer = p, !.st = "reading"]]
  /\ UNCHANGED <<agent, processes, registered, pins, admitted, authority, stopped>>

\* MCPControlClient.close, before the process exits.
Close(c) ==
  /\ conn[c].st = "reading" /\ ~conn[c].eof
  /\ conn' = [conn EXCEPT ![c].eof = TRUE]
  /\ UNCHANGED <<agent, processes, registered, pins, admitted, authority, stopped>>

----------------------------------------------------------------------------
(* The connection's thread: _handle_conn. *)

\* The thread reads a request of the peer.
Reads(c, op) ==
  conn[c].st = "reading" /\ ~conn[c].eof /\ op \in Asks(conn[c].peer)

\* The thread returns; without a pin there is nothing to release.
Left(c) == IF Pinned(c) THEN [conn[c] EXCEPT !.st = "closing"] ELSE FreeConnection

\* _register_initial_client: once, by PID 1, for its own child.
Register(c) ==
  /\ Reads(c, "register")
  /\ registered' = (registered \/ (conn[c].peer = Runner /\ Known(Runner)
                                   /\ proc[Client] = "live"))
  /\ conn' = [conn EXCEPT ![c] = Left(c)]
  /\ UNCHANGED <<agent, processes, pins, admitted, authority, stopped>>

\* The unlocked half of _admit_mcp and _admit_workspace_client.
ComputeEligibility(c, op) ==
  /\ Reads(c, op) /\ op \in Admissions
  /\ conn' = [conn EXCEPT ![c].st = "admitting", ![c].elig =
       IF op = "mcp-admit" THEN McpEligibility(conn[c].peer)
                           ELSE WorkspaceEligibility(conn[c].peer)]
  /\ UNCHANGED <<agent, processes, registered, pins, admitted, authority, stopped>>

\* Mutant: a destructive admission looks only for another destructive one.
MayPinBesideReadOnly(c, e) ==
  CASE e = "destructive" -> mcpPin = None
    [] e = "read-only"   -> mcpPin = None
    [] e = "workspace"   -> ~workspaceUsed
    [] OTHER             -> FALSE

\* The locked half: one pin, or any number of read-only connections.
MayPin(c, e) ==
  CASE e = "destructive" -> mcpPin = None /\ readOnly = {}
    [] e = "read-only"   -> mcpPin = None
    [] e = "workspace"   -> ~workspaceUsed
    [] OTHER             -> FALSE

Pin(c) ==
  LET e == conn[c].elig
      ok == MayPin(c, e)
  IN
  /\ conn[c].st = "admitting"
  /\ mcpPin' = IF ok /\ e = "destructive" THEN c ELSE mcpPin
  /\ readOnly' = IF ok /\ e = "read-only" THEN readOnly \cup {c} ELSE readOnly
  /\ workspacePin' = IF ok /\ e = "workspace" THEN c ELSE workspacePin
  /\ workspaceUsed' = (workspaceUsed \/ (ok /\ e = "workspace"))
  /\ admitted' = IF ok /\ conn[c].peer \in Servers
                 THEN admitted \cup {conn[c].peer} ELSE admitted
  /\ conn' = [conn EXCEPT ![c] =
       IF ok THEN [@ EXCEPT !.st = "reading", !.elig = None]
       ELSE IF Pinned(c) THEN [@ EXCEPT !.st = "closing", !.elig = None]
       ELSE FreeConnection]
  /\ UNCHANGED <<agent, processes, registered, authority, stopped>>

\* The checks a request has to pass before the handler sees it.
Passes(c, op) ==
  /\ IsMcp(c) => McpValid(c)
  /\ c = workspacePin => WorkspaceValid(c)
  /\ CASE op = "replace" -> Authority(c) # None
       [] op = "confirm" -> c = mcpPin \/ c = workspacePin \/ RunnerValid(c)
       [] op = "keep"    -> IsMcp(c)
       [] op = "decide"  -> c = mcpPin
       [] op = "plain"   -> TRUE

\* After a rejection the thread goes on or closes the connection.
SurvivesRejection(c, op) ==
  CASE op \in {"replace", "confirm"} -> Pinned(c)
    [] op = "decide"                 -> McpValid(c)
    [] op \in {"keep", "plain"}      -> FALSE

Check(c, op) ==
  /\ Reads(c, op) /\ op \in Requests
  /\ conn' = [conn EXCEPT ![c] =
       IF Passes(c, op)
       THEN [@ EXCEPT !.st = "checked", !.op = op, !.auth = Authority(c)]
       ELSE IF SurvivesRejection(c, op) THEN @ ELSE Left(c)]
  /\ UNCHANGED <<agent, processes, registered, pins, admitted, authority, stopped>>

\* The handler runs: a replacement leaves roots in the record or none.
Handle(c) ==
  /\ conn[c].st = "checked"
  /\ IF conn[c].op = "replace" /\ conn[c].auth \in Instances
     THEN \E r \in {"granted", "none"} :
            roots' = [roots EXCEPT ![conn[c].auth] = r]
     ELSE UNCHANGED roots
  /\ conn' = [conn EXCEPT ![c] =
       IF Pinned(c) THEN [@ EXCEPT !.st = "reading", !.op = None, !.auth = None]
                    ELSE FreeConnection]
  /\ UNCHANGED <<agent, processes, registered, pins, admitted, unnamed, stopped>>

\* Mutant: a connection whose process is gone is left as it is.
ComputeReleaseOfKnown(c) ==
  /\ conn[c].st = "closing" \/ (conn[c].st = "reading" /\ conn[c].eof)
  /\ Known(conn[c].peer)
  /\ readOnly' = readOnly \ {c}
  /\ conn' = [conn EXCEPT ![c] =
       IF c \in {mcpPin, workspacePin}
       THEN [@ EXCEPT !.eof = TRUE, !.st = "releasing", !.auth = Authority(c)]
       ELSE FreeConnection]
  /\ UNCHANGED <<agent, processes, registered, mcpPin, workspacePin,
                 workspaceUsed, admitted, authority, stopped>>

\* _release_pinned_connection: the authority is read first ...
ComputeRelease(c) ==
  /\ conn[c].st = "closing" \/ (conn[c].st = "reading" /\ conn[c].eof)
  /\ readOnly' = readOnly \ {c}
  /\ conn' = [conn EXCEPT ![c] =
       IF c \in {mcpPin, workspacePin}
       THEN [@ EXCEPT !.eof = TRUE, !.st = "releasing", !.auth = Authority(c)]
       ELSE FreeConnection]
  /\ UNCHANGED <<agent, processes, registered, mcpPin, workspacePin,
                 workspaceUsed, admitted, authority, stopped>>

\* Mutant: the revocation thread in a state that nothing leads out of.
OrphanedUntyped(c) ==
  /\ conn' = [conn EXCEPT ![c] = IF @.auth # None THEN [@ EXCEPT !.st = "waiting"]
                                                 ELSE FreeConnection]
  /\ unnamed' = IF conn[c].auth = None THEN unnamed \cup {conn[c].peer} ELSE unnamed

\* The thread that will revoke what the lost connection granted; without an
\* authority it has nothing to do, and the roots stay in force.
Orphaned(c) ==
  /\ conn' = [conn EXCEPT ![c] = IF @.auth # None THEN [@ EXCEPT !.st = "grace"]
                                                 ELSE FreeConnection]
  /\ unnamed' = IF conn[c].auth = None THEN unnamed \cup {conn[c].peer} ELSE unnamed

\* Mutant: the fingerprint is forgotten together with the connection.
ReleaseOfFingerprint(c) ==
  /\ conn[c].st = "releasing"
  /\ mcpPin' = IF mcpPin = c THEN None ELSE mcpPin
  /\ workspacePin' = IF workspacePin = c THEN None ELSE workspacePin
  /\ workspaceUsed' = (workspaceUsed /\ workspacePin # c)
  /\ Orphaned(c)
  /\ UNCHANGED <<agent, processes, registered, readOnly, admitted, roots, stopped>>

\* ... then the pin is cleared and the revocation thread starts.
Release(c) ==
  /\ conn[c].st = "releasing"
  /\ mcpPin' = IF mcpPin = c THEN None ELSE mcpPin
  /\ workspacePin' = IF workspacePin = c THEN None ELSE workspacePin
  /\ Orphaned(c)
  /\ UNCHANGED <<agent, processes, registered, readOnly, workspaceUsed,
                 admitted, roots, stopped>>

\* _revoke_roots_after_grace: the wait ends with the period or with stop.
GraceEnds(c) ==
  /\ conn[c].st = "grace"
  /\ conn' = [conn EXCEPT ![c] = IF stopped THEN FreeConnection
                                  ELSE [@ EXCEPT !.st = "revoking"]]
  /\ UNCHANGED <<agent, processes, registered, pins, admitted, authority, stopped>>

\* Mutant: a revocation that finds no live MCP server is skipped.
RevokeIfServerLive(c) ==
  LET i == conn[c].auth
      ends == Known(Client) /\ Known(i)
  IN
  /\ conn[c].st = "revoking"
  /\ roots' = IF ends THEN [roots EXCEPT ![i] = "revoked"] ELSE roots
  /\ conn' = [conn EXCEPT ![c] = FreeConnection]
  /\ UNCHANGED <<agent, processes, registered, pins, admitted, unnamed, stopped>>

\* _revoke_roots_if_client_live
Revoke(c) ==
  LET i == conn[c].auth
      ends == Known(Client)
  IN
  /\ conn[c].st = "revoking"
  /\ roots' = IF ends THEN [roots EXCEPT ![i] = "revoked"] ELSE roots
  /\ conn' = [conn EXCEPT ![c] = FreeConnection]
  /\ UNCHANGED <<agent, processes, registered, pins, admitted, unnamed, stopped>>

----------------------------------------------------------------------------
Thread(c) ==
  \/ Pin(c) \/ Handle(c)
  \/ ComputeRelease(c) \/ Release(c) \/ GraceEnds(c) \/ Revoke(c)

\* Its next request, if the peer sends one.
Request(c) ==
  \/ Register(c)
  \/ \E op \in Admissions : ComputeEligibility(c, op)
  \/ \E op \in Requests : Check(c, op)

Process ==
  \/ \E m \in Servers : Spawn(m)
  \/ \E p \in Procs : Exit(p) \/ Reap(p)
  \/ Harden \/ Teardown \/ Stop

Peer ==
  \E c \in Conns :
    \/ \E p \in Procs : Connect(c, p)
    \/ Request(c) \/ Close(c)

Next == Process \/ Peer \/ \E c \in Conns : Thread(c)

Spec == Init /\ [][Next]_vars

\* Threads of the server run; processes and peers do what they like.
FairSpec == Spec /\ \A c \in Conns : WF_vars(Thread(c))

----------------------------------------------------------------------------
(* Properties. *)

TypeOK ==
  /\ agent \in Agents
  /\ proc \in [Procs -> {"unborn", "live", "exited", "gone"}]
  /\ hidden \in BOOLEAN
  /\ registered \in BOOLEAN
  /\ conn \in [Conns -> Connection]
  /\ {mcpPin, workspacePin} \subseteq Conns \cup {None}
  /\ readOnly \subseteq Conns
  /\ workspaceUsed \in BOOLEAN
  /\ admitted \subseteq Servers
  /\ roots \in [Instances -> {"none", "granted", "revoked"}]
  /\ unnamed \subseteq Instances
  /\ stopped \in BOOLEAN

\* Whoever's decision has passed the checks is the only admitted MCP peer, and
\* stays it until the handler has run: admissions, releases and requests of
\* other connections never come between.
DecidesAlone ==
  \A c \in Conns :
    conn[c].st = "checked" /\ conn[c].op = "decide"
      => mcpPin = c /\ readOnly = {}

\* The delayed revocation of a lost transport is never aimed at the authority
\* of a connection that is pinned now, so it ends nothing that was granted
\* after the loss: a new MCP server of the same client is a new incarnation,
\* and the client itself is not admitted twice.
LateRevocationSparesLive ==
  \A c, d \in Conns :
    /\ conn[c].st \in {"grace", "revoking"}
    /\ d \in {mcpPin, workspacePin}
    => conn[c].auth # Authority(d)

\* A transport of the instance, or the thread that will revoke its roots; a
\* client that is gone, or a session that stops, ends all authority.
Answered(i) == (\E c \in Conns : conn[c].peer = i) \/ ~Known(Client) \/ stopped

\* Roots are in force only as long as their transport is: between its loss and
\* their revocation there is always a thread that will see to it, whatever
\* other connections and revocations do meanwhile.  The one exception is a loss
\* that the supervisor could not assign to its instance.
LostRootsAreRevoked ==
  \A i \in Instances : roots[i] = "granted" => Answered(i) \/ i \in unnamed

\* What docs/trusted-workspace-scope-protocol.md says, without the exception: a
\* transport lost while the client lives leaves no stale authority of its own.
RootsEndWithTransport ==
  proc[Client] = "live" /\ ~stopped =>
    \A i \in Instances : roots[i] = "granted" => \E c \in Conns : conn[c].peer = i

\* A pinned connection that was lost does not keep the next MCP server out,
\* whatever is left of its process when the supervisor notices.
PinIsFreed ==
  \A c \in Conns : (mcpPin = c /\ conn[c].eof) ~> (mcpPin # c)

============================================================================
