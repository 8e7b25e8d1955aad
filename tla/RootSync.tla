------------------------------ MODULE RootSync ------------------------------
(***************************************************************************)
(* The workspace roots of one session, from the official client that knows *)
(* them to the supervisor's records.  A session expects one client, and    *)
(* with it one of three ways to learn its roots: an MCP server of Claude,  *)
(* the relay in front of a Codex app-server, or the plugin inside Hermes.  *)
(* All of them are shown to implement RootRegister.                        *)
(***************************************************************************)
EXTENDS McpRoots, CodexRoots, HermesRoots

VARIABLE client  \* the client this session expects

vars == <<client, records, mcp, codex, hermes>>

Init ==
  /\ client \in {"claude", "codex", "hermes"}
  /\ RecordsInit
  /\ McpInit
  /\ CodexInit /\ (client # "codex" => runner.kind = "adaptive" /\ runner.trusted)
  /\ HermesInit /\ (client # "hermes" => hookToken)

Next ==
  \/ client = "claude" /\ McpNext    /\ UNCHANGED <<client, codex, hermes>>
  \/ client = "codex"  /\ CodexNext  /\ UNCHANGED <<client, mcp, hermes>>
  \/ client = "hermes" /\ HermesNext /\ UNCHANGED <<client, mcp, codex>>

Spec == Init /\ [][Next]_vars

Others == client = "claude" /\ UNCHANGED <<client, codex, hermes>>

\* The MCP server runs, and the client answers what it is asked and announces
\* its changes; no human has to confirm anything.
FairSpec ==
  /\ Spec
  /\ WF_vars(Others /\ ServerStep)
  /\ WF_vars(Others /\ AnnounceChange)
  /\ WF_vars(Others /\ TakeSnapshot)
  /\ WF_vars(Others /\ AnswerRoots)

----------------------------------------------------------------------------
(* Properties. *)

TypeOK ==
  /\ client \in {"claude", "codex", "hermes"}
  /\ RecordsTypeOK /\ McpTypeOK /\ CodexTypeOK /\ HermesTypeOK

Register == INSTANCE RootRegister WITH
  inForce <- InForce, Versions <- 0..(MaxChanges + MaxRequests + MaxGenerations)

\* Whatever the client, and whatever is overtaken, refused, timed out or lost
\* on the way, the roots in force are a version the client has stated, and one
\* that was replaced, ended or announced as stale never comes back.
ImplementsRegister == Register!Spec

\* When a Claude client stops changing its roots, the supervisor ends up with
\* exactly its last version: a change announced while a list is on its way is
\* not lost.  Excused are a server that is gone or never had authority, a
\* client that answered with an error, and a message that _elicit took for the
\* human's answer.
McpCatchesUp ==
  client = "claude" =>
    <>[](\/ InForce[RootSet] = roots
         \/ server.at = "gone" \/ ~server.authorized
         \/ server.refused \/ server.missed)

\* When the user's Codex client sees the response to a request, the adaptive
\* runner has already settled the roots that follow from it: they, or newer
\* ones of the same thread, were accepted, or the supervisor refused them.
ShownIsSettled ==
  \A i \in shown :
    LET q == requests[i] IN
    runner.kind = "adaptive" /\ runner.trusted /\ Concerns(q)
      => \/ heard[Thread(q)] >= i
         \/ \E j \in unconfirmed : j >= i /\ Thread(requests[j]) = Thread(q)

\* "This integration exists in both CCC PID-1 lifecycle implementations"
\* (trusted-workspace-scope-protocol.md): the same of the embedded foreground
\* runner.
ShownIsSettledInForeground ==
  \A i \in shown :
    LET q == requests[i] IN
    runner.trusted /\ Concerns(q)
      => \/ heard[Thread(q)] >= i
         \/ \E j \in unconfirmed : j >= i /\ Thread(requests[j]) = Thread(q)

\* As long as no answer got lost, the Hermes plugin knows every workspace that
\* is in force and will therefore end it: none outlives its conversation but
\* one whose end the supervisor itself turned down, which the plugin forgets
\* all the same (_signal_workspace_end).
GrantedIsKnown ==
  call = {} /\ channel \in {"none", "open"} =>
    \A c \in Conversations :
      InForce[c] # 0 => \/ confirmed[c] = statements[c][InForce[c]]
                       \/ c \in unended

============================================================================
