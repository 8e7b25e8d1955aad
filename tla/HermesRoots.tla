---------------------------- MODULE HermesRoots ----------------------------
(***************************************************************************)
(* Root synchronisation of Hermes: the plugin in the client's own process  *)
(* states one workspace per conversation over one pinned connection        *)
(* (assets/plugins/hermes-ccc-containment/__init__.py).                    *)
(*                                                                         *)
(* A call of the plugin holds its lock until the supervisor has answered   *)
(* or thirty seconds have passed.  After that the connection stays open    *)
(* and requests are still carried out, but no answer can be read from it   *)
(* any more ("deaf").  A connection the supervisor closed is never         *)
(* replaced.                                                               *)
(***************************************************************************)
EXTENDS RootRecords, Sequences

CONSTANTS
  Workspaces,      \* directories a conversation may work in
  MaxGenerations,  \* bound on the statements of one conversation
  NoWorkspace

ASSUME HermesAssumption ==
  NoWorkspace \notin Workspaces /\ MaxGenerations \in Nat

VARIABLES
  hookToken,   \* CCC_AGENT_HOOK_TOKEN is set
  confirmed,   \* _WORKSPACE_PATHS
  hooked,      \* _HOOK_WORKSPACE_PATHS
  statements,  \* workspaces by _WORKSPACE_GENERATIONS
  channel,     \* _WORKSPACE_CONTROL
  wire,        \* requests the supervisor has not carried out
  call,        \* the request that _WORKSPACE_LOCK is held for, if any
  unended      \* history: conversations whose end was turned down

hermes ==
  <<hookToken, confirmed, hooked, statements, channel, wire, call, unended>>

Statement == [conversation : Conversations, generation : 1..MaxGenerations,
              workspace : Workspaces \cup {NoWorkspace},
              state : {"active", "ended"}]

HermesInit ==
  /\ hookToken \in BOOLEAN
  /\ confirmed = [c \in Conversations |-> NoWorkspace]
  /\ hooked = [c \in Conversations |-> NoWorkspace]
  /\ statements = [c \in Conversations |-> <<>>]
  /\ channel = "none" /\ wire = <<>> /\ call = {} /\ unended = {}

----------------------------------------------------------------------------
(* The plugin. *)

\* _replace_workspace_session: a new generation, sent if there is a channel to
\* send it on, and waited for if its answer can be read.
SendStatement(c, w, state) ==
  LET g == Len(statements[c]) + 1
      e == [conversation |-> c, generation |-> g, workspace |-> w,
            state |-> state]
  IN
  /\ g <= MaxGenerations
  /\ statements' = [statements EXCEPT ![c] = Append(@, w)]
  /\ States(c, g)
  /\ \/ /\ channel \in {"none", "open"}
        /\ channel' = "open" /\ wire' = Append(wire, e) /\ call' = {e}
     \/ /\ channel = "deaf"
        /\ wire' = Append(wire, e)
        /\ UNCHANGED <<channel, call>>
     \/ /\ channel \in {"none", "lost"}  \* admission or sending fails
        /\ UNCHANGED <<channel, wire, call>>

\* _signal_workspace_start, before every turn.  The hook command may fail; if
\* it raises, nothing is sent and nothing changes.
BeginTurn(c, w) ==
  /\ call = {} /\ ~(confirmed[c] = w /\ hooked[c] = w)
  /\ \E told \in {hooked[c]} \cup (IF hookToken THEN {w} ELSE {}) :
       hooked' = [hooked EXCEPT ![c] = told]
  /\ SendStatement(c, w, "active")
  /\ UNCHANGED <<record, heard, hookToken, confirmed, unended>>

Forgotten(f, c) == [f EXCEPT ![c] = NoWorkspace]

\* Mutant: the plugin forgets the conversation and sends nothing.
EndConversationQuietly(c) ==
  /\ call = {} /\ confirmed[c] # NoWorkspace
  /\ confirmed' = Forgotten(confirmed, c)
  /\ hooked' = Forgotten(hooked, c)
  /\ UNCHANGED <<records, hookToken, statements, channel, wire, call, unended>>

\* _signal_workspace_end: only a confirmed workspace is ended, and it is
\* forgotten whatever comes of the request.
EndConversation(c) ==
  /\ call = {} /\ {confirmed[c], hooked[c]} # {NoWorkspace}
  /\ confirmed' = Forgotten(confirmed, c)
  /\ hooked' = Forgotten(hooked, c)
  /\ IF confirmed[c] # NoWorkspace
     THEN SendStatement(c, NoWorkspace, "ended")
     ELSE UNCHANGED <<stated, statements, channel, wire, call>>
  /\ UNCHANGED <<record, heard, hookToken, unended>>

\* No answer for thirty seconds.
AnswerTimesOut ==
  /\ call # {}
  /\ call' = {} /\ channel' = "deaf"
  /\ UNCHANGED <<records, hookToken, confirmed, hooked, statements, wire,
                 unended>>

----------------------------------------------------------------------------
(* The supervisor's end of the connection. *)

\* The next request is carried out; only the call that waits hears of it.
CarryOut ==
  LET e == Head(wire) IN
  /\ wire # <<>> /\ wire' = Tail(wire)
  /\ Replace(e.conversation, e.generation,
             IF e.state = "active" THEN e.generation ELSE 0,
             e.state, e.generation)
  /\ call' = call \ {e}
  /\ confirmed' = IF e \in call /\ e.state = "active"
       THEN [confirmed EXCEPT ![e.conversation] = e.workspace] ELSE confirmed
  /\ unended' = unended \ {e.conversation}
  /\ UNCHANGED <<hookToken, hooked, statements, channel>>

\* The client has no authority at this moment, the directory is inadmissible,
\* or the handler raises: the answer says so, and the connection stays open.
TurnDown ==
  LET e == Head(wire) IN
  /\ wire # <<>> /\ wire' = Tail(wire)
  /\ call' = call \ {e}
  /\ unended' = IF e.state = "ended" THEN unended \cup {e.conversation}
                ELSE unended
  /\ UNCHANGED <<records, hookToken, confirmed, hooked, statements, channel>>

\* The client had its authority and then does not pass the check made last
\* before the handler: the request is refused and the connection closed.
CloseChannel ==
  /\ wire # <<>>
  /\ channel' = "lost" /\ wire' = <<>> /\ call' = {}
  /\ UNCHANGED <<records, hookToken, confirmed, hooked, statements, unended>>

\* The supervisor revokes what came over the lost connection.
ChannelRevoked ==
  /\ channel = "lost"
  /\ \E c \in Conversations : record[c].state = "active"
  /\ Withdraw(Conversations)
  /\ UNCHANGED hermes

HermesNext ==
  \/ \E c \in Conversations, w \in Workspaces : BeginTurn(c, w)
  \/ \E c \in Conversations : EndConversation(c)
  \/ AnswerTimesOut \/ CarryOut \/ TurnDown \/ CloseChannel \/ ChannelRevoked

HermesTypeOK ==
  /\ hookToken \in BOOLEAN
  /\ confirmed \in [Conversations -> Workspaces \cup {NoWorkspace}]
  /\ hooked \in [Conversations -> Workspaces \cup {NoWorkspace}]
  /\ statements \in [Conversations -> Seq(Workspaces \cup {NoWorkspace})]
  /\ channel \in {"none", "open", "deaf", "lost"}
  /\ wire \in Seq(Statement) /\ call \subseteq Statement
  /\ unended \subseteq Conversations

============================================================================
