-------------------------- MODULE WorkspaceScopes --------------------------
(***************************************************************************)
(* The commit scopes of a live session (TurnController in turn.py): which  *)
(* directories are in allowed_scopes, and on whose authority.              *)
(*                                                                         *)
(* Lifecycle hooks may refine what the operator allowed and propose the    *)
(* rest; authenticated clients replace the exact roots of their logical    *)
(* sessions, generation by generation; the user may approve single paths.  *)
(* Every operation holds the controller's lock and saves the record before *)
(* it releases it, so a crash between two operations loses nothing and the *)
(* next launch starts with reset_agent_workspaces.                         *)
(*                                                                         *)
(* A directory is its canonical key; lists without an order that matters   *)
(* are sets.  A path that the admission policy refuses changes nothing and *)
(* is left out.                                                            *)
(***************************************************************************)
EXTENDS Naturals, FiniteSets

CONSTANTS
  Dirs,         \* admissible directories under the protected roots
  Within,       \* <<a, b>>: a is b or lies beneath b (paths.is_within)
  Static,       \* allowed_scopes at launch: run workspace and --scope
  Workspace,    \* workspace_scopes at launch: at most the run workspace
  Hooks,        \* inner agent sessions known to the lifecycle hooks
  Clients,      \* authenticated logical sessions (record keys)
  Transports,   \* authority instances
  TransportOf,  \* the authority instance of a logical session
  Revocable,    \* pinned transports, whose authority ends when they close
  MaxGeneration \* bound on generations

ASSUME ScopesAssumption ==
  /\ Within \subseteq Dirs \X Dirs
  /\ \A d \in Dirs : <<d, d>> \in Within
  /\ \A a, b, c \in Dirs :
       <<a, b>> \in Within /\ <<b, c>> \in Within => <<a, c>> \in Within
  /\ Static \subseteq Dirs
  /\ Workspace \subseteq Static
  /\ TransportOf \in [Clients -> Transports]
  /\ Revocable \subseteq Transports
  /\ MaxGeneration \in Nat

VARIABLES
  allowed,     \* policy.allowed_scopes
  workspaces,  \* policy.workspace_scopes
  ceiling,     \* policy.workspace_scope_ceiling, once it is initialised
  ceilingSet,  \* whether it is
  refs,        \* policy.hook_workspace_refs: the owners of a hook's scope
  proposals,   \* policy.hook_workspace_proposals: the owners of a proposal
  mcpRoots,    \* policy.mcp_workspace_roots
  records,     \* authenticated_workspace_sessions
  approved,    \* history: paths the user approved (_commit_paths)
  bySessions   \* history: mcpRoots was last written for a logical session

vars == <<allowed, workspaces, ceiling, ceilingSet, refs, proposals, mcpRoots,
          records, approved, bySessions>>

\* An authenticated record; generation 0 with no state is "no record".
ClientRecord == [generation : 0..MaxGeneration, roots : SUBSET Dirs,
                 state : {"none", "active", "ended", "invalid"}]

NoRecord == [generation |-> 0, roots |-> {}, state |-> "none"]

NoOwners == [d \in Dirs |-> {}]

Init ==
  /\ allowed = Static
  /\ workspaces = Workspace
  /\ ceiling = {} /\ ceilingSet = FALSE
  /\ refs = NoOwners
  /\ proposals = NoOwners
  /\ mcpRoots = {}
  /\ records = [c \in Clients |-> NoRecord]
  /\ approved = {}
  /\ bySessions = TRUE

----------------------------------------------------------------------------
(* Helpers. *)

Owned == {d \in Dirs : refs[d] # {}}

\* _workspace_ceiling: what the operator allowed before any hook or client.
Ceiling == IF ceilingSet THEN ceiling ELSE allowed \ (Owned \cup mcpRoots)

UseCeiling == ceiling' = Ceiling /\ ceilingSet' = TRUE

Beneath(d, scopes) == \E s \in scopes : <<d, s>> \in Within

\* _rewrite_workspace_scopes: only the workspace part of allowed_scopes moves.
Rewrite(ws) ==
  /\ workspaces' = ws
  /\ allowed' = ws \cup (allowed \ workspaces)

\* _release_workspace_owner: h leaves every entry except that of d.
Released(owners, h, d) ==
  [k \in Dirs |-> IF k = d THEN owners[k] ELSE owners[k] \ {h}]

\* _derived_workspace_roots
Derived(recs) ==
  UNION {recs[c].roots : c \in {k \in Clients : recs[k].state = "active"}}

\* Mutant: what only the replaced roots had justified stays.
ReplaceUnionKeeping(confirmed) ==
  /\ Rewrite(workspaces \cup confirmed)
  /\ proposals' = [d \in Dirs |-> IF d \in confirmed THEN {} ELSE proposals[d]]
  /\ mcpRoots' = confirmed
  /\ UseCeiling

\* Mutant: a confirmed root stays a proposal.
ReplaceUnionUnproposed(confirmed) ==
  /\ Rewrite(confirmed \cup {k \in workspaces :
       k \in mcpRoots => k \in Ceiling \cup Owned})
  /\ mcpRoots' = confirmed
  /\ UseCeiling
  /\ UNCHANGED proposals

\* _replace_dynamic_workspace_union_locked
ReplaceUnion(confirmed) ==
  /\ Rewrite(confirmed \cup {k \in workspaces :
       k \in mcpRoots => k \in Ceiling \cup Owned})
  /\ proposals' = [d \in Dirs |-> IF d \in confirmed THEN {} ELSE proposals[d]]
  /\ mcpRoots' = confirmed
  /\ UseCeiling

----------------------------------------------------------------------------
(* Hook operations: turn-add-workspace and turn-remove-workspace. *)

\* The directories h alone had activated and leaves by moving on to d.
Abandoned(h, d) == {k \in Dirs \ {d} : refs[k] = {h}}

\* _workspace_authorized_by_ceiling
Authorized(d) == Beneath(d, Ceiling)

\* add_workspace of a path that nothing allows yet: only a proposal.
Propose(h, d) ==
  LET ws == workspaces \ Abandoned(h, d) IN
  /\ ~Authorized(d) /\ d \notin ws /\ d \notin allowed
  /\ proposals' = [Released(proposals, h, d) EXCEPT ![d] = @ \cup {h}]
  /\ refs' = Released(refs, h, d)
  /\ Rewrite(ws)
  /\ UseCeiling
  /\ UNCHANGED <<mcpRoots, records, approved, bySessions>>

\* add_workspace of a path that is allowed: h owns it only if a hook does.
AddWorkspace(h, d) ==
  LET ws    == workspaces \ Abandoned(h, d)
      known == d \in allowed \cup ws
  IN
  /\ Authorized(d) \/ known
  /\ proposals' = [Released(proposals, h, d) EXCEPT ![d] = {}]
  /\ refs' = IF refs[d] # {} \/ ~known
             THEN [Released(refs, h, d) EXCEPT ![d] = @ \cup {h}]
             ELSE Released(refs, h, d)
  /\ Rewrite(IF refs[d] # {} \/ known THEN ws ELSE ws \cup {d})
  /\ UseCeiling
  /\ UNCHANGED <<mcpRoots, records, approved, bySessions>>

\* remove_workspace: the last owner takes the scope with it, unless a client
\* confirmed it too.
RemoveWorkspace(h, d) ==
  /\ proposals' = [proposals EXCEPT ![d] = @ \ {h}]
  /\ refs' = [refs EXCEPT ![d] = @ \ {h}]
  /\ Rewrite(IF refs[d] = {h} /\ d \notin mcpRoots
             THEN workspaces \ {d} ELSE workspaces)
  /\ UNCHANGED <<ceiling, ceilingSet, mcpRoots, records, approved, bySessions>>

----------------------------------------------------------------------------
(* Authenticated operations. *)

\* An older generation is stale; the same one is a repetition or a collision.
Fresher(c, g) ==
  records[c].state # "none" => g > records[c].generation

\* replace_workspace_session: the complete new roots of one logical session.
ReplaceSession(c, g, roots) ==
  /\ Fresher(c, g)
  /\ \E state \in {"active", "ended"} :
       /\ state = "ended" => roots = {}
       /\ records' = [records EXCEPT ![c] =
            [generation |-> g, roots |-> roots, state |-> state]]
  /\ ReplaceUnion(Derived(records'))
  /\ bySessions' = TRUE
  /\ UNCHANGED <<refs, approved>>

\* The records after every active session of transport t has ended.
Ended(t) ==
  [c \in Clients |->
     IF TransportOf[c] = t /\ records[c].state = "active"
     THEN [generation |-> records[c].generation + 1, roots |-> {},
           state |-> "ended"]
     ELSE records[c]]

\* Mutant: the sessions end, the union of their roots is not rebuilt.
RevokeAuthorityOnly(t) ==
  /\ t \in Revocable
  /\ \A c \in Clients : records[c].generation < MaxGeneration
  /\ records' = Ended(t)
  /\ UNCHANGED <<allowed, workspaces, ceiling, ceilingSet, refs, proposals,
                 mcpRoots, approved, bySessions>>

\* revoke_workspace_authority: the transport closed, its client lives on.
RevokeAuthority(t) ==
  /\ t \in Revocable
  /\ \A c \in Clients : records[c].generation < MaxGeneration
  /\ records' = Ended(t)
  /\ ReplaceUnion(Derived(records'))
  /\ bySessions' = TRUE
  /\ UNCHANGED <<refs, approved>>

InvalidRecord(c) == [records[c] EXCEPT !.roots = {}, !.state = "invalid"]

\* _revalidate_active_workspace_sessions: the directories of some sessions
\* are no longer the ones that were admitted; nothing is applied this turn.
Invalidate(bad) ==
  /\ bad # {}
  /\ \A c \in bad : records[c].state = "active" /\ records[c].roots # {}
  /\ records' = [c \in Clients |->
       IF c \in bad THEN InvalidRecord(c) ELSE records[c]]
  /\ ReplaceUnion(Derived(records'))
  /\ bySessions' = TRUE
  /\ UNCHANGED <<refs, approved>>

\* confirm_workspace_roots: the roots of a client that is not session-aware.
ConfirmRoots(roots) ==
  /\ ReplaceUnion(roots)
  /\ bySessions' = FALSE
  /\ UNCHANGED <<refs, records, approved>>

\* _commit_paths: a path the user approved becomes an allowed scope.
ApprovePath(d) ==
  /\ allowed' = allowed \cup {d}
  /\ approved' = approved \cup {d}
  /\ UNCHANGED <<workspaces, ceiling, ceilingSet, refs, proposals, mcpRoots,
                 records, bySessions>>

\* reset_agent_workspaces: before every launch of the contained agent.
Reset ==
  /\ Rewrite(workspaces \ (Owned \cup mcpRoots))
  /\ refs' = NoOwners
  /\ proposals' = NoOwners
  /\ mcpRoots' = {}
  /\ records' = [c \in Clients |-> NoRecord]
  /\ bySessions' = TRUE
  /\ UNCHANGED <<ceiling, ceilingSet, approved>>

----------------------------------------------------------------------------
HookStep ==
  \E h \in Hooks, d \in Dirs :
    Propose(h, d) \/ AddWorkspace(h, d) \/ RemoveWorkspace(h, d)

ClientStep ==
  \/ \E c \in Clients, g \in 0..MaxGeneration, roots \in SUBSET Dirs :
       ReplaceSession(c, g, roots)
  \/ \E t \in Transports : RevokeAuthority(t)
  \/ \E bad \in SUBSET Clients : Invalidate(bad)
  \/ \E roots \in SUBSET Dirs : ConfirmRoots(roots)

Next ==
  \/ HookStep
  \/ ClientStep
  \/ \E d \in Dirs : ApprovePath(d)
  \/ Reset

Spec == Init /\ [][Next]_vars

----------------------------------------------------------------------------
(* Properties. *)

TypeOK ==
  /\ allowed \subseteq Dirs
  /\ workspaces \subseteq Dirs
  /\ ceiling \subseteq Dirs
  /\ ceilingSet \in BOOLEAN
  /\ refs \in [Dirs -> SUBSET Hooks]
  /\ proposals \in [Dirs -> SUBSET Hooks]
  /\ mcpRoots \subseteq Dirs
  /\ records \in [Clients -> ClientRecord]
  /\ approved \subseteq Dirs
  /\ bySessions \in BOOLEAN

\* Who answers for a scope: the operator, the user, or a client whose roots
\* are confirmed right now.
Authority == Static \cup approved \cup mcpRoots

\* "Shell lifecycle hooks do not authenticate additions" (architecture.md):
\* whatever hooks, clients and restarts did before, a change that falls under
\* allowed_scopes lies beneath a scope of the operator, of the user or of a
\* client that still confirms it.  In particular a root that its client
\* replaced, or whose transport was revoked, allows nothing any more.
EveryScopeHasAuthority ==
  \A d \in Dirs : Beneath(d, allowed) => Beneath(d, Authority)

\* A proposal "remains absent from allowed_scopes" (agent-integration.md)
\* as long as it is one, unless the user approved that very path.
ProposalAllowsNothing ==
  \A d \in Dirs : proposals[d] # {} => d \notin allowed \ approved

\* Unless a client without sessions spoke last, the confirmed roots are exactly
\* those of the active logical sessions: one that ended, was revoked or failed
\* revalidation has none left, and what the other client confirmed is gone.
RootsAreThoseOfActiveSessions == bySessions => mcpRoots = Derived(records)

\* Why EveryScopeHasAuthority holds: a hook owns only workspaces beneath the
\* ceiling, every workspace has an authority or an owner, and the ceiling is
\* fixed before the first hook or client is heard.
ScopesJustified ==
  /\ ceiling \subseteq Static \cup approved
  /\ ~ceilingSet => mcpRoots = {} /\ Owned = {}
  /\ \A d \in Owned : Beneath(d, Static \cup approved)
  /\ workspaces \subseteq allowed \cap (Authority \cup Owned)
  /\ allowed \ workspaces \subseteq Static \cup approved

============================================================================
