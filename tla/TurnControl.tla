---------------------------- MODULE TurnControl ----------------------------
(***************************************************************************)
(* Commit decisions at turn boundaries (TurnController in turn.py): what   *)
(* reaches the underlay while the session lives, what waits for the user,  *)
(* and what the session end (finalize_session) makes of the rest.          *)
(*                                                                         *)
(* Operations hold the controller's lock.  Applying and discarding work    *)
(* path by path and may raise halfway: what was applied stays applied,     *)
(* what was marked in memory stays marked, nothing is saved.  A restart    *)
(* (crash and resume) keeps what was saved, drops the client's workspace   *)
(* and forgets approval tokens.                                            *)
(*                                                                         *)
(* File contents are versions; 0 in `live' means the branch holds no       *)
(* change of the path.  BranchFS status names a change by its visible      *)
(* path, the policy by the canonical one (paths.AliasMap): the two differ  *)
(* under a root that is visible at an alias.                               *)
(***************************************************************************)
EXTENDS Naturals, FiniteSets

CONSTANTS
  Paths,         \* paths the agent may change, as status reports them
  Names,         \* names of paths in decisions, tokens and answers
  Canon,         \* the canonical name of a path (AliasMap.canonicalize)
  Static,        \* paths under the operator's scopes
  Dynamic,       \* paths under a client's authenticated workspace
  MayEnd,        \* whether that workspace is withdrawn again
  DenyMatched,   \* paths matching a deny or hide pattern
  Deniable,      \* paths for which the underlay may answer "permission denied"
  Vanishing,     \* paths whose source may be missing when it is to be copied
  Tokens,        \* approval tokens that can be outstanding
  MaxVersion     \* bound on the versions of a path

ASSUME TurnAssumption ==
  /\ Paths \subseteq Names
  /\ Canon \in [Paths -> Names]
  /\ Static \subseteq Paths
  /\ Dynamic \subseteq Paths
  /\ MayEnd \in BOOLEAN
  /\ DenyMatched \subseteq Paths
  /\ Deniable \subseteq Paths
  /\ Vanishing \subseteq Paths
  /\ MaxVersion \in Nat

Decisions == {"none", "kept", "committed"}

\* "none" while the session lives, then what finalize_session made of it.
Outcomes == {"none", "no-changes", "aborted", "auto-committed",
             "pending-review", "failed"}

\* The part of session.json the controller reads and writes.
Policy == [decisions : [Names -> Decisions],  \* turn_path_decisions
           approved  : SUBSET Paths,          \* approved paths in allowed_scopes
           workspace : BOOLEAN,               \* the client's workspace is allowed
           abort     : BOOLEAN]               \* mcp_abort_requested, throwaway

VARIABLES
  live,      \* version of each path held in the branch (0: no change)
  base,      \* version of each path in the underlay
  mem,       \* the controller's session.policy
  disk,      \* the saved one
  pending,   \* the paths each outstanding token asks about
  outcome,   \* "none" until the session ended
  asked,     \* history: paths the last step was told to commit by the user
  consented, \* history: paths the user ever told it to commit
  answered,  \* history: paths decided in an operation that succeeded
  granted,   \* history: paths a scope or workspace ever granted
  skipped    \* history: paths _apply passed over, their source being missing

vars == <<live, base, mem, disk, pending, outcome, asked, consented, answered,
          granted, skipped>>

Init ==
  /\ live = [x \in Paths |-> 0]
  /\ base = [x \in Paths |-> 0]
  /\ mem = [decisions |-> [n \in Names |-> "none"], approved |-> {},
            workspace |-> FALSE, abort |-> FALSE]
  /\ disk = mem
  /\ pending = [t \in Tokens |-> {}]
  /\ outcome = "none"
  /\ asked = {} /\ consented = {} /\ answered = {} /\ skipped = {}
  /\ granted = Static \ DenyMatched

Running == outcome = "none"

Changes == {x \in Paths : live[x] # 0}

Newest(x) == IF live[x] > base[x] THEN live[x] ELSE base[x]

Decided(p, d) == {n \in Names : p.decisions[n] = d}

\* allowed_scopes: static scopes, approved paths, the client's workspace.
Scope(p) == Static \cup p.approved \cup (IF p.workspace THEN Dynamic ELSE {})

\* What the operator's scopes and the client's workspace allow.
Granted(p) == (Static \cup (IF p.workspace THEN Dynamic ELSE {})) \ DenyMatched

\* _out_of_scope_paths: the canonical names of what lies outside every scope,
\* the visible names of what matches a deny pattern.
OutOfScope ==
  {Canon[x] : x \in Changes \ Scope(mem)} \cup (Changes \cap DenyMatched)

\* _mark_paths
Marked(p, paths, d) ==
  [p EXCEPT !.decisions = [n \in Names |-> IF n \in paths THEN d ELSE @[n]]]

\* The user takes no part in this step.
Unasked == asked' = {} /\ UNCHANGED consented

----------------------------------------------------------------------------
(* The agent, and the client's workspace (see WorkspaceScopes). *)

AgentWrite(x) ==
  /\ Running
  /\ Newest(x) < MaxVersion
  /\ live' = [live EXCEPT ![x] = Newest(x) + 1]
  /\ Unasked
  /\ UNCHANGED <<base, mem, disk, pending, outcome, answered, granted, skipped>>

\* The agent removes a file that only the branch has.
AgentUndo(x) ==
  /\ Running
  /\ live[x] # 0 /\ base[x] = 0
  /\ live' = [live EXCEPT ![x] = 0]
  /\ Unasked
  /\ UNCHANGED <<base, mem, disk, pending, outcome, answered, granted, skipped>>

\* An authenticated client gains or loses its workspace; always saved.
SetWorkspace(allow) ==
  /\ Running
  /\ mem.workspace # allow
  /\ allow \/ MayEnd
  /\ mem' = [mem EXCEPT !.workspace = allow]
  /\ disk' = mem'
  /\ granted' = granted \cup Granted(mem')
  /\ Unasked
  /\ UNCHANGED <<live, base, pending, outcome, answered, skipped>>

----------------------------------------------------------------------------
(* Applying. *)

\* The underlay with `done' copied to it.
Copied(done) == [x \in Paths |-> IF x \in done THEN live[x] ELSE base[x]]

\* A source that does not exist (the agent has removed the file since status
\* named it, or it is a dangling link) is not copied and counts as applied.
Applies(done) ==
  \E missing \in SUBSET (done \cap Vanishing) :
    /\ base' = Copied(done \ missing)
    /\ skipped' = skipped \cup missing

\* An outcome of _apply that does not raise: what was applied; the rest of
\* the plan was refused with "permission denied".
Accepted(plan) == {done \in SUBSET plan : plan \ done \subseteq Deniable}

\* Mutant: a refused path counts as committed.
AfterApplyAll(p, plan, done) == Marked(p, plan, "committed")

\* The decisions after _apply: committed, or kept because it was refused.
AfterApply(p, plan, done) ==
  Marked(Marked(p, done, "committed"), plan \ done, "kept")

----------------------------------------------------------------------------
(* turn-finalize *)

\* Mutant: a decision to keep is not looked at.
EligibleEvenKept == {x \in Changes : x \in Decided(mem, "committed")
                                       \/ x \notin OutOfScope}

\* What a turn boundary applies.
Eligible ==
  {x \in Changes : \/ x \in Decided(mem, "committed")
                   \/ x \notin OutOfScope /\ x \notin Decided(mem, "kept")}

\* What no decision covers yet.
NewOutOfScope ==
  OutOfScope \ (Decided(mem, "committed") \cup Decided(mem, "kept"))

\* An abort was approved: everything is kept for the process exit.
FinalizeHeld ==
  /\ Running
  /\ mem.abort
  /\ mem' = Marked(mem, Changes, "kept")
  /\ disk' = mem'
  /\ answered' = answered \cup Changes
  /\ Unasked
  /\ UNCHANGED <<live, base, pending, outcome, granted, skipped>>

MayFinalize == Running /\ ~mem.abort

\* finalize_turn: apply what is eligible; remember the new out-of-scope paths
\* as kept (default_keep) or ask about them under a fresh token.
FinalizeTurn(defaultKeep) ==
  /\ MayFinalize
  /\ \E done \in Accepted(Eligible) :
       LET decided == AfterApply(mem, Eligible, done) IN
       /\ Applies(done)
       /\ mem' = IF defaultKeep THEN Marked(decided, NewOutOfScope, "kept")
                                ELSE decided
       /\ answered' = answered \cup Eligible
                        \cup (IF defaultKeep THEN NewOutOfScope ELSE {})
  /\ disk' = mem'
  /\ IF defaultKeep \/ NewOutOfScope = {}
     THEN UNCHANGED pending
     ELSE \E t \in Tokens : /\ pending[t] = {}
                            /\ pending' = [pending EXCEPT ![t] = NewOutOfScope]
  /\ Unasked
  /\ UNCHANGED <<live, outcome, granted>>

\* _apply raised: a part is applied, no decision is recorded.
FinalizeError ==
  /\ MayFinalize
  /\ Eligible # {}
  /\ \E done \in SUBSET Eligible : Applies(done)
  /\ Unasked
  /\ UNCHANGED <<live, mem, disk, pending, outcome, answered, granted>>

\* The identity of the client's workspace changed: nothing is applied, the
\* workspace is withdrawn and that is saved (_revalidate_active_workspace_...).
FinalizeRevoked ==
  /\ MayFinalize
  /\ Eligible # {}
  /\ mem.workspace /\ MayEnd
  /\ mem' = [mem EXCEPT !.workspace = FALSE]
  /\ disk' = mem'
  /\ Unasked
  /\ UNCHANGED <<live, base, pending, outcome, answered, granted, skipped>>

----------------------------------------------------------------------------
(* turn-approve and turn-resolve: the user's answer, path by path. *)

\* The user tells the controller to commit C, keep K and discard D.
Answer(C, K, D) == asked' = C /\ consented' = consented \cup C

\* Mutant: kept paths are added to allowed_scopes as well.
CommitAndKeepAllowed(C, K, done) ==
  LET p == AfterApply(mem, C \cap Changes, done)
  IN  Marked([p EXCEPT !.approved = @ \cup done \cup K], K, "kept")

\* _commit_paths with the paths it applied, then _keep_paths.
CommitAndKeep(C, K, done) ==
  LET p == AfterApply(mem, C \cap Changes, done)
  IN  Marked([p EXCEPT !.approved = @ \cup done], K, "kept")

\* Mutant: the answer is acted upon and not saved.
ResolveUnsaved(C, K, D) ==
  /\ \E done \in Accepted(C \cap Changes) :
       /\ Applies(done)
       /\ mem' = Marked(CommitAndKeep(C, K, done), D, "none")
  /\ live' = [x \in Paths |-> IF x \in D THEN 0 ELSE live[x]]
  /\ answered' = (answered \ D) \cup K \cup (C \cap Changes)
  /\ Answer(C, K, D)
  /\ UNCHANGED <<disk, outcome, granted>>

\* _resolve_granular without an error: commit, keep, discard, save.
Resolve(C, K, D) ==
  /\ \E done \in Accepted(C \cap Changes) :
       /\ Applies(done)
       /\ mem' = Marked(CommitAndKeep(C, K, done), D, "none")
  /\ disk' = mem'
  /\ live' = [x \in Paths |-> IF x \in D THEN 0 ELSE live[x]]
  /\ answered' = (answered \ D) \cup K \cup (C \cap Changes)
  /\ Answer(C, K, D)
  /\ UNCHANGED <<outcome, granted>>

\* _apply raised while committing C: nothing is marked.
ResolveCommitError(C, K, D) ==
  /\ C \cap Changes # {}
  /\ \E done \in SUBSET (C \cap Changes) : Applies(done)
  /\ Answer(C, K, D)
  /\ UNCHANGED <<live, mem, disk, outcome, answered, granted>>

\* The workspace changed its identity before C was applied.
ResolveRevoked(C, K, D) ==
  /\ C \cap Changes # {}
  /\ mem.workspace /\ MayEnd
  /\ mem' = [mem EXCEPT !.workspace = FALSE]
  /\ disk' = mem'
  /\ Answer(C, K, D)
  /\ UNCHANGED <<live, base, outcome, answered, granted, skipped>>

\* revert_path raised, or left a change behind: C and K are marked in memory
\* only, a part of D is gone, its decisions stand.
ResolveDiscardError(C, K, D) ==
  /\ D \cap Changes # {}
  /\ \E done \in Accepted(C \cap Changes), gone \in SUBSET (D \cap Changes) :
       /\ Applies(done)
       /\ mem' = CommitAndKeep(C, K, done)
       /\ live' = [x \in Paths |-> IF x \in gone THEN 0 ELSE live[x]]
  /\ Answer(C, K, D)
  /\ answered' = answered \ D
  /\ UNCHANGED <<disk, outcome, granted>>

ResolveAny(C, K, D) ==
  \/ Resolve(C, K, D)
  \/ ResolveCommitError(C, K, D)
  \/ ResolveRevoked(C, K, D)
  \/ ResolveDiscardError(C, K, D)

\* approve_turn: the token is spent before anything else happens.
ApproveTurn(t, C, D) ==
  /\ Running
  /\ pending[t] # {}
  /\ C \cup D \subseteq pending[t] /\ C \cap D = {}
  /\ pending' = [pending EXCEPT ![t] = {}]
  /\ ResolveAny(C, pending[t] \ (C \cup D), D)

\* approve_turn with overlapping groups: refused once the token is spent.
ApproveOverlap(t) ==
  /\ Running
  /\ pending[t] # {}
  /\ pending' = [pending EXCEPT ![t] = {}]
  /\ Unasked
  /\ UNCHANGED <<live, base, mem, disk, outcome, answered, granted, skipped>>

\* resolve_turn: one decision about paths remembered as kept and still live.
ResolveTurn(paths) ==
  /\ Running
  /\ paths # {} /\ paths \subseteq Decided(mem, "kept") \cap Changes
  /\ \/ ResolveAny(paths, {}, {})
     \/ ResolveAny({}, paths, {})
     \/ ResolveAny({}, {}, paths)
  /\ UNCHANGED pending

\* review_kept saves the session when kept paths are still live.
ReviewKept ==
  /\ Running
  /\ ~mem.abort
  /\ Decided(mem, "kept") \cap Changes # {}
  /\ disk' = mem
  /\ Unasked
  /\ UNCHANGED <<live, base, mem, pending, outcome, answered, granted, skipped>>

\* request_abort: discard everything when the process exits.
RequestAbort ==
  /\ Running
  /\ mem' = [mem EXCEPT !.abort = TRUE]
  /\ disk' = mem'
  /\ Unasked
  /\ UNCHANGED <<live, base, pending, outcome, answered, granted, skipped>>

----------------------------------------------------------------------------
\* The supervisor crashed and the session was resumed: tokens are gone, and
\* reset_agent_workspaces drops the client's workspace and saves.
Restart ==
  /\ Running
  /\ mem' = [disk EXCEPT !.workspace = FALSE]
  /\ disk' = mem'
  /\ pending' = [t \in Tokens |-> {}]
  /\ Unasked
  /\ UNCHANGED <<live, base, outcome, answered, granted, skipped>>

\* Mutant: an approved abort does not reach the session end.
EndDecisionUnaborted(blocked) ==
  CASE Changes = {} /\ ~blocked  -> "no-changes"
    [] Changes # {} /\ OutOfScope = {} /\ ~blocked -> "auto-committed"
    [] OTHER                     -> "pending-review"

\* policy.evaluate in finalize_session (workspace-auto): it sees scopes and
\* deny patterns, and no turn decision.  Status warnings and failed preflight
\* checks (`blocked') turn a decision to close into a review.
EndDecision(blocked) ==
  CASE Changes # {} /\ mem.abort -> "aborted"
    [] Changes = {} /\ ~blocked  -> "no-changes"
    [] Changes # {} /\ ~mem.abort /\ OutOfScope = {} /\ ~blocked
                                 -> "auto-committed"
    [] OTHER                     -> "pending-review"

\* The process exited and the decision needs no apply (see SessionLifecycle).
SessionEnd(blocked) ==
  /\ Running
  /\ EndDecision(blocked) # "auto-committed"
  /\ outcome' = EndDecision(blocked)
  /\ live' = IF EndDecision(blocked) = "pending-review"
             THEN live ELSE [x \in Paths |-> 0]
  /\ Unasked
  /\ UNCHANGED <<base, mem, disk, pending, answered, granted, skipped>>

\* Everything is in scope and is applied; refused paths stay for review.
SessionEndCommit(blocked) ==
  /\ Running
  /\ EndDecision(blocked) = "auto-committed"
  /\ \E done \in Accepted(Changes) :
       /\ base' = Copied(done)
       /\ live' = [x \in Paths |-> IF x \in done THEN 0 ELSE live[x]]
       /\ outcome' = IF done = Changes THEN "auto-committed"
                                       ELSE "pending-review"
  /\ Unasked
  /\ UNCHANGED <<mem, disk, pending, answered, granted, skipped>>

\* An apply raised: the session is marked failed, the branch preserved.
SessionEndError(blocked) ==
  /\ Running
  /\ EndDecision(blocked) = "auto-committed"
  /\ \E done \in SUBSET Changes : base' = Copied(done)
  /\ outcome' = "failed"
  /\ Unasked
  /\ UNCHANGED <<live, mem, disk, pending, answered, granted, skipped>>

Next ==
  \/ \E x \in Paths : AgentWrite(x) \/ AgentUndo(x)
  \/ \E allow \in BOOLEAN : SetWorkspace(allow)
  \/ FinalizeHeld
  \/ \E defaultKeep \in BOOLEAN : FinalizeTurn(defaultKeep)
  \/ FinalizeError
  \/ FinalizeRevoked
  \/ \E t \in Tokens, C, D \in SUBSET Names : ApproveTurn(t, C, D)
  \/ \E t \in Tokens : ApproveOverlap(t)
  \/ \E paths \in SUBSET Paths : ResolveTurn(paths)
  \/ ReviewKept
  \/ RequestAbort
  \/ Restart
  \/ \E blocked \in BOOLEAN : SessionEnd(blocked) \/ SessionEndCommit(blocked)
                               \/ SessionEndError(blocked)

Spec == Init /\ [][Next]_vars

----------------------------------------------------------------------------
(* Properties. *)

TypeOK ==
  /\ live \in [Paths -> 0..MaxVersion]
  /\ base \in [Paths -> 0..MaxVersion]
  /\ mem \in Policy
  /\ disk \in Policy
  /\ pending \in [Tokens -> SUBSET Names]
  /\ outcome \in Outcomes
  /\ asked \subseteq Names /\ consented \subseteq Names
  /\ answered \subseteq Names
  /\ granted \subseteq Paths /\ skipped \subseteq Paths

\* "Writes outside the active dynamic/static scopes continue to be kept for
\* user review instead of being auto-committed" (policy.md): a path reaches the
\* underlay only while a scope or workspace grants it and no deny pattern
\* matches it, or after the user agreed to commit it.
UnderlayNeedsScopeOrConsent ==
  [][\A x \in Paths : base'[x] # base[x]
       => x \in Granted(mem) \/ {x, Canon[x]} \cap consented' # {}]_base

\* What nobody ever allowed never reaches the underlay, whatever tokens,
\* refusals, missing files, errors and restarts come in between: a path under
\* its canonical name is written only if a scope or workspace granted it at
\* some time, or the user agreed to commit that path.  (_apply in turn.py and
\* finalize_session are the only writers.)
UnderlayNeedsAuthority ==
  [][\A x \in Paths : base'[x] # base[x] /\ Canon[x] = x
       => x \in granted \cup consented']_base

\* "keep -> remember as kept in the branch only (not committed, not
\* re-prompted)": while the session lives a kept path reaches the underlay
\* only in a step in which the user asks for it.
KeptStaysInBranch ==
  [][\A x \in Decided(mem, "kept") \cap Paths : base'[x] # base[x] /\ outcome' = "none"
       => x \in asked']_base

\* A path remembered as committed, in memory or in session.json, has reached
\* the underlay, unless its source was missing when _apply came to it: a
\* refusal, an error or a restart never leaves a false record.
CommittedReachedUnderlay ==
  \A x \in Decided(mem, "committed") \cup Decided(disk, "committed") :
    x \in Paths /\ (base[x] # 0 \/ x \in skipped)

\* Paths "already committed or kept are not re-prompted after controller
\* restarts": no token asks again about a path whose decision was taken by an
\* operation that succeeded and that has not been discarded since.
AnsweredIsNotAskedAgain ==
  [][\A t \in Tokens : (pending'[t] \ pending[t]) \cap answered = {}]_pending

\* Once the user approved the abort, in this or in an earlier process, only
\* an explicit answer of the user still writes to the underlay.
AbortStopsCommits ==
  [][disk.abort => \A x \in Paths : base'[x] # base[x] => x \in asked']_base

============================================================================
