# A TLA+ verification of ccc-agent

ccc-agent runs a coding agent inside a sandbox whose protected roots are
BranchFS branches. Everything the agent writes lands in a branch; what reaches
the real files (the *underlay*, `base` in the models) is decided at turn
boundaries, at the end of the session and by operator commands. The models in
this directory ask four questions of that machinery:

* is work ever lost: can a change disappear that nobody applied or gave up?
* is the underlay protected: does anything reach it that neither a scope nor a
  person allowed?
* is the supervisor's picture right: are the roots it takes for the client's
  workspace those the client has stated, and does only the admitted peer decide?
* does everybody let go: of pins, of the caller's terminal, of a session whose
  agent has exited?

Paths below are relative to `ccc_agent/` of the repository.

## 1. Inventory

| Part | State it keeps | Operations | What is hard about it |
|---|---|---|---|
| `session.py` | `session.json`: state, policy, events | create, transition, save, load, remove | the whole record is rewritten by whoever saves last |
| `runner.py` | the bundle of branches, mounts, the agent process | `run_session`, `resume_session`, `_run_agent_and_finalize`, `finalize_session` | a dozen steps, each of which may raise or be the last one before a crash |
| `ctl.py` | none of its own | finish, commit, abort, review, thaw, cleanup | loads the record, works on branches, saves; may overlap a live supervisor |
| `turn.py` (decisions) | `turn_path_decisions`, approval tokens in memory | turn-finalize, turn-approve, turn-resolve, turn-review-kept, turn-request-abort | applies path by path, saves last; tokens do not survive a restart |
| `turn.py` (scopes) | `allowed_scopes`, `workspace_scopes`, ceiling, hook references, proposals, client records | add/remove workspace, replace session, revoke, confirm, reset | four kinds of actors rewrite one list on different authority |
| `policy.py`, `paths.py` | - | evaluate, classify, ignore rules, canonical names | two names for one file |
| `branchfs.py` | drives the BranchFS binary | mount, freeze, thaw, status, abort | every call may fail; status may be incomplete |
| `control.py` | the registered client, the pinned MCP and workspace connections, one thread per connection and per lost transport | register, admit, check and handle a request, release, revoke after a grace period, stop | every check reads `/proc` again while processes exit, are reaped or exec; locks cover single reads and writes of the pins |
| `mcp.py` | a pending `roots/list`, a refresh flag, a generation | initialize, request roots, replace, call a tool and ask the human | a change overtakes a list on its way; the nested question reads the same stdin |
| `route_manager.py`, `delta_routing.py`, `bwrap_route.py` | a nested branch per root and route, route states, path attribution | provision, lookup, end (freeze, snapshot, merge, attribute), recover, reconcile | an end is a dozen calls that may raise or be the last one before a crash; unrouted processes write the same outer branch; recovery runs beside a handler |
| `adaptive_pid1.py`, the adaptive part of `runner.py` | the child, its streams, three timers, lifecycle events; the frontend's status pipe | foreground, one-shot, handoff and rejection; relay, disconnection, conclusion | timing of exits and detached services between three processes |
| `codex_workspace.py` and the two runners that drive it | tracked requests, a version per thread | observe requests and responses, confirm, pass on | responses out of order; the client goes on when it sees one |
| `assets/plugins/hermes-ccc-containment` | confirmed and hooked workspaces, generations, one connection | state and end the workspace of a conversation | a timeout leaves it open whether a statement was carried out |
| `artifacts.py`, `cli.py`, `setup.py`, `claude_plugin.py`, `branchfs_runtime.py`, `version.py`, the rest of `assets/` | files written once | - | pure I/O and construction |

The interactions: a supervisor (`run`/`resume`) owns the agent and a
`TurnController`; hooks and MCP clients call the controller over the control
channel, under its lock; every connection of the channel has a thread of its own.
The roots of a client reach the controller's records in one of three ways: from
the MCP server of Claude, from PID 1 in front of a Codex app-server, or from the
plugin inside Hermes. Operator commands are separate processes that share
`session.json` and the branches with the supervisor and no lock at all.

## 2. Modules

### SessionLifecycle (session.py, runner.py, ctl.py)

One session, any number of processes. `disk` is `session.json`, `branch`,
`mounted` and `delta` are the bundle, `base` the underlay, `agents` the living
agents. `job[p]` is what process `p` is doing: its command, its program counter,
its private copy `mem` of the record, and the loop variables of
`finalize_session` (roots left, changes left, applied, denied, the outcome to
record). An action is one step between two effects that a crash can separate:
attaching one root, freezing one root, evaluating, applying one change, pruning
one change, discarding one root, saving. `...Error` actions are the `except`
branches; `Raised` is what an exception means for a supervisor (record `failed`,
unmount) and for `finish` (die). `cleanup` looks at the mounts in one step
(`CleanupLoad`) and removes the bundle in another (`Remove`), without a lock; the
views are mounted inside the bundle, so that a removal may go through one that
was mounted in between (`Swept`). `Crash` and `Reboot` come at any time.

File contents are version numbers, paths are model values, and the policy is
reduced to the sets it distinguishes: in scope and not denied (`InScope`),
ignored (`Ignored`), refused by the underlay (`Deniable`). `owed` is a history
variable: the policy-visible changes that nobody has applied or given up yet.

The user's own yes at a turn boundary is not part of this module; it is in
TurnControl. Here `TurnFinalize` applies in-scope changes only.

### TurnControl (turn.py: decisions; the end of the session)

One controller and its agent. `live` and `base` are branch and underlay, `mem`
and `disk` the policy in memory and the saved one, `pending` the outstanding
tokens. Operations hold the controller's lock, so each is one action, split by
how it ends: without error, `_apply` raising halfway (`FinalizeError`,
`ResolveCommitError`), a workspace found changed (`FinalizeRevoked`,
`ResolveRevoked`), a discard raising (`ResolveDiscardError`). `Applies` is what
`_apply` does to the paths it counts as applied: it copies them, but passes over
one whose source does not exist (`skipped` remembers it). `Restart` is a crash
followed by a resume, which drops the client's workspace
(`reset_agent_workspaces`). `SessionEnd...` is what `finalize_session` makes of
the result, in the default policy mode.

BranchFS status speaks of visible paths, the policy of canonical ones; `Canon`
maps the first to the second, and the sets in the model hold the kind of name
the code puts into them.

### WorkspaceScopes (turn.py: scopes)

The bookkeeping behind `allowed_scopes`. `refs` and `proposals` are the hook
tables, `records` the authenticated logical sessions with their generations,
`mcpRoots` the union of confirmed roots, `ceiling` what the operator allowed.
Each operation holds the lock and saves before releasing it, so it is one
action. Directories are canonical keys with a containment relation `Within`;
whether a path is admissible at all (`workspace.py`) is an input.

### DeltaRoutes (route_manager.py, delta_routing.py, runner.py:1970-2051)

The logical sessions of a Codex app-server each get a *route*: a nested branch
per protected root, merged into the session's outer branch when the logical
session ends. `mem` and `disk` are the part of `session.json` involved: route
states with their admission, path attribution, granted roots. `child`,
`mounted` and `delta` are the nested branches, `bound` the routes some process
has looked up, `outer` the outer branch, `base` the underlay, `snap` the status
snapshots under `reviews/routes`. The content of a path is the set of writers it
comes from (routes, or `Shared` for every unrouted process), which is what
attribution is about; `{}` is "no change".

`op` is the operation holding the manager's lock and where it is: creating
children, freezing them, unmounting, reading a snapshot back, listing the outer
branch, merging root by root. A handler of the control server or `recover()` on
the main thread (`op.main`) runs it. `phase`, `drain` and `waiting` are the main
thread: recovery before the control server starts, the running session, recovery
after the agent exited (while a handler may still be at work), finalization.
`recover()` looks at route states without the lock and then takes it, as in the
code: `RecoverNext` and `RecoverEnd` are two steps. A backend call that raises
is an action of its own (`ProvisionRaises`, `ProvisionFails`, `QuiesceFails`,
`MergeFails`, `EndRaises`); `Crash`, `Resume` and `Finish` (finalization in a
process of its own, without recovery) complete the picture.

Unrouted processes write the outer branch at any time, also during a merge. A
status report may list less than has changed, with a warning the manager does not
look at (`Report`); this counts as a fault. A turn boundary copies to the underlay
and leaves the change in the outer branch. That `_record_attribution` also calls
a path conflicting when it cannot be listed or fingerprinted after the merge is
left out: it only sends more paths to review.

A three-way merge of a path changed on both sides may take the child's content,
mix the two or report a conflict; which one is BranchFS's choice and left open.
What a turn boundary decides is TurnControl's subject; here `TurnCommit` applies
in-scope or granted paths. Left out: coverage counters (`record_result`), the
baseline of the outer branch at provisioning (stored for the reviewer), and the
rewriting of bwrap arguments.

### ControlChannel (control.py)

The session's socket. `proc` is the life of each process: live, exited and still
visible in `/proc`, gone; `hidden` says whether the client's descriptor table is
hidden, which an exec may undo. `conn[c]` is a connection with its thread, later
the thread that will revoke its roots; it holds what the code holds in local
variables between two steps: an eligibility, or a request with the authority it
was checked for. `mcpPin`, `readOnly`, `workspacePin` and `workspaceUsed` are the
pins. A step ends where a lock is released or `/proc` is read again:
`ComputeEligibility`/`Pin`, `Check`/`Handle`, `ComputeRelease`/`Release`,
`GraceEnds`/`Revoke`. Which process may ask for what is `Asks`; `Tool` stands for
anything the agent starts that knows the session token. `roots` abstracts the
records to whether roots of a process incarnation are in force; `unnamed` is a
history variable: the incarnations whose connection was lost when nobody could be
named for it any more.

Left out: the requests of the bwrap route wrapper, which pin nothing, and uid
checks, which do not change during a session.

### AdaptiveRun (adaptive_pid1.py; runner.py:2261-2664)

Three processes. PID 1's loop is two steps: `Sample` (read the clock, then the
streams) and one of the actions that decide (`Stopping` to `Waits`, one per
branch of the loop). Time is the set of timers that have run out; a timer that
runs out between the two halves counts in the next round, as `now` does in the
code. `helper` stands for all surviving descendants and the output streams they
hold. Events travel through a FIFO that the supervisor reads only while it has
not seen the sandbox gone; that saving the session raises while an event is
handled (runner.py:2446) is left out. The supervisor relays, reads events, lets the frontend
go at a handoff, waits, and concludes; `Conclude` and `DiscardBridge` summarise
finalization, which SessionLifecycle details. `out` follows the command's last
output from pipe to pipe. Left out: the relay of stdin.

### RootRegister, RootRecords, McpRoots, CodexRoots, HermesRoots, RootSync

How the roots of a client reach the supervisor. RootRegister is the abstract
specification: for each logical session the client *states* versions, the
supervisor *hears* of one that is not older than what it has heard, puts it in
force or nothing, and may *withdraw* at any time. RootRecords is the supervisor's
end shared by all clients (`replace_workspace_session`,
`revoke_workspace_authority`): one record per session, replaced only by a newer
generation. The three clients:

* **McpRoots**: the official client changes its roots, announces changes and
  answers `roots/list` from a snapshot that may be old by then; the server's
  messages are read one by one, except that `_elicit` takes the next line for
  the human's answer whatever it is (`ReadConfirmation`). Control requests are
  answered synchronously, or fail and end the server.
* **CodexRoots**: requests pass PID 1 (`ObserveClient`, `ForwardRequest`), the
  app-server answers in any order, PID 1 reads an answer, confirms the update it
  causes and only then shows it. `runner.kind` distinguishes the adaptive runner
  from the embedded foreground one; an untrusted runner confirms nothing. The
  app-server's stdout carries responses only: a request of its own whose id
  equals that of a tracked request, which the monitor would take for the response
  (codex_workspace.py:98-102), is left out.
* **HermesRoots**: one workspace per conversation, over one connection; a call
  that times out leaves the connection usable for requests but not for answers.
  The supervisor may turn a request down, whatever it asks for, and keep the
  connection (`TurnDown`), or find the client changed at its last check and close
  it (`CloseChannel`).

RootSync is the sum of the three over the shared records (a session expects one
client) and shows that each implements RootRegister: `inForce` is read off the
records, `stated` and `heard` are history variables. `missed`, `refused`,
`unconfirmed` and `unended` are history variables too: they name the cases a property excuses.

### How the modules fit together

SessionLifecycle has the whole session and a coarse turn; TurnControl details
what a turn decides and remembers; WorkspaceScopes details where the scopes that
both take as inputs come from; DeltaRoutes details how the outer branch is
filled and adds one more reason to apply a path. RootSync composes the clients
with the supervisor's records and details where the generations come from that
WorkspaceScopes takes as inputs; ControlChannel details when a transport that
RootSync uses counts as lost and its roots are withdrawn (`TransportRevoked`,
`ChannelRevoked`). AdaptiveRun details the supervisor around the agent that
SessionLifecycle abstracts to one launch and one exit. RootSync refines
RootRegister formally; otherwise each module fixes the part the others leave open
by nondeterminism.

### MC and proof modules

`MCSessionLifecycle`, `MCTurnControl`, `MCWorkspaceScopes`, `MCDeltaRoutes`,
`MCControlChannel` and `MCRootSync` give the constants small values; AdaptiveRun
has none. The theorems are in `SessionLifecycleProofs` and
`SessionOverlapProofs` (which extends it), `TurnControlProofs`,
`WorkspaceScopesProofs`, `DeltaRoutesProofs`, `ControlChannelProofs`,
`AdaptiveRunProofs` and `RootSyncProofs`.

Definitions whose comment starts with "Mutant:" are wrong variants of the definition that follows them; no
specification uses them. Each shows that a property can fail: with the variant
in place of the definition TLC reports the property violated.

## 3. Runs

| Run | Instance | Checks |
|---|---|---|
| Lifecycle | one process, two roots, three paths (in scope, ignored, out of scope), two versions, crashes and reboots, server mode | `WorkIsAccountedFor` (the inductive form of `NoWorkLost`), `AgentRunsOnOpenBundle`, `OutOfScopeNeedsOperator` |
| LiveFinish | two processes, `finish` may start while a supervisor is alive | `NoWorkLost`, `ClosedOwesNothing`, `ReviewedBranchIsStable` |
| Outcome | two processes, no crash, `cleanup` and `cleanup -a` at any time, fairness | `SupervisorRecordsOutcome` |
| Scopes | three directories (one nested), a hook session, two logical sessions, a client without sessions | `EveryScopeHasAuthority`, `ProposalAllowsNothing`, `RootsAreThoseOfActiveSessions` |
| Turn | a denied path in the operator's scope, a path under a workspace that is granted and withdrawn again, whose writes may be refused and whose source may be missing, two tokens | `UnderlayNeedsAuthority`, `CommittedReachedUnderlay`, `KeptStaysInBranch`, `AnsweredIsNotAskedAgain`, `AbortStopsCommits` |
| Routes | two routes, two workspace sessions of one thread, two roots, one path that may be admitted or not, one failing call or incomplete report, one restart (3.3 million states) | `ActiveRoutesAreServed`, `MergedMeansEveryRoot`, `OneLiveRoutePerKey`, `NoRoutedWriteLost`, `AppliedIsAttributed` |
| RoutesLive | two routes of one workspace session, one failing call, no restart, fairness (1 million states) | `ExitIsConcluded` |
| Channel | two MCP servers of one client (Codex or Hermes), PID 1, a process of the agent, two connections or revocation threads at a time, fairness (1.1 million states) | `DecidesAlone`, `LateRevocationSparesLive`, `LostRootsAreRevoked`, `PinIsFreed` |
| Adaptive | the whole model: it is finite without bounds; fairness (0.4 million states) | `HandoffReleasesStreams`, `OnlyBridgesAreDiscarded`, `HandedOffServiceIsLeftAlone`, `ExitIsAnswered` |
| Roots | one of the three clients; three changes and two tool calls (Claude), two threads and three requests (Codex), two conversations, two workspaces and three statements each (Hermes); fairness (2.6 million states) | `ImplementsRegister` (the refinement of RootRegister), `McpCatchesUp`, `ShownIsSettled`, `GrantedIsKnown` |

Each type invariant is proved; four runs check theirs too (Lifecycle, Channel,
Adaptive, Roots).

**Bounds.** `MaxVersion` bounds how often a path changes: two versions are
enough for "committed, then written again", which every property about stale
decisions needs. Two roots make every loop over the bundle stop in the middle.
Two processes are a supervisor and the command that races it. Two tokens let an
old question be answered after a new one was asked. Generations are bounded in
the guards by `MaxGeneration`; with two sessions, one bump each suffices for an
update, a late update and a revocation to meet. `MaxFaults` and `MaxRestarts`
count failing backend calls and resumes in the route runs: two routes with one
fault and one restart reach an end that fails in the middle, is interrupted by a
crash and replayed, while a second route writes the same path. The path lies in
one of the two roots, so that the other root's merge can fail on its own. Two
connection slots hold a lost transport's revocation beside the connection that
replaces it, or a destructive admission beside another one; two servers are a
server and its successor. Three changes of roots let a change overtake a list,
and another one overtake the list requested for the first. Three Codex requests
let the answers of a thread arrive in any order around a fork or an archive;
three Hermes statements are a grant, a change and an end, of which any may time
out. The theorems of section 5 hold without these bounds.

**Deadlock** is not checked in the lifecycle, turn, route, channel, adaptive and
root runs because a session really ends there: its record is removed or its
outcome recorded, its socket closed, its client out of changes.

**Fairness.** Five runs assume some. Outcome: `WF_vars(Work(p))`, a process that has
started a command goes on executing it (it is a straight-line program whose
calls return or raise), and `WF_vars(AgentExit(p))`, agents terminate (the
property is about what happens afterwards). The operator never has to start
anything and no call has to succeed. RoutesLive: `WF_vars(Work)`, the thread
holding the manager's lock goes on with its operation, and `WF_vars(Main)`, the
main thread gets the lock when it is free and goes on. The agent's processes and
the requests of clients are not fair, and handlers may keep taking the lock.
Channel: `WF_vars(Thread(c))`, the threads of the control server run; what
processes and peers do is free. Adaptive: PID 1, bwrap's exit, the supervisor and
the frontend run and timers run out; the contained command may do nothing for
ever. Roots: the MCP server reads its input, and the client announces its
changes, takes the snapshot it was asked for and sends it; no human has to
answer, and no connection has to survive.

**Symmetry.** The two logical sessions of Scopes are interchangeable, and so are
the routes and the workspace sessions of Routes (no liveness is checked there). The turn
runs use a VIEW that leaves out `asked`, which properties read only in the
successor state of a step; Routes uses one that leaves out `base`, which no action
reads.

## 4. Where the code and its texts disagree

Two runs stop with a counterexample; PROJECT.json quotes the texts.

| Run | What happens |
|---|---|
| FindingAliasedRoot | `finalize_turn` compares visible paths with canonical out-of-scope names. Under a root that is visible at an alias (what `setup` configures in user mode) no change is found out of scope and all are committed at a turn boundary. |
| FindingForegroundObserver | The foreground runner embedded in `runner.py` hands the monitor's update to a function that takes lists of paths only. The error is printed and the response passed on: in the foreground the supervisor never hears of a Codex thread's roots, although two documents say that both runners do the same. |

Five more configurations stop with a counterexample to what a text of the
repository says. Each has a weaker property that holds and says how far the
disagreement goes:

| Configuration and module | Property refuted, and the text | What happens | What holds instead |
|---|---|---|---|
| FindingStaleDecision.cfg, MCTurnControl | `UnderlayNeedsScopeOrConsent`; policy.md:68-69 "Writes outside the active dynamic/static scopes continue to be kept for user review instead of being auto-committed" | A path auto-committed inside a workspace is remembered like an approved one, and a later change of it is committed at a turn boundary after the workspace was withdrawn (turn.py:873) | `UnderlayNeedsAuthority`: only what some scope or workspace had granted before |
| FindingOverwrittenRecord.cfg, MCSessionLifecycle | `CommittedStaysCommitted`; session.py:70-71 "Committed states stay terminal because their branches have been committed/discarded." | After `finish` committed a live session its supervisor saves the copy it has held since launch over the terminal record (runner.py:2773) | `NoWorkLost`, `ClosedOwesNothing`: nothing is owed by then |
| FindingCleanupWindow.cfg, MCSessionLifecycle | `RemovalSparesBranches`; session.py:348-349 "BranchFS stores live outside the session bundle and are intentionally not traversed here." | `cleanup` finds no mount, a resume attaches the bundle, and `rmtree` deletes through the mounted view: the deletions are changes of the branch (ctl.py:479-488) | nothing in general: `cleanup` is excluded from the overlaps of section 5 |
| FindingMergeWindow.cfg, MCDeltaRoutes | `AppliedIsRoutesOwn`; session-delta-routing.md:161-163, by which a shared outer delta on the path or a post-merge mutation forces review | What an unrouted process writes to a path between the merge and the fingerprint is attributed to the route and applied outside of every scope (route_manager.py:339-362) | `AppliedIsAttributed`: the path, if not its content, is one that the route wrote below its admission |
| FindingUnnamedOwner.cfg, MCControlChannel | `RootsEndWithTransport`; trusted-workspace-scope-protocol.md:321-326 and 351-352 "pinned transport loss while its client remains live -> authenticated roots are revoked to an empty replacement set" | `_release_pinned_connection` asks `/proc` for the authority of the connection it lost; if the MCP server has been reaped, or the client has lost its hardening, the answer is nobody and the roots stay in force (control.py:631, 664) | `LostRootsAreRevoked`: no other roots outlive their transport |

Disagreements that other values of the constants, or a history variable, show:

* Turn boundaries commit in-scope changes whatever the policy mode, also in
  `manual`, `read-only-review` and `throwaway` (turn.py:872, against the comment
  in policy.py:22): SessionLifecycle with `Mode = "read-only-review"`.
* `_apply` counts a path as applied whose source does not exist when it comes to
  it (turn.py:828, 838), and the path is remembered and reported as committed
  although the underlay does not have it. This is `skipped` in TurnControl.
* The supervisor may refuse to end the workspace of a Hermes conversation and
  keep the connection (control.py:728-736); the plugin forgets the conversation
  all the same, and the workspace stays in force. This is `unended` in
  HermesRoots.
* The supervisor stops reading lifecycle events when bwrap is gone: a
  `handoff-rejected` or `foreground-locked` that is still unread never makes the
  session a bridge, and its branches are finalized like an agent's
  (runner.py:2352, against user-facing-acceptance-testing.md:591 "never
  commits"). The last output of the command can be lost in the same way.
* While `_elicit` waits for the human it takes a `list_changed` notification or a
  roots list for the answer: the question counts as declined and the change is
  lost (mcp.py:180, against trusted-workspace-scope-protocol.md:146-150). This
  is `missed` in McpRoots.

Others met while modelling:

* A control request of PID 1 that gets no answer within five seconds raises an
  error that nobody catches, and ends PID 1 and with it the sandbox
  (adaptive_pid1.py:117).
* A Codex update the supervisor refuses still counts in the monitor: an older
  valid one that is answered later is dropped (codex_workspace.py:132).
* A Hermes grant whose answer did not come in time is unknown to the plugin and
  is not ended with the conversation; a connection that was closed is never
  opened again (`channel` in HermesRoots).
* `ControlServer.stop` does not join connection threads: a request that has
  passed its checks is handled after the session stopped.
* A second `mcp-admit` on the pinned connection is refused and gives up the pin.
* `commit` applies what status shows and discards the branches although status
  may carry warnings (ctl.py:978): what it missed is gone. The model counts it as
  given up with the operator's command, so no property is about it.
* A crash at `mounting` or `finalizing` leaves a session that neither `resume`
  nor `finish` accepts, although the error hint of `ctl.py` proposes them.
* `abort` of a thawed session with remembered permission failures discards the
  branches and then fails to record anything: `aborted` cannot follow the state
  the record is in.
* `reset_agent_workspaces` drops the operator's run workspace when a client had
  confirmed the same directory (turn.py:773-790, against policy.md:67).
* `add_workspace` releases a sub-scope that a client still confirms
  (turn.py:375-381, against architecture.md:100-102).

## 5. What is proved

All proofs are for every value of the constants allowed by the named
assumptions of the modules (`ConstantsAssumption`, `TurnAssumption`,
`ScopesAssumption`, `RoutesAssumption`, `ChannelAssumption`,
`SessionsAssumption`, `McpAssumption`, `CodexAssumption`, `HermesAssumption`).
They give the constants their types, say that containment of directories is
reflexive and transitive, and tell the kinds of processes and sessions apart.
Theorems with a further hypothesis name it. Every invariant, action property and
refinement that a passing run checks is stated by a theorem; the inductive invariants were checked
with TLC on the instances of section 3 before they were proved.

**Types** - `TypeCorrectness` in every component's proof module.

**Session lifecycle.**

* `NoWorkIsLost` and `WorkAccounting`, when commands do not overlap
  (`LiveCommands = {}`). `NoWorkLost` is not inductive: it says nothing about
  what a process is about to discard. `WorkIsAccountedFor` adds, per program
  counter, where the owed changes are: in the plan or among the denied while
  applying, none left when branches are discarded, and that the process's copy of
  the state agrees with the disk.
* `OverlapLosesNoWork`, `OverlapClosesNothingOwed` and `ReviewIsStable`, when
  `finish` may start beside a living supervisor
  (`LiveCommands \subseteq {"finish"}`). Two processes now finalize one
  bundle and the copies of the record disagree, so the invariant `OverlapInv`
  cannot speak of "the" command. It says which commands exclude all others
  (`AloneSound`: those that work on a record that does not say running), that of
  two commands at work one is a `finish` (`OthersFinish`), what each process may
  rely on at its step (`PlaceSound`, `WorkSound`), and that a record which calls
  the session reviewable or closed goes with branches no agent can write to
  (`SettledIsShut`).
* `LiveBundleIsOpen`, when commands do not overlap (with `finish` beside a
  supervisor TLC refutes it). The invariant `BundleInv` says that one command is
  at work at a time, that its copy of the record is the saved one, how much of
  the bundle is attached or thawed at each step towards the launch, and that
  nothing is frozen under a record that says running.
* `ScopeIsRespected`, for every overlap and every mode: whatever an automatic
  command has still to apply is in scope and not ignored (`ScopedPlans`).

**Turn decisions.**

* `CommittedHasReachedUnderlay`: a path remembered as committed is in the
  underlay, or its source was missing. One lemma (`OperationKeepsInv`) covers
  every operation: it writes what the branch holds, newly remembers at most what
  it wrote or passed over as missing, and saves what is in memory or nothing.
* `UnderlayIsProtected`, with aliased roots and with workspaces that come and
  go. The invariant `Authorised` says, of memory and of disk, that approved paths
  have the user's consent and that remembered commits under a canonical name were
  granted at some time or have it (`Backed`). It needs both copies, since a
  restart makes the saved one current. Under an aliased root there is nothing to
  prove: FindingAliasedRoot shows that everything is committed there.
* `KeptRemainsInBranch`, `AbortIsHonoured` and `AnswersAreFinal`, from
  `Remembered`: every answer of an operation that succeeded is a decision in
  memory and in `session.json`, and a saved abort is known in memory. It needs
  both copies, because an operation that raises leaves them different and a
  restart makes the saved one current. That an answer's three groups are disjoint
  is what keeps a discard from erasing a decision taken beside it.

**Scopes.** `ScopesHaveAuthority` and `ProposalsAllowNothing`: the invariant is
`ScopesJustified` (hooks own only directories beneath the ceiling, every
workspace has an authority or an owner, and the ceiling is fixed before the first
hook or client is heard). `RootsAreDerived` is about the
roots of logical sessions.

**Routes.** `ActiveRoutesServed`, `MergedInEveryRoot`, `OneLiveRoute`,
`RoutedWritesKept` and `AppliedPathsAreAttributed`. The inductive invariant comes in layers, each proved
from the ones before: `Operations` (the state of its route at each step of an
operation, and that route states in memory and on disk agree); `Branches` with
`OneLiveRoutePerKey` (what the nested branches look like in each route state:
"active" alone does not say that they are mounted, since recovery must still
look at the active routes of a resumed session); `Deltas` (a route with writes
is merged, waits for review, or is one `recover()` has not finished with when
the session is finalized); `Owners` (the record of an attributed path names one
route that wrote it, below whose admission it lies, and which no request can
change any more; and a merged route is named by the record of every path that its
snapshot lists, so that no other route's snapshot lists an attributed one).

**Control channel.** `DecisionsAreAlone`, `RevocationSparesLive` and
`RootsAreCarried`, for any number of connections, servers and tools. The
invariant `ChannelInv` says what the thread of a connection may rely on between
two of its steps (`ThreadsSound`: a pinned connection is open and its peer known;
an authority that was read belongs to the peer, and the pin it was read from is
still there), that the destructive pin excludes read-only ones (`PinsSound`),
that a server has one connection until its revocation thread has ended
(`SoleConnection`), and that granted roots have a pinned connection or such a
thread unless their owner could not be named (`RootsCarried`). The last but one is what `LateRevocationSparesLive`
hangs on: without it a second connection of the same server could be pinned
while the first one's revocation is on its way.

**Adaptive PID 1.** `StreamsAreReleased`, `BridgesAlone` and
`ServiceIsLeftAlone`. The properties speak of the supervisor's and the frontend's
state, and hold because of what PID 1 did several steps earlier; the invariant
carries that across the event socket: `Pid1Sound` (a handoff comes after a clean
exit with both streams at their end, and excludes a lock and a rejection),
`NewsSound` (an event that is still unread tells of something PID 1 has done)
and `SupervisorSound` (the supervisor acts on what it was told).

**Roots.** `Refinement`: RootSync implements RootRegister, step by step: every
step of a client is a statement, a hearing, a withdrawal or a stutter of the
register. The invariant `SyncInv` (theorem `Invariance`) has one part per client:
`McpSound` (at most one `roots/list` is under way and the server knows; versions
travel in order, and a list that is older than what was heard only comes with a
refresh pending), `CodexSound` (the monitor's version of a thread is settled or
being confirmed; generations grow with request numbers) and `HermesSound`
(a workspace in force is confirmed, its end is on its way, or its end was turned
down, as long as no answer got lost). `ShownAreSettled` and `GrantedAreKnown` follow from the same invariant.

**Only model-checked.** Liveness (`SupervisorRecordsOutcome`, `ExitIsConcluded`,
`PinIsFreed`, `ExitIsAnswered`, `McpCatchesUp`): the prover handles neither
fairness nor ENABLED. The runs and configurations of section 4 are
counterexamples, hence TLC's as well.

## 6. Not modelled, and the plan

In this order:

1. The route requests of the control channel (control.py:564-595, 688-708) with
   the lookup of DeltaRoutes.
2. **PolicyEval**: `path_matches`, `net_final_changes` and three-way merge as
   pure operators against reference definitions.
3. A containment order on the paths of TurnControl, since approving a directory
   allows what lies beneath it; load and save races of the hook-side commands
   (`finish_turn`, `check_before_final`).

Left out for good: output and argument parsing (`cli.py`), review artifacts
(`artifacts.py`, written and not read back), installation (`setup.py`,
`claude_plugin.py`, `branchfs_runtime.py`, `version.py`), construction of the
bwrap command line, shell glue under `assets/`, the relay of stdin. BranchFS itself is external:
its calls succeed, fail, or report incomplete status with a warning.
