------------------------- MODULE SessionLifecycle -------------------------
(***************************************************************************)
(* One ccc-agent session: its durable record (session.json), its branch    *)
(* bundle (one BranchFS branch per protected root), the real underlay      *)
(* ("base"), and the processes that work on it: the supervisor of          *)
(* `ccc-agent run' or `ccc-agent resume', which owns the agent, and the    *)
(* operator commands finish, commit, abort, review, thaw and cleanup.      *)
(*                                                                         *)
(* A process loads the record into memory, calls BranchFS step by step and *)
(* writes its copy back whole (SessionStore.save: last writer wins).  Any  *)
(* BranchFS call and any write to the underlay may fail; a process may     *)
(* crash between any two steps and the node may reboot.                    *)
(*                                                                         *)
(* File contents are abstracted to versions: 0 in `delta' means that the   *)
(* branch holds no change of the path (a tombstone is a version too).      *)
(***************************************************************************)
EXTENDS Naturals, FiniteSets

CONSTANTS
  Procs,         \* process slots that can work on the session
  Roots,         \* protected roots
  Paths,         \* paths the agent may change
  RootOf,        \* the protected root a path lies under
  InScope,       \* paths inside allowed_scopes and matching no deny pattern
  Ignored,       \* paths matching an ignore pattern (runtime noise)
  Deniable,      \* paths for which the underlay may answer "permission denied"
  Mode,          \* the policy mode the session is launched with
  ServerMode,    \* launched by `ccc-agent serve' (default-keep before finish)
  LiveCommands,  \* commands an operator may start while another one is at work
  MayCrash,      \* whether processes crash and the node reboots
  MaxVersion     \* bound on the versions of a path

Modes == {"workspace-auto", "training-run", "manual", "read-only-review",
          "throwaway"}

ASSUME ConstantsAssumption ==
  /\ RootOf \in [Paths -> Roots]
  /\ InScope \subseteq Paths
  /\ Ignored \subseteq Paths
  /\ Deniable \subseteq Paths
  /\ Mode \in Modes
  /\ ServerMode \in BOOLEAN
  /\ MayCrash \in BOOLEAN
  /\ MaxVersion \in Nat

----------------------------------------------------------------------------
(* The session record and its state machine (session.py). *)

States == {"created", "mounting", "running", "finalizing", "frozen",
           "auto-committed", "pending-review", "committed", "aborted",
           "failed"}

TerminalStates == {"auto-committed", "committed", "aborted", "failed"}

Transitions ==
  [s \in States |->
     CASE s = "created"        -> {"mounting", "aborted", "failed"}
       [] s = "mounting"       -> {"running", "aborted", "failed"}
       [] s = "running"        -> {"finalizing", "aborted", "failed"}
       [] s = "finalizing"     -> {"frozen", "aborted", "failed"}
       [] s = "frozen"         -> {"auto-committed", "pending-review",
                                   "committed", "aborted", "failed"}
       [] s = "pending-review" -> {"committed", "aborted", "running",
                                   "failed"}
       [] s \in {"aborted", "failed"} -> {"running"}
       [] OTHER                -> {}]

\* `absent': not yet created; `removed': its bundle was cleaned up.
NoFile == {"absent", "removed"}

Record == [st   : States \cup NoFile,
           perm : SUBSET Paths,       \* policy.commit_permission_denied
           mode : Modes,              \* policy.mode
           abortRequested : BOOLEAN]  \* policy.mcp_abort_requested

NewRecord == [st |-> "created", perm |-> {}, mode |-> Mode,
              abortRequested |-> FALSE]

----------------------------------------------------------------------------
(* What a process is doing. *)

Supervisors == {"run", "resume"}            \* commands that own the agent
Finalizers  == Supervisors \cup {"finish"}  \* commands that finalize

Commands == Finalizers \cup {"commit", "select", "abort", "thaw", "cleanup"}

Steps == {"idle", "begin", "attach", "launch", "wait", "exited", "freeze",
          "evaluate", "apply", "prune", "discard", "thaw", "remove"}

Job == [cmd     : Commands \cup {"none"},
        pc      : Steps,
        mem     : Record,          \* the process's copy of the record
        todo    : SUBSET Roots,    \* roots the current loop has left
        plan    : SUBSET Paths,    \* changes still to apply
        applied : SUBSET Paths,    \* changes applied by this command
        denied  : SUBSET Paths,    \* changes refused with "permission denied"
        outcome : States]          \* the state to record at the end

NoJob == [cmd |-> "none", pc |-> "idle", mem |-> NewRecord, todo |-> {},
          plan |-> {}, applied |-> {}, denied |-> {}, outcome |-> "created"]

VARIABLES
  disk,      \* session.json
  branch,    \* the branch of each root: absent, open or frozen
  mounted,   \* roots whose agent view is mounted
  delta,     \* version of each path held in the branch (0: no change)
  base,      \* version of each path in the real underlay
  agents,    \* supervisors whose agent is alive
  job,       \* what each process is doing
  owed       \* history: changes neither applied nor given up by anyone

vars == <<disk, branch, mounted, delta, base, agents, job, owed>>

Init ==
  /\ disk = [NewRecord EXCEPT !.st = "absent"]
  /\ branch = [r \in Roots |-> "absent"]
  /\ mounted = {}
  /\ delta = [x \in Paths |-> 0]
  /\ base = [x \in Paths |-> 0]
  /\ agents = {}
  /\ job = [p \in Procs |-> NoJob]
  /\ owed = {}

Idle(p) == job[p].cmd = "none"

\* The operator starts a command: alone, unless it is one of LiveCommands.
MayStart(p, c) ==
  /\ Idle(p)
  /\ c \in LiveCommands \/ \A q \in Procs : Idle(q)

At(p, step) == job[p].pc = step

\* Process p goes on as j; the others are left alone.
Become(p, j) == job' = [job EXCEPT ![p] = j]

End(p) == Become(p, NoJob)

Newest(x) == IF delta[x] > base[x] THEN delta[x] ELSE base[x]

Changed == {x \in Paths : delta[x] # 0}

\* split_ignored: the policy-visible changes of the bundle.
Visible == Changed \ Ignored

BranchesExist == \A r \in Roots : branch[r] # "absent"

Dropped(r) == [x \in Paths |-> IF RootOf[x] = r THEN 0 ELSE delta[x]]

----------------------------------------------------------------------------
(* run_session and resume_session: create, attach the bundle, launch. *)

RunCreate(p) ==
  /\ MayStart(p, "run")
  /\ disk.st = "absent"
  /\ disk' = NewRecord
  /\ Become(p, [NoJob EXCEPT !.cmd = "run", !.pc = "begin"])
  /\ UNCHANGED <<branch, mounted, delta, base, agents, owed>>

RunMounting(p) ==
  /\ At(p, "begin")
  /\ LET m == [job[p].mem EXCEPT !.st = "mounting"]
     IN  /\ disk' = m
         /\ Become(p, [job[p] EXCEPT !.mem = m, !.pc = "attach",
                               !.todo = Roots])
  /\ UNCHANGED <<branch, mounted, delta, base, agents, owed>>

Resumable == {"running", "pending-review", "aborted", "failed"}

\* Load, record the resume events, lazily unmount what is still mounted.
ResumeLoad(p) ==
  /\ MayStart(p, "resume")
  /\ disk.st \in Resumable
  /\ mounted' = {}
  /\ Become(p, [NoJob EXCEPT !.cmd = "resume", !.mem = disk,
                                             !.pc = "attach", !.todo = Roots])
  /\ UNCHANGED <<disk, branch, delta, base, agents, owed>>

\* Mutant: a pending-review session is reopened without thawing its branch.
PreparedWithoutThaw(p, r) ==
  IF job[p].mem.st \in {"mounting", "aborted"}
  THEN [branch EXCEPT ![r] = "open"] ELSE branch

\* What attaching root r does to its branch before the mount: a new and a
\* restarted session create it, a reopened one thaws it.
Prepared(p, r) ==
  IF job[p].mem.st = "running" THEN branch
                               ELSE [branch EXCEPT ![r] = "open"]

\* The last root attached leads to the launch.
AfterAttach(p, r) == IF job[p].todo = {r} THEN "launch" ELSE "attach"

Attach(p, r) ==
  /\ At(p, "attach") /\ r \in job[p].todo
  /\ branch[r] # "absent" \/ job[p].mem.st \in {"mounting", "aborted"}
  /\ branch' = Prepared(p, r)
  /\ mounted' = mounted \cup {r}
  /\ Become(p, [job[p] EXCEPT !.todo = @ \ {r}, !.pc = AfterAttach(p, r)])
  /\ UNCHANGED <<disk, delta, base, agents, owed>>

\* start_daemon, create_branch, thaw or mount raised.  A new session becomes
\* failed; a resume leaves the state it found.
AttachError(p) ==
  /\ At(p, "attach")
  /\ \/ UNCHANGED branch
     \/ \E r \in job[p].todo :
          /\ branch[r] # "absent" \/ job[p].mem.st \in {"mounting", "aborted"}
          /\ branch' = Prepared(p, r)
  /\ disk' = IF job[p].cmd = "run"
             THEN [job[p].mem EXCEPT !.st = "failed"] ELSE job[p].mem
  /\ mounted' = {}
  /\ End(p)
  /\ UNCHANGED <<delta, base, agents, owed>>

\* Mutant: the record is not saved before the agent starts.
LaunchUnsaved(p) ==
  /\ At(p, "launch")
  /\ Become(p, [job[p] EXCEPT !.mem = [@ EXCEPT !.st = "running"], !.pc = "wait"])
  /\ agents' = agents \cup {p}
  /\ UNCHANGED <<disk, branch, mounted, delta, base, owed>>

\* The record says running before the agent exists.
Launch(p) ==
  /\ At(p, "launch")
  /\ LET m == [job[p].mem EXCEPT !.st = "running"]
     IN  /\ disk' = m
         /\ Become(p, [job[p] EXCEPT !.mem = m, !.pc = "wait"])
  /\ agents' = agents \cup {p}
  /\ UNCHANGED <<branch, mounted, delta, base, owed>>

\* Preparing the launch (control server, bwrap), or recovering the delta
\* routes once the agent is gone, raised.
LaunchError(p) ==
  /\ At(p, "launch") \/ At(p, "exited")
  /\ disk' = [job[p].mem EXCEPT !.st = "failed"]
  /\ mounted' = {}
  /\ End(p)
  /\ UNCHANGED <<branch, delta, base, agents, owed>>

----------------------------------------------------------------------------
(* The agent at work, and the turn controller inside its supervisor. *)

\* The agent's namespace keeps its view after a host-side unmount, so only
\* the state of the branch decides whether a write lands.
AgentWrite(p, x) ==
  /\ p \in agents
  /\ branch[RootOf[x]] = "open"
  /\ Newest(x) < MaxVersion
  /\ delta' = [delta EXCEPT ![x] = Newest(x) + 1]
  /\ owed' = owed \cup ({x} \ Ignored)
  /\ UNCHANGED <<disk, branch, mounted, base, agents, job>>

\* What a turn boundary commits: in-scope changes, in every policy mode,
\* unless an abort was requested.
TurnEligible(p) ==
  IF job[p].mem.abortRequested THEN {} ELSE Visible \cap InScope

\* finalize_turn: apply what is eligible, keep what is denied, save.  An
\* error other than "permission denied" leaves a prefix applied and unsaved.
\* A server session does it once more, with default_keep, before it freezes.
TurnFinalize(p) ==
  /\ \/ p \in agents /\ BranchesExist
     \/ ServerMode /\ job[p].cmd = "run" /\ At(p, "freeze")
                   /\ job[p].todo = Roots /\ BranchesExist
  /\ \E done \in SUBSET TurnEligible(p) :
       /\ base' = [x \in Paths |-> IF x \in done THEN delta[x] ELSE base[x]]
       /\ owed' = owed \ done
       /\ \/ TurnEligible(p) \ done \subseteq Deniable /\ disk' = job[p].mem
          \/ UNCHANGED disk
  /\ UNCHANGED <<branch, mounted, delta, agents, job>>

\* request_abort: the user approved discarding the session at process exit.
RequestAbort(p) ==
  /\ p \in agents
  /\ LET m == [job[p].mem EXCEPT !.mode = "throwaway",
                                 !.abortRequested = TRUE]
     IN  /\ disk' = m
         /\ Become(p, [job[p] EXCEPT !.mem = m])
  /\ UNCHANGED <<branch, mounted, delta, base, agents, owed>>

AgentExit(p) ==
  /\ p \in agents
  /\ agents' = agents \ {p}
  /\ Become(p, [job[p] EXCEPT !.pc = "exited"])
  /\ UNCHANGED <<disk, branch, mounted, delta, base, owed>>

----------------------------------------------------------------------------
(* finalize_session: freeze, status, policy, apply the decision. *)

BeginFinalize(p) ==
  /\ At(p, "exited")
  /\ LET m == [job[p].mem EXCEPT !.st = "finalizing"]
     IN  /\ disk' = m
         /\ Become(p, [job[p] EXCEPT !.mem = m, !.pc = "freeze",
                               !.todo = Roots])
  /\ UNCHANGED <<branch, mounted, delta, base, agents, owed>>

FinishLoad(p) ==
  /\ MayStart(p, "finish")
  /\ disk.st = "running"
  /\ LET m == [disk EXCEPT !.st = "finalizing"]
     IN  /\ disk' = m
         /\ Become(p, [NoJob EXCEPT !.cmd = "finish",
                      !.mem = m, !.pc = "freeze", !.todo = Roots])
  /\ UNCHANGED <<branch, mounted, delta, base, agents, owed>>

\* Mutant: the supervisor does not record the failure either.
RaisedUnrecorded(p, m) ==
  /\ mounted' = {}
  /\ End(p)
  /\ UNCHANGED disk

\* An exception inside finalize_session with the record m in memory.  A
\* supervisor catches it, records failed and unmounts; `finish' just dies.
Raised(p, m) ==
  /\ IF job[p].cmd \in Supervisors
     THEN disk' = [m EXCEPT !.st = "failed"] /\ mounted' = {}
     ELSE UNCHANGED <<disk, mounted>>
  /\ End(p)

\* Mutant: the branch is inspected without having been frozen.
FreezeSkipped(p, r) ==
  /\ At(p, "freeze") /\ r \in job[p].todo
  /\ branch[r] # "absent"
  /\ Become(p, [job[p] EXCEPT !.todo = @ \ {r}])
  /\ UNCHANGED <<disk, branch, mounted, delta, base, agents, owed>>

Freeze(p, r) ==
  /\ At(p, "freeze") /\ r \in job[p].todo
  /\ branch[r] # "absent"
  /\ branch' = [branch EXCEPT ![r] = "frozen"]
  /\ Become(p, [job[p] EXCEPT !.todo = @ \ {r}])
  /\ UNCHANGED <<disk, mounted, delta, base, agents, owed>>

FreezeError(p) ==
  /\ At(p, "freeze") /\ job[p].todo # {}
  /\ Raised(p, job[p].mem)
  /\ UNCHANGED <<branch, delta, base, agents, owed>>

FreezeDone(p) ==
  /\ At(p, "freeze") /\ job[p].todo = {}
  /\ LET m == [job[p].mem EXCEPT !.st = "frozen"]
     IN  /\ disk' = m
         /\ Become(p, [job[p] EXCEPT !.mem = m, !.pc = "evaluate"])
  /\ UNCHANGED <<branch, mounted, delta, base, agents, owed>>

\* Mutant: the automatic modes commit whatever changed.
EvaluateAnyScope(mode, seen) ==
  CASE seen = {}           -> "no-changes"
    [] seen # {} /\ mode = "throwaway" -> "abort"
    [] seen # {} /\ mode \in {"workspace-auto", "training-run"}
                           -> "auto-commit"
    [] OTHER               -> "pending-review"

\* policy.evaluate on the policy-visible changes.
EvaluatePolicy(mode, seen) ==
  CASE seen = {}                             -> "no-changes"
    [] seen # {} /\ mode = "throwaway"       -> "abort"
    [] seen # {} /\ mode \in {"workspace-auto", "training-run"}
                 /\ seen \subseteq InScope   -> "auto-commit"
    [] OTHER                                 -> "pending-review"

\* Mutant: status warnings do not matter.
DecideDespiteWarnings(mode, seen, blocked) == EvaluatePolicy(mode, seen)

\* Admission errors, reconciliation blockers and status warnings send an
\* automatic decision to review.
Decide(mode, seen, blocked) ==
  LET verdict == EvaluatePolicy(mode, seen)
  IN  IF blocked /\ verdict \in {"no-changes", "auto-commit"}
      THEN "pending-review" ELSE verdict

\* The branch of finalize_session that a decision takes.
AfterDecision(p, decision, seen) ==
  CASE decision = "auto-commit" ->
         [job[p] EXCEPT !.pc = "apply", !.plan = seen,
                        !.mem = [@ EXCEPT !.perm = {}],
                        !.outcome = "auto-committed"]
    [] decision = "no-changes" ->
         [job[p] EXCEPT !.pc = "discard", !.todo = Roots,
                        !.outcome = "auto-committed"]
    [] decision = "abort" ->
         [job[p] EXCEPT !.pc = "discard", !.todo = Roots,
                        !.outcome = "aborted"]
    [] decision = "pending-review" ->
         [job[p] EXCEPT !.pc = "discard", !.todo = {},
                        !.outcome = "pending-review"]

\* Status, policy, review artifacts, unmount.  A status with warnings may
\* have missed changes.
Evaluate(p) ==
  /\ At(p, "evaluate")
  /\ BranchesExist
  /\ \E blocked \in BOOLEAN, seen \in SUBSET Visible :
       LET decision == Decide(job[p].mem.mode, seen, blocked)
       IN  /\ blocked \/ seen = Visible
           /\ Become(p, AfterDecision(p, decision, seen))
           /\ owed' = IF decision = "abort" THEN {} ELSE owed
  /\ mounted' = {}
  /\ UNCHANGED <<disk, branch, delta, base, agents>>

EvaluateError(p) ==
  /\ At(p, "evaluate")
  /\ Raised(p, job[p].mem)
  /\ UNCHANGED <<branch, delta, base, agents, owed>>

\* apply_change_from_store: copying a delta that no longer exists is a no-op.
Apply(p, x) ==
  /\ At(p, "apply") /\ x \in job[p].plan
  /\ base' = [base EXCEPT ![x] = IF delta[x] # 0 THEN delta[x] ELSE @]
  /\ owed' = owed \ {x}
  /\ Become(p, [job[p] EXCEPT !.plan = @ \ {x}, !.applied = @ \cup {x}])
  /\ UNCHANGED <<disk, branch, mounted, delta, agents>>

\* "Permission denied" is collected, except by the file-level review commit.
ApplyDenied(p, x) ==
  /\ At(p, "apply") /\ x \in job[p].plan \cap Deniable
  /\ job[p].cmd # "select"
  /\ Become(p, [job[p] EXCEPT !.plan = @ \ {x}, !.denied = @ \cup {x}])
  /\ UNCHANGED <<disk, branch, mounted, delta, base, agents, owed>>

\* Any other error: "commit failed, branch preserved".
ApplyError(p) ==
  /\ At(p, "apply") /\ job[p].plan # {}
  /\ disk' = CASE job[p].cmd \in Finalizers ->
                    [job[p].mem EXCEPT !.st = "failed"]
               [] job[p].cmd = "commit" -> job[p].mem
               [] OTHER -> disk
  /\ End(p)
  /\ UNCHANGED <<branch, mounted, delta, base, agents, owed>>

\* Mutant: denied paths are forgotten and the branch discarded.
AfterApplyForgettingDenied(p) == "discard"

AfterApply(p) == IF job[p].denied = {} THEN "discard" ELSE "prune"

ApplyDone(p) ==
  /\ At(p, "apply") /\ job[p].plan = {}
  /\ Become(p, [job[p] EXCEPT !.pc = AfterApply(p), !.todo = Roots])
  /\ UNCHANGED <<disk, branch, mounted, delta, base, agents, owed>>

\* prune_backend_change: drop from the branch what already reached the base.
Prune(p, x) ==
  /\ At(p, "prune") /\ x \in job[p].applied
  /\ delta' = [delta EXCEPT ![x] = 0]
  /\ Become(p, [job[p] EXCEPT !.applied = @ \ {x}])
  /\ UNCHANGED <<disk, branch, mounted, base, agents, owed>>

\* Remember the denied paths and leave them for review.
PruneDone(p) ==
  /\ At(p, "prune") /\ job[p].applied = {}
  /\ disk' = [job[p].mem EXCEPT !.st = "pending-review",
                                !.perm = job[p].denied]
  /\ End(p)
  /\ UNCHANGED <<branch, mounted, delta, base, agents, owed>>

\* Pruning, or rewriting the review from a fresh status, raised.
PruneError(p) ==
  /\ At(p, "prune")
  /\ \E perm \in {job[p].mem.perm, job[p].denied} :
       Raised(p, [job[p].mem EXCEPT !.perm = perm])
  /\ UNCHANGED <<branch, delta, base, agents, owed>>

\* backend.abort of one root; idempotent when the branch is already gone.
Discard(p, r) ==
  /\ At(p, "discard") /\ r \in job[p].todo
  /\ branch' = [branch EXCEPT ![r] = "absent"]
  /\ delta' = Dropped(r)
  /\ mounted' = mounted \ {r}
  /\ Become(p, [job[p] EXCEPT !.todo = @ \ {r}])
  /\ UNCHANGED <<disk, base, agents, owed>>

\* Unmount or abort-branch raised: fatal for finalization and for `abort'
\* (strict), only a saved warning after a commit.
DiscardError(p, r) ==
  /\ At(p, "discard") /\ r \in job[p].todo
  /\ \/ job[p].cmd \in Finalizers /\ Raised(p, job[p].mem)
     \/ /\ job[p].cmd = "abort"
        /\ disk' = job[p].mem
        /\ End(p)
        /\ UNCHANGED mounted
     \/ /\ job[p].cmd \in {"commit", "select"}
        /\ disk' = job[p].mem
        /\ Become(p, [job[p] EXCEPT !.todo = @ \ {r}])
        /\ UNCHANGED mounted
  /\ UNCHANGED <<branch, delta, base, agents, owed>>

\* session.transition(outcome) followed by save; an abort also forgets the
\* permission failures it discarded.
RecordOutcome(p) ==
  /\ At(p, "discard") /\ job[p].todo = {}
  /\ job[p].outcome \in Transitions[job[p].mem.st]
  /\ disk' = [job[p].mem EXCEPT !.st = job[p].outcome,
                !.perm = IF job[p].cmd = "abort" THEN {} ELSE @]
  /\ mounted' = IF job[p].cmd \in Supervisors THEN {} ELSE mounted
  /\ End(p)
  /\ UNCHANGED <<branch, delta, base, agents, owed>>

\* transition() raised StateError: nothing is saved by an operator command.
RecordRefused(p) ==
  /\ At(p, "discard") /\ job[p].todo = {}
  /\ job[p].outcome \notin Transitions[job[p].mem.st]
  /\ Raised(p, job[p].mem)
  /\ UNCHANGED <<branch, delta, base, agents, owed>>

----------------------------------------------------------------------------
(* Operator commands of ctl.Controller. *)

\* commit: apply what status shows (ignored paths on request), discard the
\* rest.  The operator gives up whatever status did not show.
CommitLoad(p) ==
  /\ MayStart(p, "commit")
  /\ disk.st \in {"pending-review", "frozen"}
  /\ BranchesExist
  /\ \E included \in {Visible, Changed} : \E shown \in SUBSET included :
       /\ Become(p, [NoJob EXCEPT !.cmd = "commit",
                    !.mem = [disk EXCEPT !.perm = {}], !.pc = "apply",
                    !.plan = shown, !.outcome = "committed"])
       /\ owed' = owed \cap shown
  /\ UNCHANGED <<disk, branch, mounted, delta, base, agents>>

\* review --commit-path / --apply-patch: apply the chosen part, then discard.
SelectLoad(p) ==
  /\ MayStart(p, "select")
  /\ disk.st \in {"pending-review", "frozen"}
  /\ BranchesExist
  /\ \E chosen \in SUBSET Changed \ {{}} :
       /\ Become(p, [NoJob EXCEPT !.cmd = "select",
                    !.mem = disk, !.pc = "apply", !.plan = chosen,
                    !.outcome = "committed"])
       /\ owed' = owed \cap chosen
  /\ UNCHANGED <<disk, branch, mounted, delta, base, agents>>

\* Mutant: the outcome is not a state of the session machine.
AbortOutcomeUnknown == "rejected"

\* Discarding the remainder of a partial commit completes the commit.
AbortOutcome == IF disk.perm # {} THEN "committed" ELSE "aborted"

\* abort / review --reject: the operator gives up every change.
AbortLoad(p) ==
  /\ MayStart(p, "abort")
  /\ disk.st \in States \ TerminalStates
  /\ Become(p, [NoJob EXCEPT !.cmd = "abort", !.mem = disk,
               !.pc = "discard", !.todo = Roots, !.outcome = AbortOutcome])
  /\ owed' = {}
  /\ UNCHANGED <<disk, branch, mounted, delta, base, agents>>

ThawLoad(p) ==
  /\ MayStart(p, "thaw")
  /\ disk.st = "pending-review"
  /\ Become(p, [NoJob EXCEPT !.cmd = "thaw", !.mem = disk,
               !.pc = "thaw", !.todo = Roots])
  /\ UNCHANGED <<disk, branch, mounted, delta, base, agents, owed>>

Thaw(p, r) ==
  /\ At(p, "thaw") /\ r \in job[p].todo
  /\ branch[r] # "absent"
  /\ branch' = [branch EXCEPT ![r] = "open"]
  /\ Become(p, [job[p] EXCEPT !.todo = @ \ {r}])
  /\ UNCHANGED <<disk, mounted, delta, base, agents, owed>>

ThawError(p) ==
  /\ At(p, "thaw") /\ job[p].todo # {}
  /\ End(p)
  /\ UNCHANGED <<disk, branch, mounted, delta, base, agents, owed>>

ThawDone(p) ==
  /\ At(p, "thaw") /\ job[p].todo = {}
  /\ disk' = [job[p].mem EXCEPT !.st = "running"]
  /\ End(p)
  /\ UNCHANGED <<branch, mounted, delta, base, agents, owed>>

CleanupStates == {"auto-committed", "committed", "aborted"}

\* cleanup [-a]: an old session that is not mounted is to be removed.  With -a
\* the operator gives up whatever its branch still holds.
CleanupLoad(p, all) ==
  /\ MayStart(p, "cleanup")
  /\ disk.st \in (IF all THEN States ELSE CleanupStates)
  /\ mounted = {}
  /\ Become(p, [NoJob EXCEPT !.cmd = "cleanup", !.mem = disk, !.pc = "remove"])
  /\ owed' = IF all THEN {} ELSE owed
  /\ UNCHANGED <<disk, branch, mounted, delta, base, agents>>

\* What rmtree makes of the branches: the views are mounted inside the bundle,
\* and where one is mounted by now, and writable, files are deleted through it
\* (a deletion is a new version, or leaves no change of a file that was new).
Swept ==
  {d \in [Paths -> 0..MaxVersion] :
     \A x \in Paths :
       \/ d[x] = delta[x]
       \/ /\ RootOf[x] \in mounted /\ branch[RootOf[x]] = "open"
          /\ d[x] \in {0, Newest(x) + 1}}

\* SessionStore.remove, without a lock and without another look at the mounts;
\* rmtree may raise before or after it has deleted session.json.
Remove(p) ==
  /\ At(p, "remove")
  /\ disk' \in {disk, [disk EXCEPT !.st = "removed"]}
  /\ delta' \in Swept
  /\ End(p)
  /\ UNCHANGED <<branch, mounted, base, agents, owed>>

----------------------------------------------------------------------------
(* Failures of the environment. *)

\* bwrap --die-with-parent: the agent dies with its supervisor; mounts stay.
Crash(p) ==
  /\ MayCrash
  /\ ~Idle(p)
  /\ End(p)
  /\ agents' = agents \ {p}
  /\ UNCHANGED <<disk, branch, mounted, delta, base, owed>>

Reboot ==
  /\ MayCrash
  /\ mounted # {}
  /\ mounted' = {}
  /\ agents' = {}
  /\ job' = [p \in Procs |-> NoJob]
  /\ UNCHANGED <<disk, branch, delta, base, owed>>

----------------------------------------------------------------------------
\* What a process does once its command has started.
Attaching(p) ==
  \/ RunMounting(p) \/ AttachError(p) \/ Launch(p) \/ LaunchError(p)
  \/ \E r \in Roots : Attach(p, r)

Freezing(p) ==
  \/ BeginFinalize(p) \/ FreezeError(p) \/ FreezeDone(p)
  \/ Evaluate(p) \/ EvaluateError(p)
  \/ \E r \in Roots : Freeze(p, r)

Applying(p) ==
  \/ ApplyError(p) \/ ApplyDone(p) \/ PruneDone(p) \/ PruneError(p)
  \/ \E x \in Paths : Apply(p, x) \/ ApplyDenied(p, x) \/ Prune(p, x)

Discarding(p) ==
  \/ RecordOutcome(p) \/ RecordRefused(p)
  \/ \E r \in Roots : Discard(p, r) \/ DiscardError(p, r)

Thawing(p) ==
  \/ ThawError(p) \/ ThawDone(p)
  \/ \E r \in Roots : Thaw(p, r)

Work(p) ==
  \/ Attaching(p) \/ Freezing(p) \/ Applying(p) \/ Discarding(p) \/ Thawing(p)
  \/ Remove(p)

Start(p) ==
  \/ RunCreate(p) \/ ResumeLoad(p) \/ FinishLoad(p) \/ CommitLoad(p)
  \/ SelectLoad(p) \/ AbortLoad(p) \/ ThawLoad(p)
  \/ \E all \in BOOLEAN : CleanupLoad(p, all)

AgentStep(p) ==
  \/ \E x \in Paths : AgentWrite(p, x)
  \/ TurnFinalize(p) \/ RequestAbort(p) \/ AgentExit(p)

Next ==
  \/ \E p \in Procs : Start(p) \/ Work(p) \/ AgentStep(p) \/ Crash(p)
  \/ Reboot

Spec == Init /\ [][Next]_vars

\* A started command keeps executing, and agents terminate; the operator is
\* under no obligation to start anything.
Fairness == \A p \in Procs : WF_vars(Work(p)) /\ WF_vars(AgentExit(p))

FairSpec == Spec /\ Fairness

----------------------------------------------------------------------------
(* Properties. *)

TypeOK ==
  /\ disk \in Record
  /\ branch \in [Roots -> {"absent", "open", "frozen"}]
  /\ mounted \subseteq Roots
  /\ delta \in [Paths -> 0..MaxVersion]
  /\ base \in [Paths -> 0..MaxVersion]
  /\ agents \subseteq Procs
  /\ job \in [Procs -> Job]
  /\ owed \subseteq Paths

\* "Failure must never lose the branch": a policy-visible change the agent
\* made stays in its branch until it has reached the underlay or somebody
\* entitled to has given it up (abort, review selection, commit of what
\* status showed, throwaway policy, cleanup -a) -- through every error,
\* crash and restart of finalize_session and of the operator commands.
NoWorkLost == \A x \in owed : delta[x] # 0

\* No session is recorded as closed (auto-committed, committed or aborted,
\* the states default cleanup removes) while its branch still owes a change.
ClosedOwesNothing == disk.st \in CleanupStates => owed = {}

\* "Committed states stay terminal because their branches have been
\* committed/discarded" (session.py): no later save resurrects the record.
CommittedStaysCommitted ==
  [][disk.st \in {"auto-committed", "committed"}
       => disk'.st \in {disk.st, "removed"}]_disk

\* While the record says pending-review the branch under review does not
\* change: no agent write reaches it, so what is committed is what was shown.
ReviewedBranchIsStable ==
  [][disk.st = "pending-review"
       => \A x \in Paths : delta'[x] \in {delta[x], 0}]_vars

\* A change outside the policy scope, or one the ignore rules hide, reaches
\* the underlay only through an operator's commit or review selection.
OutOfScopeNeedsOperator ==
  [][\A x \in Paths \ (InScope \ Ignored) : base'[x] # base[x]
       => \E p \in Procs : job[p].cmd \in {"commit", "select"}]_base

\* While an agent is alive its record says running and its whole bundle is
\* attached and writable, whatever failed or crashed before it was launched.
AgentRunsOnOpenBundle ==
  agents # {} =>
    /\ disk.st = "running"
    /\ mounted = Roots
    /\ \A r \in Roots : branch[r] = "open"

\* "BranchFS stores live outside the session bundle and are intentionally not
\* traversed here" (SessionStore.remove): removing a bundle changes no branch.
RemovalSparesBranches ==
  [][\A p \in Procs : At(p, "remove") /\ job'[p] = NoJob => delta' = delta]_vars

\* Process exit always performs session-end finalization (architecture.md):
\* once its agent is gone a supervisor that does not crash records an outcome.
SupervisorRecordsOutcome ==
  \A p \in Procs :
    (job[p].cmd \in Supervisors /\ At(p, "exited"))
      ~> (Idle(p) /\ disk.st \in {"auto-committed", "pending-review",
                                  "aborted", "failed"})

----------------------------------------------------------------------------
(* Why NoWorkLost and ClosedOwesNothing hold when commands do not overlap. *)

\* What the code relies on at each step of the process p: it holds the state
\* that is on disk; the changes it has still to apply include every change
\* owed; when it discards branches nothing is owed any more.
ProcessSound(p) ==
  /\ Idle(p) => At(p, "idle")
  /\ ~Idle(p) => disk.st = job[p].mem.st
  /\ p \in agents => At(p, "wait")
  /\ At(p, "wait") => job[p].mem.st = "running"
  /\ job[p].pc \notin {"apply", "prune", "discard"} => job[p].applied = {}
  /\ At(p, "apply") => /\ owed \subseteq job[p].plan \cup job[p].denied
                       /\ job[p].outcome # "pending-review"
  /\ job[p].pc \in {"apply", "prune"} => owed \cap job[p].applied = {}
  /\ At(p, "discard") => \/ owed = {}
                         \/ job[p].outcome = "pending-review"
                              /\ job[p].todo = {}
  /\ At(p, "remove") => mounted = {}

OneCommandAtATime ==
  \A p, q \in Procs : ~Idle(p) /\ ~Idle(q) => p = q

\* The inductive invariant behind NoWorkLost: at every step of every command
\* the changes owed are exactly where the next steps will look for them.
WorkIsAccountedFor ==
  /\ OneCommandAtATime
  /\ \A p \in Procs : ProcessSound(p)
  /\ owed \subseteq Visible
  /\ ClosedOwesNothing

=============================================================================
