----------------------------- MODULE DeltaRoutes -----------------------------
(***************************************************************************)
(* Delta routes (DeltaRouteManager in route_manager.py, DeltaRoute in       *)
(* delta_routing.py) and their reconciliation at the session end            *)
(* (_route_reconciliation in runner.py): each logical session of the Codex *)
(* app-server writes into nested branches of its own, which are merged into *)
(* the outer branch of the session when the logical session ends, path by   *)
(* path attributed to the route.  A path that only one route touched, below *)
(* the roots admitted for it, may be applied without review although no     *)
(* scope allows it any more.                                                *)
(*                                                                         *)
(* Three kinds of actors: the agent's processes, routed and unrouted; a     *)
(* handler of the control server, which holds the manager's lock through    *)
(* one operation; and the supervisor's main thread, whose recover() runs    *)
(* before the control server starts and after the agent exited, when a      *)
(* handler may still be at work.  The supervisor may die at any step.       *)
(*                                                                         *)
(* The content of a path is the set of writers it comes from; {} is "no     *)
(* change".  Branches are merged root by root.                              *)
(***************************************************************************)
EXTENDS Naturals

CONSTANTS
  Routes,       \* route ids that can be drawn (new_route_id)
  Keys,         \* workspace session keys: transport incarnation and thread
  Thread,       \* the thread (logical session) of a key
  Roots,        \* names of the protected roots
  Paths,        \* paths that can change
  RootOf,       \* the protected root a path lies in
  Scope,        \* paths under the operator's scopes
  Admissions,   \* sets of paths that a set of admitted roots may cover
  None,         \* no route, no workspace session
  Shared,       \* the writer that stands for every unrouted process
  MaxFaults,    \* bound on failing backend calls
  MaxRestarts   \* bound on resumes of the session

ASSUME RoutesAssumption ==
  /\ DOMAIN Thread = Keys
  /\ RootOf \in [Paths -> Roots]
  /\ Scope \subseteq Paths
  /\ Admissions \subseteq SUBSET Paths
  /\ None \notin Routes \cup Keys
  /\ Shared \notin Routes
  /\ MaxFaults \in Nat
  /\ MaxRestarts \in Nat

\* "absent": the id was not drawn.  ROUTE_STATES also has "aborted", which no
\* code path assigns.
RouteStates == {"absent", "provisioning", "active", "quiescing", "frozen",
                "merged", "pending-review", "failed"}

Writers == Routes \cup {Shared}

RouteRecord == [state : RouteStates, key : Keys \cup {None}, admitted : SUBSET Paths]

\* category "none": no record.  A record is authorized iff "attributed".
Categories == {"none", "attributed", "attributed-out-of-scope",
               "multiply-influenced", "conflicted", "conflicted-after-merge"}

Attribution == [category : Categories, ids : SUBSET Routes,
                fingerprint : SUBSET Writers]

\* The part of session.json that this component reads and writes.
Record == [route   : [Routes -> RouteRecord],
           path    : [Paths -> Attribution],     \* route_path_attribution
           granted : [Keys -> SUBSET Paths]]     \* roots of active sessions

\* The operation that holds the manager's lock.
Steps == {"idle", "create", "freeze", "unmount", "reload", "before", "merge"}
Operation == [pc : Steps, route : Routes \cup {None}, main : BOOLEAN,
              todo : SUBSET Roots, before : SUBSET Paths,
              conflicts : SUBSET Paths, errors : SUBSET Roots]

Phases == {"starting", "running", "draining", "finalizing", "finishing",
           "crashed", "auto-committed", "pending-review", "failed"}

VARIABLES
  mem,       \* the supervisor's session record
  disk,      \* the saved one
  child,     \* state of each route's nested branch per root
  mounted,   \* roots whose nested branch is mounted, per route
  delta,     \* paths changed in the nested branches, per route
  bound,     \* routes bound into a process by a successful lookup
  outer,     \* content of each path in the outer branch
  base,      \* content of each path that reached the underlay
  snap,      \* reviews/routes/<id>/status.json: paths it lists
  op,        \* the operation in progress
  phase,     \* where the supervisor's main thread is
  drain,     \* routes recover() has not looked at
  waiting,   \* the route recover() wants the lock for
  status,    \* changes of the frozen outer branch that are being decided
  faults, restarts

vars == <<mem, disk, child, mounted, delta, bound, outer, base, snap, op,
          phase, drain, waiting, status, faults, restarts>>

branches == <<child, mounted, delta, bound, outer, base, snap>>
control  == <<phase, drain, waiting, status, restarts>>

Idle == [pc |-> "idle", route |-> None, main |-> FALSE, todo |-> {},
         before |-> {}, conflicts |-> {}, errors |-> {}]

NoAttribution == [category |-> "none", ids |-> {}, fingerprint |-> {}]

TypeOK ==
  /\ mem \in Record
  /\ disk \in Record
  /\ child \in [Routes -> [Roots -> {"none", "open", "frozen", "merged", "aborted"}]]
  /\ mounted \in [Routes -> SUBSET Roots]
  /\ delta \in [Routes -> SUBSET Paths]
  /\ bound \subseteq Routes
  /\ outer \in [Paths -> SUBSET Writers]
  /\ base \in [Paths -> SUBSET Writers]
  /\ snap \in [Routes -> SUBSET Paths]
  /\ op \in Operation
  /\ phase \in Phases
  /\ drain \subseteq Routes
  /\ waiting \in Routes \cup {None}
  /\ status \subseteq Paths
  /\ faults \in Nat
  /\ restarts \in Nat

Init ==
  /\ mem = [route   |-> [r \in Routes |-> [state |-> "absent", key |-> None, admitted |-> {}]],
            path    |-> [p \in Paths |-> NoAttribution],
            granted |-> [k \in Keys |-> {}]]
  /\ disk = mem
  /\ child = [r \in Routes |-> [n \in Roots |-> "none"]]
  /\ mounted = [r \in Routes |-> {}]
  /\ delta = [r \in Routes |-> {}]
  /\ bound = {}
  /\ outer = [p \in Paths |-> {}]
  /\ base = [p \in Paths |-> {}]
  /\ snap = [r \in Routes |-> {}]
  /\ op = Idle
  /\ phase = "starting"
  /\ drain = {}
  /\ waiting = None
  /\ status = {}
  /\ faults = 0
  /\ restarts = 0

State(r) == mem.route[r].state
Unresolved == {"provisioning", "active", "quiescing", "frozen", "pending-review"}

\* Mutant: routes that wait for review do not count as live.
LiveUnlessPending(k) ==
  {r \in Routes : mem.route[r].key = k /\ State(r) \in Unresolved \ {"pending-review"}}

\* _route_for_workspace: there is at most one (OneLiveRoutePerKey below).
Live(k) == {r \in Routes : mem.route[r].key = k /\ State(r) \in Unresolved}

\* _save: the record in memory goes to disk as a whole.
Save(m) == mem' = m /\ disk' = m

Moved(m, r, s) == [m EXCEPT !.route[r].state = s]

\* A backend call fails.
Fault == faults < MaxFaults /\ faults' = faults + 1

\* What a status report lists of the paths changed in a branch: all of them,
\* or what is left when parts of the branch could only be warned about.  The
\* manager does not look at the warnings.
Report(listed, changed) ==
  \/ listed = changed /\ UNCHANGED faults
  \/ listed # changed /\ Fault

\* Roots are taken in a fixed order.
NextRoot == CHOOSE n \in op.todo : TRUE

\* The control server serves requests until the session is finalized.
Serving == phase \in {"running", "draining", "finalizing"}

-----------------------------------------------------------------------------
(* The agent's processes.                                                  *)

\* lookup: a routed command asks for the bindings of its thread.
Lookup(r) ==
  /\ phase = "running"
  /\ op.pc = "idle"
  /\ State(r) = "active"
  /\ {x \in Routes : /\ State(x) = "active"
                     /\ Thread[mem.route[x].key] = Thread[mem.route[r].key]} = {r}
  /\ bound' = bound \cup {r}
  /\ UNCHANGED <<mem, disk, child, mounted, delta, outer, base, snap, op, control, faults>>

\* A process with these bindings writes, as long as BranchFS lets it.
RoutedWrite(r, p) ==
  /\ phase = "running"
  /\ r \in bound
  /\ child[r][RootOf[p]] = "open"
  /\ RootOf[p] \in mounted[r]
  /\ delta' = [delta EXCEPT ![r] = @ \cup {p}]
  /\ UNCHANGED <<mem, disk, child, mounted, bound, outer, base, snap, op, control, faults>>

\* Any other process writes p, or removes what only the branch has, at any
\* time: nothing pauses it while a route is merged.
OuterWrite(p) ==
  /\ phase = "running"
  /\ \E c \in {{}, {Shared}} : outer' = [outer EXCEPT ![p] = c]
  /\ UNCHANGED <<mem, disk, child, mounted, delta, bound, base, snap, op, control, faults>>

\* A turn boundary copies p to the underlay, the outer branch keeps its change;
\* it holds the controller's lock, as the handlers below do.
TurnCommit(p) ==
  /\ phase = "running"
  /\ op.pc = "idle"
  /\ outer[p] # {}
  /\ p \in Scope \cup UNION {mem.granted[k] : k \in Keys}
  /\ base' = [base EXCEPT ![p] = outer[p]]
  /\ Save(mem)
  /\ UNCHANGED <<child, mounted, delta, bound, outer, snap, op, control, faults>>

-----------------------------------------------------------------------------
(* replace_workspace_session(state = "active") and provision.              *)

\* The roots are granted and saved before the route is looked at.
Granted(k, a) == [mem EXCEPT !.granted[k] = a]

ProvisionNew(k, a, r) ==
  /\ Serving
  /\ op.pc = "idle"
  /\ Live(k) = {}
  /\ State(r) = "absent"
  /\ Save([Granted(k, a) EXCEPT
             !.route[r] = [state |-> "provisioning", key |-> k, admitted |-> a]])
  /\ op' = [Idle EXCEPT !.pc = "create", !.route = r, !.todo = Roots]
  /\ UNCHANGED <<branches, control, faults>>

\* Fingerprinting the outer branch raises: roots granted, no route.
ProvisionRaises(k, a) ==
  /\ Serving
  /\ op.pc = "idle"
  /\ Live(k) = {}
  /\ Fault
  /\ Save(Granted(k, a))
  /\ UNCHANGED <<branches, op, control>>

\* An active route takes over the admission, another one is left alone.
Refreshed(m, r, a) ==
  IF State(r) = "active" THEN [m EXCEPT !.route[r].admitted = a] ELSE m

ProvisionAgain(k, a) ==
  /\ Serving
  /\ op.pc = "idle"
  /\ \E r \in Live(k) : Save(Refreshed(Granted(k, a), r, a))
  /\ UNCHANGED <<branches, op, control, faults>>

CreateChild ==
  LET n == NextRoot IN
  /\ op.pc = "create"
  /\ op.todo # {}
  /\ child' = [child EXCEPT ![op.route][n] = "open"]
  /\ mounted' = [mounted EXCEPT ![op.route] = @ \cup {n}]
  /\ op' = [op EXCEPT !.todo = @ \ {n}]
  /\ UNCHANGED <<mem, disk, delta, bound, outer, base, snap, control, faults>>

Activate ==
  /\ op.pc = "create"
  /\ op.todo = {}
  /\ Save(Moved(mem, op.route, "active"))
  /\ op' = Idle
  /\ UNCHANGED <<branches, control, faults>>

\* Creating or mounting a child raises: the children in `made' exist, those
\* in `kept' cannot be unmounted and aborted again.
ProvisionFails(made, kept) ==
  /\ op.pc = "create"
  /\ op.todo # {}
  /\ Fault
  /\ made \in {Roots \ op.todo, (Roots \ op.todo) \cup {NextRoot}}
  /\ child' = [child EXCEPT ![op.route] = [n \in Roots |->
                 IF n \in kept THEN "open" ELSE
                 IF n \in made THEN "aborted" ELSE "none"]]
  /\ mounted' = [mounted EXCEPT ![op.route] = @ \cap kept]
  /\ Save(Moved(mem, op.route, IF kept = {} THEN "failed" ELSE "pending-review"))
  /\ op' = Idle
  /\ UNCHANGED <<delta, bound, outer, base, snap, control>>

-----------------------------------------------------------------------------
(* end_workspace_session.                                                  *)

\* Where it enters, by the state it finds the route in; `main' tells who ends.
EndOf(r, main) ==
  CASE State(r) \in {"active", "quiescing"} ->
         [Idle EXCEPT !.pc = "freeze", !.route = r, !.main = main, !.todo = Roots]
    [] State(r) = "frozen" ->
         [Idle EXCEPT !.pc = "reload", !.route = r, !.main = main]
    [] OTHER -> Idle

\* Mutant: the route stays active while its children freeze.
QuiescedLate(m, r) == m

Quiesced(m, r) == IF State(r) = "active" THEN Moved(m, r, "quiescing") ELSE m

\* replace_workspace_session(state = "ended").
EndSession(k) ==
  /\ Serving
  /\ op.pc = "idle"
  /\ \/ Live(k) = {} /\ mem.granted[k] # {} /\ Save(Granted(k, {})) /\ UNCHANGED op
     \/ \E r \in Live(k) : /\ Save(Quiesced(Granted(k, {}), r))
                           /\ op' = EndOf(r, FALSE)
  /\ UNCHANGED <<branches, control, faults>>

FreezeChild ==
  LET n == NextRoot IN
  /\ op.pc = "freeze"
  /\ op.todo # {}
  /\ child' = [child EXCEPT ![op.route][n] = "frozen"]
  /\ op' = [op EXCEPT !.todo = @ \ {n}]
  /\ UNCHANGED <<mem, disk, mounted, delta, bound, outer, base, snap, control, faults>>

\* _snapshot, once every child is frozen.
Snapshot ==
  /\ op.pc = "freeze"
  /\ op.todo = {}
  /\ \E listed \in SUBSET delta[op.route] :
       /\ Report(listed, delta[op.route])
       /\ snap' = [snap EXCEPT ![op.route] = listed]
  /\ op' = [op EXCEPT !.pc = "unmount"]
  /\ UNCHANGED <<mem, disk, child, mounted, delta, bound, outer, base, control>>

RouteFrozen ==
  /\ op.pc = "unmount"
  /\ mounted' = [mounted EXCEPT ![op.route] = {}]
  /\ Save(Moved(mem, op.route, "frozen"))
  /\ op' = [op EXCEPT !.pc = "before"]
  /\ UNCHANGED <<child, delta, bound, outer, base, snap, control, faults>>

\* Freezing, the snapshot or unmounting raises, or a snapshot taken before a
\* restart cannot be read: the children stay as they are, for review.
QuiesceFails ==
  /\ op.pc \in {"freeze", "unmount", "reload"}
  /\ \/ Fault
     \/ op.pc = "unmount" /\ mounted[op.route] # Roots /\ UNCHANGED faults
  /\ Save(Moved(mem, op.route, "pending-review"))
  /\ op' = Idle
  /\ UNCHANGED <<branches, control>>

\* The snapshot of an interrupted end is read back.
Reload ==
  /\ op.pc = "reload"
  /\ op' = [op EXCEPT !.pc = "before"]
  /\ UNCHANGED <<mem, disk, branches, control, faults>>

\* The paths that differ in the outer branch.
OuterChanges == {p \in Paths : outer[p] # {}}

\* parent_before_merge: which paths the outer branch changes already.
BeforeMerge ==
  /\ op.pc = "before"
  /\ \E listed \in SUBSET OuterChanges :
       /\ Report(listed, OuterChanges)
       /\ op' = [op EXCEPT !.pc = "merge", !.todo = Roots, !.before = listed]
  /\ UNCHANGED <<mem, disk, branches, control>>

Here(n) == {p \in delta[op.route] : RootOf[p] = n}

Both(n) == {p \in Here(n) : outer[p] # {}}

\* What commit_nested_branch makes of the outer branch: paths changed on both
\* sides are merged (`mixed'), reported as conflicts, or the child's wins.
Merged(n, conflicts, mixed) ==
  [p \in Paths |-> IF p \notin Here(n) \ conflicts THEN outer[p]
                   ELSE IF p \in mixed THEN outer[p] \cup {op.route}
                   ELSE {op.route}]

MergeRoot ==
  LET n == NextRoot IN
  /\ op.pc = "merge"
  /\ op.todo # {}
  /\ child[op.route][n] = "frozen"
  /\ \E conflicts \in SUBSET Both(n) :
       /\ \E mixed \in SUBSET Both(n) : outer' = Merged(n, conflicts, mixed)
       /\ op' = [op EXCEPT !.todo = @ \ {n}, !.conflicts = @ \cup conflicts]
  /\ child' = [child EXCEPT ![op.route][n] = "merged"]
  /\ UNCHANGED <<mem, disk, mounted, delta, bound, base, snap, control, faults>>

\* Mutant: the failed root is tried again.
MergeFailsRetried ==
  LET n == NextRoot IN
  /\ op.pc = "merge"
  /\ op.todo # {}
  /\ child[op.route][n] # "frozen"
  /\ UNCHANGED vars

\* The merge raises: always when an earlier, interrupted end has consumed the
\* branch; otherwise before the merge or, as on a timeout, after it.
MergeFails ==
  LET n == NextRoot IN
  /\ op.pc = "merge"
  /\ op.todo # {}
  /\ op' = [op EXCEPT !.todo = @ \ {n}, !.errors = @ \cup {n}]
  /\ \/ child[op.route][n] # "frozen" /\ UNCHANGED <<child, outer, faults>>
     \/ child[op.route][n] = "frozen" /\ Fault /\ UNCHANGED <<child, outer>>
     \/ /\ child[op.route][n] = "frozen"
        /\ Fault
        /\ outer' = Merged(n, {}, {})
        /\ child' = [child EXCEPT ![op.route][n] = "merged"]
  /\ UNCHANGED <<mem, disk, mounted, delta, bound, base, snap, control>>

Conflict(p) == RootOf[p] \in op.errors \/ p \in op.conflicts \/ outer[p] = {}

\* Mutant: the routes of an earlier record of the path are forgotten.
CategoryOfLastRoute(p) ==
  IF p \in op.before THEN "multiply-influenced"
  ELSE CASE Conflict(p) -> "conflicted"
         [] ~Conflict(p) /\ p \in mem.route[op.route].admitted -> "attributed"
         [] OTHER -> "attributed-out-of-scope"

Category(p) ==
  IF mem.path[p].ids \notin {{}, {op.route}} \/ p \in op.before
  THEN "multiply-influenced"
  ELSE CASE Conflict(p) -> "conflicted"
         [] ~Conflict(p) /\ p \in mem.route[op.route].admitted -> "attributed"
         [] OTHER -> "attributed-out-of-scope"

\* _record_attribution for the paths of the snapshot that lie in `roots'.
RecordAttribution(roots) ==
  [mem EXCEPT !.path = [p \in Paths |->
     IF p \in snap[op.route] /\ RootOf[p] \in roots
     THEN [category    |-> Category(p),
           ids         |-> mem.path[p].ids \cup {op.route},
           fingerprint |-> IF Conflict(p) THEN {} ELSE outer[p]]
     ELSE mem.path[p]]]

\* Mutant: roots that could not be merged are overlooked.
MergeOutcomeOfConflicts == IF op.conflicts = {} THEN "merged" ELSE "pending-review"

MergeOutcome == IF op.conflicts = {} /\ op.errors = {} THEN "merged" ELSE "pending-review"

MergeDone ==
  /\ op.pc = "merge"
  /\ op.todo = {}
  /\ Save(Moved(RecordAttribution(Roots), op.route, MergeOutcome))
  /\ op' = Idle
  /\ UNCHANGED <<branches, control, faults>>

\* An exception nobody catches: fingerprinting the outer branch before the
\* merge, or its status after it, when the records of some roots are already
\* in memory.  The route stays frozen; recover() takes the session down.
EndRaises(roots) ==
  /\ \/ op.pc = "before" /\ roots = {}
     \/ op.pc = "merge" /\ op.todo = {}
  /\ Fault
  /\ mem' = RecordAttribution(roots)
  /\ op' = Idle
  /\ IF op.main THEN phase' = "failed" /\ disk' = mem'
                ELSE UNCHANGED <<phase, disk>>
  /\ UNCHANGED <<branches, drain, waiting, status, restarts>>

-----------------------------------------------------------------------------
(* The supervisor's main thread.                                           *)

Recovering == phase \in {"starting", "draining"} /\ ~op.main

\* recover(): looks at the next route without the lock.  An interrupted
\* provisioning is given up even if a handler is still at it.
RecoverNext(r) ==
  /\ Recovering
  /\ waiting = None
  /\ r \in drain
  /\ drain' = drain \ {r}
  /\ IF State(r) \in {"active", "quiescing", "frozen"}
     THEN waiting' = r /\ UNCHANGED <<mem, disk>>
     ELSE /\ UNCHANGED waiting
          /\ IF State(r) = "provisioning" THEN Save(Moved(mem, r, "pending-review"))
                                          ELSE UNCHANGED <<mem, disk>>
  /\ UNCHANGED <<branches, op, phase, status, restarts, faults>>

\* end_workspace_session with the lock held: by key, the state may have changed.
RecoverEnd ==
  /\ Recovering
  /\ waiting # None
  /\ op.pc = "idle"
  /\ waiting' = None
  /\ LET live == Live(mem.route[waiting].key) IN
       \/ live = {} /\ UNCHANGED <<mem, disk, op>>
       \/ \E r \in live : Save(Quiesced(mem, r)) /\ op' = EndOf(r, TRUE)
  /\ UNCHANGED <<branches, phase, drain, status, restarts, faults>>

Drained == Recovering /\ drain = {} /\ waiting = None

\* reset_agent_workspaces, then the control server and the agent start.
Started ==
  /\ phase = "starting"
  /\ Drained
  /\ phase' = "running"
  /\ Save([mem EXCEPT !.granted = [k \in Keys |-> {}]])
  /\ UNCHANGED <<branches, op, drain, waiting, status, restarts, faults>>

\* Routes recover() has to look at.
ToRecover(m) == {r \in Routes : m.route[r].state # "absent"}

AgentExit ==
  /\ phase = "running"
  /\ phase' = "draining"
  /\ drain' = ToRecover(mem)
  /\ bound' = {}
  /\ UNCHANGED <<mem, disk, child, mounted, delta, outer, base, snap, op,
                 waiting, status, restarts, faults>>

\* finalize_session freezes the outer branch and asks for its status.
FreezeOuter ==
  /\ phase = "draining"
  /\ Drained
  /\ phase' = "finalizing"
  /\ status' = OuterChanges
  /\ Save(mem)
  /\ UNCHANGED <<branches, op, drain, waiting, restarts, faults>>

\* _route_reconciliation.
Authorized(p) == mem.path[p].category = "attributed" /\ mem.path[p].fingerprint = outer[p]

Mutated(p) == mem.path[p].category = "attributed" /\ mem.path[p].fingerprint # outer[p]

\* Mutant: unresolved routes do not block.
BlockedByPaths ==
  \E p \in status : \/ Mutated(p)
                    \/ mem.path[p].category \in
                         {"conflicted", "multiply-influenced", "attributed-out-of-scope"}

Blocked ==
  \/ \E p \in status : \/ Mutated(p)
                       \/ mem.path[p].category \in
                            {"conflicted", "multiply-influenced", "attributed-out-of-scope"}
  \/ \E r \in Routes : State(r) \in Unresolved

Reconciled == [mem EXCEPT !.path = [p \in Paths |->
                 IF p \in status /\ Mutated(p)
                 THEN [mem.path[p] EXCEPT !.category = "conflicted-after-merge"]
                 ELSE mem.path[p]]]

Allowed == {p \in status : Authorized(p)} \cup Scope \cup UNION {mem.granted[k] : k \in Keys}

Automatic == ~Blocked /\ status \subseteq Allowed

\* The process ends here, and a handler's operation with it.
Conclude ==
  /\ phase \in {"finalizing", "finishing"}
  /\ \/ /\ Automatic
        /\ base' = [p \in Paths |-> IF p \in status THEN outer[p] ELSE base[p]]
        /\ outer' = [p \in Paths |-> {}]
        /\ phase' = "auto-committed"
     \/ \* also when an admitted root or an underlay parent changed identity
        /\ UNCHANGED <<base, outer>>
        /\ phase' = "pending-review"
  /\ Save(Reconciled)
  /\ op' = Idle
  /\ UNCHANGED <<child, mounted, delta, bound, snap, drain, waiting, status, restarts, faults>>

\* The supervisor dies, and the agent with it (bwrap --die-with-parent).  Once
\* it is finalizing, neither resume nor finish accepts the session any more.
\* A reboot also takes the mounts of the nested branches.
Crash ==
  /\ phase \in {"starting", "running", "draining"}
  /\ restarts < MaxRestarts
  /\ phase' = "crashed"
  /\ op' = Idle
  /\ drain' = {}
  /\ waiting' = None
  /\ bound' = {}
  /\ \E left \in {mounted, [r \in Routes |-> {}]} : mounted' = left
  /\ UNCHANGED <<mem, disk, child, delta, outer, base, snap, status, restarts, faults>>

\* resume_session: the manager loads what was saved and recovers first.
Resume ==
  /\ phase \in {"crashed", "failed", "pending-review"}
  /\ restarts < MaxRestarts
  /\ restarts' = restarts + 1
  /\ mem' = disk
  /\ phase' = "starting"
  /\ drain' = ToRecover(disk)
  /\ waiting' = None
  /\ status' = {}
  /\ UNCHANGED <<disk, branches, op, faults>>

\* ccc-agent finish on a dead session: finalize_session in a process of its
\* own, without recover() and without a control server.
Finish ==
  /\ phase = "crashed"
  /\ mem' = disk
  /\ phase' = "finishing"
  /\ status' = OuterChanges
  /\ UNCHANGED <<disk, branches, op, drain, waiting, restarts, faults>>

-----------------------------------------------------------------------------
Agent ==
  \/ \E r \in Routes : Lookup(r)
  \/ \E r \in Routes, p \in Paths : RoutedWrite(r, p)
  \/ \E p \in Paths : OuterWrite(p)
  \/ \E p \in Paths : TurnCommit(p)

Request ==
  \/ \E k \in Keys, a \in Admissions : \/ \E r \in Routes : ProvisionNew(k, a, r)
                                       \/ ProvisionRaises(k, a)
                                       \/ ProvisionAgain(k, a)
  \/ \E k \in Keys : EndSession(k)

\* The operation in progress, of a handler or of recover().
Work ==
  \/ \E made \in SUBSET Roots : \E kept \in SUBSET made : ProvisionFails(made, kept)
  \/ CreateChild \/ Activate
  \/ FreezeChild \/ Snapshot \/ RouteFrozen \/ QuiesceFails \/ Reload
  \/ BeforeMerge \/ MergeRoot \/ MergeFails \/ MergeDone
  \/ \E roots \in SUBSET Roots : EndRaises(roots)

Main ==
  \/ \E r \in Routes : RecoverNext(r)
  \/ RecoverEnd \/ Started \/ FreezeOuter \/ Conclude

Next ==
  \/ Agent \/ Request \/ Work \/ Main
  \/ AgentExit \/ Crash \/ Resume \/ Finish

Spec == Init /\ [][Next]_vars

\* Threads of a living process are scheduled; a fast backend call returns.
FairSpec == Spec /\ WF_vars(Work) /\ WF_vars(Main)

-----------------------------------------------------------------------------
\* What the lookups rely on: while the control server serves the agent, every
\* nested branch of an active route is open and mounted, whatever part of an
\* earlier provisioning or end failed, crashed or was recovered.
ActiveRoutesAreServed ==
  phase = "running" =>
    \A r \in Routes : State(r) = "active" =>
      \A n \in Roots : child[r][n] = "open" /\ n \in mounted[r]

\* A route is recorded as merged only if the nested branch of every root was
\* merged into the outer branch, also when an end was interrupted and replayed.
MergedMeansEveryRoot ==
  \A r \in Routes : mem.route[r].state = "merged" \/ disk.route[r].state = "merged"
    => \A n \in Roots : child[r][n] = "merged"

\* _route_for_workspace never meets two live routes of one workspace session,
\* which it answers with an exception, although recover() changes route states
\* without the lock.
OneLiveRoutePerKey ==
  \A r, x \in Routes :
    r # x /\ State(r) \in Unresolved /\ State(x) \in Unresolved
      => mem.route[r].key # mem.route[x].key

Closes == phase # "auto-committed" /\ phase' = "auto-committed"

\* When a session ends without review its outer branch is discarded: by then
\* every routed write has been merged into it, and all of it was decided on and
\* applied.
NoRoutedWriteLost ==
  [][Closes => /\ \A r \in Routes : \A p \in delta[r] : child[r][RootOf[p]] = "merged"
               /\ \A p \in Paths : outer[p] # {} => p \in status /\ base'[p] = outer[p]]_vars

\* A path outside of every scope is applied without review only if a route wrote
\* it below the roots admitted for it and no other route's snapshot lists it,
\* whatever was overwritten, removed, overlooked or replayed in between.
AppliedIsAttributed ==
  [][Closes => \A p \in status \ (Scope \cup UNION {mem.granted[k] : k \in Keys}) :
       \E r \in Routes : /\ p \in delta[r] \cap mem.route[r].admitted
                        /\ \A x \in Routes : p \in snap[x] => x = r]_vars

\* What docs/session-delta-routing.md says of such a path: it has the content
\* that one route gave it; a shared outer change of it, or one after the merge,
\* forces a review.
AppliedIsRoutesOwn ==
  [][Closes => \A p \in status \ (Scope \cup UNION {mem.granted[k] : k \in Keys}) :
       \E r \in Routes : outer[p] = {r} /\ p \in mem.route[r].admitted]_vars

\* After the agent exited the supervisor comes to a conclusion: recover() and a
\* handler that is still at work do not block each other.
ExitIsConcluded ==
  phase = "draining" ~> phase \in {"auto-committed", "pending-review", "failed", "crashed"}

=============================================================================
