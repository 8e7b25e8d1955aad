-------------------------- MODULE DeltaRoutesProofs --------------------------
(***************************************************************************)
(* Proofs about DeltaRoutes, for any number of routes, workspace sessions,  *)
(* roots and paths, any number of failing calls and restarts.               *)
(***************************************************************************)
EXTENDS DeltaRoutes, TLAPS

-----------------------------------------------------------------------------
(* The inductive invariant, in four layers.                                *)

\* Route states are always on disk, and each step of an operation knows the
\* state of its route; recover() disturbs only a provisioning.
Operations ==
  /\ mem.route = disk.route
  /\ op.pc = "idle" => op = Idle
  /\ op.pc # "idle" => op.route \in Routes
  /\ op.pc = "create" => State(op.route) \in {"provisioning", "pending-review"} /\ ~op.main
  /\ op.pc \in {"freeze", "unmount"} => State(op.route) = "quiescing"
  /\ op.pc \in {"reload", "before", "merge"} => State(op.route) = "frozen"
  /\ phase \notin {"starting", "running", "draining", "finalizing"} => op.pc = "idle"
  /\ phase = "starting" => op.pc = "idle" \/ op.main
  /\ phase = "running" => ~op.main
  /\ phase = "finalizing" => drain = {} /\ waiting = None /\ ~op.main

Served(r) == \A n \in Roots : child[r][n] = "open" /\ n \in mounted[r]

\* What the nested branches look like in each state of a route.
Branches ==
  /\ \A r \in Routes : State(r) = "active" /\ Serving => Served(r)
  /\ \A r \in Routes : State(r) = "active" /\ phase = "starting" => r \in drain \/ r = waiting
  /\ \A r \in Routes : State(r) = "frozen" => \A n \in Roots : child[r][n] \in {"frozen", "merged"}
  /\ \A r \in Routes : State(r) = "merged" => \A n \in Roots : child[r][n] = "merged"
  /\ op.pc = "create" => \A n \in Roots \ op.todo :
                           child[op.route][n] = "open" /\ n \in mounted[op.route]
  /\ op.pc = "freeze" => \A n \in Roots \ op.todo : child[op.route][n] = "frozen"
  /\ op.pc = "unmount" => \A n \in Roots : child[op.route][n] = "frozen"
  /\ op.pc = "merge" => \A n \in Roots \ op.todo :
                          n \in op.errors \/ child[op.route][n] = "merged"

\* A route nobody can have written to.
Fresh(r) == \/ State(r) \in {"absent", "provisioning", "failed"}
            \/ op.pc = "create" /\ op.route = r

\* A route recover() will end, is ending, or has dealt with.
Placed(r) == \/ r \in drain
             \/ r = waiting
             \/ op.main /\ op.route = r
             \/ State(r) \in {"merged", "pending-review"}

\* Where routed writes are, and that the decided status lists what is there.
Deltas ==
  /\ \A r \in Routes : Fresh(r) => delta[r] = {} /\ r \notin bound
  /\ phase # "running" => bound = {}
  /\ phase \in {"draining", "finalizing"} => \A r \in Routes : delta[r] # {} => Placed(r)
  /\ phase \in {"finalizing", "finishing"} => \A p \in Paths : outer[p] # {} => p \in status

\* A route whose admission no request can change any more.
Settled(r) == /\ r \in Routes
              /\ State(r) \in {"frozen", "merged", "pending-review"}
              /\ ~(op.pc = "create" /\ op.route = r)

\* What an attribution rests on, in memory or on disk.
Owned(path) ==
  \A p \in Paths :
    /\ \A r \in path[p].ids : Settled(r)
    /\ path[p].category = "attributed" =>
         \E r \in Routes : /\ path[p].ids = {r}
                           /\ p \in delta[r]
                           /\ p \in mem.route[r].admitted

\* A snapshot lists only what was written into the branches of its route, and
\* there is none of a route nobody can have written to.
Snapshots ==
  \A r \in Routes : snap[r] \subseteq delta[r] /\ (Fresh(r) => snap[r] = {})

\* A merged route is named by the attribution of every path of its snapshot.
Named(path) ==
  \A r \in Routes : State(r) = "merged" => \A p \in snap[r] : r \in path[p].ids

Sound(path) == Owned(path) /\ Named(path)

Owners == Sound(mem.path) /\ Sound(disk.path) /\ Snapshots

-----------------------------------------------------------------------------
(* What the operators on the record and on the operation return.           *)

\* Moving a route (DeltaRoute.transition) changes its state and nothing else.
LEMMA MovedFacts ==
  ASSUME NEW m \in Record, NEW r \in Routes, NEW s \in RouteStates
  PROVE  /\ Moved(m, r, s) \in Record
         /\ Moved(m, r, s).path = m.path
         /\ Moved(m, r, s).granted = m.granted
         /\ \A x \in Routes : /\ Moved(m, r, s).route[x].key = m.route[x].key
                              /\ Moved(m, r, s).route[x].admitted = m.route[x].admitted
                              /\ Moved(m, r, s).route[x].state =
                                   IF x = r THEN s ELSE m.route[x].state
  BY DEF Moved, Record, RouteRecord

\* Granting roots to a workspace session touches neither routes nor attributions.
LEMMA GrantedFacts ==
  ASSUME TypeOK, NEW k \in Keys, NEW a \in SUBSET Paths
  PROVE  /\ Granted(k, a) \in Record
         /\ Granted(k, a).path = mem.path
         /\ Granted(k, a).route = mem.route
  BY DEF Granted, Record, TypeOK

\* Quiescing a route of a record that agrees with memory on routes.
LEMMA QuiescedFacts ==
  ASSUME TypeOK, NEW m \in Record, m.route = mem.route, NEW r \in Routes
  PROVE  /\ Quiesced(m, r) \in Record
         /\ Quiesced(m, r).path = m.path
         /\ \A x \in Routes : /\ Quiesced(m, r).route[x].key = mem.route[x].key
                              /\ Quiesced(m, r).route[x].admitted = mem.route[x].admitted
                              /\ Quiesced(m, r).route[x].state =
                                   IF x = r /\ State(r) = "active" THEN "quiescing" ELSE State(x)
<1>1. CASE State(r) = "active"
  <2>1. "quiescing" \in RouteStates
    BY DEF RouteStates
  <2>2. Quiesced(m, r) = Moved(m, r, "quiescing")
    BY <1>1 DEF Quiesced
  <2> QED
    BY <1>1, <2>1, <2>2, MovedFacts DEF State
<1>2. CASE State(r) # "active"
  BY <1>2 DEF Quiesced, State
<1> QED
  BY <1>1, <1>2

\* Refreshing an active route replaces its admission.
LEMMA RefreshedFacts ==
  ASSUME TypeOK, NEW m \in Record, m.route = mem.route,
         NEW r \in Routes, NEW a \in SUBSET Paths
  PROVE  /\ Refreshed(m, r, a) \in Record
         /\ Refreshed(m, r, a).path = m.path
         /\ \A x \in Routes : /\ Refreshed(m, r, a).route[x].key = mem.route[x].key
                              /\ Refreshed(m, r, a).route[x].state = State(x)
                              /\ State(x) # "active" =>
                                   Refreshed(m, r, a).route[x].admitted = mem.route[x].admitted
  BY DEF Refreshed, State, Record, RouteRecord

\* Where end_workspace_session enters.
LEMMA EndOfFacts ==
  ASSUME TypeOK, NEW r \in Routes, NEW main \in BOOLEAN
  PROVE  /\ EndOf(r, main) \in Operation
         /\ State(r) \in {"active", "quiescing"} =>
              /\ EndOf(r, main).pc = "freeze"
              /\ EndOf(r, main).route = r
              /\ EndOf(r, main).main = main
              /\ EndOf(r, main).todo = Roots
         /\ State(r) = "frozen" =>
              /\ EndOf(r, main).pc = "reload"
              /\ EndOf(r, main).route = r
              /\ EndOf(r, main).main = main
         /\ State(r) \notin {"active", "quiescing", "frozen"} => EndOf(r, main) = Idle
<1>1. CASE State(r) \in {"active", "quiescing"}
  <2>1. EndOf(r, main) = [Idle EXCEPT !.pc = "freeze", !.route = r, !.main = main, !.todo = Roots]
    BY <1>1 DEF EndOf
  <2> QED
    BY <1>1, <2>1 DEF Idle, Operation, Steps
<1>2. CASE State(r) = "frozen"
  <2>1. EndOf(r, main) = [Idle EXCEPT !.pc = "reload", !.route = r, !.main = main]
    BY <1>2 DEF EndOf
  <2> QED
    BY <1>2, <2>1 DEF Idle, Operation, Steps
<1>3. CASE State(r) \notin {"active", "quiescing", "frozen"}
  BY <1>3 DEF EndOf, Idle, Operation, Steps
<1> QED
  BY <1>1, <1>2, <1>3

\* The operation at rest is an operation.
LEMMA IdleFacts == Idle \in Operation /\ Idle.pc = "idle" /\ Idle.main = FALSE
  BY DEF Idle, Operation, Steps

\* _record_attribution changes attributions only.
LEMMA AttributionFacts ==
  ASSUME RoutesAssumption, TypeOK, op.route \in Routes, NEW roots \in SUBSET Roots
  PROVE  /\ RecordAttribution(roots) \in Record
         /\ RecordAttribution(roots).route = mem.route
         /\ RecordAttribution(roots).granted = mem.granted
         /\ \A p \in Paths : RecordAttribution(roots).path[p] =
              IF p \in snap[op.route] /\ RootOf[p] \in roots
              THEN [category    |-> Category(p),
                    ids         |-> mem.path[p].ids \cup {op.route},
                    fingerprint |-> IF Conflict(p) THEN {} ELSE outer[p]]
              ELSE mem.path[p]
<1>1. \A p \in Paths : Category(p) \in Categories
  BY DEF Category, Categories
<1>2. \A p \in Paths : mem.path[p] \in Attribution /\ outer[p] \in SUBSET Writers
  BY DEF TypeOK, Record
<1> DEFINE new == [p \in Paths |->
     IF p \in snap[op.route] /\ RootOf[p] \in roots
     THEN [category    |-> Category(p),
           ids         |-> mem.path[p].ids \cup {op.route},
           fingerprint |-> IF Conflict(p) THEN {} ELSE outer[p]]
     ELSE mem.path[p]]
<1>3. new \in [Paths -> Attribution]
  BY <1>1, <1>2 DEF Attribution
<1>4. RecordAttribution(roots) = [mem EXCEPT !.path = new]
  BY DEF RecordAttribution
<1>5. mem \in Record
  BY DEF TypeOK
<1> HIDE DEF new
<1>6. /\ RecordAttribution(roots) \in Record
      /\ RecordAttribution(roots).route = mem.route
      /\ RecordAttribution(roots).granted = mem.granted
      /\ RecordAttribution(roots).path = new
  BY <1>3, <1>4, <1>5 DEF Record
<1> QED
  BY <1>6 DEF new

\* Reconciliation withdraws attributions and changes nothing else.
LEMMA ReconciledFacts ==
  ASSUME TypeOK
  PROVE  /\ Reconciled \in Record
         /\ Reconciled.route = mem.route
         /\ \A p \in Paths : /\ Reconciled.path[p].ids = mem.path[p].ids
                             /\ Reconciled.path[p].fingerprint = mem.path[p].fingerprint
                             /\ Reconciled.path[p].category = "attributed" =>
                                  mem.path[p].category = "attributed"
<1> DEFINE new == [p \in Paths |->
                 IF p \in status /\ Mutated(p)
                 THEN [mem.path[p] EXCEPT !.category = "conflicted-after-merge"]
                 ELSE mem.path[p]]
<1>1. \A p \in Paths : mem.path[p] \in Attribution
  BY DEF TypeOK, Record
<1>2. /\ new \in [Paths -> Attribution]
      /\ \A p \in Paths : /\ new[p].ids = mem.path[p].ids
                          /\ new[p].fingerprint = mem.path[p].fingerprint
                          /\ new[p].category = "attributed" => mem.path[p].category = "attributed"
  BY <1>1 DEF Attribution, Categories
<1>3. Reconciled = [mem EXCEPT !.path = new] /\ mem \in Record
  BY DEF Reconciled, TypeOK
<1> HIDE DEF new
<1> QED
  BY <1>2, <1>3 DEF Record

-----------------------------------------------------------------------------
(* First layer: types and operations.                                      *)

Base == TypeOK /\ Operations

\* The root an operation takes next is one of those it still has to do.
LEMMA NextRootFacts ==
  ASSUME TypeOK, op.todo # {}
  PROVE  NextRoot \in op.todo /\ NextRoot \in Roots
  BY DEF NextRoot, TypeOK, Operation

\* Initially the types are right and nothing is in progress.
LEMMA BaseInit == Init => Base
  BY RoutesAssumption, IdleFacts
  DEF Init, Base, TypeOK, Operations, Record, RouteRecord, RouteStates, Attribution,
      Categories, NoAttribution, Phases, Idle

\* What agents do leaves records and operations alone.
LEMMA BaseAgent ==
  ASSUME Base, Agent
  PROVE  Base'
<1>1. ASSUME NEW r \in Routes, Lookup(r) PROVE Base'
  BY <1>1 DEF Base, TypeOK, Operations, State, Lookup, control
<1>2. ASSUME NEW r \in Routes, NEW p \in Paths, RoutedWrite(r, p) PROVE Base'
  BY <1>2 DEF Base, TypeOK, Operations, State, RoutedWrite, control
<1>3. ASSUME NEW p \in Paths, OuterWrite(p) PROVE Base'
  BY <1>3 DEF Base, TypeOK, Operations, State, OuterWrite, control, Writers
<1>4. ASSUME NEW p \in Paths, TurnCommit(p) PROVE Base'
  BY <1>4 DEF Base, TypeOK, Operations, State, TurnCommit, control, Save
<1> QED
  BY <1>1, <1>2, <1>3, <1>4 DEF Agent

\* A request starts an operation on a route whose state fits it.
LEMMA BaseRequest ==
  ASSUME Base, Request
  PROVE  Base'
<1> USE RoutesAssumption DEF Base
<1>0. Admissions \subseteq SUBSET Paths
  OBVIOUS
<1>1. ASSUME NEW k \in Keys, NEW a \in Admissions, NEW r \in Routes, ProvisionNew(k, a, r)
      PROVE  Base'
  <2> DEFINE new == [state |-> "provisioning", key |-> k, admitted |-> a]
  <2>1. new \in RouteRecord
    BY DEF RouteRecord, RouteStates
  <2>2. mem' \in Record /\ mem'.route = [mem.route EXCEPT ![r] = new] /\ mem'.path = mem.path
    <3>1. Granted(k, a) \in Record /\ Granted(k, a).path = mem.path /\ Granted(k, a).route = mem.route
      BY GrantedFacts
    <3>2. mem' = [Granted(k, a) EXCEPT !.route[r] = new]
      BY <1>1 DEF ProvisionNew, Save
    <3> HIDE DEF new
    <3> QED
      BY <3>1, <3>2, <2>1 DEF Record
  <2>3. disk' = mem' /\ op' = [Idle EXCEPT !.pc = "create", !.route = r, !.todo = Roots]
    BY <1>1 DEF ProvisionNew, Save
  <2>4. op' \in Operation /\ op'.pc = "create" /\ op'.route = r /\ op'.main = FALSE
    BY <2>3 DEF Idle, Operation, Steps
  <2>5. TypeOK'
    BY <1>1, <2>2, <2>3, <2>4 DEF TypeOK, ProvisionNew, branches, control
  <2>6. State(r)' = "provisioning"
    BY <2>2 DEF State, TypeOK, Record
  <2>7. phase \in {"running", "draining", "finalizing"}
    BY <1>1 DEF ProvisionNew, Serving
  <2> QED
    BY <1>1, <2>3, <2>4, <2>5, <2>6, <2>7 DEF Operations, ProvisionNew, control
<1>2. ASSUME NEW k \in Keys, NEW a \in Admissions, ProvisionRaises(k, a)
      PROVE  Base'
  BY <1>2, GrantedFacts
  DEF ProvisionRaises, Save, Fault, TypeOK, Operations, State, branches, control
<1>3. ASSUME NEW k \in Keys, NEW a \in Admissions, ProvisionAgain(k, a)
      PROVE  Base'
  <2>1. PICK r \in Live(k) : Save(Refreshed(Granted(k, a), r, a))
    BY <1>3 DEF ProvisionAgain
  <2>2. r \in Routes
    BY <2>1 DEF Live
  <2>3. /\ mem' \in Record
        /\ disk' = mem'
        /\ \A x \in Routes : mem'.route[x].state = State(x)
    BY <2>1, <2>2, GrantedFacts, RefreshedFacts DEF Save
  <2> QED
    BY <1>3, <2>3 DEF ProvisionAgain, TypeOK, Operations, State, branches, control
<1>4. ASSUME NEW k \in Keys, EndSession(k)
      PROVE  Base'
  <2>1. CASE Save(Granted(k, {})) /\ UNCHANGED op
    BY <1>4, <2>1, GrantedFacts
    DEF EndSession, Save, TypeOK, Operations, State, branches, control
  <2>2. ASSUME NEW r \in Live(k), Save(Quiesced(Granted(k, {}), r)), op' = EndOf(r, FALSE)
        PROVE  Base'
    <3>1. r \in Routes
      BY DEF Live
    <3>2. Granted(k, {}) \in Record /\ Granted(k, {}).route = mem.route
      BY GrantedFacts
    <3>3. /\ mem' \in Record
          /\ disk' = mem'
          /\ State(r)' = IF State(r) = "active" THEN "quiescing" ELSE State(r)
      BY <2>2, <3>1, <3>2, QuiescedFacts DEF Save, State
    <3>4. op' \in Operation
      BY <2>2, <3>1, EndOfFacts
    <3>5. \/ State(r)' = "quiescing" /\ op'.pc = "freeze" /\ op'.route = r /\ op'.main = FALSE
          \/ State(r)' = "frozen" /\ op'.pc = "reload" /\ op'.route = r /\ op'.main = FALSE
          \/ op' = Idle
      BY <2>2, <3>1, <3>3, EndOfFacts
    <3>6. phase \in {"running", "draining", "finalizing"}
      BY <1>4 DEF EndSession, Serving
    <3>7. TypeOK'
      BY <1>4, <3>3, <3>4 DEF EndSession, TypeOK, branches, control
    <3> QED
      BY <1>4, <3>1, <3>3, <3>5, <3>6, <3>7, IdleFacts DEF EndSession, Operations, control
  <2> QED
    BY <1>4, <2>1, <2>2 DEF EndSession
<1> QED
  BY <1>1, <1>2, <1>3, <1>4 DEF Request

\* A step of an operation moves its route along with it.
LEMMA BaseWork ==
  ASSUME Base, Work
  PROVE  Base'
<1> USE RoutesAssumption DEF Base
<1>0. mem \in Record /\ disk \in Record /\ op \in Operation /\ (op.pc # "idle" => op.route \in Routes)
  BY DEF TypeOK, Operations
<1>1. ASSUME NEW s \in RouteStates, op.route \in Routes, Save(Moved(mem, op.route, s))
      PROVE  mem' \in Record /\ disk' = mem' /\ mem'.route[op.route].state = s
  BY <1>0, <1>1, MovedFacts DEF Save, State
<1>2. {"active", "failed", "pending-review", "frozen", "merged"} \subseteq RouteStates
  BY DEF RouteStates
<1>3. CASE CreateChild
  <2>1. op.route \in Routes /\ NextRoot \in Roots
    BY <1>0, <1>3, NextRootFacts DEF CreateChild
  <2>2. op' \in Operation /\ op'.pc = "create" /\ op'.route = op.route /\ op'.main = op.main
    BY <1>0, <1>3 DEF CreateChild, Operation
  <2>3. /\ child' \in [Routes -> [Roots -> {"none", "open", "frozen", "merged", "aborted"}]]
        /\ mounted' \in [Routes -> SUBSET Roots]
    BY <1>3, <2>1 DEF CreateChild, TypeOK
  <2> QED
    BY <1>0, <1>3, <2>2, <2>3 DEF CreateChild, TypeOK, Operations, State, control
<1>4. CASE Activate
  BY <1>0, <1>1, <1>2, <1>4, IdleFacts
  DEF Activate, TypeOK, Operations, branches, control
<1>5. ASSUME NEW made \in SUBSET Roots, NEW kept \in SUBSET made, ProvisionFails(made, kept)
      PROVE  Base'
  <2>1. mem' \in Record /\ disk' = mem'
    BY <1>0, <1>1, <1>2, <1>5 DEF ProvisionFails
  <2>2. /\ child' \in [Routes -> [Roots -> {"none", "open", "frozen", "merged", "aborted"}]]
        /\ mounted' \in [Routes -> SUBSET Roots]
    BY <1>0, <1>5 DEF ProvisionFails, TypeOK
  <2> QED
    BY <1>5, <2>1, <2>2, IdleFacts
    DEF ProvisionFails, Fault, TypeOK, Operations, control
<1>6. CASE FreezeChild
  BY <1>0, <1>6, NextRootFacts
  DEF FreezeChild, TypeOK, Operations, Operation, State, control
<1>7. CASE Snapshot
  <2>1. PICK listed \in SUBSET delta[op.route] :
          Report(listed, delta[op.route]) /\ snap' = [snap EXCEPT ![op.route] = listed]
    BY <1>7 DEF Snapshot
  <2>2. faults' \in Nat /\ snap' \in [Routes -> SUBSET Paths]
    BY <1>0, <1>7, <2>1 DEF Report, Fault, TypeOK, Snapshot
  <2> QED
    BY <1>0, <1>7, <2>2
    DEF Snapshot, TypeOK, Operations, Operation, Steps, State, control
<1>8. CASE RouteFrozen
  <2>1. mem' \in Record /\ disk' = mem' /\ mem'.route[op.route].state = "frozen"
    BY <1>0, <1>1, <1>2, <1>8 DEF RouteFrozen
  <2>2. op' \in Operation /\ op'.pc = "before" /\ op'.route = op.route /\ op'.main = op.main
    BY <1>0, <1>8 DEF RouteFrozen, Operation, Steps
  <2>3. mounted' \in [Routes -> SUBSET Roots]
    BY <1>8 DEF RouteFrozen, TypeOK
  <2> QED
    BY <1>0, <1>8, <2>1, <2>2, <2>3 DEF RouteFrozen, TypeOK, Operations, State, control
<1>9. CASE QuiesceFails
  BY <1>0, <1>1, <1>2, <1>9, IdleFacts
  DEF QuiesceFails, Fault, TypeOK, Operations, branches, control
<1>10. CASE Reload
  BY <1>0, <1>10
  DEF Reload, TypeOK, Operations, Operation, Steps, State, branches, control
<1>11. CASE BeforeMerge
  <2>1. PICK listed \in SUBSET OuterChanges :
          /\ Report(listed, OuterChanges)
          /\ op' = [op EXCEPT !.pc = "merge", !.todo = Roots, !.before = listed]
    BY <1>11 DEF BeforeMerge
  <2>2. faults' \in Nat
    BY <2>1 DEF Report, Fault, TypeOK
  <2>3. /\ op' \in Operation /\ op'.pc = "merge" /\ op'.route = op.route /\ op'.main = op.main
    BY <1>0, <2>1 DEF Operation, Steps, OuterChanges, TypeOK
  <2> QED
    BY <1>0, <1>11, <2>2, <2>3
    DEF BeforeMerge, TypeOK, Operations, State, branches, control
<1>12. CASE MergeRoot
  <2>1. PICK conflicts \in SUBSET Both(NextRoot) :
          /\ \E mixed \in SUBSET Both(NextRoot) : outer' = Merged(NextRoot, conflicts, mixed)
          /\ op' = [op EXCEPT !.todo = @ \ {NextRoot}, !.conflicts = @ \cup conflicts]
    BY <1>12 DEF MergeRoot
  <2>2. outer' \in [Paths -> SUBSET Writers]
    BY <1>0, <1>12, <2>1 DEF Merged, MergeRoot, Writers, TypeOK
  <2>3. conflicts \subseteq Paths
    BY <1>0, <1>12 DEF Both, Here, TypeOK, MergeRoot
  <2>4. op' \in Operation /\ op'.pc = "merge" /\ op'.route = op.route /\ op'.main = op.main
    BY <1>0, <1>12, <2>1, <2>3 DEF Operation, MergeRoot
  <2>5. child' \in [Routes -> [Roots -> {"none", "open", "frozen", "merged", "aborted"}]]
    BY <1>0, <1>12, NextRootFacts DEF MergeRoot, TypeOK
  <2> QED
    BY <1>0, <1>12, <2>2, <2>4, <2>5 DEF MergeRoot, TypeOK, Operations, State, control
<1>13. CASE MergeFails
  <2>1. op.route \in Routes /\ NextRoot \in Roots
    BY <1>0, <1>13, NextRootFacts DEF MergeFails
  <2>2. op' \in Operation /\ op'.pc = "merge" /\ op'.route = op.route /\ op'.main = op.main
    BY <1>0, <1>13, <2>1 DEF Operation, MergeFails
  <2>3. Merged(NextRoot, {}, {}) \in [Paths -> SUBSET Writers]
    BY <1>0, <1>13 DEF Merged, MergeFails, Writers, TypeOK
  <2>4. /\ outer' \in [Paths -> SUBSET Writers]
        /\ child' \in [Routes -> [Roots -> {"none", "open", "frozen", "merged", "aborted"}]]
        /\ faults' \in Nat
    <3>1. CASE UNCHANGED <<child, outer>>
      BY <1>13, <3>1 DEF MergeFails, Fault, TypeOK
    <3>2. CASE /\ Fault
               /\ outer' = Merged(NextRoot, {}, {})
               /\ child' = [child EXCEPT ![op.route][NextRoot] = "merged"]
      BY <2>1, <2>3, <3>2 DEF Fault, TypeOK
    <3> QED
      BY <1>13, <3>1, <3>2 DEF MergeFails
  <2> QED
    BY <1>0, <1>13, <2>2, <2>4 DEF MergeFails, TypeOK, Operations, State, control
<1>14. CASE MergeDone
  <2>1. RecordAttribution(Roots) \in Record
    BY <1>0, <1>14, AttributionFacts DEF MergeDone
  <2>2. MergeOutcome \in RouteStates
    BY <1>2 DEF MergeOutcome
  <2>3. mem' \in Record /\ disk' = mem'
    BY <1>0, <1>14, <2>1, <2>2, MovedFacts DEF MergeDone, Save
  <2> QED
    BY <1>14, <2>3, IdleFacts DEF MergeDone, TypeOK, Operations, branches, control
<1>15. ASSUME NEW roots \in SUBSET Roots, EndRaises(roots)
       PROVE  Base'
  <2>1. mem' \in Record /\ mem'.route = mem.route
    BY <1>0, <1>15, AttributionFacts DEF EndRaises
  <2>2. phase' \in Phases /\ disk' \in Record /\ disk'.route = mem'.route
    BY <1>0, <1>15, <2>1 DEF EndRaises, Phases, TypeOK, Operations
  <2> QED
    BY <1>0, <1>15, <2>1, <2>2, IdleFacts DEF EndRaises, Fault, TypeOK, Operations, branches
<1> QED
  BY <1>3, <1>4, <1>5, <1>6, <1>7, <1>8, <1>9, <1>10, <1>11, <1>12, <1>13, <1>14, <1>15 DEF Work

\* The main thread, crashes and restarts.
LEMMA BaseMain ==
  ASSUME Base, Main \/ AgentExit \/ Crash \/ Resume \/ Finish
  PROVE  Base'
<1> USE RoutesAssumption DEF Base
<1>0. mem \in Record /\ disk \in Record /\ op \in Operation
  BY DEF TypeOK
<1>1. ASSUME NEW r \in Routes, RecoverNext(r)
      PROVE  Base'
  <2>1. /\ mem' \in Record
        /\ disk'.route = mem'.route
        /\ disk' \in Record
        /\ \A x \in Routes : State(x)' = IF x = r /\ State(r) = "provisioning"
                                         THEN "pending-review" ELSE State(x)
    <3>1. "pending-review" \in RouteStates
      BY DEF RouteStates
    <3>2. CASE Save(Moved(mem, r, "pending-review")) /\ State(r) = "provisioning"
      BY <1>0, <3>1, <3>2, MovedFacts DEF Save, State
    <3>3. CASE UNCHANGED <<mem, disk>> /\ State(r) # "provisioning"
      BY <1>0, <3>3 DEF State, Operations
    <3> QED
      BY <1>1, <3>2, <3>3 DEF RecoverNext
  <2>2. waiting' \in Routes \cup {None} /\ UNCHANGED <<op, phase>>
    BY <1>1 DEF RecoverNext, TypeOK
  <2>3. phase \in {"starting", "draining"}
    BY <1>1 DEF RecoverNext, Recovering
  <2>4. TypeOK'
    BY <1>1, <2>1, <2>2 DEF RecoverNext, TypeOK, branches
  <2> QED
    BY <1>1, <2>1, <2>2, <2>3, <2>4 DEF Operations
<1>2. CASE RecoverEnd
  <2> DEFINE live == Live(mem.route[waiting].key)
  <2>0. phase \in {"starting", "draining"}
    BY <1>2 DEF RecoverEnd, Recovering
  <2>1. CASE UNCHANGED <<mem, disk, op>>
    BY <1>2, <2>0, <2>1 DEF RecoverEnd, TypeOK, Operations, State, branches
  <2>2. ASSUME NEW r \in live, Save(Quiesced(mem, r)), op' = EndOf(r, TRUE)
        PROVE  Base'
    <3>1. r \in Routes
      BY DEF Live
    <3>3. /\ mem' \in Record
          /\ disk' = mem'
          /\ State(r)' = IF State(r) = "active" THEN "quiescing" ELSE State(r)
      BY <1>0, <2>2, <3>1, QuiescedFacts DEF Save, State
    <3>4. op' \in Operation
      BY <2>2, <3>1, EndOfFacts
    <3>5. \/ State(r)' = "quiescing" /\ op'.pc = "freeze" /\ op'.route = r /\ op'.main = TRUE
          \/ State(r)' = "frozen" /\ op'.pc = "reload" /\ op'.route = r /\ op'.main = TRUE
          \/ op' = Idle
      BY <2>2, <3>1, <3>3, EndOfFacts
    <3>7. TypeOK'
      BY <1>2, <3>3, <3>4 DEF RecoverEnd, TypeOK, branches
    <3> QED
      BY <1>2, <2>0, <3>1, <3>3, <3>5, <3>7, IdleFacts DEF RecoverEnd, Operations
  <2> QED
    BY <1>2, <2>1, <2>2 DEF RecoverEnd
<1>3. CASE Started
  <2>1. mem' \in Record /\ mem'.route = mem.route /\ disk' = mem'
    BY <1>0, <1>3 DEF Started, Save, Record
  <2> QED
    BY <1>3, <2>1 DEF Started, Drained, Recovering, TypeOK, Operations, State, branches, Phases
<1>4. CASE AgentExit
  BY <1>4 DEF AgentExit, TypeOK, Operations, State, Phases, ToRecover
<1>5. CASE FreezeOuter
  BY <1>5 DEF FreezeOuter, OuterChanges, Save, Drained, Recovering, TypeOK, Operations, State, Phases, branches
<1>6. CASE Conclude
  <2>1. mem' \in Record /\ disk' = mem'
    BY <1>6, ReconciledFacts DEF Conclude, Save
  <2>2. /\ base' \in [Paths -> SUBSET Writers]
        /\ outer' \in [Paths -> SUBSET Writers]
        /\ phase' \in {"auto-committed", "pending-review"}
    BY <1>6 DEF Conclude, TypeOK
  <2>3. UNCHANGED <<child, mounted, delta, bound, snap, drain, waiting, status, restarts, faults>>
        /\ op' = Idle
    BY <1>6 DEF Conclude
  <2> QED
    BY <2>1, <2>2, <2>3, IdleFacts DEF TypeOK, Operations, Phases
<1>7. CASE Crash
  BY <1>7, IdleFacts DEF Crash, TypeOK, Operations, Phases
<1>8. CASE Resume
  BY <1>0, <1>8, IdleFacts DEF Resume, TypeOK, Operations, State, Phases, ToRecover, branches
<1>9. CASE Finish
  BY <1>0, <1>9, IdleFacts DEF Finish, OuterChanges, TypeOK, Operations, State, Phases, branches
<1> QED
  BY <1>1, <1>2, <1>3, <1>4, <1>5, <1>6, <1>7, <1>8, <1>9 DEF Main

\* The first layer is inductive.
LEMMA BaseStep == Base /\ [Next]_vars => Base'
<1>1. Base /\ UNCHANGED vars => Base'
  BY DEF Base, TypeOK, Operations, State, vars
<1> QED
  BY <1>1, BaseAgent, BaseRequest, BaseWork, BaseMain DEF Next

\* Every reachable state of the route manager is well typed.
THEOREM TypeCorrectness == Spec => []TypeOK
<1>1. Base => TypeOK
  BY DEF Base
<1> QED
  BY <1>1, BaseInit, BaseStep, PTL DEF Spec

-----------------------------------------------------------------------------
(* What each step does to the routes of the record.                        *)

\* Route r moves to state t; no other route changes.
Only(r, t) ==
  \A x \in Routes : /\ mem'.route[x].key = mem.route[x].key
                    /\ mem'.route[x].admitted = mem.route[x].admitted
                    /\ mem'.route[x].state = IF x = r THEN t ELSE mem.route[x].state

\* An operation that ends, and one that froze its route, move that route only.
LEMMA WorkMoves ==
  ASSUME Base
  PROVE  /\ Activate => Only(op.route, "active") /\ mem'.path = mem.path
         /\ \A made, kept : ProvisionFails(made, kept) =>
              /\ Only(op.route, "failed") \/ Only(op.route, "pending-review")
              /\ mem'.path = mem.path
         /\ RouteFrozen => Only(op.route, "frozen") /\ mem'.path = mem.path
         /\ QuiesceFails => Only(op.route, "pending-review") /\ mem'.path = mem.path
         /\ MergeDone => /\ Only(op.route, MergeOutcome)
                         /\ mem'.path = RecordAttribution(Roots).path
<1> USE RoutesAssumption DEF Base
<1>0. mem \in Record /\ (op.pc # "idle" => op.route \in Routes)
  BY DEF TypeOK, Operations
<1>1. ASSUME NEW m \in Record, NEW t \in RouteStates, op.route \in Routes, m.route = mem.route,
             Save(Moved(m, op.route, t))
      PROVE  Only(op.route, t) /\ mem'.path = m.path
  BY <1>1, MovedFacts DEF Save, Only
<1>2. {"active", "failed", "pending-review", "frozen", "merged"} \subseteq RouteStates
  BY DEF RouteStates
<1>3. Activate => Only(op.route, "active") /\ mem'.path = mem.path
  BY <1>0, <1>1, <1>2 DEF Activate
<1>4. ASSUME NEW made, NEW kept, ProvisionFails(made, kept)
      PROVE  /\ Only(op.route, "failed") \/ Only(op.route, "pending-review")
             /\ mem'.path = mem.path
  <2>1. CASE kept = {}
    BY <1>0, <1>1, <1>2, <1>4, <2>1 DEF ProvisionFails
  <2>2. CASE kept # {}
    BY <1>0, <1>1, <1>2, <1>4, <2>2 DEF ProvisionFails
  <2> QED
    BY <2>1, <2>2
<1>5. RouteFrozen => Only(op.route, "frozen") /\ mem'.path = mem.path
  BY <1>0, <1>1, <1>2 DEF RouteFrozen
<1>6. QuiesceFails => Only(op.route, "pending-review") /\ mem'.path = mem.path
  BY <1>0, <1>1, <1>2 DEF QuiesceFails
<1>7. ASSUME MergeDone
      PROVE  Only(op.route, MergeOutcome) /\ mem'.path = RecordAttribution(Roots).path
  <2>1. RecordAttribution(Roots) \in Record /\ RecordAttribution(Roots).route = mem.route
    BY <1>0, <1>7, AttributionFacts DEF MergeDone
  <2>2. MergeOutcome \in RouteStates
    BY <1>2 DEF MergeOutcome
  <2> QED
    BY <1>0, <1>1, <1>7, <2>1, <2>2 DEF MergeDone
<1> QED
  BY <1>3, <1>4, <1>5, <1>6, <1>7

\* A new route gets the key and the admission of the request.
LEMMA NewRoute ==
  ASSUME Base, NEW k \in Keys, NEW a \in Admissions, NEW r \in Routes, ProvisionNew(k, a, r)
  PROVE  /\ mem'.path = mem.path
         /\ mem'.route[r] = [state |-> "provisioning", key |-> k, admitted |-> a]
         /\ \A x \in Routes \ {r} : mem'.route[x] = mem.route[x]
<1> DEFINE new == [state |-> "provisioning", key |-> k, admitted |-> a]
<1>1. a \in SUBSET Paths
  BY RoutesAssumption
<1>2. Granted(k, a) \in Record /\ Granted(k, a).path = mem.path /\ Granted(k, a).route = mem.route
  BY <1>1, GrantedFacts DEF Base
<1>3. mem' = [Granted(k, a) EXCEPT !.route[r] = new]
  BY DEF ProvisionNew, Save
<1> HIDE DEF new
<1>4. /\ mem'.path = mem.path
      /\ mem'.route[r] = new
      /\ \A x \in Routes \ {r} : mem'.route[x] = mem.route[x]
  BY <1>2, <1>3 DEF Record
<1> QED
  BY <1>4 DEF new

\* A repeated request changes at most the admission of an active route.
LEMMA SameRoute ==
  ASSUME Base, NEW k \in Keys, NEW a \in Admissions, ProvisionAgain(k, a)
  PROVE  /\ mem'.path = mem.path
         /\ \A x \in Routes : /\ mem'.route[x].key = mem.route[x].key
                              /\ mem'.route[x].state = mem.route[x].state
                              /\ State(x) # "active" => mem'.route[x].admitted = mem.route[x].admitted
<1>1. a \in SUBSET Paths
  BY RoutesAssumption
<1>2. PICK r \in Live(k) : Save(Refreshed(Granted(k, a), r, a))
  BY DEF ProvisionAgain
<1>3. r \in Routes
  BY DEF Live
<1> QED
  BY <1>1, <1>2, <1>3, GrantedFacts, RefreshedFacts DEF Save, State, Base

\* The end of route r by a handler or by recover().
Ends(r, main) ==
  /\ mem'.path = mem.path
  /\ Only(r, IF State(r) = "active" THEN "quiescing" ELSE State(r))
  /\ \/ State(r) \in {"active", "quiescing"} /\ op'.pc = "freeze" /\ op'.route = r
          /\ op'.main = main /\ op'.todo = Roots
     \/ State(r) = "frozen" /\ op'.pc = "reload" /\ op'.route = r /\ op'.main = main
     \/ State(r) \notin {"active", "quiescing", "frozen"} /\ op' = Idle

\* An end is without effect on routes or quiesces a live route of the key.
LEMMA RequestedEnd ==
  ASSUME Base, NEW k \in Keys, EndSession(k)
  PROVE  /\ disk' = mem'
         /\ \/ mem'.route = mem.route /\ mem'.path = mem.path /\ op' = op
            \/ \E r \in Live(k) : Ends(r, FALSE)
<1>1. Granted(k, {}) \in Record /\ Granted(k, {}).route = mem.route /\ Granted(k, {}).path = mem.path
  BY GrantedFacts DEF Base
<1>2. ASSUME NEW r \in Live(k), Save(Quiesced(Granted(k, {}), r)), op' = EndOf(r, FALSE)
      PROVE  Ends(r, FALSE)
  <2>1. r \in Routes
    BY DEF Live
  <2>2. Only(r, IF State(r) = "active" THEN "quiescing" ELSE State(r)) /\ mem'.path = mem.path
    BY <1>1, <1>2, <2>1, QuiescedFacts DEF Base, Save, Only, State
  <2> QED
    BY <1>2, <2>1, <2>2, EndOfFacts DEF Base, Ends
<1> QED
  BY <1>1, <1>2 DEF EndSession, Save

\* recover() ends a route of the key it read before it had the lock.
LEMMA RecoveredEnd ==
  ASSUME Base, RecoverEnd
  PROVE  /\ waiting \in Routes
         /\ \/ /\ Live(mem.route[waiting].key) = {}
               /\ mem' = mem /\ disk' = disk /\ op' = op
            \/ /\ disk' = mem'
               /\ \E r \in Live(mem.route[waiting].key) : Ends(r, TRUE)
<1>1. waiting \in Routes
  BY DEF RecoverEnd, Base, TypeOK
<1>2. ASSUME NEW r \in Live(mem.route[waiting].key), Save(Quiesced(mem, r)), op' = EndOf(r, TRUE)
      PROVE  Ends(r, TRUE)
  <2>1. r \in Routes /\ mem \in Record
    BY DEF Live, Base, TypeOK
  <2>2. Only(r, IF State(r) = "active" THEN "quiescing" ELSE State(r)) /\ mem'.path = mem.path
    BY <1>2, <2>1, QuiescedFacts DEF Base, Save, Only, State
  <2> QED
    BY <1>2, <2>1, <2>2, EndOfFacts DEF Base, Ends
<1> QED
  BY <1>1, <1>2 DEF RecoverEnd, Save

\* recover() gives up a provisioning and leaves every other route to an end.
LEMMA RecoveredNext ==
  ASSUME Base, NEW r \in Routes, RecoverNext(r)
  PROVE  /\ mem'.path = mem.path /\ disk'.path \in {disk.path, mem.path}
         /\ Only(r, IF State(r) = "provisioning" THEN "pending-review" ELSE State(r))
<1>1. mem \in Record /\ "pending-review" \in RouteStates
  BY DEF Base, TypeOK, RouteStates
<1>2. CASE Save(Moved(mem, r, "pending-review")) /\ State(r) = "provisioning"
  BY <1>1, <1>2, MovedFacts DEF Save, Only, State
<1>3. CASE UNCHANGED <<mem, disk>> /\ State(r) # "provisioning"
  BY <1>3 DEF Only, State
<1> QED
  BY <1>2, <1>3 DEF RecoverNext

\* No other step touches a route.
QuietWork == CreateChild \/ FreezeChild \/ Snapshot \/ Reload \/ BeforeMerge \/ MergeRoot \/ MergeFails
QuietMain == Started \/ AgentExit \/ FreezeOuter \/ Conclude \/ Crash \/ Resume \/ Finish

LEMMA QuietSteps ==
  ASSUME Base
  PROVE  /\ Agent \/ QuietWork \/ QuietMain \/ UNCHANGED vars => mem'.route = mem.route
         /\ \A k \in Keys, a \in Admissions : ProvisionRaises(k, a) =>
              mem'.route = mem.route /\ mem'.path = mem.path
         /\ \A roots \in SUBSET Roots : EndRaises(roots) =>
              mem'.route = mem.route /\ mem'.path = RecordAttribution(roots).path
<1>1. ASSUME Agent PROVE mem'.route = mem.route
  BY <1>1 DEF Agent, Lookup, RoutedWrite, OuterWrite, TurnCommit, Save
<1>2. ASSUME QuietWork PROVE mem'.route = mem.route
  BY <1>2 DEF QuietWork, CreateChild, FreezeChild, Snapshot, Reload, BeforeMerge, MergeRoot, MergeFails
<1>3. ASSUME QuietMain PROVE mem'.route = mem.route
  <2>1. CASE Started
    BY <2>1 DEF Started, Save, Base, TypeOK, Record
  <2>2. CASE Conclude
    BY <2>2, ReconciledFacts DEF Conclude, Save, Base
  <2>3. CASE AgentExit \/ FreezeOuter \/ Crash \/ Resume \/ Finish
    BY <2>3 DEF AgentExit, FreezeOuter, Crash, Resume, Finish, Save, Base, Operations
  <2> QED
    BY <1>3, <2>1, <2>2, <2>3 DEF QuietMain
<1>4. ASSUME NEW k \in Keys, NEW a \in Admissions, ProvisionRaises(k, a)
      PROVE  mem'.route = mem.route /\ mem'.path = mem.path
  BY <1>4, RoutesAssumption, GrantedFacts DEF ProvisionRaises, Save, Base
<1>5. ASSUME NEW roots \in SUBSET Roots, EndRaises(roots)
      PROVE  mem'.route = mem.route /\ mem'.path = RecordAttribution(roots).path
  BY <1>5, RoutesAssumption, AttributionFacts DEF EndRaises, Base, Operations
<1> QED
  BY <1>1, <1>2, <1>3, <1>4, <1>5 DEF vars

\* Every step is one of those above.
LEMMA StepKinds ==
  ASSUME [Next]_vars
  PROVE  \/ Agent \/ QuietWork \/ QuietMain \/ UNCHANGED vars
         \/ \E k \in Keys, a \in Admissions : ProvisionRaises(k, a) \/ ProvisionAgain(k, a)
         \/ \E k \in Keys, a \in Admissions, r \in Routes : ProvisionNew(k, a, r)
         \/ \E k \in Keys : EndSession(k)
         \/ Activate \/ RouteFrozen \/ QuiesceFails \/ MergeDone
         \/ \E made \in SUBSET Roots : \E kept \in SUBSET made : ProvisionFails(made, kept)
         \/ \E roots \in SUBSET Roots : EndRaises(roots)
         \/ \E r \in Routes : RecoverNext(r)
         \/ RecoverEnd
  BY DEF Next, Request, Work, Main, QuietWork, QuietMain

-----------------------------------------------------------------------------
(* Second layer: one live route per workspace session, and what the nested  *)
(* branches look like.                                                      *)

\* A live route was live under the same key, or it is new and the only one.
LEMMA OneLiveStep ==
  ASSUME Base, OneLiveRoutePerKey, [Next]_vars
  PROVE  OneLiveRoutePerKey'
<1> USE DEF Base
<1>1. ASSUME \A x \in Routes : /\ mem'.route[x].key = mem.route[x].key
                               /\ mem'.route[x].state \in Unresolved => State(x) \in Unresolved
      PROVE  OneLiveRoutePerKey'
  BY <1>1 DEF OneLiveRoutePerKey, State
<1>2. ASSUME NEW r \in Routes, NEW t \in RouteStates, Only(r, t), t \in Unresolved => State(r) \in Unresolved
      PROVE  OneLiveRoutePerKey'
  BY <1>1, <1>2 DEF Only, State
<1>3. ASSUME mem'.route = mem.route PROVE OneLiveRoutePerKey'
  BY <1>1, <1>3 DEF State
<1>4. ASSUME NEW k \in Keys, NEW a \in Admissions, NEW r \in Routes, ProvisionNew(k, a, r)
      PROVE  OneLiveRoutePerKey'
  <2>1. \A x \in Routes : State(x) \in Unresolved => mem.route[x].key # k
    BY <1>4 DEF ProvisionNew, Live
  <2>2. mem'.route[r].key = k
    <3>1. mem'.route[r] = [state |-> "provisioning", key |-> k, admitted |-> a]
      BY <1>4, NewRoute, Zenon
    <3> QED
      BY <3>1
  <2>3. \A x \in Routes \ {r} : mem'.route[x] = mem.route[x]
    BY <1>4, NewRoute
  <2> QED
    BY <2>1, <2>2, <2>3 DEF OneLiveRoutePerKey, State
<1>5. ASSUME NEW k \in Keys, NEW a \in Admissions, ProvisionRaises(k, a) \/ ProvisionAgain(k, a)
      PROVE  OneLiveRoutePerKey'
  BY <1>1, <1>3, <1>5, QuietSteps, SameRoute DEF State
<1>6. ASSUME NEW r \in Routes, NEW main, Ends(r, main) PROVE OneLiveRoutePerKey'
  <2>1. CASE State(r) = "active"
    BY <1>1, <1>6, <2>1 DEF Ends, Only, Unresolved, State
  <2>2. CASE State(r) # "active"
    BY <1>1, <1>6, <2>2 DEF Ends, Only, State
  <2> QED
    BY <2>1, <2>2
<1>7. ASSUME NEW k \in Keys, EndSession(k) PROVE OneLiveRoutePerKey'
  BY <1>3, <1>6, <1>7, RequestedEnd DEF Live
<1>8. ASSUME NEW r \in Routes, RecoverNext(r) PROVE OneLiveRoutePerKey'
  <2>1. CASE State(r) = "provisioning"
    BY <1>1, <1>8, <2>1, RecoveredNext DEF Only, Unresolved, State
  <2>2. CASE State(r) # "provisioning"
    BY <1>1, <1>8, <2>2, RecoveredNext DEF Only, State
  <2> QED
    BY <2>1, <2>2
<1>9. CASE RecoverEnd
  BY <1>3, <1>6, <1>9, RecoveredEnd DEF Live
<1>10. ASSUME Activate \/ RouteFrozen \/ QuiesceFails \/ MergeDone
               \/ \E made \in SUBSET Roots : \E kept \in SUBSET made : ProvisionFails(made, kept)
       PROVE  OneLiveRoutePerKey'
  <2>1. op.route \in Routes /\ State(op.route) \in Unresolved
    BY <1>10 DEF Activate, RouteFrozen, QuiesceFails, MergeDone, ProvisionFails, Operations, Unresolved
  <2>2. \E t \in RouteStates : Only(op.route, t)
    BY <1>10, WorkMoves DEF MergeOutcome, RouteStates
  <2> QED
    BY <1>2, <2>1, <2>2
<1> QED
  BY <1>3, <1>4, <1>5, <1>7, <1>8, <1>9, <1>10, StepKinds, QuietSteps


\* Initially there is no live route and no nested branch.
LEMMA SecondInit == Init => OneLiveRoutePerKey /\ Branches
  BY DEF Init, OneLiveRoutePerKey, Branches, State, Unresolved, Idle

\* If an action leaves an operation's step and the nested branches alone, and
\* moves no route into a state that promises something of its branches.
LEMMA SameBranches ==
  ASSUME Base, Branches, UNCHANGED <<child, mounted, drain, waiting, phase>>,
         op' = op \/ op' = Idle \/ (op'.pc \in {"create", "freeze", "merge"} /\ op'.todo = Roots)
                  \/ op'.pc \in {"reload", "before"},
         \A x \in Routes : \/ mem'.route[x].state = State(x)
                           \/ mem'.route[x].state \notin {"active", "frozen", "merged"}
  PROVE  Branches'
<1>1. \A x \in Routes : State(x)' \in {"active", "frozen", "merged"} => State(x)' = State(x)
  BY DEF State
<1>2. \A x \in Routes : Served(x)' = Served(x)
  BY DEF Served
<1>3. Serving' = Serving
  BY DEF Serving
<1>4. /\ \A r \in Routes : State(r)' = "active" /\ Serving' => Served(r)'
      /\ \A r \in Routes : State(r)' = "active" /\ phase' = "starting" => r \in drain' \/ r = waiting'
      /\ \A r \in Routes : State(r)' = "frozen" => \A n \in Roots : child'[r][n] \in {"frozen", "merged"}
      /\ \A r \in Routes : State(r)' = "merged" => \A n \in Roots : child'[r][n] = "merged"
  BY <1>1, <1>2, <1>3 DEF Branches
<1>5. /\ op'.pc = "create" => \A n \in Roots \ op'.todo :
                           child'[op'.route][n] = "open" /\ n \in mounted'[op'.route]
      /\ op'.pc = "freeze" => \A n \in Roots \ op'.todo : child'[op'.route][n] = "frozen"
      /\ op'.pc = "unmount" => \A n \in Roots : child'[op'.route][n] = "frozen"
      /\ op'.pc = "merge" => \A n \in Roots \ op'.todo :
                          n \in op'.errors \/ child'[op'.route][n] = "merged"
  BY IdleFacts DEF Branches
<1> QED
  BY <1>4, <1>5 DEF Branches

\* Requests, and what agents do, do not touch a nested branch.
LEMMA BranchesRequest ==
  ASSUME Base, Branches, Agent \/ Request
  PROVE  Branches'
<1> USE DEF Base
<1>1. ASSUME Agent PROVE Branches'
  <2>1. UNCHANGED <<child, mounted, drain, waiting, phase, op>>
    BY <1>1 DEF Agent, Lookup, RoutedWrite, OuterWrite, TurnCommit, control
  <2> QED
    BY <1>1, <2>1, QuietSteps, SameBranches DEF State
<1>2. ASSUME NEW k \in Keys, NEW a \in Admissions, NEW r \in Routes, ProvisionNew(k, a, r)
      PROVE  Branches'
  <2>1. /\ UNCHANGED <<child, mounted, drain, waiting, phase>>
        /\ op'.pc = "create" /\ op'.todo = Roots
    BY <1>2 DEF ProvisionNew, branches, control, Idle
  <2>2. mem'.route[r].state = "provisioning" /\ \A x \in Routes \ {r} : mem'.route[x] = mem.route[x]
    <3>1. mem'.route[r] = [state |-> "provisioning", key |-> k, admitted |-> a]
      BY <1>2, NewRoute, Zenon
    <3>2. \A x \in Routes \ {r} : mem'.route[x] = mem.route[x]
      BY <1>2, NewRoute
    <3> QED
      BY <3>1, <3>2
  <2>3. \A x \in Routes : \/ mem'.route[x].state = State(x)
                           \/ mem'.route[x].state \notin {"active", "frozen", "merged"}
    BY <2>2 DEF State
  <2> QED
    BY <2>1, <2>3, SameBranches
<1>3. ASSUME NEW k \in Keys, NEW a \in Admissions, ProvisionRaises(k, a) \/ ProvisionAgain(k, a)
      PROVE  Branches'
  <2>1. UNCHANGED <<child, mounted, drain, waiting, phase, op>>
    BY <1>3 DEF ProvisionRaises, ProvisionAgain, branches, control
  <2>2. \A x \in Routes : mem'.route[x].state = State(x)
    BY <1>3, QuietSteps, SameRoute DEF State
  <2> QED
    BY <2>1, <2>2, SameBranches
<1>4. ASSUME NEW k \in Keys, EndSession(k) PROVE Branches'
  <2>1. UNCHANGED <<child, mounted, drain, waiting, phase>>
    BY <1>4 DEF EndSession, branches, control
  <2>2. CASE mem'.route = mem.route /\ op' = op
    BY <2>1, <2>2, SameBranches DEF State
  <2>3. ASSUME NEW r \in Live(k), Ends(r, FALSE) PROVE Branches'
    <3>1. op' = Idle \/ (op'.pc = "freeze" /\ op'.todo = Roots) \/ op'.pc = "reload"
      BY <2>3 DEF Ends
    <3>2. \A x \in Routes : mem'.route[x].state \in {State(x), "quiescing"}
      BY <2>3 DEF Ends, Only, State
    <3> QED
      BY <2>1, <3>1, <3>2, SameBranches
  <2> QED
    BY <1>4, <2>2, <2>3, RequestedEnd
<1> QED
  BY <1>1, <1>2, <1>3, <1>4 DEF Request

\* An operation changes the nested branches of its own route, whose state does
\* not promise anything yet, or promises what the operation has achieved.
LEMMA BranchesWork ==
  ASSUME Base, Branches, Work
  PROVE  Branches'
<1> USE RoutesAssumption DEF Base
<1>0. /\ op \in Operation
      /\ child \in [Routes -> [Roots -> {"none", "open", "frozen", "merged", "aborted"}]]
      /\ mounted \in [Routes -> SUBSET Roots]
      /\ op.pc # "idle" => op.route \in Routes
  BY DEF TypeOK, Operations
<1>1. ASSUME op.pc # "idle", UNCHANGED <<drain, waiting, phase>>,
             \A x \in Routes \ {op.route} : /\ mem'.route[x].state = State(x)
                                            /\ child'[x] = child[x]
                                            /\ mounted'[x] = mounted[x],
             mem'.route[op.route].state = "active" /\ Serving =>
               \A n \in Roots : child'[op.route][n] = "open" /\ n \in mounted'[op.route],
             mem'.route[op.route].state = "active" => phase # "starting",
             mem'.route[op.route].state = "frozen" =>
               \A n \in Roots : child'[op.route][n] \in {"frozen", "merged"},
             mem'.route[op.route].state = "merged" =>
               \A n \in Roots : child'[op.route][n] = "merged"
      PROVE  /\ \A r \in Routes : State(r)' = "active" /\ Serving' => Served(r)'
             /\ \A r \in Routes : State(r)' = "active" /\ phase' = "starting" =>
                  r \in drain' \/ r = waiting'
             /\ \A r \in Routes : State(r)' = "frozen" =>
                  \A n \in Roots : child'[r][n] \in {"frozen", "merged"}
             /\ \A r \in Routes : State(r)' = "merged" =>
                  \A n \in Roots : child'[r][n] = "merged"
  <2>1. \A x \in Routes \ {op.route} : State(x)' = State(x) /\ Served(x)' = Served(x)
    BY <1>1 DEF State, Served
  <2>2. Serving' = Serving
    BY <1>1 DEF Serving
  <2>3. ASSUME NEW r \in Routes, r = op.route
        PROVE  /\ State(r)' = "active" /\ Serving' => Served(r)'
               /\ State(r)' = "active" => phase' # "starting"
               /\ State(r)' = "frozen" => \A n \in Roots : child'[r][n] \in {"frozen", "merged"}
               /\ State(r)' = "merged" => \A n \in Roots : child'[r][n] = "merged"
    BY <1>1, <2>2, <2>3 DEF State, Served
  <2>4. ASSUME NEW r \in Routes, r # op.route
        PROVE  /\ State(r)' = "active" /\ Serving' => Served(r)'
               /\ State(r)' = "active" /\ phase' = "starting" => r \in drain' \/ r = waiting'
               /\ State(r)' = "frozen" => \A n \in Roots : child'[r][n] \in {"frozen", "merged"}
               /\ State(r)' = "merged" => \A n \in Roots : child'[r][n] = "merged"
    BY <1>1, <2>1, <2>2, <2>4 DEF Branches
  <2> QED
    BY <2>3, <2>4
<1>2. CASE CreateChild
  <2>0. op.route \in Routes /\ NextRoot \in Roots /\ NextRoot \in op.todo
    BY <1>0, <1>2, NextRootFacts DEF CreateChild
  <2>1. State(op.route) \in {"provisioning", "pending-review"} /\ mem' = mem
    BY <1>2 DEF CreateChild, Operations
  <2>2. /\ \A x \in Routes \ {op.route} : child'[x] = child[x] /\ mounted'[x] = mounted[x]
        /\ child'[op.route] = [child[op.route] EXCEPT ![NextRoot] = "open"]
        /\ mounted'[op.route] = mounted[op.route] \cup {NextRoot}
    BY <1>0, <1>2, <2>0 DEF CreateChild
  <2>3. op'.pc = "create" /\ op'.route = op.route /\ op'.todo = op.todo \ {NextRoot}
    BY <1>0, <1>2 DEF CreateChild, Operation
  <2>4. \A n \in Roots \ op'.todo : child'[op.route][n] = "open" /\ n \in mounted'[op.route]
    BY <1>0, <1>2, <2>0, <2>2, <2>3 DEF CreateChild, Branches
  <2>5. UNCHANGED <<drain, waiting, phase>> /\ op.pc # "idle"
    BY <1>2 DEF CreateChild, control
  <2>6. /\ mem'.route[op.route].state \notin {"active", "frozen", "merged"}
        /\ \A x \in Routes : mem'.route[x].state = State(x)
    BY <2>1 DEF State
  <2>7. /\ \A r \in Routes : State(r)' = "active" /\ Serving' => Served(r)'
        /\ \A r \in Routes : State(r)' = "active" /\ phase' = "starting" => r \in drain' \/ r = waiting'
        /\ \A r \in Routes : State(r)' = "frozen" =>
             \A n \in Roots : child'[r][n] \in {"frozen", "merged"}
        /\ \A r \in Routes : State(r)' = "merged" => \A n \in Roots : child'[r][n] = "merged"
    BY <1>1, <2>2, <2>5, <2>6
  <2> QED
    BY <2>3, <2>4, <2>7 DEF Branches
<1>3. CASE Activate
  <2>1. Only(op.route, "active")
    BY <1>3, WorkMoves
  <2>2. Served(op.route)
    BY <1>3 DEF Activate, Branches, Served
  <2>3. UNCHANGED <<child, mounted, drain, waiting, phase>> /\ op' = Idle /\ op.pc = "create"
    BY <1>3 DEF Activate, branches, control
  <2>4. phase # "starting"
    BY <2>3 DEF Operations
  <2> QED
    BY <1>0, <1>1, <2>1, <2>2, <2>3, <2>4, IdleFacts DEF Branches, Only, Served, State
<1>4. ASSUME NEW made \in SUBSET Roots, NEW kept \in SUBSET made, ProvisionFails(made, kept)
      PROVE  Branches'
  <2>1. Only(op.route, "failed") \/ Only(op.route, "pending-review")
    BY <1>4, WorkMoves
  <2>2. \A x \in Routes \ {op.route} : child'[x] = child[x] /\ mounted'[x] = mounted[x]
    BY <1>0, <1>4 DEF ProvisionFails
  <2>3. UNCHANGED <<drain, waiting, phase>> /\ op' = Idle /\ op.pc = "create"
    BY <1>4 DEF ProvisionFails, control
  <2>4. /\ mem'.route[op.route].state \in {"failed", "pending-review"}
        /\ \A x \in Routes \ {op.route} : mem'.route[x].state = State(x)
    BY <1>0, <2>1, <2>3 DEF Only, State
  <2> QED
    BY <1>1, <2>2, <2>3, <2>4, IdleFacts DEF Branches
<1>5. CASE FreezeChild
  <2>0. op.route \in Routes /\ NextRoot \in Roots /\ NextRoot \in op.todo
    BY <1>0, <1>5, NextRootFacts DEF FreezeChild
  <2>1. State(op.route) = "quiescing" /\ mem' = mem
    BY <1>5 DEF FreezeChild, Operations
  <2>2. /\ \A x \in Routes \ {op.route} : child'[x] = child[x] /\ mounted'[x] = mounted[x]
        /\ child'[op.route] = [child[op.route] EXCEPT ![NextRoot] = "frozen"]
    BY <1>0, <1>5, <2>0 DEF FreezeChild
  <2>3. op'.pc = "freeze" /\ op'.route = op.route /\ op'.todo = op.todo \ {NextRoot}
    BY <1>0, <1>5 DEF FreezeChild, Operation
  <2>4. \A n \in Roots \ op'.todo : child'[op.route][n] = "frozen"
    BY <1>0, <1>5, <2>0, <2>2, <2>3 DEF FreezeChild, Branches
  <2>5. UNCHANGED <<drain, waiting, phase>> /\ op.pc # "idle"
    BY <1>5 DEF FreezeChild, control
  <2>6. /\ mem'.route[op.route].state \notin {"active", "frozen", "merged"}
        /\ \A x \in Routes : mem'.route[x].state = State(x)
    BY <2>1 DEF State
  <2>7. /\ \A r \in Routes : State(r)' = "active" /\ Serving' => Served(r)'
        /\ \A r \in Routes : State(r)' = "active" /\ phase' = "starting" => r \in drain' \/ r = waiting'
        /\ \A r \in Routes : State(r)' = "frozen" =>
             \A n \in Roots : child'[r][n] \in {"frozen", "merged"}
        /\ \A r \in Routes : State(r)' = "merged" => \A n \in Roots : child'[r][n] = "merged"
    BY <1>1, <2>2, <2>5, <2>6
  <2> QED
    BY <2>3, <2>4, <2>7 DEF Branches
<1>6. CASE Snapshot
  <2>1. op'.pc = "unmount" /\ op'.route = op.route
    BY <1>0, <1>6 DEF Snapshot, Operation
  <2>2. UNCHANGED <<mem, child, mounted, drain, waiting, phase>>
    BY <1>6 DEF Snapshot, control
  <2>3. \A n \in Roots : child[op.route][n] = "frozen"
    BY <1>6 DEF Snapshot, Branches
  <2> QED
    BY <2>1, <2>2, <2>3 DEF Branches, State, Served, Serving
<1>7. CASE RouteFrozen
  <2>1. Only(op.route, "frozen")
    BY <1>7, WorkMoves
  <2>2. /\ \A x \in Routes \ {op.route} : mounted'[x] = mounted[x]
        /\ child' = child /\ \A n \in Roots : child[op.route][n] = "frozen"
    BY <1>0, <1>7 DEF RouteFrozen, Branches
  <2>3. UNCHANGED <<drain, waiting, phase>> /\ op.pc # "idle" /\ op'.pc = "before"
    BY <1>0, <1>7 DEF RouteFrozen, control, Operation
  <2>4. /\ mem'.route[op.route].state = "frozen"
        /\ \A x \in Routes \ {op.route} : mem'.route[x].state = State(x)
    BY <1>0, <2>1, <2>3 DEF Only, State
  <2> QED
    BY <1>1, <2>2, <2>3, <2>4 DEF Branches
<1>8. CASE QuiesceFails
  <2>1. \A x \in Routes : mem'.route[x].state \in {State(x), "pending-review"}
    BY <1>8, WorkMoves DEF Only, State
  <2>2. UNCHANGED <<child, mounted, drain, waiting, phase>> /\ op' = Idle
    BY <1>8 DEF QuiesceFails, branches, control
  <2> QED
    BY <2>1, <2>2, SameBranches
<1>9. CASE Reload \/ BeforeMerge
  <2>1. op'.pc = "before" \/ (op'.pc = "merge" /\ op'.todo = Roots)
    BY <1>0, <1>9 DEF Reload, BeforeMerge, Operation
  <2>2. UNCHANGED <<mem, child, mounted, drain, waiting, phase>>
    BY <1>9 DEF Reload, BeforeMerge, branches, control
  <2> QED
    BY <2>1, <2>2, SameBranches DEF State
<1>10. CASE MergeRoot \/ MergeFails
  <2>0. op.route \in Routes /\ NextRoot \in Roots /\ NextRoot \in op.todo /\ op.pc = "merge"
    BY <1>0, <1>10, NextRootFacts DEF MergeRoot, MergeFails
  <2>1. /\ State(op.route) = "frozen"
        /\ \A n \in Roots : child[op.route][n] \in {"frozen", "merged"}
    BY <2>0 DEF Operations, Branches
  <2>2. UNCHANGED <<mem, mounted, drain, waiting, phase>>
    BY <1>10 DEF MergeRoot, MergeFails, control
  <2>3. /\ op'.pc = "merge" /\ op'.route = op.route
        /\ op'.todo = op.todo \ {NextRoot} /\ op.errors \subseteq op'.errors
        /\ NextRoot \in op'.errors \/ child' = [child EXCEPT ![op.route][NextRoot] = "merged"]
    <3>1. CASE MergeRoot
      <4>1. PICK conflicts : op' = [op EXCEPT !.todo = @ \ {NextRoot}, !.conflicts = @ \cup conflicts]
        BY <3>1 DEF MergeRoot
      <4>2. child' = [child EXCEPT ![op.route][NextRoot] = "merged"]
        BY <3>1 DEF MergeRoot
      <4> QED
        BY <1>0, <2>0, <4>1, <4>2 DEF Operation
    <3>2. CASE MergeFails
      <4>1. op' = [op EXCEPT !.todo = @ \ {NextRoot}, !.errors = @ \cup {NextRoot}]
        BY <3>2 DEF MergeFails
      <4> QED
        BY <1>0, <2>0, <4>1 DEF Operation
    <3> QED
      BY <1>10, <3>1, <3>2
  <2>4. child' = child \/ child' = [child EXCEPT ![op.route][NextRoot] = "merged"]
    BY <1>10, Zenon DEF MergeRoot, MergeFails
  <2>5. /\ \A x \in Routes \ {op.route} : child'[x] = child[x]
        /\ \A n \in Roots : child'[op.route][n] \in {child[op.route][n], "merged"}
        /\ NextRoot \in op'.errors \/ child'[op.route][NextRoot] = "merged"
    BY <1>0, <2>0, <2>3, <2>4
  <2>6. \A n \in Roots \ op'.todo : n \in op'.errors \/ child'[op.route][n] = "merged"
    BY <2>0, <2>3, <2>5 DEF Branches
  <2> QED
    BY <1>1, <2>0, <2>1, <2>2, <2>3, <2>5, <2>6 DEF Branches, State
<1>11. CASE MergeDone
  <2>1. Only(op.route, MergeOutcome)
    BY <1>11, WorkMoves
  <2>2. UNCHANGED <<child, mounted, drain, waiting, phase>> /\ op' = Idle /\ op.pc = "merge"
    BY <1>11 DEF MergeDone, branches, control
  <2>3. MergeOutcome = "merged" => \A n \in Roots : child[op.route][n] = "merged"
    BY <1>11 DEF MergeOutcome, MergeDone, Branches
  <2>4. /\ mem'.route[op.route].state = MergeOutcome
        /\ \A x \in Routes \ {op.route} : mem'.route[x].state = State(x)
    BY <1>0, <2>1, <2>2 DEF Only, State
  <2>5. MergeOutcome \in {"merged", "pending-review"}
    BY DEF MergeOutcome
  <2> QED
    BY <1>1, <2>2, <2>3, <2>4, <2>5, IdleFacts DEF Branches
<1>12. ASSUME NEW roots \in SUBSET Roots, EndRaises(roots) PROVE Branches'
  <2>1. mem'.route = mem.route
    BY <1>12, QuietSteps
  <2>2. /\ UNCHANGED <<child, mounted, drain, waiting>> /\ op' = Idle
        /\ phase' = phase \/ phase' = "failed"
    BY <1>12 DEF EndRaises, branches
  <2> QED
    BY <2>1, <2>2, IdleFacts DEF Branches, State, Served, Serving
<1> QED
  BY <1>2, <1>3, <1>4, <1>5, <1>6, <1>7, <1>8, <1>9, <1>10, <1>11, <1>12 DEF Work

\* recover() has ended every active route before the agent starts.
LEMMA BranchesMain ==
  ASSUME Base, OneLiveRoutePerKey, Branches, Main \/ AgentExit \/ Crash \/ Resume \/ Finish
  PROVE  Branches'
<1> USE RoutesAssumption DEF Base
<1>1. ASSUME NEW r \in Routes, RecoverNext(r) PROVE Branches'
  <2>1. Only(r, IF State(r) = "provisioning" THEN "pending-review" ELSE State(r))
    BY <1>1, RecoveredNext
  <2>2. \A x \in Routes : \/ mem'.route[x].state = State(x)
                          \/ mem'.route[x].state = "pending-review"
    BY <2>1 DEF Only, State
  <2>3. UNCHANGED <<child, mounted, op, phase>> /\ drain' = drain \ {r} /\ waiting = None
    BY <1>1 DEF RecoverNext, branches
  <2>4. State(r) = "active" => waiting' = r
    BY <1>1 DEF RecoverNext
  <2>5. \A x \in Routes : State(x)' \in {"active", "frozen", "merged"} => State(x)' = State(x)
    BY <2>2 DEF State
  <2>6. \A x \in Routes : State(x)' = "active" /\ phase' = "starting" => x \in drain' \/ x = waiting'
    BY <2>3, <2>4, <2>5 DEF Branches
  <2> QED
    BY <2>3, <2>5, <2>6 DEF Branches, Served, Serving
<1>2. CASE RecoverEnd
  <2>1. waiting \in Routes /\ waiting' = None /\ UNCHANGED <<child, mounted, drain, phase>>
    BY <1>2, RecoveredEnd DEF RecoverEnd, branches
  <2>2. State(waiting) = "active" => waiting \in Live(mem.route[waiting].key)
    BY <2>1 DEF Live, Unresolved
  <2>3. CASE Live(mem.route[waiting].key) = {} /\ mem' = mem /\ op' = op
    <3>1. State(waiting) # "active"
      BY <2>2, <2>3
    <3> QED
      BY <2>1, <2>3, <3>1 DEF Branches, State, Served, Serving
  <2>4. ASSUME NEW r \in Live(mem.route[waiting].key), Ends(r, TRUE) PROVE Branches'
    <3>1. \A x \in Routes : \/ State(x)' = State(x) /\ ~(x = r /\ State(x) = "active")
                            \/ State(x)' = "quiescing"
      BY <2>4 DEF Ends, Only, State
    <3>2. State(waiting) = "active" => r = waiting
      BY <2>1, <2>2, <2>4 DEF Live, OneLiveRoutePerKey
    <3>3. op' = Idle \/ (op'.pc = "freeze" /\ op'.todo = Roots) \/ op'.pc = "reload"
      BY <2>4 DEF Ends
    <3>4. \A x \in Routes : State(x)' \in {"active", "frozen", "merged"} => State(x)' = State(x)
      BY <3>1
    <3>5. \A x \in Routes : State(x)' = "active" => x # waiting
      BY <3>1, <3>2
    <3> QED
      BY <2>1, <3>3, <3>4, <3>5, IdleFacts DEF Branches, Served, Serving
  <2> QED
    BY <1>2, <2>3, <2>4, RecoveredEnd
<1>3. CASE Started
  <2>1. mem'.route = mem.route
    BY <1>3, QuietSteps DEF QuietMain
  <2>2. /\ UNCHANGED <<child, mounted, op>> /\ drain = {} /\ waiting = None
        /\ phase = "starting" /\ phase' = "running"
    BY <1>3 DEF Started, branches, Drained
  <2>3. \A r \in Routes : State(r)' # "active"
    BY <2>1, <2>2 DEF Branches, State
  <2> QED
    BY <2>1, <2>2, <2>3 DEF Branches, State
<1>4. CASE AgentExit \/ FreezeOuter
  <2>1. mem'.route = mem.route
    BY <1>4, QuietSteps DEF QuietMain
  <2>2. /\ UNCHANGED <<child, mounted, op>>
        /\ phase \in {"running", "draining"} /\ phase' \in {"draining", "finalizing"}
    BY <1>4 DEF AgentExit, FreezeOuter, branches
  <2> QED
    BY <2>1, <2>2 DEF Branches, State, Served, Serving
<1>5. CASE Conclude \/ Crash \/ Finish
  <2>1. mem'.route = mem.route
    BY <1>5, QuietSteps DEF QuietMain
  <2>2. /\ UNCHANGED child
        /\ phase' \in {"auto-committed", "pending-review", "crashed", "finishing"}
        /\ op'.pc = "idle"
    BY <1>5, IdleFacts DEF Conclude, Crash, Finish, branches, Operations
  <2> QED
    BY <2>1, <2>2 DEF Branches, State, Serving
<1>6. CASE Resume
  <2>1. mem'.route = mem.route /\ mem.route = disk.route
    BY <1>6, QuietSteps DEF QuietMain, Operations
  <2>2. /\ UNCHANGED child /\ phase' = "starting"
        /\ op'.pc = "idle"
        /\ drain' = ToRecover(disk)
    BY <1>6 DEF Resume, branches, Operations
  <2>3. \A r \in Routes : State(r)' = "active" => r \in drain'
    BY <2>1, <2>2 DEF ToRecover, State
  <2> QED
    BY <2>1, <2>2, <2>3 DEF Branches, State, Serving
<1> QED
  BY <1>1, <1>2, <1>3, <1>4, <1>5, <1>6 DEF Main

Second == Base /\ OneLiveRoutePerKey /\ Branches

\* The second layer is inductive.
LEMMA SecondStep == Second /\ [Next]_vars => Second'
<1>1. ASSUME Second, UNCHANGED vars PROVE Branches'
  BY <1>1 DEF Second, Branches, State, Served, Serving, vars
<1>2. ASSUME Second, Next PROVE Branches'
  BY <1>2, BranchesRequest, BranchesWork, BranchesMain DEF Second, Next
<1> QED
  BY <1>1, <1>2, BaseStep, OneLiveStep DEF Second

\* The second layer holds in every reachable state.
LEMMA SecondCorrectness == Spec => []Second
<1>1. Init => Second
  BY BaseInit, SecondInit DEF Second
<1> QED
  BY <1>1, SecondStep, PTL DEF Spec

\* Lookups of active routes always find their nested branches open and mounted.
THEOREM ActiveRoutesServed == Spec => []ActiveRoutesAreServed
<1>1. Second => ActiveRoutesAreServed
  BY DEF Second, Branches, ActiveRoutesAreServed, Serving, Served
<1> QED
  BY <1>1, SecondCorrectness, PTL

\* A route recorded as merged was merged in every root.
THEOREM MergedInEveryRoot == Spec => []MergedMeansEveryRoot
<1>1. Second => MergedMeansEveryRoot
  BY DEF Second, Base, Operations, Branches, MergedMeansEveryRoot, State
<1> QED
  BY <1>1, SecondCorrectness, PTL

\* No workspace session ever has two live routes.
THEOREM OneLiveRoute == Spec => []OneLiveRoutePerKey
<1>1. Second => OneLiveRoutePerKey
  BY DEF Second
<1> QED
  BY <1>1, SecondCorrectness, PTL

-----------------------------------------------------------------------------
(* Third layer: where routed writes are.                                   *)

\* Initially nothing was written.
LEMMA DeltasInit == Init => Deltas
  BY DEF Init, Deltas, Fresh, Placed

\* If an action writes nothing, it keeps the layer when fresh routes come from
\* fresh ones and placed routes stay placed.
LEMMA SameDeltas ==
  ASSUME Deltas, UNCHANGED <<delta, bound, status, phase>>,
         phase \in {"finalizing", "finishing"} => outer' = outer,
         \A x \in Routes : Fresh(x)' => Fresh(x),
         \A x \in Routes : Placed(x) => Placed(x)' \/ Fresh(x)
  PROVE  Deltas'
<1>1. phase \in {"draining", "finalizing"} => \A r \in Routes : delta[r] # {} => Placed(r)'
  BY DEF Deltas
<1> QED
  BY <1>1 DEF Deltas

\* If an action leaves routes alone and does not turn to provisioning.
LEMMA SameDeltasQuiet ==
  ASSUME Deltas, UNCHANGED <<delta, bound, status, phase, drain, waiting>>,
         phase \in {"finalizing", "finishing"} => outer' = outer,
         \A x \in Routes : mem'.route[x].state = mem.route[x].state,
         op'.main = op.main, op'.route = op.route, op'.pc = "create" => op.pc = "create"
  PROVE  Deltas'
<1>1. \A x \in Routes : Fresh(x)' => Fresh(x)
  BY DEF Fresh, State
<1>2. \A x \in Routes : Placed(x) => Placed(x)'
  BY DEF Placed, State
<1> QED
  BY <1>1, <1>2, SameDeltas

\* Only a route that was looked up while active is written to.
LEMMA DeltasAgent ==
  ASSUME Second, Deltas, Agent
  PROVE  Deltas'
<1> USE DEF Second, Base
<1>0. delta \in [Routes -> SUBSET Paths] /\ op \in Operation /\ (op.pc = "idle" => op = Idle)
  BY DEF TypeOK, Operations
<1>1. ASSUME NEW r \in Routes, Lookup(r) PROVE Deltas'
  <2>1. UNCHANGED <<mem, delta, op, phase>> /\ bound' = bound \cup {r} /\ phase = "running"
    BY <1>1 DEF Lookup, control
  <2>2. ~Fresh(r) /\ \A x \in Routes : Fresh(x)' = Fresh(x)
    BY <1>1, <2>1 DEF Lookup, Fresh, State
  <2> QED
    BY <2>1, <2>2 DEF Deltas
<1>2. ASSUME NEW r \in Routes, NEW p \in Paths, RoutedWrite(r, p) PROVE Deltas'
  <2>1. UNCHANGED <<mem, bound, op, phase>> /\ r \in bound /\ phase = "running"
    BY <1>2 DEF RoutedWrite, control
  <2>2. \A x \in Routes \ {r} : delta'[x] = delta[x]
    BY <1>0, <1>2 DEF RoutedWrite
  <2>3. \A x \in Routes : Fresh(x)' = Fresh(x)
    BY <2>1 DEF Fresh, State
  <2>4. ~Fresh(r)
    BY <2>1 DEF Deltas
  <2> QED
    BY <2>1, <2>2, <2>3, <2>4 DEF Deltas
<1>3. ASSUME NEW p \in Paths, OuterWrite(p) \/ TurnCommit(p) PROVE Deltas'
  <2>1. UNCHANGED <<mem, delta, bound, status, phase, drain, waiting, op>> /\ phase = "running"
    BY <1>3 DEF OuterWrite, TurnCommit, Save, control
  <2> QED
    BY <2>1, SameDeltasQuiet
<1> QED
  BY <1>1, <1>2, <1>3 DEF Agent

\* A request writes nothing; a new route is fresh.
LEMMA DeltasRequest ==
  ASSUME Second, Deltas, Request
  PROVE  Deltas'
<1> USE DEF Second, Base
<1>1. ASSUME NEW k \in Keys, NEW a \in Admissions, NEW r \in Routes, ProvisionNew(k, a, r)
      PROVE  Deltas'
  <2>1. /\ UNCHANGED <<delta, bound, outer, status, phase, drain, waiting>>
        /\ op = Idle /\ State(r) = "absent"
        /\ op'.pc = "create" /\ op'.route = r /\ op'.main = FALSE
    BY <1>1 DEF ProvisionNew, branches, control, Idle, Operations
  <2>2. \A x \in Routes \ {r} : mem'.route[x] = mem.route[x]
    BY <1>1, NewRoute
  <2>3. \A x \in Routes \ {r} : State(x)' = State(x)
    BY <2>2 DEF State
  <2>4. Fresh(r)
    BY <2>1 DEF Fresh
  <2>5. \A x \in Routes : Fresh(x)' => Fresh(x)
    BY <2>1, <2>3, <2>4 DEF Fresh
  <2>6. \A x \in Routes : Placed(x) => Placed(x)' \/ Fresh(x)
    BY <2>1, <2>3, <2>4, IdleFacts DEF Placed
  <2> QED
    BY <2>1, <2>5, <2>6, SameDeltas
<1>2. ASSUME NEW k \in Keys, NEW a \in Admissions, ProvisionRaises(k, a) \/ ProvisionAgain(k, a)
      PROVE  Deltas'
  <2>1. UNCHANGED <<delta, bound, outer, status, phase, drain, waiting, op>>
    BY <1>2 DEF ProvisionRaises, ProvisionAgain, branches, control
  <2>2. \A x \in Routes : mem'.route[x].state = mem.route[x].state
    BY <1>2, QuietSteps, SameRoute
  <2> QED
    BY <2>1, <2>2, SameDeltasQuiet
<1>3. ASSUME NEW k \in Keys, EndSession(k) PROVE Deltas'
  <2>1. UNCHANGED <<delta, bound, outer, status, phase, drain, waiting>> /\ op = Idle
    BY <1>3 DEF EndSession, branches, control, Operations
  <2>2. CASE mem'.route = mem.route /\ op' = op
    BY <2>1, <2>2, SameDeltasQuiet
  <2>3. ASSUME NEW r \in Live(k), Ends(r, FALSE) PROVE Deltas'
    <3>1. \A x \in Routes : State(x)' = State(x) \/ (State(x) = "active" /\ State(x)' = "quiescing")
      BY <2>3 DEF Ends, Only, State
    <3>2. op'.pc # "create"
      BY <2>3, IdleFacts DEF Ends
    <3>3. \A x \in Routes : Fresh(x)' => Fresh(x)
      BY <3>1, <3>2 DEF Fresh
    <3>4. \A x \in Routes : Placed(x) => Placed(x)'
      BY <2>1, <3>1, IdleFacts DEF Placed
    <3> QED
      BY <2>1, <3>3, <3>4, SameDeltas
  <2> QED
    BY <1>3, <2>2, <2>3, RequestedEnd
<1> QED
  BY <1>1, <1>2, <1>3 DEF Request

\* A merge during the finalization has nothing to merge.
LEMMA FinalMerge ==
  ASSUME Second, Deltas, phase = "finalizing", op.pc = "merge",
         NEW n, NEW conflicts, NEW mixed
  PROVE  Merged(n, conflicts, mixed) = outer
<1>1. op.route \in Routes /\ State(op.route) = "frozen"
  BY DEF Second, Base, Operations
<1>2. drain = {} /\ waiting = None /\ ~op.main
  BY DEF Second, Base, Operations
<1>3. ~Placed(op.route)
  BY <1>1, <1>2, RoutesAssumption DEF Placed
<1>4. delta[op.route] = {}
  BY <1>1, <1>3 DEF Deltas
<1>5. outer \in [Paths -> SUBSET Writers]
  BY DEF Second, Base, TypeOK
<1>6. Here(n) = {}
  BY <1>4 DEF Here
<1> QED
  BY <1>5, <1>6 DEF Merged

\* An operation takes its route from where writes may be to where they are
\* merged or kept for review.
LEMMA DeltasWork ==
  ASSUME Second, Deltas, Work
  PROVE  Deltas'
<1> USE DEF Second, Base
<1>0. op \in Operation
  BY DEF TypeOK
<1>1. CASE CreateChild \/ FreezeChild \/ Snapshot \/ Reload \/ BeforeMerge
  <2>1. UNCHANGED <<mem, delta, bound, outer, status, phase, drain, waiting>>
    BY <1>1 DEF CreateChild, FreezeChild, Snapshot, Reload, BeforeMerge, branches, control
  <2>2. op'.main = op.main /\ op'.route = op.route /\ (op'.pc = "create" => op.pc = "create")
    BY <1>0, <1>1 DEF CreateChild, FreezeChild, Snapshot, Reload, BeforeMerge, Operation
  <2> QED
    BY <2>1, <2>2, SameDeltasQuiet
<1>2. CASE MergeRoot
  <2>1. UNCHANGED <<mem, delta, bound, status, phase, drain, waiting>>
    BY <1>2 DEF MergeRoot, control
  <2>2. PICK conflicts : /\ op' = [op EXCEPT !.todo = @ \ {NextRoot}, !.conflicts = @ \cup conflicts]
                         /\ \E mixed : outer' = Merged(NextRoot, conflicts, mixed)
    BY <1>2 DEF MergeRoot
  <2>3. op'.main = op.main /\ op'.route = op.route /\ op'.pc = "merge"
    BY <1>0, <1>2, <2>2 DEF MergeRoot, Operation
  <2>4. phase \in {"finalizing", "finishing"} => outer' = outer
    BY <1>2, <2>2, FinalMerge DEF MergeRoot, Operations
  <2> QED
    BY <2>1, <2>3, <2>4, SameDeltasQuiet
<1>3. CASE MergeFails
  <2>1. UNCHANGED <<mem, delta, bound, status, phase, drain, waiting>>
    BY <1>3 DEF MergeFails, control
  <2>2. op'.main = op.main /\ op'.route = op.route /\ op'.pc = "merge"
    BY <1>0, <1>3 DEF MergeFails, Operation
  <2>3. outer' = outer \/ outer' = Merged(NextRoot, {}, {})
    BY <1>3 DEF MergeFails
  <2>4. phase \in {"finalizing", "finishing"} => outer' = outer
    BY <1>3, <2>3, FinalMerge DEF MergeFails, Operations
  <2> QED
    BY <2>1, <2>2, <2>4, SameDeltasQuiet
<1>4. CASE \/ Activate
           \/ \E made \in SUBSET Roots : \E kept \in SUBSET made : ProvisionFails(made, kept)
  <2>1. /\ UNCHANGED <<delta, bound, outer, status, phase, drain, waiting>>
        /\ op' = Idle /\ op.pc = "create"
    BY <1>4 DEF Activate, ProvisionFails, branches, control
  <2>2. ~op.main
    BY <2>1 DEF Operations
  <2>3. \A x \in Routes \ {op.route} : State(x)' = State(x)
    BY <1>4, WorkMoves DEF Only, State
  <2>4. Fresh(op.route)
    BY <2>1 DEF Fresh
  <2>5. \A x \in Routes : Fresh(x)' => Fresh(x)
    BY <2>1, <2>3, <2>4, IdleFacts DEF Fresh
  <2>6. \A x \in Routes : Placed(x) => Placed(x)' \/ Fresh(x)
    BY <2>1, <2>2, <2>3, <2>4 DEF Placed
  <2> QED
    BY <2>1, <2>5, <2>6, SameDeltas
<1>5. CASE RouteFrozen
  <2>1. UNCHANGED <<delta, bound, outer, status, phase, drain, waiting>>
    BY <1>5 DEF RouteFrozen, control
  <2>2. op'.main = op.main /\ op'.route = op.route /\ op'.pc = "before"
    BY <1>0, <1>5 DEF RouteFrozen, Operation
  <2>3. op.route \in Routes /\ State(op.route) = "quiescing"
    BY <1>5 DEF RouteFrozen, Operations
  <2>4. \A x \in Routes : State(x)' = State(x) \/ (x = op.route /\ State(x)' = "frozen")
    BY <1>5, WorkMoves DEF Only, State
  <2>5. \A x \in Routes : Fresh(x)' => Fresh(x)
    BY <2>2, <2>4 DEF Fresh
  <2>6. \A x \in Routes : Placed(x) => Placed(x)'
    BY <2>1, <2>2, <2>3, <2>4 DEF Placed
  <2> QED
    BY <2>1, <2>5, <2>6, SameDeltas
<1>6. CASE QuiesceFails \/ MergeDone
  <2>1. UNCHANGED <<delta, bound, outer, status, phase, drain, waiting>> /\ op' = Idle
    BY <1>6 DEF QuiesceFails, MergeDone, branches, control
  <2>2. op.pc \notin {"idle", "create"}
    BY <1>6 DEF QuiesceFails, MergeDone
  <2>3. \A x \in Routes : \/ State(x)' = State(x) /\ x # op.route
                          \/ State(x)' \in {"merged", "pending-review"}
    BY <1>6, WorkMoves DEF Only, State, MergeOutcome
  <2>4. \A x \in Routes : Fresh(x)' => Fresh(x)
    BY <2>1, <2>3, IdleFacts DEF Fresh
  <2>5. \A x \in Routes : Placed(x) => Placed(x)'
    BY <2>1, <2>3 DEF Placed
  <2> QED
    BY <2>1, <2>4, <2>5, SameDeltas
<1>7. ASSUME NEW roots \in SUBSET Roots, EndRaises(roots) PROVE Deltas'
  <2>1. mem'.route = mem.route
    BY <1>7, QuietSteps
  <2>2. UNCHANGED <<delta, bound, outer, status, drain, waiting>> /\ op' = Idle
    BY <1>7 DEF EndRaises, branches
  <2>3. \A x \in Routes : Fresh(x)' => Fresh(x)
    BY <2>1, <2>2, IdleFacts DEF Fresh, State
  <2>4. CASE ~op.main
    <3>1. phase' = phase
      BY <1>7, <2>4 DEF EndRaises
    <3>2. \A x \in Routes : Placed(x) => Placed(x)'
      BY <2>1, <2>2, <2>4 DEF Placed, State
    <3> QED
      BY <2>2, <2>3, <3>1, <3>2, SameDeltas
  <2>5. CASE op.main
    <3>1. phase' = "failed" /\ phase # "running"
      BY <1>7, <2>5 DEF EndRaises, Operations
    <3> QED
      BY <2>2, <2>3, <3>1 DEF Deltas
  <2> QED
    BY <2>4, <2>5
<1> QED
  BY <1>1, <1>2, <1>3, <1>4, <1>5, <1>6, <1>7 DEF Work

\* recover() passes over a route only if it has no writes or needs a review.
LEMMA DeltasMain ==
  ASSUME Second, Deltas, Main \/ AgentExit \/ Crash \/ Resume \/ Finish
  PROVE  Deltas'
<1> USE RoutesAssumption DEF Second, Base
<1>1. ASSUME NEW r \in Routes, RecoverNext(r) PROVE Deltas'
  <2>1. /\ UNCHANGED <<delta, bound, outer, status, phase, op>>
        /\ drain' = drain \ {r} /\ waiting = None
    BY <1>1 DEF RecoverNext, branches
  <2>2. State(r) \in {"active", "quiescing", "frozen"} => waiting' = r
    BY <1>1 DEF RecoverNext
  <2>3. State(r) \notin {"active", "quiescing", "frozen"} => waiting' = waiting
    BY <1>1 DEF RecoverNext
  <2>4. \A x \in Routes : State(x)' = IF x = r /\ State(r) = "provisioning"
                                      THEN "pending-review" ELSE State(x)
    BY <1>1, RecoveredNext DEF Only, State
  <2>5. State(r) \in RouteStates
    BY DEF TypeOK, Record, RouteRecord, State
  <2>6. \A x \in Routes : Fresh(x)' => Fresh(x)
    BY <2>1, <2>4 DEF Fresh
  <2>7. Placed(r)' \/ Fresh(r)
    BY <2>2, <2>4, <2>5 DEF Placed, Fresh, RouteStates
  <2>8. \A x \in Routes \ {r} : Placed(x) => Placed(x)'
    BY <2>1, <2>4 DEF Placed
  <2> QED
    BY <2>1, <2>6, <2>7, <2>8, SameDeltas
<1>2. CASE RecoverEnd
  <2>1. /\ UNCHANGED <<delta, bound, outer, status, phase, drain>>
        /\ waiting \in Routes /\ waiting' = None /\ op = Idle
    BY <1>2, RecoveredEnd DEF RecoverEnd, branches, Operations
  <2>2. State(waiting) \in RouteStates
    BY <2>1 DEF TypeOK, Record, RouteRecord, State
  <2>3. State(waiting) \in Unresolved => waiting \in Live(mem.route[waiting].key)
    BY <2>1 DEF Live
  <2>4. CASE Live(mem.route[waiting].key) = {} /\ mem' = mem /\ op' = op
    <3>1. State(waiting) \in {"absent", "failed", "merged"}
      BY <2>2, <2>3, <2>4 DEF Unresolved, RouteStates
    <3>2. \A x \in Routes : Fresh(x)' => Fresh(x)
      BY <2>4 DEF Fresh, State
    <3>3. \A x \in Routes : Placed(x) => Placed(x)' \/ Fresh(x)
      BY <2>1, <2>4, <3>1 DEF Placed, Fresh, State
    <3> QED
      BY <2>1, <3>2, <3>3, SameDeltas
  <2>5. ASSUME NEW r \in Live(mem.route[waiting].key), Ends(r, TRUE) PROVE Deltas'
    <3>1. r \in Routes /\ State(r) \in Unresolved
      BY DEF Live
    <3>2. \A x \in Routes : State(x)' = State(x) \/ (State(x) = "active" /\ State(x)' = "quiescing")
      BY <2>5 DEF Ends, Only, State
    <3>3. State(waiting) \in Unresolved => r = waiting
      BY <2>1, <2>3, <2>5, <3>1 DEF Live, OneLiveRoutePerKey
    <3>4. op'.pc # "create"
      BY <2>5, IdleFacts DEF Ends
    <3>5. \A x \in Routes : Fresh(x)' => Fresh(x)
      BY <3>2, <3>4 DEF Fresh
    <3>6. State(r) \in {"active", "quiescing", "frozen"} => op'.main /\ op'.route = r
      BY <2>5 DEF Ends
    <3>7. ASSUME NEW w \in Routes, w = waiting PROVE Placed(w)' \/ Fresh(w)
      <4>1. CASE State(w) \in {"active", "quiescing", "frozen"}
        BY <3>3, <3>6, <3>7, <4>1 DEF Placed, Unresolved
      <4>2. CASE State(w) \in {"pending-review", "merged"}
        BY <3>2, <4>2 DEF Placed
      <4>3. CASE State(w) \in {"absent", "provisioning", "failed"}
        BY <4>3 DEF Fresh
      <4> QED
        BY <2>2, <3>7, <4>1, <4>2, <4>3 DEF RouteStates
    <3>8. \A x \in Routes : x # waiting /\ Placed(x) => Placed(x)'
      BY <2>1, <3>2, IdleFacts DEF Placed
    <3> QED
      BY <2>1, <3>5, <3>7, <3>8, SameDeltas
  <2> QED
    BY <1>2, <2>4, <2>5, RecoveredEnd
<1>3. ASSUME QuietMain
      PROVE  mem'.route = mem.route /\ delta' = delta /\ (\A x \in Routes : op' = op => Fresh(x)' = Fresh(x))
                                    /\ (\A x \in Routes : op' = Idle => (Fresh(x)' => Fresh(x)))
  <2>1. mem'.route = mem.route
    BY <1>3, QuietSteps
  <2>2. delta' = delta
    BY <1>3 DEF QuietMain, Started, AgentExit, FreezeOuter, Conclude, Crash, Resume, Finish, branches
  <2> QED
    BY <2>1, <2>2, IdleFacts DEF Fresh, State
<1>4. CASE Started
  <2>1. UNCHANGED <<bound, op>> /\ phase' = "running"
    BY <1>4 DEF Started, branches
  <2> QED
    BY <1>3, <1>4, <2>1 DEF Deltas, QuietMain
<1>5. CASE AgentExit
  <2>1. UNCHANGED op /\ bound' = {} /\ phase' = "draining" /\ drain' = ToRecover(mem)
    BY <1>5 DEF AgentExit
  <2>2. \A r \in Routes : Fresh(r) \/ Placed(r)'
    BY <2>1 DEF Fresh, Placed, ToRecover, State
  <2> QED
    BY <1>3, <1>5, <2>1, <2>2 DEF Deltas, QuietMain
<1>6. CASE FreezeOuter
  <2>1. /\ UNCHANGED <<op, bound, outer, drain, waiting>> /\ phase = "draining" /\ phase' = "finalizing"
        /\ status' = {p \in Paths : outer[p] # {}}
    BY <1>6 DEF FreezeOuter, OuterChanges, branches
  <2>2. \A r \in Routes : Placed(r) => Placed(r)'
    BY <1>3, <1>6, <2>1 DEF Placed, State, QuietMain
  <2> QED
    BY <1>3, <1>6, <2>1, <2>2 DEF Deltas, QuietMain
<1>7. CASE Conclude \/ Crash
  <2>1. /\ op' = Idle /\ bound' = {}
        /\ phase' \in {"auto-committed", "pending-review", "crashed"}
    BY <1>7 DEF Conclude, Crash, Deltas
  <2> QED
    BY <1>3, <1>7, <2>1 DEF Deltas, QuietMain
<1>8. CASE Resume \/ Finish
  <2>1. /\ UNCHANGED <<op, bound, outer>> /\ bound = {}
        /\ phase' \in {"starting", "finishing"}
        /\ phase' = "finishing" => status' = {p \in Paths : outer[p] # {}}
    BY <1>8 DEF Resume, Finish, OuterChanges, branches, Deltas
  <2> QED
    BY <1>3, <1>8, <2>1 DEF Deltas, QuietMain
<1> QED
  BY <1>1, <1>2, <1>4, <1>5, <1>6, <1>7, <1>8 DEF Main

Third == Second /\ Deltas

\* The third layer is inductive.
LEMMA ThirdStep == Third /\ [Next]_vars => Third'
<1>1. ASSUME Third, UNCHANGED vars PROVE Deltas'
  BY <1>1 DEF Third, Deltas, Fresh, Placed, State, vars
<1>2. ASSUME Third, Next PROVE Deltas'
  BY <1>2, DeltasAgent, DeltasRequest, DeltasWork, DeltasMain DEF Third, Next
<1> QED
  BY <1>1, <1>2, SecondStep DEF Third

\* The third layer holds in every reachable state.
LEMMA ThirdCorrectness == Spec => []Third
<1>1. Init => Third
  BY BaseInit, SecondInit, DeltasInit DEF Second, Third
<1> QED
  BY <1>1, ThirdStep, PTL DEF Spec

\* Only the conclusion closes a session without review.
LEMMA ClosedByConclusion ==
  ASSUME Third, [Next]_vars, Closes
  PROVE  Conclude /\ Automatic
<1>1. CASE UNCHANGED vars
  BY <1>1 DEF Closes, vars
<1>2. CASE Agent
  BY <1>2 DEF Closes, Agent, Lookup, RoutedWrite, OuterWrite, TurnCommit, control
<1>3. CASE Request
  BY <1>3 DEF Closes, Request, ProvisionNew, ProvisionRaises, ProvisionAgain, EndSession, control
<1>4. CASE Work
  BY <1>4 DEF Closes, Work, CreateChild, Activate, ProvisionFails, FreezeChild, Snapshot,
    RouteFrozen, QuiesceFails, Reload, BeforeMerge, MergeRoot, MergeFails, MergeDone, EndRaises, control
<1>5. CASE \/ \E r \in Routes : RecoverNext(r)
           \/ RecoverEnd \/ Started \/ FreezeOuter \/ AgentExit \/ Crash \/ Resume \/ Finish
  BY <1>5 DEF Closes, RecoverNext, RecoverEnd, Started, FreezeOuter, AgentExit, Crash, Resume, Finish
<1>6. CASE Conclude
  BY <1>6 DEF Closes, Conclude
<1> QED
  BY <1>1, <1>2, <1>3, <1>4, <1>5, <1>6 DEF Next, Main

\* No session is closed without review while a routed write is outside of the
\* outer branch, and everything in the outer branch reaches the underlay.
THEOREM RoutedWritesKept == Spec => NoRoutedWriteLost
<1>1. ASSUME Third, [Next]_vars, Closes
      PROVE  /\ \A r \in Routes : \A p \in delta[r] : child[r][RootOf[p]] = "merged"
             /\ \A p \in Paths : outer[p] # {} => p \in status /\ base'[p] = outer[p]
  <2>1. Conclude /\ Automatic /\ phase' = "auto-committed"
    BY <1>1, ClosedByConclusion DEF Closes
  <2>2. \A r \in Routes : State(r) \notin Unresolved
    BY <2>1 DEF Automatic, Blocked
  <2>3. ASSUME NEW r \in Routes, NEW p \in delta[r]
        PROVE  child[r][RootOf[p]] = "merged"
    <3>1. State(r) \in RouteStates /\ p \in Paths
      BY <1>1 DEF Third, Second, Base, TypeOK, Record, RouteRecord, State
    <3>2. ~Fresh(r)
      BY <1>1 DEF Third, Deltas
    <3>3. State(r) = "merged"
      BY <2>2, <3>1, <3>2 DEF Fresh, Unresolved, RouteStates
    <3> QED
      BY <1>1, <3>1, <3>3, RoutesAssumption DEF Third, Second, Branches
  <2>4. ASSUME NEW p \in Paths, outer[p] # {} PROVE p \in status /\ base'[p] = outer[p]
    <3>1. p \in status
      BY <1>1, <2>1, <2>4 DEF Third, Deltas, Conclude
    <3>2. base' = [q \in Paths |-> IF q \in status THEN outer[q] ELSE base[q]]
      BY <2>1 DEF Conclude
    <3> QED
      BY <3>1, <3>2
  <2> QED
    BY <2>3, <2>4
<1>2. Third /\ [Next]_vars =>
        [Closes => /\ \A r \in Routes : \A p \in delta[r] : child[r][RootOf[p]] = "merged"
                   /\ \A p \in Paths : outer[p] # {} => p \in status /\ base'[p] = outer[p]]_vars
  BY <1>1
<1> QED
  BY <1>2, ThirdCorrectness, PTL DEF Spec, NoRoutedWriteLost

-----------------------------------------------------------------------------
(* Fourth layer: whose content an attribution speaks of.                   *)

\* Initially there is no attribution and no snapshot.
LEMMA OwnersInit == Init => Owners
  BY DEF Init, Owners, Sound, Owned, Named, Snapshots, NoAttribution, State, Idle

\* A settled route stays settled, with the admission it has; no route becomes
\* fresh; and only the end of a merge makes a route merged.
Steady ==
  \A x \in Routes :
    /\ Settled(x) => Settled(x)' /\ mem'.route[x].admitted = mem.route[x].admitted
    /\ Fresh(x)' => Fresh(x)
    /\ State(x)' = "merged" => State(x) = "merged" \/ (MergeDone /\ x = op.route)

\* Every step keeps routes steady.
LEMMA SteadyStep ==
  ASSUME Third, [Next]_vars
  PROVE  Steady
<1> USE DEF Third, Second, Base
<1>0. op \in Operation /\ (op.pc = "idle" => op = Idle) /\ (op.pc # "idle" => op.route \in Routes)
  BY DEF TypeOK, Operations
<1>1. ASSUME mem'.route = mem.route, op'.pc = "create" => op.pc = "create" /\ op'.route = op.route
      PROVE  Steady
  BY <1>1 DEF Steady, Settled, Fresh, State
<1>2. ASSUME Agent PROVE Steady
  <2>1. op' = op
    BY <1>2 DEF Agent, Lookup, RoutedWrite, OuterWrite, TurnCommit
  <2> QED
    BY <1>1, <1>2, <2>1, QuietSteps
<1>3. ASSUME QuietWork PROVE Steady
  <2>1. op'.pc = "create" => op.pc = "create" /\ op'.route = op.route
    BY <1>0, <1>3 DEF QuietWork, CreateChild, FreezeChild, Snapshot, Reload, BeforeMerge,
                      MergeRoot, MergeFails, Operation
  <2> QED
    BY <1>1, <1>3, <2>1, QuietSteps
<1>4. ASSUME QuietMain PROVE Steady
  <2>1. op' = op \/ op' = Idle
    BY <1>4 DEF QuietMain, Started, AgentExit, FreezeOuter, Conclude, Crash, Resume, Finish
  <2> QED
    BY <1>1, <1>4, <2>1, QuietSteps, IdleFacts
<1>5. ASSUME UNCHANGED vars PROVE Steady
  BY <1>1, <1>5 DEF vars
<1>6. ASSUME NEW k \in Keys, NEW a \in Admissions, ProvisionRaises(k, a) \/ ProvisionAgain(k, a)
      PROVE  Steady
  <2>1. op' = op
    BY <1>6 DEF ProvisionRaises, ProvisionAgain
  <2> QED
    BY <1>1, <1>6, <2>1, QuietSteps, SameRoute DEF Steady, Settled, Fresh, State
<1>7. ASSUME NEW k \in Keys, NEW a \in Admissions, NEW r \in Routes, ProvisionNew(k, a, r)
      PROVE  Steady
  <2>1. State(r) = "absent" /\ op'.route = r
    BY <1>7 DEF ProvisionNew, Idle
  <2>2. \A x \in Routes \ {r} : mem'.route[x] = mem.route[x]
    BY <1>7, NewRoute
  <2>3. mem'.route[r].state = "provisioning"
    <3>1. mem'.route[r] = [state |-> "provisioning", key |-> k, admitted |-> a]
      BY <1>7, NewRoute, Zenon
    <3> QED
      BY <3>1
  <2> QED
    BY <2>1, <2>2, <2>3 DEF Steady, Settled, Fresh, State
<1>8. ASSUME NEW r, NEW main, Ends(r, main) PROVE Steady
  <2>1. op'.pc # "create"
    BY <1>8, IdleFacts DEF Ends
  <2>2. \A x \in Routes : /\ mem'.route[x].admitted = mem.route[x].admitted
                          /\ State(x)' = State(x) \/ (State(x) = "active" /\ State(x)' = "quiescing")
    BY <1>8 DEF Ends, Only, State
  <2> QED
    BY <2>1, <2>2 DEF Steady, Settled, Fresh
<1>9. ASSUME NEW k \in Keys, EndSession(k) PROVE Steady
  BY <1>1, <1>8, <1>9, RequestedEnd
<1>10. CASE RecoverEnd
  BY <1>1, <1>8, <1>10, RecoveredEnd
<1>11. ASSUME NEW r \in Routes, RecoverNext(r) PROVE Steady
  <2>1. op' = op
    BY <1>11 DEF RecoverNext
  <2>2. \A x \in Routes : /\ mem'.route[x].admitted = mem.route[x].admitted
                          /\ State(x)' \in {State(x), "pending-review"}
    BY <1>11, RecoveredNext DEF Only, State
  <2> QED
    BY <2>1, <2>2 DEF Steady, Settled, Fresh
<1>12. CASE \/ Activate
            \/ \E made \in SUBSET Roots : \E kept \in SUBSET made : ProvisionFails(made, kept)
  <2>1. op' = Idle /\ op.pc = "create"
    BY <1>12 DEF Activate, ProvisionFails
  <2>2. \A x \in Routes : /\ mem'.route[x].admitted = mem.route[x].admitted
                          /\ IF x = op.route THEN State(x)' \in {"active", "failed", "pending-review"}
                             ELSE State(x)' = State(x)
    BY <1>12, WorkMoves DEF Only, State
  <2> QED
    BY <2>1, <2>2, IdleFacts DEF Steady, Settled, Fresh
<1>13. CASE RouteFrozen \/ QuiesceFails \/ MergeDone
  <2>1. op'.pc \in {"idle", "before"}
    BY <1>0, <1>13, IdleFacts DEF RouteFrozen, QuiesceFails, MergeDone, Operation
  <2>2. \A x \in Routes : /\ mem'.route[x].admitted = mem.route[x].admitted
                          /\ \/ State(x)' \in {State(x), "frozen", "pending-review"}
                             \/ State(x)' = "merged" /\ MergeDone /\ x = op.route
    BY <1>13, WorkMoves DEF Only, State, MergeOutcome
  <2> QED
    BY <2>1, <2>2 DEF Steady, Settled, Fresh
<1>14. ASSUME NEW roots \in SUBSET Roots, EndRaises(roots) PROVE Steady
  <2>1. op' = Idle
    BY <1>14 DEF EndRaises
  <2> QED
    BY <1>1, <1>14, <2>1, QuietSteps, IdleFacts
<1> QED
  BY <1>2, <1>3, <1>4, <1>5, <1>6, <1>7, <1>9, <1>10, <1>11, <1>12, <1>13, <1>14, StepKinds

\* Nested branches keep what was written into them; a snapshot is taken of a
\* quiescing route only, and lists what its branches hold.
Writes ==
  \A x \in Routes :
    /\ delta[x] \subseteq delta'[x]
    /\ \/ snap'[x] = snap[x]
       \/ State(x) = "quiescing" /\ ~Fresh(x) /\ snap'[x] \subseteq delta[x]

\* Every step is such a one.
LEMMA WritesStep ==
  ASSUME Third, [Next]_vars
  PROVE  Writes
<1> USE DEF Third, Second, Base
<1>0. /\ op \in Operation /\ (op.pc # "idle" => op.route \in Routes)
      /\ delta \in [Routes -> SUBSET Paths] /\ snap \in [Routes -> SUBSET Paths]
  BY DEF TypeOK, Operations
<1>1. ASSUME UNCHANGED <<snap, delta>> PROVE Writes
  BY <1>1 DEF Writes
<1>2. CASE Agent
  <2>1. ASSUME NEW r \in Routes, NEW p \in Paths, RoutedWrite(r, p) PROVE Writes
    BY <1>0, <2>1 DEF RoutedWrite, Writes
  <2>2. ASSUME NEW r \in Routes, Lookup(r) PROVE Writes
    BY <1>1, <2>2 DEF Lookup
  <2>3. ASSUME NEW p \in Paths, OuterWrite(p) \/ TurnCommit(p) PROVE Writes
    BY <1>1, <2>3 DEF OuterWrite, TurnCommit
  <2> QED
    BY <1>2, <2>1, <2>2, <2>3 DEF Agent
<1>3. CASE Snapshot
  <2>1. op.pc = "freeze" /\ op.route \in Routes /\ State(op.route) = "quiescing" /\ UNCHANGED delta
    BY <1>0, <1>3 DEF Snapshot, Operations
  <2>2. PICK listed \in SUBSET delta[op.route] : snap' = [snap EXCEPT ![op.route] = listed]
    BY <1>3 DEF Snapshot
  <2> QED
    BY <1>0, <2>1, <2>2 DEF Writes, Fresh
<1>4. CASE \/ CreateChild \/ FreezeChild \/ Reload \/ BeforeMerge \/ MergeRoot \/ MergeFails
           \/ Activate \/ RouteFrozen \/ QuiesceFails \/ MergeDone
           \/ \E made \in SUBSET Roots : \E kept \in SUBSET made : ProvisionFails(made, kept)
           \/ \E roots \in SUBSET Roots : EndRaises(roots)
  <2>1. UNCHANGED <<snap, delta>>
    BY <1>4 DEF CreateChild, FreezeChild, Reload, BeforeMerge, MergeRoot, MergeFails, Activate,
                RouteFrozen, QuiesceFails, MergeDone, ProvisionFails, EndRaises, branches
  <2> QED
    BY <1>1, <2>1
<1>5. CASE Request \/ Main \/ AgentExit \/ Crash \/ Resume \/ Finish \/ UNCHANGED vars
  <2>1. UNCHANGED <<snap, delta>>
    BY <1>5 DEF Request, ProvisionNew, ProvisionRaises, ProvisionAgain, EndSession, Main, RecoverNext,
                RecoverEnd, Started, FreezeOuter, Conclude, AgentExit, Crash, Resume, Finish, branches, vars
  <2> QED
    BY <1>1, <2>1
<1> QED
  BY <1>2, <1>3, <1>4, <1>5 DEF Next, Work

\* Attributions that are sound before a step are sound after it, unless the
\* step makes a route merged.
LEMMA SoundKept ==
  ASSUME Third, Steady, Writes, NEW path, Sound(path)
  PROVE  /\ mem'.path = path => Owned(mem.path)' /\ (~MergeDone => Named(mem.path)')
         /\ disk'.path = path => Owned(disk.path)' /\ (~MergeDone => Named(disk.path)')
<1>1. ASSUME NEW p \in Paths
      PROVE  /\ \A r \in path[p].ids : Settled(r)'
             /\ path[p].category = "attributed" =>
                  \E r \in Routes : /\ path[p].ids = {r}
                                    /\ p \in delta'[r]
                                    /\ p \in mem'.route[r].admitted
  <2>1. \A r \in path[p].ids : r \in Routes /\ Settled(r)
    BY DEF Sound, Owned, Settled
  <2>2. \A r \in path[p].ids : /\ Settled(r)' /\ mem'.route[r].admitted = mem.route[r].admitted
                              /\ delta[r] \subseteq delta'[r]
    BY <2>1 DEF Steady, Writes
  <2>3. ASSUME path[p].category = "attributed"
        PROVE  \E r \in Routes : /\ path[p].ids = {r}
                                 /\ p \in delta'[r]
                                 /\ p \in mem'.route[r].admitted
    <3>1. PICK r \in Routes : /\ path[p].ids = {r}
                              /\ p \in delta[r]
                              /\ p \in mem.route[r].admitted
      BY <2>3 DEF Sound, Owned
    <3> QED
      BY <2>2, <3>1
  <2> QED
    BY <2>2, <2>3
<1>2. ASSUME ~MergeDone, NEW r \in Routes, State(r)' = "merged", NEW p \in snap'[r]
      PROVE  r \in path[p].ids
  <2>1. State(r) = "merged"
    BY <1>2 DEF Steady
  <2>2. snap'[r] = snap[r]
    BY <2>1 DEF Writes
  <2> QED
    BY <1>2, <2>1, <2>2 DEF Sound, Named
<1> QED
  BY <1>1, <1>2 DEF Owned, Named

\* What _record_attribution adds is sound: it names the route, and attributes
\* only a path of its snapshot below the roots admitted for it.
LEMMA AttributionSound ==
  ASSUME Third, Owners, op.pc = "merge", op.todo = {}, NEW roots \in SUBSET Roots
  PROVE  /\ Sound(RecordAttribution(roots).path)
         /\ \A p \in snap[op.route] : RootOf[p] \in roots =>
              op.route \in RecordAttribution(roots).path[p].ids
<1> DEFINE new == RecordAttribution(roots).path
<1>1. op.route \in Routes /\ TypeOK /\ State(op.route) = "frozen"
  BY DEF Third, Second, Base, Operations
<1>2. \A p \in Paths : new[p] =
              IF p \in snap[op.route] /\ RootOf[p] \in roots
              THEN [category    |-> Category(p),
                    ids         |-> mem.path[p].ids \cup {op.route},
                    fingerprint |-> IF Conflict(p) THEN {} ELSE outer[p]]
              ELSE mem.path[p]
  BY <1>1, RoutesAssumption, AttributionFacts
<1>3. Settled(op.route)
  BY <1>1 DEF Settled
<1> HIDE DEF new
<1>4. ASSUME NEW p \in Paths, p \in snap[op.route], RootOf[p] \in roots
      PROVE  /\ \A r \in new[p].ids : Settled(r)
             /\ new[p].category = "attributed" =>
                  \E r \in Routes : /\ new[p].ids = {r}
                                    /\ p \in delta[r]
                                    /\ p \in mem.route[r].admitted
  <2>1. /\ new[p].category = Category(p)
        /\ new[p].ids = mem.path[p].ids \cup {op.route}
        /\ new[p].fingerprint = IF Conflict(p) THEN {} ELSE outer[p]
    <3>1. new[p] = [category    |-> Category(p),
                    ids         |-> mem.path[p].ids \cup {op.route},
                    fingerprint |-> IF Conflict(p) THEN {} ELSE outer[p]]
      BY <1>2, <1>4, Zenon
    <3> QED
      BY <3>1
  <2>2. \A r \in mem.path[p].ids : Settled(r)
    BY DEF Owners, Sound, Owned
  <2>3. ASSUME Category(p) = "attributed"
        PROVE  /\ mem.path[p].ids \in {{}, {op.route}} /\ p \notin op.before
               /\ ~Conflict(p) /\ p \in mem.route[op.route].admitted
    <3>1. mem.path[p].ids \in {{}, {op.route}} /\ p \notin op.before
      BY <2>3 DEF Category
    <3>2. Category(p) = CASE Conflict(p) -> "conflicted"
                          [] ~Conflict(p) /\ p \in mem.route[op.route].admitted -> "attributed"
                          [] OTHER -> "attributed-out-of-scope"
      BY <3>1 DEF Category
    <3>3. ASSUME Conflict(p) PROVE Category(p) = "conflicted"
      BY <3>2, <3>3
    <3>4. ASSUME ~Conflict(p), p \notin mem.route[op.route].admitted
          PROVE  Category(p) = "attributed-out-of-scope"
      BY <3>2, <3>4
    <3> QED
      BY <2>3, <3>1, <3>3, <3>4
  <2>4. p \in delta[op.route]
    BY <1>1, <1>4 DEF Owners, Snapshots
  <2> QED
    BY <1>1, <1>3, <2>1, <2>2, <2>3, <2>4
<1>5. ASSUME NEW p \in Paths, ~(p \in snap[op.route] /\ RootOf[p] \in roots)
      PROVE  new[p] = mem.path[p]
  BY <1>2, <1>5
<1>6. Owned(new)
  BY <1>4, <1>5 DEF Owners, Sound, Owned
<1>7. \A p \in Paths : /\ mem.path[p].ids \subseteq new[p].ids
                       /\ p \in snap[op.route] /\ RootOf[p] \in roots => op.route \in new[p].ids
  <2>1. ASSUME NEW p \in Paths, p \in snap[op.route], RootOf[p] \in roots
        PROVE  new[p].ids = mem.path[p].ids \cup {op.route}
    <3>1. new[p] = [category    |-> Category(p),
                    ids         |-> mem.path[p].ids \cup {op.route},
                    fingerprint |-> IF Conflict(p) THEN {} ELSE outer[p]]
      BY <1>2, <2>1, Zenon
    <3> QED
      BY <3>1
  <2> QED
    BY <1>5, <2>1
<1>8. \A r \in Routes : snap[r] \subseteq Paths
  BY <1>1 DEF TypeOK
<1>9. Named(new)
  BY <1>7, <1>8 DEF Owners, Sound, Named
<1> QED
  BY <1>1, <1>6, <1>7, <1>8, <1>9 DEF Sound, new

\* Attributions stay sound.
LEMMA SoundStep ==
  ASSUME Third, Owners, [Next]_vars
  PROVE  Sound(mem.path)' /\ Sound(disk.path)'
<1> USE DEF Third, Second, Base
<1>0. Steady /\ Writes /\ Sound(mem.path) /\ Sound(disk.path)
  BY SteadyStep, WritesStep DEF Owners
<1>11. CASE MergeDone
  <2>1. mem'.path = RecordAttribution(Roots).path /\ disk' = mem'
    BY <1>11, WorkMoves DEF MergeDone, Save
  <2>2. op.pc = "merge" /\ op.todo = {} /\ UNCHANGED snap
    BY <1>11 DEF MergeDone, branches
  <2>3. /\ Sound(RecordAttribution(Roots).path)
        /\ \A p \in snap[op.route] : RootOf[p] \in Roots =>
             op.route \in RecordAttribution(Roots).path[p].ids
    BY <2>2, AttributionSound
  <2>4. Owned(mem.path)' /\ Owned(disk.path)'
    BY <1>0, <2>1, <2>3, SoundKept
  <2>5. ASSUME NEW r \in Routes, State(r)' = "merged", NEW p \in snap[r]
        PROVE  r \in RecordAttribution(Roots).path[p].ids
    <3>1. p \in Paths /\ RootOf[p] \in Roots
      BY RoutesAssumption DEF TypeOK
    <3>2. CASE r = op.route
      BY <2>3, <2>5, <3>1, <3>2
    <3>3. CASE r # op.route
      <4>1. State(r) = "merged"
        BY <1>0, <2>5, <3>3 DEF Steady
      <4> QED
        BY <2>3, <2>5, <4>1 DEF Sound, Named
    <3> QED
      BY <3>2, <3>3
  <2>6. Named(mem.path)' /\ Named(disk.path)'
    BY <2>1, <2>2, <2>5 DEF Named
  <2> QED
    BY <2>4, <2>6 DEF Sound
<1> SUFFICES ASSUME ~MergeDone PROVE Sound(mem.path)' /\ Sound(disk.path)'
  BY <1>11
<1>1. ASSUME mem'.path \in {mem.path, disk.path}, disk'.path \in {mem.path, disk.path}
      PROVE  Sound(mem.path)' /\ Sound(disk.path)'
  BY <1>0, <1>1, SoundKept DEF Sound
<1>2. CASE Agent \/ QuietWork \/ UNCHANGED vars
  <2>1. mem' = mem /\ (disk' = disk \/ disk' = mem)
    BY <1>2 DEF Agent, Lookup, RoutedWrite, OuterWrite, TurnCommit, QuietWork, CreateChild, FreezeChild,
       Snapshot, Reload, BeforeMerge, MergeRoot, MergeFails, Save, vars
  <2> QED
    BY <1>1, <2>1
<1>3. CASE Started \/ AgentExit \/ FreezeOuter \/ Crash \/ Resume \/ Finish
  <2>1. CASE Started
    BY <1>1, <2>1 DEF Started, Save, TypeOK, Record
  <2>2. CASE AgentExit \/ FreezeOuter \/ Crash \/ Resume \/ Finish
    BY <1>1, <2>2 DEF AgentExit, FreezeOuter, Crash, Resume, Finish, Save
  <2> QED
    BY <1>3, <2>1, <2>2
<1>4. CASE Conclude
  <2>1. mem' = Reconciled /\ disk' = Reconciled
    BY <1>4 DEF Conclude, Save
  <2>2. Sound(Reconciled.path)
    <3>1. \A p \in Paths : /\ Reconciled.path[p].ids = mem.path[p].ids
                           /\ Reconciled.path[p].fingerprint = mem.path[p].fingerprint
                           /\ Reconciled.path[p].category = "attributed" =>
                                mem.path[p].category = "attributed"
      BY ReconciledFacts
    <3>2. \A r \in Routes : snap[r] \subseteq Paths
      BY DEF TypeOK
    <3> QED
      BY <1>0, <3>1, <3>2 DEF Sound, Owned, Named
  <2> QED
    BY <1>0, <2>1, <2>2, SoundKept DEF Sound
<1>5. ASSUME NEW k \in Keys, NEW a \in Admissions, ProvisionRaises(k, a) \/ ProvisionAgain(k, a)
      PROVE  Sound(mem.path)' /\ Sound(disk.path)'
  <2>1. mem'.path = mem.path
    BY <1>5, QuietSteps, SameRoute
  <2>2. disk' = mem'
    BY <1>5 DEF ProvisionRaises, ProvisionAgain, Save
  <2> QED
    BY <1>1, <2>1, <2>2
<1>6. ASSUME NEW k \in Keys, NEW a \in Admissions, NEW r \in Routes, ProvisionNew(k, a, r)
      PROVE  Sound(mem.path)' /\ Sound(disk.path)'
  <2>1. mem'.path = mem.path
    BY <1>6, NewRoute
  <2>2. disk' = mem'
    BY <1>6 DEF ProvisionNew, Save
  <2> QED
    BY <1>1, <2>1, <2>2
<1>7. ASSUME NEW k \in Keys, EndSession(k) PROVE Sound(mem.path)' /\ Sound(disk.path)'
  BY <1>1, <1>7, RequestedEnd DEF Ends
<1>8. CASE RecoverEnd
  BY <1>1, <1>8, RecoveredEnd DEF Ends
<1>9. ASSUME NEW r \in Routes, RecoverNext(r) PROVE Sound(mem.path)' /\ Sound(disk.path)'
  BY <1>1, <1>9, RecoveredNext
<1>10. CASE \/ Activate \/ RouteFrozen \/ QuiesceFails
            \/ \E made \in SUBSET Roots : \E kept \in SUBSET made : ProvisionFails(made, kept)
  <2>1. mem'.path = mem.path
    <3>1. CASE Activate \/ RouteFrozen \/ QuiesceFails
      BY <3>1, WorkMoves
    <3>2. ASSUME NEW made, NEW kept, ProvisionFails(made, kept) PROVE mem'.path = mem.path
      BY <3>2, WorkMoves
    <3> QED
      BY <1>10, <3>1, <3>2
  <2>2. disk' = mem'
    <3>1. CASE Activate \/ RouteFrozen \/ QuiesceFails
      BY <3>1 DEF Activate, RouteFrozen, QuiesceFails, Save
    <3>2. ASSUME NEW made, NEW kept, ProvisionFails(made, kept) PROVE disk' = mem'
      BY <3>2 DEF ProvisionFails, Save
    <3> QED
      BY <1>10, <3>1, <3>2
  <2> QED
    BY <1>1, <2>1, <2>2
<1>12. ASSUME NEW roots \in SUBSET Roots, EndRaises(roots)
       PROVE  Sound(mem.path)' /\ Sound(disk.path)'
  <2>1. mem'.path = RecordAttribution(roots).path
    BY <1>12, QuietSteps
  <2>2. disk' = mem' \/ disk' = disk
    BY <1>12 DEF EndRaises
  <2>3. CASE op.pc = "merge"
    <3>1. Sound(RecordAttribution(roots).path)
      BY <1>12, <2>3, AttributionSound DEF EndRaises
    <3> QED
      BY <1>0, <2>1, <2>2, <3>1, SoundKept DEF Sound
  <2>4. CASE op.pc # "merge"
    <3>1. roots = {} /\ op.route \in Routes
      BY <1>12, <2>4 DEF EndRaises, Operations
    <3>2. \A p \in Paths : mem'.path[p] = mem.path[p]
      <4>1. \A p \in Paths : RecordAttribution(roots).path[p] =
              IF p \in snap[op.route] /\ RootOf[p] \in roots
              THEN [category    |-> Category(p),
                    ids         |-> mem.path[p].ids \cup {op.route},
                    fingerprint |-> IF Conflict(p) THEN {} ELSE outer[p]]
              ELSE mem.path[p]
        BY <3>1, RoutesAssumption, AttributionFacts, Zenon
      <4>2. \A p \in Paths : RootOf[p] \notin roots
        BY <3>1
      <4> QED
        BY <2>1, <4>1, <4>2
    <3>3. RecordAttribution(roots) \in Record /\ mem' = RecordAttribution(roots)
      BY <1>12, <3>1, RoutesAssumption, AttributionFacts DEF EndRaises
    <3>4. mem'.path = mem.path
      BY <3>2, <3>3 DEF Record, TypeOK
    <3> QED
      BY <1>1, <2>2, <3>4
  <2> QED
    BY <2>3, <2>4
<1> QED
  BY <1>2, <1>3, <1>4, <1>5, <1>6, <1>7, <1>8, <1>9, <1>10, <1>11, <1>12, StepKinds DEF QuietMain

\* A snapshot lists only what its route has written.
LEMMA SnapshotsStep ==
  ASSUME Third, Owners, [Next]_vars
  PROVE  Snapshots'
<1>1. Steady /\ Writes /\ Snapshots
  BY SteadyStep, WritesStep DEF Owners
<1>2. ASSUME NEW x \in Routes PROVE snap'[x] \subseteq delta'[x] /\ (Fresh(x)' => snap'[x] = {})
  <2>1. delta[x] \subseteq delta'[x] /\ snap[x] \subseteq delta[x] /\ (Fresh(x) => snap[x] = {})
    BY <1>1 DEF Writes, Snapshots
  <2>2. \/ snap'[x] = snap[x]
        \/ ~Fresh(x) /\ snap'[x] \subseteq delta[x]
    BY <1>1 DEF Writes
  <2>3. Fresh(x)' => Fresh(x)
    BY <1>1 DEF Steady
  <2> QED
    BY <2>1, <2>2, <2>3
<1> QED
  BY <1>2 DEF Snapshots

\* What is applied outside of every scope was written by a route below the
\* roots admitted for it, and no other route's snapshot lists it: whatever
\* unrouted processes do, whatever fails, and whatever a status overlooked.
THEOREM AppliedPathsAreAttributed == Spec => AppliedIsAttributed
<1>1. Init => Third /\ Owners
  BY BaseInit, SecondInit, DeltasInit, OwnersInit DEF Second, Third
<1>2. Third /\ Owners /\ [Next]_vars => (Third /\ Owners)'
  <2>1. ASSUME Third, Owners, [Next]_vars PROVE Owners'
    BY <2>1, SoundStep, SnapshotsStep DEF Owners
  <2> QED
    BY <2>1, ThirdStep
<1>3. ASSUME Third, Owners, [Next]_vars, Closes,
             NEW p \in status \ (Scope \cup UNION {mem.granted[k] : k \in Keys})
      PROVE  \E r \in Routes : /\ p \in delta[r] \cap mem.route[r].admitted
                              /\ \A x \in Routes : p \in snap[x] => x = r
  <2>1. Automatic
    BY <1>3, ClosedByConclusion
  <2>2. Authorized(p)
    <3> DEFINE granted == UNION {mem.granted[k] : k \in Keys}
    <3>1. p \in status /\ p \notin Scope /\ p \notin granted
      BY <1>3
    <3>2. status \subseteq {q \in status : Authorized(q)} \cup Scope \cup granted
      BY <2>1 DEF Automatic, Allowed
    <3> HIDE DEF granted
    <3> QED
      BY <3>1, <3>2
  <2>3. p \in Paths
    BY <1>3 DEF Third, Second, Base, TypeOK
  <2>4. PICK r \in Routes : /\ mem.path[p].ids = {r}
                            /\ p \in delta[r]
                            /\ p \in mem.route[r].admitted
    BY <1>3, <2>2, <2>3 DEF Owners, Sound, Owned, Authorized
  <2>5. ASSUME NEW x \in Routes, p \in snap[x] PROVE x = r
    <3>1. State(x) \in RouteStates \ Unresolved
      BY <1>3, <2>1 DEF Automatic, Blocked, Third, Second, Base, TypeOK, Record, RouteRecord, State
    <3>2. ~Fresh(x)
      BY <1>3, <2>5 DEF Owners, Snapshots
    <3>3. State(x) = "merged"
      BY <3>1, <3>2 DEF Fresh, RouteStates, Unresolved
    <3>4. x \in mem.path[p].ids
      BY <1>3, <2>5, <3>3 DEF Owners, Sound, Named
    <3> QED
      BY <2>4, <3>4
  <2> QED
    BY <2>4, <2>5
<1>4. Third /\ Owners /\ [Next]_vars =>
        [Closes => \A p \in status \ (Scope \cup UNION {mem.granted[k] : k \in Keys}) :
           \E r \in Routes : /\ p \in delta[r] \cap mem.route[r].admitted
                            /\ \A x \in Routes : p \in snap[x] => x = r]_vars
  BY <1>3
<1> QED
  BY <1>1, <1>2, <1>4, PTL DEF Spec, AppliedIsAttributed

=============================================================================
