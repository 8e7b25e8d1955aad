------------------------ MODULE SessionOverlapProofs ------------------------
(* Proofs about SessionLifecycle when commands overlap: what survives a     *)
(* `finish' that the operator starts beside a supervisor and its living     *)
(* agent, or beside another command, for every number of processes, roots   *)
(* and paths, with errors, crashes and reboots at every step.               *)
EXTENDS SessionLifecycleProofs

----------------------------------------------------------------------------
(* The inductive invariant. *)

Launching == {"begin", "attach", "launch"}

\* A command no `finish' can overlap: it works on a record that does not say
\* running, and keeps it so.
Exclusive(p) ==
  \/ job[p].cmd \in {"commit", "select", "thaw"}
  \/ job[p].cmd = "abort" /\ job[p].mem.st # "running"
  \/ job[p].pc \in Launching /\ job[p].mem.st # "running"

\* No branch of the bundle accepts a write.
Shut == \A r \in Roots : branch[r] # "open"

\* Which command may be at which step, with which copy of the record.
PlaceSound(p) ==
  /\ Idle(p) <=> At(p, "idle")
  /\ p \in agents => At(p, "wait")
  /\ job[p].pc \in Launching \cup {"wait", "exited"} => job[p].cmd \in Supervisors
  /\ job[p].pc \in {"freeze", "evaluate"} => job[p].cmd \in Finalizers
  /\ At(p, "thaw") <=> job[p].cmd = "thaw"
  /\ At(p, "remove") <=> job[p].cmd = "cleanup"
  /\ job[p].cmd = "abort" => At(p, "discard")
  /\ job[p].cmd \in {"commit", "select"} =>
       job[p].pc \in {"apply", "prune", "discard"}
  /\ job[p].pc \in {"wait", "exited"} => job[p].mem.st = "running"
  /\ At(p, "freeze") => job[p].mem.st = "finalizing"
  /\ At(p, "begin") => job[p].mem.st = "created"

\* An exclusive command is alone, and the record on disk is its own.
AloneSound(p) ==
  Exclusive(p) =>
    /\ \A q \in Procs : q # p => Idle(q)
    /\ disk.st = job[p].mem.st /\ job[p].mem.st # "running"

\* Where the branches and the changes owed are at each step.
WorkSound(p) ==
  /\ At(p, "freeze") => \A r \in Roots \ job[p].todo : branch[r] # "open"
  /\ job[p].cmd \in Finalizers
       /\ job[p].pc \in {"evaluate", "apply", "prune", "discard"} => Shut
  /\ ~Idle(p) /\ ~At(p, "remove") /\ job[p].mem.st \in CleanupStates =>
       job[p].pc \in Launching /\ owed = {}
  /\ job[p].pc \notin {"apply", "prune", "discard"} => job[p].applied = {}
  /\ At(p, "apply") => /\ owed \subseteq job[p].plan \cup job[p].denied
                       /\ job[p].outcome # "pending-review"
  /\ job[p].pc \in {"apply", "prune"} => owed \cap job[p].applied = {}
  /\ At(p, "discard") => \/ owed = {}
                         \/ /\ job[p].outcome = "pending-review"
                            /\ job[p].cmd \in Finalizers /\ job[p].todo = {}

\* Of two commands at work, one is a `finish'.
OthersFinish ==
  \A p, q \in Procs :
    p # q /\ ~Idle(p) /\ ~Idle(q) => "finish" \in {job[p].cmd, job[q].cmd}

\* The record calls the session reviewable or closed only when no write of a
\* living agent can land any more.
SettledIsShut ==
  disk.st \in CleanupStates \cup {"pending-review"} => agents = {} \/ Shut

\* No view is mounted under a bundle that is being removed.
RemoveSound == \A p \in Procs : At(p, "remove") => mounted = {}

OverlapInv ==
  /\ \A p \in Procs : PlaceSound(p) /\ AloneSound(p) /\ WorkSound(p)
  /\ OthersFinish
  /\ owed \subseteq Visible
  /\ ClosedOwesNothing
  /\ SettledIsShut

----------------------------------------------------------------------------
(* What the invariant says about one process. *)

\* The parts of the invariant that speak of the process p.
LEMMA Sound ==
  ASSUME OverlapInv, NEW p \in Procs
  PROVE  /\ PlaceSound(p) /\ AloneSound(p) /\ WorkSound(p)
         /\ owed \subseteq Visible /\ ClosedOwesNothing /\ SettledIsShut
BY DEF OverlapInv

\* A process past its start is not idle, and has an agent only while it waits
\* for it.
LEMMA AtWork ==
  ASSUME OverlapInv, NEW p \in Procs, job[p].pc # "idle"
  PROVE  /\ ~Idle(p)
         /\ job[p].pc # "wait" => p \notin agents
BY Sound DEF PlaceSound, At

\* Beside a command at work nobody is exclusive.
LEMMA NobodyExclusive ==
  ASSUME OverlapInv, NEW p \in Procs, ~Idle(p)
  PROVE  \A q \in Procs : q # p => ~Exclusive(q)
BY Sound DEF AloneSound

\* An exclusive command has no living agent beside it.
LEMMA ExclusiveHasNoAgents ==
  ASSUME TypeOK, OverlapInv, NEW p \in Procs, Exclusive(p)
  PROVE  agents = {} /\ \A q \in Procs : q # p => Idle(q)
<1>1. \A q \in Procs : q # p => Idle(q)
  BY Sound DEF AloneSound
<1>2. \A q \in Procs : q # p => q \notin agents
  BY <1>1, Sound DEF PlaceSound, At
<1>3. p \notin agents
  BY Sound DEF PlaceSound, At, Exclusive, Launching, Supervisors
<1> QED BY <1>1, <1>2, <1>3 DEF TypeOK

\* Which commands apply, prune and discard.
LEMMA Settlers ==
  ASSUME TypeOK, OverlapInv, NEW p \in Procs,
         job[p].pc \in {"apply", "prune", "discard"}
  PROVE  /\ job[p].cmd \in Finalizers \cup {"commit", "select", "abort"}
         /\ job[p].cmd = "abort" => At(p, "discard")
<1>1. job[p].cmd \in Commands \cup {"none"}
  BY JobFields DEF Job
<1> QED BY <1>1, Sound DEF PlaceSound, At, Idle, Commands

\* Whoever settles the work does so when no agent can write any more: the
\* agents are gone or the bundle is shut.
LEMMA SettlersAreSafe ==
  ASSUME TypeOK, OverlapInv, NEW p \in Procs,
         job[p].pc \in {"apply", "prune", "discard"}
  PROVE  agents = {} \/ Shut
<1>1. CASE job[p].cmd \in Finalizers
  BY <1>1, Sound DEF WorkSound
<1>2. CASE job[p].cmd \in {"commit", "select"}
  BY <1>2, ExclusiveHasNoAgents DEF Exclusive
<1>3. CASE job[p].cmd = "abort"
  <2>1. ASSUME NEW q \in agents PROVE FALSE
    <3>1. q \in Procs /\ q # p /\ ~Idle(p)
      BY <2>1, AtWork DEF TypeOK
    <3>2. At(q, "wait") /\ job[q].cmd \in Supervisors /\ ~Idle(q)
      BY <2>1, <3>1, Sound DEF PlaceSound, At
    <3> QED BY <1>3, <3>1, <3>2 DEF OverlapInv, OthersFinish, Supervisors
  <2> QED BY <2>1
<1> QED BY <1>1, <1>2, <1>3, Settlers

\* A record in memory that a command may still write back does not settle the
\* session under a living agent, and does not close it over work owed.
LEMMA MemoryIsSafe ==
  ASSUME TypeOK, OverlapInv, NEW p \in Procs, ~Idle(p), ~At(p, "evaluate"),
         ~At(p, "remove"),
         job[p].mem.st \in CleanupStates \cup {"pending-review"}
  PROVE  /\ agents = {} \/ Shut
         /\ job[p].mem.st \in CleanupStates => owed = {}
<1>1. job[p].cmd \in Commands \cup {"none"} /\ job[p].pc \in Steps
  BY JobFields DEF Job
<1>2. CASE job[p].pc \in Launching
  BY <1>2, Sound, ExclusiveHasNoAgents
     DEF Exclusive, WorkSound, CleanupStates
<1>3. CASE job[p].pc \notin Launching
  <2>1. job[p].mem.st = "pending-review"
    BY <1>3, Sound DEF WorkSound
  <2>2. CASE job[p].pc \in {"apply", "prune", "discard"}
    BY <2>1, <2>2, SettlersAreSafe DEF CleanupStates
  <2>3. CASE job[p].pc = "thaw"
    BY <2>1, <2>3, Sound, ExclusiveHasNoAgents
       DEF PlaceSound, At, Exclusive, CleanupStates
  <2>4. job[p].pc \notin {"idle", "wait", "exited", "freeze", "evaluate"}
    BY <2>1, Sound DEF PlaceSound, At
  <2> QED BY <1>1, <1>3, <2>2, <2>3, <2>4 DEF Steps, Launching, At
<1> QED BY <1>2, <1>3

----------------------------------------------------------------------------
(* What a step of one process has to respect. *)

\* A step of p that opens no branch unless the others are idle, adds no work
\* and overlaps no exclusive command leaves the others sound.
LEMMA OthersUndisturbed ==
  ASSUME TypeOK, OverlapInv, NEW p \in Procs,
         \A q \in Procs : q # p => job'[q] = job[q] /\ ~Exclusive(q),
         agents' \subseteq agents \cup {p}, owed' \subseteq owed,
         \/ \A r \in Roots : branch'[r] = "open" => branch[r] = "open"
         \/ \A q \in Procs : q # p => Idle(q),
         \/ job'[p].cmd \in {job[p].cmd, "none", "finish"}
         \/ \A q \in Procs : q # p => Idle(q),
         PlaceSound(p)', AloneSound(p)', WorkSound(p)',
         (owed \subseteq Visible)', ClosedOwesNothing', SettledIsShut'
  PROVE  OverlapInv'
<1>1. ASSUME NEW q \in Procs, q # p
      PROVE  PlaceSound(q)' /\ AloneSound(q)' /\ WorkSound(q)'
  <2>1. PlaceSound(q) /\ WorkSound(q) /\ job'[q] = job[q] /\ ~Exclusive(q)
    BY <1>1, Sound
  <2>2. PlaceSound(q)'
    BY <1>1, <2>1 DEF PlaceSound, Idle, At
  <2>3. AloneSound(q)'
    BY <2>1 DEF AloneSound, Exclusive
  <2>4. CASE Idle(q)
    BY <2>1, <2>2, <2>3, <2>4
       DEF PlaceSound, WorkSound, Idle, At, Finalizers, Supervisors
  <2>5. CASE \A r \in Roots : branch'[r] = "open" => branch[r] = "open"
    <3>1. Shut => Shut'
      BY <2>5 DEF Shut
    <3>2. At(q, "freeze") => \A r \in Roots \ job[q].todo : branch'[r] # "open"
      BY <2>1, <2>5 DEF WorkSound
    <3>3. WorkSound(q)'
      BY <2>1, <3>1, <3>2 DEF WorkSound, Idle, At
    <3> QED BY <2>2, <2>3, <3>3
  <2> QED BY <1>1, <2>2, <2>3, <2>4, <2>5
<1>2. OthersFinish'
  BY DEF OverlapInv, OthersFinish, Idle
<1> QED BY <1>1, <1>2 DEF OverlapInv

\* A command that ends, whatever the reason, disturbs nobody when what it
\* leaves on disk is safe.
LEMMA EndKeeps ==
  ASSUME TypeOK, OverlapInv, NEW p \in Procs, ~Idle(p), End(p),
         p \notin agents', agents' \subseteq agents, owed' \subseteq owed,
         delta' = delta,
         \/ \A r \in Roots : branch'[r] = "open" => branch[r] = "open"
         \/ \A q \in Procs : q # p => Idle(q),
         ClosedOwesNothing', SettledIsShut'
  PROVE  OverlapInv'
<1>1. job'[p] = NoJob /\ \A q \in Procs : q # p => job'[q] = job[q]
  BY EndJob DEF TypeOK
<1>2. PlaceSound(p)' /\ AloneSound(p)' /\ WorkSound(p)'
  BY <1>1 DEF PlaceSound, AloneSound, WorkSound, Exclusive, Idle, At, NoJob,
     Launching, Finalizers, Supervisors
<1>3. (owed \subseteq Visible)'
  BY Sound DEF Visible, Changed
<1>4. job'[p].cmd = "none"
  BY <1>1 DEF NoJob
<1> QED BY <1>1, <1>2, <1>3, <1>4, NobodyExclusive, OthersUndisturbed

\* A command that goes on without opening a branch or dropping a change.
LEMMA StepKeeps ==
  ASSUME TypeOK, OverlapInv, NEW p \in Procs, NEW j, Become(p, j), ~Idle(p),
         j.cmd = job[p].cmd, agents' \subseteq agents \cup {p},
         owed' \subseteq owed, delta' = delta,
         \A r \in Roots : branch'[r] = "open" => branch[r] = "open",
         PlaceSound(p)', AloneSound(p)', WorkSound(p)',
         ClosedOwesNothing', SettledIsShut'
  PROVE  OverlapInv'
<1>1. job'[p] = j /\ \A q \in Procs : q # p => job'[q] = job[q]
  BY BecomeOnly
<1>2. (owed \subseteq Visible)'
  BY Sound DEF Visible, Changed
<1> QED BY <1>1, <1>2, NobodyExclusive, OthersUndisturbed

\* The record and the agents stay as they were.
LEMMA SafeIfUnchanged ==
  ASSUME OverlapInv, disk'.st = disk.st, agents' \subseteq agents,
         owed' \subseteq owed,
         \A r \in Roots : branch'[r] = "open" => branch[r] = "open"
  PROVE  ClosedOwesNothing' /\ SettledIsShut'
BY DEF OverlapInv, ClosedOwesNothing, SettledIsShut, Shut

\* The record says neither closed nor pending-review.
LEMMA SafeIfUnsettled ==
  ASSUME disk'.st \notin CleanupStates \cup {"pending-review"}
  PROVE  ClosedOwesNothing' /\ SettledIsShut'
BY DEF ClosedOwesNothing, SettledIsShut

\* A command writes back the state it holds in memory.
LEMMA SafeIfFromMemory ==
  ASSUME TypeOK, OverlapInv, NEW p \in Procs, ~Idle(p), ~At(p, "evaluate"),
         ~At(p, "remove"),
         disk'.st = job[p].mem.st, agents' \subseteq agents,
         owed' \subseteq owed, agents = {} \/ UNCHANGED branch
  PROVE  ClosedOwesNothing' /\ SettledIsShut'
BY MemoryIsSafe DEF ClosedOwesNothing, SettledIsShut, Shut

\* An exception inside finalize_session keeps the invariant.
LEMMA RaisedKeeps ==
  ASSUME TypeOK, OverlapInv, NEW p \in Procs, NEW m \in Record,
         Raised(p, m), job[p].pc \notin {"idle", "wait"},
         UNCHANGED <<branch, delta, agents, owed>>
  PROVE  OverlapInv'
<1>1. End(p) /\ disk'.st \in {"failed", disk.st}
  BY DEF Raised, Record
<1>2. ClosedOwesNothing' /\ SettledIsShut'
  BY <1>1, SafeIfUnchanged, SafeIfUnsettled DEF CleanupStates
<1> QED BY <1>1, <1>2, AtWork, EndKeeps

----------------------------------------------------------------------------
(* Every step of every command keeps the invariant. *)

\* Creating, mounting and launching: a branch is opened only by a command
\* that is alone.
LEMMA OverlapAttaching ==
  ASSUME TypeOK, OverlapInv, NEW p \in Procs, Attaching(p)
  PROVE  OverlapInv'
<1> USE JobFields
<1>0. PlaceSound(p) /\ AloneSound(p) /\ WorkSound(p)
  BY Sound
<1>1. CASE RunMounting(p)
  <2> DEFINE m == [job[p].mem EXCEPT !.st = "mounting"]
             j == [job[p] EXCEPT !.mem = m, !.pc = "attach", !.todo = Roots]
  <2>1. Become(p, j) /\ job[p].pc = "begin" /\ disk' = m
          /\ UNCHANGED <<branch, delta, agents, owed>>
    BY <1>1 DEF RunMounting, At
  <2>2. m.st = "mounting" /\ j.cmd = job[p].cmd /\ j.pc = "attach"
          /\ j.mem = m /\ j.applied = job[p].applied
    BY DEF Job, Record
  <2> HIDE DEF j, m
  <2>3. job'[p] = j /\ \A q \in Procs : q # p => job'[q] = job[q]
    BY <2>1, BecomeOnly
  <2>4. ~Idle(p) /\ p \notin agents' /\ job[p].cmd \in Supervisors
    BY <1>0, <2>1, AtWork DEF PlaceSound, Launching
  <2>5. PlaceSound(p)'
    BY <1>0, <2>1, <2>2, <2>3, <2>4
       DEF PlaceSound, Idle, At, Supervisors, Launching
  <2>6. Exclusive(p)
    BY <1>0, <2>1 DEF Exclusive, PlaceSound, At, Launching
  <2>7. AloneSound(p)'
    BY <1>0, <2>1, <2>2, <2>3, <2>6 DEF AloneSound, Idle
  <2>8. WorkSound(p)'
    BY <1>0, <2>1, <2>2, <2>3 DEF WorkSound, At, Idle, CleanupStates
  <2>9. ClosedOwesNothing' /\ SettledIsShut'
    BY <2>1, <2>2, SafeIfUnsettled DEF CleanupStates
  <2> QED BY <2>1, <2>2, <2>4, <2>5, <2>7, <2>8, <2>9, StepKeeps
<1>2. CASE AttachError(p)
  <2>1. job[p].pc = "attach" /\ End(p) /\ UNCHANGED <<delta, agents, owed>>
          /\ disk'.st \in {"failed", job[p].mem.st}
    BY <1>2 DEF AttachError, At, Record
  <2>2. ~Idle(p) /\ p \notin agents
    BY <2>1, AtWork
  <2>3. CASE UNCHANGED branch
    <3>1. ClosedOwesNothing' /\ SettledIsShut'
      BY <2>1, <2>2, <2>3, SafeIfFromMemory, SafeIfUnsettled
         DEF CleanupStates, At
    <3> QED BY <2>1, <2>2, <2>3, <3>1, EndKeeps
  <2>4. CASE branch' # branch
    <3>1. Exclusive(p)
      BY <1>2, <2>1, <2>4 DEF AttachError, Prepared, Exclusive, Launching
    <3>2. agents = {} /\ \A q \in Procs : q # p => Idle(q)
      BY <3>1, ExclusiveHasNoAgents
    <3>3. ClosedOwesNothing' /\ SettledIsShut'
      BY <2>1, <2>2, <3>2, SafeIfFromMemory, SafeIfUnsettled
         DEF CleanupStates, At
    <3> QED BY <2>1, <2>2, <3>2, <3>3, EndKeeps
  <2> QED BY <2>3, <2>4
<1>3. CASE Launch(p)
  <2> DEFINE m == [job[p].mem EXCEPT !.st = "running"]
             j == [job[p] EXCEPT !.mem = m, !.pc = "wait"]
  <2>1. Become(p, j) /\ job[p].pc = "launch" /\ disk' = m
          /\ UNCHANGED <<branch, delta, owed>> /\ agents' = agents \cup {p}
    BY <1>3 DEF Launch, At
  <2>2. m.st = "running" /\ j.cmd = job[p].cmd /\ j.pc = "wait"
          /\ j.mem = m /\ j.applied = job[p].applied
    BY DEF Job, Record
  <2> HIDE DEF j, m
  <2>3. job'[p] = j
    BY <2>1, BecomeOnly
  <2>4. ~Idle(p) /\ job[p].cmd \in Supervisors
    BY <1>0, <2>1, AtWork DEF PlaceSound, Launching
  <2>5. PlaceSound(p)'
    BY <1>0, <2>1, <2>2, <2>3, <2>4 DEF PlaceSound, Idle, At, Supervisors
  <2>6. AloneSound(p)'
    BY <2>2, <2>3, <2>4 DEF AloneSound, Exclusive, Supervisors
  <2>7. WorkSound(p)'
    BY <1>0, <2>1, <2>2, <2>3 DEF WorkSound, At, Idle, CleanupStates
  <2>8. ClosedOwesNothing' /\ SettledIsShut'
    BY <2>1, <2>2, SafeIfUnsettled DEF CleanupStates
  <2> QED BY <2>1, <2>2, <2>4, <2>5, <2>6, <2>7, <2>8, StepKeeps
<1>4. CASE LaunchError(p)
  <2>1. job[p].pc \in {"launch", "exited"} /\ disk'.st = "failed" /\ End(p)
          /\ UNCHANGED <<branch, delta, agents, owed>>
    BY <1>4 DEF LaunchError, At, Record
  <2>2. ClosedOwesNothing' /\ SettledIsShut'
    BY <2>1, SafeIfUnsettled DEF CleanupStates
  <2> QED BY <2>1, <2>2, AtWork, EndKeeps
<1>5. ASSUME NEW r \in Roots, Attach(p, r) PROVE OverlapInv'
  <2> DEFINE j == [job[p] EXCEPT !.todo = @ \ {r}, !.pc = AfterAttach(p, r)]
  <2>1. Become(p, j) /\ job[p].pc = "attach" /\ disk' = disk
          /\ UNCHANGED <<delta, agents, owed>> /\ branch' = Prepared(p, r)
    BY <1>5 DEF Attach, At
  <2>2. j.cmd = job[p].cmd /\ j.pc = AfterAttach(p, r)
          /\ j.mem = job[p].mem /\ j.applied = job[p].applied
    BY DEF Job
  <2> HIDE DEF j
  <2>3. job'[p] = j /\ j.pc \in {"attach", "launch"}
          /\ \A q \in Procs : q # p => job'[q] = job[q]
    BY <2>1, <2>2, BecomeOnly DEF AfterAttach
  <2>4. ~Idle(p) /\ p \notin agents' /\ job[p].cmd \in Supervisors
    BY <1>0, <2>1, AtWork DEF PlaceSound, Launching
  <2>5. PlaceSound(p)'
    BY <1>0, <2>1, <2>2, <2>3, <2>4
       DEF PlaceSound, Idle, At, Supervisors, Launching
  <2>6. AloneSound(p)'
    BY <1>0, <2>1, <2>2, <2>3 DEF AloneSound, Exclusive, Idle, Launching
  <2>7. WorkSound(p)'
    BY <1>0, <2>1, <2>2, <2>3 DEF WorkSound, At, Idle, Launching
  <2>8. CASE job[p].mem.st = "running"
    <3>1. UNCHANGED branch
      BY <2>1, <2>8 DEF Prepared
    <3>2. ClosedOwesNothing' /\ SettledIsShut'
      BY <2>1, <3>1, SafeIfUnchanged
    <3> QED BY <2>1, <2>2, <2>4, <2>5, <2>6, <2>7, <3>1, <3>2, StepKeeps
  <2>9. CASE job[p].mem.st # "running"
    <3>1. Exclusive(p)
      BY <2>1, <2>9 DEF Exclusive, Launching
    <3>2. agents = {} /\ \A q \in Procs : q # p => Idle(q)
      BY <3>1, ExclusiveHasNoAgents
    <3>3. ClosedOwesNothing' /\ SettledIsShut' /\ (owed \subseteq Visible)'
      BY <2>1, <3>2, Sound
         DEF ClosedOwesNothing, SettledIsShut, Visible, Changed
    <3> QED BY <2>1, <2>3, <2>4, <2>5, <2>6, <2>7, <3>2, <3>3,
               NobodyExclusive, OthersUndisturbed
  <2> QED BY <2>8, <2>9
<1> QED BY <1>1, <1>2, <1>3, <1>4, <1>5 DEF Attaching

\* Freezing and evaluating: the bundle is shut root by root before status
\* looks at it, and stays so for whatever the decision does with it.
LEMMA OverlapFreezing ==
  ASSUME TypeOK, OverlapInv, NEW p \in Procs, Freezing(p)
  PROVE  OverlapInv'
<1> USE JobFields
<1>0. PlaceSound(p) /\ AloneSound(p) /\ WorkSound(p) /\ owed \subseteq Visible
  BY Sound
<1>1. CASE BeginFinalize(p)
  <2> DEFINE m == [job[p].mem EXCEPT !.st = "finalizing"]
             j == [job[p] EXCEPT !.mem = m, !.pc = "freeze", !.todo = Roots]
  <2>1. Become(p, j) /\ job[p].pc = "exited" /\ disk' = m
          /\ UNCHANGED <<branch, delta, agents, owed>>
    BY <1>1 DEF BeginFinalize, At
  <2>2. m.st = "finalizing" /\ j.cmd = job[p].cmd /\ j.pc = "freeze"
          /\ j.mem = m /\ j.applied = job[p].applied /\ j.todo = Roots
    BY DEF Job, Record
  <2> HIDE DEF j, m
  <2>3. job'[p] = j
    BY <2>1, BecomeOnly
  <2>4. ~Idle(p) /\ p \notin agents' /\ job[p].cmd \in Supervisors
    BY <1>0, <2>1, AtWork DEF PlaceSound
  <2>5. PlaceSound(p)'
    BY <1>0, <2>1, <2>2, <2>3, <2>4
       DEF PlaceSound, Idle, At, Supervisors, Finalizers, Launching
  <2>6. AloneSound(p)'
    BY <2>2, <2>3, <2>4 DEF AloneSound, Exclusive, Supervisors, Launching
  <2>7. WorkSound(p)'
    BY <1>0, <2>1, <2>2, <2>3 DEF WorkSound, At, Idle, CleanupStates
  <2>8. ClosedOwesNothing' /\ SettledIsShut'
    BY <2>1, <2>2, SafeIfUnsettled DEF CleanupStates
  <2> QED BY <2>1, <2>2, <2>4, <2>5, <2>6, <2>7, <2>8, StepKeeps
<1>2. CASE FreezeError(p)
  BY <1>2, RaisedKeeps DEF FreezeError, At
<1>3. CASE FreezeDone(p)
  <2> DEFINE m == [job[p].mem EXCEPT !.st = "frozen"]
             j == [job[p] EXCEPT !.mem = m, !.pc = "evaluate"]
  <2>1. Become(p, j) /\ job[p].pc = "freeze" /\ disk' = m /\ job[p].todo = {}
          /\ UNCHANGED <<branch, delta, agents, owed>>
    BY <1>3 DEF FreezeDone, At
  <2>2. m.st = "frozen" /\ j.cmd = job[p].cmd /\ j.pc = "evaluate"
          /\ j.mem = m /\ j.applied = job[p].applied
    BY DEF Job, Record
  <2> HIDE DEF j, m
  <2>3. job'[p] = j
    BY <2>1, BecomeOnly
  <2>4. ~Idle(p) /\ p \notin agents' /\ job[p].cmd \in Finalizers
    BY <1>0, <2>1, AtWork DEF PlaceSound
  <2>5. PlaceSound(p)'
    BY <1>0, <2>1, <2>2, <2>3, <2>4
       DEF PlaceSound, Idle, At, Supervisors, Finalizers, Launching
  <2>6. AloneSound(p)'
    BY <2>2, <2>3, <2>4
       DEF AloneSound, Exclusive, Supervisors, Finalizers, Launching
  <2>7. Shut
    BY <1>0, <2>1 DEF WorkSound, At, Shut
  <2>8. WorkSound(p)'
    BY <1>0, <2>1, <2>2, <2>3, <2>7
       DEF WorkSound, At, Idle, CleanupStates, Shut
  <2>9. ClosedOwesNothing' /\ SettledIsShut'
    BY <2>1, <2>2, SafeIfUnsettled DEF CleanupStates
  <2> QED BY <2>1, <2>2, <2>4, <2>5, <2>6, <2>8, <2>9, StepKeeps
<1>4. CASE Evaluate(p)
  <2>1. PICK blocked \in BOOLEAN, seen \in SUBSET Visible :
          LET decision == Decide(job[p].mem.mode, seen, blocked)
          IN  /\ blocked \/ seen = Visible
              /\ Become(p, AfterDecision(p, decision, seen))
              /\ owed' = IF decision = "abort" THEN {} ELSE owed
    BY <1>4 DEF Evaluate
  <2> DEFINE decision == Decide(job[p].mem.mode, seen, blocked)
             j == AfterDecision(p, decision, seen)
  <2>2. decision \in {"auto-commit", "no-changes", "abort", "pending-review"}
    BY DEF Decide, EvaluatePolicy
  <2>3. decision = "no-changes" => seen = {} /\ ~blocked
    BY DEF Decide, EvaluatePolicy
  <2>4. decision = "auto-commit" => ~blocked
    BY DEF Decide, EvaluatePolicy
  <2>5. (blocked \/ seen = Visible) /\ Become(p, j)
          /\ owed' = IF decision = "abort" THEN {} ELSE owed
    BY <2>1
  <2> HIDE DEF decision
  <2>6. /\ j.cmd = job[p].cmd /\ j.applied = job[p].applied
        /\ j.mem.st = job[p].mem.st
        /\ j.pc \in {"apply", "discard"}
        /\ j.pc = "apply" => decision = "auto-commit" /\ j.plan = seen
                               /\ j.outcome = "auto-committed"
        /\ j.pc = "discard" /\ decision \notin {"abort", "no-changes"}
             => j.outcome = "pending-review" /\ j.todo = {}
    <3>1. CASE decision = "auto-commit"
      BY <3>1 DEF AfterDecision, Job, Record
    <3>2. CASE decision = "no-changes"
      BY <3>2 DEF AfterDecision, Job, Record
    <3>3. CASE decision = "abort"
      BY <3>3 DEF AfterDecision, Job, Record
    <3>4. CASE decision = "pending-review"
      BY <3>4 DEF AfterDecision, Job, Record
    <3> QED BY <2>2, <3>1, <3>2, <3>3, <3>4
  <2> HIDE DEF j
  <2>7. job'[p] = j /\ job[p].pc = "evaluate"
          /\ UNCHANGED <<disk, branch, delta, agents>>
    BY <1>4, <2>5, BecomeOnly DEF Evaluate, At
  <2>8. ~Idle(p) /\ p \notin agents' /\ job[p].applied = {}
          /\ job[p].cmd \in Finalizers /\ Shut /\ owed' \subseteq owed
    BY <1>0, <2>5, <2>7, AtWork DEF WorkSound, PlaceSound
  <2>9. PlaceSound(p)'
    BY <2>6, <2>7, <2>8
       DEF PlaceSound, Idle, At, Supervisors, Finalizers, Launching
  <2>10. AloneSound(p)'
    BY <2>6, <2>7, <2>8
       DEF AloneSound, Exclusive, Supervisors, Finalizers, Launching
  <2>11. WorkSound(p)'
    <3>1. j.pc = "apply" => owed' \subseteq j.plan
      BY <1>0, <2>4, <2>5, <2>6
    <3>2. j.pc = "discard" => owed' = {} \/ (j.outcome = "pending-review"
                                               /\ j.todo = {})
      BY <1>0, <2>3, <2>5, <2>6
    <3>3. Shut' /\ job[p].mem.st \notin CleanupStates
      BY <1>0, <2>7, <2>8 DEF Shut, WorkSound, Launching, At
    <3> QED BY <2>6, <2>7, <2>8, <3>1, <3>2, <3>3 DEF WorkSound, Idle, At
  <2>12. ClosedOwesNothing' /\ SettledIsShut'
    BY <2>7, <2>8, SafeIfUnchanged
  <2> QED BY <2>5, <2>6, <2>7, <2>8, <2>9, <2>10, <2>11, <2>12, StepKeeps
<1>5. CASE EvaluateError(p)
  BY <1>5, RaisedKeeps DEF EvaluateError, At
<1>6. ASSUME NEW r \in Roots, Freeze(p, r) PROVE OverlapInv'
  <2> DEFINE j == [job[p] EXCEPT !.todo = @ \ {r}]
  <2>1. Become(p, j) /\ job[p].pc = "freeze"
          /\ UNCHANGED <<disk, delta, agents, owed>>
          /\ branch' = [branch EXCEPT ![r] = "frozen"]
    BY <1>6 DEF Freeze, At
  <2>2. j.cmd = job[p].cmd /\ j.pc = job[p].pc /\ j.todo = job[p].todo \ {r}
          /\ j.mem = job[p].mem /\ j.applied = job[p].applied
    BY DEF Job
  <2> HIDE DEF j
  <2>3. job'[p] = j
    BY <2>1, BecomeOnly
  <2>4. ~Idle(p) /\ p \notin agents' /\ job[p].cmd \in Finalizers
    BY <1>0, <2>1, AtWork DEF PlaceSound
  <2>5. PlaceSound(p)'
    BY <1>0, <2>1, <2>2, <2>3, <2>4 DEF PlaceSound, Idle, At
  <2>6. AloneSound(p)'
    BY <2>1, <2>2, <2>3, <2>4
       DEF AloneSound, Exclusive, Supervisors, Finalizers, Launching
  <2>7. branch'[r] = "frozen" /\ \A t \in Roots : t # r => branch'[t] = branch[t]
    BY <2>1 DEF TypeOK
  <2>8. WorkSound(p)'
    BY <1>0, <2>1, <2>2, <2>3, <2>7 DEF WorkSound, At, Idle
  <2>9. ClosedOwesNothing' /\ SettledIsShut'
    BY <2>1, <2>7, SafeIfUnchanged
  <2> QED BY <2>1, <2>2, <2>4, <2>5, <2>6, <2>7, <2>8, <2>9, StepKeeps
<1> QED BY <1>1, <1>2, <1>3, <1>4, <1>5, <1>6 DEF Freezing

\* Thawing: the branches are opened with nobody else at work.
LEMMA OverlapThawing ==
  ASSUME TypeOK, OverlapInv, NEW p \in Procs, Thawing(p)
  PROVE  OverlapInv'
<1> USE JobFields
<1>0. PlaceSound(p) /\ AloneSound(p) /\ WorkSound(p)
  BY Sound
<1>1. CASE ThawError(p)
  <2>1. ClosedOwesNothing' /\ SettledIsShut'
    BY <1>1, SafeIfUnchanged DEF ThawError
  <2> QED BY <1>1, <2>1, AtWork, EndKeeps DEF ThawError, At
<1>2. CASE ThawDone(p)
  <2>1. disk'.st = "running"
    BY <1>2 DEF ThawDone, Record
  <2>2. ClosedOwesNothing' /\ SettledIsShut'
    BY <2>1, SafeIfUnsettled DEF CleanupStates
  <2> QED BY <1>2, <2>2, AtWork, EndKeeps DEF ThawDone, At
<1>3. ASSUME NEW r \in Roots, Thaw(p, r) PROVE OverlapInv'
  <2> DEFINE j == [job[p] EXCEPT !.todo = @ \ {r}]
  <2>1. Become(p, j) /\ job[p].pc = "thaw"
          /\ UNCHANGED <<disk, delta, agents, owed>>
    BY <1>3 DEF Thaw, At
  <2>2. j.cmd = job[p].cmd /\ j.pc = job[p].pc
          /\ j.mem = job[p].mem /\ j.applied = job[p].applied
    BY DEF Job
  <2> HIDE DEF j
  <2>3. job'[p] = j /\ \A q \in Procs : q # p => job'[q] = job[q]
    BY <2>1, BecomeOnly
  <2>4. ~Idle(p) /\ p \notin agents' /\ job[p].cmd = "thaw"
    BY <1>0, <2>1, AtWork DEF PlaceSound, At
  <2>5. agents = {} /\ \A q \in Procs : q # p => Idle(q)
    BY <2>4, ExclusiveHasNoAgents DEF Exclusive
  <2>6. PlaceSound(p)'
    BY <1>0, <2>1, <2>2, <2>3, <2>4 DEF PlaceSound, Idle, At
  <2>7. AloneSound(p)'
    BY <1>0, <2>1, <2>2, <2>3, <2>4 DEF AloneSound, Exclusive, Idle
  <2>8. WorkSound(p)'
    BY <1>0, <2>1, <2>2, <2>3, <2>4 DEF WorkSound, At, Idle, Launching
  <2>9. ClosedOwesNothing' /\ SettledIsShut' /\ (owed \subseteq Visible)'
    BY <2>1, <2>5, Sound
       DEF ClosedOwesNothing, SettledIsShut, Visible, Changed
  <2> QED BY <2>1, <2>3, <2>4, <2>5, <2>6, <2>7, <2>8, <2>9,
             NobodyExclusive, OthersUndisturbed
<1> QED BY <1>1, <1>2, <1>3 DEF Thawing

\* A settling step that keeps its command and its record keeps its place and,
\* if it was alone, stays alone.
LEMMA SettlersStay ==
  ASSUME TypeOK, OverlapInv, NEW p \in Procs,
         job[p].pc \in {"apply", "prune", "discard"},
         \A q \in Procs : q # p => job'[q] = job[q],
         job'[p].cmd = job[p].cmd, job'[p].mem = job[p].mem,
         job'[p].pc \in {"apply", "prune", "discard"},
         job[p].cmd = "abort" => job'[p].pc = "discard",
         agents' = agents, disk'.st \in {disk.st, job[p].mem.st}
  PROVE  PlaceSound(p)' /\ AloneSound(p)'
<1>1. PlaceSound(p) /\ AloneSound(p) /\ ~Idle(p) /\ p \notin agents
  BY Sound, AtWork
<1>2. PlaceSound(p)'
  BY <1>1 DEF PlaceSound, Idle, At, Launching
<1>3. AloneSound(p)'
  BY <1>1 DEF AloneSound, Exclusive, Idle, Launching
<1> QED BY <1>2, <1>3

\* Applying and pruning: what is pruned has been applied, and no agent can
\* add to the work owed while its plan is carried out.
LEMMA OverlapApplying ==
  ASSUME TypeOK, OverlapInv, NEW p \in Procs, Applying(p)
  PROVE  OverlapInv'
<1> USE JobFields
<1>0. PlaceSound(p) /\ AloneSound(p) /\ WorkSound(p) /\ owed \subseteq Visible
  BY Sound
<1>1. CASE ApplyError(p)
  <2>1. job[p].pc = "apply" /\ End(p) /\ UNCHANGED <<branch, delta, agents, owed>>
          /\ disk'.st \in {"failed", job[p].mem.st, disk.st}
    BY <1>1 DEF ApplyError, At, Record
  <2>2. ~Idle(p) /\ p \notin agents /\ ~At(p, "evaluate")
          /\ ~At(p, "remove")
    BY <2>1, AtWork DEF At
  <2>3. ClosedOwesNothing' /\ SettledIsShut'
    BY <2>1, <2>2, SafeIfUnchanged, SafeIfUnsettled, SafeIfFromMemory
       DEF CleanupStates
  <2> QED BY <2>1, <2>2, <2>3, EndKeeps
<1>2. CASE ApplyDone(p)
  <2> DEFINE j == [job[p] EXCEPT !.pc = AfterApply(p), !.todo = Roots]
  <2>1. Become(p, j) /\ job[p].pc = "apply" /\ job[p].plan = {}
          /\ UNCHANGED <<disk, branch, delta, agents, owed>>
    BY <1>2 DEF ApplyDone, At
  <2>2. j.cmd = job[p].cmd /\ j.pc = AfterApply(p) /\ j.mem = job[p].mem
          /\ j.applied = job[p].applied
    BY DEF Job
  <2> HIDE DEF j
  <2>3. job'[p] = j /\ (\A q \in Procs : q # p => job'[q] = job[q])
          /\ j.pc \in {"prune", "discard"}
    BY <2>1, <2>2, BecomeOnly DEF AfterApply
  <2>4. ~Idle(p) /\ job[p].cmd # "abort"
    BY <1>0, <2>1, AtWork DEF PlaceSound, At
  <2>5. PlaceSound(p)' /\ AloneSound(p)'
    BY <2>1, <2>2, <2>3, <2>4, SettlersStay
  <2>6. j.pc = "discard" => owed = {}
    BY <1>0, <2>1, <2>2 DEF WorkSound, At, AfterApply
  <2>7. WorkSound(p)'
    BY <1>0, <2>1, <2>2, <2>3, <2>6
       DEF WorkSound, At, Idle, Launching, Shut
  <2>8. ClosedOwesNothing' /\ SettledIsShut'
    BY <2>1, SafeIfUnchanged
  <2> QED BY <2>1, <2>2, <2>4, <2>5, <2>7, <2>8, StepKeeps
<1>3. CASE PruneDone(p)
  <2>1. disk'.st = "pending-review" /\ job[p].pc = "prune" /\ End(p)
          /\ UNCHANGED <<branch, delta, agents, owed>>
    BY <1>3 DEF PruneDone, Record, At
  <2>2. agents = {} \/ Shut
    BY <2>1, SettlersAreSafe
  <2>3. ClosedOwesNothing' /\ SettledIsShut'
    BY <2>1, <2>2 DEF ClosedOwesNothing, SettledIsShut, CleanupStates, Shut
  <2> QED BY <2>1, <2>3, AtWork, EndKeeps
<1>4. CASE PruneError(p)
  <2>1. PICK perm \in {job[p].mem.perm, job[p].denied} :
          Raised(p, [job[p].mem EXCEPT !.perm = perm])
    BY <1>4 DEF PruneError
  <2>2. [job[p].mem EXCEPT !.perm = perm] \in Record
    BY DEF Record
  <2> QED BY <1>4, <2>1, <2>2, RaisedKeeps DEF PruneError, At
<1>5. ASSUME NEW x \in Paths, Apply(p, x) PROVE OverlapInv'
  <2> DEFINE j == [job[p] EXCEPT !.plan = @ \ {x}, !.applied = @ \cup {x}]
  <2>1. Become(p, j) /\ job[p].pc = "apply" /\ owed' = owed \ {x}
          /\ UNCHANGED <<disk, branch, delta, agents>>
    BY <1>5 DEF Apply, At
  <2>2. j.cmd = job[p].cmd /\ j.pc = job[p].pc /\ j.mem = job[p].mem
          /\ j.applied = job[p].applied \cup {x} /\ j.denied = job[p].denied
          /\ j.plan = job[p].plan \ {x} /\ j.outcome = job[p].outcome
    BY DEF Job
  <2> HIDE DEF j
  <2>3. job'[p] = j /\ \A q \in Procs : q # p => job'[q] = job[q]
    BY <2>1, BecomeOnly
  <2>4. ~Idle(p) /\ job[p].cmd # "abort"
    BY <1>0, <2>1, AtWork DEF PlaceSound, At
  <2>5. PlaceSound(p)' /\ AloneSound(p)'
    BY <2>1, <2>2, <2>3, <2>4, SettlersStay
  <2>6. owed' \subseteq j.plan \cup j.denied /\ owed' \cap j.applied = {}
    BY <1>0, <2>1, <2>2 DEF WorkSound, At
  <2>7. WorkSound(p)'
    BY <1>0, <2>1, <2>2, <2>3, <2>6
       DEF WorkSound, At, Idle, Launching, Shut
  <2>8. ClosedOwesNothing' /\ SettledIsShut'
    BY <2>1, SafeIfUnchanged
  <2> QED BY <2>1, <2>2, <2>4, <2>5, <2>7, <2>8, StepKeeps
<1>6. ASSUME NEW x \in Paths, ApplyDenied(p, x) PROVE OverlapInv'
  <2> DEFINE j == [job[p] EXCEPT !.plan = @ \ {x}, !.denied = @ \cup {x}]
  <2>1. Become(p, j) /\ job[p].pc = "apply"
          /\ UNCHANGED <<disk, branch, delta, agents, owed>>
    BY <1>6 DEF ApplyDenied, At
  <2>2. j.cmd = job[p].cmd /\ j.pc = job[p].pc /\ j.mem = job[p].mem
          /\ j.applied = job[p].applied /\ j.denied = job[p].denied \cup {x}
          /\ j.plan = job[p].plan \ {x} /\ j.outcome = job[p].outcome
    BY DEF Job
  <2> HIDE DEF j
  <2>3. job'[p] = j /\ \A q \in Procs : q # p => job'[q] = job[q]
    BY <2>1, BecomeOnly
  <2>4. ~Idle(p) /\ job[p].cmd # "abort"
    BY <1>0, <2>1, AtWork DEF PlaceSound, At
  <2>5. PlaceSound(p)' /\ AloneSound(p)'
    BY <2>1, <2>2, <2>3, <2>4, SettlersStay
  <2>6. owed' \subseteq j.plan \cup j.denied /\ owed' \cap j.applied = {}
    BY <1>0, <2>1, <2>2 DEF WorkSound, At
  <2>7. WorkSound(p)'
    BY <1>0, <2>1, <2>2, <2>3, <2>6
       DEF WorkSound, At, Idle, Launching, Shut
  <2>8. ClosedOwesNothing' /\ SettledIsShut'
    BY <2>1, SafeIfUnchanged
  <2> QED BY <2>1, <2>2, <2>4, <2>5, <2>7, <2>8, StepKeeps
<1>7. ASSUME NEW x \in Paths, Prune(p, x) PROVE OverlapInv'
  <2> DEFINE j == [job[p] EXCEPT !.applied = @ \ {x}]
  <2>1. Become(p, j) /\ job[p].pc = "prune" /\ x \in job[p].applied
          /\ UNCHANGED <<disk, branch, agents, owed>>
          /\ delta' = [delta EXCEPT ![x] = 0]
    BY <1>7 DEF Prune, At
  <2>2. j.cmd = job[p].cmd /\ j.pc = job[p].pc /\ j.mem = job[p].mem
          /\ j.applied = job[p].applied \ {x}
    BY DEF Job
  <2> HIDE DEF j
  <2>3. job'[p] = j /\ \A q \in Procs : q # p => job'[q] = job[q]
    BY <2>1, BecomeOnly
  <2>4. ~Idle(p) /\ job[p].cmd # "abort"
    BY <1>0, <2>1, AtWork DEF PlaceSound, At
  <2>5. PlaceSound(p)' /\ AloneSound(p)'
    BY <2>1, <2>2, <2>3, <2>4, SettlersStay
  <2>6. x \notin owed
    BY <1>0, <2>1 DEF WorkSound
  <2>7. WorkSound(p)'
    BY <1>0, <2>1, <2>2, <2>3 DEF WorkSound, At, Idle, Launching, Shut
  <2>8. (owed \subseteq Visible)'
    BY <1>0, <2>1, <2>6 DEF Visible, Changed, TypeOK
  <2>9. ClosedOwesNothing' /\ SettledIsShut'
    BY <2>1, SafeIfUnchanged
  <2> QED BY <2>1, <2>2, <2>3, <2>4, <2>5, <2>7, <2>8, <2>9,
             NobodyExclusive, OthersUndisturbed
<1> QED BY <1>1, <1>2, <1>3, <1>4, <1>5, <1>6, <1>7 DEF Applying

\* Discarding the bundle and recording the outcome: whoever discards a branch
\* or closes the session owes nothing, and nobody can write any more.
LEMMA OverlapDiscarding ==
  ASSUME TypeOK, OverlapInv, NEW p \in Procs, Discarding(p)
  PROVE  OverlapInv'
<1> USE JobFields
<1>0. PlaceSound(p) /\ AloneSound(p) /\ WorkSound(p) /\ owed \subseteq Visible
  BY Sound
<1>1. CASE RecordOutcome(p)
  <2>1. disk'.st = job[p].outcome /\ job[p].pc = "discard" /\ End(p)
          /\ UNCHANGED <<branch, delta, agents, owed>>
    BY <1>1 DEF RecordOutcome, Record, At
  <2>2. agents = {} \/ Shut
    BY <2>1, SettlersAreSafe
  <2>3. ClosedOwesNothing' /\ SettledIsShut'
    BY <1>0, <2>1, <2>2 DEF WorkSound, At, ClosedOwesNothing, SettledIsShut,
       CleanupStates, Shut
  <2> QED BY <2>1, <2>3, AtWork, EndKeeps
<1>2. CASE RecordRefused(p)
  BY <1>2, RaisedKeeps DEF RecordRefused, At
<1>3. ASSUME NEW r \in Roots, Discard(p, r) PROVE OverlapInv'
  <2> DEFINE j == [job[p] EXCEPT !.todo = @ \ {r}]
  <2>1. Become(p, j) /\ job[p].pc = "discard" /\ r \in job[p].todo
          /\ UNCHANGED <<disk, agents, owed>>
          /\ branch' = [branch EXCEPT ![r] = "absent"]
    BY <1>3 DEF Discard, At
  <2>2. j.cmd = job[p].cmd /\ j.pc = job[p].pc /\ j.mem = job[p].mem
    BY DEF Job
  <2> HIDE DEF j
  <2>3. job'[p] = j /\ \A q \in Procs : q # p => job'[q] = job[q]
    BY <2>1, BecomeOnly
  <2>4. ~Idle(p)
    BY <2>1, AtWork
  <2>5. PlaceSound(p)' /\ AloneSound(p)'
    BY <2>1, <2>2, <2>3, SettlersStay
  <2>6. owed' = {}
    BY <1>0, <2>1 DEF WorkSound, At
  <2>7. \A t \in Roots : branch'[t] = "open" => branch[t] = "open"
    BY <2>1 DEF TypeOK
  <2>8. WorkSound(p)'
    BY <1>0, <2>1, <2>2, <2>3, <2>6, <2>7
       DEF WorkSound, At, Idle, Launching, Shut
  <2>9. ClosedOwesNothing' /\ SettledIsShut' /\ (owed \subseteq Visible)'
    BY <2>1, <2>6, <2>7, SafeIfUnchanged
  <2> QED BY <2>1, <2>2, <2>3, <2>4, <2>5, <2>7, <2>8, <2>9,
             NobodyExclusive, OthersUndisturbed
<1>4. ASSUME NEW r \in Roots, DiscardError(p, r) PROVE OverlapInv'
  <2>0. job[p].pc = "discard" /\ r \in job[p].todo
          /\ UNCHANGED <<branch, delta, agents, owed>>
    BY <1>4 DEF DiscardError, At
  <2>1. ~Idle(p) /\ p \notin agents /\ ~At(p, "evaluate")
          /\ ~At(p, "remove")
    BY <2>0, AtWork DEF At
  <2>2. CASE Raised(p, job[p].mem)
    BY <2>0, <2>2, RaisedKeeps
  <2>3. CASE disk' = job[p].mem /\ End(p)
    <3>1. ClosedOwesNothing' /\ SettledIsShut'
      BY <2>0, <2>1, <2>3, SafeIfFromMemory
    <3> QED BY <2>0, <2>1, <2>3, <3>1, EndKeeps
  <2>4. CASE disk' = job[p].mem
               /\ Become(p, [job[p] EXCEPT !.todo = @ \ {r}])
    <3> DEFINE j == [job[p] EXCEPT !.todo = @ \ {r}]
    <3>1. j.cmd = job[p].cmd /\ j.pc = job[p].pc /\ j.mem = job[p].mem
      BY DEF Job
    <3>2. Become(p, j)
      BY <2>4
    <3> HIDE DEF j
    <3>3. job'[p] = j /\ \A q \in Procs : q # p => job'[q] = job[q]
      BY <3>2, BecomeOnly
    <3>4. PlaceSound(p)' /\ AloneSound(p)'
      BY <2>0, <2>4, <3>1, <3>3, SettlersStay
    <3>5. owed' = {}
      BY <1>0, <2>0 DEF WorkSound, At
    <3>6. WorkSound(p)'
      BY <1>0, <2>0, <3>1, <3>3, <3>5 DEF WorkSound, At, Idle, Launching, Shut
    <3>7. ClosedOwesNothing' /\ SettledIsShut'
      BY <2>0, <2>1, <2>4, SafeIfFromMemory
    <3> QED BY <2>0, <2>1, <3>1, <3>2, <3>4, <3>6, <3>7, StepKeeps
  <2> QED BY <1>4, <2>2, <2>3, <2>4 DEF DiscardError
<1> QED BY <1>1, <1>2, <1>3, <1>4 DEF Discarding

\* A command starts alone, or it is a `finish' of a running session: either
\* way it finds nobody exclusive and no agent of its own.
LEMMA StartKeeps ==
  ASSUME TypeOK, OverlapInv, NEW p \in Procs, NEW j, Become(p, j), Idle(p),
         \/ \A q \in Procs : Idle(q)
         \/ j.cmd = "finish" /\ disk.st = "running",
         UNCHANGED <<branch, delta, agents>>, owed' \subseteq owed,
         p \notin agents => PlaceSound(p)' /\ AloneSound(p)' /\ WorkSound(p)',
         ClosedOwesNothing', SettledIsShut'
  PROVE  OverlapInv'
<1>1. job'[p] = j /\ \A q \in Procs : q # p => job'[q] = job[q]
  BY BecomeOnly
<1>2. p \notin agents
  BY Sound DEF PlaceSound, At
<1>3. ASSUME NEW q \in Procs, q # p PROVE ~Exclusive(q)
  <2>1. CASE Idle(q)
    BY <2>1, Sound DEF PlaceSound, Exclusive, At, Idle, Launching
  <2>2. CASE disk.st = "running"
    BY <2>2, Sound DEF AloneSound
  <2> QED BY <1>3, <2>1, <2>2
<1>4. (owed \subseteq Visible)'
  BY Sound DEF Visible, Changed
<1> QED BY <1>1, <1>2, <1>3, <1>4, OthersUndisturbed

\* Only `finish' starts beside another command.
LEMMA OverlapStart ==
  ASSUME LiveCommands \subseteq {"finish"}, TypeOK, OverlapInv,
         NEW p \in Procs, Start(p)
  PROVE  OverlapInv'
<1> USE NoJobIsJob
<1>0. disk \in Record /\ ClosedOwesNothing
  BY Sound DEF TypeOK
<1>1. CASE RunCreate(p)
  <2> DEFINE j == [NoJob EXCEPT !.cmd = "run", !.pc = "begin"]
  <2>1. j.cmd = "run" /\ j.pc = "begin" /\ j.mem = NewRecord /\ j.applied = {}
    BY DEF NoJob
  <2>2. Become(p, j) /\ disk' = NewRecord /\ Idle(p) /\ (\A q \in Procs : Idle(q))
          /\ UNCHANGED <<branch, delta, agents, owed>>
    BY <1>1 DEF RunCreate, MayStart
  <2>3. NewRecord.st = "created"
    BY DEF NewRecord
  <2> HIDE DEF j
  <2>4. job'[p] = j /\ \A q \in Procs : q # p => job'[q] = job[q]
    BY <2>2, BecomeOnly
  <2>5. p \notin agents => PlaceSound(p)'
    BY <2>1, <2>2, <2>3, <2>4
       DEF PlaceSound, Idle, At, Supervisors, Finalizers, Launching
  <2>6. AloneSound(p)'
    BY <2>1, <2>2, <2>3, <2>4 DEF AloneSound, Idle
  <2>7. WorkSound(p)'
    BY <2>1, <2>3, <2>4 DEF WorkSound, Idle, At, CleanupStates
  <2>8. ClosedOwesNothing' /\ SettledIsShut'
    BY <2>2, <2>3, SafeIfUnsettled DEF CleanupStates
  <2> QED BY <2>2, <2>5, <2>6, <2>7, <2>8, StartKeeps
<1>2. CASE ResumeLoad(p)
  <2> DEFINE j == [NoJob EXCEPT !.cmd = "resume", !.mem = disk,
                                !.pc = "attach", !.todo = Roots]
  <2>1. j.cmd = "resume" /\ j.pc = "attach" /\ j.mem = disk /\ j.applied = {}
    BY DEF NoJob
  <2>2. Become(p, j) /\ Idle(p) /\ (\A q \in Procs : Idle(q))
          /\ UNCHANGED <<disk, branch, delta, agents, owed>>
    BY <1>2 DEF ResumeLoad, MayStart
  <2> HIDE DEF j
  <2>4. job'[p] = j /\ \A q \in Procs : q # p => job'[q] = job[q]
    BY <2>2, BecomeOnly
  <2>5. p \notin agents => PlaceSound(p)'
    BY <2>1, <2>2, <2>4
       DEF PlaceSound, Idle, At, Supervisors, Finalizers, Launching
  <2>6. AloneSound(p)'
    BY <2>1, <2>2, <2>4 DEF AloneSound, Idle, Exclusive
  <2>7. WorkSound(p)'
    BY <1>0, <2>1, <2>2, <2>4 DEF WorkSound, Idle, At, ClosedOwesNothing, Launching
  <2>8. ClosedOwesNothing' /\ SettledIsShut'
    BY <2>2, SafeIfUnchanged
  <2> QED BY <2>2, <2>5, <2>6, <2>7, <2>8, StartKeeps
<1>3. CASE FinishLoad(p)
  <2> DEFINE m == [disk EXCEPT !.st = "finalizing"]
             j == [NoJob EXCEPT !.cmd = "finish", !.mem = m, !.pc = "freeze",
                                !.todo = Roots]
  <2>1. j.cmd = "finish" /\ j.pc = "freeze" /\ j.mem = m /\ j.applied = {}
          /\ j.todo = Roots
    BY DEF NoJob
  <2>2. Become(p, j) /\ disk' = m /\ Idle(p) /\ disk.st = "running"
          /\ UNCHANGED <<branch, delta, agents, owed>>
    BY <1>3 DEF FinishLoad, MayStart
  <2>3. m.st = "finalizing"
    BY <1>0 DEF Record
  <2> HIDE DEF j, m
  <2>4. job'[p] = j
    BY <2>2, BecomeOnly
  <2>5. p \notin agents => PlaceSound(p)'
    BY <2>1, <2>2, <2>3, <2>4
       DEF PlaceSound, Idle, At, Supervisors, Finalizers, Launching
  <2>6. AloneSound(p)'
    BY <2>1, <2>4 DEF AloneSound, Exclusive, Launching
  <2>7. WorkSound(p)'
    BY <2>1, <2>3, <2>4 DEF WorkSound, Idle, At, CleanupStates
  <2>8. ClosedOwesNothing' /\ SettledIsShut'
    BY <2>2, <2>3, SafeIfUnsettled DEF CleanupStates
  <2> QED BY <2>1, <2>2, <2>5, <2>6, <2>7, <2>8, StartKeeps
<1>4. CASE CommitLoad(p)
  <2>1. PICK shown :
          /\ Become(p, [NoJob EXCEPT !.cmd = "commit",
                         !.mem = [disk EXCEPT !.perm = {}], !.pc = "apply",
                         !.plan = shown, !.outcome = "committed"])
          /\ owed' = owed \cap shown
    BY <1>4 DEF CommitLoad
  <2> DEFINE m == [disk EXCEPT !.perm = {}]
             j == [NoJob EXCEPT !.cmd = "commit", !.mem = m, !.pc = "apply",
                                !.plan = shown, !.outcome = "committed"]
  <2>2. j.cmd = "commit" /\ j.pc = "apply" /\ j.mem = m /\ j.applied = {}
          /\ j.plan = shown /\ j.outcome = "committed"
    BY DEF NoJob
  <2>3. Become(p, j) /\ Idle(p) /\ (\A q \in Procs : Idle(q))
          /\ m.st = disk.st /\ disk.st \in {"pending-review", "frozen"}
          /\ UNCHANGED <<disk, branch, delta, agents>>
    BY <1>0, <1>4, <2>1 DEF CommitLoad, MayStart, Record
  <2> HIDE DEF j, m
  <2>4. job'[p] = j /\ \A q \in Procs : q # p => job'[q] = job[q]
    BY <2>3, BecomeOnly
  <2>5. p \notin agents => PlaceSound(p)'
    BY <2>2, <2>3, <2>4
       DEF PlaceSound, Idle, At, Supervisors, Finalizers, Launching
  <2>6. AloneSound(p)'
    BY <2>2, <2>3, <2>4 DEF AloneSound, Idle
  <2>7. WorkSound(p)'
    BY <2>1, <2>2, <2>3, <2>4
       DEF WorkSound, Idle, At, CleanupStates, Finalizers, Supervisors
  <2>8. ClosedOwesNothing' /\ SettledIsShut'
    BY <2>1, <2>3, SafeIfUnchanged
  <2> QED BY <2>1, <2>3, <2>5, <2>6, <2>7, <2>8, StartKeeps
<1>5. CASE SelectLoad(p)
  <2>1. PICK chosen :
          /\ Become(p, [NoJob EXCEPT !.cmd = "select", !.mem = disk,
                         !.pc = "apply", !.plan = chosen,
                         !.outcome = "committed"])
          /\ owed' = owed \cap chosen
    BY <1>5 DEF SelectLoad
  <2> DEFINE j == [NoJob EXCEPT !.cmd = "select", !.mem = disk, !.pc = "apply",
                                !.plan = chosen, !.outcome = "committed"]
  <2>2. j.cmd = "select" /\ j.pc = "apply" /\ j.mem = disk /\ j.applied = {}
          /\ j.plan = chosen /\ j.outcome = "committed"
    BY DEF NoJob
  <2>3. Become(p, j) /\ Idle(p) /\ (\A q \in Procs : Idle(q))
          /\ disk.st \in {"pending-review", "frozen"}
          /\ UNCHANGED <<disk, branch, delta, agents>>
    BY <1>5, <2>1 DEF SelectLoad, MayStart
  <2> HIDE DEF j
  <2>4. job'[p] = j /\ \A q \in Procs : q # p => job'[q] = job[q]
    BY <2>3, BecomeOnly
  <2>5. p \notin agents => PlaceSound(p)'
    BY <2>2, <2>3, <2>4
       DEF PlaceSound, Idle, At, Supervisors, Finalizers, Launching
  <2>6. AloneSound(p)'
    BY <2>2, <2>3, <2>4 DEF AloneSound, Idle
  <2>7. WorkSound(p)'
    BY <2>1, <2>2, <2>3, <2>4
       DEF WorkSound, Idle, At, CleanupStates, Finalizers, Supervisors
  <2>8. ClosedOwesNothing' /\ SettledIsShut'
    BY <2>1, <2>3, SafeIfUnchanged
  <2> QED BY <2>1, <2>3, <2>5, <2>6, <2>7, <2>8, StartKeeps
<1>6. CASE AbortLoad(p)
  <2> DEFINE j == [NoJob EXCEPT !.cmd = "abort", !.mem = disk,
                !.pc = "discard", !.todo = Roots, !.outcome = AbortOutcome]
  <2>1. j.cmd = "abort" /\ j.pc = "discard" /\ j.mem = disk /\ j.applied = {}
    BY DEF NoJob
  <2>2. Become(p, j) /\ owed' = {} /\ Idle(p) /\ (\A q \in Procs : Idle(q))
          /\ disk.st \notin TerminalStates
          /\ UNCHANGED <<disk, branch, delta, agents>>
    BY <1>6 DEF AbortLoad, MayStart
  <2> HIDE DEF j
  <2>4. job'[p] = j /\ \A q \in Procs : q # p => job'[q] = job[q]
    BY <2>2, BecomeOnly
  <2>5. p \notin agents => PlaceSound(p)'
    BY <2>1, <2>2, <2>4
       DEF PlaceSound, Idle, At, Supervisors, Finalizers, Launching
  <2>6. AloneSound(p)'
    BY <2>1, <2>2, <2>4 DEF AloneSound, Idle, Exclusive, Launching
  <2>7. WorkSound(p)'
    BY <2>1, <2>2, <2>4 DEF WorkSound, Idle, At, CleanupStates,
       TerminalStates, Finalizers, Supervisors
  <2>8. ClosedOwesNothing' /\ SettledIsShut'
    BY <2>2, SafeIfUnchanged
  <2> QED BY <2>2, <2>5, <2>6, <2>7, <2>8, StartKeeps
<1>7. CASE ThawLoad(p)
  <2> DEFINE j == [NoJob EXCEPT !.cmd = "thaw", !.mem = disk, !.pc = "thaw",
                                !.todo = Roots]
  <2>1. j.cmd = "thaw" /\ j.pc = "thaw" /\ j.mem = disk /\ j.applied = {}
    BY DEF NoJob
  <2>2. Become(p, j) /\ Idle(p) /\ (\A q \in Procs : Idle(q))
          /\ disk.st = "pending-review"
          /\ UNCHANGED <<disk, branch, delta, agents, owed>>
    BY <1>7 DEF ThawLoad, MayStart
  <2> HIDE DEF j
  <2>4. job'[p] = j /\ \A q \in Procs : q # p => job'[q] = job[q]
    BY <2>2, BecomeOnly
  <2>5. p \notin agents => PlaceSound(p)'
    BY <2>1, <2>2, <2>4
       DEF PlaceSound, Idle, At, Supervisors, Finalizers, Launching
  <2>6. AloneSound(p)'
    BY <2>1, <2>2, <2>4 DEF AloneSound, Idle
  <2>7. WorkSound(p)'
    BY <2>1, <2>2, <2>4 DEF WorkSound, Idle, At, CleanupStates
  <2>8. ClosedOwesNothing' /\ SettledIsShut'
    BY <2>2, SafeIfUnchanged
  <2> QED BY <2>2, <2>5, <2>6, <2>7, <2>8, StartKeeps
<1>8. ASSUME NEW all \in BOOLEAN, CleanupLoad(p, all) PROVE OverlapInv'
  <2> DEFINE j == [NoJob EXCEPT !.cmd = "cleanup", !.mem = disk,
                                !.pc = "remove"]
  <2>1. j.cmd = "cleanup" /\ j.pc = "remove" /\ j.mem = disk /\ j.applied = {}
    BY DEF NoJob
  <2>2. Become(p, j) /\ Idle(p) /\ (\A q \in Procs : Idle(q))
          /\ UNCHANGED <<disk, branch, delta, agents>> /\ owed' \subseteq owed
    BY <1>8 DEF CleanupLoad, MayStart
  <2> HIDE DEF j
  <2>4. job'[p] = j
    BY <2>2, BecomeOnly
  <2>5. p \notin agents => PlaceSound(p)'
    BY <2>1, <2>2, <2>4
       DEF PlaceSound, Idle, At, Supervisors, Finalizers, Launching
  <2>6. AloneSound(p)'
    BY <2>1, <2>4 DEF AloneSound, Exclusive, Launching
  <2>7. WorkSound(p)'
    BY <2>1, <2>4 DEF WorkSound, At, Finalizers, Supervisors
  <2>8. ClosedOwesNothing' /\ SettledIsShut'
    BY <2>2, SafeIfUnchanged
  <2> QED BY <2>2, <2>5, <2>6, <2>7, <2>8, StartKeeps
<1> QED BY <1>1, <1>2, <1>3, <1>4, <1>5, <1>6, <1>7, <1>8 DEF Start

\* A living agent excludes every command that settles the work under an open
\* branch, so its write is accounted for.
LEMMA OverlapWrite ==
  ASSUME TypeOK, OverlapInv, NEW p \in Procs, NEW x \in Paths, AgentWrite(p, x)
  PROVE  OverlapInv'
<1>1. /\ p \in agents /\ branch[RootOf[x]] = "open"
      /\ UNCHANGED <<disk, branch, agents, job>>
      /\ owed' = owed \cup ({x} \ Ignored)
      /\ delta' = [delta EXCEPT ![x] = Newest(x) + 1]
  BY DEF AgentWrite
<1>2. ~Shut
  BY <1>1, ConstantsAssumption DEF Shut
<1>3. At(p, "wait") /\ ~Idle(p)
  BY <1>1, Sound DEF PlaceSound, At
<1>4. ASSUME NEW q \in Procs
      PROVE  /\ job[q].pc \notin {"apply", "prune", "discard"}
             /\ ~Idle(q) /\ ~At(q, "remove") => job[q].mem.st \notin CleanupStates
  <2>1. job[q].pc \notin {"apply", "prune", "discard"}
    BY <1>1, <1>2, SettlersAreSafe
  <2>2. ~Idle(q) /\ ~At(q, "remove") /\ job[q].mem.st \in CleanupStates
          => FALSE
    BY <1>1, <1>3, Sound, ExclusiveHasNoAgents
       DEF WorkSound, Exclusive, CleanupStates
  <2> QED BY <2>1, <2>2
<1>5. ASSUME NEW q \in Procs
      PROVE  PlaceSound(q)' /\ AloneSound(q)' /\ WorkSound(q)'
  <2>1. PlaceSound(q) /\ AloneSound(q) /\ WorkSound(q)
    BY Sound
  <2>2. PlaceSound(q)' /\ AloneSound(q)'
    BY <1>1, <2>1 DEF PlaceSound, AloneSound, Exclusive, Idle, At
  <2>3. WorkSound(q)'
    BY <1>1, <1>4, <2>1 DEF WorkSound, Idle, At, Shut
  <2> QED BY <2>2, <2>3
<1>6. (owed \subseteq Visible)'
  <2>1. Newest(x) + 1 # 0
    BY ConstantsAssumption DEF Newest, TypeOK
  <2> QED BY <1>1, <2>1, Sound DEF Visible, Changed, TypeOK
<1>7. ClosedOwesNothing' /\ SettledIsShut' /\ OthersFinish'
  BY <1>1, <1>2 DEF OverlapInv, ClosedOwesNothing, SettledIsShut,
     OthersFinish, Shut, Idle
<1> QED BY <1>5, <1>6, <1>7 DEF OverlapInv

\* A process that owns an agent, or freezes a bundle, is never exclusive.
LEMMA NotExclusive ==
  ASSUME OverlapInv, NEW p \in Procs, job[p].pc \in {"wait", "exited", "freeze"}
  PROVE  ~Exclusive(p)
BY Sound DEF PlaceSound, At, Exclusive, Launching, Finalizers, Supervisors

\* The agent at work and the turn controller inside its supervisor.
LEMMA OverlapAgentStep ==
  ASSUME TypeOK, OverlapInv, NEW p \in Procs, AgentStep(p)
  PROVE  OverlapInv'
<1> USE JobFields
<1>0. PlaceSound(p) /\ AloneSound(p) /\ WorkSound(p) /\ owed \subseteq Visible
  BY Sound
<1>1. p \in agents => job[p].pc = "wait" /\ ~Idle(p)
                        /\ job[p].mem.st = "running"
                        /\ job[p].cmd \in Supervisors
  BY <1>0 DEF PlaceSound, At
<1>2. ASSUME NEW x \in Paths, AgentWrite(p, x) PROVE OverlapInv'
  BY <1>2, OverlapWrite
<1>3. CASE TurnFinalize(p)
  <2>1. /\ owed' \subseteq owed /\ UNCHANGED <<branch, delta, agents, job>>
        /\ disk' = job[p].mem \/ disk' = disk
        /\ job[p].pc \in {"wait", "freeze"}
    BY <1>1, <1>3 DEF TurnFinalize, At
  <2>2. ~Idle(p) /\ ~At(p, "evaluate") /\ ~At(p, "remove") /\ ~Exclusive(p)
    BY <2>1, AtWork, NotExclusive DEF At
  <2>3. PlaceSound(p)' /\ AloneSound(p)'
    BY <1>0, <2>1, <2>2 DEF PlaceSound, AloneSound, Exclusive, Idle, At
  <2>4. WorkSound(p)'
    BY <1>0, <2>1 DEF WorkSound, Idle, At, Shut
  <2>5. (owed \subseteq Visible)'
    BY <1>0, <2>1 DEF Visible, Changed
  <2>6. ClosedOwesNothing' /\ SettledIsShut'
    BY <2>1, <2>2, SafeIfUnchanged, SafeIfFromMemory
  <2> QED BY <2>1, <2>2, <2>3, <2>4, <2>5, <2>6, NobodyExclusive,
             OthersUndisturbed
<1>4. CASE RequestAbort(p)
  <2> DEFINE m == [job[p].mem EXCEPT !.mode = "throwaway",
                                     !.abortRequested = TRUE]
             j == [job[p] EXCEPT !.mem = m]
  <2>1. Become(p, j) /\ disk' = m /\ p \in agents
          /\ UNCHANGED <<branch, delta, agents, owed>>
    BY <1>4 DEF RequestAbort
  <2>2. m.st = job[p].mem.st /\ j.cmd = job[p].cmd /\ j.pc = job[p].pc
          /\ j.mem = m /\ j.applied = job[p].applied
    BY DEF Job, Record
  <2> HIDE DEF j, m
  <2>3. job'[p] = j
    BY <2>1, BecomeOnly
  <2>4. PlaceSound(p)'
    BY <1>0, <1>1, <2>1, <2>2, <2>3 DEF PlaceSound, Idle, At
  <2>5. AloneSound(p)'
    BY <1>1, <2>1, <2>2, <2>3
       DEF AloneSound, Exclusive, Launching, Supervisors
  <2>6. WorkSound(p)'
    BY <1>0, <1>1, <2>1, <2>2, <2>3
       DEF WorkSound, Idle, At, CleanupStates
  <2>7. ClosedOwesNothing' /\ SettledIsShut'
    BY <1>1, <2>1, <2>2, SafeIfUnsettled DEF CleanupStates
  <2> QED BY <1>1, <2>1, <2>2, <2>4, <2>5, <2>6, <2>7, StepKeeps
<1>5. CASE AgentExit(p)
  <2> DEFINE j == [job[p] EXCEPT !.pc = "exited"]
  <2>1. Become(p, j) /\ p \in agents /\ agents' = agents \ {p}
          /\ UNCHANGED <<disk, branch, delta, owed>>
    BY <1>5 DEF AgentExit
  <2>2. j.cmd = job[p].cmd /\ j.pc = "exited" /\ j.mem = job[p].mem
          /\ j.applied = job[p].applied
    BY DEF Job
  <2> HIDE DEF j
  <2>3. job'[p] = j
    BY <2>1, BecomeOnly
  <2>4. PlaceSound(p)'
    BY <1>0, <1>1, <2>1, <2>2, <2>3
       DEF PlaceSound, Idle, At, Launching, Supervisors
  <2>5. AloneSound(p)'
    BY <1>1, <2>1, <2>2, <2>3
       DEF AloneSound, Exclusive, Launching, Supervisors
  <2>6. WorkSound(p)'
    BY <1>0, <1>1, <2>1, <2>2, <2>3
       DEF WorkSound, Idle, At, CleanupStates
  <2>7. ClosedOwesNothing' /\ SettledIsShut'
    BY <2>1, SafeIfUnchanged
  <2> QED BY <1>1, <2>1, <2>2, <2>4, <2>5, <2>6, <2>7, StepKeeps
<1> QED BY <1>2, <1>3, <1>4, <1>5 DEF AgentStep

\* Removing a bundle nothing is mounted under.
LEMMA OverlapRemove ==
  ASSUME TypeOK, OverlapInv, RemoveSound, NEW p \in Procs, Remove(p)
  PROVE  OverlapInv' /\ delta' = delta
<1>1. job[p].pc = "remove" /\ End(p) /\ UNCHANGED <<branch, agents, owed>>
  BY DEF Remove, At
<1>2. delta' = delta
  BY NothingSwept DEF Remove, RemoveSound
<1>3. disk'.st \in {disk.st, "removed"}
  BY DEF Remove, TypeOK, Record
<1>4. ClosedOwesNothing' /\ SettledIsShut'
  BY <1>1, <1>3, SafeIfUnchanged, SafeIfUnsettled DEF CleanupStates
<1> QED BY <1>1, <1>2, <1>4, AtWork, EndKeeps

\* OverlapInv is preserved by every step, given the types.
LEMMA OverlapNext ==
  ASSUME LiveCommands \subseteq {"finish"}
  PROVE  TypeOK /\ OverlapInv /\ RemoveSound /\ [Next]_vars => OverlapInv'
<1> SUFFICES ASSUME TypeOK, OverlapInv, RemoveSound, [Next]_vars
             PROVE  OverlapInv'
  OBVIOUS
<1>1. ASSUME NEW p \in Procs, Start(p) PROVE OverlapInv'
  BY <1>1, OverlapStart
<1>2. ASSUME NEW p \in Procs, Work(p) PROVE OverlapInv'
  BY <1>2, OverlapAttaching, OverlapFreezing, OverlapApplying,
     OverlapDiscarding, OverlapThawing, OverlapRemove DEF Work
<1>3. ASSUME NEW p \in Procs, AgentStep(p) PROVE OverlapInv'
  BY <1>3, OverlapAgentStep
<1>4. ASSUME NEW p \in Procs, Crash(p) PROVE OverlapInv'
  <2>1. ClosedOwesNothing' /\ SettledIsShut'
    BY <1>4, SafeIfUnchanged DEF Crash
  <2> QED BY <1>4, <2>1, EndKeeps DEF Crash
<1>5. CASE Reboot
  <2>1. (\A q \in Procs : job'[q] = NoJob) /\ agents' = {}
          /\ UNCHANGED <<disk, branch, delta, owed>>
    BY <1>5 DEF Reboot
  <2>2. \A q \in Procs : PlaceSound(q)' /\ AloneSound(q)' /\ WorkSound(q)'
    BY <2>1 DEF PlaceSound, AloneSound, WorkSound, Exclusive, Idle, At, NoJob,
       Launching, Finalizers, Supervisors
  <2>3. (owed \subseteq Visible)' /\ OthersFinish'
    BY <2>1 DEF OverlapInv, Visible, Changed, OthersFinish, Idle, NoJob
  <2>4. ClosedOwesNothing' /\ SettledIsShut'
    BY <2>1, SafeIfUnchanged
  <2> QED BY <2>2, <2>3, <2>4 DEF OverlapInv
<1>6. CASE UNCHANGED vars
  BY <1>6 DEF vars, OverlapInv, PlaceSound, AloneSound, WorkSound, Exclusive,
     OthersFinish, Idle, At, Shut, Visible, Changed, ClosedOwesNothing,
     SettledIsShut
<1> QED BY <1>1, <1>2, <1>3, <1>4, <1>5, <1>6 DEF Next

\* Nothing but the start of a `cleanup' leads to the removal of a bundle, and
\* no start mounts a view.
LEMMA RemoveStart ==
  ASSUME TypeOK, RemoveSound, NEW p \in Procs, Start(p)
  PROVE  RemoveSound'
<1> USE NoJobIsJob
<1>1. mounted' \subseteq mounted
  BY DEF Start, RunCreate, ResumeLoad, FinishLoad, CommitLoad, SelectLoad,
     AbortLoad, ThawLoad, CleanupLoad
<1>2. job' = [job EXCEPT ![p] = job'[p]]
  BY DEF Start, RunCreate, ResumeLoad, FinishLoad, CommitLoad, SelectLoad,
     AbortLoad, ThawLoad, CleanupLoad, Become, TypeOK
<1>3. job'[p].pc = "remove" => mounted = {}
  <2>1. CASE \E all \in BOOLEAN : CleanupLoad(p, all)
    BY <2>1 DEF CleanupLoad
  <2>2. CASE RunCreate(p)
    BY <2>2 DEF RunCreate, NoJob, Become, TypeOK
  <2>3. CASE ResumeLoad(p)
    BY <2>3 DEF ResumeLoad, NoJob, Become, TypeOK
  <2>4. CASE FinishLoad(p)
    <3>1. PICK m : Become(p, [NoJob EXCEPT !.cmd = "finish", !.mem = m,
                                           !.pc = "freeze", !.todo = Roots])
      BY <2>4 DEF FinishLoad
    <3> QED BY <3>1 DEF NoJob, Become, TypeOK
  <2>5. CASE CommitLoad(p) \/ SelectLoad(p) \/ AbortLoad(p) \/ ThawLoad(p)
    BY <2>5 DEF CommitLoad, SelectLoad, AbortLoad, ThawLoad, NoJob, Become,
       TypeOK
  <2> QED BY <2>1, <2>2, <2>3, <2>4, <2>5 DEF Start
<1> QED BY <1>1, <1>2, <1>3 DEF RemoveSound, At, TypeOK

\* A command that turns to something else than the removal of a bundle and
\* mounts nothing.
LEMMA RemoveKept ==
  ASSUME TypeOK, RemoveSound, NEW p \in Procs, NEW j, Become(p, j),
         j.pc # "remove", mounted' \subseteq mounted
  PROVE  RemoveSound'
BY BecomeOnly DEF RemoveSound, At

\* A command that ends mounts nothing.
LEMMA RemoveEnded ==
  ASSUME TypeOK, RemoveSound, NEW p \in Procs, End(p),
         mounted' \subseteq mounted
  PROVE  RemoveSound'
BY RemoveKept DEF End, NoJob

\* Only a supervisor mounts views, and none is at work beside a `cleanup'.
LEMMA RemoveWork ==
  ASSUME TypeOK, OverlapInv, RemoveSound, NEW p \in Procs, Work(p)
  PROVE  RemoveSound'
<1> USE JobFields
<1>1. CASE Attaching(p)
  <2>1. ASSUME NEW m, RunMounting(p),
               m = [job[p] EXCEPT !.mem = [job[p].mem EXCEPT !.st = "mounting"],
                                  !.pc = "attach", !.todo = Roots]
        PROVE  RemoveSound'
    <3>1. m.pc = "attach" /\ Become(p, m) /\ mounted' = mounted
      BY <2>1 DEF RunMounting, Job
    <3> QED BY <3>1, RemoveKept
  <2>2. ASSUME NEW m, Launch(p),
               m = [job[p] EXCEPT !.mem = [job[p].mem EXCEPT !.st = "running"],
                                  !.pc = "wait"]
        PROVE  RemoveSound'
    <3>1. m.pc = "wait" /\ Become(p, m) /\ mounted' = mounted
      BY <2>2 DEF Launch, Job
    <3> QED BY <3>1, RemoveKept
  <2>3. CASE AttachError(p) \/ LaunchError(p)
    BY <2>3, RemoveEnded DEF AttachError, LaunchError
  <2>4. ASSUME NEW r \in Roots, Attach(p, r), NEW m,
               m = [job[p] EXCEPT !.todo = @ \ {r}, !.pc = AfterAttach(p, r)]
        PROVE  RemoveSound'
    <3>1. m.pc # "remove" /\ Become(p, m) /\ At(p, "attach")
      BY <2>4 DEF Attach, Job, AfterAttach
    <3>2. job[p].cmd \in Supervisors /\ ~Idle(p)
      BY <3>1, Sound, AtWork DEF PlaceSound, Launching, At
    <3>3. \A q \in Procs : q # p => ~At(q, "remove")
      BY <3>2, Sound DEF OverlapInv, OthersFinish, PlaceSound, Idle, Supervisors
    <3> QED BY <3>1, <3>3, BecomeOnly DEF RemoveSound, At
  <2> QED BY <1>1, <2>1, <2>2, <2>3, <2>4 DEF Attaching
<1>2. CASE Freezing(p)
  <2>1. ASSUME NEW m, BeginFinalize(p),
               m = [job[p] EXCEPT !.mem = [job[p].mem EXCEPT !.st = "finalizing"],
                                  !.pc = "freeze", !.todo = Roots]
        PROVE  RemoveSound'
    <3>1. m.pc = "freeze" /\ Become(p, m) /\ mounted' = mounted
      BY <2>1 DEF BeginFinalize, Job
    <3> QED BY <3>1, RemoveKept
  <2>2. ASSUME NEW m, FreezeDone(p),
               m = [job[p] EXCEPT !.mem = [job[p].mem EXCEPT !.st = "frozen"],
                                  !.pc = "evaluate"]
        PROVE  RemoveSound'
    <3>1. m.pc = "evaluate" /\ Become(p, m) /\ mounted' = mounted
      BY <2>2 DEF FreezeDone, Job
    <3> QED BY <3>1, RemoveKept
  <2>3. CASE FreezeError(p) \/ EvaluateError(p)
    BY <2>3, RemoveEnded DEF FreezeError, EvaluateError, Raised
  <2>4. CASE Evaluate(p)
    <3>1. PICK blocked \in BOOLEAN, seen \in SUBSET Visible :
            Become(p, AfterDecision(p, Decide(job[p].mem.mode, seen, blocked),
                                    seen))
      BY <2>4 DEF Evaluate
    <3> DEFINE decision == Decide(job[p].mem.mode, seen, blocked)
               j == AfterDecision(p, decision, seen)
    <3>2. decision \in {"auto-commit", "no-changes", "abort", "pending-review"}
      BY DEF Decide, EvaluatePolicy
    <3> HIDE DEF decision
    <3>3. j.pc # "remove"
      BY <3>2 DEF AfterDecision, Job
    <3>4. Become(p, j)
      BY <3>1 DEF decision
    <3> HIDE DEF j
    <3> QED BY <2>4, <3>3, <3>4, RemoveKept DEF Evaluate
  <2>5. ASSUME NEW r \in Roots, Freeze(p, r), NEW m,
               m = [job[p] EXCEPT !.todo = @ \ {r}]
        PROVE  RemoveSound'
    <3>1. m.pc # "remove" /\ Become(p, m) /\ mounted' = mounted
      BY <2>5 DEF Freeze, Job, At
    <3> QED BY <3>1, RemoveKept
  <2> QED BY <1>2, <2>1, <2>2, <2>3, <2>4, <2>5 DEF Freezing
<1>3. CASE Applying(p)
  <2>1. CASE ApplyError(p) \/ PruneDone(p) \/ PruneError(p)
    BY <2>1, RemoveEnded DEF ApplyError, PruneDone, PruneError, Raised
  <2>2. ASSUME NEW m, ApplyDone(p),
               m = [job[p] EXCEPT !.pc = AfterApply(p), !.todo = Roots]
        PROVE  RemoveSound'
    <3>1. m.pc # "remove" /\ Become(p, m) /\ mounted' = mounted
      BY <2>2 DEF ApplyDone, Job, AfterApply
    <3> QED BY <3>1, RemoveKept
  <2>3. ASSUME NEW x \in Paths, Apply(p, x), NEW m,
               m = [job[p] EXCEPT !.plan = @ \ {x}, !.applied = @ \cup {x}]
        PROVE  RemoveSound'
    <3>1. m.pc # "remove" /\ Become(p, m) /\ mounted' = mounted
      BY <2>3 DEF Apply, Job, At
    <3> QED BY <3>1, RemoveKept
  <2>4. ASSUME NEW x \in Paths, ApplyDenied(p, x), NEW m,
               m = [job[p] EXCEPT !.plan = @ \ {x}, !.denied = @ \cup {x}]
        PROVE  RemoveSound'
    <3>1. m.pc # "remove" /\ Become(p, m) /\ mounted' = mounted
      BY <2>4 DEF ApplyDenied, Job, At
    <3> QED BY <3>1, RemoveKept
  <2>5. ASSUME NEW x \in Paths, Prune(p, x), NEW m,
               m = [job[p] EXCEPT !.applied = @ \ {x}]
        PROVE  RemoveSound'
    <3>1. m.pc # "remove" /\ Become(p, m) /\ mounted' = mounted
      BY <2>5 DEF Prune, Job, At
    <3> QED BY <3>1, RemoveKept
  <2> QED BY <1>3, <2>1, <2>2, <2>3, <2>4, <2>5 DEF Applying
<1>4. CASE Discarding(p) \/ Thawing(p)
  <2>0. mounted' \subseteq mounted
    BY <1>4 DEF Discarding, RecordOutcome, RecordRefused, Discard, Raised,
       DiscardError, Thawing, ThawError, ThawDone, Thaw
  <2>1. CASE End(p)
    BY <2>0, <2>1, RemoveEnded
  <2>2. ASSUME NEW r \in Roots, NEW m, Become(p, m),
               m = [job[p] EXCEPT !.todo = @ \ {r}]
        PROVE  RemoveSound'
    <3>1. job[p].pc \in {"discard", "thaw"}
      BY <1>4 DEF Discarding, RecordOutcome, RecordRefused, Discard,
         DiscardError, Thawing, ThawError, ThawDone, Thaw, At
    <3>2. m.pc = job[p].pc
      BY <2>2 DEF Job
    <3> QED BY <2>0, <2>2, <3>1, <3>2, RemoveKept
  <2>3. End(p) \/ \E r \in Roots : Become(p, [job[p] EXCEPT !.todo = @ \ {r}])
    BY <1>4 DEF Discarding, RecordOutcome, RecordRefused, Discard, Raised,
       DiscardError, Thawing, ThawError, ThawDone, Thaw
  <2> QED BY <2>1, <2>2, <2>3
<1>5. CASE Remove(p)
  BY <1>5, RemoveEnded DEF Remove
<1> QED BY <1>1, <1>2, <1>3, <1>4, <1>5 DEF Work

\* An agent and its turn controller mount nothing.
LEMMA RemoveAgentStep ==
  ASSUME TypeOK, OverlapInv, RemoveSound, NEW p \in Procs, AgentStep(p)
  PROVE  RemoveSound'
<1> USE JobFields
<1>1. CASE UNCHANGED <<job, mounted>>
  BY <1>1 DEF RemoveSound, At
<1>2. CASE RequestAbort(p)
  <2>1. PICK m : Become(p, [job[p] EXCEPT !.mem = m])
    BY <1>2 DEF RequestAbort
  <2> DEFINE j == [job[p] EXCEPT !.mem = m]
  <2>2. j.pc = job[p].pc /\ Become(p, j) /\ mounted' = mounted
    BY <1>2, <2>1 DEF RequestAbort, Job
  <2>3. job[p].pc = "wait"
    BY <1>2, Sound DEF RequestAbort, PlaceSound, At
  <2> HIDE DEF j
  <2> QED BY <2>2, <2>3, RemoveKept
<1>3. CASE AgentExit(p)
  <2> DEFINE j == [job[p] EXCEPT !.pc = "exited"]
  <2>1. j.pc = "exited" /\ Become(p, j) /\ mounted' = mounted
    BY <1>3 DEF AgentExit, Job
  <2> HIDE DEF j
  <2> QED BY <2>1, RemoveKept
<1> QED BY <1>1, <1>2, <1>3 DEF AgentStep, AgentWrite, TurnFinalize

\* RemoveSound is preserved by every step.
LEMMA RemoveNext ==
  TypeOK /\ OverlapInv /\ RemoveSound /\ [Next]_vars => RemoveSound'
<1> SUFFICES ASSUME TypeOK, OverlapInv, RemoveSound, [Next]_vars
             PROVE  RemoveSound'
  OBVIOUS
<1>1. ASSUME NEW p \in Procs, Start(p) \/ Work(p) \/ AgentStep(p) \/ Crash(p)
      PROVE  RemoveSound'
  BY <1>1, RemoveStart, RemoveWork, RemoveAgentStep, RemoveEnded DEF Crash
<1>2. CASE Reboot
  BY <1>2 DEF Reboot, RemoveSound, At, NoJob
<1>3. CASE UNCHANGED vars
  BY <1>3 DEF vars, RemoveSound, At
<1> QED BY <1>1, <1>2, <1>3 DEF Next

\* Nobody is at work, and nothing is owed, initially.
LEMMA OverlapInit == Init => OverlapInv
<1> SUFFICES ASSUME Init PROVE OverlapInv
  OBVIOUS
<1>1. (\A q \in Procs : job[q] = NoJob) /\ agents = {} /\ owed = {}
  BY DEF Init
<1>2. \A q \in Procs : PlaceSound(q) /\ AloneSound(q) /\ WorkSound(q)
  BY <1>1 DEF PlaceSound, AloneSound, WorkSound, Exclusive, Idle, At, NoJob,
     Launching, Finalizers, Supervisors
<1> QED BY <1>1, <1>2 DEF OverlapInv, OthersFinish, Idle, NoJob,
           ClosedOwesNothing, SettledIsShut

----------------------------------------------------------------------------
(* The theorems. *)

\* The invariant holds when nothing but `finish' is started beside a command
\* at work.
LEMMA OverlapInvariance ==
  ASSUME LiveCommands \subseteq {"finish"}
  PROVE  Spec => [](TypeOK /\ OverlapInv /\ RemoveSound)
<1>1. Init => TypeOK /\ OverlapInv /\ RemoveSound
  BY TypeInit, OverlapInit DEF Init, RemoveSound
<1>2. TypeOK /\ OverlapInv /\ RemoveSound /\ [Next]_vars
        => (TypeOK /\ OverlapInv /\ RemoveSound)'
  BY TypeNext, OverlapNext, RemoveNext
<1> QED BY <1>1, <1>2, PTL DEF Spec

\* A `finish' started while a supervisor and its agent are alive (two finalizations of one bundle, each writing session.json back
\* whole) loses no policy-visible change that was neither applied nor given
\* up, whatever fails, crashes or reboots in between.
THEOREM OverlapLosesNoWork ==
  ASSUME LiveCommands \subseteq {"finish"}
  PROVE  Spec => []NoWorkLost
<1>1. OverlapInv => NoWorkLost
  BY DEF OverlapInv, NoWorkLost, Visible, Changed
<1> QED BY <1>1, OverlapInvariance, PTL

\* With the same overlap no session is recorded as auto-committed, committed
\* or aborted, and so removable by a plain `cleanup', while work is owed.
THEOREM OverlapClosesNothingOwed ==
  ASSUME LiveCommands \subseteq {"finish"}
  PROVE  Spec => []ClosedOwesNothing
<1>1. OverlapInv => ClosedOwesNothing
  BY DEF OverlapInv
<1> QED BY <1>1, OverlapInvariance, PTL

\* While the record says pending-review no write of an agent reaches the
\* branch under review, even when `finish' froze it under a living agent:
\* what the operator commits is what the review showed.
THEOREM ReviewIsStable ==
  ASSUME LiveCommands \subseteq {"finish"}
  PROVE  Spec => ReviewedBranchIsStable
<1>1. TypeOK /\ OverlapInv /\ RemoveSound /\ [Next]_vars =>
        [disk.st = "pending-review"
           => \A x \in Paths : delta'[x] \in {delta[x], 0}]_vars
  <2> SUFFICES ASSUME TypeOK, OverlapInv, RemoveSound, Next,
                      disk.st = "pending-review", NEW x \in Paths
               PROVE  delta'[x] \in {delta[x], 0}
    OBVIOUS
  <2>1. ASSUME NEW p \in Procs, NEW y \in Paths, AgentWrite(p, y) PROVE FALSE
    BY <2>1, ConstantsAssumption
       DEF OverlapInv, SettledIsShut, Shut, AgentWrite
  <2>2. ASSUME NEW p \in Procs, NEW y \in Paths, Prune(p, y)
        PROVE  delta'[x] \in {delta[x], 0}
    BY <2>2 DEF Prune, TypeOK
  <2>3. ASSUME NEW p \in Procs, NEW r \in Roots, Discard(p, r)
        PROVE  delta'[x] \in {delta[x], 0}
    BY <2>3 DEF Discard, Dropped
  <2>4. \/ \E p \in Procs, y \in Paths : AgentWrite(p, y) \/ Prune(p, y)
        \/ \E p \in Procs, r \in Roots : Discard(p, r)
        \/ UNCHANGED delta
    <3>1. ASSUME NEW p \in Procs, Start(p) PROVE UNCHANGED delta
      BY <3>1 DEF Start, RunCreate, ResumeLoad, FinishLoad, CommitLoad,
         SelectLoad, AbortLoad, ThawLoad, CleanupLoad
    <3>2. ASSUME NEW p \in Procs, Attaching(p) PROVE UNCHANGED delta
      BY <3>2 DEF Attaching, RunMounting, AttachError, Launch, LaunchError,
         Attach
    <3>3. ASSUME NEW p \in Procs, Freezing(p) PROVE UNCHANGED delta
      BY <3>3 DEF Freezing, BeginFinalize, FreezeError, FreezeDone, Evaluate,
         EvaluateError, Freeze
    <3>4. ASSUME NEW p \in Procs, Applying(p)
          PROVE  UNCHANGED delta \/ \E y \in Paths : Prune(p, y)
      BY <3>4 DEF Applying, ApplyError, ApplyDone, PruneDone, PruneError,
         Apply, ApplyDenied
    <3>5. ASSUME NEW p \in Procs, Discarding(p)
          PROVE  UNCHANGED delta \/ \E r \in Roots : Discard(p, r)
      BY <3>5 DEF Discarding, RecordOutcome, RecordRefused, DiscardError
    <3>6. ASSUME NEW p \in Procs, Thawing(p) \/ Remove(p)
          PROVE  UNCHANGED delta
      BY <3>6, OverlapRemove DEF Thawing, ThawError, ThawDone, Thaw
    <3>7. ASSUME NEW p \in Procs, AgentStep(p)
          PROVE  UNCHANGED delta \/ \E y \in Paths : AgentWrite(p, y)
      BY <3>7 DEF AgentStep, TurnFinalize, RequestAbort, AgentExit
    <3>8. ASSUME NEW p \in Procs, Crash(p) PROVE UNCHANGED delta
      BY <3>8 DEF Crash
    <3>9. ASSUME Reboot PROVE UNCHANGED delta
      BY <3>9 DEF Reboot
    <3> QED BY <3>1, <3>2, <3>3, <3>4, <3>5, <3>6, <3>7, <3>8, <3>9
            DEF Next, Work
  <2> QED BY <2>1, <2>2, <2>3, <2>4
<1> QED BY <1>1, OverlapInvariance, PTL DEF Spec, ReviewedBranchIsStable

=============================================================================
