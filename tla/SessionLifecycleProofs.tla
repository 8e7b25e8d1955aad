---------------------- MODULE SessionLifecycleProofs ----------------------
(* Proofs about SessionLifecycle: type correctness and the respect of the  *)
(* scopes for every instance; and, when commands do not overlap, that no   *)
(* work is lost or stranded and what a living agent runs on.               *)
(* SessionOverlapProofs continues with a live `finish'.                    *)
EXTENDS SessionLifecycle, TLAPS

\* The job of an idle process, and the record `run' creates, are well typed.
LEMMA NoJobIsJob == NoJob \in Job /\ NewRecord \in Record
BY ConstantsAssumption
   DEF NoJob, Job, NewRecord, Record, States, NoFile, Commands, Finalizers,
       Supervisors, Steps, Modes

\* Only the state of the record changes when a process transitions it.
LEMMA TransitionedRecord ==
  ASSUME NEW m \in Record, NEW s \in States \cup NoFile
  PROVE  [m EXCEPT !.st = s] \in Record
BY DEF Record

\* Replacing the job of one process.
LEMMA BecomeJob ==
  ASSUME job \in [Procs -> Job], NEW p \in Procs, NEW j \in Job, Become(p, j)
  PROVE  /\ job' \in [Procs -> Job]
         /\ job'[p] = j
         /\ \A q \in Procs : q # p => job'[q] = job[q]
BY DEF Become

\* A command that ends.
LEMMA EndJob ==
  ASSUME job \in [Procs -> Job], NEW p \in Procs, End(p)
  PROVE  /\ job' \in [Procs -> Job]
         /\ job'[p] = NoJob
         /\ \A q \in Procs : q # p => job'[q] = job[q]
BY NoJobIsJob, BecomeJob DEF End

\* The types of the fields of a process.
LEMMA JobFields ==
  ASSUME TypeOK, NEW p \in Procs
  PROVE  /\ job[p] \in Job
         /\ job[p].mem \in Record
         /\ job[p].outcome \in States
         /\ job[p].todo \subseteq Roots
         /\ job[p].plan \subseteq Paths
         /\ job[p].applied \subseteq Paths
         /\ job[p].denied \subseteq Paths
         /\ job[p].mem.perm \subseteq Paths
<1>1. job[p] \in Job
  BY DEF TypeOK
<1>2. job[p].mem \in Record
  BY <1>1 DEF Job
<1> QED BY <1>1, <1>2 DEF Job, Record

\* An exception inside finalize_session preserves the types.
LEMMA RaisedTypes ==
  ASSUME TypeOK, NEW p \in Procs, NEW m \in Record, Raised(p, m)
  PROVE  disk' \in Record /\ mounted' \subseteq Roots /\ job' \in [Procs -> Job]
<1>1. [m EXCEPT !.st = "failed"] \in Record
  BY TransitionedRecord DEF States
<1>2. CASE job[p].cmd \in Supervisors
  BY <1>1, <1>2, EndJob DEF Raised, TypeOK
<1>3. CASE job[p].cmd \notin Supervisors
  BY <1>3, EndJob DEF Raised, TypeOK
<1> QED BY <1>2, <1>3

\* Creating, mounting and launching preserve the types.
LEMMA TypeAttaching ==
  ASSUME TypeOK, NEW p \in Procs, Attaching(p)
  PROVE  TypeOK'
<1> USE JobFields
<1>1. CASE RunMounting(p)
  <2> DEFINE m == [job[p].mem EXCEPT !.st = "mounting"]
  <2>1. m \in Record
    BY TransitionedRecord DEF States
  <2>2. [job[p] EXCEPT !.mem = m, !.pc = "attach", !.todo = Roots] \in Job
    BY <2>1 DEF Job, Steps
  <2>3. job' \in [Procs -> Job]
    BY <1>1, <2>2, BecomeJob DEF RunMounting, TypeOK
  <2> QED BY <1>1, <2>1, <2>3 DEF RunMounting, TypeOK
<1>2. CASE AttachError(p)
  <2>1. disk' \in Record
    BY <1>2, TransitionedRecord DEF AttachError, TypeOK, States, Prepared
  <2>2. job' \in [Procs -> Job]
    BY <1>2, EndJob DEF AttachError, TypeOK, Prepared
  <2> QED BY <1>2, <2>1, <2>2 DEF AttachError, TypeOK, Prepared
<1>3. CASE Launch(p)
  <2> DEFINE m == [job[p].mem EXCEPT !.st = "running"]
  <2>1. m \in Record
    BY TransitionedRecord DEF States
  <2>2. [job[p] EXCEPT !.mem = m, !.pc = "wait"] \in Job
    BY <2>1 DEF Job, Steps
  <2>3. job' \in [Procs -> Job]
    BY <1>3, <2>2, BecomeJob DEF Launch, TypeOK
  <2> QED BY <1>3, <2>1, <2>3 DEF Launch, TypeOK
<1>4. CASE LaunchError(p)
  <2>1. disk' \in Record
    BY <1>4, TransitionedRecord DEF LaunchError, TypeOK, States
  <2>2. job' \in [Procs -> Job]
    BY <1>4, EndJob DEF LaunchError, TypeOK
  <2> QED BY <1>4, <2>1, <2>2 DEF LaunchError, TypeOK
<1>5. ASSUME NEW r \in Roots, Attach(p, r) PROVE TypeOK'
  <2>0. AfterAttach(p, r) \in Steps
    BY DEF Steps, AfterAttach
  <2>1. [job[p] EXCEPT !.todo = @ \ {r}, !.pc = AfterAttach(p, r)] \in Job
    BY <2>0 DEF Job
  <2>2. job' \in [Procs -> Job]
    BY <1>5, <2>1, BecomeJob DEF Attach, TypeOK
  <2> QED BY <1>5, <2>2 DEF Attach, TypeOK, Prepared
<1> QED BY <1>1, <1>2, <1>3, <1>4, <1>5 DEF Attaching

\* Freezing and evaluating preserve the types.
LEMMA TypeFreezing ==
  ASSUME TypeOK, NEW p \in Procs, Freezing(p)
  PROVE  TypeOK'
<1> USE JobFields
<1>1. CASE BeginFinalize(p)
  <2> DEFINE m == [job[p].mem EXCEPT !.st = "finalizing"]
  <2>1. m \in Record
    BY TransitionedRecord DEF States
  <2>2. [job[p] EXCEPT !.mem = m, !.pc = "freeze", !.todo = Roots] \in Job
    BY <2>1 DEF Job, Steps
  <2>3. job' \in [Procs -> Job]
    BY <1>1, <2>2, BecomeJob DEF BeginFinalize, TypeOK
  <2> QED BY <1>1, <2>1, <2>3 DEF BeginFinalize, TypeOK
<1>2. CASE FreezeError(p)
  BY <1>2, RaisedTypes DEF FreezeError, TypeOK
<1>3. CASE FreezeDone(p)
  <2> DEFINE m == [job[p].mem EXCEPT !.st = "frozen"]
  <2>1. m \in Record
    BY TransitionedRecord DEF States
  <2>2. [job[p] EXCEPT !.mem = m, !.pc = "evaluate"] \in Job
    BY <2>1 DEF Job, Steps
  <2>3. job' \in [Procs -> Job]
    BY <1>3, <2>2, BecomeJob DEF FreezeDone, TypeOK
  <2> QED BY <1>3, <2>1, <2>3 DEF FreezeDone, TypeOK
<1>4. CASE Evaluate(p)
  <2>1. PICK blocked \in BOOLEAN, seen \in SUBSET Visible :
          LET decision == Decide(job[p].mem.mode, seen, blocked)
          IN  /\ Become(p, AfterDecision(p, decision, seen))
              /\ owed' = IF decision = "abort" THEN {} ELSE owed
    BY <1>4 DEF Evaluate
  <2>2. seen \subseteq Paths
    BY DEF Visible, Changed
  <2> DEFINE decision == Decide(job[p].mem.mode, seen, blocked)
  <2>3. decision \in {"auto-commit", "no-changes", "abort", "pending-review"}
    BY DEF Decide, EvaluatePolicy
  <2>4. [job[p].mem EXCEPT !.perm = {}] \in Record
    BY DEF Record
  <2> HIDE DEF decision
  <2>5. AfterDecision(p, decision, seen) \in Job
    <3>1. CASE decision = "auto-commit"
      BY <3>1, <2>2, <2>4 DEF AfterDecision, Job, Steps, States
    <3>2. CASE decision = "no-changes"
      BY <3>2 DEF AfterDecision, Job, Steps, States
    <3>3. CASE decision = "abort"
      BY <3>3 DEF AfterDecision, Job, Steps, States
    <3>4. CASE decision = "pending-review"
      BY <3>4 DEF AfterDecision, Job, Steps, States
    <3> QED BY <2>3, <3>1, <3>2, <3>3, <3>4
  <2>6. job' \in [Procs -> Job] /\ owed' \subseteq Paths
    BY <2>1, <2>5, BecomeJob DEF TypeOK, decision
  <2> QED BY <1>4, <2>6 DEF Evaluate, TypeOK
<1>5. CASE EvaluateError(p)
  BY <1>5, RaisedTypes DEF EvaluateError, TypeOK
<1>6. ASSUME NEW r \in Roots, Freeze(p, r) PROVE TypeOK'
  <2>1. [job[p] EXCEPT !.todo = @ \ {r}] \in Job
    BY DEF Job, Steps
  <2>2. job' \in [Procs -> Job]
    BY <1>6, <2>1, BecomeJob DEF Freeze, TypeOK
  <2> QED BY <1>6, <2>2 DEF Freeze, TypeOK
<1> QED BY <1>1, <1>2, <1>3, <1>4, <1>5, <1>6 DEF Freezing

\* Applying and pruning preserve the types.
LEMMA TypeApplying ==
  ASSUME TypeOK, NEW p \in Procs, Applying(p)
  PROVE  TypeOK'
<1> USE JobFields
<1>1. CASE ApplyError(p)
  <2>1. disk' \in Record
    BY <1>1, TransitionedRecord DEF ApplyError, TypeOK, States
  <2>2. job' \in [Procs -> Job]
    BY <1>1, EndJob DEF ApplyError, TypeOK
  <2> QED BY <1>1, <2>1, <2>2 DEF ApplyError, TypeOK
<1>2. CASE ApplyDone(p)
  <2>0. AfterApply(p) \in Steps
    BY DEF Steps, AfterApply
  <2>1. [job[p] EXCEPT !.pc = AfterApply(p), !.todo = Roots] \in Job
    BY <2>0 DEF Job
  <2>2. job' \in [Procs -> Job]
    BY <1>2, <2>1, BecomeJob DEF ApplyDone, TypeOK
  <2> QED BY <1>2, <2>2 DEF ApplyDone, TypeOK
<1>3. CASE PruneDone(p)
  <2>1. disk' \in Record
    BY <1>3 DEF PruneDone, Record, States
  <2>2. job' \in [Procs -> Job]
    BY <1>3, EndJob DEF PruneDone, TypeOK
  <2> QED BY <1>3, <2>1, <2>2 DEF PruneDone, TypeOK
<1>4. CASE PruneError(p)
  <2>1. PICK perm \in {job[p].mem.perm, job[p].denied} :
          Raised(p, [job[p].mem EXCEPT !.perm = perm])
    BY <1>4 DEF PruneError
  <2>2. [job[p].mem EXCEPT !.perm = perm] \in Record
    BY DEF Record
  <2> QED BY <1>4, <2>1, <2>2, RaisedTypes DEF PruneError, TypeOK
<1>5. ASSUME NEW x \in Paths, Apply(p, x) PROVE TypeOK'
  <2>1. [job[p] EXCEPT !.plan = @ \ {x}, !.applied = @ \cup {x}] \in Job
    BY DEF Job
  <2>2. job' \in [Procs -> Job]
    BY <1>5, <2>1, BecomeJob DEF Apply, TypeOK
  <2> QED BY <1>5, <2>2 DEF Apply, TypeOK
<1>6. ASSUME NEW x \in Paths, ApplyDenied(p, x) PROVE TypeOK'
  <2>1. [job[p] EXCEPT !.plan = @ \ {x}, !.denied = @ \cup {x}] \in Job
    BY DEF Job
  <2>2. job' \in [Procs -> Job]
    BY <1>6, <2>1, BecomeJob DEF ApplyDenied, TypeOK
  <2> QED BY <1>6, <2>2 DEF ApplyDenied, TypeOK
<1>7. ASSUME NEW x \in Paths, Prune(p, x) PROVE TypeOK'
  <2>1. [job[p] EXCEPT !.applied = @ \ {x}] \in Job
    BY DEF Job
  <2>2. job' \in [Procs -> Job]
    BY <1>7, <2>1, BecomeJob DEF Prune, TypeOK
  <2> QED BY <1>7, <2>2, ConstantsAssumption DEF Prune, TypeOK
<1> QED BY <1>1, <1>2, <1>3, <1>4, <1>5, <1>6, <1>7 DEF Applying

\* Discarding the bundle and recording the outcome preserve the types.
LEMMA TypeDiscarding ==
  ASSUME TypeOK, NEW p \in Procs, Discarding(p)
  PROVE  TypeOK'
<1> USE JobFields
<1>1. CASE RecordOutcome(p)
  <2>1. disk' \in Record
    <3>1. CASE job[p].cmd = "abort"
      BY <1>1, <3>1 DEF RecordOutcome, Record
    <3>2. CASE job[p].cmd # "abort"
      BY <1>1, <3>2 DEF RecordOutcome, Record
    <3> QED BY <3>1, <3>2
  <2>2. job' \in [Procs -> Job]
    BY <1>1, EndJob DEF RecordOutcome, TypeOK
  <2> QED BY <1>1, <2>1, <2>2 DEF RecordOutcome, TypeOK
<1>2. CASE RecordRefused(p)
  BY <1>2, RaisedTypes DEF RecordRefused, TypeOK
<1>3. ASSUME NEW r \in Roots, Discard(p, r) PROVE TypeOK'
  <2>1. [job[p] EXCEPT !.todo = @ \ {r}] \in Job
    BY DEF Job
  <2>2. job' \in [Procs -> Job]
    BY <1>3, <2>1, BecomeJob DEF Discard, TypeOK
  <2>3. delta' \in [Paths -> 0..MaxVersion]
    BY <1>3, ConstantsAssumption DEF Discard, Dropped, TypeOK
  <2> QED BY <1>3, <2>2, <2>3 DEF Discard, TypeOK
<1>4. ASSUME NEW r \in Roots, DiscardError(p, r) PROVE TypeOK'
  <2>1. CASE Raised(p, job[p].mem)
    BY <1>4, <2>1, RaisedTypes DEF DiscardError, TypeOK
  <2>2. CASE disk' = job[p].mem /\ End(p) /\ UNCHANGED mounted
    BY <1>4, <2>2, EndJob DEF DiscardError, TypeOK
  <2>3. CASE /\ disk' = job[p].mem
             /\ Become(p, [job[p] EXCEPT !.todo = @ \ {r}])
             /\ UNCHANGED mounted
    <3>1. [job[p] EXCEPT !.todo = @ \ {r}] \in Job
      BY DEF Job
    <3>2. job' \in [Procs -> Job]
      BY <2>3, <3>1, BecomeJob DEF TypeOK
    <3> QED BY <1>4, <2>3, <3>2 DEF DiscardError, TypeOK
  <2> QED BY <1>4, <2>1, <2>2, <2>3 DEF DiscardError
<1> QED BY <1>1, <1>2, <1>3, <1>4 DEF Discarding

\* Thawing preserves the types.
LEMMA TypeThawing ==
  ASSUME TypeOK, NEW p \in Procs, Thawing(p)
  PROVE  TypeOK'
<1> USE JobFields
<1>1. CASE ThawError(p)
  BY <1>1, EndJob DEF ThawError, TypeOK
<1>2. CASE ThawDone(p)
  <2>1. disk' \in Record
    BY <1>2, TransitionedRecord DEF ThawDone, States
  <2> QED BY <1>2, <2>1, EndJob DEF ThawDone, TypeOK
<1>3. ASSUME NEW r \in Roots, Thaw(p, r) PROVE TypeOK'
  <2>1. [job[p] EXCEPT !.todo = @ \ {r}] \in Job
    BY DEF Job
  <2>2. job' \in [Procs -> Job]
    BY <1>3, <2>1, BecomeJob DEF Thaw, TypeOK
  <2> QED BY <1>3, <2>2 DEF Thaw, TypeOK
<1> QED BY <1>1, <1>2, <1>3 DEF Thawing

\* Starting a command preserves the types.
LEMMA TypeStart ==
  ASSUME TypeOK, NEW p \in Procs, Start(p)
  PROVE  TypeOK'
<1> USE NoJobIsJob
<1>0. disk \in Record
  BY DEF TypeOK
<1>1. CASE RunCreate(p)
  <2>1. [NoJob EXCEPT !.cmd = "run", !.pc = "begin"] \in Job
    BY DEF Job, Commands, Finalizers, Supervisors, Steps
  <2>2. job' \in [Procs -> Job]
    BY <1>1, <2>1, BecomeJob DEF RunCreate, TypeOK
  <2> QED BY <1>1, <2>2 DEF RunCreate, TypeOK
<1>2. CASE ResumeLoad(p)
  <2>1. [NoJob EXCEPT !.cmd = "resume", !.mem = disk, !.pc = "attach",
                      !.todo = Roots] \in Job
    BY <1>0 DEF Job, Commands, Finalizers, Supervisors, Steps
  <2>2. job' \in [Procs -> Job]
    BY <1>2, <2>1, BecomeJob DEF ResumeLoad, TypeOK
  <2> QED BY <1>2, <2>2 DEF ResumeLoad, TypeOK
<1>3. CASE FinishLoad(p)
  <2> DEFINE m == [disk EXCEPT !.st = "finalizing"]
  <2>1. m \in Record
    BY <1>0, TransitionedRecord DEF States
  <2>2. [NoJob EXCEPT !.cmd = "finish", !.mem = m, !.pc = "freeze",
                      !.todo = Roots] \in Job
    BY <2>1 DEF Job, Commands, Finalizers, Supervisors, Steps
  <2>3. job' \in [Procs -> Job]
    BY <1>3, <2>2, BecomeJob DEF FinishLoad, TypeOK
  <2> QED BY <1>3, <2>1, <2>3 DEF FinishLoad, TypeOK
<1>4. CASE CommitLoad(p)
  <2>1. PICK shown \in SUBSET Paths :
          /\ Become(p, [NoJob EXCEPT !.cmd = "commit",
                         !.mem = [disk EXCEPT !.perm = {}], !.pc = "apply",
                         !.plan = shown, !.outcome = "committed"])
          /\ owed' = owed \cap shown
    BY <1>4 DEF CommitLoad, Visible, Changed
  <2>2. [disk EXCEPT !.perm = {}] \in Record
    BY <1>0 DEF Record
  <2>3. [NoJob EXCEPT !.cmd = "commit", !.mem = [disk EXCEPT !.perm = {}],
           !.pc = "apply", !.plan = shown, !.outcome = "committed"] \in Job
    BY <2>2 DEF Job, Commands, Finalizers, Supervisors, Steps, States
  <2>4. job' \in [Procs -> Job]
    BY <2>1, <2>3, BecomeJob DEF TypeOK
  <2> QED BY <1>4, <2>1, <2>4 DEF CommitLoad, TypeOK
<1>5. CASE SelectLoad(p)
  <2>1. PICK chosen \in SUBSET Paths :
          /\ Become(p, [NoJob EXCEPT !.cmd = "select", !.mem = disk,
                         !.pc = "apply", !.plan = chosen,
                         !.outcome = "committed"])
          /\ owed' = owed \cap chosen
    BY <1>5 DEF SelectLoad, Changed
  <2>2. [NoJob EXCEPT !.cmd = "select", !.mem = disk, !.pc = "apply",
           !.plan = chosen, !.outcome = "committed"] \in Job
    BY <1>0 DEF Job, Commands, Steps, States
  <2>3. job' \in [Procs -> Job]
    BY <2>1, <2>2, BecomeJob DEF TypeOK
  <2> QED BY <1>5, <2>1, <2>3 DEF SelectLoad, TypeOK
<1>6. CASE AbortLoad(p)
  <2>1. AbortOutcome \in States
    BY DEF AbortOutcome, States
  <2>2. [NoJob EXCEPT !.cmd = "abort", !.mem = disk, !.pc = "discard",
           !.todo = Roots, !.outcome = AbortOutcome] \in Job
    BY <1>0, <2>1 DEF Job, Commands, Steps
  <2>3. job' \in [Procs -> Job]
    BY <1>6, <2>2, BecomeJob DEF AbortLoad, TypeOK
  <2> QED BY <1>6, <2>3 DEF AbortLoad, TypeOK
<1>7. CASE ThawLoad(p)
  <2>1. [NoJob EXCEPT !.cmd = "thaw", !.mem = disk, !.pc = "thaw",
           !.todo = Roots] \in Job
    BY <1>0 DEF Job, Commands, Steps
  <2>2. job' \in [Procs -> Job]
    BY <1>7, <2>1, BecomeJob DEF ThawLoad, TypeOK
  <2> QED BY <1>7, <2>2 DEF ThawLoad, TypeOK
<1>8. ASSUME NEW all \in BOOLEAN, CleanupLoad(p, all) PROVE TypeOK'
  <2>1. [NoJob EXCEPT !.cmd = "cleanup", !.mem = disk, !.pc = "remove"] \in Job
    BY <1>0 DEF Job, Commands, Steps
  <2>2. job' \in [Procs -> Job]
    BY <1>8, <2>1, BecomeJob DEF CleanupLoad, TypeOK
  <2> QED BY <1>8, <2>2 DEF CleanupLoad, TypeOK
<1> QED BY <1>1, <1>2, <1>3, <1>4, <1>5, <1>6, <1>7, <1>8 DEF Start

\* Removing the session bundle preserves the types.
LEMMA TypeRemove ==
  ASSUME TypeOK, NEW p \in Procs, Remove(p)
  PROVE  TypeOK'
<1>1. disk' \in Record
  BY TransitionedRecord DEF Remove, TypeOK, NoFile
<1>2. delta' \in [Paths -> 0..MaxVersion]
  BY DEF Remove, Swept
<1>3. job' \in [Procs -> Job]
  BY EndJob DEF Remove, TypeOK
<1> QED BY <1>1, <1>2, <1>3 DEF Remove, TypeOK

\* The agent and the turn controller preserve the types.
LEMMA TypeAgentStep ==
  ASSUME TypeOK, NEW p \in Procs, AgentStep(p)
  PROVE  TypeOK'
<1> USE JobFields
<1>1. ASSUME NEW x \in Paths, AgentWrite(p, x) PROVE TypeOK'
  <2>1. delta' \in [Paths -> 0..MaxVersion]
    BY <1>1, ConstantsAssumption DEF AgentWrite, Newest, TypeOK
  <2> QED BY <1>1, <2>1 DEF AgentWrite, TypeOK
<1>2. CASE TurnFinalize(p)
  <2>1. base' \in [Paths -> 0..MaxVersion]
    BY <1>2 DEF TurnFinalize, TypeOK
  <2> QED BY <1>2, <2>1 DEF TurnFinalize, TypeOK
<1>3. CASE RequestAbort(p)
  <2> DEFINE m == [job[p].mem EXCEPT !.mode = "throwaway",
                                     !.abortRequested = TRUE]
  <2>1. m \in Record
    BY DEF Record, Modes
  <2>2. [job[p] EXCEPT !.mem = m] \in Job
    BY <2>1 DEF Job
  <2>3. job' \in [Procs -> Job]
    BY <1>3, <2>2, BecomeJob DEF RequestAbort, TypeOK
  <2> QED BY <1>3, <2>1, <2>3 DEF RequestAbort, TypeOK
<1>4. CASE AgentExit(p)
  <2>1. [job[p] EXCEPT !.pc = "exited"] \in Job
    BY DEF Job, Steps
  <2>2. job' \in [Procs -> Job]
    BY <1>4, <2>1, BecomeJob DEF AgentExit, TypeOK
  <2> QED BY <1>4, <2>2 DEF AgentExit, TypeOK
<1> QED BY <1>1, <1>2, <1>3, <1>4 DEF AgentStep

\* Every step of the session preserves the types.
LEMMA TypeNext == TypeOK /\ [Next]_vars => TypeOK'
<1> SUFFICES ASSUME TypeOK, [Next]_vars PROVE TypeOK'
  OBVIOUS
<1>1. ASSUME NEW p \in Procs, Start(p) PROVE TypeOK'
  BY <1>1, TypeStart
<1>2. ASSUME NEW p \in Procs, Work(p) PROVE TypeOK'
  BY <1>2, TypeAttaching, TypeFreezing, TypeApplying, TypeDiscarding,
     TypeThawing, TypeRemove DEF Work
<1>3. ASSUME NEW p \in Procs, AgentStep(p) PROVE TypeOK'
  BY <1>3, TypeAgentStep
<1>4. ASSUME NEW p \in Procs, Crash(p) PROVE TypeOK'
  BY <1>4, EndJob DEF Crash, TypeOK
<1>5. CASE Reboot
  BY <1>5, NoJobIsJob DEF Reboot, TypeOK
<1>6. CASE UNCHANGED vars
  BY <1>6 DEF vars, TypeOK
<1> QED BY <1>1, <1>2, <1>3, <1>4, <1>5, <1>6 DEF Next

\* The initial state is well typed.
LEMMA TypeInit == Init => TypeOK
<1> SUFFICES ASSUME Init PROVE TypeOK
  OBVIOUS
<1>1. disk \in Record
  BY NoJobIsJob, TransitionedRecord DEF Init, NoFile
<1> QED BY <1>1, NoJobIsJob, ConstantsAssumption DEF Init, TypeOK

\* Type correctness of session.json, the branch bundle, the underlay and the
\* processes, for all sets of processes, roots and paths and every policy.
THEOREM TypeCorrectness == Spec => []TypeOK
BY TypeInit, TypeNext, PTL DEF Spec

(***************************************************************************)
(* No work is lost: WorkIsAccountedFor is inductive once the types are     *)
(* known and commands do not overlap.                                      *)
(***************************************************************************)

\* A step of the process p leaves the others idle: only its own soundness,
\* the whereabouts of the changes owed and the closed record are at stake.
LEMMA OthersStayIdle ==
  ASSUME WorkIsAccountedFor, NEW p \in Procs,
         ~Idle(p) \/ (\A q \in Procs : Idle(q)),
         \A q \in Procs : q # p => job'[q] = job[q],
         agents' \subseteq agents \cup {p},
         ProcessSound(p)', (owed \subseteq Visible)', ClosedOwesNothing'
  PROVE  WorkIsAccountedFor'
<1>1. \A q \in Procs : q # p => Idle(q) /\ Idle(q)'
  BY DEF WorkIsAccountedFor, OneCommandAtATime, Idle
<1>2. OneCommandAtATime'
  BY <1>1 DEF OneCommandAtATime
<1>3. ASSUME NEW q \in Procs, q # p PROVE ProcessSound(q)'
  <2>1. At(q, "idle") /\ q \notin agents /\ job[q].applied = {}
    BY <1>1, <1>3 DEF WorkIsAccountedFor, ProcessSound, At
  <2>2. job'[q].pc = "idle" /\ q \notin agents' /\ job'[q].applied = {}
    BY <1>3, <2>1 DEF At
  <2> QED BY <1>1, <1>3, <2>2 DEF ProcessSound, At
<1> QED BY <1>2, <1>3 DEF WorkIsAccountedFor

\* A command that ends loses nothing unless it closes the session.
LEMMA EndKeepsWork ==
  ASSUME TypeOK, WorkIsAccountedFor, NEW p \in Procs, ~Idle(p), End(p),
         p \notin agents', agents' \subseteq agents,
         owed' \subseteq owed, delta' = delta, ClosedOwesNothing'
  PROVE  WorkIsAccountedFor'
<1>1. job'[p] = NoJob /\ \A q \in Procs : q # p => job'[q] = job[q]
  BY EndJob DEF TypeOK
<1>2. ProcessSound(p)'
  BY <1>1 DEF ProcessSound, Idle, At, NoJob
<1>3. (owed \subseteq Visible)'
  BY DEF WorkIsAccountedFor, Visible, Changed
<1> QED BY <1>1, <1>2, <1>3, OthersStayIdle

\* A process past its start is not idle, holds the state that is on disk and,
\* unless it waits for its agent, has none.
LEMMA Busy ==
  ASSUME WorkIsAccountedFor, NEW p \in Procs, job[p].pc # "idle"
  PROVE  /\ ~Idle(p)
         /\ disk.st = job[p].mem.st
         /\ job[p].pc # "wait" => p \notin agents
BY DEF WorkIsAccountedFor, ProcessSound, At, Idle

\* The job of p is replaced, whatever the new one is.
LEMMA BecomeOnly ==
  ASSUME TypeOK, NEW p \in Procs, NEW j, Become(p, j)
  PROVE  job'[p] = j /\ \A q \in Procs : q # p => job'[q] = job[q]
BY DEF Become, TypeOK

\* A step of a command that neither closes the session nor drops a change.
LEMMA StepKeepsWork ==
  ASSUME TypeOK, WorkIsAccountedFor, NEW p \in Procs, NEW j, Become(p, j),
         job[p].pc # "idle", agents' \subseteq agents \cup {p},
         ProcessSound(p)', owed' \subseteq owed, delta' = delta,
         ClosedOwesNothing'
  PROVE  WorkIsAccountedFor'
<1>1. (owed \subseteq Visible)'
  BY DEF WorkIsAccountedFor, Visible, Changed
<1> QED BY <1>1, BecomeOnly, Busy, OthersStayIdle

\* Creating, mounting and launching lose nothing.
LEMMA WorkAttaching ==
  ASSUME TypeOK, WorkIsAccountedFor, NEW p \in Procs, Attaching(p)
  PROVE  WorkIsAccountedFor'
<1> USE JobFields
<1>0. ProcessSound(p) /\ ClosedOwesNothing
  BY DEF WorkIsAccountedFor
<1>1. CASE RunMounting(p)
  <2> DEFINE m == [job[p].mem EXCEPT !.st = "mounting"]
             j == [job[p] EXCEPT !.mem = m, !.pc = "attach", !.todo = Roots]
  <2>1. Become(p, j) /\ job[p].pc = "begin" /\ disk' = m
    BY <1>1 DEF RunMounting, At
  <2>2. m.st = "mounting" /\ j.cmd = job[p].cmd /\ j.pc = "attach"
          /\ j.mem = m /\ j.applied = job[p].applied
    BY DEF Job, Record
  <2> HIDE DEF j, m
  <2>3. job'[p] = j
    BY <2>1, BecomeOnly
  <2>4. ~Idle(p) /\ p \notin agents'
    BY <1>1, <2>1, Busy DEF RunMounting
  <2>5. ProcessSound(p)'
    BY <1>0, <2>1, <2>2, <2>3, <2>4 DEF ProcessSound, Idle, At
  <2>6. ClosedOwesNothing'
    BY <2>1, <2>2 DEF ClosedOwesNothing, CleanupStates
  <2> QED BY <1>1, <2>1, <2>5, <2>6, StepKeepsWork DEF RunMounting
<1>2. CASE AttachError(p)
  <2>1. job[p].pc = "attach" /\ End(p) /\ agents' = agents /\ owed' = owed
          /\ delta' = delta /\ disk'.st \in {"failed", job[p].mem.st}
    BY <1>2 DEF AttachError, At, Record
  <2>2. ClosedOwesNothing'
    BY <1>0, <2>1, Busy DEF ClosedOwesNothing, CleanupStates
  <2> QED BY <2>1, <2>2, Busy, EndKeepsWork
<1>3. CASE Launch(p)
  <2> DEFINE m == [job[p].mem EXCEPT !.st = "running"]
             j == [job[p] EXCEPT !.mem = m, !.pc = "wait"]
  <2>1. Become(p, j) /\ job[p].pc = "launch" /\ disk' = m
    BY <1>3 DEF Launch, At
  <2>2. m.st = "running" /\ j.cmd = job[p].cmd /\ j.pc = "wait"
          /\ j.mem = m /\ j.applied = job[p].applied
    BY DEF Job, Record
  <2> HIDE DEF j, m
  <2>3. job'[p] = j
    BY <2>1, BecomeOnly
  <2>4. ~Idle(p)
    BY <2>1, Busy
  <2>5. ProcessSound(p)'
    BY <1>0, <2>1, <2>2, <2>3, <2>4 DEF ProcessSound, Idle, At
  <2>6. ClosedOwesNothing'
    BY <2>1, <2>2 DEF ClosedOwesNothing, CleanupStates
  <2> QED BY <1>3, <2>1, <2>5, <2>6, StepKeepsWork DEF Launch
<1>4. CASE LaunchError(p)
  <2>1. job[p].pc \in {"launch", "exited"} /\ disk'.st = "failed" /\ agents' = agents
          /\ owed' = owed /\ delta' = delta /\ End(p)
    BY <1>4 DEF LaunchError, At, Record
  <2>2. ClosedOwesNothing'
    BY <2>1 DEF ClosedOwesNothing, CleanupStates
  <2> QED BY <2>1, <2>2, Busy, EndKeepsWork
<1>5. ASSUME NEW r \in Roots, Attach(p, r) PROVE WorkIsAccountedFor'
  <2> DEFINE j == [job[p] EXCEPT !.todo = @ \ {r}, !.pc = AfterAttach(p, r)]
  <2>1. Become(p, j) /\ job[p].pc = "attach" /\ disk' = disk
    BY <1>5 DEF Attach, At
  <2>2. j.cmd = job[p].cmd /\ j.pc = AfterAttach(p, r)
          /\ j.mem = job[p].mem /\ j.applied = job[p].applied
    BY DEF Job
  <2> HIDE DEF j
  <2>3. job'[p] = j /\ j.pc \in {"attach", "launch"}
    BY <2>1, <2>2, BecomeOnly DEF AfterAttach
  <2>4. ~Idle(p) /\ p \notin agents'
    BY <1>5, <2>1, Busy DEF Attach
  <2>5. ProcessSound(p)'
    BY <1>0, <2>1, <2>2, <2>3, <2>4 DEF ProcessSound, Idle, At
  <2>6. ClosedOwesNothing'
    BY <1>0, <1>5 DEF ClosedOwesNothing, Attach
  <2> QED BY <1>5, <2>1, <2>5, <2>6, StepKeepsWork DEF Attach
<1> QED BY <1>1, <1>2, <1>3, <1>4, <1>5 DEF Attaching

\* An exception inside finalize_session loses nothing.
LEMMA RaisedKeepsWork ==
  ASSUME TypeOK, WorkIsAccountedFor, NEW p \in Procs, NEW m \in Record,
         Raised(p, m), job[p].pc \notin {"idle", "wait"},
         UNCHANGED <<delta, agents, owed>>
  PROVE  WorkIsAccountedFor'
<1>1. End(p) /\ disk'.st \in {"failed", disk.st}
  BY DEF Raised, Record
<1>2. ClosedOwesNothing'
  BY <1>1 DEF WorkIsAccountedFor, ClosedOwesNothing, CleanupStates
<1> QED BY <1>1, <1>2, Busy, EndKeepsWork

\* Freezing and evaluating lose nothing: a decision that discards the bundle
\* without applying it was taken on a complete status that showed no change,
\* or by the throwaway policy.
LEMMA WorkFreezing ==
  ASSUME TypeOK, WorkIsAccountedFor, NEW p \in Procs, Freezing(p)
  PROVE  WorkIsAccountedFor'
<1> USE JobFields
<1>0. ProcessSound(p) /\ ClosedOwesNothing /\ owed \subseteq Visible
  BY DEF WorkIsAccountedFor
<1>1. CASE BeginFinalize(p)
  <2> DEFINE m == [job[p].mem EXCEPT !.st = "finalizing"]
             j == [job[p] EXCEPT !.mem = m, !.pc = "freeze", !.todo = Roots]
  <2>1. Become(p, j) /\ job[p].pc = "exited" /\ disk' = m
    BY <1>1 DEF BeginFinalize, At
  <2>2. m.st = "finalizing" /\ j.cmd = job[p].cmd /\ j.pc = "freeze"
          /\ j.mem = m /\ j.applied = job[p].applied
    BY DEF Job, Record
  <2> HIDE DEF j, m
  <2>3. job'[p] = j
    BY <2>1, BecomeOnly
  <2>4. ~Idle(p) /\ p \notin agents'
    BY <1>1, <2>1, Busy DEF BeginFinalize
  <2>5. ProcessSound(p)'
    BY <1>0, <2>1, <2>2, <2>3, <2>4 DEF ProcessSound, Idle, At
  <2>6. ClosedOwesNothing'
    BY <2>1, <2>2 DEF ClosedOwesNothing, CleanupStates
  <2> QED BY <1>1, <2>1, <2>5, <2>6, StepKeepsWork DEF BeginFinalize
<1>2. CASE FreezeError(p)
  BY <1>2, RaisedKeepsWork DEF FreezeError, At
<1>3. CASE FreezeDone(p)
  <2> DEFINE m == [job[p].mem EXCEPT !.st = "frozen"]
             j == [job[p] EXCEPT !.mem = m, !.pc = "evaluate"]
  <2>1. Become(p, j) /\ job[p].pc = "freeze" /\ disk' = m
    BY <1>3 DEF FreezeDone, At
  <2>2. m.st = "frozen" /\ j.cmd = job[p].cmd /\ j.pc = "evaluate"
          /\ j.mem = m /\ j.applied = job[p].applied
    BY DEF Job, Record
  <2> HIDE DEF j, m
  <2>3. job'[p] = j
    BY <2>1, BecomeOnly
  <2>4. ~Idle(p) /\ p \notin agents'
    BY <1>3, <2>1, Busy DEF FreezeDone
  <2>5. ProcessSound(p)'
    BY <1>0, <2>1, <2>2, <2>3, <2>4 DEF ProcessSound, Idle, At
  <2>6. ClosedOwesNothing'
    BY <2>1, <2>2 DEF ClosedOwesNothing, CleanupStates
  <2> QED BY <1>3, <2>1, <2>5, <2>6, StepKeepsWork DEF FreezeDone
<1>4. CASE Evaluate(p)
  <2>1. PICK blocked \in BOOLEAN, seen \in SUBSET Visible :
          LET decision == Decide(job[p].mem.mode, seen, blocked)
          IN  /\ blocked \/ seen = Visible
              /\ Become(p, AfterDecision(p, decision, seen))
              /\ owed' = IF decision = "abort" THEN {} ELSE owed
    BY <1>4 DEF Evaluate
  <2> DEFINE decision == Decide(job[p].mem.mode, seen, blocked)
             j == AfterDecision(p, decision, seen)
  <2>2. decision \in {"auto-commit", "no-changes", "abort", "pending-review"}
    BY DEF Decide, EvaluatePolicy
  <2>3. decision = "no-changes" => seen = {} /\ ~blocked
    BY DEF Decide, EvaluatePolicy
  <2>4. decision = "auto-commit" => ~blocked
    BY DEF Decide, EvaluatePolicy
  <2>5. (blocked \/ seen = Visible) /\ Become(p, j)
          /\ owed' = IF decision = "abort" THEN {} ELSE owed
    BY <2>1
  <2> HIDE DEF decision
  <2>6. /\ j.cmd = job[p].cmd /\ j.applied = job[p].applied
        /\ j.mem.st = job[p].mem.st
        /\ j.pc \in {"apply", "discard"}
        /\ j.pc = "apply" => decision = "auto-commit" /\ j.plan = seen
                               /\ j.outcome = "auto-committed"
        /\ j.pc = "discard" /\ decision \notin {"abort", "no-changes"}
             => j.outcome = "pending-review" /\ j.todo = {}
    <3>1. CASE decision = "auto-commit"
      BY <3>1 DEF AfterDecision, Job, Record
    <3>2. CASE decision = "no-changes"
      BY <3>2 DEF AfterDecision, Job, Record
    <3>3. CASE decision = "abort"
      BY <3>3 DEF AfterDecision, Job, Record
    <3>4. CASE decision = "pending-review"
      BY <3>4 DEF AfterDecision, Job, Record
    <3> QED BY <2>2, <3>1, <3>2, <3>3, <3>4
  <2> HIDE DEF j
  <2>7. job'[p] = j /\ job[p].pc = "evaluate" /\ disk' = disk
          /\ agents' = agents /\ delta' = delta
    BY <1>4, <2>5, BecomeOnly DEF Evaluate, At
  <2>8. ~Idle(p) /\ p \notin agents' /\ disk.st = job[p].mem.st
          /\ job[p].applied = {}
    BY <1>0, <2>7, Busy DEF ProcessSound
  <2>9. ProcessSound(p)'
    <3>1. j.pc = "apply" => owed' \subseteq j.plan
      BY <1>0, <2>4, <2>5, <2>6
    <3>2. j.pc = "discard" => owed' = {} \/ (j.outcome = "pending-review"
                                               /\ j.todo = {})
      BY <1>0, <2>3, <2>5, <2>6
    <3> QED BY <2>6, <2>7, <2>8, <3>1, <3>2 DEF ProcessSound, Idle, At
  <2>10. ClosedOwesNothing' /\ owed' \subseteq owed
    BY <1>0, <2>5, <2>7 DEF ClosedOwesNothing
  <2> QED BY <2>5, <2>7, <2>9, <2>10, StepKeepsWork
<1>5. CASE EvaluateError(p)
  BY <1>5, RaisedKeepsWork DEF EvaluateError, At
<1>6. ASSUME NEW r \in Roots, Freeze(p, r) PROVE WorkIsAccountedFor'
  <2> DEFINE j == [job[p] EXCEPT !.todo = @ \ {r}]
  <2>1. Become(p, j) /\ job[p].pc = "freeze" /\ disk' = disk
    BY <1>6 DEF Freeze, At
  <2>2. j.cmd = job[p].cmd /\ j.pc = job[p].pc
          /\ j.mem = job[p].mem /\ j.applied = job[p].applied
    BY DEF Job
  <2> HIDE DEF j
  <2>3. job'[p] = j
    BY <2>1, BecomeOnly
  <2>4. ~Idle(p) /\ p \notin agents'
    BY <1>6, <2>1, Busy DEF Freeze
  <2>5. ProcessSound(p)'
    BY <1>0, <2>1, <2>2, <2>3, <2>4 DEF ProcessSound, Idle, At
  <2>6. ClosedOwesNothing'
    BY <1>0, <1>6 DEF ClosedOwesNothing, Freeze
  <2> QED BY <1>6, <2>1, <2>5, <2>6, StepKeepsWork DEF Freeze
<1> QED BY <1>1, <1>2, <1>3, <1>4, <1>5, <1>6 DEF Freezing

\* Thawing loses nothing.
LEMMA WorkThawing ==
  ASSUME TypeOK, WorkIsAccountedFor, NEW p \in Procs, Thawing(p)
  PROVE  WorkIsAccountedFor'
<1> USE JobFields
<1>0. ProcessSound(p) /\ ClosedOwesNothing
  BY DEF WorkIsAccountedFor
<1>1. CASE ThawError(p)
  <2>1. ClosedOwesNothing'
    BY <1>0, <1>1 DEF ThawError, ClosedOwesNothing
  <2> QED BY <1>1, <2>1, Busy, EndKeepsWork DEF ThawError, At
<1>2. CASE ThawDone(p)
  <2>1. disk'.st = "running"
    BY <1>2 DEF ThawDone, Record
  <2>2. ClosedOwesNothing'
    BY <2>1 DEF ClosedOwesNothing, CleanupStates
  <2> QED BY <1>2, <2>2, Busy, EndKeepsWork DEF ThawDone, At
<1>3. ASSUME NEW r \in Roots, Thaw(p, r) PROVE WorkIsAccountedFor'
  <2> DEFINE j == [job[p] EXCEPT !.todo = @ \ {r}]
  <2>1. Become(p, j) /\ job[p].pc = "thaw" /\ disk' = disk
    BY <1>3 DEF Thaw, At
  <2>2. j.cmd = job[p].cmd /\ j.pc = job[p].pc
          /\ j.mem = job[p].mem /\ j.applied = job[p].applied
    BY DEF Job
  <2> HIDE DEF j
  <2>3. job'[p] = j
    BY <2>1, BecomeOnly
  <2>4. ~Idle(p) /\ p \notin agents'
    BY <1>3, <2>1, Busy DEF Thaw
  <2>5. ProcessSound(p)'
    BY <1>0, <2>1, <2>2, <2>3, <2>4 DEF ProcessSound, Idle, At
  <2>6. ClosedOwesNothing'
    BY <1>0, <1>3 DEF ClosedOwesNothing, Thaw
  <2> QED BY <1>3, <2>1, <2>5, <2>6, StepKeepsWork DEF Thaw
<1> QED BY <1>1, <1>2, <1>3 DEF Thawing

\* Applying and pruning lose nothing: what is pruned has been applied, and
\* the bundle is discarded only when nothing was denied.
LEMMA WorkApplying ==
  ASSUME TypeOK, WorkIsAccountedFor, NEW p \in Procs, Applying(p)
  PROVE  WorkIsAccountedFor'
<1> USE JobFields
<1>0. ProcessSound(p) /\ ClosedOwesNothing /\ owed \subseteq Visible
  BY DEF WorkIsAccountedFor
<1>1. CASE ApplyError(p)
  <2>1. job[p].pc = "apply" /\ End(p) /\ agents' = agents /\ owed' = owed
          /\ delta' = delta /\ disk'.st \in {"failed", job[p].mem.st, disk.st}
    BY <1>1 DEF ApplyError, At, Record
  <2>2. ClosedOwesNothing'
    BY <1>0, <2>1, Busy DEF ClosedOwesNothing, CleanupStates
  <2> QED BY <2>1, <2>2, Busy, EndKeepsWork
<1>2. CASE ApplyDone(p)
  <2> DEFINE j == [job[p] EXCEPT !.pc = AfterApply(p), !.todo = Roots]
  <2>1. Become(p, j) /\ job[p].pc = "apply" /\ job[p].plan = {}
          /\ disk' = disk
    BY <1>2 DEF ApplyDone, At
  <2>2. j.cmd = job[p].cmd /\ j.pc = AfterApply(p) /\ j.mem = job[p].mem
          /\ j.applied = job[p].applied
    BY DEF Job
  <2> HIDE DEF j
  <2>3. job'[p] = j
    BY <2>1, BecomeOnly
  <2>4. ~Idle(p) /\ p \notin agents'
    BY <1>2, <2>1, Busy DEF ApplyDone
  <2>5. CASE job[p].denied = {}
    <3>1. owed = {} /\ j.pc = "discard"
      BY <1>0, <2>1, <2>2, <2>5 DEF ProcessSound, At, AfterApply
    <3>2. ProcessSound(p)'
      BY <1>0, <1>2, <2>1, <2>2, <2>3, <2>4, <3>1
         DEF ProcessSound, Idle, At, ApplyDone
    <3>3. ClosedOwesNothing'
      BY <1>2, <3>1 DEF ClosedOwesNothing, ApplyDone
    <3> QED BY <1>2, <2>1, <3>2, <3>3, StepKeepsWork DEF ApplyDone
  <2>6. CASE job[p].denied # {}
    <3>1. j.pc = "prune"
      BY <2>2, <2>6 DEF AfterApply
    <3>2. ProcessSound(p)'
      BY <1>0, <1>2, <2>1, <2>2, <2>3, <2>4, <3>1
         DEF ProcessSound, Idle, At, ApplyDone
    <3>3. ClosedOwesNothing'
      BY <1>0, <1>2 DEF ClosedOwesNothing, ApplyDone
    <3> QED BY <1>2, <2>1, <3>2, <3>3, StepKeepsWork DEF ApplyDone
  <2> QED BY <2>5, <2>6
<1>3. CASE PruneDone(p)
  <2>1. disk'.st = "pending-review"
    BY <1>3 DEF PruneDone, Record
  <2>2. ClosedOwesNothing'
    BY <2>1 DEF ClosedOwesNothing, CleanupStates
  <2> QED BY <1>3, <2>2, Busy, EndKeepsWork DEF PruneDone, At
<1>4. CASE PruneError(p)
  <2>1. PICK perm \in {job[p].mem.perm, job[p].denied} :
          Raised(p, [job[p].mem EXCEPT !.perm = perm])
    BY <1>4 DEF PruneError
  <2>2. [job[p].mem EXCEPT !.perm = perm] \in Record
    BY DEF Record
  <2> QED BY <1>4, <2>1, <2>2, RaisedKeepsWork DEF PruneError, At
<1>5. ASSUME NEW x \in Paths, Apply(p, x) PROVE WorkIsAccountedFor'
  <2> DEFINE j == [job[p] EXCEPT !.plan = @ \ {x}, !.applied = @ \cup {x}]
  <2>1. Become(p, j) /\ job[p].pc = "apply" /\ disk' = disk
          /\ owed' = owed \ {x}
    BY <1>5 DEF Apply, At
  <2>2. j.cmd = job[p].cmd /\ j.pc = job[p].pc /\ j.mem = job[p].mem
          /\ j.applied = job[p].applied \cup {x} /\ j.denied = job[p].denied
          /\ j.plan = job[p].plan \ {x} /\ j.outcome = job[p].outcome
    BY DEF Job
  <2> HIDE DEF j
  <2>3. job'[p] = j
    BY <2>1, BecomeOnly
  <2>4. ~Idle(p) /\ p \notin agents'
    BY <1>5, <2>1, Busy DEF Apply
  <2>5. ProcessSound(p)'
    <3>1. owed' \subseteq j.plan \cup j.denied /\ owed' \cap j.applied = {}
      BY <1>0, <2>1, <2>2 DEF ProcessSound, At
    <3> QED BY <1>0, <2>1, <2>2, <2>3, <2>4, <3>1 DEF ProcessSound, Idle, At
  <2>6. ClosedOwesNothing'
    BY <1>0, <2>1 DEF ClosedOwesNothing
  <2> QED BY <1>5, <2>1, <2>5, <2>6, StepKeepsWork DEF Apply
<1>6. ASSUME NEW x \in Paths, ApplyDenied(p, x) PROVE WorkIsAccountedFor'
  <2> DEFINE j == [job[p] EXCEPT !.plan = @ \ {x}, !.denied = @ \cup {x}]
  <2>1. Become(p, j) /\ job[p].pc = "apply" /\ disk' = disk
          /\ owed' = owed
    BY <1>6 DEF ApplyDenied, At
  <2>2. j.cmd = job[p].cmd /\ j.pc = job[p].pc /\ j.mem = job[p].mem
          /\ j.applied = job[p].applied /\ j.denied = job[p].denied \cup {x}
          /\ j.plan = job[p].plan \ {x} /\ j.outcome = job[p].outcome
    BY DEF Job
  <2> HIDE DEF j
  <2>3. job'[p] = j
    BY <2>1, BecomeOnly
  <2>4. ~Idle(p) /\ p \notin agents'
    BY <1>6, <2>1, Busy DEF ApplyDenied
  <2>5. ProcessSound(p)'
    <3>1. owed' \subseteq j.plan \cup j.denied /\ owed' \cap j.applied = {}
      BY <1>0, <2>1, <2>2 DEF ProcessSound, At
    <3> QED BY <1>0, <2>1, <2>2, <2>3, <2>4, <3>1 DEF ProcessSound, Idle, At
  <2>6. ClosedOwesNothing'
    BY <1>0, <2>1 DEF ClosedOwesNothing
  <2> QED BY <1>6, <2>1, <2>5, <2>6, StepKeepsWork DEF ApplyDenied
<1>7. ASSUME NEW x \in Paths, Prune(p, x) PROVE WorkIsAccountedFor'
  <2> DEFINE j == [job[p] EXCEPT !.applied = @ \ {x}]
  <2>1. Become(p, j) /\ job[p].pc = "prune" /\ disk' = disk
          /\ owed' = owed /\ agents' = agents
          /\ x \in job[p].applied /\ delta' = [delta EXCEPT ![x] = 0]
    BY <1>7 DEF Prune, At
  <2>2. j.cmd = job[p].cmd /\ j.pc = job[p].pc /\ j.mem = job[p].mem
          /\ j.applied = job[p].applied \ {x}
    BY DEF Job
  <2> HIDE DEF j
  <2>3. job'[p] = j /\ \A q \in Procs : q # p => job'[q] = job[q]
    BY <2>1, BecomeOnly
  <2>4. ~Idle(p) /\ p \notin agents'
    BY <2>1, Busy
  <2>5. ProcessSound(p)'
    BY <1>0, <2>1, <2>2, <2>3, <2>4 DEF ProcessSound, Idle, At
  <2>6. x \notin owed
    BY <1>0, <2>1 DEF ProcessSound, At
  <2>7. (owed \subseteq Visible)'
    BY <1>0, <2>1, <2>6 DEF Visible, Changed, TypeOK
  <2>8. ClosedOwesNothing'
    BY <1>0, <2>1 DEF ClosedOwesNothing
  <2> QED BY <2>1, <2>3, <2>4, <2>5, <2>7, <2>8, OthersStayIdle
<1> QED BY <1>1, <1>2, <1>3, <1>4, <1>5, <1>6, <1>7 DEF Applying

\* Discarding the bundle and recording the outcome lose nothing: whoever
\* discards a branch, and whoever closes the session, owes nothing.
LEMMA WorkDiscarding ==
  ASSUME TypeOK, WorkIsAccountedFor, NEW p \in Procs, Discarding(p)
  PROVE  WorkIsAccountedFor'
<1> USE JobFields
<1>0. ProcessSound(p) /\ ClosedOwesNothing /\ owed \subseteq Visible
  BY DEF WorkIsAccountedFor
<1>1. CASE RecordOutcome(p)
  <2>1. disk'.st = job[p].outcome
    BY <1>1 DEF RecordOutcome, Record
  <2>2. ClosedOwesNothing'
    BY <1>0, <1>1, <2>1
       DEF RecordOutcome, ProcessSound, ClosedOwesNothing, CleanupStates
  <2> QED BY <1>1, <2>2, Busy, EndKeepsWork DEF RecordOutcome, At
<1>2. CASE RecordRefused(p)
  BY <1>2, RaisedKeepsWork DEF RecordRefused, At
<1>3. ASSUME NEW r \in Roots, Discard(p, r) PROVE WorkIsAccountedFor'
  <2> DEFINE j == [job[p] EXCEPT !.todo = @ \ {r}]
  <2>1. Become(p, j) /\ job[p].pc = "discard" /\ r \in job[p].todo
          /\ disk' = disk /\ owed' = owed /\ agents' = agents
    BY <1>3 DEF Discard, At
  <2>2. j.cmd = job[p].cmd /\ j.pc = job[p].pc /\ j.mem = job[p].mem
    BY DEF Job
  <2> HIDE DEF j
  <2>3. job'[p] = j /\ \A q \in Procs : q # p => job'[q] = job[q]
    BY <2>1, BecomeOnly
  <2>4. ~Idle(p) /\ p \notin agents'
    BY <2>1, Busy
  <2>5. owed' = {}
    BY <1>0, <2>1 DEF ProcessSound, At
  <2>6. ProcessSound(p)'
    BY <1>0, <2>1, <2>2, <2>3, <2>4, <2>5 DEF ProcessSound, Idle, At
  <2>7. ClosedOwesNothing' /\ (owed \subseteq Visible)'
    BY <2>5 DEF ClosedOwesNothing
  <2> QED BY <2>1, <2>3, <2>4, <2>6, <2>7, OthersStayIdle
<1>4. ASSUME NEW r \in Roots, DiscardError(p, r) PROVE WorkIsAccountedFor'
  <2>0. job[p].pc = "discard" /\ r \in job[p].todo /\ owed' = owed
          /\ agents' = agents /\ delta' = delta
    BY <1>4 DEF DiscardError, At
  <2>1. CASE Raised(p, job[p].mem)
    BY <2>0, <2>1, RaisedKeepsWork
  <2>2. CASE disk' = job[p].mem /\ End(p)
    <3>1. ClosedOwesNothing'
      BY <1>0, <2>0, <2>2, Busy DEF ClosedOwesNothing
    <3> QED BY <2>0, <2>2, <3>1, Busy, EndKeepsWork
  <2>3. CASE disk' = job[p].mem
               /\ Become(p, [job[p] EXCEPT !.todo = @ \ {r}])
    <3> DEFINE j == [job[p] EXCEPT !.todo = @ \ {r}]
    <3>1. j.cmd = job[p].cmd /\ j.pc = job[p].pc /\ j.mem = job[p].mem
      BY DEF Job
    <3>2. Become(p, j)
      BY <2>3
    <3> HIDE DEF j
    <3>3. job'[p] = j
      BY <3>2, BecomeOnly
    <3>4. ~Idle(p) /\ p \notin agents'
      BY <2>0, Busy
    <3>5. owed' = {}
      BY <1>0, <2>0 DEF ProcessSound, At
    <3>6. ProcessSound(p)'
      BY <1>0, <2>0, <2>3, <3>1, <3>3, <3>4, <3>5 DEF ProcessSound, Idle, At
    <3>7. ClosedOwesNothing'
      BY <3>5 DEF ClosedOwesNothing
    <3> QED BY <2>0, <3>2, <3>6, <3>7, StepKeepsWork
  <2> QED BY <1>4, <2>1, <2>2, <2>3 DEF DiscardError
<1> QED BY <1>1, <1>2, <1>3, <1>4 DEF Discarding

\* A command that starts while nothing else runs, and what it then relies on.
LEMMA StartKeepsWork ==
  ASSUME TypeOK, WorkIsAccountedFor, NEW p \in Procs, \A q \in Procs : Idle(q),
         NEW j, Become(p, j), j.cmd # "none", disk'.st = j.mem.st,
         j.pc # "wait", j.pc # "prune", j.applied = {},
         j.pc = "apply" => owed' \subseteq j.plan /\ j.outcome # "pending-review",
         j.pc = "discard" => owed' = {}, j.pc = "remove" => mounted' = {},
         UNCHANGED <<delta, agents>>, owed' \subseteq owed, ClosedOwesNothing'
  PROVE  WorkIsAccountedFor'
<1>1. job'[p] = j /\ \A q \in Procs : q # p => job'[q] = job[q]
  BY BecomeOnly
<1>2. p \notin agents
  BY DEF WorkIsAccountedFor, ProcessSound, At
<1>3. ProcessSound(p)'
  BY <1>1, <1>2 DEF ProcessSound, Idle, At
<1>4. (owed \subseteq Visible)'
  BY DEF WorkIsAccountedFor, Visible, Changed
<1> QED BY <1>1, <1>3, <1>4, OthersStayIdle

\* Starting a command loses nothing that is not given up explicitly.
LEMMA WorkStart ==
  ASSUME TypeOK, WorkIsAccountedFor, LiveCommands = {}, NEW p \in Procs,
         Start(p)
  PROVE  WorkIsAccountedFor'
<1> USE NoJobIsJob
<1>0. ClosedOwesNothing /\ disk \in Record
  BY DEF WorkIsAccountedFor, TypeOK
<1>1. CASE RunCreate(p)
  <2> DEFINE j == [NoJob EXCEPT !.cmd = "run", !.pc = "begin"]
  <2>1. j.cmd = "run" /\ j.pc = "begin" /\ j.mem = NewRecord /\ j.applied = {}
    BY DEF NoJob
  <2>2. Become(p, j) /\ disk' = NewRecord /\ \A q \in Procs : Idle(q)
    BY <1>1 DEF RunCreate, MayStart
  <2>3. ClosedOwesNothing'
    BY <2>2 DEF ClosedOwesNothing, CleanupStates, NewRecord
  <2> HIDE DEF j
  <2> QED BY <1>1, <2>1, <2>2, <2>3, StartKeepsWork DEF RunCreate
<1>2. CASE ResumeLoad(p)
  <2> DEFINE j == [NoJob EXCEPT !.cmd = "resume", !.mem = disk,
                                !.pc = "attach", !.todo = Roots]
  <2>1. j.cmd = "resume" /\ j.pc = "attach" /\ j.mem = disk /\ j.applied = {}
    BY DEF NoJob
  <2>2. Become(p, j) /\ disk' = disk /\ \A q \in Procs : Idle(q)
    BY <1>2 DEF ResumeLoad, MayStart
  <2>3. ClosedOwesNothing'
    BY <1>0, <1>2 DEF ClosedOwesNothing, ResumeLoad
  <2> HIDE DEF j
  <2> QED BY <1>2, <2>1, <2>2, <2>3, StartKeepsWork DEF ResumeLoad
<1>3. CASE FinishLoad(p)
  <2> DEFINE m == [disk EXCEPT !.st = "finalizing"]
             j == [NoJob EXCEPT !.cmd = "finish", !.mem = m, !.pc = "freeze",
                                !.todo = Roots]
  <2>1. j.cmd = "finish" /\ j.pc = "freeze" /\ j.mem = m /\ j.applied = {}
    BY DEF NoJob
  <2>2. Become(p, j) /\ disk' = m /\ \A q \in Procs : Idle(q)
    BY <1>3 DEF FinishLoad, MayStart
  <2>3. m.st = "finalizing"
    BY <1>0 DEF Record
  <2> HIDE DEF j, m
  <2>4. ClosedOwesNothing'
    BY <2>2, <2>3 DEF ClosedOwesNothing, CleanupStates
  <2> QED BY <1>3, <2>1, <2>2, <2>4, StartKeepsWork DEF FinishLoad
<1>4. CASE CommitLoad(p)
  <2>1. PICK shown :
          /\ Become(p, [NoJob EXCEPT !.cmd = "commit",
                         !.mem = [disk EXCEPT !.perm = {}], !.pc = "apply",
                         !.plan = shown, !.outcome = "committed"])
          /\ owed' = owed \cap shown
    BY <1>4 DEF CommitLoad
  <2> DEFINE m == [disk EXCEPT !.perm = {}]
             j == [NoJob EXCEPT !.cmd = "commit", !.mem = m, !.pc = "apply",
                                !.plan = shown, !.outcome = "committed"]
  <2>2. j.cmd = "commit" /\ j.pc = "apply" /\ j.mem = m /\ j.applied = {}
          /\ j.plan = shown /\ j.outcome = "committed"
    BY DEF NoJob
  <2>3. Become(p, j) /\ disk' = disk /\ (\A q \in Procs : Idle(q))
          /\ m.st = disk.st
    BY <1>0, <1>4, <2>1 DEF CommitLoad, MayStart, Record
  <2>4. ClosedOwesNothing'
    BY <1>0, <2>1, <2>3 DEF ClosedOwesNothing
  <2> HIDE DEF j, m
  <2> QED BY <1>4, <2>1, <2>2, <2>3, <2>4, StartKeepsWork DEF CommitLoad
<1>5. CASE SelectLoad(p)
  <2>1. PICK chosen :
          /\ Become(p, [NoJob EXCEPT !.cmd = "select", !.mem = disk,
                         !.pc = "apply", !.plan = chosen,
                         !.outcome = "committed"])
          /\ owed' = owed \cap chosen
    BY <1>5 DEF SelectLoad
  <2> DEFINE j == [NoJob EXCEPT !.cmd = "select", !.mem = disk, !.pc = "apply",
                                !.plan = chosen, !.outcome = "committed"]
  <2>2. j.cmd = "select" /\ j.pc = "apply" /\ j.mem = disk /\ j.applied = {}
          /\ j.plan = chosen /\ j.outcome = "committed"
    BY DEF NoJob
  <2>3. Become(p, j) /\ disk' = disk /\ \A q \in Procs : Idle(q)
    BY <1>5, <2>1 DEF SelectLoad, MayStart
  <2>4. ClosedOwesNothing'
    BY <1>0, <2>1, <2>3 DEF ClosedOwesNothing
  <2> HIDE DEF j
  <2> QED BY <1>5, <2>1, <2>2, <2>3, <2>4, StartKeepsWork DEF SelectLoad
<1>6. CASE AbortLoad(p)
  <2> DEFINE j == [NoJob EXCEPT !.cmd = "abort", !.mem = disk,
                !.pc = "discard", !.todo = Roots, !.outcome = AbortOutcome]
  <2>1. j.cmd = "abort" /\ j.pc = "discard" /\ j.mem = disk /\ j.applied = {}
    BY DEF NoJob
  <2>2. Become(p, j) /\ disk' = disk /\ owed' = {} /\ \A q \in Procs : Idle(q)
    BY <1>6 DEF AbortLoad, MayStart
  <2>3. ClosedOwesNothing'
    BY <2>2 DEF ClosedOwesNothing
  <2> HIDE DEF j
  <2> QED BY <1>6, <2>1, <2>2, <2>3, StartKeepsWork DEF AbortLoad
<1>7. CASE ThawLoad(p)
  <2> DEFINE j == [NoJob EXCEPT !.cmd = "thaw", !.mem = disk, !.pc = "thaw",
                                !.todo = Roots]
  <2>1. j.cmd = "thaw" /\ j.pc = "thaw" /\ j.mem = disk /\ j.applied = {}
    BY DEF NoJob
  <2>2. Become(p, j) /\ disk' = disk /\ \A q \in Procs : Idle(q)
    BY <1>7 DEF ThawLoad, MayStart
  <2>3. ClosedOwesNothing'
    BY <1>0, <1>7 DEF ClosedOwesNothing, ThawLoad
  <2> HIDE DEF j
  <2> QED BY <1>7, <2>1, <2>2, <2>3, StartKeepsWork DEF ThawLoad
<1>8. ASSUME NEW all \in BOOLEAN, CleanupLoad(p, all)
      PROVE  WorkIsAccountedFor'
  <2> DEFINE j == [NoJob EXCEPT !.cmd = "cleanup", !.mem = disk,
                                !.pc = "remove"]
  <2>1. j.cmd = "cleanup" /\ j.pc = "remove" /\ j.mem = disk /\ j.applied = {}
    BY DEF NoJob
  <2>2. Become(p, j) /\ disk' = disk /\ mounted' = {} /\ owed' \subseteq owed
          /\ \A q \in Procs : Idle(q)
    BY <1>8 DEF CleanupLoad, MayStart
  <2>3. ClosedOwesNothing'
    BY <1>0, <2>2 DEF ClosedOwesNothing
  <2> HIDE DEF j
  <2> QED BY <1>8, <2>1, <2>2, <2>3, StartKeepsWork DEF CleanupLoad
<1> QED BY <1>1, <1>2, <1>3, <1>4, <1>5, <1>6, <1>7, <1>8 DEF Start

\* With no view mounted, removing the bundle leaves the branches alone.
LEMMA NothingSwept ==
  ASSUME TypeOK, mounted = {}, NEW d \in Swept
  PROVE  d = delta
BY DEF Swept, TypeOK

\* Removing the bundle loses nothing.
LEMMA WorkRemove ==
  ASSUME TypeOK, WorkIsAccountedFor, NEW p \in Procs, Remove(p)
  PROVE  WorkIsAccountedFor'
<1>1. job[p].pc = "remove" /\ ProcessSound(p) /\ ClosedOwesNothing
  BY DEF Remove, At, WorkIsAccountedFor
<1>2. delta' = delta
  BY <1>1, NothingSwept DEF Remove, ProcessSound
<1>3. disk'.st \in {disk.st, "removed"}
  BY DEF Remove, TypeOK, Record
<1>4. ClosedOwesNothing'
  BY <1>1, <1>3 DEF Remove, ClosedOwesNothing, CleanupStates
<1> QED BY <1>1, <1>2, <1>4, Busy, EndKeepsWork DEF Remove

\* The agent adds work only while the record says running; a turn boundary
\* takes from the work owed only what it applied.
LEMMA WorkAgentStep ==
  ASSUME TypeOK, WorkIsAccountedFor, NEW p \in Procs, AgentStep(p)
  PROVE  WorkIsAccountedFor'
<1> USE JobFields
<1>0. ProcessSound(p) /\ ClosedOwesNothing /\ owed \subseteq Visible
  BY DEF WorkIsAccountedFor
<1>1. p \in agents => /\ job[p].pc = "wait" /\ job[p].mem.st = "running"
                      /\ ~Idle(p) /\ disk.st = "running"
                      /\ job[p].applied = {}
  BY <1>0 DEF ProcessSound, At
<1>2. ASSUME NEW x \in Paths, AgentWrite(p, x) PROVE WorkIsAccountedFor'
  <2>1. p \in agents /\ disk' = disk /\ job' = job /\ agents' = agents
          /\ owed' = owed \cup ({x} \ Ignored)
          /\ delta' = [delta EXCEPT ![x] = Newest(x) + 1]
    BY <1>2 DEF AgentWrite
  <2>2. Newest(x) + 1 # 0
    BY ConstantsAssumption DEF Newest, TypeOK
  <2>3. (owed \subseteq Visible)'
    BY <1>0, <2>1, <2>2 DEF Visible, Changed, TypeOK
  <2>4. ProcessSound(p)'
    BY <1>0, <1>1, <2>1 DEF ProcessSound, Idle, At
  <2>5. ClosedOwesNothing'
    BY <1>1, <2>1 DEF ClosedOwesNothing, CleanupStates
  <2> QED BY <1>1, <2>1, <2>3, <2>4, <2>5, OthersStayIdle
<1>3. CASE TurnFinalize(p)
  <2>1. /\ owed' \subseteq owed /\ delta' = delta /\ job' = job
        /\ agents' = agents /\ (disk' = job[p].mem \/ disk' = disk)
        /\ job[p].pc \in {"wait", "freeze"}
    BY <1>1, <1>3 DEF TurnFinalize, At
  <2>2. ~Idle(p) /\ disk'.st = disk.st
    BY <2>1, Busy
  <2>3. (owed \subseteq Visible)'
    BY <1>0, <2>1 DEF Visible, Changed
  <2>4. ProcessSound(p)'
    BY <1>0, <2>1, <2>2 DEF ProcessSound, Idle, At
  <2>5. ClosedOwesNothing'
    BY <1>0, <2>1, <2>2 DEF ClosedOwesNothing
  <2> QED BY <2>1, <2>2, <2>3, <2>4, <2>5, OthersStayIdle
<1>4. CASE RequestAbort(p)
  <2> DEFINE m == [job[p].mem EXCEPT !.mode = "throwaway",
                                     !.abortRequested = TRUE]
             j == [job[p] EXCEPT !.mem = m]
  <2>1. Become(p, j) /\ disk' = m /\ p \in agents
    BY <1>4 DEF RequestAbort
  <2>2. m.st = job[p].mem.st /\ j.cmd = job[p].cmd /\ j.pc = job[p].pc
          /\ j.mem = m /\ j.applied = job[p].applied
    BY DEF Job, Record
  <2> HIDE DEF j, m
  <2>3. job'[p] = j
    BY <2>1, BecomeOnly
  <2>4. ProcessSound(p)'
    BY <1>0, <1>1, <2>1, <2>2, <2>3 DEF ProcessSound, Idle, At
  <2>5. ClosedOwesNothing'
    BY <1>1, <2>1, <2>2 DEF ClosedOwesNothing, CleanupStates
  <2> QED BY <1>1, <1>4, <2>1, <2>4, <2>5, StepKeepsWork DEF RequestAbort
<1>5. CASE AgentExit(p)
  <2> DEFINE j == [job[p] EXCEPT !.pc = "exited"]
  <2>1. Become(p, j) /\ disk' = disk /\ p \in agents /\ agents' = agents \ {p}
    BY <1>5 DEF AgentExit
  <2>2. j.cmd = job[p].cmd /\ j.pc = "exited" /\ j.mem = job[p].mem
          /\ j.applied = job[p].applied
    BY DEF Job
  <2> HIDE DEF j
  <2>3. job'[p] = j
    BY <2>1, BecomeOnly
  <2>4. ProcessSound(p)'
    BY <1>0, <1>1, <2>1, <2>2, <2>3 DEF ProcessSound, Idle, At
  <2>5. ClosedOwesNothing'
    BY <1>1, <2>1 DEF ClosedOwesNothing, CleanupStates
  <2> QED BY <1>1, <1>5, <2>1, <2>4, <2>5, StepKeepsWork DEF AgentExit
<1> QED BY <1>2, <1>3, <1>4, <1>5 DEF AgentStep

\* WorkIsAccountedFor is preserved by every step, given the types.
LEMMA WorkNext ==
  ASSUME LiveCommands = {}
  PROVE  TypeOK /\ WorkIsAccountedFor /\ [Next]_vars => WorkIsAccountedFor'
<1> SUFFICES ASSUME TypeOK, WorkIsAccountedFor, [Next]_vars
             PROVE  WorkIsAccountedFor'
  OBVIOUS
<1>1. ASSUME NEW p \in Procs, Start(p) PROVE WorkIsAccountedFor'
  BY <1>1, WorkStart
<1>2. ASSUME NEW p \in Procs, Work(p) PROVE WorkIsAccountedFor'
  BY <1>2, WorkAttaching, WorkFreezing, WorkApplying, WorkDiscarding,
     WorkThawing, WorkRemove DEF Work
<1>3. ASSUME NEW p \in Procs, AgentStep(p) PROVE WorkIsAccountedFor'
  BY <1>3, WorkAgentStep
<1>4. ASSUME NEW p \in Procs, Crash(p) PROVE WorkIsAccountedFor'
  <2>1. ClosedOwesNothing'
    BY <1>4 DEF Crash, WorkIsAccountedFor, ClosedOwesNothing
  <2> QED BY <1>4, <2>1, EndKeepsWork DEF Crash
<1>5. CASE Reboot
  <2>1. \A q \in Procs : job'[q] = NoJob
    BY <1>5 DEF Reboot
  <2>2. \A q \in Procs : Idle(q)' /\ ProcessSound(q)'
    BY <1>5, <2>1 DEF Reboot, ProcessSound, Idle, At, NoJob
  <2>3. (owed \subseteq Visible)' /\ ClosedOwesNothing'
    BY <1>5 DEF Reboot, WorkIsAccountedFor, Visible, Changed,
       ClosedOwesNothing
  <2> QED BY <2>2, <2>3 DEF WorkIsAccountedFor, OneCommandAtATime
<1>6. CASE UNCHANGED vars
  BY <1>6 DEF vars, WorkIsAccountedFor, OneCommandAtATime, ProcessSound,
     Idle, At, Visible, Changed, ClosedOwesNothing
<1> QED BY <1>1, <1>2, <1>3, <1>4, <1>5, <1>6 DEF Next

\* Nothing is owed, and nobody is at work, initially.
LEMMA WorkInit == Init => WorkIsAccountedFor
<1> SUFFICES ASSUME Init PROVE WorkIsAccountedFor
  OBVIOUS
<1>1. \A q \in Procs : job[q] = NoJob
  BY DEF Init
<1>2. \A q \in Procs : Idle(q) /\ ProcessSound(q)
  BY <1>1 DEF Init, ProcessSound, Idle, At, NoJob
<1> QED BY <1>2 DEF Init, WorkIsAccountedFor, OneCommandAtATime,
       ClosedOwesNothing

\* When commands do not overlap, every policy-visible change the agent made
\* is, at every step of every command, exactly where the next steps of
\* finalize_session and of the operator commands will look for it -- through
\* all errors, crashes and reboots, for every policy and bundle.
THEOREM WorkAccounting ==
  ASSUME LiveCommands = {} PROVE Spec => []WorkIsAccountedFor
<1>1. Init => TypeOK /\ WorkIsAccountedFor
  BY TypeInit, WorkInit
<1>2. TypeOK /\ WorkIsAccountedFor /\ [Next]_vars
        => (TypeOK /\ WorkIsAccountedFor)'
  BY TypeNext, WorkNext
<1> QED BY <1>1, <1>2, PTL DEF Spec

\* The branch of a session is never discarded or pruned while it holds a
\* change that neither reached the underlay nor was given up.
THEOREM NoWorkIsLost ==
  ASSUME LiveCommands = {} PROVE Spec => []NoWorkLost
<1>1. WorkIsAccountedFor => NoWorkLost
  BY DEF WorkIsAccountedFor, NoWorkLost, Visible, Changed
<1> QED BY <1>1, WorkAccounting, PTL

(***************************************************************************)
(* The bundle of a living agent, when commands do not overlap.             *)
(***************************************************************************)

NoneFrozen == \A r \in Roots : branch[r] # "frozen"

AllOpen == \A r \in Roots : branch[r] = "open"

\* The record a command holds is the one on disk.
RecordHeld(p) == ~Idle(p) => disk.st = job[p].mem.st

\* How much of the bundle is attached or thawed at each step on the way to
\* the launch; a branch is frozen only under a record that says finalizing.
BundleSound(p) ==
  /\ Idle(p) => At(p, "idle")
  /\ p \in agents => At(p, "wait")
  /\ At(p, "attach") => \A r \in Roots \ job[p].todo :
                          r \in mounted /\ branch[r] = "open"
  /\ At(p, "thaw") => \A r \in Roots \ job[p].todo : branch[r] = "open"
  /\ job[p].pc \in {"launch", "wait"} => mounted = Roots /\ AllOpen
  /\ At(p, "wait") => job[p].mem.st = "running" /\ disk.st = "running"
  /\ At(p, "freeze") => job[p].mem.st = "finalizing"
  /\ ~Idle(p) /\ job[p].mem.st = "running" => NoneFrozen
  /\ job[p].pc \in {"apply", "prune", "discard"} => job[p].outcome # "running"

\* The inductive invariant behind AgentRunsOnOpenBundle.
BundleInv ==
  /\ OneCommandAtATime
  /\ \A p \in Procs : RecordHeld(p) /\ BundleSound(p)
  /\ disk.st = "running" => NoneFrozen

\* What an automatic command has still to apply is in scope and not hidden by
\* the ignore rules.
ScopedPlans ==
  \A p \in Procs : At(p, "apply") /\ job[p].cmd \notin {"commit", "select"}
                     => job[p].plan \subseteq InScope \ Ignored

\* A step of the process p finds the others idle.
LEMMA BundleStep ==
  ASSUME BundleInv, NEW p \in Procs,
         ~Idle(p) \/ (\A q \in Procs : Idle(q)),
         \A q \in Procs : q # p => job'[q] = job[q],
         agents' \subseteq agents \cup {p},
         RecordHeld(p)', BundleSound(p)',
         (disk.st = "running" => NoneFrozen)'
  PROVE  BundleInv'
<1>1. \A q \in Procs : q # p => Idle(q) /\ Idle(q)'
  BY DEF BundleInv, OneCommandAtATime, Idle
<1>2. OneCommandAtATime'
  BY <1>1 DEF OneCommandAtATime
<1>3. ASSUME NEW q \in Procs, q # p PROVE RecordHeld(q)' /\ BundleSound(q)'
  <2>1. At(q, "idle") /\ q \notin agents
    BY <1>1, <1>3 DEF BundleInv, BundleSound, At
  <2>2. job'[q].pc = "idle" /\ q \notin agents'
    BY <1>3, <2>1 DEF At
  <2> QED BY <1>1, <1>3, <2>2 DEF RecordHeld, BundleSound, At
<1> QED BY <1>2, <1>3 DEF BundleInv

\* A process past its start is not idle, and has an agent only while it waits.
LEMMA BusyBundle ==
  ASSUME BundleInv, NEW p \in Procs, job[p].pc # "idle"
  PROVE  /\ ~Idle(p) /\ RecordHeld(p) /\ BundleSound(p)
         /\ job[p].pc # "wait" => p \notin agents
BY DEF BundleInv, BundleSound, At

\* A command that ends.
LEMMA EndKeepsBundle ==
  ASSUME TypeOK, BundleInv, NEW p \in Procs, ~Idle(p), End(p),
         p \notin agents', agents' \subseteq agents,
         (disk.st = "running" => NoneFrozen)'
  PROVE  BundleInv'
<1>1. job'[p] = NoJob /\ \A q \in Procs : q # p => job'[q] = job[q]
  BY EndJob DEF TypeOK
<1>2. RecordHeld(p)' /\ BundleSound(p)'
  BY <1>1 DEF RecordHeld, BundleSound, Idle, At, NoJob
<1> QED BY <1>1, <1>2, BundleStep

\* A command that goes on.
LEMMA StepKeepsBundle ==
  ASSUME TypeOK, BundleInv, NEW p \in Procs, NEW j, Become(p, j),
         job[p].pc # "idle", agents' \subseteq agents \cup {p},
         RecordHeld(p)', BundleSound(p)',
         (disk.st = "running" => NoneFrozen)'
  PROVE  BundleInv'
BY BecomeOnly, BusyBundle, BundleStep

\* A command that has its decision goes on with the record it holds.
LEMMA SettlingKeepsBundle ==
  ASSUME TypeOK, BundleInv, NEW p \in Procs, NEW j, Become(p, j),
         job[p].pc \in {"evaluate", "apply", "prune", "discard"},
         j.pc \in {"apply", "prune", "discard"}, j.outcome # "running",
         j.cmd = job[p].cmd, j.mem.st = job[p].mem.st,
         agents' = agents, disk'.st \in {disk.st, job[p].mem.st},
         \A r \in Roots : branch'[r] = "frozen" => branch[r] = "frozen"
  PROVE  BundleInv'
<1>1. job'[p] = j
  BY BecomeOnly
<1>2. ~Idle(p) /\ RecordHeld(p) /\ BundleSound(p) /\ p \notin agents
  BY BusyBundle
<1>3. NoneFrozen => NoneFrozen'
  BY DEF NoneFrozen
<1>4. RecordHeld(p)'
  BY <1>1, <1>2 DEF RecordHeld, Idle
<1>5. BundleSound(p)'
  BY <1>1, <1>2, <1>3 DEF BundleSound, Idle, At
<1>6. (disk.st = "running" => NoneFrozen)'
  BY <1>2, <1>3 DEF BundleInv, BundleSound
<1> QED BY <1>4, <1>5, <1>6, StepKeepsBundle

\* An exception inside finalize_session.
LEMMA RaisedKeepsBundle ==
  ASSUME TypeOK, BundleInv, NEW p \in Procs, NEW m \in Record,
         Raised(p, m), job[p].pc \notin {"idle", "wait"},
         UNCHANGED <<branch, agents>>
  PROVE  BundleInv'
<1>1. End(p) /\ disk'.st \in {"failed", disk.st}
  BY DEF Raised, Record
<1>2. (disk.st = "running" => NoneFrozen)'
  BY <1>1 DEF BundleInv, NoneFrozen
<1> QED BY <1>1, <1>2, BusyBundle, EndKeepsBundle

\* Creating, mounting and launching: the roots attached so far are mounted
\* and open, so the agent starts on the whole bundle.
LEMMA BundleAttaching ==
  ASSUME TypeOK, BundleInv, NEW p \in Procs, Attaching(p)
  PROVE  BundleInv'
<1> USE JobFields
<1>1. CASE RunMounting(p)
  <2> DEFINE m == [job[p].mem EXCEPT !.st = "mounting"]
             j == [job[p] EXCEPT !.mem = m, !.pc = "attach", !.todo = Roots]
  <2>1. Become(p, j) /\ job[p].pc = "begin" /\ disk' = m
          /\ UNCHANGED <<branch, agents>>
    BY <1>1 DEF RunMounting, At
  <2>2. m.st = "mounting" /\ j.cmd = job[p].cmd /\ j.pc = "attach"
          /\ j.mem = m /\ j.todo = Roots
    BY DEF Job, Record
  <2> HIDE DEF j, m
  <2>3. job'[p] = j
    BY <2>1, BecomeOnly
  <2>4. ~Idle(p) /\ p \notin agents
    BY <2>1, BusyBundle
  <2>5. RecordHeld(p)'
    BY <2>1, <2>2, <2>3 DEF RecordHeld
  <2>6. BundleSound(p)'
    BY <2>1, <2>2, <2>3, <2>4 DEF BundleSound, Idle, At
  <2>7. (disk.st = "running" => NoneFrozen)'
    BY <2>1, <2>2
  <2> QED BY <2>1, <2>5, <2>6, <2>7, StepKeepsBundle
<1>2. CASE AttachError(p)
  <2>1. job[p].pc = "attach" /\ End(p) /\ agents' = agents
          /\ disk'.st \in {"failed", job[p].mem.st}
    BY <1>2 DEF AttachError, At, Record
  <2>2. ~Idle(p) /\ BundleSound(p) /\ p \notin agents
    BY <2>1, BusyBundle
  <2>3. \A r \in Roots : branch'[r] = "frozen" => branch[r] = "frozen"
    BY <1>2 DEF AttachError, Prepared, TypeOK
  <2>4. (disk.st = "running" => NoneFrozen)'
    BY <2>1, <2>2, <2>3 DEF BundleSound, NoneFrozen
  <2> QED BY <2>1, <2>2, <2>4, EndKeepsBundle
<1>3. CASE Launch(p)
  <2> DEFINE m == [job[p].mem EXCEPT !.st = "running"]
             j == [job[p] EXCEPT !.mem = m, !.pc = "wait"]
  <2>1. Become(p, j) /\ job[p].pc = "launch" /\ disk' = m
          /\ UNCHANGED <<branch, mounted>> /\ agents' = agents \cup {p}
    BY <1>3 DEF Launch, At
  <2>2. m.st = "running" /\ j.cmd = job[p].cmd /\ j.pc = "wait" /\ j.mem = m
    BY DEF Job, Record
  <2> HIDE DEF j, m
  <2>3. job'[p] = j
    BY <2>1, BecomeOnly
  <2>4. ~Idle(p) /\ mounted = Roots /\ AllOpen
    BY <2>1, BusyBundle DEF BundleSound
  <2>5. AllOpen' /\ NoneFrozen' /\ mounted' = Roots
    BY <2>1, <2>4 DEF AllOpen, NoneFrozen
  <2>6. RecordHeld(p)'
    BY <2>1, <2>2, <2>3 DEF RecordHeld
  <2>7. BundleSound(p)'
    BY <2>1, <2>2, <2>3, <2>4, <2>5 DEF BundleSound, Idle, At
  <2> QED BY <2>1, <2>5, <2>6, <2>7, StepKeepsBundle
<1>4. CASE LaunchError(p)
  <2>1. job[p].pc \in {"launch", "exited"} /\ disk'.st = "failed" /\ End(p)
          /\ agents' = agents
    BY <1>4 DEF LaunchError, At, Record
  <2> QED BY <2>1, BusyBundle, EndKeepsBundle
<1>5. ASSUME NEW r \in Roots, Attach(p, r) PROVE BundleInv'
  <2> DEFINE j == [job[p] EXCEPT !.todo = @ \ {r}, !.pc = AfterAttach(p, r)]
  <2>1. Become(p, j) /\ job[p].pc = "attach" /\ UNCHANGED <<disk, agents>>
          /\ branch' = Prepared(p, r) /\ mounted' = mounted \cup {r}
          /\ (branch[r] # "absent" \/ job[p].mem.st \in {"mounting", "aborted"})
    BY <1>5 DEF Attach, At
  <2>2. j.cmd = job[p].cmd /\ j.pc = AfterAttach(p, r)
          /\ j.mem = job[p].mem /\ j.todo = job[p].todo \ {r}
    BY DEF Job
  <2> HIDE DEF j
  <2>3. job'[p] = j
    BY <2>1, BecomeOnly
  <2>4. ~Idle(p) /\ RecordHeld(p) /\ BundleSound(p) /\ p \notin agents
    BY <2>1, BusyBundle
  <2>5. branch'[r] = "open"
    BY <2>1, <2>4 DEF Prepared, BundleSound, NoneFrozen, TypeOK
  <2>6. \A t \in Roots : branch'[t] \in {branch[t], "open"}
    BY <2>1 DEF Prepared, TypeOK
  <2>7. \A t \in Roots \ j.todo : t \in mounted' /\ branch'[t] = "open"
    BY <2>1, <2>2, <2>4, <2>5, <2>6 DEF BundleSound, At
  <2>8. j.pc \in {"attach", "launch"} /\ (j.pc = "launch" => j.todo = {})
    BY <2>2 DEF AfterAttach
  <2>9. j.pc = "launch" => mounted' = Roots /\ AllOpen'
    BY <2>1, <2>7, <2>8 DEF AllOpen, TypeOK
  <2>10. NoneFrozen => NoneFrozen'
    BY <2>6 DEF NoneFrozen
  <2>11. RecordHeld(p)'
    BY <2>1, <2>2, <2>3, <2>4 DEF RecordHeld
  <2>12. BundleSound(p)'
    BY <2>1, <2>2, <2>3, <2>4, <2>7, <2>8, <2>9, <2>10
       DEF BundleSound, Idle, At
  <2>13. (disk.st = "running" => NoneFrozen)'
    BY <2>1, <2>10 DEF BundleInv
  <2> QED BY <2>1, <2>11, <2>12, <2>13, StepKeepsBundle
<1> QED BY <1>1, <1>2, <1>3, <1>4, <1>5 DEF Attaching

\* Freezing and evaluating: a branch is frozen only after the record says
\* finalizing.
LEMMA BundleFreezing ==
  ASSUME TypeOK, BundleInv, NEW p \in Procs, Freezing(p)
  PROVE  BundleInv'
<1> USE JobFields
<1>1. CASE BeginFinalize(p)
  <2> DEFINE m == [job[p].mem EXCEPT !.st = "finalizing"]
             j == [job[p] EXCEPT !.mem = m, !.pc = "freeze", !.todo = Roots]
  <2>1. Become(p, j) /\ job[p].pc = "exited" /\ disk' = m /\ agents' = agents
    BY <1>1 DEF BeginFinalize, At
  <2>2. m.st = "finalizing" /\ j.cmd = job[p].cmd /\ j.pc = "freeze"
          /\ j.mem = m
    BY DEF Job, Record
  <2> HIDE DEF j, m
  <2>3. job'[p] = j
    BY <2>1, BecomeOnly
  <2>4. ~Idle(p) /\ p \notin agents
    BY <2>1, BusyBundle
  <2>5. RecordHeld(p)'
    BY <2>1, <2>2, <2>3 DEF RecordHeld
  <2>6. BundleSound(p)'
    BY <2>1, <2>2, <2>3, <2>4 DEF BundleSound, Idle, At
  <2>7. (disk.st = "running" => NoneFrozen)'
    BY <2>1, <2>2
  <2> QED BY <2>1, <2>5, <2>6, <2>7, StepKeepsBundle
<1>2. CASE FreezeError(p)
  BY <1>2, RaisedKeepsBundle DEF FreezeError, At
<1>3. CASE FreezeDone(p)
  <2> DEFINE m == [job[p].mem EXCEPT !.st = "frozen"]
             j == [job[p] EXCEPT !.mem = m, !.pc = "evaluate"]
  <2>1. Become(p, j) /\ job[p].pc = "freeze" /\ disk' = m /\ agents' = agents
    BY <1>3 DEF FreezeDone, At
  <2>2. m.st = "frozen" /\ j.cmd = job[p].cmd /\ j.pc = "evaluate"
          /\ j.mem = m
    BY DEF Job, Record
  <2> HIDE DEF j, m
  <2>3. job'[p] = j
    BY <2>1, BecomeOnly
  <2>4. ~Idle(p) /\ p \notin agents
    BY <2>1, BusyBundle
  <2>5. RecordHeld(p)'
    BY <2>1, <2>2, <2>3 DEF RecordHeld
  <2>6. BundleSound(p)'
    BY <2>1, <2>2, <2>3, <2>4 DEF BundleSound, Idle, At
  <2>7. (disk.st = "running" => NoneFrozen)'
    BY <2>1, <2>2
  <2> QED BY <2>1, <2>5, <2>6, <2>7, StepKeepsBundle
<1>4. CASE Evaluate(p)
  <2>1. PICK blocked \in BOOLEAN, seen \in SUBSET Visible :
          Become(p, AfterDecision(p, Decide(job[p].mem.mode, seen, blocked),
                                  seen))
    BY <1>4 DEF Evaluate
  <2> DEFINE decision == Decide(job[p].mem.mode, seen, blocked)
             j == AfterDecision(p, decision, seen)
  <2>2. decision \in {"auto-commit", "no-changes", "abort", "pending-review"}
    BY DEF Decide, EvaluatePolicy
  <2>3. Become(p, j)
    BY <2>1
  <2> HIDE DEF decision
  <2>4. /\ j.cmd = job[p].cmd /\ j.mem.st = job[p].mem.st
        /\ j.pc \in {"apply", "discard"} /\ j.outcome # "running"
    <3>1. CASE decision = "auto-commit"
      BY <3>1 DEF AfterDecision, Job, Record
    <3>2. CASE decision = "no-changes"
      BY <3>2 DEF AfterDecision, Job, Record
    <3>3. CASE decision = "abort"
      BY <3>3 DEF AfterDecision, Job, Record
    <3>4. CASE decision = "pending-review"
      BY <3>4 DEF AfterDecision, Job, Record
    <3> QED BY <2>2, <3>1, <3>2, <3>3, <3>4
  <2> HIDE DEF j
  <2> QED BY <1>4, <2>3, <2>4, SettlingKeepsBundle DEF Evaluate, At
<1>5. CASE EvaluateError(p)
  BY <1>5, RaisedKeepsBundle DEF EvaluateError, At
<1>6. ASSUME NEW r \in Roots, Freeze(p, r) PROVE BundleInv'
  <2> DEFINE j == [job[p] EXCEPT !.todo = @ \ {r}]
  <2>1. Become(p, j) /\ job[p].pc = "freeze" /\ UNCHANGED <<disk, agents>>
    BY <1>6 DEF Freeze, At
  <2>2. j.cmd = job[p].cmd /\ j.pc = job[p].pc /\ j.mem = job[p].mem
    BY DEF Job
  <2> HIDE DEF j
  <2>3. job'[p] = j
    BY <2>1, BecomeOnly
  <2>4. ~Idle(p) /\ RecordHeld(p) /\ BundleSound(p) /\ p \notin agents
    BY <2>1, BusyBundle
  <2>5. job[p].mem.st = "finalizing" /\ disk.st # "running"
    BY <2>1, <2>4 DEF BundleSound, RecordHeld, At
  <2>6. RecordHeld(p)'
    BY <2>1, <2>2, <2>3, <2>4 DEF RecordHeld
  <2>7. BundleSound(p)'
    BY <2>1, <2>2, <2>3, <2>4, <2>5 DEF BundleSound, Idle, At
  <2> QED BY <2>1, <2>5, <2>6, <2>7, StepKeepsBundle
<1> QED BY <1>1, <1>2, <1>3, <1>4, <1>5, <1>6 DEF Freezing

\* Applying and pruning leave the bundle and the record alone until they end.
LEMMA BundleApplying ==
  ASSUME TypeOK, BundleInv, NEW p \in Procs, Applying(p)
  PROVE  BundleInv'
<1> USE JobFields
<1>1. CASE ApplyError(p)
  <2>1. job[p].pc = "apply" /\ End(p) /\ UNCHANGED <<branch, agents>>
          /\ disk'.st \in {"failed", job[p].mem.st, disk.st}
    BY <1>1 DEF ApplyError, At, Record
  <2>2. (disk.st = "running" => NoneFrozen)'
    BY <2>1, BusyBundle DEF BundleInv, BundleSound, NoneFrozen
  <2> QED BY <2>1, <2>2, BusyBundle, EndKeepsBundle
<1>2. CASE ApplyDone(p)
  <2> DEFINE j == [job[p] EXCEPT !.pc = AfterApply(p), !.todo = Roots]
  <2>1. Become(p, j) /\ job[p].pc = "apply" /\ UNCHANGED <<disk, branch, agents>>
    BY <1>2 DEF ApplyDone, At
  <2>2. j.cmd = job[p].cmd /\ j.pc \in {"prune", "discard"}
          /\ j.mem = job[p].mem /\ j.outcome = job[p].outcome
    BY DEF Job, AfterApply
  <2> HIDE DEF j
  <2>3. job[p].outcome # "running"
    BY <2>1, BusyBundle DEF BundleSound
  <2> QED BY <2>1, <2>2, <2>3, SettlingKeepsBundle
<1>3. CASE PruneDone(p)
  <2>1. disk'.st = "pending-review"
    BY <1>3 DEF PruneDone, Record
  <2> QED BY <1>3, <2>1, BusyBundle, EndKeepsBundle DEF PruneDone, At
<1>4. CASE PruneError(p)
  <2>1. PICK perm \in {job[p].mem.perm, job[p].denied} :
          Raised(p, [job[p].mem EXCEPT !.perm = perm])
    BY <1>4 DEF PruneError
  <2>2. [job[p].mem EXCEPT !.perm = perm] \in Record
    BY DEF Record
  <2> QED BY <1>4, <2>1, <2>2, RaisedKeepsBundle DEF PruneError, At
<1>5. ASSUME NEW x \in Paths, Apply(p, x) \/ ApplyDenied(p, x) \/ Prune(p, x)
      PROVE  BundleInv'
  <2>1. PICK j \in Job :
          /\ Become(p, j) /\ j.cmd = job[p].cmd /\ j.pc = job[p].pc
          /\ j.mem = job[p].mem /\ j.outcome = job[p].outcome
    <3> DEFINE a == [job[p] EXCEPT !.plan = @ \ {x}, !.applied = @ \cup {x}]
               d == [job[p] EXCEPT !.plan = @ \ {x}, !.denied = @ \cup {x}]
               c == [job[p] EXCEPT !.applied = @ \ {x}]
               Same(j) == /\ j \in Job /\ j.cmd = job[p].cmd
                          /\ j.pc = job[p].pc /\ j.mem = job[p].mem
                          /\ j.outcome = job[p].outcome
    <3>1. Same(a) /\ Same(d) /\ Same(c)
      BY DEF Job
    <3>2. Become(p, a) \/ Become(p, d) \/ Become(p, c)
      BY <1>5 DEF Apply, ApplyDenied, Prune
    <3> HIDE DEF a, d, c
    <3> QED BY <3>1, <3>2
  <2>2. job[p].pc \in {"apply", "prune"} /\ UNCHANGED <<disk, branch, agents>>
    BY <1>5 DEF Apply, ApplyDenied, Prune, At
  <2>3. job[p].outcome # "running"
    BY <2>2, BusyBundle DEF BundleSound
  <2> QED BY <2>1, <2>2, <2>3, SettlingKeepsBundle
<1> QED BY <1>1, <1>2, <1>3, <1>4, <1>5 DEF Applying

\* Discarding the bundle and recording the outcome.
LEMMA BundleDiscarding ==
  ASSUME TypeOK, BundleInv, NEW p \in Procs, Discarding(p)
  PROVE  BundleInv'
<1> USE JobFields
<1>1. CASE RecordOutcome(p)
  <2>1. disk'.st = job[p].outcome /\ job[p].pc = "discard" /\ End(p)
          /\ agents' = agents
    BY <1>1 DEF RecordOutcome, Record, At
  <2>2. job[p].outcome # "running"
    BY <2>1, BusyBundle DEF BundleSound
  <2> QED BY <2>1, <2>2, BusyBundle, EndKeepsBundle
<1>2. CASE RecordRefused(p)
  BY <1>2, RaisedKeepsBundle DEF RecordRefused, At
<1>3. ASSUME NEW r \in Roots, Discard(p, r) PROVE BundleInv'
  <2> DEFINE j == [job[p] EXCEPT !.todo = @ \ {r}]
  <2>1. Become(p, j) /\ job[p].pc = "discard" /\ UNCHANGED <<disk, agents>>
          /\ branch' = [branch EXCEPT ![r] = "absent"]
    BY <1>3 DEF Discard, At
  <2>2. j.cmd = job[p].cmd /\ j.pc = job[p].pc /\ j.mem = job[p].mem
          /\ j.outcome = job[p].outcome
    BY DEF Job
  <2> HIDE DEF j
  <2>3. job[p].outcome # "running"
    BY <2>1, BusyBundle DEF BundleSound
  <2>4. \A t \in Roots : branch'[t] = "frozen" => branch[t] = "frozen"
    BY <2>1 DEF TypeOK
  <2> QED BY <2>1, <2>2, <2>3, <2>4, SettlingKeepsBundle
<1>4. ASSUME NEW r \in Roots, DiscardError(p, r) PROVE BundleInv'
  <2>0. job[p].pc = "discard" /\ UNCHANGED <<branch, agents>>
    BY <1>4 DEF DiscardError, At
  <2>1. ~Idle(p) /\ BundleSound(p) /\ p \notin agents
    BY <2>0, BusyBundle
  <2>2. CASE Raised(p, job[p].mem)
    BY <2>0, <2>2, RaisedKeepsBundle
  <2>3. CASE disk' = job[p].mem /\ End(p)
    <3>1. (disk.st = "running" => NoneFrozen)'
      BY <2>0, <2>1, <2>3 DEF BundleSound, NoneFrozen
    <3> QED BY <2>0, <2>1, <2>3, <3>1, EndKeepsBundle
  <2>4. CASE disk' = job[p].mem
               /\ Become(p, [job[p] EXCEPT !.todo = @ \ {r}])
    <3> DEFINE j == [job[p] EXCEPT !.todo = @ \ {r}]
    <3>1. j.cmd = job[p].cmd /\ j.pc = job[p].pc /\ j.mem = job[p].mem
            /\ j.outcome = job[p].outcome
      BY DEF Job
    <3>2. Become(p, j)
      BY <2>4
    <3> HIDE DEF j
    <3>3. job[p].outcome # "running"
      BY <2>0, <2>1 DEF BundleSound
    <3> QED BY <2>0, <2>4, <3>1, <3>2, <3>3, SettlingKeepsBundle
  <2> QED BY <1>4, <2>2, <2>3, <2>4 DEF DiscardError
<1> QED BY <1>1, <1>2, <1>3, <1>4 DEF Discarding

\* Thawing: the record says running only once every branch is open again.
LEMMA BundleThawing ==
  ASSUME TypeOK, BundleInv, NEW p \in Procs, Thawing(p)
  PROVE  BundleInv'
<1> USE JobFields
<1>1. CASE ThawError(p)
  <2>1. (disk.st = "running" => NoneFrozen)'
    BY <1>1 DEF ThawError, BundleInv, NoneFrozen
  <2> QED BY <1>1, <2>1, BusyBundle, EndKeepsBundle DEF ThawError, At
<1>2. CASE ThawDone(p)
  <2>1. job[p].pc = "thaw" /\ job[p].todo = {} /\ End(p)
          /\ UNCHANGED <<branch, agents>>
    BY <1>2 DEF ThawDone, At
  <2>2. ~Idle(p) /\ p \notin agents /\ \A r \in Roots : branch[r] = "open"
    BY <2>1, BusyBundle DEF BundleSound, At
  <2>3. NoneFrozen'
    BY <2>1, <2>2 DEF NoneFrozen
  <2> QED BY <2>1, <2>2, <2>3, EndKeepsBundle
<1>3. ASSUME NEW r \in Roots, Thaw(p, r) PROVE BundleInv'
  <2> DEFINE j == [job[p] EXCEPT !.todo = @ \ {r}]
  <2>1. Become(p, j) /\ job[p].pc = "thaw" /\ UNCHANGED <<disk, agents>>
          /\ branch' = [branch EXCEPT ![r] = "open"]
    BY <1>3 DEF Thaw, At
  <2>2. j.cmd = job[p].cmd /\ j.pc = job[p].pc /\ j.mem = job[p].mem
          /\ j.todo = job[p].todo \ {r}
    BY DEF Job
  <2> HIDE DEF j
  <2>3. job'[p] = j
    BY <2>1, BecomeOnly
  <2>4. ~Idle(p) /\ RecordHeld(p) /\ BundleSound(p) /\ p \notin agents
    BY <2>1, BusyBundle
  <2>5. branch'[r] = "open" /\ \A t \in Roots : branch'[t] \in {branch[t], "open"}
    BY <2>1 DEF TypeOK
  <2>6. NoneFrozen => NoneFrozen'
    BY <2>5 DEF NoneFrozen
  <2>7. RecordHeld(p)'
    BY <2>1, <2>2, <2>3, <2>4 DEF RecordHeld
  <2>8. \A t \in Roots \ j.todo : branch'[t] = "open"
    BY <2>1, <2>2, <2>4, <2>5 DEF BundleSound, At
  <2>9. BundleSound(p)'
    BY <2>1, <2>2, <2>3, <2>4, <2>6, <2>8 DEF BundleSound, Idle, At
  <2>10. (disk.st = "running" => NoneFrozen)'
    BY <2>1, <2>6 DEF BundleInv
  <2> QED BY <2>1, <2>7, <2>9, <2>10, StepKeepsBundle
<1> QED BY <1>1, <1>2, <1>3 DEF Thawing

\* A command that starts while nothing else runs.
LEMMA StartKeepsBundle ==
  ASSUME TypeOK, BundleInv, NEW p \in Procs, \A q \in Procs : Idle(q),
         NEW j, Become(p, j), j.cmd # "none",
         j.pc \in {"begin", "attach", "freeze", "apply", "discard", "thaw",
                   "remove"},
         j.pc \in {"attach", "thaw"} => j.todo = Roots,
         j.pc = "freeze" => j.mem.st = "finalizing",
         j.outcome # "running", disk'.st = j.mem.st,
         disk'.st = "running" => disk.st = "running",
         UNCHANGED <<branch, agents>>
  PROVE  BundleInv'
<1>1. job'[p] = j /\ \A q \in Procs : q # p => job'[q] = job[q]
  BY BecomeOnly
<1>2. p \notin agents
  BY DEF BundleInv, BundleSound, At
<1>3. (disk.st = "running" => NoneFrozen)'
  BY DEF BundleInv, NoneFrozen
<1>4. RecordHeld(p)'
  BY <1>1 DEF RecordHeld
<1>5. BundleSound(p)'
  BY <1>1, <1>2, <1>3 DEF BundleSound, Idle, At
<1> QED BY <1>1, <1>3, <1>4, <1>5, BundleStep

\* Starting a command.
LEMMA BundleStart ==
  ASSUME TypeOK, BundleInv, LiveCommands = {},
         NEW p \in Procs, Start(p)
  PROVE  BundleInv'
<1> USE NoJobIsJob
<1>0. disk \in Record
  BY DEF TypeOK
<1>1. CASE RunCreate(p)
  <2> DEFINE j == [NoJob EXCEPT !.cmd = "run", !.pc = "begin"]
  <2>1. j.cmd = "run" /\ j.pc = "begin" /\ j.mem = NewRecord
          /\ j.outcome = "created"
    BY DEF NoJob
  <2>2. Become(p, j) /\ disk' = NewRecord /\ (\A q \in Procs : Idle(q))
          /\ UNCHANGED <<branch, agents>>
    BY <1>1 DEF RunCreate, MayStart
  <2>3. NewRecord.st = "created"
    BY DEF NewRecord
  <2> HIDE DEF j
  <2> QED BY <2>1, <2>2, <2>3, StartKeepsBundle
<1>2. CASE ResumeLoad(p)
  <2> DEFINE j == [NoJob EXCEPT !.cmd = "resume", !.mem = disk,
                                !.pc = "attach", !.todo = Roots]
  <2>1. j.cmd = "resume" /\ j.pc = "attach" /\ j.mem = disk
          /\ j.todo = Roots /\ j.outcome = "created"
    BY DEF NoJob
  <2>2. Become(p, j) /\ (\A q \in Procs : Idle(q)) /\ disk.st \in Resumable
          /\ UNCHANGED <<disk, branch, agents>>
    BY <1>2 DEF ResumeLoad, MayStart
  <2> HIDE DEF j
  <2> QED BY <2>1, <2>2, StartKeepsBundle
<1>3. CASE FinishLoad(p)
  <2> DEFINE m == [disk EXCEPT !.st = "finalizing"]
             j == [NoJob EXCEPT !.cmd = "finish", !.mem = m, !.pc = "freeze",
                                !.todo = Roots]
  <2>1. j.cmd = "finish" /\ j.pc = "freeze" /\ j.mem = m
          /\ j.outcome = "created"
    BY DEF NoJob
  <2>2. Become(p, j) /\ disk' = m /\ (\A q \in Procs : Idle(q))
          /\ UNCHANGED <<branch, agents>>
    BY <1>3 DEF FinishLoad, MayStart
  <2>3. m.st = "finalizing"
    BY <1>0 DEF Record
  <2> HIDE DEF j, m
  <2> QED BY <2>1, <2>2, <2>3, StartKeepsBundle
<1>4. CASE CommitLoad(p)
  <2>1. PICK shown :
          Become(p, [NoJob EXCEPT !.cmd = "commit",
                         !.mem = [disk EXCEPT !.perm = {}], !.pc = "apply",
                         !.plan = shown, !.outcome = "committed"])
    BY <1>4 DEF CommitLoad
  <2> DEFINE m == [disk EXCEPT !.perm = {}]
             j == [NoJob EXCEPT !.cmd = "commit", !.mem = m, !.pc = "apply",
                                !.plan = shown, !.outcome = "committed"]
  <2>2. j.cmd = "commit" /\ j.pc = "apply" /\ j.mem = m
          /\ j.outcome = "committed"
    BY DEF NoJob
  <2>3. Become(p, j) /\ (\A q \in Procs : Idle(q))
          /\ m.st = disk.st /\ disk.st \in {"pending-review", "frozen"}
          /\ UNCHANGED <<disk, branch, agents>>
    BY <1>0, <1>4, <2>1 DEF CommitLoad, MayStart, Record
  <2> HIDE DEF j, m
  <2> QED BY <2>2, <2>3, StartKeepsBundle
<1>5. CASE SelectLoad(p)
  <2>1. PICK chosen :
          Become(p, [NoJob EXCEPT !.cmd = "select", !.mem = disk,
                         !.pc = "apply", !.plan = chosen,
                         !.outcome = "committed"])
    BY <1>5 DEF SelectLoad
  <2> DEFINE j == [NoJob EXCEPT !.cmd = "select", !.mem = disk, !.pc = "apply",
                                !.plan = chosen, !.outcome = "committed"]
  <2>2. j.cmd = "select" /\ j.pc = "apply" /\ j.mem = disk
          /\ j.outcome = "committed"
    BY DEF NoJob
  <2>3. Become(p, j) /\ (\A q \in Procs : Idle(q))
          /\ disk.st \in {"pending-review", "frozen"}
          /\ UNCHANGED <<disk, branch, agents>>
    BY <1>5, <2>1 DEF SelectLoad, MayStart
  <2> HIDE DEF j
  <2> QED BY <2>2, <2>3, StartKeepsBundle
<1>6. CASE AbortLoad(p)
  <2> DEFINE j == [NoJob EXCEPT !.cmd = "abort", !.mem = disk,
                !.pc = "discard", !.todo = Roots, !.outcome = AbortOutcome]
  <2>1. j.cmd = "abort" /\ j.pc = "discard" /\ j.mem = disk
          /\ j.outcome \in {"committed", "aborted"}
    BY DEF NoJob, AbortOutcome
  <2>2. Become(p, j) /\ (\A q \in Procs : Idle(q))
          /\ disk.st \notin TerminalStates /\ UNCHANGED <<disk, branch, agents>>
    BY <1>6 DEF AbortLoad, MayStart
  <2> HIDE DEF j
  <2> QED BY <2>1, <2>2, StartKeepsBundle
<1>7. CASE ThawLoad(p)
  <2> DEFINE j == [NoJob EXCEPT !.cmd = "thaw", !.mem = disk, !.pc = "thaw",
                                !.todo = Roots]
  <2>1. j.cmd = "thaw" /\ j.pc = "thaw" /\ j.mem = disk /\ j.todo = Roots
          /\ j.outcome = "created"
    BY DEF NoJob
  <2>2. Become(p, j) /\ (\A q \in Procs : Idle(q)) /\ disk.st = "pending-review"
          /\ UNCHANGED <<disk, branch, agents>>
    BY <1>7 DEF ThawLoad, MayStart
  <2> HIDE DEF j
  <2> QED BY <2>1, <2>2, StartKeepsBundle
<1>8. ASSUME NEW all \in BOOLEAN, CleanupLoad(p, all) PROVE BundleInv'
  <2> DEFINE j == [NoJob EXCEPT !.cmd = "cleanup", !.mem = disk,
                                !.pc = "remove"]
  <2>1. j.cmd = "cleanup" /\ j.pc = "remove" /\ j.mem = disk
          /\ j.outcome = "created"
    BY DEF NoJob
  <2>2. Become(p, j) /\ (\A q \in Procs : Idle(q))
          /\ UNCHANGED <<disk, branch, agents>>
    BY <1>8 DEF CleanupLoad, MayStart
  <2> HIDE DEF j
  <2> QED BY <2>1, <2>2, StartKeepsBundle
<1> QED BY <1>1, <1>2, <1>3, <1>4, <1>5, <1>6, <1>7, <1>8 DEF Start

\* The agent and the turn controller leave the bundle attached and open.
LEMMA BundleAgentStep ==
  ASSUME TypeOK, BundleInv, NEW p \in Procs, AgentStep(p)
  PROVE  BundleInv'
<1> USE JobFields
<1>0. RecordHeld(p) /\ BundleSound(p) /\ (disk.st = "running" => NoneFrozen)
  BY DEF BundleInv
<1>1. p \in agents => job[p].pc = "wait" /\ ~Idle(p) /\ disk.st = "running"
                        /\ job[p].mem.st = "running" /\ NoneFrozen
  BY <1>0 DEF BundleSound, At
<1>2. ASSUME NEW x \in Paths, AgentWrite(p, x) PROVE BundleInv'
  BY <1>2 DEF AgentWrite, BundleInv, RecordHeld, BundleSound,
     OneCommandAtATime, Idle, At, NoneFrozen, AllOpen
<1>3. CASE TurnFinalize(p)
  <2>1. /\ UNCHANGED <<branch, mounted, agents, job>>
        /\ disk' = job[p].mem \/ disk' = disk
        /\ job[p].pc \in {"wait", "freeze"}
    BY <1>1, <1>3 DEF TurnFinalize, At
  <2>2. ~Idle(p)
    BY <2>1, BusyBundle
  <2>3. RecordHeld(p)'
    BY <1>0, <2>1 DEF RecordHeld, Idle
  <2>4. BundleSound(p)'
    BY <1>0, <2>1 DEF BundleSound, Idle, At, NoneFrozen, AllOpen
  <2>5. (disk.st = "running" => NoneFrozen)'
    BY <1>0, <2>1, <2>2 DEF BundleSound, NoneFrozen
  <2> QED BY <2>1, <2>2, <2>3, <2>4, <2>5, BundleStep
<1>4. CASE RequestAbort(p)
  <2> DEFINE m == [job[p].mem EXCEPT !.mode = "throwaway",
                                     !.abortRequested = TRUE]
             j == [job[p] EXCEPT !.mem = m]
  <2>1. Become(p, j) /\ disk' = m /\ p \in agents
          /\ UNCHANGED <<branch, mounted, agents>>
    BY <1>4 DEF RequestAbort
  <2>2. m.st = job[p].mem.st /\ j.cmd = job[p].cmd /\ j.pc = job[p].pc
          /\ j.mem = m
    BY DEF Job, Record
  <2> HIDE DEF j, m
  <2>3. job'[p] = j
    BY <2>1, BecomeOnly
  <2>4. RecordHeld(p)'
    BY <1>0, <1>1, <2>1, <2>2, <2>3 DEF RecordHeld
  <2>5. NoneFrozen'
    BY <1>1, <2>1 DEF NoneFrozen
  <2>6. BundleSound(p)'
    BY <1>0, <1>1, <2>1, <2>2, <2>3, <2>5 DEF BundleSound, Idle, At, AllOpen
  <2> QED BY <1>1, <2>1, <2>4, <2>5, <2>6, StepKeepsBundle
<1>5. CASE AgentExit(p)
  <2> DEFINE j == [job[p] EXCEPT !.pc = "exited"]
  <2>1. Become(p, j) /\ p \in agents /\ agents' = agents \ {p}
          /\ UNCHANGED <<disk, branch>>
    BY <1>5 DEF AgentExit
  <2>2. j.cmd = job[p].cmd /\ j.pc = "exited" /\ j.mem = job[p].mem
    BY DEF Job
  <2> HIDE DEF j
  <2>3. job'[p] = j
    BY <2>1, BecomeOnly
  <2>4. RecordHeld(p)'
    BY <1>0, <1>1, <2>1, <2>2, <2>3 DEF RecordHeld
  <2>5. NoneFrozen'
    BY <1>1, <2>1 DEF NoneFrozen
  <2>6. BundleSound(p)'
    BY <1>1, <2>1, <2>2, <2>3, <2>5 DEF BundleSound, Idle, At
  <2> QED BY <1>1, <2>1, <2>4, <2>5, <2>6, StepKeepsBundle
<1> QED BY <1>2, <1>3, <1>4, <1>5 DEF AgentStep

\* Removing the session bundle.
LEMMA BundleRemove ==
  ASSUME TypeOK, BundleInv, NEW p \in Procs, Remove(p)
  PROVE  BundleInv'
<1>1. job[p].pc = "remove" /\ End(p) /\ UNCHANGED <<agents, branch>>
  BY DEF Remove, At
<1>2. disk'.st \in {disk.st, "removed"}
  BY DEF Remove, TypeOK, Record
<1>3. (disk.st = "running" => NoneFrozen)'
  BY <1>1, <1>2 DEF BundleInv, NoneFrozen
<1> QED BY <1>1, <1>3, BusyBundle, EndKeepsBundle

\* BundleInv is preserved by every step, given the types.
LEMMA BundleNext ==
  ASSUME LiveCommands = {}
  PROVE  TypeOK /\ BundleInv /\ [Next]_vars => BundleInv'
<1> SUFFICES ASSUME TypeOK, BundleInv, [Next]_vars PROVE BundleInv'
  OBVIOUS
<1>1. ASSUME NEW p \in Procs, Start(p) PROVE BundleInv'
  BY <1>1, BundleStart
<1>2. ASSUME NEW p \in Procs, Work(p) PROVE BundleInv'
  BY <1>2, BundleAttaching, BundleFreezing, BundleApplying, BundleDiscarding,
     BundleThawing, BundleRemove DEF Work
<1>3. ASSUME NEW p \in Procs, AgentStep(p) PROVE BundleInv'
  BY <1>3, BundleAgentStep
<1>4. ASSUME NEW p \in Procs, Crash(p) PROVE BundleInv'
  <2>1. (disk.st = "running" => NoneFrozen)'
    BY <1>4 DEF Crash, BundleInv, NoneFrozen
  <2> QED BY <1>4, <2>1, EndKeepsBundle DEF Crash
<1>5. CASE Reboot
  <2>1. (\A q \in Procs : job'[q] = NoJob) /\ agents' = {}
          /\ UNCHANGED <<disk, branch>>
    BY <1>5 DEF Reboot
  <2>2. \A q \in Procs : Idle(q)' /\ RecordHeld(q)' /\ BundleSound(q)'
    BY <2>1 DEF RecordHeld, BundleSound, Idle, At, NoJob
  <2>3. (disk.st = "running" => NoneFrozen)'
    BY <2>1 DEF BundleInv, NoneFrozen
  <2> QED BY <2>2, <2>3 DEF BundleInv, OneCommandAtATime
<1>6. CASE UNCHANGED vars
  BY <1>6 DEF vars, BundleInv, RecordHeld, BundleSound, OneCommandAtATime,
     Idle, At, NoneFrozen, AllOpen
<1> QED BY <1>1, <1>2, <1>3, <1>4, <1>5, <1>6 DEF Next

\* Nobody is at work initially.
LEMMA BundleInit == Init => BundleInv
<1> SUFFICES ASSUME Init PROVE BundleInv
  OBVIOUS
<1>1. (\A q \in Procs : job[q] = NoJob) /\ agents = {} /\ disk.st = "absent"
  BY NoJobIsJob DEF Init, Record
<1>2. \A q \in Procs : Idle(q) /\ RecordHeld(q) /\ BundleSound(q)
  BY <1>1 DEF RecordHeld, BundleSound, Idle, At, NoJob
<1> QED BY <1>1, <1>2 DEF BundleInv, OneCommandAtATime

\* BundleInv is an invariant when commands do not overlap.
LEMMA BundleInvariance ==
  ASSUME LiveCommands = {}
  PROVE  Spec => [](TypeOK /\ BundleInv)
<1>1. Init => TypeOK /\ BundleInv
  BY TypeInit, BundleInit
<1>2. TypeOK /\ BundleInv /\ [Next]_vars => (TypeOK /\ BundleInv)'
  BY TypeNext, BundleNext
<1> QED BY <1>1, <1>2, PTL DEF Spec

\* Whatever failed or crashed before the launch, and however often the session
\* was resumed, an agent runs under a record that says running, on a bundle
\* that is mounted and writable at every protected root.
THEOREM LiveBundleIsOpen ==
  ASSUME LiveCommands = {}
  PROVE  Spec => []AgentRunsOnOpenBundle
<1>1. TypeOK /\ BundleInv => AgentRunsOnOpenBundle
  BY DEF BundleInv, BundleSound, At, AllOpen, AgentRunsOnOpenBundle, TypeOK
<1> QED BY <1>1, BundleInvariance, PTL

(***************************************************************************)
(* What reaches the underlay without an operator, however commands overlap. *)
(***************************************************************************)

\* Only the process p changes its job, and what it may still apply
\* automatically stays in scope.
LEMMA OnePlan ==
  ASSUME TypeOK, ScopedPlans, NEW p \in Procs, NEW j, Become(p, j),
         j.pc = "apply" /\ j.cmd \notin {"commit", "select"}
           => j.plan \subseteq InScope \ Ignored
  PROVE  ScopedPlans'
<1>1. job'[p] = j /\ \A q \in Procs : q # p => job'[q] = job[q]
  BY BecomeOnly
<1> QED BY <1>1 DEF ScopedPlans, At

\* A command that ends has nothing left to apply.
LEMMA NoPlan ==
  ASSUME TypeOK, ScopedPlans, NEW p \in Procs, End(p) PROVE ScopedPlans'
BY OnePlan DEF End, NoJob

\* What is applied automatically stays in scope at every step of every
\* command.
LEMMA ScopedWork ==
  ASSUME TypeOK, ScopedPlans, NEW p \in Procs, Work(p) PROVE ScopedPlans'
<1> USE JobFields
<1>1. CASE Attaching(p)
  <2>1. ASSUME NEW m, RunMounting(p),
               m = [job[p] EXCEPT !.mem = [job[p].mem EXCEPT !.st = "mounting"],
                                  !.pc = "attach", !.todo = Roots]
        PROVE  ScopedPlans'
    <3>1. m.pc = "attach" /\ Become(p, m)
      BY <2>1 DEF RunMounting, Job
    <3> QED BY <3>1, OnePlan
  <2>2. ASSUME NEW m, Launch(p),
               m = [job[p] EXCEPT !.mem = [job[p].mem EXCEPT !.st = "running"],
                                  !.pc = "wait"]
        PROVE  ScopedPlans'
    <3>1. m.pc = "wait" /\ Become(p, m)
      BY <2>2 DEF Launch, Job
    <3> QED BY <3>1, OnePlan
  <2>3. CASE AttachError(p) \/ LaunchError(p)
    BY <2>3, NoPlan DEF AttachError, LaunchError
  <2>4. ASSUME NEW r \in Roots, Attach(p, r), NEW m,
               m = [job[p] EXCEPT !.todo = @ \ {r}, !.pc = AfterAttach(p, r)]
        PROVE  ScopedPlans'
    <3>1. m.pc # "apply" /\ Become(p, m)
      BY <2>4 DEF Attach, Job, AfterAttach
    <3> QED BY <3>1, OnePlan
  <2> QED BY <1>1, <2>1, <2>2, <2>3, <2>4 DEF Attaching
<1>2. CASE Freezing(p)
  <2>1. ASSUME NEW m, BeginFinalize(p),
               m = [job[p] EXCEPT !.mem = [job[p].mem EXCEPT !.st = "finalizing"],
                                  !.pc = "freeze", !.todo = Roots]
        PROVE  ScopedPlans'
    <3>1. m.pc = "freeze" /\ Become(p, m)
      BY <2>1 DEF BeginFinalize, Job
    <3> QED BY <3>1, OnePlan
  <2>2. ASSUME NEW m, FreezeDone(p),
               m = [job[p] EXCEPT !.mem = [job[p].mem EXCEPT !.st = "frozen"],
                                  !.pc = "evaluate"]
        PROVE  ScopedPlans'
    <3>1. m.pc = "evaluate" /\ Become(p, m)
      BY <2>2 DEF FreezeDone, Job
    <3> QED BY <3>1, OnePlan
  <2>3. CASE FreezeError(p) \/ EvaluateError(p)
    BY <2>3, NoPlan DEF FreezeError, EvaluateError, Raised
  <2>4. CASE Evaluate(p)
    <3>1. PICK blocked \in BOOLEAN, seen \in SUBSET Visible :
            Become(p, AfterDecision(p, Decide(job[p].mem.mode, seen, blocked),
                                    seen))
      BY <2>4 DEF Evaluate
    <3> DEFINE decision == Decide(job[p].mem.mode, seen, blocked)
               j == AfterDecision(p, decision, seen)
    <3>2. decision \in {"auto-commit", "no-changes", "abort", "pending-review"}
      BY DEF Decide, EvaluatePolicy
    <3>3. decision = "auto-commit" => seen \subseteq InScope \ Ignored
      BY DEF Decide, EvaluatePolicy, Visible
    <3>4. Become(p, j)
      BY <3>1
    <3> HIDE DEF decision
    <3>5. j.pc = "apply" => j.plan \subseteq InScope \ Ignored
      <4>1. CASE decision = "auto-commit"
        BY <3>3, <4>1 DEF AfterDecision, Job
      <4>2. CASE decision = "no-changes"
        BY <4>2 DEF AfterDecision, Job
      <4>3. CASE decision = "abort"
        BY <4>3 DEF AfterDecision, Job
      <4>4. CASE decision = "pending-review"
        BY <4>4 DEF AfterDecision, Job
      <4> QED BY <3>2, <4>1, <4>2, <4>3, <4>4
    <3> HIDE DEF j
    <3> QED BY <3>4, <3>5, OnePlan
  <2>5. ASSUME NEW r \in Roots, Freeze(p, r), NEW m,
               m = [job[p] EXCEPT !.todo = @ \ {r}]
        PROVE  ScopedPlans'
    <3>1. m.pc # "apply" /\ Become(p, m)
      BY <2>5 DEF Freeze, Job, At
    <3> QED BY <3>1, OnePlan
  <2> QED BY <1>2, <2>1, <2>2, <2>3, <2>4, <2>5 DEF Freezing
<1>3. CASE Applying(p)
  <2>0. job[p].pc = "apply" /\ job[p].cmd \notin {"commit", "select"}
          => job[p].plan \subseteq InScope \ Ignored
    BY DEF ScopedPlans, At
  <2>1. CASE ApplyError(p) \/ PruneDone(p) \/ PruneError(p)
    BY <2>1, NoPlan DEF ApplyError, PruneDone, PruneError, Raised
  <2>2. ASSUME NEW m, ApplyDone(p),
               m = [job[p] EXCEPT !.pc = AfterApply(p), !.todo = Roots]
        PROVE  ScopedPlans'
    <3>1. m.pc # "apply" /\ Become(p, m)
      BY <2>2 DEF ApplyDone, Job, AfterApply
    <3> QED BY <3>1, OnePlan
  <2>3. ASSUME NEW x \in Paths, Apply(p, x), NEW m,
               m = [job[p] EXCEPT !.plan = @ \ {x}, !.applied = @ \cup {x}]
        PROVE  ScopedPlans'
    <3>1. m.plan \subseteq job[p].plan /\ m.cmd = job[p].cmd
            /\ m.pc = job[p].pc /\ Become(p, m)
      BY <2>3 DEF Apply, Job
    <3> QED BY <2>0, <3>1, OnePlan
  <2>4. ASSUME NEW x \in Paths, ApplyDenied(p, x), NEW m,
               m = [job[p] EXCEPT !.plan = @ \ {x}, !.denied = @ \cup {x}]
        PROVE  ScopedPlans'
    <3>1. m.plan \subseteq job[p].plan /\ m.cmd = job[p].cmd
            /\ m.pc = job[p].pc /\ Become(p, m)
      BY <2>4 DEF ApplyDenied, Job
    <3> QED BY <2>0, <3>1, OnePlan
  <2>5. ASSUME NEW x \in Paths, Prune(p, x), NEW m,
               m = [job[p] EXCEPT !.applied = @ \ {x}]
        PROVE  ScopedPlans'
    <3>1. m.pc # "apply" /\ Become(p, m)
      BY <2>5 DEF Prune, Job, At
    <3> QED BY <3>1, OnePlan
  <2> QED BY <1>3, <2>1, <2>2, <2>3, <2>4, <2>5 DEF Applying
<1>4. CASE Discarding(p) \/ Thawing(p)
  <2>1. CASE End(p)
    BY <2>1, NoPlan
  <2>2. ASSUME NEW r \in Roots, NEW m, Become(p, m),
               m = [job[p] EXCEPT !.todo = @ \ {r}]
        PROVE  ScopedPlans'
    <3>1. job[p].pc \in {"discard", "thaw"}
      BY <1>4 DEF Discarding, RecordOutcome, RecordRefused, Discard,
         DiscardError, Thawing, ThawError, ThawDone, Thaw, At
    <3>2. m.pc = job[p].pc
      BY <2>2 DEF Job
    <3> QED BY <2>2, <3>1, <3>2, OnePlan
  <2>3. End(p) \/ \E r \in Roots : Become(p, [job[p] EXCEPT !.todo = @ \ {r}])
    BY <1>4 DEF Discarding, RecordOutcome, RecordRefused, Discard, Raised,
       DiscardError, Thawing, ThawError, ThawDone, Thaw
  <2> QED BY <2>1, <2>2, <2>3
<1>5. CASE Remove(p)
  BY <1>5, NoPlan DEF Remove
<1> QED BY <1>1, <1>2, <1>3, <1>4, <1>5 DEF Work

\* Starting a command plans nothing but what the operator asked for.
LEMMA ScopedStart ==
  ASSUME TypeOK, ScopedPlans, NEW p \in Procs, Start(p) PROVE ScopedPlans'
<1>1. CASE RunCreate(p)
  <2> DEFINE j == [NoJob EXCEPT !.cmd = "run", !.pc = "begin"]
  <2>1. Become(p, j) /\ j.pc = "begin"
    BY <1>1 DEF RunCreate, NoJob
  <2> HIDE DEF j
  <2> QED BY <2>1, OnePlan
<1>2. CASE ResumeLoad(p)
  <2> DEFINE j == [NoJob EXCEPT !.cmd = "resume", !.mem = disk,
                                !.pc = "attach", !.todo = Roots]
  <2>1. Become(p, j) /\ j.pc = "attach"
    BY <1>2 DEF ResumeLoad, NoJob
  <2> HIDE DEF j
  <2> QED BY <2>1, OnePlan
<1>3. CASE FinishLoad(p)
  <2> DEFINE j == [NoJob EXCEPT !.cmd = "finish",
                                !.mem = [disk EXCEPT !.st = "finalizing"],
                                !.pc = "freeze", !.todo = Roots]
  <2>1. Become(p, j) /\ j.pc = "freeze"
    BY <1>3 DEF FinishLoad, NoJob
  <2> HIDE DEF j
  <2> QED BY <2>1, OnePlan
<1>4. CASE CommitLoad(p)
  <2>1. PICK shown :
          Become(p, [NoJob EXCEPT !.cmd = "commit",
                         !.mem = [disk EXCEPT !.perm = {}], !.pc = "apply",
                         !.plan = shown, !.outcome = "committed"])
    BY <1>4 DEF CommitLoad
  <2> DEFINE j == [NoJob EXCEPT !.cmd = "commit",
                         !.mem = [disk EXCEPT !.perm = {}], !.pc = "apply",
                         !.plan = shown, !.outcome = "committed"]
  <2>2. Become(p, j) /\ j.cmd = "commit"
    BY <2>1 DEF NoJob
  <2> HIDE DEF j
  <2> QED BY <2>2, OnePlan
<1>5. CASE SelectLoad(p)
  <2>1. PICK chosen :
          Become(p, [NoJob EXCEPT !.cmd = "select", !.mem = disk,
                         !.pc = "apply", !.plan = chosen,
                         !.outcome = "committed"])
    BY <1>5 DEF SelectLoad
  <2> DEFINE j == [NoJob EXCEPT !.cmd = "select", !.mem = disk, !.pc = "apply",
                                !.plan = chosen, !.outcome = "committed"]
  <2>2. Become(p, j) /\ j.cmd = "select"
    BY <2>1 DEF NoJob
  <2> HIDE DEF j
  <2> QED BY <2>2, OnePlan
<1>6. CASE AbortLoad(p)
  <2> DEFINE j == [NoJob EXCEPT !.cmd = "abort", !.mem = disk,
                !.pc = "discard", !.todo = Roots, !.outcome = AbortOutcome]
  <2>1. Become(p, j) /\ j.pc = "discard"
    BY <1>6 DEF AbortLoad, NoJob
  <2> HIDE DEF j
  <2> QED BY <2>1, OnePlan
<1>7. CASE ThawLoad(p)
  <2> DEFINE j == [NoJob EXCEPT !.cmd = "thaw", !.mem = disk, !.pc = "thaw",
                                !.todo = Roots]
  <2>1. Become(p, j) /\ j.pc = "thaw"
    BY <1>7 DEF ThawLoad, NoJob
  <2> HIDE DEF j
  <2> QED BY <2>1, OnePlan
<1>8. ASSUME NEW all \in BOOLEAN, CleanupLoad(p, all) PROVE ScopedPlans'
  <2> DEFINE j == [NoJob EXCEPT !.cmd = "cleanup", !.mem = disk,
                                !.pc = "remove"]
  <2>1. Become(p, j) /\ j.pc = "remove"
    BY <1>8 DEF CleanupLoad, NoJob
  <2> HIDE DEF j
  <2> QED BY <2>1, OnePlan
<1> QED BY <1>1, <1>2, <1>3, <1>4, <1>5, <1>6, <1>7, <1>8 DEF Start

\* The agent and the turn controller plan nothing.
LEMMA ScopedAgentStep ==
  ASSUME TypeOK, ScopedPlans, NEW p \in Procs, AgentStep(p) PROVE ScopedPlans'
<1> USE JobFields
<1>1. CASE UNCHANGED job
  BY <1>1 DEF ScopedPlans, At
<1>2. CASE RequestAbort(p)
  <2>1. PICK m : Become(p, [job[p] EXCEPT !.mem = m])
    BY <1>2 DEF RequestAbort
  <2> DEFINE j == [job[p] EXCEPT !.mem = m]
  <2>2. j.cmd = job[p].cmd /\ j.pc = job[p].pc /\ j.plan = job[p].plan
          /\ Become(p, j)
    BY <2>1 DEF Job
  <2> HIDE DEF j
  <2> QED BY <2>2, OnePlan DEF ScopedPlans, At
<1>3. CASE AgentExit(p)
  <2> DEFINE j == [job[p] EXCEPT !.pc = "exited"]
  <2>1. j.pc = "exited" /\ Become(p, j)
    BY <1>3 DEF AgentExit, Job
  <2> HIDE DEF j
  <2> QED BY <2>1, OnePlan
<1> QED BY <1>1, <1>2, <1>3 DEF AgentStep, AgentWrite, TurnFinalize

\* ScopedPlans is preserved by every step, given the types.
LEMMA ScopedNext == TypeOK /\ ScopedPlans /\ [Next]_vars => ScopedPlans'
<1> SUFFICES ASSUME TypeOK, ScopedPlans, [Next]_vars PROVE ScopedPlans'
  OBVIOUS
<1>1. ASSUME NEW p \in Procs, Start(p) \/ Work(p) \/ AgentStep(p) \/ Crash(p)
      PROVE  ScopedPlans'
  BY <1>1, ScopedStart, ScopedWork, ScopedAgentStep, NoPlan DEF Crash
<1>2. CASE Reboot
  BY <1>2 DEF Reboot, ScopedPlans, At, NoJob
<1>3. CASE UNCHANGED vars
  BY <1>3 DEF vars, ScopedPlans, At
<1> QED BY <1>1, <1>2, <1>3 DEF Next

\* A change outside allowed_scopes, under a deny pattern or hidden by the
\* ignore rules reaches the underlay only while an operator's commit or review
\* selection is at work: never at a turn boundary and never through the
\* automatic commit of a finalization, in every mode and for every overlap of
\* commands, crash and reboot.
THEOREM ScopeIsRespected == Spec => OutOfScopeNeedsOperator
<1>1. Init => TypeOK /\ ScopedPlans
  BY TypeInit DEF Init, ScopedPlans, At, NoJob
<1>2. TypeOK /\ ScopedPlans /\ [Next]_vars => (TypeOK /\ ScopedPlans)'
  BY TypeNext, ScopedNext
<1>3. TypeOK /\ ScopedPlans /\ [Next]_vars =>
        [\A x \in Paths \ (InScope \ Ignored) : base'[x] # base[x]
           => \E p \in Procs : job[p].cmd \in {"commit", "select"}]_base
  <2> SUFFICES ASSUME TypeOK, ScopedPlans, Next,
                      NEW x \in Paths \ (InScope \ Ignored),
                      base'[x] # base[x],
                      \A p \in Procs : job[p].cmd \notin {"commit", "select"}
               PROVE  FALSE
    BY DEF vars
  <2>1. ASSUME NEW p \in Procs, NEW y \in Paths, Apply(p, y) PROVE FALSE
    <3>1. y \in InScope \ Ignored
      BY <2>1 DEF Apply, ScopedPlans
    <3> QED BY <2>1, <3>1 DEF Apply, TypeOK
  <2>2. ASSUME NEW p \in Procs, TurnFinalize(p) PROVE FALSE
    BY <2>2 DEF TurnFinalize, TurnEligible, Visible
  <2>3. ASSUME NEW p \in Procs, Start(p) PROVE FALSE
    BY <2>3 DEF Start, RunCreate, ResumeLoad, FinishLoad, CommitLoad,
       SelectLoad, AbortLoad, ThawLoad, CleanupLoad
  <2>4. ASSUME NEW p \in Procs, Attaching(p) PROVE FALSE
    BY <2>4 DEF Attaching, RunMounting, AttachError, Launch, LaunchError,
       Attach
  <2>5. ASSUME NEW p \in Procs, Freezing(p) PROVE FALSE
    BY <2>5 DEF Freezing, BeginFinalize, FreezeError, FreezeDone, Evaluate,
       EvaluateError, Freeze
  <2>6. ASSUME NEW p \in Procs, Applying(p) PROVE FALSE
    BY <2>1, <2>6 DEF Applying, ApplyError, ApplyDone, PruneDone, PruneError,
       ApplyDenied, Prune
  <2>7. ASSUME NEW p \in Procs, Discarding(p) \/ Thawing(p) \/ Remove(p)
        PROVE  FALSE
    BY <2>7 DEF Discarding, RecordOutcome, RecordRefused, Discard,
       DiscardError, Thawing, ThawError, ThawDone, Thaw, Remove
  <2>8. ASSUME NEW p \in Procs, AgentStep(p) PROVE FALSE
    BY <2>2, <2>8 DEF AgentStep, AgentWrite, RequestAbort, AgentExit
  <2>9. CASE Reboot \/ (\E p \in Procs : Crash(p))
    BY <2>9 DEF Reboot, Crash
  <2> QED BY <2>3, <2>4, <2>5, <2>6, <2>7, <2>8, <2>9 DEF Next, Work
<1> QED BY <1>1, <1>2, <1>3, PTL DEF Spec, OutOfScopeNeedsOperator

=============================================================================
