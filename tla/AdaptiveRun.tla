---------------------------- MODULE AdaptiveRun ----------------------------
(***************************************************************************)
(* One adaptive run: the command the user started (the frontend), the      *)
(* supervisor it forks, and namespace PID 1, which decides whether the     *)
(* contained command is a foreground program, a one-shot command or the    *)
(* launcher of a service that may be left behind (adaptive_pid1.py,        *)
(* _run_adaptive_session and below in runner.py).                          *)
(*                                                                         *)
(* PID 1 samples the clock, reads the child's streams, and only then looks *)
(* at the child and its descendants; each half is a step.  Its events      *)
(* reach the supervisor through a FIFO socket that the supervisor stops    *)
(* reading when it sees the sandbox gone.  Time is the set of timers that  *)
(* have run out.  The command's last output is followed from pipe to pipe. *)
(***************************************************************************)
EXTENDS Sequences

Streams == {"stdout", "stderr"}
Timers  == {"bootstrap", "stability", "detach"}
Events  == {"started", "foreground-locked", "foreground-exited", "failed",
            "one-shot", "handoff-candidate", "handoff", "service-exited",
            "handoff-rejected", "stopping"}

VARIABLES
  serverMode, \* config.server_mode
  child,      \* the launched command
  helper,     \* its descendants: alive, and the output streams they hold
  elapsed,    \* timers that have run out
  pid1,       \* the state of run()
  out,        \* where the last output of the command is
  signalled,  \* PID 1 got SIGTERM or SIGHUP
  sandbox,    \* the bwrap process is alive
  events,     \* lifecycle events the supervisor has not read
  sup,        \* what the supervisor does
  handed,     \* handed_off
  bridge,     \* the session is a remote bridge
  status,     \* the status pipe to the frontend
  frontend,   \* the command the user started
  outcome     \* what became of the session's branches

inner == <<child, helper, elapsed, pid1, signalled>>
outer == <<sup, handed, bridge, status, frontend, outcome>>
vars  == <<serverMode, inner, out, sandbox, events, outer>>

Pid1State == [at : {"start", "top", "sampled", "returned"},
              now : SUBSET Timers,  \* timers found out when `now' was taken
              eof : SUBSET Streams, locked : BOOLEAN,
              exit : {"none", "zero", "nonzero"},  \* child_status
              candidate : BOOLEAN, handoff : BOOLEAN, rejected : BOOLEAN]

Init ==
  /\ serverMode \in BOOLEAN
  /\ child = "none"
  /\ helper = [alive |-> FALSE, holds |-> {}]
  /\ elapsed = {}
  /\ pid1 = [at |-> "start", now |-> {}, eof |-> {}, locked |-> FALSE,
             exit |-> "none", candidate |-> FALSE, handoff |-> FALSE,
             rejected |-> FALSE]
  /\ out = "none"
  /\ signalled = FALSE
  /\ sandbox = FALSE
  /\ events = <<>>
  /\ sup = "launch"
  /\ handed = FALSE /\ bridge = FALSE
  /\ status = "none" /\ frontend = "waiting" /\ outcome = "none"

----------------------------------------------------------------------------
(* The contained command and the clock. *)

Environment == UNCHANGED <<serverMode, pid1, out, sandbox, events, outer>>

Write ==
  /\ sandbox /\ child = "running" /\ out = "none"
  /\ out' = "pipe"
  /\ UNCHANGED <<serverMode, inner, sandbox, events, outer>>

Fork ==
  /\ sandbox /\ child = "running" /\ ~helper.alive
  /\ \E held \in SUBSET Streams : helper' = [alive |-> TRUE, holds |-> held]
  /\ Environment /\ UNCHANGED <<child, elapsed, signalled>>

ChildExit ==
  /\ sandbox /\ child = "running"
  /\ child' \in {"zero", "nonzero"}
  /\ Environment /\ UNCHANGED <<helper, elapsed, signalled>>

HelperReleases ==
  /\ helper.alive
  /\ \E s \in helper.holds : helper' = [helper EXCEPT !.holds = @ \ {s}]
  /\ Environment /\ UNCHANGED <<child, elapsed, signalled>>

HelperExit ==
  /\ helper.alive
  /\ helper' = [alive |-> FALSE, holds |-> {}]
  /\ Environment /\ UNCHANGED <<child, elapsed, signalled>>

\* Bootstrap counts from the start, the others from candidate_started.
Elapse(t) ==
  /\ sandbox /\ pid1.at \in {"top", "sampled"} /\ t \notin elapsed
  /\ t = "bootstrap" \/ pid1.candidate
  /\ elapsed' = elapsed \cup {t}
  /\ Environment /\ UNCHANGED <<child, helper, signalled>>

Signal ==
  /\ sandbox /\ ~signalled
  /\ signalled' = TRUE
  /\ Environment /\ UNCHANGED <<child, helper, elapsed>>

----------------------------------------------------------------------------
(* PID 1: run(). *)

\* Streams whose next read finds their end: nobody holds them, all is read.
AtEof == {s \in Streams :
            /\ child # "running"
            /\ s \notin helper.holds
            /\ s = "stdout" => out # "pipe"}

Send(event) == events' = Append(events, event)

\* The kernel ends the namespace with PID 1; output nobody read is lost.
Return(record, event, output) ==
  /\ pid1' = [record EXCEPT !.at = "returned"]
  /\ helper' = [alive |-> FALSE, holds |-> {}]
  /\ child' = IF child = "running" THEN "killed" ELSE child
  /\ out' = IF output = "pipe" THEN "lost" ELSE output
  /\ Send(event)
  /\ UNCHANGED <<serverMode, elapsed, signalled, sandbox, outer>>

\* _drain_ready, and the drain to EOF of a command without descendants.
Drained == IF out = "pipe" THEN "relayed" ELSE out

Loop(record) ==
  /\ pid1' = [record EXCEPT !.at = "top"]
  /\ UNCHANGED <<serverMode, child, helper, elapsed, signalled, sandbox, out,
                 outer>>

Start ==
  /\ sandbox /\ pid1.at = "start"
  /\ \/ /\ child' = "running"
        /\ pid1' = [pid1 EXCEPT !.at = "top"]
        /\ Send("started")
        /\ UNCHANGED <<serverMode, helper, elapsed, signalled, sandbox, out,
                       outer>>
     \/ /\ child = "none"
        /\ Return(pid1, "failed", out)

\* now = time.monotonic(), then _read_streams.
Sample ==
  /\ sandbox /\ pid1.at = "top"
  /\ out' = Drained
  /\ pid1' = [pid1 EXCEPT !.at = "sampled", !.now = elapsed,
                         !.eof = @ \cup AtEof]
  /\ UNCHANGED <<serverMode, child, helper, elapsed, signalled, sandbox, events,
                 outer>>

\* child.poll(), once per iteration until it has exited.
Exited == IF pid1.exit = "none" /\ child \in {"zero", "nonzero"}
          THEN child ELSE pid1.exit
Polled == [pid1 EXCEPT !.exit = Exited]

Decides == sandbox /\ pid1.at = "sampled" /\ ~signalled

Stopping ==
  /\ sandbox /\ pid1.at = "sampled" /\ signalled
  /\ Return(pid1, "stopping", out)

StillRunning ==
  /\ Decides /\ Exited = "none"
  /\ IF ~pid1.locked /\ "bootstrap" \in pid1.now
     THEN Loop([pid1 EXCEPT !.locked = TRUE]) /\ Send("foreground-locked")
     ELSE Loop(pid1) /\ UNCHANGED events

ForegroundExit ==
  /\ Decides /\ Exited # "none" /\ pid1.locked
  /\ Return(Polled, "foreground-exited", Drained)

ChildFailed ==
  /\ Decides /\ Exited = "nonzero" /\ ~pid1.locked
  /\ Return(Polled, "failed", Drained)

Succeeded == Decides /\ Exited = "zero" /\ ~pid1.locked

NobodyLeft ==
  /\ Succeeded /\ ~helper.alive
  /\ Return(Polled, IF pid1.handoff THEN "service-exited" ELSE "one-shot", Drained)

\* The launcher left somebody behind.
Candidate ==
  /\ Succeeded /\ helper.alive /\ ~pid1.candidate
  /\ Loop([Polled EXCEPT !.candidate = TRUE])
  /\ Send("handoff-candidate")

\* Mutant: stability alone decides.
MayHandOffStable == "stability" \in pid1.now

\* Stable, and both streams at EOF.
MayHandOff == "stability" \in pid1.now /\ pid1.eof = Streams

HandOff ==
  /\ Succeeded /\ helper.alive /\ pid1.candidate /\ ~pid1.handoff
  /\ MayHandOff
  /\ Loop([Polled EXCEPT !.handoff = TRUE])
  /\ Send("handoff")

\* Mutant: a candidate that keeps a stream is waited for.
GivesUpNever == FALSE

GivesUp == "detach" \in pid1.now

Reject ==
  /\ Succeeded /\ helper.alive /\ pid1.candidate /\ ~pid1.handoff
  /\ ~MayHandOff /\ GivesUp
  /\ Return([Polled EXCEPT !.rejected = TRUE], "handoff-rejected", out)

Waits ==
  /\ Succeeded /\ helper.alive /\ pid1.candidate
  /\ pid1.handoff \/ (~MayHandOff /\ ~GivesUp)
  /\ Loop(Polled) /\ UNCHANGED events

Pid1 ==
  \/ Start \/ Sample \/ Stopping \/ StillRunning \/ ForegroundExit
  \/ ChildFailed \/ NobodyLeft \/ Candidate \/ HandOff \/ Reject \/ Waits

----------------------------------------------------------------------------
(* The supervisor: _run_adaptive_supervisor, _adaptive_supervise_process. *)

Untouched == UNCHANGED <<serverMode, inner, out, sandbox, events>>

Launch ==
  /\ sup = "launch"
  /\ sup' = "relay" /\ sandbox' = TRUE
  /\ UNCHANGED <<serverMode, inner, out, events, handed, bridge, status,
                 frontend, outcome>>

LaunchFails ==
  /\ sup = "launch"
  /\ sup' = "concluded" /\ outcome' = "failed"
  /\ Untouched /\ UNCHANGED <<handed, bridge, status, frontend>>

\* bwrap exits with PID 1.
BwrapExit ==
  /\ sandbox /\ pid1.at = "returned"
  /\ sandbox' = FALSE
  /\ UNCHANGED <<serverMode, inner, out, events, outer>>

\* Whatever else ends bwrap ends the namespace with it.
Killed ==
  /\ sandbox' = FALSE
  /\ pid1' = [pid1 EXCEPT !.at = "returned"]
  /\ helper' = [alive |-> FALSE, holds |-> {}]
  /\ child' = IF child \in {"none", "running"} THEN "killed" ELSE child
  /\ out' = IF out \in {"pipe", "relayed"} THEN "lost" ELSE out
  /\ UNCHANGED <<serverMode, elapsed, signalled, events>>

\* Mutant: the frontend's exit is a disconnection even after the handoff.
MindsFrontendAlways == sup \in {"relay", "waiting"}

MindsFrontend == sup = "relay"

\* os.getppid() is not the frontend any more: _adaptive_stop_process.
Disconnected ==
  /\ MindsFrontend /\ sandbox /\ frontend # "waiting"
  /\ Killed
  /\ sup' = "reaped"
  /\ UNCHANGED <<handed, bridge, status, frontend, outcome>>

Relay ==
  /\ sup = "relay" /\ out = "relayed"
  /\ out' = "shown"
  /\ UNCHANGED <<serverMode, inner, sandbox, events, outer>>

\* Mutant: every candidate is taken for a bridge.
MakesBridgeEarly(event) ==
  serverMode /\ event \in {"foreground-locked", "handoff-candidate"}

MakesBridge(event) ==
  serverMode /\ event \in {"foreground-locked", "handoff-rejected"}

\* One lifecycle event: recorded, and at a handoff the frontend is let go.
ReadEvent ==
  LET event == Head(events) IN
  /\ sup = "relay" /\ events # <<>>
  /\ events' = Tail(events)
  /\ bridge' = (bridge \/ MakesBridge(event))
  /\ IF event = "handoff"
     THEN /\ handed' = TRUE /\ sup' = "waiting" /\ status' = "handoff"
          /\ out' = IF out = "relayed" THEN "lost" ELSE out
     ELSE UNCHANGED <<handed, sup, status, out>>
  /\ UNCHANGED <<serverMode, inner, sandbox, frontend, outcome>>

\* The loop ends with the process, whatever is still unread; so does the wait.
LoopEnds ==
  /\ sup \in {"relay", "waiting"} /\ ~sandbox
  /\ sup' = "reaped"
  /\ out' = IF out = "relayed" THEN "lost" ELSE out
  /\ UNCHANGED <<serverMode, inner, sandbox, events, handed, bridge, status,
                 frontend, outcome>>

\* finalize_session; every error on the way there is recorded.
Conclude ==
  /\ sup = "reaped" /\ ~bridge
  /\ outcome' \in {"finalized", "failed"}
  /\ sup' = "concluded"
  /\ Untouched /\ UNCHANGED <<handed, bridge, status, frontend>>

\* _discard_remote_bridge_session, once all is closed: a failed abort keeps
\* the branches.
DiscardBridge ==
  /\ sup = "reaped" /\ bridge
  /\ outcome' \in {"discarded", "failed"}
  /\ sup' = "concluded"
  /\ Untouched /\ UNCHANGED <<handed, bridge, status, frontend>>

\* Mutant: the status line names the outcome.
ReportOutcome ==
  /\ sup = "concluded"
  /\ status' = outcome
  /\ sup' = "exited"
  /\ Untouched /\ UNCHANGED <<handed, bridge, frontend, outcome>>

\* The frontend's end of the pipe is closed after a handoff.
Report ==
  /\ sup = "concluded"
  /\ status' = IF handed THEN status ELSE "finished"
  /\ sup' = "exited"
  /\ Untouched /\ UNCHANGED <<handed, bridge, frontend, outcome>>

\* bwrap dies with the supervisor, the record is left for `recover'.
Crash ==
  /\ sup \in {"launch", "relay", "waiting", "reaped", "concluded"}
  /\ sup' = "crashed"
  /\ IF sandbox THEN Killed ELSE UNCHANGED <<serverMode, inner, out, sandbox, events>>
  /\ UNCHANGED <<handed, bridge, status, frontend, outcome>>

Supervisor ==
  \/ Launch \/ LaunchFails \/ Disconnected \/ Relay \/ ReadEvent \/ LoopEnds
  \/ Conclude \/ DiscardBridge \/ Report

----------------------------------------------------------------------------
(* The frontend: _run_adaptive_session. *)

\* A status line, or EOF and the end of the supervisor.
FrontendReturns ==
  /\ frontend = "waiting"
  /\ \/ status = "handoff" /\ frontend' = "handed-off"
     \/ /\ status # "handoff" /\ sup \in {"exited", "crashed"}
        /\ frontend' = "finished"
  /\ Untouched /\ UNCHANGED <<sup, handed, bridge, status, outcome>>

\* The SSH connection breaks.
FrontendDies ==
  /\ frontend = "waiting"
  /\ frontend' = "gone"
  /\ Untouched /\ UNCHANGED <<sup, handed, bridge, status, outcome>>

----------------------------------------------------------------------------
Next ==
  \/ Write \/ Fork \/ ChildExit \/ HelperReleases \/ HelperExit \/ Signal
  \/ \E t \in Timers : Elapse(t)
  \/ Pid1
  \/ Supervisor \/ BwrapExit \/ Crash
  \/ FrontendReturns \/ FrontendDies

Spec == Init /\ [][Next]_vars

\* The processes of this program run, and time passes; the contained command
\* may do nothing for ever.
FairSpec ==
  /\ Spec
  /\ WF_vars(Pid1)
  /\ WF_vars(Elapse("bootstrap")) /\ WF_vars(Elapse("stability"))
  /\ WF_vars(Elapse("detach"))
  /\ WF_vars(BwrapExit) /\ WF_vars(Supervisor)
  /\ WF_vars(FrontendReturns)

----------------------------------------------------------------------------
(* Properties. *)

TypeOK ==
  /\ serverMode \in BOOLEAN
  /\ child \in {"none", "running", "zero", "nonzero", "killed"}
  /\ helper \in [alive : BOOLEAN, holds : SUBSET Streams]
  /\ elapsed \subseteq Timers
  /\ pid1 \in Pid1State
  /\ out \in {"none", "pipe", "relayed", "shown", "lost"}
  /\ signalled \in BOOLEAN
  /\ sandbox \in BOOLEAN
  /\ events \in Seq(Events)
  /\ sup \in {"launch", "relay", "waiting", "reaped", "concluded", "exited",
              "crashed"}
  /\ handed \in BOOLEAN
  /\ bridge \in BOOLEAN
  /\ status \in {"none", "handoff", "finished"}
  /\ frontend \in {"waiting", "handed-off", "finished", "gone"}
  /\ outcome \in {"none", "finalized", "discarded", "failed"}

\* When the frontend goes back to its caller because of a handoff, nothing in
\* the sandbox writes to the caller's streams any more, or ever will.
HandoffReleasesStreams ==
  status = "handoff" => child # "running" /\ helper.holds = {}

\* The work of a service that was handed off, or of a command that simply
\* ended, is never thrown away: only what PID 1 kept in the foreground or
\* rejected is taken for a bridge.
OnlyBridgesAreDiscarded ==
  outcome = "discarded"
    => serverMode /\ ~handed /\ (pid1.locked \/ pid1.rejected)

\* A handed-off service ends by itself or with the supervisor, never because
\* the command that started it has returned.
HandedOffServiceIsLeftAlone ==
  [][sandbox /\ ~sandbox' /\ handed
       => pid1.at = "returned" \/ sup' = "crashed"]_vars

\* Once the launched command has exited, the caller gets its terminal back,
\* whatever the processes it left behind do with its streams.
ExitIsAnswered ==
  (child \in {"zero", "nonzero"}) ~> (frontend # "waiting")

============================================================================
