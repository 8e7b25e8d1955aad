------------------------- MODULE AdaptiveRunProofs -------------------------
(* Proofs about AdaptiveRun: what a handoff, a discarded bridge and a lost  *)
(* frontend mean, over every interleaving of PID 1, the supervisor and the  *)
(* frontend and any number of events between them.                          *)
EXTENDS AdaptiveRun, Naturals, TLAPS

----------------------------------------------------------------------------
(* The event socket. *)

\* The event e is on its way to the supervisor.
Sent(e) == \E i \in 1..Len(events) : events[i] = e

\* What is on its way after PID 1 has sent one more event.
LEMMA SentAfterSend ==
  ASSUME events \in Seq(Events), NEW e \in Events, Send(e)
  PROVE  /\ events' \in Seq(Events)
         /\ \A f \in Events : Sent(f)' => Sent(f) \/ f = e
  BY DEF Send, Sent

\* What is on its way after the supervisor has read the first event.
LEMMA SentAfterRead ==
  ASSUME events \in Seq(Events), events # <<>>, events' = Tail(events)
  PROVE  /\ events' \in Seq(Events)
         /\ Head(events) \in Events /\ Sent(Head(events))
         /\ \A f \in Events : Sent(f)' => Sent(f)
<1>1. events' \in Seq(Events) /\ Head(events) \in Events
  BY DEF Events
<1>2. Len(events) \in Nat /\ Len(events) > 0 /\ Head(events) = events[1]
  OBVIOUS
<1>3. Sent(Head(events))
  BY <1>2 DEF Sent
<1>4. ASSUME NEW f \in Events, NEW i \in 1..Len(events'), events'[i] = f
      PROVE  Sent(f)
  <2>1. i + 1 \in 1..Len(events) /\ events'[i] = events[i + 1]
    BY <1>2
  <2> QED BY <1>4, <2>1 DEF Sent
<1> QED BY <1>1, <1>3, <1>4 DEF Sent

----------------------------------------------------------------------------
(* The inductive invariant. *)

\* PID 1's own account: a command that is about to start has done nothing; a
\* stream found at its end has no holder left and gets none; a handoff comes
\* after a clean exit, with both streams at their end, and excludes a
\* foreground lock and a rejection.
Pid1Sound ==
  /\ pid1.at = "start" => pid1.eof = {} /\ ~pid1.handoff
  /\ pid1.at \in {"top", "sampled"} => child # "none"
  /\ \A s \in pid1.eof : child # "running" /\ s \notin helper.holds
  /\ pid1.handoff => /\ pid1.exit = "zero" /\ pid1.eof = Streams
                     /\ ~pid1.locked /\ ~pid1.rejected
  /\ pid1.rejected => pid1.at = "returned"

\* What the supervisor has been told, or will be, is what PID 1 has done.
NewsSound ==
  /\ Sent("handoff") => pid1.handoff
  /\ Sent("foreground-locked") => pid1.locked
  /\ Sent("handoff-rejected") => pid1.rejected

\* The supervisor acts on what it was told.
SupervisorSound ==
  /\ handed => pid1.handoff /\ sup \notin {"launch", "relay"}
  /\ status = "handoff" => handed
  /\ bridge => serverMode /\ (pid1.locked \/ pid1.rejected)
  /\ outcome = "discarded" => bridge

AdaptiveInv == TypeOK /\ Pid1Sound /\ NewsSound /\ SupervisorSound

\* Events and outputs by which a step changes nothing that NewsSound is about.
LEMMA NewsUnchanged ==
  ASSUME UNCHANGED events
  PROVE  \A f : Sent(f)' = Sent(f)
  BY DEF Sent

\* Nothing has happened in the initial state.
LEMMA InitAdaptive == Init => AdaptiveInv
<1> SUFFICES ASSUME Init
             PROVE  AdaptiveInv
  OBVIOUS
<1>1. TypeOK
  <2>1. pid1 \in Pid1State
    BY DEF Init, Pid1State
  <2>2. helper \in [alive : BOOLEAN, holds : SUBSET Streams]
    BY DEF Init
  <2>3. events \in Seq(Events)
    BY DEF Init
  <2>4. elapsed \subseteq Timers
    BY DEF Init
  <2> QED BY <2>1, <2>2, <2>3, <2>4 DEF Init, TypeOK
<1>2. Pid1Sound /\ SupervisorSound
  BY DEF Init, Pid1Sound, SupervisorSound
<1>3. NewsSound
  BY DEF Init, NewsSound, Sent
<1> QED BY <1>1, <1>2, <1>3 DEF AdaptiveInv

----------------------------------------------------------------------------
(* The contained command and the clock. *)

\* The command writes, forks, exits and is signalled; its helpers let go of
\* streams and exit; timers run out.  None of this gives a stream at its end a
\* new holder.
LEMMA CommandKeeps ==
  ASSUME AdaptiveInv,
         \/ Write \/ Fork \/ ChildExit \/ HelperReleases \/ HelperExit \/ Signal
         \/ \E t \in Timers : Elapse(t)
  PROVE  AdaptiveInv'
<1> USE DEF AdaptiveInv
<1>0. /\ UNCHANGED <<serverMode, pid1, sandbox, events, outer>>
      /\ UNCHANGED <<sup, handed, bridge, status, frontend, outcome>>
  BY DEF Write, Fork, ChildExit, HelperReleases, HelperExit, Signal, Elapse,
         Environment, inner, outer
<1>1. TypeOK'
  <2>1. CASE Write
    BY <1>0, <2>1 DEF Write, TypeOK, inner
  <2>2. CASE Fork \/ HelperReleases \/ HelperExit
    <3>1. helper' \in [alive : BOOLEAN, holds : SUBSET Streams]
      <4>1. CASE Fork
        BY <2>2, <4>1 DEF Fork
      <4>2. CASE HelperReleases
        BY <4>2 DEF HelperReleases, TypeOK
      <4>3. CASE HelperExit
        BY <4>3 DEF HelperExit
      <4> QED BY <2>2, <4>1, <4>2, <4>3
    <3>2. UNCHANGED <<child, elapsed, signalled, out>>
      BY <2>2 DEF Fork, HelperReleases, HelperExit, Environment
    <3> QED BY <1>0, <3>1, <3>2 DEF TypeOK
  <2>3. CASE ChildExit \/ Signal
    <3>1. /\ child' \in {"none", "running", "zero", "nonzero", "killed"}
          /\ signalled' \in BOOLEAN
      BY <2>3 DEF ChildExit, Signal, TypeOK
    <3>2. UNCHANGED <<helper, elapsed, out>>
      BY <2>3 DEF ChildExit, Signal, Environment
    <3> QED BY <1>0, <3>1, <3>2 DEF TypeOK
  <2>4. CASE \E t \in Timers : Elapse(t)
    BY <1>0, <2>4 DEF Elapse, Environment, TypeOK
  <2> QED BY <2>1, <2>2, <2>3, <2>4
<1>2. /\ child # "none" => child' # "none"
      /\ child # "running" => child' # "running"
      /\ child # "running" => helper'.holds \subseteq helper.holds
  BY DEF Write, Fork, ChildExit, HelperReleases, HelperExit, Signal, Elapse,
         inner, TypeOK
<1>3. Pid1Sound'
  BY <1>0, <1>2 DEF Pid1Sound
<1>4. NewsSound' /\ SupervisorSound'
  BY <1>0, NewsUnchanged DEF NewsSound, SupervisorSound
<1> QED BY <1>1, <1>3, <1>4

----------------------------------------------------------------------------
(* PID 1. *)

\* PID 1 returns: the namespace ends with it, and what it knew stands.
LEMMA ReturnKeeps ==
  ASSUME AdaptiveInv, NEW record \in Pid1State, NEW event \in Events,
         NEW output \in {"none", "pipe", "relayed", "shown", "lost"},
         record.eof = pid1.eof, record.handoff = pid1.handoff,
         record.locked = pid1.locked,
         pid1.handoff => record.exit = pid1.exit,
         pid1.rejected => record.rejected,
         record.rejected => ~pid1.handoff,
         event \notin {"handoff", "foreground-locked"},
         event = "handoff-rejected" => record.rejected,
         Return(record, event, output)
  PROVE  AdaptiveInv'
<1> USE DEF AdaptiveInv
<1>0. /\ pid1' = [record EXCEPT !.at = "returned"]
      /\ helper' = [alive |-> FALSE, holds |-> {}]
      /\ child' = IF child = "running" THEN "killed" ELSE child
      /\ out' = IF output = "pipe" THEN "lost" ELSE output
      /\ Send(event)
      /\ UNCHANGED <<serverMode, elapsed, signalled, sandbox, sup, handed,
                     bridge, status, frontend, outcome>>
  BY DEF Return, outer
<1>1. /\ pid1' \in Pid1State /\ pid1'.at = "returned"
      /\ pid1'.eof = pid1.eof /\ pid1'.handoff = pid1.handoff
      /\ pid1'.locked = pid1.locked /\ pid1'.exit = record.exit
      /\ pid1'.rejected = record.rejected
  BY <1>0 DEF Pid1State
<1>2. /\ events' \in Seq(Events)
      /\ \A f \in Events : Sent(f)' => Sent(f) \/ f = event
  BY <1>0, SentAfterSend DEF TypeOK
<1>3. TypeOK'
  BY <1>0, <1>1, <1>2 DEF TypeOK
<1>4. Pid1Sound'
  BY <1>0, <1>1 DEF Pid1Sound
<1>5. NewsSound'
  BY <1>1, <1>2 DEF NewsSound, Events
<1>6. SupervisorSound'
  BY <1>0, <1>1 DEF SupervisorSound
<1> QED BY <1>3, <1>4, <1>5, <1>6

\* PID 1 goes round its loop: what it has found out only grows, and a handoff
\* is recorded only with both streams at their end.
LEMMA LoopKeeps ==
  ASSUME AdaptiveInv, pid1.at = "sampled", NEW record \in Pid1State,
         record.eof = pid1.eof, record.rejected = pid1.rejected,
         pid1.handoff => record.handoff, pid1.locked => record.locked,
         record.handoff => /\ record.exit = "zero" /\ record.eof = Streams
                           /\ ~record.locked,
         \/ UNCHANGED events
         \/ /\ Send("foreground-locked") /\ record.locked
         \/ /\ Send("handoff") /\ record.handoff
         \/ Send("handoff-candidate"),
         Loop(record)
  PROVE  AdaptiveInv'
<1> USE DEF AdaptiveInv
<1>0. /\ pid1' = [record EXCEPT !.at = "top"]
      /\ UNCHANGED <<serverMode, child, helper, elapsed, signalled, sandbox,
                     out, sup, handed, bridge, status, frontend, outcome>>
  BY DEF Loop, outer
<1>1. /\ pid1' \in Pid1State /\ pid1'.at = "top"
      /\ pid1'.eof = pid1.eof /\ pid1'.handoff = record.handoff
      /\ pid1'.locked = record.locked /\ pid1'.exit = record.exit
      /\ pid1'.rejected = record.rejected
  BY <1>0 DEF Pid1State
<1>2. ~pid1.rejected
  BY DEF Pid1Sound, TypeOK, Pid1State
<1>3. /\ events' \in Seq(Events)
      /\ Sent("handoff")' => Sent("handoff") \/ record.handoff
      /\ Sent("foreground-locked")' => Sent("foreground-locked") \/ record.locked
      /\ Sent("handoff-rejected")' => Sent("handoff-rejected")
  <2>1. CASE UNCHANGED events
    BY <2>1, NewsUnchanged DEF TypeOK
  <2>2. CASE Send("foreground-locked") /\ record.locked
    BY <2>2, SentAfterSend DEF TypeOK, Events
  <2>3. CASE Send("handoff") /\ record.handoff
    BY <2>3, SentAfterSend DEF TypeOK, Events
  <2>4. CASE Send("handoff-candidate")
    BY <2>4, SentAfterSend DEF TypeOK, Events
  <2> QED BY <2>1, <2>2, <2>3, <2>4
<1>4. TypeOK'
  BY <1>0, <1>1, <1>3 DEF TypeOK
<1>5. Pid1Sound'
  BY <1>0, <1>1, <1>2 DEF Pid1Sound
<1>6. NewsSound'
  BY <1>1, <1>2, <1>3 DEF NewsSound
<1>7. SupervisorSound'
  BY <1>0, <1>1, <1>2 DEF SupervisorSound
<1> QED BY <1>4, <1>5, <1>6, <1>7

\* What child.poll() leaves in the record of PID 1.
LEMMA PolledRecord ==
  ASSUME AdaptiveInv
  PROVE  /\ Polled \in Pid1State /\ Polled.exit = Exited
         /\ Polled.eof = pid1.eof /\ Polled.handoff = pid1.handoff
         /\ Polled.locked = pid1.locked /\ Polled.rejected = pid1.rejected
         /\ pid1.exit # "none" => Exited = pid1.exit
<1>1. Exited \in {"none", "zero", "nonzero"}
  BY DEF AdaptiveInv, TypeOK, Pid1State, Exited
<1>2. pid1.exit # "none" => Exited = pid1.exit
  BY DEF Exited
<1> QED BY <1>1, <1>2 DEF Polled, AdaptiveInv, TypeOK, Pid1State

\* The command is started, or cannot be.
LEMMA StartKeeps ==
  ASSUME AdaptiveInv, Start
  PROVE  AdaptiveInv'
<1> USE DEF AdaptiveInv
<1>0. pid1 \in Pid1State /\ pid1.at = "start"
  BY DEF Start, TypeOK
<1>1. CASE child' = "running" /\ pid1' = [pid1 EXCEPT !.at = "top"]
           /\ Send("started")
           /\ UNCHANGED <<serverMode, helper, elapsed, signalled, sandbox, out,
                          outer>>
  <2>1. /\ pid1' \in Pid1State /\ pid1'.at = "top"
        /\ pid1'.eof = pid1.eof /\ pid1'.handoff = pid1.handoff
        /\ pid1'.locked = pid1.locked /\ pid1'.rejected = pid1.rejected
    BY <1>0, <1>1 DEF Pid1State
  <2>2. /\ events' \in Seq(Events)
        /\ \A f \in Events : Sent(f)' => Sent(f) \/ f = "started"
    BY <1>1, SentAfterSend DEF TypeOK, Events
  <2>3. TypeOK'
    BY <1>1, <2>1, <2>2 DEF TypeOK, outer
  <2>4. Pid1Sound' /\ SupervisorSound'
    BY <1>0, <1>1, <2>1 DEF Pid1Sound, SupervisorSound, outer, TypeOK
  <2>5. NewsSound'
    BY <2>1, <2>2 DEF NewsSound, Events
  <2> QED BY <2>3, <2>4, <2>5
<1>2. CASE Return(pid1, "failed", out)
  BY <1>0, <1>2, ReturnKeeps DEF TypeOK, Pid1Sound, Events
<1> QED BY <1>1, <1>2 DEF Start

\* The streams are read: the ones found at their end have no holder.
LEMMA SampleKeeps ==
  ASSUME AdaptiveInv, Sample
  PROVE  AdaptiveInv'
<1> USE DEF AdaptiveInv
<1>0. /\ pid1 \in Pid1State /\ pid1.at = "top"
      /\ UNCHANGED <<serverMode, child, helper, elapsed, signalled, sandbox,
                     events, sup, handed, bridge, status, frontend, outcome>>
  BY DEF Sample, TypeOK, outer
<1>1. /\ AtEof \subseteq Streams /\ child # "none"
      /\ \A s \in AtEof : child # "running" /\ s \notin helper.holds
  BY <1>0 DEF AtEof, Pid1Sound
<1>2. /\ pid1' \in Pid1State /\ pid1'.at = "sampled"
      /\ pid1'.eof = pid1.eof \cup AtEof /\ pid1'.handoff = pid1.handoff
      /\ pid1'.locked = pid1.locked /\ pid1'.exit = pid1.exit
      /\ pid1'.rejected = pid1.rejected
  BY <1>0, <1>1 DEF Sample, Pid1State, TypeOK
<1>3. TypeOK'
  BY <1>0, <1>2 DEF TypeOK, Sample, Drained
<1>4. Pid1Sound'
  BY <1>0, <1>1, <1>2 DEF Pid1Sound, Pid1State
<1>5. NewsSound' /\ SupervisorSound'
  BY <1>0, <1>2, NewsUnchanged DEF NewsSound, SupervisorSound
<1> QED BY <1>3, <1>4, <1>5

\* What PID 1 decides about the child and its descendants.
LEMMA DecisionKeeps ==
  ASSUME AdaptiveInv,
         \/ Stopping \/ StillRunning \/ ForegroundExit \/ ChildFailed
         \/ NobodyLeft \/ Candidate \/ HandOff \/ Reject \/ Waits
  PROVE  AdaptiveInv'
<1> USE DEF AdaptiveInv
<1>0. /\ pid1 \in Pid1State /\ pid1.at = "sampled" /\ ~pid1.rejected
      /\ out \in {"none", "pipe", "relayed", "shown", "lost"}
      /\ Drained \in {"none", "pipe", "relayed", "shown", "lost"}
      /\ pid1.handoff => /\ pid1.exit = "zero" /\ pid1.eof = Streams
                         /\ ~pid1.locked
  BY DEF Stopping, StillRunning, ForegroundExit, ChildFailed, NobodyLeft,
         Candidate, HandOff, Reject, Waits, Succeeded, Decides, TypeOK,
         Pid1State, Pid1Sound, Drained
<1> DEFINE r == Polled
<1>1. /\ r \in Pid1State /\ r.exit = Exited
      /\ r.eof = pid1.eof /\ r.handoff = pid1.handoff
      /\ r.locked = pid1.locked /\ r.rejected = pid1.rejected
      /\ pid1.exit # "none" => Exited = pid1.exit
  BY PolledRecord
<1>2. CASE Stopping
  BY <1>0, <1>2, ReturnKeeps DEF Stopping, Events
<1>3. CASE StillRunning
  <2>1. Exited = "none" /\ ~pid1.handoff
    BY <1>0, <1>1, <1>3 DEF StillRunning
  <2>2. CASE Loop([pid1 EXCEPT !.locked = TRUE]) /\ Send("foreground-locked")
    <3> DEFINE l == [pid1 EXCEPT !.locked = TRUE]
    <3>1. /\ l \in Pid1State /\ l.eof = pid1.eof /\ l.rejected = pid1.rejected
          /\ l.handoff = pid1.handoff /\ l.locked
      BY <1>0 DEF Pid1State
    <3>2. Loop(l) /\ Send("foreground-locked")
      BY <2>2
    <3> HIDE DEF l
    <3> QED BY <1>0, <2>1, <3>1, <3>2, LoopKeeps
  <2>3. CASE Loop(pid1) /\ UNCHANGED events
    BY <1>0, <2>1, <2>3, LoopKeeps
  <2> QED BY <1>3, <2>2, <2>3 DEF StillRunning
<1>4. CASE ForegroundExit \/ ChildFailed \/ NobodyLeft
  <2> HIDE DEF r
  <2>1. \E e \in {"foreground-exited", "failed", "service-exited", "one-shot"} :
          Return(r, e, Drained)
    BY <1>4 DEF ForegroundExit, ChildFailed, NobodyLeft, r
  <2> QED BY <1>0, <1>1, <2>1, ReturnKeeps DEF Events
<1>5. CASE Candidate
  <2> DEFINE c == [Polled EXCEPT !.candidate = TRUE]
  <2>1. /\ c \in Pid1State /\ c.eof = r.eof /\ c.rejected = r.rejected
        /\ c.handoff = r.handoff /\ c.locked = r.locked /\ c.exit = r.exit
    BY <1>1 DEF Pid1State
  <2>2. Loop(c) /\ Send("handoff-candidate")
    BY <1>5 DEF Candidate
  <2> HIDE DEF c, r
  <2> QED BY <1>0, <1>1, <2>1, <2>2, LoopKeeps
<1>6. CASE HandOff
  <2> DEFINE h == [Polled EXCEPT !.handoff = TRUE]
  <2>1. /\ h \in Pid1State /\ h.eof = r.eof /\ h.rejected = r.rejected
        /\ h.handoff /\ h.locked = r.locked /\ h.exit = r.exit
    BY <1>1 DEF Pid1State
  <2>2. Loop(h) /\ Send("handoff")
    BY <1>6 DEF HandOff
  <2>3. Exited = "zero" /\ ~pid1.locked /\ pid1.eof = Streams
    BY <1>6 DEF HandOff, Succeeded, MayHandOff
  <2> HIDE DEF h, r
  <2> QED BY <1>0, <1>1, <2>1, <2>2, <2>3, LoopKeeps
<1>7. CASE Reject
  <2> DEFINE j == [Polled EXCEPT !.rejected = TRUE]
  <2>1. /\ j \in Pid1State /\ j.eof = r.eof /\ j.rejected
        /\ j.handoff = r.handoff /\ j.locked = r.locked /\ j.exit = r.exit
    BY <1>1 DEF Pid1State
  <2>2. Return(j, "handoff-rejected", out) /\ ~pid1.handoff
    BY <1>7 DEF Reject
  <2> HIDE DEF j, r
  <2> QED BY <1>0, <1>1, <2>1, <2>2, ReturnKeeps DEF Events
<1>8. CASE Waits
  <2>1. Loop(r) /\ UNCHANGED events
    BY <1>8 DEF Waits
  <2> HIDE DEF r
  <2> QED BY <1>0, <1>1, <2>1, LoopKeeps
<1> QED BY <1>2, <1>3, <1>4, <1>5, <1>6, <1>7, <1>8

\* Every step of PID 1.
LEMMA Pid1Keeps ==
  ASSUME AdaptiveInv, Pid1
  PROVE  AdaptiveInv'
  BY StartKeeps, SampleKeeps, DecisionKeeps DEF Pid1

----------------------------------------------------------------------------
(* The supervisor and the frontend. *)

\* The sandbox ends with whatever was in it; what PID 1 had decided stands.
LEMMA KilledKeeps ==
  ASSUME AdaptiveInv, Killed,
         sup' \in {"reaped", "crashed"},
         UNCHANGED <<handed, bridge, status, frontend, outcome>>
  PROVE  AdaptiveInv'
<1> USE DEF AdaptiveInv
<1>0. /\ sandbox' = FALSE
      /\ helper' = [alive |-> FALSE, holds |-> {}]
      /\ child' = IF child \in {"none", "running"} THEN "killed" ELSE child
      /\ out' = IF out \in {"pipe", "relayed"} THEN "lost" ELSE out
      /\ UNCHANGED <<serverMode, elapsed, signalled, events>>
  BY DEF Killed
<1>1. /\ pid1' \in Pid1State /\ pid1'.at = "returned"
      /\ pid1'.eof = pid1.eof /\ pid1'.handoff = pid1.handoff
      /\ pid1'.locked = pid1.locked /\ pid1'.exit = pid1.exit
      /\ pid1'.rejected = pid1.rejected
  BY DEF Killed, TypeOK, Pid1State
<1>2. TypeOK'
  BY <1>0, <1>1 DEF TypeOK
<1>3. Pid1Sound'
  BY <1>0, <1>1 DEF Pid1Sound
<1>4. NewsSound' /\ SupervisorSound'
  BY <1>0, <1>1, NewsUnchanged DEF NewsSound, SupervisorSound
<1> QED BY <1>2, <1>3, <1>4

\* The supervisor learns of a handoff only after PID 1 has let go of the
\* streams, and takes for a bridge only what PID 1 locked or rejected.
LEMMA ReadEventKeeps ==
  ASSUME AdaptiveInv, ReadEvent
  PROVE  AdaptiveInv'
<1> USE DEF AdaptiveInv
<1> DEFINE event == Head(events)
<1>0. /\ sup = "relay" /\ events' = Tail(events)
      /\ UNCHANGED <<serverMode, child, helper, elapsed, pid1, signalled,
                     sandbox, frontend, outcome>>
  BY DEF ReadEvent, inner
<1>1. /\ event \in Events /\ Sent(event) /\ events' \in Seq(Events)
      /\ \A f \in Events : Sent(f)' => Sent(f)
  BY SentAfterRead DEF ReadEvent, TypeOK
<1>2. /\ bridge' => bridge \/ (serverMode /\ (pid1.locked \/ pid1.rejected))
      /\ bridge => bridge'
  BY <1>1 DEF ReadEvent, MakesBridge, NewsSound
<1>3. \/ /\ event = "handoff" /\ handed' = TRUE /\ sup' = "waiting"
         /\ status' = "handoff" /\ out' = IF out = "relayed" THEN "lost" ELSE out
      \/ /\ event # "handoff" /\ UNCHANGED <<handed, sup, status, out>>
  BY DEF ReadEvent
<1>4. event = "handoff" => pid1.handoff
  BY <1>1 DEF NewsSound
<1> HIDE DEF event
<1>5. bridge' \in BOOLEAN
  <2>1. bridge' = (bridge \/ MakesBridge(event))
    BY DEF ReadEvent, event
  <2> QED BY <2>1
<1>6. TypeOK'
  <2>1. /\ handed' \in BOOLEAN /\ sup' \in {"relay", "waiting"}
        /\ status' \in {"none", "handoff", "finished"}
    BY <1>0, <1>3 DEF TypeOK
  <2>2. out' \in {"none", "pipe", "relayed", "shown", "lost"}
    BY <1>3 DEF TypeOK
  <2> QED BY <1>0, <1>1, <1>5, <2>1, <2>2 DEF TypeOK
<1>7. Pid1Sound'
  BY <1>0 DEF Pid1Sound
<1>8. NewsSound'
  BY <1>0, <1>1 DEF NewsSound, Events
<1>9. SupervisorSound'
  BY <1>0, <1>2, <1>3, <1>4 DEF SupervisorSound
<1> QED BY <1>6, <1>7, <1>8, <1>9

\* The other steps outside the sandbox leave PID 1 and its events alone.
LEMMA OutsideKeeps ==
  ASSUME AdaptiveInv,
         \/ Launch \/ LaunchFails \/ Relay \/ LoopEnds \/ Conclude
         \/ DiscardBridge \/ Report \/ BwrapExit
         \/ FrontendReturns \/ FrontendDies
  PROVE  AdaptiveInv'
<1> USE DEF AdaptiveInv
<1>0. UNCHANGED <<serverMode, child, helper, elapsed, pid1, signalled, events>>
  BY DEF Launch, LaunchFails, Relay, LoopEnds, Conclude, DiscardBridge, Report,
         BwrapExit, FrontendReturns, FrontendDies, Untouched, inner
<1>1. /\ UNCHANGED <<handed, bridge>>
      /\ sup' \in {"relay", "reaped", "concluded", "exited", sup}
      /\ sup' = "relay" => sup \in {"launch", "relay"}
      /\ status' = "handoff" => status = "handoff"
      /\ outcome' = "discarded" => outcome = "discarded" \/ bridge
  BY DEF Launch, LaunchFails, Relay, LoopEnds, Conclude, DiscardBridge, Report,
         BwrapExit, FrontendReturns, FrontendDies, Untouched, outer
<1>2. /\ out' \in {"none", "pipe", "relayed", "shown", "lost"}
      /\ sandbox' \in BOOLEAN
      /\ status' \in {"none", "handoff", "finished"}
      /\ frontend' \in {"waiting", "handed-off", "finished", "gone"}
      /\ outcome' \in {"none", "finalized", "discarded", "failed"}
  BY DEF Launch, LaunchFails, Relay, LoopEnds, Conclude, DiscardBridge, Report,
         BwrapExit, FrontendReturns, FrontendDies, Untouched, outer, TypeOK
<1>3. TypeOK'
  BY <1>0, <1>1, <1>2 DEF TypeOK
<1>4. Pid1Sound'
  BY <1>0 DEF Pid1Sound
<1>5. NewsSound' /\ SupervisorSound'
  BY <1>0, <1>1, NewsUnchanged DEF NewsSound, SupervisorSound
<1> QED BY <1>3, <1>4, <1>5

\* A crash of the supervisor, with or without a sandbox to take along.
LEMMA CrashKeeps ==
  ASSUME AdaptiveInv, Crash
  PROVE  AdaptiveInv'
<1> USE DEF AdaptiveInv
<1>0. sup' = "crashed" /\ UNCHANGED <<handed, bridge, status, frontend, outcome>>
  BY DEF Crash
<1>1. CASE Killed
  BY <1>0, <1>1, KilledKeeps
<1>2. CASE UNCHANGED <<serverMode, inner, out, sandbox, events>>
  <2>1. UNCHANGED <<serverMode, child, helper, elapsed, pid1, signalled, out,
                    sandbox, events>>
    BY <1>2 DEF inner
  <2> QED BY <1>0, <2>1, NewsUnchanged
          DEF TypeOK, Pid1Sound, NewsSound, SupervisorSound
<1> QED BY <1>1, <1>2 DEF Crash

\* Every step keeps the invariant.
LEMMA NextAdaptive == AdaptiveInv /\ [Next]_vars => AdaptiveInv'
<1> SUFFICES ASSUME AdaptiveInv, [Next]_vars
             PROVE  AdaptiveInv'
  OBVIOUS
<1>1. CASE UNCHANGED vars
  <2>1. UNCHANGED <<serverMode, child, helper, elapsed, pid1, signalled, out,
                    sandbox, events, sup, handed, bridge, status, frontend,
                    outcome>>
    BY <1>1 DEF vars, inner, outer
  <2> QED BY <2>1, NewsUnchanged
          DEF AdaptiveInv, TypeOK, Pid1Sound, NewsSound, SupervisorSound
<1>2. CASE Disconnected
  BY <1>2, KilledKeeps DEF Disconnected
<1>3. CASE Next /\ ~Disconnected
  BY <1>3, CommandKeeps, Pid1Keeps, ReadEventKeeps, OutsideKeeps, CrashKeeps
  DEF Next, Supervisor
<1> QED BY <1>1, <1>2, <1>3

\* The invariant holds throughout.
LEMMA AdaptiveInvHolds == Spec => []AdaptiveInv
  BY InitAdaptive, NextAdaptive, PTL DEF Spec

----------------------------------------------------------------------------
(* The results. *)

\* Type correctness of an adaptive run.
THEOREM TypeCorrectness == Spec => []TypeOK
<1>1. AdaptiveInv => TypeOK
  BY DEF AdaptiveInv
<1> QED BY <1>1, AdaptiveInvHolds, PTL

\* When the frontend returns because of a handoff (runner.py,
\* _adaptive_supervise_process), no process of the sandbox holds one of the
\* caller's output streams, and none will again.
THEOREM StreamsAreReleased == Spec => []HandoffReleasesStreams
<1>1. AdaptiveInv => HandoffReleasesStreams
  <2> SUFFICES ASSUME AdaptiveInv, status = "handoff"
               PROVE  child # "running" /\ helper.holds = {}
    BY DEF HandoffReleasesStreams
  <2>1. pid1.handoff /\ pid1.eof = Streams
    BY DEF AdaptiveInv, SupervisorSound, Pid1Sound
  <2>2. child # "running" /\ \A s \in Streams : s \notin helper.holds
    BY <2>1 DEF AdaptiveInv, Pid1Sound, Streams
  <2>3. helper.holds \subseteq Streams
    BY DEF AdaptiveInv, TypeOK
  <2> QED BY <2>2, <2>3
<1> QED BY <1>1, AdaptiveInvHolds, PTL

\* Branches are discarded (_discard_remote_bridge_session) only for a server
\* mode command that PID 1 locked to the foreground or rejected, and never
\* after a handoff.
THEOREM BridgesAlone == Spec => []OnlyBridgesAreDiscarded
<1>1. AdaptiveInv => OnlyBridgesAreDiscarded
  BY DEF AdaptiveInv, OnlyBridgesAreDiscarded, SupervisorSound, Pid1Sound
<1> QED BY <1>1, AdaptiveInvHolds, PTL

\* The sandbox of a handed-off service ends with PID 1 or with the supervisor,
\* never because the frontend is gone: the parent check of
\* _adaptive_supervise_process is not reached after a handoff.
THEOREM ServiceIsLeftAlone == Spec => HandedOffServiceIsLeftAlone
<1>1. AdaptiveInv /\ [Next]_vars
        => [sandbox /\ ~sandbox' /\ handed
              => pid1.at = "returned" \/ sup' = "crashed"]_vars
  <2> SUFFICES ASSUME AdaptiveInv, Next, sandbox, ~sandbox', handed
               PROVE  pid1.at = "returned" \/ sup' = "crashed"
    OBVIOUS
  <2>1. sup # "relay" /\ sup # "launch"
    BY DEF AdaptiveInv, SupervisorSound
  <2>2. CASE BwrapExit \/ Crash
    BY <2>2 DEF BwrapExit, Crash
  <2>3. CASE Pid1
    BY <2>3 DEF Pid1, Start, Sample, Stopping, StillRunning, ForegroundExit,
                ChildFailed, NobodyLeft, Candidate, HandOff, Reject, Waits,
                Return, Loop
  <2>4. CASE Supervisor
    BY <2>1, <2>4 DEF Supervisor, Launch, LaunchFails, Disconnected,
                      MindsFrontend, Relay, ReadEvent, LoopEnds, Conclude,
                      DiscardBridge, Report, Untouched
  <2>5. CASE \/ Write \/ Fork \/ ChildExit \/ HelperReleases \/ HelperExit
             \/ Signal \/ (\E t \in Timers : Elapse(t))
             \/ FrontendReturns \/ FrontendDies
    BY <2>5 DEF Write, Fork, ChildExit, HelperReleases, HelperExit, Signal,
                Elapse, FrontendReturns, FrontendDies, Environment, Untouched
  <2> QED BY <2>2, <2>3, <2>4, <2>5 DEF Next
<1> QED BY <1>1, AdaptiveInvHolds, PTL DEF Spec, HandedOffServiceIsLeftAlone
============================================================================
