----------------------------- MODULE CodexRoots -----------------------------
(***************************************************************************)
(* Root synchronisation of Codex: PID 1 relays the JSONL protocol between  *)
(* the user's client and `codex app-server' and observes both directions   *)
(* (CodexWorkspaceMonitor, and the two runners that drive it).             *)
(*                                                                         *)
(* One thread relays requests, another responses; the app-server answers   *)
(* requests in any order.  A response is shown to the client only after    *)
(* the supervisor has answered the update it causes.  A request is known   *)
(* by its sequence number; requests that the monitor does not track change *)
(* nothing and are left out.                                               *)
(***************************************************************************)
EXTENDS RootRecords, Sequences

CONSTANTS
  Methods,      \* tracked methods in use
  MaxRequests,  \* bound on tracked requests
  NoThread

Grants == {"thread/start", "thread/resume", "thread/fork", "turn/start"}
Ends   == {"thread/archive", "thread/delete"}

ASSUME CodexAssumption ==
  /\ Methods \subseteq Grants \cup Ends
  /\ MaxRequests \in Nat
  /\ NoThread \notin Threads

VARIABLES
  runner,      \* PID 1
  requests,    \* tracked requests, by sequence number, with their responses
  forwarded,   \* how many of them the app-server has
  pending,     \* _pending
  stdout,      \* responses PID 1 has not read
  versions,    \* _thread_versions
  confirming,  \* the update whose confirmation PID 1 awaits, 0 for none
  shown,       \* responses that have reached the client
  unconfirmed  \* history: updates the supervisor refused

codex == <<runner, requests, forwarded, pending, stdout, versions, confirming,
           shown, unconfirmed>>

Runner == [kind : {"adaptive", "foreground"},
           trusted : BOOLEAN,   \* registered its client and hardened itself
           alive : BOOLEAN]

\* `target' is the thread id of the response; `rooted' says that the request,
\* the response or the launch contributes a directory (_paths, _launch).
Tracked == [method : Grants \cup Ends, thread : Threads \cup {NoThread},
            answer : {"none", "error", "ok"},
            target : Threads \cup {NoThread}, rooted : BOOLEAN]

CodexInit ==
  /\ runner \in {r \in Runner : r.alive}
  /\ requests = <<>> /\ forwarded = 0
  /\ pending = {} /\ stdout = <<>>
  /\ versions = [t \in Threads |-> 0]
  /\ confirming = 0
  /\ shown = {} /\ unconfirmed = {}

----------------------------------------------------------------------------
(* Requests: _forward_codex_input, forward_app_server_input. *)

\* observe_client, before the line is passed on.
ObserveClient(method, t) ==
  /\ runner.alive
  /\ Len(requests) < MaxRequests /\ forwarded = Len(requests)
  /\ method = "thread/start" <=> t = NoThread
  /\ requests' = Append(requests,
       [method |-> method, thread |-> t, answer |-> "none",
        target |-> NoThread, rooted |-> FALSE])
  /\ pending' = pending \cup {Len(requests) + 1}
  /\ UNCHANGED <<records, runner, forwarded, stdout, versions, confirming,
                 shown, unconfirmed>>

ForwardRequest ==
  /\ runner.alive /\ forwarded < Len(requests)
  /\ forwarded' = forwarded + 1
  /\ UNCHANGED <<records, runner, requests, pending, stdout, versions,
                 confirming, shown, unconfirmed>>

----------------------------------------------------------------------------
(* Responses: observe_server and the two observers. *)

\* The thread an answered request is about.
Thread(q) == IF q.method = "thread/fork" \/ q.thread = NoThread
             THEN q.target ELSE q.thread

\* It succeeded, and is complete enough to change the thread's roots.
Concerns(q) ==
  q.answer = "ok" /\ Thread(q) # NoThread /\ (q.method \in Ends \/ q.rooted)

\* A thread id nobody has used yet.
Unused(t) == \A i \in DOMAIN requests : t \notin {requests[i].thread, requests[i].target}

\* The app-server carries out a request, or refuses it; an answer may lack
\* the new thread.
AppServerAnswers(i) ==
  LET q == requests[i] IN
  /\ runner.alive /\ i <= forwarded /\ q.answer = "none"
  /\ \E verdict \in {"ok", "error"}, t \in Threads \cup {NoThread}, r \in BOOLEAN :
       /\ verdict = "error" => t = NoThread /\ ~r
       /\ t # NoThread => q.method \in {"thread/start", "thread/fork"} /\ Unused(t)
       /\ q.method \in Ends => ~r
       /\ requests' = [requests EXCEPT ![i] =
            [q EXCEPT !.answer = verdict, !.target = t, !.rooted = r]]
  /\ LET done == requests'[i] IN
       IF Concerns(done) THEN States(Thread(done), i) ELSE UNCHANGED stated
  /\ stdout' = Append(stdout, i)
  /\ UNCHANGED <<record, heard, runner, forwarded, pending, versions, confirming,
                 shown, unconfirmed>>

\* observe_server: an older response changes nothing.
Updates(i) ==
  /\ i \in pending /\ Concerns(requests[i])
  /\ i >= versions[Thread(requests[i])]

\* Mutant: the response is passed on before it is confirmed.
WithholdsNothing(i) == FALSE

\* Confirmed first: only an adaptive runner knows how to ask.  The embedded
\* one takes the update for a list of paths and rejects it.
Confirms(i) == Updates(i) /\ runner.trusted /\ runner.kind = "adaptive"
Withholds(i) == Confirms(i)

ObserveServer ==
  LET i == Head(stdout) IN
  /\ runner.alive /\ confirming = 0 /\ stdout # <<>>
  /\ stdout' = Tail(stdout)
  /\ pending' = pending \ {i}
  /\ versions' = IF Updates(i)
       THEN [versions EXCEPT ![Thread(requests[i])] = i] ELSE versions
  /\ confirming' = IF Confirms(i) THEN i ELSE 0
  /\ shown' = IF Withholds(i) THEN shown ELSE shown \cup {i}
  /\ UNCHANGED <<records, runner, requests, forwarded, unconfirmed>>

\* The supervisor carries out the update; PID 1, if it still waits, passes the
\* response on.
Accepted ==
  LET q == requests[confirming] IN
  /\ confirming # 0
  /\ IF q.method \in Ends
     THEN Replace(Thread(q), confirming, 0, "ended", confirming)
     ELSE Replace(Thread(q), confirming, confirming, "active", confirming)
  /\ confirming' = 0
  /\ shown' = IF runner.alive THEN shown \cup {confirming} ELSE shown
  /\ UNCHANGED <<runner, requests, forwarded, pending, stdout, versions,
                 unconfirmed>>

\* A directory is inadmissible, or a descriptor table readable.
Refused ==
  /\ runner.alive /\ confirming # 0
  /\ confirming' = 0
  /\ shown' = shown \cup {confirming}
  /\ unconfirmed' = unconfirmed \cup {confirming}
  /\ UNCHANGED <<records, runner, requests, forwarded, pending, stdout, versions>>

\* No answer for five seconds: the error is no RuntimeError, nobody catches it
\* and PID 1 ends; the supervisor may still carry the update out.
ConfirmTimesOut ==
  /\ runner.alive /\ confirming # 0
  /\ runner' = [runner EXCEPT !.alive = FALSE]
  /\ confirming' \in {0, confirming}
  /\ UNCHANGED <<records, requests, forwarded, pending, stdout, versions, shown,
                 unconfirmed>>

CodexNext ==
  \/ \E m \in Methods, t \in Threads \cup {NoThread} : ObserveClient(m, t)
  \/ ForwardRequest
  \/ \E i \in 1..Len(requests) : AppServerAnswers(i)
  \/ ObserveServer \/ Accepted \/ Refused \/ ConfirmTimesOut

CodexTypeOK ==
  /\ runner \in Runner
  /\ requests \in Seq(Tracked)
  /\ forwarded \in 0..Len(requests)
  /\ pending \subseteq 1..MaxRequests
  /\ stdout \in Seq(1..MaxRequests)
  /\ versions \in [Threads -> 0..MaxRequests]
  /\ confirming \in 0..MaxRequests
  /\ shown \subseteq 1..MaxRequests /\ unconfirmed \subseteq 1..MaxRequests

============================================================================
