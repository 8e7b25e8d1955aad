--------------------------- MODULE RootSyncProofs ---------------------------
(* Proofs about RootSync: for any number of threads, conversations, changes *)
(* and requests, each of the three ways a client's roots reach the          *)
(* supervisor implements RootRegister, whatever is overtaken, refused,      *)
(* timed out or lost on the way.                                            *)
EXTENDS RootSync, TLAPS

----------------------------------------------------------------------------
(* The inductive invariant, by kind of client. *)

\* Positions in the server's stdin that hold an answer to roots/list.
Answers ==
  {k \in 1..Len(toServer) : toServer[k].kind \in {"roots", "error"}}

\* At most one roots/list is under way: asked for, about to be answered, or
\* answered; and the server knows (_pending_roots_id).
OneListUnderWay ==
  /\ \A k, l \in Answers : k = l
  /\ Message("roots", 0) \in asks => snapshot = -1 /\ Answers = {}
  /\ snapshot # -1 => Answers = {}
  /\ \/ Message("roots", 0) \in asks \/ snapshot # -1 \/ Answers # {}
     => server.pending

\* Versions travel in order: an announcement is never older than what was sent
\* before it or heard of, and a list is, only if a refresh is pending.
VersionsInOrder ==
  /\ stated[RootSet] = 0..roots
  /\ heard[RootSet] <= roots /\ snapshot <= roots
  /\ \A k \in 1..Len(toServer) :
       toServer[k].kind \in {"changed", "roots"} => toServer[k].v <= roots
  /\ \A k, l \in 1..Len(toServer) :
       /\ k < l /\ toServer[l].kind = "changed"
       /\ toServer[k].kind \in {"changed", "roots"}
       => toServer[k].v <= toServer[l].v
  /\ \A k \in 1..Len(toServer) :
       toServer[k].kind = "changed" => toServer[k].v >= heard[RootSet]
  /\ server.at # "gone" /\ ~server.refresh =>
       /\ \A k \in 1..Len(toServer) :
            toServer[k].kind = "roots" => toServer[k].v >= heard[RootSet]
       /\ snapshot # -1 => snapshot >= heard[RootSet]

McpSound == OneListUnderWay /\ VersionsInOrder

\* The supervisor has heard of nothing newer than the generation it keeps.
GenerationsSound(ss) ==
  \A s \in ss :
    heard[s] <= record[s].generation /\ (record[s].state = "none" => heard[s] = 0)

Answered(i) == i \in 1..Len(requests) /\ requests[i].answer # "none"

\* The requests PID 1 tracks: unanswered ones are pending, answers it has not
\* read are pending too and come once, and what succeeded was stated.
RequestsSound ==
  /\ \A i \in 1..Len(requests) :
       /\ requests[i].answer = "none" => i \in pending
       /\ Concerns(requests[i]) => i \in stated[Thread(requests[i])]
  /\ \A k \in 1..Len(stdout) : Answered(stdout[k]) /\ stdout[k] \in pending
  /\ \A k, l \in 1..Len(stdout) : stdout[k] = stdout[l] => k = l
  /\ \A i \in shown \cup unconfirmed : Answered(i)
  /\ confirming # 0 =>
       /\ Answered(confirming) /\ Concerns(requests[confirming])
       /\ versions[Thread(requests[confirming])] = confirming

\* The roots of thread t as of request i were accepted or refused, or newer
\* ones were.
Settled(t, i) ==
  \/ heard[t] >= i
  \/ \E j \in unconfirmed : j >= i /\ Thread(requests[j]) = t

\* The version PID 1 remembers of a thread is settled, or is being confirmed.
VersionsSettled ==
  runner.alive /\ runner.kind = "adaptive" /\ runner.trusted =>
    \A t \in Threads :
      \/ Settled(t, versions[t])
      \/ confirming # 0 /\ versions[t] = confirming
           /\ Thread(requests[confirming]) = t

CodexSound ==
  GenerationsSound(Threads) /\ RequestsSound /\ VersionsSettled /\ ShownIsSettled

\* What was sent is what was stated; a record is about a statement.
StatementsSound ==
  /\ \A c \in Conversations :
       /\ stated[c] = 0..Len(statements[c])
       /\ InForce[c] \in 0..Len(statements[c])
  /\ \A k \in 1..Len(wire) :
       LET e == wire[k] IN
       /\ e.generation <= Len(statements[e.conversation])
       /\ statements[e.conversation][e.generation] = e.workspace

\* As long as no answer got lost there is at most one request under way, and
\* the plugin remembers what is in force unless that is about to end or its
\* end was turned down.
KnownOrEnding ==
  channel \in {"none", "open"} =>
    /\ \/ call = {} /\ wire = <<>>
       \/ channel = "open" /\ \E e \in Statement : call = {e} /\ wire = <<e>>
    /\ channel = "none" => \A c \in Conversations : InForce[c] = 0
    /\ \A c \in Conversations :
         InForce[c] # 0 =>
           \/ confirmed[c] = statements[c][InForce[c]]
           \/ \E e \in call : e.conversation = c /\ e.state = "ended"
           \/ c \in unended

HermesSound ==
  GenerationsSound(Conversations) /\ StatementsSound /\ KnownOrEnding

\* A session has one kind of client; nothing happens at the other two.
SyncInv ==
  /\ TypeOK /\ Len(requests) <= MaxRequests
  /\ client = "claude" => McpSound
  /\ IF client = "codex" THEN CodexSound ELSE shown = {}
  /\ IF client = "hermes" THEN HermesSound
     ELSE \A c \in Conversations : record[c].state = "none"

----------------------------------------------------------------------------
(* The records, and the steps of the register they implement. *)

\* The roots in force of every session, as a register holds them.
LEMMA InForceTyped ==
  ASSUME RecordsTypeOK
  PROVE  InForce \in [Sessions -> Nat]
  BY DEF RecordsTypeOK, InForce, Record

\* A step that leaves the records alone leaves the register alone.
LEMMA StutterStep ==
  ASSUME RecordsTypeOK, UNCHANGED records
  PROVE  RecordsTypeOK' /\ UNCHANGED Register!vars
  BY DEF RecordsTypeOK, records, Register!vars, InForce

\* A client that decides on roots makes the register's State step.
LEMMA StateStep ==
  ASSUME RecordsTypeOK, NEW s \in Sessions,
         NEW v \in 0..(MaxChanges + MaxRequests + MaxGenerations),
         States(s, v), UNCHANGED <<record, heard>>
  PROVE  /\ RecordsTypeOK' /\ Register!Next
         /\ stated'[s] = stated[s] \cup {v}
         /\ \A t \in Sessions : stated[t] \subseteq stated'[t]
         /\ \A t \in Sessions : t # s => stated'[t] = stated[t]
<1>1. v \in Nat
  BY McpAssumption, CodexAssumption, HermesAssumption
<1>2. RecordsTypeOK'
  BY <1>1 DEF RecordsTypeOK, States
<1>3. UNCHANGED InForce
  BY DEF InForce
<1>4. Register!State(s, v)
  BY <1>3 DEF Register!State, States
<1>5. Register!Next
  BY <1>4 DEF Register!Next
<1> QED BY <1>2, <1>5 DEF RecordsTypeOK, States

\* An update the supervisor accepts makes the register's Hear step, if it is
\* about a version that was stated and is not older than what it has heard of
\* (replace_workspace_session).
LEMMA HearStep ==
  ASSUME RecordsTypeOK, NEW s \in Sessions, NEW g \in Nat,
         NEW about \in stated[s], about >= heard[s],
         NEW v \in {0, about}, NEW st \in {"active", "ended"},
         st = "ended" => v = 0,
         Replace(s, g, v, st, about)
  PROVE  /\ RecordsTypeOK' /\ Register!Next
         /\ record'[s] = [state |-> st, generation |-> g, version |-> v]
         /\ heard'[s] = about
         /\ InForce'[s] = v
         /\ \A t \in Sessions : t # s =>
              /\ record'[t] = record[t] /\ heard'[t] = heard[t]
              /\ InForce'[t] = InForce[t]
<1>1. about \in Nat /\ v \in Nat
  BY DEF RecordsTypeOK
<1>2. [state |-> st, generation |-> g, version |-> v] \in Record
  BY <1>1 DEF Record
<1>3. RecordsTypeOK'
  BY <1>1, <1>2 DEF RecordsTypeOK, Replace
<1>4. /\ record'[s] = [state |-> st, generation |-> g, version |-> v]
      /\ heard'[s] = about
      /\ \A t \in Sessions : t # s =>
           record'[t] = record[t] /\ heard'[t] = heard[t]
  BY DEF RecordsTypeOK, Replace
<1>5. /\ InForce'[s] = v
      /\ \A t \in Sessions : t # s => InForce'[t] = InForce[t]
  BY <1>4 DEF InForce
<1>6. InForce' = [InForce EXCEPT ![s] = v]
  <2>1. InForce \in [Sessions -> Nat] /\ InForce' \in [Sessions -> Nat]
    BY <1>3, InForceTyped DEF InForce, RecordsTypeOK, Record
  <2> QED BY <2>1, <1>5
<1>7. Register!Hear(s, about)
  BY <1>6 DEF Register!Hear, Replace
<1>8. Register!Next
  BY <1>7 DEF Register!Next
<1> QED BY <1>3, <1>4, <1>5, <1>8

\* A revocation makes the register's Withdraw step.
LEMMA WithdrawStep ==
  ASSUME RecordsTypeOK, NEW ss \in SUBSET Sessions, Withdraw(ss)
  PROVE  /\ RecordsTypeOK' /\ Register!Next
         /\ \A t \in Sessions :
              /\ InForce'[t] \in {0, InForce[t]}
              /\ record'[t].generation >= record[t].generation
              /\ record'[t].state = "none" <=> record[t].state = "none"
              /\ t \notin ss => record'[t] = record[t]
<1>1. record' = [s \in Sessions |->
        IF s \in ss /\ record[s].state = "active"
        THEN [state |-> "ended", generation |-> record[s].generation + 1,
              version |-> 0]
        ELSE record[s]]
  BY DEF Withdraw
<1>2. \A s \in Sessions :
        /\ record[s] \in Record
        /\ [state |-> "ended", generation |-> record[s].generation + 1,
            version |-> 0] \in Record
  BY DEF RecordsTypeOK, Record
<1>3. RecordsTypeOK'
  BY <1>1, <1>2 DEF RecordsTypeOK, Withdraw
<1>4. InForce' = [s \in Sessions |-> IF s \in ss THEN 0 ELSE InForce[s]]
  <2>1. \A s \in Sessions :
          (IF record'[s].state = "active" THEN record'[s].version ELSE 0)
          = IF s \in ss THEN 0
            ELSE IF record[s].state = "active" THEN record[s].version ELSE 0
    BY <1>1
  <2> QED BY <2>1 DEF InForce
<1>5. Register!Withdraw(ss)
  BY <1>4 DEF Register!Withdraw, Withdraw
<1>6. Register!Next
  BY <1>5 DEF Register!Next
<1>7. \A t \in Sessions :
        /\ record'[t].generation >= record[t].generation
        /\ record'[t].state = "none" <=> record[t].state = "none"
        /\ t \notin ss => record'[t] = record[t]
  BY <1>1, <1>2 DEF Record
<1> QED BY <1>3, <1>4, <1>6, <1>7 DEF InForce

----------------------------------------------------------------------------
(* Queues. *)

\* Taking the head of a queue.
LEMMA QueueAfterRead ==
  ASSUME NEW S, NEW q \in Seq(S), q # <<>>
  PROVE  /\ Tail(q) \in Seq(S) /\ Head(q) \in S /\ Head(q) = q[1]
         /\ Len(q) \in Nat /\ 1 \in 1..Len(q) /\ Len(Tail(q)) = Len(q) - 1
         /\ \A k \in 1..Len(Tail(q)) :
              k + 1 \in 1..Len(q) /\ Tail(q)[k] = q[k + 1]
  OBVIOUS

\* Adding to a queue.
LEMMA QueueAfterSend ==
  ASSUME NEW S, NEW q \in Seq(S), NEW e \in S
  PROVE  /\ Append(q, e) \in Seq(S)
         /\ Len(q) \in Nat /\ Len(Append(q, e)) = Len(q) + 1
         /\ Append(q, e)[Len(q) + 1] = e
         /\ \A k \in 1..Len(q) : Append(q, e)[k] = q[k]
         /\ 1..Len(Append(q, e)) = 1..Len(q) \cup {Len(q) + 1}
  OBVIOUS

----------------------------------------------------------------------------
(* Claude: the MCP server and its client. *)

MessageKinds == {"initialize", "initialized", "changed", "roots", "error",
                 "call", "answer"}
Messages == [kind : MessageKinds, v : Nat]

\* What is left in stdin once the server has read a line: no second answer, if
\* that was one.
LEMMA ListAfterRead ==
  ASSUME McpTypeOK, OneListUnderWay, toServer # <<>>, toServer' = Tail(toServer)
  PROVE  /\ \A k, l \in Answers' : k = l
         /\ Answers' # {} => Answers # {}
         /\ Head(toServer).kind \in {"roots", "error"} =>
              /\ Answers' = {} /\ snapshot = -1
              /\ Message("roots", 0) \notin asks /\ server.pending
<1>1. toServer \in Seq(Messages)
  BY DEF McpTypeOK, Messages, MessageKinds
<1>2. /\ Head(toServer) = toServer[1] /\ 1 \in 1..Len(toServer)
      /\ Len(toServer) \in Nat /\ Len(toServer') = Len(toServer) - 1
      /\ \A k \in 1..Len(toServer') :
           k + 1 \in 1..Len(toServer) /\ toServer'[k] = toServer[k + 1]
  BY <1>1, QueueAfterRead
<1>3. Answers' = {k \in 1..Len(toServer') : toServer'[k].kind \in {"roots", "error"}}
  BY DEF Answers
<1>4. \A k \in Answers' : k \in Nat /\ k >= 1 /\ k + 1 \in Answers
  BY <1>2, <1>3 DEF Answers
<1>5. \A k, l \in Answers' : k = l
  <2>1. \A k, l \in Answers' : k + 1 = l + 1
    BY <1>4 DEF OneListUnderWay
  <2> QED BY <2>1, <1>4
<1>6. ASSUME Head(toServer).kind \in {"roots", "error"}
      PROVE  /\ Answers' = {} /\ snapshot = -1
             /\ Message("roots", 0) \notin asks /\ server.pending
  <2>1. 1 \in Answers
    BY <1>2, <1>6 DEF Answers
  <2>2. \A k \in Answers' : k + 1 = 1
    BY <1>4, <2>1 DEF OneListUnderWay
  <2> QED BY <1>4, <2>1, <2>2 DEF OneListUnderWay
<1> QED BY <1>4, <1>5, <1>6

\* The order of versions, once the server has read a line.  What it has heard
\* of may become the version of that line.
LEMMA OrderAfterRead ==
  ASSUME McpTypeOK, RecordsTypeOK, VersionsInOrder,
         toServer # <<>>, toServer' = Tail(toServer),
         UNCHANGED <<roots, snapshot, stated>>,
         \/ heard'[RootSet] = heard[RootSet]
         \/ /\ heard'[RootSet] = Head(toServer).v
            /\ Head(toServer).kind \in {"changed", "roots"},
         server'.at # "gone" /\ ~server'.refresh =>
           \/ /\ heard'[RootSet] = heard[RootSet]
              /\ server.at # "gone" /\ ~server.refresh
           \/ Answers' = {} /\ snapshot = -1
  PROVE  VersionsInOrder'
<1>1. toServer \in Seq(Messages)
  BY DEF McpTypeOK, Messages, MessageKinds
<1>2. /\ Head(toServer) = toServer[1] /\ 1 \in 1..Len(toServer)
      /\ Len(toServer) \in Nat /\ Len(toServer') = Len(toServer) - 1
      /\ \A k \in 1..Len(toServer') :
           k + 1 \in 1..Len(toServer) /\ toServer'[k] = toServer[k + 1]
  BY <1>1, QueueAfterRead
<1>3. /\ roots \in Nat /\ heard[RootSet] \in Nat
      /\ \A k \in 1..Len(toServer) : toServer[k].v \in Nat
  <2>1. roots \in Nat /\ heard[RootSet] \in Nat
    BY McpAssumption DEF McpTypeOK, RecordsTypeOK, Sessions
  <2>2. \A k \in 1..Len(toServer) : toServer[k] \in Messages
    BY <1>1
  <2> QED BY <2>1, <2>2 DEF Messages
<1>4. heard'[RootSet] <= roots'
  BY <1>2, <1>3 DEF VersionsInOrder
<1>5. \A k \in 1..Len(toServer') :
        toServer'[k].kind \in {"changed", "roots"} => toServer'[k].v <= roots'
  BY <1>2, <1>3 DEF VersionsInOrder
<1>6. \A k, l \in 1..Len(toServer') :
        /\ k < l /\ toServer'[l].kind = "changed"
        /\ toServer'[k].kind \in {"changed", "roots"}
        => toServer'[k].v <= toServer'[l].v
  <2> TAKE k, l \in 1..Len(toServer')
  <2>1. k + 1 \in 1..Len(toServer) /\ l + 1 \in 1..Len(toServer)
    BY <1>2
  <2>2. k < l => k + 1 < l + 1
    BY <1>2
  <2>3. toServer'[k] = toServer[k + 1] /\ toServer'[l] = toServer[l + 1]
    BY <1>2
  <2> QED BY <2>1, <2>2, <2>3 DEF VersionsInOrder
<1>7. \A k \in 1..Len(toServer') :
        toServer'[k].kind = "changed" => toServer'[k].v >= heard'[RootSet]
  <2> SUFFICES ASSUME NEW k \in 1..Len(toServer'), toServer'[k].kind = "changed"
               PROVE  toServer'[k].v >= heard'[RootSet]
    OBVIOUS
  <2>1. k + 1 \in 1..Len(toServer) /\ 1 < k + 1 /\ toServer'[k] = toServer[k + 1]
    BY <1>2
  <2>2. CASE heard'[RootSet] = heard[RootSet]
    BY <2>1, <2>2 DEF VersionsInOrder
  <2>3. CASE /\ heard'[RootSet] = Head(toServer).v
             /\ Head(toServer).kind \in {"changed", "roots"}
    <3>1. toServer[1].v <= toServer[k + 1].v
      BY <1>2, <2>1, <2>3 DEF VersionsInOrder
    <3> QED BY <1>2, <1>3, <2>1, <2>3, <3>1
  <2> QED BY <2>2, <2>3
<1>8. ASSUME server'.at # "gone", ~server'.refresh
      PROVE  /\ \A k \in 1..Len(toServer') :
                  toServer'[k].kind = "roots" => toServer'[k].v >= heard'[RootSet]
             /\ snapshot' # -1 => snapshot' >= heard'[RootSet]
  <2>1. CASE /\ heard'[RootSet] = heard[RootSet]
             /\ server.at # "gone" /\ ~server.refresh
    BY <1>2, <2>1 DEF VersionsInOrder
  <2>2. CASE Answers' = {} /\ snapshot = -1
    BY <2>2 DEF Answers
  <2> QED BY <1>8, <2>1, <2>2
<1>9. stated'[RootSet] = 0..roots' /\ snapshot' <= roots'
  BY DEF VersionsInOrder
<1> QED BY <1>4, <1>5, <1>6, <1>7, <1>8, <1>9 DEF VersionsInOrder

Asks == [kind : {"roots", "elicit"}, v : Nat]

McpState == RecordsTypeOK /\ McpTypeOK /\ McpSound

\* What a step of Claude's client or of its MCP server must leave behind.
McpKeeps ==
  /\ McpState'
  /\ Register!Next \/ UNCHANGED Register!vars
  /\ \A c \in Conversations : record'[c] = record[c]

\* No list is under way, as far as the client is concerned.
NoneUnderWay == Answers = {} /\ snapshot = -1 /\ Message("roots", 0) \notin asks

\* The server has read a line, and asks for nothing new.
LEMMA ReadKeeps ==
  ASSUME McpState, toServer # <<>>, toServer' = Tail(toServer),
         UNCHANGED <<roots, owes, snapshot, calls, stated>>,
         server' \in Server, asks' \subseteq Asks, RecordsTypeOK',
         \/ heard'[RootSet] = heard[RootSet]
         \/ /\ heard'[RootSet] = Head(toServer).v
            /\ Head(toServer).kind \in {"changed", "roots"},
         server'.at # "gone" /\ ~server'.refresh =>
           \/ /\ heard'[RootSet] = heard[RootSet]
              /\ server.at # "gone" /\ ~server.refresh
           \/ Answers' = {} /\ snapshot = -1,
         \/ /\ Message("roots", 0) \in asks' <=> Message("roots", 0) \in asks
            /\ server.pending => server'.pending
         \/ NoneUnderWay'
         \/ server'.pending /\ Answers' = {} /\ snapshot = -1
  PROVE  McpState'
<1>1. McpTypeOK'
  <2>1. toServer' \in Seq(Messages)
    BY QueueAfterRead DEF McpState, McpTypeOK, Messages, MessageKinds
  <2> QED BY <2>1 DEF McpState, McpTypeOK, Asks, Messages, MessageKinds
<1>2. VersionsInOrder'
  BY OrderAfterRead DEF McpState, McpSound
<1>3. /\ \A k, l \in Answers' : k = l
      /\ Answers' # {} => Answers # {}
  BY ListAfterRead DEF McpState, McpSound
<1>4. OneListUnderWay'
  <2>1. CASE /\ Message("roots", 0) \in asks' <=> Message("roots", 0) \in asks
             /\ server.pending => server'.pending
    BY <1>3, <2>1 DEF McpState, McpSound, OneListUnderWay, Message
  <2>2. CASE NoneUnderWay'
    BY <2>2, <1>3 DEF NoneUnderWay, OneListUnderWay, Message
  <2>3. CASE server'.pending /\ Answers' = {} /\ snapshot = -1
    BY <2>3, <1>3 DEF OneListUnderWay, Message
  <2> QED BY <2>1, <2>2, <2>3
<1> QED BY <1>1, <1>2, <1>4 DEF McpState, McpSound

\* _request_roots: a list is asked for if none is pending; otherwise the one
\* that is will be asked for again.
LEMMA RequestAsks ==
  ASSUME NEW s \in Server, asks \subseteq Asks,
         ~s.pending => Answers' = {} /\ snapshot = -1
  PROVE  /\ Request(s) \in Server /\ Asking(s) \subseteq Asks
         /\ Request(s).at = s.at
         /\ ~Request(s).refresh => ~s.refresh
         /\ ~Request(s).refresh /\ s.authorized => Answers' = {} /\ snapshot = -1
         /\ s.pending => Request(s).pending /\ Asking(s) = asks
         /\ ~s.pending => \/ Asking(s) = asks /\ ~Request(s).pending
                          \/ Request(s).pending /\ Answers' = {} /\ snapshot = -1
<1>1. Message("roots", 0) \in Asks
  BY DEF Message, Asks
<1>2. Request(s) \in Server /\ Request(s).at = s.at
  BY DEF Request, Server
<1>3. CASE ~s.authorized
  BY <1>1, <1>2, <1>3 DEF Request, Asking
<1>4. CASE s.authorized /\ s.pending
  <2>1. Request(s).refresh /\ Request(s).pending
    BY <1>4 DEF Request, Server
  <2> QED BY <1>1, <1>2, <1>4, <2>1 DEF Asking
<1>5. CASE s.authorized /\ ~s.pending
  <2>1. Request(s).pending /\ Request(s).refresh = s.refresh
    BY <1>5 DEF Request, Server
  <2> QED BY <1>1, <1>2, <1>5, <2>1 DEF Asking
<1> QED BY <1>3, <1>4, <1>5

\* The client announces a change, calls a tool or answers a question: no list
\* is involved.
LEMMA ClientSends ==
  ASSUME McpState, NEW kind \in {"changed", "call", "answer"}, NEW v \in Nat,
         kind = "changed" => v = roots, Sends(kind, v),
         UNCHANGED <<records, roots, snapshot, server>>,
         owes' \in BOOLEAN, calls' \in 0..MaxCalls, asks' \subseteq Asks,
         Message("roots", 0) \in asks' <=> Message("roots", 0) \in asks
  PROVE  McpState'
<1> DEFINE m == Message(kind, v)
<1>1. toServer \in Seq(Messages) /\ m \in Messages /\ m.kind = kind /\ m.v = v
  BY DEF McpState, McpTypeOK, Messages, MessageKinds, Message
<1>2. toServer' = Append(toServer, m)
  BY DEF Sends
<1> HIDE DEF m
<1>3. /\ toServer' \in Seq(Messages)
      /\ Len(toServer) \in Nat /\ Len(toServer') = Len(toServer) + 1
      /\ toServer'[Len(toServer) + 1] = m
      /\ \A k \in 1..Len(toServer) : toServer'[k] = toServer[k]
      /\ 1..Len(toServer') = 1..Len(toServer) \cup {Len(toServer) + 1}
  BY <1>1, <1>2, QueueAfterSend
<1>4. RecordsTypeOK' /\ McpTypeOK'
  BY <1>3, StutterStep DEF McpState, McpTypeOK, Asks, Messages, MessageKinds
<1>5. OneListUnderWay'
  <2>1. Answers' = Answers
    BY <1>1, <1>3 DEF Answers
  <2> QED BY <2>1 DEF McpState, McpSound, OneListUnderWay, Message
<1>6. roots \in Nat /\ heard[RootSet] \in Nat /\ heard[RootSet] <= roots
  BY McpAssumption
  DEF McpState, McpTypeOK, RecordsTypeOK, Sessions, McpSound, VersionsInOrder
<1>7. VersionsInOrder'
  <2>1. \A k \in 1..Len(toServer') :
          toServer'[k].kind \in {"changed", "roots"} => toServer'[k].v <= roots
    BY <1>1, <1>3, <1>6 DEF McpState, McpSound, VersionsInOrder
  <2>2. \A k, l \in 1..Len(toServer') :
          /\ k < l /\ toServer'[l].kind = "changed"
          /\ toServer'[k].kind \in {"changed", "roots"}
          => toServer'[k].v <= toServer'[l].v
    <3> SUFFICES ASSUME NEW k \in 1..Len(toServer'), NEW l \in 1..Len(toServer'),
                        k < l, toServer'[l].kind = "changed",
                        toServer'[k].kind \in {"changed", "roots"}
                 PROVE  toServer'[k].v <= toServer'[l].v
      OBVIOUS
    <3>1. CASE l \in 1..Len(toServer)
      BY <1>3, <3>1 DEF McpState, McpSound, VersionsInOrder
    <3>2. CASE l = Len(toServer) + 1
      BY <1>1, <1>3, <2>1, <3>2
    <3> QED BY <1>3, <3>1, <3>2
  <2>3. \A k \in 1..Len(toServer') :
          toServer'[k].kind = "changed" => toServer'[k].v >= heard[RootSet]
    BY <1>1, <1>3, <1>6 DEF McpState, McpSound, VersionsInOrder
  <2>4. server.at # "gone" /\ ~server.refresh =>
          \A k \in 1..Len(toServer') :
            toServer'[k].kind = "roots" => toServer'[k].v >= heard[RootSet]
    BY <1>1, <1>3 DEF McpState, McpSound, VersionsInOrder
  <2> QED BY <2>1, <2>2, <2>3, <2>4
          DEF McpState, McpSound, VersionsInOrder, records
<1> QED BY <1>4, <1>5, <1>7 DEF McpState, McpSound

\* The client changes its roots: nothing on its way is newer than them.
LEMMA ChangeRootsKeeps ==
  ASSUME McpState, ChangeRoots
  PROVE  McpKeeps
<1>0. /\ roots' = roots + 1 /\ roots < MaxChanges /\ roots \in Nat
      /\ MaxChanges \in Nat /\ owes' = TRUE /\ States(RootSet, roots + 1)
      /\ UNCHANGED <<record, heard, snapshot, asks, calls, toServer, server>>
  BY McpAssumption DEF ChangeRoots, McpState, McpTypeOK
<1>1. /\ RootSet \in Sessions
      /\ roots + 1 \in 0..(MaxChanges + MaxRequests + MaxGenerations)
  BY <1>0, CodexAssumption, HermesAssumption DEF Sessions
<1>2. /\ RecordsTypeOK' /\ Register!Next
      /\ stated'[RootSet] = stated[RootSet] \cup {roots + 1}
  BY <1>0, <1>1, StateStep DEF McpState
<1>3. McpTypeOK'
  BY <1>0 DEF McpState, McpTypeOK
<1>4. OneListUnderWay'
  BY <1>0 DEF McpState, McpSound, OneListUnderWay, Answers, Message
<1>5. VersionsInOrder'
  <2>1. stated'[RootSet] = 0..roots'
    BY <1>0, <1>2 DEF McpState, McpSound, VersionsInOrder
  <2>2. heard'[RootSet] <= roots' /\ snapshot' <= roots'
    BY <1>0, <1>1
    DEF McpState, McpTypeOK, RecordsTypeOK, McpSound, VersionsInOrder
  <2>3. \A k \in 1..Len(toServer) : toServer[k].v \in Nat
    <3>1. toServer \in Seq(Messages)
      BY DEF McpState, McpTypeOK, Messages, MessageKinds
    <3>2. \A k \in 1..Len(toServer) : toServer[k] \in Messages
      BY <3>1
    <3> QED BY <3>2 DEF Messages
  <2>4. \A k \in 1..Len(toServer') :
          toServer'[k].kind \in {"changed", "roots"} => toServer'[k].v <= roots'
    BY <1>0, <2>3 DEF McpState, McpSound, VersionsInOrder
  <2> QED BY <1>0, <2>1, <2>2, <2>4 DEF McpState, McpSound, VersionsInOrder
<1> QED BY <1>0, <1>2, <1>3, <1>4, <1>5 DEF McpKeeps, McpState, McpSound

\* The client's other steps change no record.
LEMMA ClientKeeps ==
  ASSUME McpState, AnnounceChange \/ CallTool \/ AnswerElicitation
  PROVE  McpKeeps
<1>0. /\ UNCHANGED <<record, stated, heard>> /\ UNCHANGED records
      /\ roots \in Nat
  BY McpAssumption
  DEF AnnounceChange, CallTool, AnswerElicitation, records, McpState, McpTypeOK
<1> SUFFICES McpState'
  BY <1>0, StutterStep DEF McpKeeps, McpState
<1>1. asks \subseteq Asks
  BY DEF McpState, McpTypeOK, Asks
<1>2. CASE AnnounceChange
  <2>1. /\ Sends("changed", roots) /\ owes' = FALSE
        /\ UNCHANGED <<records, roots, snapshot, server>>
        /\ UNCHANGED <<asks, calls>>
    BY <1>2 DEF AnnounceChange
  <2>2. asks' \subseteq Asks /\ calls' \in 0..MaxCalls
    BY <1>1, <2>1 DEF McpState, McpTypeOK
  <2> QED BY <1>0, <2>1, <2>2, ClientSends
<1>3. CASE CallTool
  <2>1. /\ Sends("call", 0)
        /\ UNCHANGED <<records, roots, snapshot, server>>
        /\ UNCHANGED <<asks, owes>>
    BY <1>3 DEF CallTool
  <2>2. asks' \subseteq Asks /\ owes' \in BOOLEAN
    BY <1>1, <2>1 DEF McpState, McpTypeOK
  <2>3. calls' \in 0..MaxCalls
    BY <1>3, McpAssumption DEF CallTool, McpState, McpTypeOK
  <2> QED BY <2>1, <2>2, <2>3, ClientSends
<1>4. CASE AnswerElicitation
  <2>1. PICK m \in asks : /\ m.kind = "elicit" /\ asks' = asks \ {m}
                          /\ Sends("answer", m.v)
                          /\ UNCHANGED <<records, roots, owes, snapshot, calls, server>>
    BY <1>4 DEF AnswerElicitation
  <2>2. m.v \in Nat /\ m # Message("roots", 0)
    BY <1>1, <2>1 DEF Asks, Message
  <2>3. UNCHANGED <<records, roots, snapshot, server>>
    BY <2>1
  <2>4. asks' \subseteq Asks /\ owes' \in BOOLEAN /\ calls' \in 0..MaxCalls
    BY <1>1, <2>1 DEF McpState, McpTypeOK
  <2> QED BY <2>1, <2>2, <2>3, <2>4, ClientSends
<1> QED BY <1>2, <1>3, <1>4

\* A snapshot is as new as anything that was announced.
LEMMA TakeSnapshotKeeps ==
  ASSUME McpState, TakeSnapshot
  PROVE  McpKeeps
<1>0. /\ asks' = asks \ {Message("roots", 0)} /\ Message("roots", 0) \in asks
      /\ snapshot' = roots /\ roots \in 0..MaxChanges /\ MaxChanges \in Nat
      /\ UNCHANGED records
      /\ UNCHANGED <<record, stated, heard, roots, owes, calls, toServer, server>>
  BY McpAssumption DEF TakeSnapshot, records, McpState, McpTypeOK
<1>1. McpTypeOK'
  BY <1>0 DEF McpState, McpTypeOK
<1>2. Answers' = Answers
  BY <1>0 DEF Answers
<1>3. OneListUnderWay'
  BY <1>0, <1>2 DEF McpState, McpSound, OneListUnderWay, Message
<1>4. VersionsInOrder'
  BY <1>0 DEF McpState, McpSound, VersionsInOrder
<1> QED BY <1>0, <1>1, <1>3, <1>4, StutterStep DEF McpKeeps, McpState, McpSound

\* The client answers with its snapshot or with an error.
LEMMA AnswerRootsKeeps ==
  ASSUME McpState, AnswerRoots
  PROVE  McpKeeps
<1>0. /\ snapshot # -1 /\ snapshot' = -1 /\ snapshot \in Nat
      /\ UNCHANGED records
      /\ UNCHANGED <<record, stated, heard, roots, owes, asks, calls, server>>
  BY McpAssumption DEF AnswerRoots, records, McpState, McpTypeOK
<1>1. PICK m \in Messages :
        /\ toServer' = Append(toServer, m) /\ m.kind \in {"roots", "error"}
        /\ m.kind = "roots" => m.v = snapshot
  <2>1. /\ Message("roots", snapshot) \in Messages
        /\ Message("error", 0) \in Messages
        /\ Message("roots", snapshot).kind = "roots"
        /\ Message("roots", snapshot).v = snapshot
        /\ Message("error", 0).kind = "error"
    BY <1>0 DEF Message, Messages, MessageKinds
  <2> QED BY <2>1 DEF AnswerRoots, Sends
<1>2. toServer \in Seq(Messages)
  BY DEF McpState, McpTypeOK, Messages, MessageKinds
<1>3. /\ toServer' \in Seq(Messages)
      /\ Len(toServer) \in Nat /\ Len(toServer') = Len(toServer) + 1
      /\ toServer'[Len(toServer) + 1] = m
      /\ \A k \in 1..Len(toServer) : toServer'[k] = toServer[k]
      /\ 1..Len(toServer') = 1..Len(toServer) \cup {Len(toServer) + 1}
  BY <1>1, <1>2, QueueAfterSend
<1>4. McpTypeOK'
  <2>1. snapshot' \in -1..MaxChanges
    BY <1>0, McpAssumption
  <2> QED BY <1>0, <1>3, <2>1 DEF McpState, McpTypeOK, Messages, MessageKinds
<1>5. Answers = {} /\ server.pending /\ Message("roots", 0) \notin asks
  BY <1>0 DEF McpState, McpSound, OneListUnderWay
<1>6. Answers' = {Len(toServer) + 1}
  <2>1. \A k \in 1..Len(toServer) : toServer[k].kind \notin {"roots", "error"}
    BY <1>5 DEF Answers
  <2> QED BY <1>1, <1>3, <2>1 DEF Answers
<1>7. OneListUnderWay'
  BY <1>0, <1>5, <1>6 DEF OneListUnderWay, Message
<1>8. VersionsInOrder'
  <2>1. \A k \in 1..Len(toServer') :
          toServer'[k].kind \in {"changed", "roots"} => toServer'[k].v <= roots
    BY <1>1, <1>3 DEF McpState, McpSound, VersionsInOrder
  <2>2. \A k, l \in 1..Len(toServer') :
          /\ k < l /\ toServer'[l].kind = "changed"
          /\ toServer'[k].kind \in {"changed", "roots"}
          => toServer'[k].v <= toServer'[l].v
    <3> SUFFICES ASSUME NEW k \in 1..Len(toServer'), NEW l \in 1..Len(toServer'),
                        k < l, toServer'[l].kind = "changed",
                        toServer'[k].kind \in {"changed", "roots"}
                 PROVE  toServer'[k].v <= toServer'[l].v
      OBVIOUS
    <3>1. l # Len(toServer) + 1
      BY <1>1, <1>3
    <3> QED BY <1>3, <3>1 DEF McpState, McpSound, VersionsInOrder
  <2>3. \A k \in 1..Len(toServer') :
          toServer'[k].kind = "changed" => toServer'[k].v >= heard[RootSet]
    BY <1>1, <1>3 DEF McpState, McpSound, VersionsInOrder
  <2>4. server.at # "gone" /\ ~server.refresh =>
          \A k \in 1..Len(toServer') :
            toServer'[k].kind = "roots" => toServer'[k].v >= heard[RootSet]
    BY <1>0, <1>1, <1>3 DEF McpState, McpSound, VersionsInOrder
  <2>5. snapshot' <= roots'
    BY <1>0, McpAssumption DEF McpState, McpTypeOK
  <2> QED BY <1>0, <2>1, <2>2, <2>3, <2>4, <2>5
          DEF McpState, McpSound, VersionsInOrder
<1> QED BY <1>0, <1>4, <1>7, <1>8, StutterStep DEF McpKeeps, McpState, McpSound

\* The server's object after the changes its steps make.
LEMMA ServerTyped ==
  ASSUME McpState
  PROVE  /\ server \in Server /\ asks \subseteq Asks
         /\ Gone \in Server /\ Gone.at = "gone" /\ Gone.pending = server.pending
         /\ toServer # <<>> => Head(toServer).v \in Nat
         /\ RootSet \in Sessions
  <1>1. server \in Server /\ asks \subseteq Asks
    BY DEF McpState, McpTypeOK, Asks
  <1>2. Gone \in Server /\ Gone.at = "gone" /\ Gone.pending = server.pending
    BY <1>1 DEF Gone, Server
  <1>3. toServer # <<>> => Head(toServer) \in Messages
    BY QueueAfterRead DEF McpState, McpTypeOK, Messages, MessageKinds
  <1> QED BY <1>1, <1>2, <1>3 DEF Messages, Sessions

\* Lines that concern no roots: admission, a tool call, a stray answer.
LEMMA PlainReadKeeps ==
  ASSUME McpState, ReadInitialize \/ ReadCall \/ ReadStray \/ ReadError
                     \/ ReadConfirmation
  PROVE  McpKeeps
<1>0. /\ UNCHANGED records /\ UNCHANGED <<record, stated, heard>>
      /\ toServer # <<>> /\ toServer' = Tail(toServer)
      /\ UNCHANGED <<roots, owes, snapshot, calls>> /\ server.at # "gone"
  BY DEF ReadInitialize, ReadCall, ReadStray, ReadError, ReadConfirmation,
         Reads, records
<1> SUFFICES McpState'
  BY <1>0, StutterStep DEF McpKeeps, McpState
<1>1. RecordsTypeOK'
  BY <1>0, StutterStep DEF McpState
<1>2. server \in Server /\ asks \subseteq Asks /\ Gone \in Server
  BY ServerTyped
<1>3. asks' \subseteq Asks
      /\ (Message("roots", 0) \in asks' <=> Message("roots", 0) \in asks)
  <2>1. server.elicitation + 1 \in Nat
    BY <1>2 DEF Server
  <2>2. /\ Message("elicit", server.elicitation + 1) \in Asks
        /\ Message("elicit", server.elicitation + 1) # Message("roots", 0)
    BY <2>1 DEF Asks, Message
  <2>3. \/ asks' = asks
        \/ asks' = asks \cup {Message("elicit", server.elicitation + 1)}
    BY DEF ReadInitialize, ReadCall, ReadStray, ReadError, ReadConfirmation
  <2> QED BY <1>2, <2>2, <2>3
<1>4. CASE ReadError
  <2>1. /\ server' = [server EXCEPT !.pending = FALSE, !.refused = TRUE]
        /\ Head(toServer).kind = "error" /\ UNCHANGED asks
    BY <1>4 DEF ReadError, Reads
  <2>2. server' \in Server
    BY <1>2, <2>1 DEF Server
  <2>3. Answers' = {} /\ snapshot = -1 /\ Message("roots", 0) \notin asks
    BY <1>0, <2>1, ListAfterRead DEF McpState, McpSound
  <2>4. NoneUnderWay'
    BY <1>0, <2>1, <2>3 DEF NoneUnderWay, Message
  <2> QED BY <1>0, <1>1, <1>3, <2>2, <2>3, <2>4, ReadKeeps
<1>5. CASE ~ReadError
  <2>1. /\ server' \in Server /\ server'.pending = server.pending
        /\ server'.refresh = server.refresh
    <3>1. CASE ReadInitialize
      <4>1. CASE server' = [server EXCEPT !.at = "gone"]
        BY <1>2, <4>1 DEF Server
      <4>2. ASSUME NEW yes \in BOOLEAN,
                   server' = [server EXCEPT !.authorized = yes]
            PROVE  /\ server' \in Server /\ server'.pending = server.pending
                   /\ server'.refresh = server.refresh
        BY <1>2, <4>2 DEF Server
      <4> QED BY <3>1, <4>1, <4>2 DEF ReadInitialize
    <3>2. CASE ReadCall
      <4>1. \/ server' = server
            \/ server' = [server EXCEPT !.at = "eliciting", !.elicitation = @ + 1]
        BY <3>2 DEF ReadCall
      <4>2. server.elicitation + 1 \in Nat
        BY <1>2 DEF Server
      <4>3. server' \in Server
        BY <1>2, <4>1, <4>2 DEF Server
      <4>4. server'.pending = server.pending
        BY <1>2, <4>1 DEF Server
      <4>5. server'.refresh = server.refresh
        BY <1>2, <4>1 DEF Server
      <4> QED BY <4>3, <4>4, <4>5
    <3>3. CASE ReadStray
      BY <1>2, <3>3 DEF ReadStray
    <3>4. CASE ReadConfirmation
      <4> DEFINE m == server.missed \/ Head(toServer).kind \in {"changed", "roots", "error"}
      <4>1. m \in BOOLEAN
        BY <1>2 DEF Server
      <4>2. server' = [server EXCEPT !.at = "reading", !.missed = m]
        BY <3>4 DEF ReadConfirmation
      <4> QED BY <1>2, <4>1, <4>2 DEF Server
    <3> QED BY <1>5, <3>1, <3>2, <3>3, <3>4
  <2> QED BY <1>0, <1>1, <1>3, <2>1, ReadKeeps
<1> QED BY <1>4, <1>5

\* A request for the list, at the start or because a change has overtaken the
\* one that came.
LEMMA RequestReadKeeps ==
  ASSUME McpState, ReadInitialized \/ ReadStaleRoots
  PROVE  McpKeeps
<1>0. /\ UNCHANGED records /\ UNCHANGED <<record, stated, heard>>
      /\ toServer # <<>> /\ toServer' = Tail(toServer)
      /\ UNCHANGED <<roots, owes, snapshot, calls>> /\ server.at # "gone"
  BY DEF ReadInitialized, ReadStaleRoots, Reads, records
<1> SUFFICES McpState'
  BY <1>0, StutterStep DEF McpKeeps, McpState
<1>1. RecordsTypeOK'
  BY <1>0, StutterStep DEF McpState
<1>2. server \in Server /\ asks \subseteq Asks
  BY ServerTyped
<1>3. /\ Answers' # {} => Answers # {}
      /\ Head(toServer).kind \in {"roots", "error"} =>
              /\ Answers' = {} /\ snapshot = -1
              /\ Message("roots", 0) \notin asks
  BY <1>0, ListAfterRead DEF McpState, McpSound
<1>4. ASSUME NEW s \in Server, server' = Request(s), asks' = Asking(s),
             ~s.refresh => ~server.refresh \/ (Answers' = {} /\ snapshot = -1),
             s.at = server.at,
             server.pending => s.pending \/ NoneUnderWay',
             ~s.pending => /\ Answers' = {} /\ snapshot = -1
                           /\ Message("roots", 0) \notin asks
      PROVE  McpState'
  <2>1. /\ Request(s) \in Server /\ Asking(s) \subseteq Asks
        /\ Request(s).at = s.at
        /\ ~Request(s).refresh => ~s.refresh
        /\ s.pending => Request(s).pending /\ Asking(s) = asks
        /\ ~s.pending => \/ Asking(s) = asks /\ ~Request(s).pending
                         \/ Request(s).pending /\ Answers' = {} /\ snapshot = -1
    BY <1>2, <1>4, RequestAsks
  <2>2. server' \in Server /\ asks' \subseteq Asks
    BY <1>4, <2>1
  <2>3. server'.at # "gone" /\ ~server'.refresh =>
          \/ /\ heard'[RootSet] = heard[RootSet]
             /\ server.at # "gone" /\ ~server.refresh
          \/ Answers' = {} /\ snapshot = -1
    BY <1>0, <1>4, <2>1
  <2>4. \/ /\ Message("roots", 0) \in asks' <=> Message("roots", 0) \in asks
           /\ server.pending => server'.pending
        \/ NoneUnderWay'
        \/ server'.pending /\ Answers' = {} /\ snapshot = -1
    <3>1. CASE s.pending
      BY <1>4, <2>1, <3>1
    <3>2. CASE ~s.pending /\ Asking(s) = asks
      BY <1>0, <1>4, <3>2 DEF NoneUnderWay, Message
    <3>3. CASE ~s.pending /\ Asking(s) # asks
      BY <1>4, <2>1, <3>3
    <3> QED BY <3>1, <3>2, <3>3
  <2> QED BY <1>0, <1>1, <2>2, <2>3, <2>4, ReadKeeps
<1>5. CASE ReadInitialized
  <2>1. server' = Request(server) /\ asks' = Asking(server)
    BY <1>5 DEF ReadInitialized
  <2>2. ~server.pending => /\ Answers' = {} /\ snapshot = -1
                           /\ Message("roots", 0) \notin asks
    BY <1>3 DEF McpState, McpSound, OneListUnderWay
  <2> QED BY <1>2, <1>4, <2>1, <2>2
<1>6. CASE ReadStaleRoots
  <2> DEFINE s == [server EXCEPT !.pending = FALSE, !.refresh = FALSE]
  <2>1. server' = Request(s) /\ asks' = Asking(s)
    BY <1>6 DEF ReadStaleRoots
  <2>2. s \in Server /\ s.at = server.at /\ ~s.pending
    BY <1>2 DEF Server
  <2>3. /\ Answers' = {} /\ snapshot = -1
        /\ Message("roots", 0) \notin asks
    BY <1>3, <1>6 DEF ReadStaleRoots, Reads
  <2>4. CASE asks' = asks
    <3>1. NoneUnderWay'
      BY <1>0, <2>3, <2>4 DEF NoneUnderWay, Message
    <3> HIDE DEF s
    <3> QED BY <1>4, <2>1, <2>2, <2>3, <3>1
  <2>5. CASE asks' # asks
    <3> HIDE DEF s
    <3>1. /\ Request(s) \in Server /\ Asking(s) \subseteq Asks
          /\ Request(s).pending
      BY <1>2, <2>1, <2>2, <2>3, <2>5, RequestAsks
    <3> QED BY <1>0, <1>1, <2>1, <2>3, <3>1, ReadKeeps
  <2> QED BY <2>4, <2>5
<1> QED BY <1>5, <1>6

\* An announced change, carried out by the supervisor, ends the roots that were
\* in force; it is never about older roots than the supervisor knows of.
LEMMA ReadChangedKeeps ==
  ASSUME McpState, ReadChanged
  PROVE  McpKeeps
<1> DEFINE w == Head(toServer).v
           s == [server EXCEPT !.generation = @ + 1]
<1>0. /\ toServer # <<>> /\ toServer' = Tail(toServer)
      /\ Head(toServer).kind = "changed"
      /\ UNCHANGED <<roots, owes, snapshot, calls>> /\ server.at # "gone"
  BY DEF ReadChanged, Reads
<1>1. /\ server \in Server /\ asks \subseteq Asks /\ RootSet \in Sessions
      /\ Gone \in Server /\ Gone.at = "gone" /\ Gone.pending = server.pending
      /\ w \in Nat
  BY <1>0, ServerTyped
<1>2. \/ /\ UNCHANGED <<records, asks>> /\ server' \in {server, Gone}
      \/ /\ Replaces(server, 0, w)
         /\ server' = Gone /\ UNCHANGED asks
      \/ /\ Replaces(server, 0, w) /\ server.authorized
         /\ server' = Request(s) /\ asks' = Asking(s)
  BY DEF ReadChanged, Fails
<1>3. /\ Answers' # {} => Answers # {}
  BY <1>0, ListAfterRead DEF McpState, McpSound
<1>4. CASE UNCHANGED <<records, asks>> /\ server' \in {server, Gone}
  <2>1. UNCHANGED <<record, stated, heard>> /\ UNCHANGED records
    BY <1>4 DEF records
  <2>2. RecordsTypeOK' /\ UNCHANGED Register!vars
    BY <2>1, StutterStep DEF McpState
  <2>3. McpState'
    BY <1>0, <1>1, <1>4, <2>1, <2>2, ReadKeeps
  <2> QED BY <2>1, <2>2, <2>3 DEF McpKeeps
<1>5. ASSUME Replaces(server, 0, w)
      PROVE  /\ RecordsTypeOK' /\ Register!Next /\ UNCHANGED stated
             /\ heard'[RootSet] = w
             /\ \A c \in Conversations : record'[c] = record[c]
  <2>1. server.generation + 1 \in Nat
    BY <1>1 DEF Server
  <2>2. w \in stated[RootSet] /\ w >= heard[RootSet]
    <3>1. Head(toServer) = toServer[1] /\ 1 \in 1..Len(toServer)
      BY <1>0, QueueAfterRead DEF McpState, McpTypeOK
    <3>2. roots \in Nat
      BY McpAssumption DEF McpState, McpTypeOK
    <3> QED BY <1>0, <1>1, <3>1, <3>2 DEF McpState, McpSound, VersionsInOrder
  <2>3. Replace(RootSet, server.generation + 1, 0, "active", w)
    BY <1>5 DEF Replaces
  <2> HIDE DEF w
  <2>4. /\ RecordsTypeOK' /\ Register!Next /\ heard'[RootSet] = w
        /\ \A t \in Sessions : t # RootSet => record'[t] = record[t]
    BY <1>1, <2>1, <2>2, <2>3, HearStep DEF McpState
  <2>5. UNCHANGED stated
    BY <2>3 DEF Replace
  <2> QED BY <2>4, <2>5, SessionsAssumption DEF Sessions
<1>6. CASE Replaces(server, 0, w) /\ server' = Gone /\ UNCHANGED asks
  <2>1. McpState'
    BY <1>0, <1>1, <1>5, <1>6, ReadKeeps
  <2> QED BY <1>5, <1>6, <2>1 DEF McpKeeps
<1>7. CASE /\ Replaces(server, 0, w) /\ server.authorized
           /\ server' = Request(s) /\ asks' = Asking(s)
  <2>1. /\ s \in Server /\ s.at = server.at /\ s.pending = server.pending
        /\ s.authorized
    BY <1>1, <1>7 DEF Server
  <2>2. ~s.pending => Answers' = {} /\ snapshot = -1
    BY <1>3, <2>1 DEF McpState, McpSound, OneListUnderWay
  <2>3. ~s.pending => Message("roots", 0) \notin asks
    BY <2>1 DEF McpState, McpSound, OneListUnderWay
  <2> HIDE DEF s
  <2>4. /\ Request(s) \in Server /\ Asking(s) \subseteq Asks
        /\ ~Request(s).refresh => Answers' = {} /\ snapshot = -1
        /\ s.pending => Request(s).pending /\ Asking(s) = asks
        /\ ~s.pending => \/ Asking(s) = asks /\ ~Request(s).pending
                         \/ Request(s).pending /\ Answers' = {} /\ snapshot = -1
    BY <1>1, <2>1, <2>2, RequestAsks
  <2>5. server' \in Server /\ asks' \subseteq Asks
    BY <1>7, <2>4
  <2>6. server'.at # "gone" /\ ~server'.refresh =>
          \/ /\ heard'[RootSet] = heard[RootSet]
             /\ server.at # "gone" /\ ~server.refresh
          \/ Answers' = {} /\ snapshot = -1
    BY <1>7, <2>4
  <2>7. \/ /\ Message("roots", 0) \in asks' <=> Message("roots", 0) \in asks
           /\ server.pending => server'.pending
        \/ server'.pending /\ Answers' = {} /\ snapshot = -1
    BY <1>7, <2>1, <2>4
  <2>8. McpState'
    BY <1>0, <1>5, <1>7, <2>5, <2>6, <2>7, ReadKeeps
  <2> QED BY <1>5, <1>7, <2>8 DEF McpKeeps
<1> QED BY <1>2, <1>4, <1>6, <1>7

\* A list that no change has overtaken is put in force.
LEMMA ReadRootsKeeps ==
  ASSUME McpState, ReadRoots
  PROVE  McpKeeps
<1> DEFINE v == Head(toServer).v
           s == [server EXCEPT !.pending = FALSE, !.refused = FALSE,
                               !.generation = @ + 1]
<1>0. /\ toServer # <<>> /\ toServer' = Tail(toServer)
      /\ Head(toServer).kind = "roots" /\ server.at = "reading"
      /\ UNCHANGED <<roots, owes, snapshot, calls, asks>>
      /\ server.pending /\ ~server.refresh
  BY DEF ReadRoots, Reads, Fails
<1>1. /\ server \in Server /\ asks \subseteq Asks /\ RootSet \in Sessions
      /\ Gone \in Server /\ Gone.at = "gone" /\ Gone.pending = server.pending
      /\ v \in Nat
  BY <1>0, ServerTyped
<1>2. \/ Replaces(server, v, v) /\ server' \in {s, Gone}
      \/ server' = Gone /\ UNCHANGED records
  BY DEF ReadRoots, Fails
<1>3. Answers' = {} /\ snapshot = -1 /\ NoneUnderWay'
  <2>1. Answers' = {} /\ snapshot = -1 /\ Message("roots", 0) \notin asks
    BY <1>0, ListAfterRead DEF McpState, McpSound
  <2> QED BY <1>0, <2>1 DEF NoneUnderWay, Message
<1>4. s \in Server
  <2>1. server.generation + 1 \in Nat
    BY <1>1 DEF Server
  <2> QED BY <1>1, <2>1 DEF Server
<1>5. CASE server' = Gone /\ UNCHANGED records
  <2>1. UNCHANGED <<record, stated, heard>>
    BY <1>5 DEF records
  <2>2. RecordsTypeOK' /\ UNCHANGED Register!vars
    BY <1>5, StutterStep DEF McpState
  <2>3. McpState'
    BY <1>0, <1>1, <1>3, <1>5, <2>1, <2>2, ReadKeeps
  <2> QED BY <2>1, <2>2, <2>3 DEF McpKeeps
<1>6. CASE Replaces(server, v, v) /\ server' \in {s, Gone}
  <2>1. server.generation + 1 \in Nat
    BY <1>1 DEF Server
  <2>2. v \in stated[RootSet] /\ v >= heard[RootSet]
    <3>1. Head(toServer) = toServer[1] /\ 1 \in 1..Len(toServer)
      BY <1>0, QueueAfterRead DEF McpState, McpTypeOK
    <3>2. roots \in Nat
      BY McpAssumption DEF McpState, McpTypeOK
    <3> QED BY <1>0, <1>1, <3>1, <3>2 DEF McpState, McpSound, VersionsInOrder
  <2>3. Replace(RootSet, server.generation + 1, v, "active", v)
    BY <1>6 DEF Replaces
  <2>4. server' \in Server
    BY <1>1, <1>4, <1>6
  <2> HIDE DEF v, s
  <2>5. /\ RecordsTypeOK' /\ Register!Next /\ heard'[RootSet] = v
        /\ \A t \in Sessions : t # RootSet => record'[t] = record[t]
    BY <1>1, <2>1, <2>2, <2>3, HearStep DEF McpState
  <2>6. UNCHANGED stated
    BY <2>3 DEF Replace
  <2>7. McpState'
    BY <1>0, <1>1, <1>3, <2>4, <2>5, <2>6, ReadKeeps DEF v
  <2> QED BY <2>5, <2>7, SessionsAssumption DEF McpKeeps, Sessions
<1> QED BY <1>2, <1>5, <1>6

\* The server ends, or the supervisor notices that it has.
LEMMA ServerEndsKeeps ==
  ASSUME McpState, ServerEnds \/ TransportRevoked
  PROVE  McpKeeps
<1>1. CASE ServerEnds
  <2>0. /\ UNCHANGED records /\ UNCHANGED <<record, stated, heard>>
        /\ UNCHANGED <<asks, roots, owes, snapshot, calls, toServer>>
        /\ server' = Gone
    BY <1>1 DEF ServerEnds, Fails, records
  <2>1. Gone \in Server /\ Gone.at = "gone" /\ Gone.pending = server.pending
    BY ServerTyped
  <2>2. McpTypeOK'
    BY <2>0, <2>1 DEF McpState, McpTypeOK
  <2>3. OneListUnderWay'
    BY <2>0, <2>1 DEF McpState, McpSound, OneListUnderWay, Answers, Message
  <2>4. VersionsInOrder'
    BY <2>0, <2>1 DEF McpState, McpSound, VersionsInOrder
  <2> QED BY <2>0, <2>2, <2>3, <2>4, StutterStep DEF McpKeeps, McpState, McpSound
<1>2. CASE TransportRevoked
  <2>0. /\ UNCHANGED <<asks, roots, owes, snapshot, calls, toServer, server>>
        /\ Withdraw({RootSet}) /\ UNCHANGED <<stated, heard>>
    BY <1>2 DEF TransportRevoked, mcp, Withdraw
  <2>1. /\ RecordsTypeOK' /\ Register!Next
        /\ \A t \in Sessions : t \notin {RootSet} => record'[t] = record[t]
    BY <2>0, WithdrawStep DEF McpState, Sessions
  <2>2. McpTypeOK'
    BY <2>0 DEF McpState, McpTypeOK
  <2>3. OneListUnderWay'
    BY <2>0 DEF McpState, McpSound, OneListUnderWay, Answers, Message
  <2>4. VersionsInOrder'
    BY <2>0 DEF McpState, McpSound, VersionsInOrder
  <2> QED BY <2>1, <2>2, <2>3, <2>4, SessionsAssumption
          DEF McpKeeps, McpState, McpSound, Sessions
<1> QED BY <1>1, <1>2

\* Every step of Claude's client, its MCP server and the pinned connection.
LEMMA McpNextKeeps ==
  ASSUME McpState, McpNext
  PROVE  McpKeeps
<1>1. CASE ChangeRoots
  BY <1>1, ChangeRootsKeeps
<1>2. CASE AnnounceChange \/ CallTool \/ AnswerElicitation
  BY <1>2, ClientKeeps
<1>3. CASE TakeSnapshot
  BY <1>3, TakeSnapshotKeeps
<1>4. CASE AnswerRoots
  BY <1>4, AnswerRootsKeeps
<1>5. CASE \/ ReadInitialize \/ ReadCall \/ ReadStray \/ ReadError
           \/ ReadConfirmation
  BY <1>5, PlainReadKeeps
<1>6. CASE ReadInitialized \/ ReadStaleRoots
  BY <1>6, RequestReadKeeps
<1>7. CASE ReadChanged
  BY <1>7, ReadChangedKeeps
<1>8. CASE ReadRoots
  BY <1>8, ReadRootsKeeps
<1>9. CASE ServerEnds \/ TransportRevoked
  BY <1>9, ServerEndsKeeps
<1> QED BY <1>1, <1>2, <1>3, <1>4, <1>5, <1>6, <1>7, <1>8, <1>9
        DEF McpNext, ServerStep

----------------------------------------------------------------------------
(* Codex: PID 1 between the user's client and the app-server. *)

CodexState ==
  RecordsTypeOK /\ CodexTypeOK /\ Len(requests) <= MaxRequests /\ CodexSound

\* What a step of PID 1, the app-server or the supervisor must leave behind.
CodexKeeps ==
  /\ CodexState'
  /\ Register!Next \/ UNCHANGED Register!vars
  /\ \A c \in Conversations : record'[c] = record[c]

\* The types of a tracked request, and the thread it is about.
LEMMA RequestTyped ==
  ASSUME CodexState, NEW i \in 1..Len(requests)
  PROVE  /\ requests[i] \in Tracked /\ i \in 1..MaxRequests /\ i \in Nat
         /\ Concerns(requests[i]) =>
              /\ Thread(requests[i]) \in Threads /\ Thread(requests[i]) \in Sessions
              /\ requests[i].answer = "ok"
<1>1. Len(requests) \in Nat /\ MaxRequests \in Nat /\ Len(requests) <= MaxRequests
  BY CodexAssumption DEF CodexState, CodexTypeOK
<1>2. requests[i] \in Tracked
  BY DEF CodexState, CodexTypeOK
<1>3. Thread(requests[i]) \in Threads \cup {NoThread}
  BY <1>2 DEF Thread, Tracked
<1> QED BY <1>1, <1>2, <1>3 DEF Concerns, Sessions

\* What was shown or refused was answered, and PID 1's counters are in range.
LEMMA CodexTyped ==
  ASSUME CodexState
  PROVE  /\ \A i \in shown \cup unconfirmed : Answered(i) /\ i \in 1..Len(requests)
         /\ \A t \in Threads : /\ heard[t] \in Nat /\ versions[t] \in Nat
                               /\ t \in Sessions /\ record[t] \in Record
         /\ confirming \in Nat
<1>1. \A i \in shown \cup unconfirmed : Answered(i)
  BY DEF CodexState, CodexSound, RequestsSound
<1>2. \A i : Answered(i) => i \in 1..Len(requests)
  BY DEF Answered
<1>3. \A t \in Threads : t \in Sessions
  BY DEF Sessions
<1>4. \A t \in Threads : heard[t] \in Nat /\ record[t] \in Record
  BY <1>3 DEF CodexState, RecordsTypeOK
<1>5. \A t \in Threads : versions[t] \in Nat
  BY CodexAssumption DEF CodexState, CodexTypeOK
<1>6. confirming \in Nat
  BY CodexAssumption DEF CodexState, CodexTypeOK
<1> QED BY <1>1, <1>2, <1>3, <1>4, <1>5, <1>6

\* What is settled stays so: the supervisor hears of nothing older, refusals
\* are remembered, and answers do not change.
LEMMA SettledKept ==
  ASSUME CodexState, RecordsTypeOK', NEW t \in Threads, NEW i \in Nat,
         Settled(t, i), heard'[t] >= heard[t], unconfirmed \subseteq unconfirmed',
         \A j : Answered(j) => requests'[j] = requests[j]
  PROVE  Settled(t, i)'
<1>1. heard[t] \in Nat /\ heard'[t] \in Nat
  BY DEF CodexState, RecordsTypeOK, Sessions
<1>2. CASE heard[t] >= i
  BY <1>1, <1>2 DEF Settled
<1>3. CASE \E j \in unconfirmed : j >= i /\ Thread(requests[j]) = t
  <2>1. PICK j \in unconfirmed : j >= i /\ Thread(requests[j]) = t
    BY <1>3
  <2>2. requests'[j] = requests[j]
    BY CodexTyped
  <2> QED BY <2>1, <2>2 DEF Settled
<1> QED BY <1>2, <1>3 DEF Settled

\* Steps that only add requests or answers leave what PID 1 remembers settled.
LEMMA SettlementKept ==
  ASSUME CodexState, RecordsTypeOK',
         UNCHANGED <<runner, versions, confirming, shown, unconfirmed, heard>>,
         \A j : Answered(j) => Answered(j)' /\ requests'[j] = requests[j]
  PROVE  /\ VersionsSettled' /\ ShownIsSettled'
         /\ \A j \in shown' \cup unconfirmed' : Answered(j)'
         /\ confirming' # 0 =>
              /\ Answered(confirming)' /\ Concerns(requests'[confirming'])
              /\ versions'[Thread(requests'[confirming'])] = confirming'
<1>1. \A t \in Threads, i \in Nat : Settled(t, i) => Settled(t, i)'
  BY SettledKept, CodexTyped
<1>2. /\ \A j \in shown \cup unconfirmed : Answered(j)
      /\ confirming # 0 =>
              /\ Answered(confirming) /\ Concerns(requests[confirming])
              /\ versions[Thread(requests[confirming])] = confirming
  BY DEF CodexState, CodexSound, RequestsSound
<1>3. \A j \in shown' \cup unconfirmed' : Answered(j)'
  BY <1>2
<1>4. confirming' # 0 =>
              /\ Answered(confirming)' /\ Concerns(requests'[confirming'])
              /\ versions'[Thread(requests'[confirming'])] = confirming'
  <2> SUFFICES ASSUME confirming # 0
               PROVE  /\ Answered(confirming)' /\ Concerns(requests'[confirming])
                      /\ versions[Thread(requests'[confirming])] = confirming
    OBVIOUS
  <2>1. \A j : j = confirming => Answered(j)' /\ requests'[j] = requests[j]
    BY <1>2
  <2>2. requests'[confirming] = requests[confirming]
    BY <2>1
  <2>3. Answered(confirming)'
    BY <2>1 DEF Answered
  <2> QED BY <1>2, <2>2, <2>3
<1>5. VersionsSettled'
  <2> SUFFICES ASSUME runner.alive, runner.kind = "adaptive", runner.trusted,
                      NEW t \in Threads
               PROVE  \/ Settled(t, versions[t])'
                      \/ /\ confirming # 0 /\ versions[t] = confirming
                         /\ Thread(requests'[confirming]) = t
    BY DEF VersionsSettled
  <2>1. versions[t] \in Nat
    BY CodexTyped
  <2>2. CASE Settled(t, versions[t])
    <3>1. \A i \in Nat : i = versions[t] => Settled(t, i)'
      BY <1>1, <2>2
    <3>2. Settled(t, versions[t])'
      BY <2>1, <3>1 DEF Settled
    <3> QED BY <3>2
  <2>3. CASE confirming # 0 /\ versions[t] = confirming
               /\ Thread(requests[confirming]) = t
    <3>1. requests'[confirming] = requests[confirming]
      BY <1>2, <2>3
    <3> QED BY <2>3, <3>1
  <2> QED BY <2>2, <2>3 DEF CodexState, CodexSound, VersionsSettled
<1>6. ShownIsSettled'
  <2> SUFFICES ASSUME NEW i \in shown, runner.kind = "adaptive", runner.trusted,
                      Concerns(requests'[i])
               PROVE  Settled(Thread(requests[i]), i)'
    BY DEF ShownIsSettled, Settled
  <2>1. requests'[i] = requests[i] /\ i \in 1..Len(requests)
    BY CodexTyped
  <2>2. Thread(requests[i]) \in Threads /\ i \in Nat
    BY <2>1, RequestTyped
  <2>3. Settled(Thread(requests[i]), i)
    BY <2>1 DEF CodexState, CodexSound, ShownIsSettled, Settled
  <2>4. \A t \in Threads : t = Thread(requests[i]) => Settled(t, i)'
    BY <1>1, <2>2, <2>3
  <2> QED BY <2>1, <2>2, <2>4 DEF Settled
<1> QED BY <1>3, <1>4, <1>5, <1>6

\* A request is tracked before it is passed on.
LEMMA ObserveClientKeeps ==
  ASSUME CodexState, NEW m \in Methods, NEW t \in Threads \cup {NoThread},
         ObserveClient(m, t)
  PROVE  CodexKeeps
<1> DEFINE r == [method |-> m, thread |-> t, answer |-> "none",
                 target |-> NoThread, rooted |-> FALSE]
<1>0. /\ UNCHANGED records /\ UNCHANGED <<record, stated, heard>>
      /\ UNCHANGED <<runner, forwarded, stdout, versions, confirming, shown,
                     unconfirmed>>
      /\ requests' = Append(requests, r) /\ Len(requests) < MaxRequests
      /\ pending' = pending \cup {Len(requests) + 1}
  BY DEF ObserveClient, records
<1>1. r \in Tracked /\ r.answer = "none" /\ ~Concerns(r)
  BY CodexAssumption DEF Tracked, Concerns
<1> HIDE DEF r
<1>2. requests \in Seq(Tracked) /\ MaxRequests \in Nat
  BY CodexAssumption DEF CodexState, CodexTypeOK
<1>3. /\ requests' \in Seq(Tracked)
      /\ Len(requests) \in Nat /\ Len(requests') = Len(requests) + 1
      /\ requests'[Len(requests) + 1] = r
      /\ \A k \in 1..Len(requests) : requests'[k] = requests[k]
      /\ 1..Len(requests') = 1..Len(requests) \cup {Len(requests) + 1}
  BY <1>0, <1>1, <1>2, QueueAfterSend
<1>4. RecordsTypeOK' /\ UNCHANGED Register!vars
  BY <1>0, StutterStep DEF CodexState
<1>5. CodexTypeOK' /\ Len(requests') <= MaxRequests
  <2>1. Len(requests) + 1 \in 1..MaxRequests /\ forwarded \in 0..Len(requests')
    BY <1>0, <1>2, <1>3 DEF CodexState, CodexTypeOK
  <2>2. pending' \subseteq 1..MaxRequests
    BY <1>0, <2>1 DEF CodexState, CodexTypeOK
  <2>3. forwarded' \in 0..Len(requests') /\ Len(requests') <= MaxRequests
    BY <1>0, <1>2, <1>3, <2>1
  <2> QED BY <1>0, <1>3, <2>2, <2>3 DEF CodexState, CodexTypeOK
<1>6. \A j : Answered(j) => Answered(j)' /\ requests'[j] = requests[j]
  BY <1>3 DEF Answered
<1>7. /\ VersionsSettled' /\ ShownIsSettled'
      /\ \A j \in shown' \cup unconfirmed' : Answered(j)'
      /\ confirming' # 0 =>
           /\ Answered(confirming)' /\ Concerns(requests'[confirming'])
           /\ versions'[Thread(requests'[confirming'])] = confirming'
  BY <1>0, <1>4, <1>6, SettlementKept
<1>8. RequestsSound'
  <2>1. \A i \in 1..Len(requests') :
          /\ requests'[i].answer = "none" => i \in pending'
          /\ Concerns(requests'[i]) => i \in stated'[Thread(requests'[i])]
    BY <1>0, <1>1, <1>3 DEF CodexState, CodexSound, RequestsSound
  <2>2. \A k \in 1..Len(stdout') : Answered(stdout[k])' /\ stdout'[k] \in pending'
    <3> SUFFICES ASSUME NEW k \in 1..Len(stdout)
                 PROVE  Answered(stdout[k])' /\ stdout[k] \in pending'
      BY <1>0
    <3>1. Answered(stdout[k]) /\ stdout[k] \in pending
      BY DEF CodexState, CodexSound, RequestsSound
    <3> QED BY <1>0, <1>3, <3>1 DEF Answered
  <2> QED BY <1>0, <1>7, <2>1, <2>2 DEF CodexState, CodexSound, RequestsSound
<1>9. GenerationsSound(Threads)'
  BY <1>0 DEF CodexState, CodexSound, GenerationsSound
<1> QED BY <1>0, <1>4, <1>5, <1>7, <1>8, <1>9
        DEF CodexKeeps, CodexState, CodexSound

\* Passing a request on changes nothing else.
LEMMA ForwardRequestKeeps ==
  ASSUME CodexState, ForwardRequest
  PROVE  CodexKeeps
<1>0. /\ UNCHANGED records /\ UNCHANGED <<record, stated, heard>>
      /\ UNCHANGED <<runner, requests, pending, stdout, versions, confirming,
                     shown, unconfirmed>>
      /\ forwarded < Len(requests) /\ forwarded' = forwarded + 1
  BY DEF ForwardRequest, records
<1>1. RecordsTypeOK' /\ UNCHANGED Register!vars
  BY <1>0, StutterStep DEF CodexState
<1>2. CodexTypeOK' /\ Len(requests') <= MaxRequests
  BY <1>0 DEF CodexState, CodexTypeOK
<1>3. CodexSound'
  <2>1. GenerationsSound(Threads)'
    BY <1>0 DEF CodexState, CodexSound, GenerationsSound
  <2>2. RequestsSound'
    BY <1>0 DEF CodexState, CodexSound, RequestsSound, Answered
  <2>3. VersionsSettled'
    BY <1>0 DEF CodexState, CodexSound, VersionsSettled, Settled
  <2>4. ShownIsSettled'
    BY <1>0 DEF CodexState, CodexSound, ShownIsSettled
  <2> QED BY <2>1, <2>2, <2>3, <2>4 DEF CodexSound
<1> QED BY <1>0, <1>1, <1>2, <1>3 DEF CodexKeeps, CodexState

\* The app-server answers a request that PID 1 still waits for.
LEMMA AppServerAnswersKeeps ==
  ASSUME CodexState, NEW i \in 1..Len(requests), AppServerAnswers(i)
  PROVE  CodexKeeps
<1>0. /\ UNCHANGED <<record, heard>>
      /\ UNCHANGED <<runner, forwarded, pending, versions, confirming, shown,
                     unconfirmed>>
      /\ requests[i].answer = "none" /\ stdout' = Append(stdout, i)
  BY DEF AppServerAnswers
<1>1. PICK d \in Tracked :
        /\ requests' = [requests EXCEPT ![i] = d] /\ d.answer # "none"
  <2>1. PICK verdict \in {"ok", "error"}, t \in Threads \cup {NoThread},
             r \in BOOLEAN :
          requests' = [requests EXCEPT ![i] =
            [requests[i] EXCEPT !.answer = verdict, !.target = t, !.rooted = r]]
    BY DEF AppServerAnswers
  <2>2. requests[i] \in Tracked
    BY RequestTyped
  <2>3. [requests[i] EXCEPT !.answer = verdict, !.target = t, !.rooted = r] \in Tracked
    BY <2>2 DEF Tracked
  <2>4. [requests[i] EXCEPT !.answer = verdict, !.target = t, !.rooted = r].answer = verdict
    BY <2>2 DEF Tracked
  <2> QED BY <2>1, <2>3, <2>4
<1>2. requests \in Seq(Tracked) /\ MaxRequests \in Nat /\ Len(requests) \in Nat
  BY CodexAssumption DEF CodexState, CodexTypeOK
<1>3. /\ requests' \in Seq(Tracked) /\ Len(requests') = Len(requests)
      /\ requests'[i] = d
      /\ \A k \in 1..Len(requests) : k # i => requests'[k] = requests[k]
  BY <1>1, <1>2
<1>4. i \in 1..MaxRequests /\ i \in pending
  BY <1>0, RequestTyped DEF CodexState, CodexSound, RequestsSound
<1>5. IF Concerns(d) THEN States(Thread(d), i) ELSE UNCHANGED stated
  BY <1>3 DEF AppServerAnswers
<1>6. /\ RecordsTypeOK'
      /\ Register!Next \/ UNCHANGED Register!vars
      /\ \A t \in Sessions : stated[t] \subseteq stated'[t]
      /\ Concerns(d) => i \in stated'[Thread(d)]
  <2>1. CASE Concerns(d)
    <3>1. Thread(d) \in Sessions
      BY <2>1 DEF Concerns, Thread, Tracked, Sessions
    <3>2. i \in 0..(MaxChanges + MaxRequests + MaxGenerations)
      BY <1>2, <1>4, McpAssumption, HermesAssumption
    <3>3. /\ RecordsTypeOK' /\ Register!Next
          /\ stated'[Thread(d)] = stated[Thread(d)] \cup {i}
          /\ \A t \in Sessions : stated[t] \subseteq stated'[t]
      BY <1>0, <1>5, <2>1, <3>1, <3>2, StateStep DEF CodexState
    <3> QED BY <3>3
  <2>2. CASE ~Concerns(d)
    <3>1. UNCHANGED records
      BY <1>0, <1>5, <2>2 DEF records
    <3> QED BY <2>2, <3>1, StutterStep DEF CodexState, records
  <2> QED BY <2>1, <2>2
<1>7. /\ stdout \in Seq(1..MaxRequests) /\ stdout' \in Seq(1..MaxRequests)
      /\ Len(stdout) \in Nat
      /\ stdout'[Len(stdout) + 1] = i
      /\ \A k \in 1..Len(stdout) : stdout'[k] = stdout[k]
      /\ 1..Len(stdout') = 1..Len(stdout) \cup {Len(stdout) + 1}
  <2>1. stdout \in Seq(1..MaxRequests)
    BY DEF CodexState, CodexTypeOK
  <2> QED BY <1>0, <1>4, <2>1, QueueAfterSend
<1>8. CodexTypeOK' /\ Len(requests') <= MaxRequests
  BY <1>0, <1>3, <1>7 DEF CodexState, CodexTypeOK
<1>9. /\ \A j : Answered(j) => Answered(j)' /\ requests'[j] = requests[j]
      /\ ~Answered(i)
  BY <1>0, <1>3 DEF Answered
<1>10. /\ VersionsSettled' /\ ShownIsSettled'
       /\ \A j \in shown' \cup unconfirmed' : Answered(j)'
       /\ confirming' # 0 =>
            /\ Answered(confirming)' /\ Concerns(requests'[confirming'])
            /\ versions'[Thread(requests'[confirming'])] = confirming'
  BY <1>0, <1>6, <1>9, SettlementKept
<1>11. RequestsSound'
  <2>1. ASSUME NEW k \in 1..Len(requests')
        PROVE  /\ requests'[k].answer = "none" => k \in pending'
               /\ Concerns(requests'[k]) => k \in stated'[Thread(requests'[k])]
    <3>1. CASE k = i
      BY <1>0, <1>1, <1>3, <1>4, <1>6, <3>1
    <3>2. CASE k # i
      <4>1. requests'[k] = requests[k] /\ k \in 1..Len(requests)
        BY <1>3, <3>2
      <4>2. Concerns(requests[k]) => Thread(requests[k]) \in Sessions
        BY <4>1, RequestTyped
      <4> QED BY <1>0, <1>6, <4>1, <4>2 DEF CodexState, CodexSound, RequestsSound
    <3> QED BY <3>1, <3>2
  <2>2. ASSUME NEW k \in 1..Len(stdout')
        PROVE  Answered(stdout[k])' /\ stdout'[k] \in pending'
    <3>1. CASE k = Len(stdout) + 1
      BY <1>0, <1>1, <1>3, <1>4, <1>7, <3>1 DEF Answered
    <3>2. CASE k \in 1..Len(stdout)
      <4>1. Answered(stdout[k]) /\ stdout[k] \in pending
        BY <3>2 DEF CodexState, CodexSound, RequestsSound
      <4> QED BY <1>0, <1>3, <1>7, <1>9, <3>2, <4>1 DEF Answered
    <3> QED BY <1>7, <3>1, <3>2
  <2>3. \A k, l \in 1..Len(stdout') : stdout'[k] = stdout'[l] => k = l
    <3>1. \A k \in 1..Len(stdout) : stdout[k] # i
      BY <1>9 DEF CodexState, CodexSound, RequestsSound
    <3> QED BY <1>7, <3>1 DEF CodexState, CodexSound, RequestsSound
  <2> QED BY <1>10, <2>1, <2>2, <2>3 DEF RequestsSound
<1>12. GenerationsSound(Threads)'
  BY <1>0 DEF CodexState, CodexSound, GenerationsSound
<1> QED BY <1>0, <1>6, <1>8, <1>10, <1>11, <1>12
        DEF CodexKeeps, CodexState, CodexSound

\* PID 1 reads an answer: what follows from it is settled first, or is already
\* older than what is settled (observe_server).
LEMMA ObserveServerKeeps ==
  ASSUME CodexState, ObserveServer
  PROVE  CodexKeeps
<1> DEFINE i == Head(stdout)
           th == Thread(requests[i])
<1>0. /\ UNCHANGED records /\ UNCHANGED <<record, stated, heard>>
      /\ UNCHANGED <<runner, requests, forwarded, unconfirmed>>
      /\ runner.alive /\ confirming = 0 /\ stdout # <<>> /\ stdout' = Tail(stdout)
      /\ pending' = pending \ {i}
      /\ versions' = IF Updates(i) THEN [versions EXCEPT ![th] = i] ELSE versions
      /\ confirming' = IF Confirms(i) THEN i ELSE 0
      /\ shown' = IF Confirms(i) THEN shown ELSE shown \cup {i}
  BY DEF ObserveServer, records, Withholds
<1>1. RecordsTypeOK' /\ UNCHANGED Register!vars
  BY <1>0, StutterStep DEF CodexState
<1>2. /\ stdout \in Seq(1..MaxRequests) /\ stdout' \in Seq(1..MaxRequests)
      /\ i \in 1..MaxRequests /\ i = stdout[1] /\ 1 \in 1..Len(stdout)
      /\ Len(stdout) \in Nat
      /\ \A k \in 1..Len(stdout') :
           k + 1 \in 1..Len(stdout) /\ stdout'[k] = stdout[k + 1]
  <2>1. stdout \in Seq(1..MaxRequests)
    BY DEF CodexState, CodexTypeOK
  <2> QED BY <1>0, <2>1, QueueAfterRead
<1>3. Answered(i) /\ i \in pending
  BY <1>2 DEF CodexState, CodexSound, RequestsSound
<1>4. i \in 1..Len(requests) /\ requests[i].answer # "none"
  BY <1>3 DEF Answered
<1>5. i \in Nat /\ (Concerns(requests[i]) => th \in Threads)
  BY <1>4, RequestTyped
<1> HIDE DEF i, th
<1>6. CodexTypeOK' /\ Len(requests') <= MaxRequests
  <2>0. i \in 0..MaxRequests /\ 0 \in 0..MaxRequests
    BY <1>2, CodexAssumption
  <2>1. versions' \in [Threads -> 0..MaxRequests]
    BY <1>0, <2>0 DEF CodexState, CodexTypeOK
  <2>2. confirming' \in 0..MaxRequests
    BY <1>0, <2>0
  <2>3. shown' \subseteq 1..MaxRequests /\ pending' \subseteq 1..MaxRequests
    BY <1>0, <1>2 DEF CodexState, CodexTypeOK
  <2> QED BY <1>0, <1>2, <2>1, <2>2, <2>3 DEF CodexState, CodexTypeOK
<1>7. Confirms(i) => Updates(i)
  BY DEF Confirms
<1>8. Updates(i) => Concerns(requests[i]) /\ th \in Threads
  BY <1>5 DEF Updates
<1>9. /\ confirming' # 0 =>
           /\ Confirms(i) /\ confirming' = i /\ versions'[th] = i
  <2>1. Confirms(i) => versions'[th] = i
    BY <1>0, <1>7, <1>8 DEF CodexState, CodexTypeOK
  <2> QED BY <1>0, <2>1
<1>10. RequestsSound'
  <2>1. \A k \in 1..Len(requests') :
          /\ requests'[k].answer = "none" => k \in pending'
          /\ Concerns(requests'[k]) => k \in stated'[Thread(requests'[k])]
    BY <1>0, <1>4 DEF CodexState, CodexSound, RequestsSound
  <2>2. ASSUME NEW k \in 1..Len(stdout')
        PROVE  Answered(stdout[k])' /\ stdout'[k] \in pending'
    <3>1. /\ k + 1 \in 1..Len(stdout) /\ stdout'[k] = stdout[k + 1] /\ k + 1 # 1
      BY <1>2
    <3>2. Answered(stdout[k + 1]) /\ stdout[k + 1] \in pending
      BY <3>1 DEF CodexState, CodexSound, RequestsSound
    <3>3. stdout[k + 1] # i
      BY <1>2, <3>1 DEF CodexState, CodexSound, RequestsSound
    <3> QED BY <1>0, <3>1, <3>2, <3>3 DEF Answered
  <2>3. ASSUME NEW k \in 1..Len(stdout'), NEW l \in 1..Len(stdout'),
               stdout'[k] = stdout'[l]
        PROVE  k = l
    <3>1. /\ k + 1 \in 1..Len(stdout) /\ stdout'[k] = stdout[k + 1]
          /\ l + 1 \in 1..Len(stdout) /\ stdout'[l] = stdout[l + 1]
      BY <1>2
    <3>2. k + 1 = l + 1
      BY <2>3, <3>1 DEF CodexState, CodexSound, RequestsSound
    <3> QED BY <3>2
  <2>4. \A j \in shown' \cup unconfirmed' : Answered(j)'
    <3>1. \A j : Answered(j) => Answered(j)'
      BY <1>0 DEF Answered
    <3>2. \A j \in shown' \cup unconfirmed' : Answered(j)
      BY <1>0, <1>3, CodexTyped
    <3> QED BY <3>1, <3>2
  <2>5. confirming' # 0 =>
          /\ Answered(confirming)' /\ Concerns(requests'[confirming'])
          /\ versions'[Thread(requests'[confirming'])] = confirming'
    BY <1>0, <1>4, <1>7, <1>8, <1>9 DEF Answered, th
  <2> QED BY <2>1, <2>2, <2>3, <2>4, <2>5 DEF RequestsSound
<1>11. runner.kind = "adaptive" /\ runner.trusted =>
         \A t \in Threads : Settled(t, versions[t])
  BY <1>0 DEF CodexState, CodexSound, VersionsSettled
<1>12. VersionsSettled'
  <2> SUFFICES ASSUME runner.kind = "adaptive", runner.trusted, NEW t \in Threads
               PROVE  \/ Settled(t, versions[t])'
                      \/ /\ confirming' # 0 /\ versions'[t] = confirming'
                         /\ Thread(requests'[confirming']) = t
    BY <1>0 DEF VersionsSettled
  <2>1. CASE Updates(i) /\ t = th
    <3>1. Confirms(i)
      BY <2>1 DEF Confirms
    <3>2. confirming' = i /\ i # 0
      BY <1>0, <1>2, <3>1
    <3> QED BY <1>0, <1>9, <2>1, <3>2 DEF th
  <2>2. CASE ~(Updates(i) /\ t = th)
    <3>1. versions'[t] = versions[t]
      BY <1>0, <1>8, <2>2 DEF CodexState, CodexTypeOK
    <3> QED BY <1>0, <1>11, <3>1 DEF Settled
  <2> QED BY <2>1, <2>2
<1>13. ShownIsSettled'
  <2> SUFFICES ASSUME NEW j \in shown', runner.kind = "adaptive", runner.trusted,
                      Concerns(requests[j])
               PROVE  Settled(Thread(requests[j]), j)
    BY <1>0 DEF ShownIsSettled, Settled
  <2>1. CASE j \in shown
    BY <2>1 DEF CodexState, CodexSound, ShownIsSettled, Settled
  <2>2. CASE j = i /\ ~Confirms(i)
    <3>1. ~Updates(i)
      BY <2>2 DEF Confirms
    <3>2. th \in Threads /\ versions[th] \in Nat /\ heard[th] \in Nat
      BY <1>5, <2>2, CodexTyped
    <3>3. i < versions[th]
      BY <1>3, <1>5, <2>2, <3>1, <3>2 DEF Updates, th
    <3>4. Settled(th, versions[th])
      BY <1>11, <3>2
    <3>5. CASE heard[th] >= versions[th]
      BY <1>5, <2>2, <3>2, <3>3, <3>5 DEF Settled, th
    <3>6. CASE \E k \in unconfirmed : k >= versions[th] /\ Thread(requests[k]) = th
      <4>1. PICK k \in unconfirmed : k >= versions[th] /\ Thread(requests[k]) = th
        BY <3>6
      <4>2. k \in Nat
        BY CodexTyped
      <4>3. k >= i
        BY <1>5, <3>2, <3>3, <4>1, <4>2
      <4> QED BY <2>2, <4>1, <4>3 DEF Settled, th
    <3> QED BY <3>4, <3>5, <3>6 DEF Settled
  <2> QED BY <1>0, <2>1, <2>2
<1>14. GenerationsSound(Threads)'
  BY <1>0 DEF CodexState, CodexSound, GenerationsSound
<1> QED BY <1>0, <1>1, <1>6, <1>10, <1>12, <1>13, <1>14
        DEF CodexKeeps, CodexState, CodexSound

\* The supervisor carries out an update: it is newer than the record it keeps.
LEMMA AcceptedKeeps ==
  ASSUME CodexState, Accepted
  PROVE  CodexKeeps
<1> DEFINE q == requests[confirming]
           th == Thread(q)
<1>0. /\ UNCHANGED <<runner, requests, forwarded, pending, stdout, versions,
                     unconfirmed>>
      /\ confirming # 0 /\ confirming' = 0
      /\ shown' = IF runner.alive THEN shown \cup {confirming} ELSE shown
      /\ IF q.method \in Ends
         THEN Replace(th, confirming, 0, "ended", confirming)
         ELSE Replace(th, confirming, confirming, "active", confirming)
  BY DEF Accepted
<1>1. Answered(confirming) /\ Concerns(q) /\ versions[th] = confirming
  BY <1>0 DEF CodexState, CodexSound, RequestsSound
<1>2. confirming \in 1..Len(requests)
  BY <1>1 DEF Answered
<1>3. /\ confirming \in Nat /\ confirming \in 1..MaxRequests
      /\ th \in Threads /\ th \in Sessions
  BY <1>1, <1>2, RequestTyped
<1>4. confirming \in stated[th]
  BY <1>1, <1>2 DEF CodexState, CodexSound, RequestsSound
<1> HIDE DEF th, q
<1>5. PICK v \in {0, confirming}, st \in {"active", "ended"} :
        /\ st = "ended" => v = 0
        /\ Replace(th, confirming, v, st, confirming)
  BY <1>0
<1>6. confirming >= heard[th]
  <2>1. heard[th] \in Nat /\ record[th] \in Record
    BY <1>3, CodexTyped
  <2>2. /\ heard[th] <= record[th].generation
        /\ record[th].state = "none" => heard[th] = 0
    BY <1>3 DEF CodexState, CodexSound, GenerationsSound
  <2>3. record[th].state # "none" => confirming > record[th].generation
    BY <1>5 DEF Replace, Fresher
  <2>4. record[th].generation \in Nat
    BY <2>1 DEF Record
  <2> QED BY <1>3, <2>1, <2>2, <2>3, <2>4
<1>7. /\ RecordsTypeOK' /\ Register!Next /\ UNCHANGED stated
      /\ record'[th] = [state |-> st, generation |-> confirming, version |-> v]
      /\ heard'[th] = confirming
      /\ \A t \in Sessions : t # th =>
           record'[t] = record[t] /\ heard'[t] = heard[t]
  <2>1. UNCHANGED stated
    BY <1>5 DEF Replace
  <2>2. PICK n \in Nat, t0 \in Sessions : n = confirming /\ t0 = th
    BY <1>3
  <2>3. RecordsTypeOK /\ n \in stated[t0] /\ n >= heard[t0] /\ v \in {0, n}
    BY <1>4, <1>5, <1>6, <2>2 DEF CodexState
  <2>4. Replace(t0, n, v, st, n)
    BY <1>5, <2>2
  <2>5. RecordsTypeOK' /\ Register!Next
    BY <1>5, <2>3, <2>4, HearStep
  <2>6. /\ record'[t0] = [state |-> st, generation |-> n, version |-> v]
        /\ heard'[t0] = n
        /\ \A t \in Sessions : t # t0 =>
             record'[t] = record[t] /\ heard'[t] = heard[t]
    BY <2>3, <2>4 DEF Replace, RecordsTypeOK
  <2> QED BY <2>1, <2>2, <2>5, <2>6
<1>8. CodexTypeOK' /\ Len(requests') <= MaxRequests
  BY <1>0, <1>3, CodexAssumption DEF CodexState, CodexTypeOK
<1>9. GenerationsSound(Threads)'
  <2>1. \A t \in Threads : t \in Sessions
    BY DEF Sessions
  <2>2. /\ heard'[th] <= record'[th].generation /\ record'[th].state # "none"
    BY <1>3, <1>7
  <2> QED BY <1>7, <2>1, <2>2 DEF CodexState, CodexSound, GenerationsSound
<1>10. RequestsSound'
  <2>1. \A j : Answered(j) => Answered(j)'
    BY <1>0 DEF Answered
  <2>2. \A k \in 1..Len(stdout') : Answered(stdout[k])' /\ stdout'[k] \in pending'
    BY <1>0 DEF CodexState, CodexSound, RequestsSound, Answered
  <2>3. \A j \in shown' \cup unconfirmed' : Answered(j)'
    BY <1>0, <1>1, <2>1, CodexTyped
  <2>4. \A i \in 1..Len(requests') :
          /\ requests'[i].answer = "none" => i \in pending'
          /\ Concerns(requests'[i]) => i \in stated'[Thread(requests'[i])]
    BY <1>0, <1>7 DEF CodexState, CodexSound, RequestsSound
  <2> QED BY <1>0, <2>2, <2>3, <2>4 DEF CodexState, CodexSound, RequestsSound
<1>11. \A t \in Threads, i \in Nat : Settled(t, i) => Settled(t, i)'
  <2>1. \A t \in Threads : heard'[t] >= heard[t]
    BY <1>3, <1>6, <1>7, CodexTyped
  <2>2. unconfirmed \subseteq unconfirmed'
        /\ \A j : Answered(j) => requests'[j] = requests[j]
    BY <1>0
  <2> QED BY <1>7, <2>1, <2>2, SettledKept
<1>12. VersionsSettled'
  <2> SUFFICES ASSUME runner.alive, runner.kind = "adaptive", runner.trusted,
                      NEW t \in Threads
               PROVE  Settled(t, versions[t])'
    BY <1>0 DEF VersionsSettled
  <2>1. CASE t = th
    BY <1>0, <1>1, <1>3, <1>7, <2>1 DEF Settled, th, q
  <2>2. CASE t # th
    <3>1. Settled(t, versions[t]) /\ versions[t] \in Nat
      BY <2>2, CodexTyped DEF CodexState, CodexSound, VersionsSettled, th, q
    <3>2. \A i \in Nat : i = versions[t] => Settled(t, i)'
      BY <1>11, <3>1
    <3> QED BY <1>0, <3>1, <3>2 DEF Settled
  <2> QED BY <2>1, <2>2
<1>13. ShownIsSettled'
  <2> SUFFICES ASSUME NEW j \in shown', runner.kind = "adaptive", runner.trusted,
                      Concerns(requests[j])
               PROVE  Settled(Thread(requests[j]), j)'
    BY <1>0 DEF ShownIsSettled, Settled
  <2>1. CASE j \in shown
    <3>1. Settled(Thread(requests[j]), j)
      BY <2>1 DEF CodexState, CodexSound, ShownIsSettled, Settled
    <3>2. Thread(requests[j]) \in Threads /\ j \in Nat
      BY <2>1, CodexTyped, RequestTyped
    <3>3. \A t \in Threads : t = Thread(requests[j]) => Settled(t, j)'
      BY <1>11, <3>1, <3>2
    <3> QED BY <1>0, <3>2, <3>3 DEF Settled
  <2>2. CASE j = confirming
    BY <1>0, <1>3, <1>7, <2>2 DEF Settled, th, q
  <2> QED BY <1>0, <2>1, <2>2
<1>14. \A c \in Conversations : record'[c] = record[c]
  BY <1>3, <1>7, SessionsAssumption DEF Sessions
<1> QED BY <1>7, <1>8, <1>9, <1>10, <1>12, <1>13, <1>14
        DEF CodexKeeps, CodexState, CodexSound

\* The supervisor refuses an update, or does not answer in time.
LEMMA UnconfirmedKeeps ==
  ASSUME CodexState, Refused \/ ConfirmTimesOut
  PROVE  CodexKeeps
<1>0. /\ UNCHANGED records /\ UNCHANGED <<record, stated, heard>>
      /\ UNCHANGED <<requests, forwarded, pending, stdout, versions>>
      /\ confirming # 0 /\ confirming' \in {0, confirming}
  BY DEF Refused, ConfirmTimesOut, records
<1>1. RecordsTypeOK' /\ UNCHANGED Register!vars
  BY <1>0, StutterStep DEF CodexState
<1>2. /\ Answered(confirming) /\ Concerns(requests[confirming])
      /\ versions[Thread(requests[confirming])] = confirming
  BY <1>0 DEF CodexState, CodexSound, RequestsSound
<1>3. confirming \in 1..Len(requests)
  BY <1>2 DEF Answered
<1>4. /\ confirming \in 1..MaxRequests /\ confirming \in Nat
      /\ Thread(requests[confirming]) \in Threads
  BY <1>2, <1>3, RequestTyped
<1>5. /\ shown' \in {shown, shown \cup {confirming}}
      /\ unconfirmed' \in {unconfirmed, unconfirmed \cup {confirming}}
      /\ runner' \in {runner, [runner EXCEPT !.alive = FALSE]}
  BY DEF Refused, ConfirmTimesOut
<1>6. /\ runner' \in Runner
      /\ runner'.kind = runner.kind
      /\ runner'.trusted <=> runner.trusted
  <2>1. runner \in Runner
    BY DEF CodexState, CodexTypeOK
  <2>2. runner' \in Runner
    BY <1>5, <2>1 DEF Runner
  <2>3. runner'.kind = runner.kind
    BY <1>5, <2>1 DEF Runner
  <2>4. runner'.trusted <=> runner.trusted
    BY <1>5, <2>1 DEF Runner
  <2> QED BY <2>2, <2>3, <2>4
<1>7. CodexTypeOK' /\ Len(requests') <= MaxRequests
  BY <1>0, <1>4, <1>5, <1>6, CodexAssumption DEF CodexState, CodexTypeOK
<1>8. GenerationsSound(Threads)'
  BY <1>0 DEF CodexState, CodexSound, GenerationsSound
<1>9. RequestsSound'
  <2>1. \A j : Answered(j) => Answered(j)'
    BY <1>0 DEF Answered
  <2>2. \A k \in 1..Len(stdout') : Answered(stdout[k])' /\ stdout'[k] \in pending'
    BY <1>0 DEF CodexState, CodexSound, RequestsSound, Answered
  <2>3. \A j \in shown' \cup unconfirmed' : Answered(j)'
    BY <1>2, <1>5, <2>1, CodexTyped
  <2>4. \A i \in 1..Len(requests') :
          /\ requests'[i].answer = "none" => i \in pending'
          /\ Concerns(requests'[i]) => i \in stated'[Thread(requests'[i])]
    BY <1>0 DEF CodexState, CodexSound, RequestsSound
  <2>5. confirming' # 0 =>
          /\ Answered(confirming)' /\ Concerns(requests'[confirming'])
          /\ versions'[Thread(requests'[confirming'])] = confirming'
    BY <1>0, <1>2 DEF Answered
  <2> QED BY <1>0, <2>2, <2>3, <2>4, <2>5 DEF CodexState, CodexSound, RequestsSound
<1>10. \A t \in Threads, i \in Nat : Settled(t, i) => Settled(t, i)'
  <2>1. \A t \in Threads : heard'[t] >= heard[t]
    BY <1>0, CodexTyped
  <2>2. unconfirmed \subseteq unconfirmed'
        /\ \A j : Answered(j) => requests'[j] = requests[j]
    BY <1>0, <1>5
  <2> QED BY <1>1, <2>1, <2>2, SettledKept
<1>11. CASE Refused
  <2>0. /\ confirming' = 0 /\ shown' = shown \cup {confirming}
        /\ unconfirmed' = unconfirmed \cup {confirming} /\ UNCHANGED runner
    BY <1>11 DEF Refused
  <2>1. \A t \in Threads, n \in Nat :
          t = Thread(requests[confirming]) /\ n = confirming => Settled(t, n)'
    BY <1>0, <2>0 DEF Settled
  <2>2. VersionsSettled'
    <3> SUFFICES ASSUME runner.alive, runner.kind = "adaptive", runner.trusted,
                        NEW t \in Threads
                 PROVE  Settled(t, versions[t])'
      BY <2>0 DEF VersionsSettled
    <3>1. versions[t] \in Nat
      BY CodexTyped
    <3>2. \A n \in Nat : n = versions[t] => Settled(t, n)'
      BY <1>10, <2>1, <3>1 DEF CodexState, CodexSound, VersionsSettled
    <3> QED BY <1>0, <3>1, <3>2 DEF Settled
  <2>3. ShownIsSettled'
    <3> SUFFICES ASSUME NEW j \in shown', runner.kind = "adaptive",
                        runner.trusted, Concerns(requests[j])
                 PROVE  Settled(Thread(requests[j]), j)'
      BY <1>0, <2>0 DEF ShownIsSettled, Settled
    <3>1. Thread(requests[j]) \in Threads /\ j \in Nat
      BY <1>4, <2>0, CodexTyped, RequestTyped
    <3>2. \A t \in Threads : t = Thread(requests[j]) => Settled(t, j)'
      <4>1. CASE j \in shown
        BY <1>10, <3>1, <4>1 DEF CodexState, CodexSound, ShownIsSettled, Settled
      <4>2. CASE j = confirming
        BY <2>1, <3>1, <4>2
      <4> QED BY <2>0, <4>1, <4>2
    <3> QED BY <1>0, <3>1, <3>2 DEF Settled
  <2> QED BY <1>0, <1>1, <1>7, <1>8, <1>9, <2>2, <2>3
          DEF CodexKeeps, CodexState, CodexSound
<1>12. CASE ConfirmTimesOut
  <2>0. /\ UNCHANGED <<shown, unconfirmed>>
        /\ runner' = [runner EXCEPT !.alive = FALSE]
    BY <1>12 DEF ConfirmTimesOut
  <2>1. VersionsSettled'
    <3>1. ~runner'.alive
      BY <2>0 DEF CodexState, CodexTypeOK, Runner
    <3> QED BY <3>1 DEF VersionsSettled
  <2>2. ShownIsSettled'
    BY <1>0, <1>6, <2>0 DEF CodexState, CodexSound, ShownIsSettled
  <2> QED BY <1>0, <1>1, <1>7, <1>8, <1>9, <2>1, <2>2
          DEF CodexKeeps, CodexState, CodexSound
<1> QED BY <1>11, <1>12

\* Every step of PID 1, the app-server and the supervisor.
LEMMA CodexNextKeeps ==
  ASSUME CodexState, CodexNext
  PROVE  CodexKeeps
<1>1. ASSUME NEW m \in Methods, NEW t \in Threads \cup {NoThread},
             ObserveClient(m, t)
      PROVE  CodexKeeps
  BY <1>1, ObserveClientKeeps
<1>2. CASE ForwardRequest
  BY <1>2, ForwardRequestKeeps
<1>3. ASSUME NEW i \in 1..Len(requests), AppServerAnswers(i)
      PROVE  CodexKeeps
  BY <1>3, AppServerAnswersKeeps
<1>4. CASE ObserveServer
  BY <1>4, ObserveServerKeeps
<1>5. CASE Accepted
  BY <1>5, AcceptedKeeps
<1>6. CASE Refused \/ ConfirmTimesOut
  BY <1>6, UnconfirmedKeeps
<1> QED BY <1>1, <1>2, <1>3, <1>4, <1>5, <1>6 DEF CodexNext


----------------------------------------------------------------------------
(* Hermes: the plugin in the client's own process. *)

HermesState == RecordsTypeOK /\ HermesTypeOK /\ HermesSound

\* What a step of the plugin or of the supervisor must leave behind.
HermesKeeps ==
  HermesState' /\ (Register!Next \/ UNCHANGED Register!vars)

Workspace == Workspaces \cup {NoWorkspace}

\* What is known of the statements and the records of a conversation.
LEMMA HermesTyped ==
  ASSUME HermesState, NEW c \in Conversations
  PROVE  /\ c \in Sessions /\ record[c] \in Record /\ heard[c] \in Nat
         /\ statements[c] \in Seq(Workspace) /\ Len(statements[c]) \in Nat
         /\ InForce[c] \in Nat /\ InForce[c] <= Len(statements[c])
         /\ stated[c] = 0..Len(statements[c])
<1>1. c \in Sessions
  BY DEF Sessions
<1>2. record[c] \in Record /\ heard[c] \in Nat
  BY <1>1 DEF HermesState, RecordsTypeOK
<1>3. statements[c] \in Seq(Workspace)
  BY DEF HermesState, HermesTypeOK, Workspace
<1>4. Len(statements[c]) \in Nat
  BY <1>3
<1>5. stated[c] = 0..Len(statements[c]) /\ InForce[c] \in 0..Len(statements[c])
  BY DEF HermesState, HermesSound, StatementsSound
<1> QED BY <1>1, <1>2, <1>3, <1>4, <1>5

\* A request on the wire is typed, and says what was stated.
LEMMA WireTyped ==
  ASSUME HermesState, NEW k \in 1..Len(wire)
  PROVE  /\ wire[k] \in Statement /\ wire[k].conversation \in Conversations
         /\ wire[k].generation \in Nat /\ wire[k].generation >= 1
         /\ wire[k].generation <= Len(statements[wire[k].conversation])
         /\ statements[wire[k].conversation][wire[k].generation] = wire[k].workspace
         /\ wire[k].state \in {"active", "ended"}
<1>1. wire[k] \in Statement
  BY DEF HermesState, HermesTypeOK
<1>2. /\ wire[k].conversation \in Conversations
      /\ wire[k].generation \in Nat /\ wire[k].generation >= 1
      /\ wire[k].state \in {"active", "ended"}
  BY <1>1, HermesAssumption DEF Statement
<1> QED BY <1>1, <1>2 DEF HermesState, HermesSound, StatementsSound

\* _replace_workspace_session, at the start of a turn or at the end of a
\* conversation: the plugin forgets only what it says is over.
LEMMA SendKeeps ==
  ASSUME HermesState, NEW c \in Conversations, NEW w \in Workspace,
         NEW st \in {"active", "ended"}, SendStatement(c, w, st), call = {},
         UNCHANGED <<record, heard, hookToken, unended>>,
         hooked' \in [Conversations -> Workspace],
         \/ confirmed' = confirmed
         \/ st = "ended" /\ confirmed' = Forgotten(confirmed, c)
  PROVE  HermesKeeps
<1> DEFINE g == Len(statements[c]) + 1
           e == [conversation |-> c, generation |-> g, workspace |-> w,
                 state |-> st]
<1>0. /\ g <= MaxGenerations /\ States(c, g)
      /\ statements' = [statements EXCEPT ![c] = Append(statements[c], w)]
      /\ \/ /\ channel \in {"none", "open"}
            /\ channel' = "open" /\ wire' = Append(wire, e) /\ call' = {e}
         \/ /\ channel = "deaf"
            /\ wire' = Append(wire, e)
            /\ UNCHANGED <<channel, call>>
         \/ /\ channel \in {"none", "lost"}
            /\ UNCHANGED <<channel, wire, call>>
  BY DEF SendStatement
<1>1. g \in 1..MaxGenerations /\ g \in Nat /\ g = Len(statements[c]) + 1
  BY <1>0, HermesTyped, HermesAssumption
<1>2. /\ e \in Statement /\ e.conversation = c /\ e.generation = g
      /\ e.workspace = w /\ e.state = st
  BY <1>1 DEF Statement, Workspace
<1>3. /\ RecordsTypeOK' /\ Register!Next
      /\ stated'[c] = stated[c] \cup {g}
      /\ \A t \in Sessions : t # c => stated'[t] = stated[t]
  <2>1. c \in Sessions /\ g \in 0..(MaxChanges + MaxRequests + MaxGenerations)
    BY <1>1, HermesTyped, McpAssumption, CodexAssumption, HermesAssumption
  <2>2. PICK n \in 0..(MaxChanges + MaxRequests + MaxGenerations) : n = g
    BY <2>1
  <2>3. RecordsTypeOK /\ States(c, n)
    BY <1>0, <2>2 DEF HermesState
  <2>4. /\ RecordsTypeOK' /\ Register!Next
        /\ stated'[c] = stated[c] \cup {n}
        /\ \A t \in Sessions : t # c => stated'[t] = stated[t]
    BY <2>1, <2>3, StateStep
  <2> QED BY <2>2, <2>4
<1>4. /\ statements' \in [Conversations -> Seq(Workspace)]
      /\ Len(statements'[c]) = g /\ statements'[c][g] = w
      /\ \A k \in 1..Len(statements[c]) : statements'[c][k] = statements[c][k]
      /\ \A d \in Conversations : d # c => statements'[d] = statements[d]
  <2>1. statements \in [Conversations -> Seq(Workspace)]
    BY DEF HermesState, HermesTypeOK, Workspace
  <2>2. /\ Append(statements[c], w) \in Seq(Workspace)
        /\ Len(Append(statements[c], w)) = g /\ Append(statements[c], w)[g] = w
        /\ \A k \in 1..Len(statements[c]) :
             Append(statements[c], w)[k] = statements[c][k]
    BY <2>1, QueueAfterSend
  <2> HIDE DEF g, e
  <2>3. statements'[c] = Append(statements[c], w)
    BY <1>0, <2>1
  <2> QED BY <1>0, <2>1, <2>2, <2>3
<1> HIDE DEF g, e
<1>5. UNCHANGED InForce
  BY DEF InForce
<1>6. \A d \in Conversations :
        /\ Len(statements'[d]) >= Len(statements[d])
        /\ \A k \in Nat : k >= 1 /\ k <= Len(statements[d]) =>
             statements'[d][k] = statements[d][k]
  <2> TAKE d \in Conversations
  <2>1. Len(statements[d]) \in Nat /\ Len(statements[c]) \in Nat
    BY HermesTyped
  <2>2. CASE d = c
    BY <1>1, <1>4, <2>1, <2>2
  <2>3. CASE d # c
    BY <1>4, <2>1, <2>3
  <2> QED BY <2>2, <2>3
<1>7. wire \in Seq(Statement) /\ wire' \in Seq(Statement)
      /\ \A k \in 1..Len(wire') :
           \/ wire'[k] = e
           \/ k \in 1..Len(wire) /\ wire'[k] = wire[k]
  <2>1. wire \in Seq(Statement)
    BY DEF HermesState, HermesTypeOK
  <2>2. CASE wire' = Append(wire, e)
    BY <1>2, <2>1, <2>2, QueueAfterSend
  <2> QED BY <1>0, <2>1, <2>2
<1>8. HermesTypeOK'
  <2>1. confirmed' \in [Conversations -> Workspace]
    BY DEF HermesState, HermesTypeOK, Workspace, Forgotten
  <2>2. channel' \in {"none", "open", "deaf", "lost"} /\ call' \subseteq Statement
    BY <1>0, <1>2 DEF HermesState, HermesTypeOK
  <2> QED BY <1>4, <1>7, <2>1, <2>2 DEF HermesState, HermesTypeOK, Workspace
<1>9. GenerationsSound(Conversations)'
  BY DEF HermesState, HermesSound, GenerationsSound
<1>10. StatementsSound'
  <2>1. ASSUME NEW d \in Conversations
        PROVE  /\ stated'[d] = 0..Len(statements'[d])
               /\ InForce'[d] \in 0..Len(statements'[d])
    <3>1. /\ d \in Sessions /\ Len(statements[d]) \in Nat
          /\ stated[d] = 0..Len(statements[d])
          /\ InForce[d] \in Nat /\ InForce[d] <= Len(statements[d])
      BY HermesTyped
    <3>2. CASE d = c
      <4>1. \A n \in Nat : (0..n) \cup {n + 1} = 0..(n + 1)
        OBVIOUS
      <4>2. stated'[d] = 0..Len(statements'[d])
        BY <1>1, <1>3, <1>4, <3>1, <3>2, <4>1
      <4>3. InForce'[d] = InForce[d]
        BY <1>5
      <4> QED BY <1>1, <1>4, <3>1, <3>2, <4>2, <4>3
    <3>3. CASE d # c
      BY <1>3, <1>4, <1>5, <3>1, <3>3
    <3> QED BY <3>2, <3>3
  <2>2. ASSUME NEW k \in 1..Len(wire')
        PROVE  /\ wire'[k].generation <= Len(statements'[wire'[k].conversation])
               /\ statements'[wire'[k].conversation][wire'[k].generation]
                    = wire'[k].workspace
    <3>1. CASE wire'[k] = e
      BY <1>1, <1>2, <1>4, <3>1
    <3>2. CASE k \in 1..Len(wire) /\ wire'[k] = wire[k]
      <4>1. /\ wire[k].conversation \in Conversations
            /\ wire[k].generation \in Nat /\ wire[k].generation >= 1
            /\ wire[k].generation <= Len(statements[wire[k].conversation])
            /\ statements[wire[k].conversation][wire[k].generation]
                 = wire[k].workspace
        BY <3>2, WireTyped
      <4>2. /\ Len(statements[wire[k].conversation]) \in Nat
            /\ Len(statements'[wire[k].conversation]) \in Nat
        BY <1>4, <4>1, HermesTyped
      <4> QED BY <1>6, <3>2, <4>1, <4>2
    <3> QED BY <1>7, <3>1, <3>2
  <2> QED BY <2>1, <2>2 DEF StatementsSound
<1>11. KnownOrEnding'
  <2> SUFFICES ASSUME channel' \in {"none", "open"}
               PROVE  KnownOrEnding'
    BY DEF KnownOrEnding
  <2>1. /\ channel \in {"none", "open"} /\ wire = <<>>
        /\ channel = "none" => \A d \in Conversations : InForce[d] = 0
        /\ \A d \in Conversations :
             InForce[d] # 0 => \/ confirmed[d] = statements[d][InForce[d]]
                              \/ d \in unended
    BY <1>0 DEF HermesState, HermesSound, KnownOrEnding
  <2>2. \A d \in Conversations : InForce[d] # 0 =>
          statements'[d][InForce[d]] = statements[d][InForce[d]]
    <3> SUFFICES ASSUME NEW d \in Conversations, InForce[d] # 0
                 PROVE  statements'[d][InForce[d]] = statements[d][InForce[d]]
      OBVIOUS
    <3>1. InForce[d] \in Nat /\ InForce[d] <= Len(statements[d])
      BY HermesTyped
    <3> QED BY <1>6, <3>1
  <2>3. \A d \in Conversations :
          \/ confirmed'[d] = confirmed[d]
          \/ st = "ended" /\ d = c
    BY DEF HermesState, HermesTypeOK, Forgotten
  <2>4. CASE UNCHANGED <<channel, wire, call>>
    BY <1>0, <1>5, <2>1, <2>4 DEF KnownOrEnding
  <2>5. CASE channel' = "open" /\ wire' = Append(wire, e) /\ call' = {e}
    <3>1. wire' = <<e>>
      BY <2>1, <2>5
    <3> QED BY <1>2, <1>5, <2>1, <2>2, <2>3, <2>5, <3>1 DEF KnownOrEnding
  <2> QED BY <1>0, <2>1, <2>4, <2>5
<1> QED BY <1>3, <1>8, <1>9, <1>10, <1>11 DEF HermesKeeps, HermesState, HermesSound

\* The plugin states a workspace before a turn, and ends it with the
\* conversation if it knows of one.
LEMMA PluginKeeps ==
  ASSUME HermesState,
         \/ \E c \in Conversations, w \in Workspaces : BeginTurn(c, w)
         \/ \E c \in Conversations : EndConversation(c)
  PROVE  HermesKeeps
<1>1. hooked \in [Conversations -> Workspace] /\ confirmed \in [Conversations -> Workspace]
  BY DEF HermesState, HermesTypeOK, Workspace
<1>2. ASSUME NEW c \in Conversations, NEW w \in Workspaces, BeginTurn(c, w)
      PROVE  HermesKeeps
  <2>1. /\ SendStatement(c, w, "active") /\ call = {} /\ confirmed' = confirmed
        /\ UNCHANGED <<record, heard, hookToken, unended>> /\ w \in Workspace
    BY <1>2 DEF BeginTurn, Workspace
  <2>2. hooked' \in [Conversations -> Workspace]
    BY <1>1, <1>2, <2>1 DEF BeginTurn
  <2> QED BY <2>1, <2>2, SendKeeps
<1>3. ASSUME NEW c \in Conversations, EndConversation(c)
      PROVE  HermesKeeps
  <2>0. /\ call = {} /\ confirmed' = Forgotten(confirmed, c)
        /\ hooked' = Forgotten(hooked, c)
        /\ UNCHANGED <<record, heard, hookToken, unended>>
        /\ IF confirmed[c] # NoWorkspace
           THEN SendStatement(c, NoWorkspace, "ended")
           ELSE UNCHANGED <<stated, statements, channel, wire, call>>
    BY <1>3 DEF EndConversation
  <2>1. hooked' \in [Conversations -> Workspace] /\ NoWorkspace \in Workspace
    BY <1>1, <2>0 DEF Forgotten, Workspace
  <2>2. CASE confirmed[c] # NoWorkspace
    BY <2>0, <2>1, <2>2, SendKeeps
  <2>3. CASE confirmed[c] = NoWorkspace
    <3>0. /\ UNCHANGED <<stated, statements, channel, wire, call>>
          /\ UNCHANGED records /\ confirmed' = confirmed /\ UNCHANGED InForce
          /\ UNCHANGED unended
      BY <1>1, <2>0, <2>3 DEF Forgotten, records, InForce
    <3>1. RecordsTypeOK' /\ UNCHANGED Register!vars
      BY <3>0, StutterStep DEF HermesState
    <3>2. HermesTypeOK'
      BY <2>0, <2>1, <3>0 DEF HermesState, HermesTypeOK, Workspace
    <3>3. GenerationsSound(Conversations)'
      BY <2>0 DEF HermesState, HermesSound, GenerationsSound
    <3>4. StatementsSound'
      BY <3>0 DEF HermesState, HermesSound, StatementsSound
    <3>5. KnownOrEnding'
      BY <3>0 DEF HermesState, HermesSound, KnownOrEnding
    <3> QED BY <3>1, <3>2, <3>3, <3>4, <3>5
            DEF HermesKeeps, HermesState, HermesSound
  <2> QED BY <2>2, <2>3
<1> QED BY <1>2, <1>3

\* A request is carried out.  As long as no answer got lost, it is the only one
\* under way, and the plugin hears of it.
LEMMA CarryOutKeeps ==
  ASSUME HermesState, CarryOut
  PROVE  HermesKeeps
<1>0. /\ wire # <<>> /\ wire' = Tail(wire)
      /\ UNCHANGED <<hookToken, hooked, statements, channel>>
  BY DEF CarryOut
<1>1. /\ wire \in Seq(Statement) /\ wire' \in Seq(Statement)
      /\ Head(wire) \in Statement /\ Head(wire) = wire[1] /\ 1 \in 1..Len(wire)
      /\ \A k \in 1..Len(wire') :
           k + 1 \in 1..Len(wire) /\ wire'[k] = wire[k + 1]
  <2>1. wire \in Seq(Statement)
    BY DEF HermesState, HermesTypeOK
  <2> QED BY <1>0, <2>1, QueueAfterRead
<1>2. PICK e \in Statement : e = Head(wire)
  BY <1>1
<1>3. PICK c \in Conversations, g \in Nat, st \in {"active", "ended"} :
        /\ e.conversation = c /\ e.generation = g /\ e.state = st /\ g >= 1
        /\ g <= Len(statements[c]) /\ statements[c][g] = e.workspace
  <2>1. /\ e.conversation \in Conversations
        /\ e.generation \in Nat /\ e.generation >= 1
        /\ e.generation <= Len(statements[e.conversation])
        /\ statements[e.conversation][e.generation] = e.workspace
        /\ e.state \in {"active", "ended"}
    BY <1>1, <1>2, WireTyped
  <2> QED BY <2>1
<1>4. PICK v \in {0, g} : v = IF st = "active" THEN g ELSE 0
  OBVIOUS
<1>5. /\ Replace(c, g, v, st, g) /\ call' = call \ {e}
      /\ confirmed' = IF e \in call /\ st = "active"
           THEN [confirmed EXCEPT ![c] = e.workspace] ELSE confirmed
      /\ unended' = unended \ {c}
  BY <1>2, <1>3, <1>4 DEF CarryOut
<1>6. /\ c \in Sessions /\ record[c] \in Record /\ heard[c] \in Nat
      /\ Len(statements[c]) \in Nat /\ stated[c] = 0..Len(statements[c])
  BY HermesTyped
<1>7. g \in stated[c] /\ g >= heard[c]
  <2>1. /\ heard[c] <= record[c].generation
        /\ record[c].state = "none" => heard[c] = 0
    BY DEF HermesState, HermesSound, GenerationsSound
  <2>2. record[c].state # "none" => g > record[c].generation
    BY <1>5 DEF Replace, Fresher
  <2>3. record[c].generation \in Nat
    BY <1>6 DEF Record
  <2> QED BY <1>3, <1>6, <2>1, <2>2, <2>3
<1>8. RecordsTypeOK' /\ Register!Next
  <2>1. RecordsTypeOK /\ (st = "ended" => v = 0)
    BY <1>4 DEF HermesState
  <2> QED BY <1>5, <1>6, <1>7, <2>1, HearStep
<1>9. /\ record'[c] = [state |-> st, generation |-> g, version |-> v]
      /\ heard'[c] = g /\ UNCHANGED stated
      /\ \A t \in Sessions : t # c =>
           record'[t] = record[t] /\ heard'[t] = heard[t]
  BY <1>5, <1>6 DEF Replace, HermesState, RecordsTypeOK
<1>10. /\ InForce'[c] = v
       /\ \A t \in Sessions : t # c => InForce'[t] = InForce[t]
  BY <1>4, <1>6, <1>9 DEF InForce
<1>11. HermesTypeOK'
  <2>1. e.workspace \in Workspace
    BY DEF Statement, Workspace
  <2>2. confirmed' \in [Conversations -> Workspace]
    BY <1>5, <2>1 DEF HermesState, HermesTypeOK, Workspace
  <2> QED BY <1>0, <1>1, <1>5, <2>2 DEF HermesState, HermesTypeOK, Workspace
<1>12. \A d \in Conversations : d \in Sessions
  BY DEF Sessions
<1>13. GenerationsSound(Conversations)'
  <2>1. heard'[c] <= record'[c].generation /\ record'[c].state # "none"
    BY <1>9
  <2> QED BY <1>9, <1>12, <2>1 DEF HermesState, HermesSound, GenerationsSound
<1>14. StatementsSound'
  <2>1. \A d \in Conversations : InForce'[d] \in 0..Len(statements[d])
    <3>1. v \in 0..Len(statements[c])
      BY <1>3, <1>4, <1>6
    <3> QED BY <1>10, <1>12, <3>1 DEF HermesState, HermesSound, StatementsSound
  <2>2. \A k \in 1..Len(wire') :
          /\ wire'[k].generation <= Len(statements[wire'[k].conversation])
          /\ statements[wire'[k].conversation][wire'[k].generation]
               = wire'[k].workspace
    BY <1>1, WireTyped
  <2> QED BY <1>0, <1>9, <2>1, <2>2
          DEF HermesState, HermesSound, StatementsSound
<1>15. KnownOrEnding'
  <2> SUFFICES ASSUME channel \in {"none", "open"}
               PROVE  KnownOrEnding'
    BY <1>0 DEF KnownOrEnding
  <2>1. PICK f \in Statement : channel = "open" /\ call = {f} /\ wire = <<f>>
    BY <1>0 DEF HermesState, HermesSound, KnownOrEnding
  <2>2. f = e /\ wire' = <<>>
    BY <1>0, <1>2, <2>1
  <2>3. call' = {} /\ call = {e}
    BY <1>5, <2>1, <2>2
  <2>4. ASSUME NEW d \in Conversations, InForce'[d] # 0
        PROVE  confirmed'[d] = statements[d][InForce'[d]] \/ d \in unended'
    <3>1. CASE d = c
      <4>1. st = "active" /\ v = g
        BY <1>4, <1>10, <2>4, <3>1
      <4> QED BY <1>3, <1>5, <1>10, <2>3, <3>1, <4>1
              DEF HermesState, HermesTypeOK
    <3>2. CASE d # c
      <4>1. InForce'[d] = InForce[d] /\ InForce[d] # 0
        BY <1>10, <1>12, <2>4, <3>2
      <4>2. confirmed[d] = statements[d][InForce[d]] \/ d \in unended
        BY <1>3, <2>1, <2>3, <3>2, <4>1
        DEF HermesState, HermesSound, KnownOrEnding
      <4>3. confirmed'[d] = confirmed[d]
        BY <1>5, <3>2 DEF HermesState, HermesTypeOK
      <4>4. d \in unended => d \in unended'
        BY <1>5, <3>2
      <4> QED BY <4>1, <4>2, <4>3, <4>4
    <3> QED BY <3>1, <3>2
  <2> QED BY <1>0, <2>1, <2>2, <2>3, <2>4 DEF KnownOrEnding
<1> QED BY <1>8, <1>11, <1>13, <1>14, <1>15
        DEF HermesKeeps, HermesState, HermesSound

\* An answer that does not come, a request turned down, a connection closed:
\* nothing is put in force.
LEMMA LostAnswerKeeps ==
  ASSUME HermesState, AnswerTimesOut \/ TurnDown \/ CloseChannel
  PROVE  HermesKeeps
<1>0. /\ UNCHANGED records /\ UNCHANGED <<record, stated, heard>>
      /\ UNCHANGED <<hookToken, confirmed, hooked, statements>>
      /\ UNCHANGED InForce
  BY DEF AnswerTimesOut, TurnDown, CloseChannel, records, InForce
<1>1. RecordsTypeOK' /\ UNCHANGED Register!vars
  BY <1>0, StutterStep DEF HermesState
<1>2. wire \in Seq(Statement)
  BY DEF HermesState, HermesTypeOK
<1>3. /\ wire' \in Seq(Statement)
      /\ \A k \in 1..Len(wire') : \E l \in 1..Len(wire) : wire'[k] = wire[l]
  <2>1. CASE wire' = wire
    BY <1>2, <2>1
  <2>2. CASE wire # <<>> /\ wire' = Tail(wire)
    BY <1>2, <2>2, QueueAfterRead
  <2>3. CASE wire' = <<>>
    BY <2>3
  <2> QED BY <2>1, <2>2, <2>3 DEF AnswerTimesOut, TurnDown, CloseChannel
<1>4. HermesTypeOK'
  <2>1. channel' \in {"none", "open", "deaf", "lost"} /\ call' \subseteq Statement
    BY DEF AnswerTimesOut, TurnDown, CloseChannel, HermesState, HermesTypeOK
  <2>2. unended' \subseteq Conversations
    <3>0. unended \subseteq Conversations
      BY DEF HermesState, HermesTypeOK
    <3>1. CASE AnswerTimesOut \/ CloseChannel
      BY <3>0, <3>1 DEF AnswerTimesOut, CloseChannel
    <3>2. CASE TurnDown
      <4>1. wire # <<>> /\ unended' \subseteq unended \cup {Head(wire).conversation}
        BY <3>2 DEF TurnDown
      <4>2. Head(wire) \in Statement
        BY <1>2, <4>1, QueueAfterRead
      <4>3. \A e \in Statement : e.conversation \in Conversations
        BY DEF Statement
      <4> QED BY <3>0, <4>1, <4>2, <4>3
    <3> QED BY <3>1, <3>2
  <2> QED BY <1>0, <1>3, <2>1, <2>2 DEF HermesState, HermesTypeOK
<1>5. GenerationsSound(Conversations)'
  BY <1>0 DEF HermesState, HermesSound, GenerationsSound
<1>6. StatementsSound'
  <2>1. \A k \in 1..Len(wire') :
          /\ wire'[k].generation <= Len(statements[wire'[k].conversation])
          /\ statements[wire'[k].conversation][wire'[k].generation]
               = wire'[k].workspace
    BY <1>3, WireTyped
  <2> QED BY <1>0, <2>1 DEF HermesState, HermesSound, StatementsSound
<1>7. KnownOrEnding'
  <2>1. CASE AnswerTimesOut \/ CloseChannel
    BY <2>1 DEF AnswerTimesOut, CloseChannel, KnownOrEnding
  <2>2. CASE TurnDown /\ channel \in {"none", "open"}
    <3>0. /\ wire # <<>> /\ wire' = Tail(wire)
          /\ call' = call \ {Head(wire)} /\ UNCHANGED channel
          /\ unended \subseteq unended'
          /\ Head(wire).state = "ended" => Head(wire).conversation \in unended'
      BY <2>2 DEF TurnDown
    <3>1. PICK f \in Statement : channel = "open" /\ call = {f} /\ wire = <<f>>
      BY <2>2, <3>0 DEF HermesState, HermesSound, KnownOrEnding
    <3>2. f = Head(wire) /\ wire' = <<>>
      BY <3>0, <3>1
    <3>3. call' = {}
      BY <3>0, <3>1, <3>2
    <3>4. \A c \in Conversations :
            InForce[c] # 0 => confirmed[c] = statements[c][InForce[c]] \/ c \in unended'
      BY <2>2, <3>0, <3>1, <3>2 DEF HermesState, HermesSound, KnownOrEnding
    <3> QED BY <1>0, <3>0, <3>1, <3>2, <3>3, <3>4 DEF KnownOrEnding
  <2>3. CASE TurnDown /\ channel \notin {"none", "open"}
    BY <2>3 DEF TurnDown, KnownOrEnding
  <2> QED BY <2>1, <2>2, <2>3
<1> QED BY <1>1, <1>4, <1>5, <1>6, <1>7 DEF HermesKeeps, HermesState, HermesSound

\* The supervisor revokes what came over a lost connection.
LEMMA ChannelRevokedKeeps ==
  ASSUME HermesState, ChannelRevoked
  PROVE  HermesKeeps
<1>0. /\ UNCHANGED <<hookToken, confirmed, hooked, statements, channel, wire,
                     call, unended>>
      /\ channel = "lost" /\ Withdraw(Conversations) /\ UNCHANGED <<stated, heard>>
  BY DEF ChannelRevoked, hermes, Withdraw
<1>1. /\ RecordsTypeOK' /\ Register!Next
      /\ \A t \in Sessions :
           /\ InForce'[t] \in {0, InForce[t]}
           /\ record'[t].generation >= record[t].generation
           /\ record'[t].state = "none" <=> record[t].state = "none"
  BY <1>0, WithdrawStep DEF HermesState, Sessions
<1>2. \A c \in Conversations :
        /\ c \in Sessions /\ heard[c] \in Nat
        /\ record[c] \in Record /\ record'[c] \in Record
        /\ Len(statements[c]) \in Nat
  BY <1>1, HermesTyped DEF RecordsTypeOK
<1>3. GenerationsSound(Conversations)'
  <2>1. \A c \in Conversations :
          record[c].generation \in Nat /\ record'[c].generation \in Nat
    BY <1>2 DEF Record
  <2> QED BY <1>0, <1>1, <1>2, <2>1 DEF HermesState, HermesSound, GenerationsSound
<1>4. StatementsSound'
  <2>1. \A c \in Conversations : InForce'[c] \in 0..Len(statements[c])
    BY <1>1, <1>2 DEF HermesState, HermesSound, StatementsSound
  <2> QED BY <1>0, <2>1 DEF HermesState, HermesSound, StatementsSound
<1>5. KnownOrEnding'
  BY <1>0 DEF KnownOrEnding
<1>6. HermesTypeOK'
  BY <1>0 DEF HermesState, HermesTypeOK
<1> QED BY <1>1, <1>3, <1>4, <1>5, <1>6 DEF HermesKeeps, HermesState, HermesSound

\* Every step of the plugin and of the supervisor's end of its connection.
LEMMA HermesNextKeeps ==
  ASSUME HermesState, HermesNext
  PROVE  HermesKeeps
<1>1. CASE \/ \E c \in Conversations, w \in Workspaces : BeginTurn(c, w)
           \/ \E c \in Conversations : EndConversation(c)
  BY <1>1, PluginKeeps
<1>2. CASE AnswerTimesOut \/ TurnDown \/ CloseChannel
  BY <1>2, LostAnswerKeeps
<1>3. CASE CarryOut
  BY <1>3, CarryOutKeeps
<1>4. CASE ChannelRevoked
  BY <1>4, ChannelRevokedKeeps
<1> QED BY <1>1, <1>2, <1>3, <1>4 DEF HermesNext

----------------------------------------------------------------------------
(* The theorems. *)

\* Nobody has stated, heard of or answered anything at the start.
LEMMA InitSound ==
  ASSUME Init
  PROVE  SyncInv /\ Register!Init
<1>0. /\ record = [s \in Sessions |-> NoRecord]
      /\ stated = [s \in Sessions |-> {0}]
      /\ heard = [s \in Sessions |-> 0]
      /\ InForce = [s \in Sessions |-> 0]
  BY DEF Init, RecordsInit, InForce, NoRecord
<1>1. Register!Init
  BY <1>0 DEF Register!Init
<1>2. RecordsTypeOK
  BY <1>0 DEF RecordsTypeOK, NoRecord, Record
<1>3. McpTypeOK /\ McpSound
  <2>0. /\ roots = 0 /\ owes = FALSE /\ snapshot = -1 /\ asks = {} /\ calls = 0
        /\ toServer = <<Message("initialize", 0), Message("initialized", 0)>>
        /\ server = [at |-> "reading", authorized |-> FALSE, pending |-> FALSE,
                     refresh |-> FALSE, generation |-> 0, elicitation |-> 0,
                     missed |-> FALSE, refused |-> FALSE]
    BY DEF Init, McpInit
  <2>1. /\ toServer \in Seq(Messages) /\ Len(toServer) = 2
        /\ \A k \in 1..2 : toServer[k].kind \in {"initialize", "initialized"}
    BY <2>0 DEF Message, Messages, MessageKinds
  <2>2. McpTypeOK
    <3>1. server \in Server
      BY <2>0 DEF Server
    <3>2. roots \in 0..MaxChanges /\ snapshot \in -1..MaxChanges /\ calls \in 0..MaxCalls
      BY <2>0, McpAssumption
    <3>3. owes \in BOOLEAN /\ asks = {}
      BY <2>0
    <3> QED BY <2>1, <3>1, <3>2, <3>3 DEF McpTypeOK, Messages, MessageKinds
  <2>3. Answers = {}
    BY <2>1 DEF Answers
  <2>4. OneListUnderWay
    BY <2>0, <2>3 DEF OneListUnderWay
  <2>5. VersionsInOrder
    <3>1. stated[RootSet] = 0..roots /\ heard[RootSet] = 0
      BY <1>0, <2>0 DEF Sessions
    <3>2. \A k \in 1..Len(toServer) :
            toServer[k].kind \notin {"changed", "roots"}
      BY <2>1
    <3> QED BY <2>0, <3>1, <3>2 DEF VersionsInOrder
  <2> QED BY <2>2, <2>4, <2>5 DEF McpSound
<1>4. CodexTypeOK /\ Len(requests) <= MaxRequests /\ CodexSound /\ shown = {}
  <2>0. /\ runner \in Runner /\ requests = <<>> /\ forwarded = 0 /\ pending = {}
        /\ stdout = <<>> /\ versions = [t \in Threads |-> 0] /\ confirming = 0
        /\ shown = {} /\ unconfirmed = {} /\ MaxRequests \in Nat
    BY CodexAssumption DEF Init, CodexInit
  <2>1. CodexTypeOK /\ Len(requests) <= MaxRequests
    BY <2>0 DEF CodexTypeOK
  <2>2. GenerationsSound(Threads)
    BY <1>0 DEF GenerationsSound, NoRecord, Sessions
  <2>3. RequestsSound
    BY <2>0 DEF RequestsSound
  <2>4. VersionsSettled
    <3>1. \A t \in Threads : heard[t] = 0 /\ versions[t] = 0
      BY <1>0, <2>0 DEF Sessions
    <3>2. 0 >= 0
      OBVIOUS
    <3>3. \A t \in Threads : heard[t] >= versions[t]
      BY <3>1, <3>2, Zenon
    <3>4. \A t \in Threads : Settled(t, versions[t])
      BY <3>3, Zenon DEF Settled
    <3> QED BY <3>4, Zenon DEF VersionsSettled
  <2>5. ShownIsSettled
    BY <2>0 DEF ShownIsSettled
  <2> QED BY <2>0, <2>1, <2>2, <2>3, <2>4, <2>5 DEF CodexSound
<1>5. HermesTypeOK /\ HermesSound
  <2>0. /\ hookToken \in BOOLEAN
        /\ confirmed = [c \in Conversations |-> NoWorkspace]
        /\ hooked = [c \in Conversations |-> NoWorkspace]
        /\ statements = [c \in Conversations |-> <<>>]
        /\ channel = "none" /\ wire = <<>> /\ call = {} /\ unended = {}
    BY DEF Init, HermesInit
  <2>1. HermesTypeOK
    BY <2>0 DEF HermesTypeOK
  <2>2. GenerationsSound(Conversations)
    BY <1>0 DEF GenerationsSound, NoRecord, Sessions
  <2>3. \A c \in Conversations : c \in Sessions /\ InForce[c] = 0 /\ stated[c] = {0}
    BY <1>0 DEF Sessions
  <2>4. StatementsSound
    BY <2>0, <2>3 DEF StatementsSound
  <2>5. KnownOrEnding
    BY <2>0, <2>3 DEF KnownOrEnding
  <2> QED BY <2>1, <2>2, <2>4, <2>5 DEF HermesSound
<1>6. \A c \in Conversations : record[c].state = "none"
  BY <1>0 DEF NoRecord, Sessions
<1>7. TypeOK
  BY <1>2, <1>3, <1>4, <1>5 DEF Init, TypeOK
<1> QED BY <1>1, <1>3, <1>4, <1>5, <1>6, <1>7 DEF SyncInv

\* Every step keeps the inductive invariant, and is a step of the register or
\* changes nothing of it.
LEMMA StepSound ==
  ASSUME SyncInv, [Next]_vars
  PROVE  SyncInv' /\ (Register!Next \/ UNCHANGED Register!vars)
<1>1. TypeOK
  BY DEF SyncInv
<1>2. CASE client = "claude" /\ McpNext /\ UNCHANGED <<client, codex, hermes>>
  <2>1. McpState
    BY <1>1, <1>2 DEF SyncInv, TypeOK, McpState
  <2>2. McpKeeps
    BY <1>2, <2>1, McpNextKeeps
  <2>3. CodexTypeOK' /\ Len(requests') <= MaxRequests /\ shown' = {}
    BY <1>1, <1>2 DEF SyncInv, TypeOK, CodexTypeOK, codex
  <2>4. HermesTypeOK'
    BY <1>1, <1>2 DEF TypeOK, HermesTypeOK, hermes
  <2>5. \A c \in Conversations : record'[c].state = "none"
    BY <1>2, <2>2 DEF SyncInv, McpKeeps
  <2> QED BY <1>2, <2>2, <2>3, <2>4, <2>5 DEF SyncInv, TypeOK, McpKeeps, McpState
<1>3. CASE client = "codex" /\ CodexNext /\ UNCHANGED <<client, mcp, hermes>>
  <2>1. CodexState
    BY <1>1, <1>3 DEF SyncInv, TypeOK, CodexState
  <2>2. CodexKeeps
    BY <1>3, <2>1, CodexNextKeeps
  <2>3. McpTypeOK'
    BY <1>1, <1>3 DEF TypeOK, McpTypeOK, mcp
  <2>4. HermesTypeOK'
    BY <1>1, <1>3 DEF TypeOK, HermesTypeOK, hermes
  <2>5. \A c \in Conversations : record'[c].state = "none"
    BY <1>3, <2>2 DEF SyncInv, CodexKeeps
  <2> QED BY <1>3, <2>2, <2>3, <2>4, <2>5 DEF SyncInv, TypeOK, CodexKeeps, CodexState
<1>4. CASE client = "hermes" /\ HermesNext /\ UNCHANGED <<client, mcp, codex>>
  <2>1. HermesState
    BY <1>1, <1>4 DEF SyncInv, TypeOK, HermesState
  <2>2. HermesKeeps
    BY <1>4, <2>1, HermesNextKeeps
  <2>3. CodexTypeOK' /\ Len(requests') <= MaxRequests /\ shown' = {}
    BY <1>1, <1>4 DEF SyncInv, TypeOK, CodexTypeOK, codex
  <2>4. McpTypeOK'
    BY <1>1, <1>4 DEF TypeOK, McpTypeOK, mcp
  <2> QED BY <1>4, <2>2, <2>3, <2>4 DEF SyncInv, TypeOK, HermesKeeps, HermesState
<1>5. CASE UNCHANGED vars
  <2>0. /\ UNCHANGED client /\ UNCHANGED records /\ UNCHANGED mcp
        /\ UNCHANGED codex /\ UNCHANGED hermes
    BY <1>5 DEF vars
  <2>1. RecordsTypeOK' /\ UNCHANGED Register!vars
    BY <1>1, <2>0, StutterStep DEF TypeOK
  <2>2. TypeOK'
    BY <1>1, <2>0, <2>1
    DEF TypeOK, McpTypeOK, CodexTypeOK, HermesTypeOK, mcp, codex, hermes
  <2>3. client = "claude" => McpSound'
    BY <2>0 DEF SyncInv, McpSound, OneListUnderWay, VersionsInOrder, Answers,
                Message, records, mcp
  <2>4. client = "codex" => CodexSound'
    BY <2>0 DEF SyncInv, CodexSound, GenerationsSound, RequestsSound,
                VersionsSettled, Settled, ShownIsSettled, Answered, records, codex
  <2>5. client = "hermes" => HermesSound'
    BY <2>0 DEF SyncInv, HermesSound, GenerationsSound, StatementsSound,
                KnownOrEnding, InForce, records, hermes
  <2>6. /\ client # "codex" => shown' = {}
        /\ client # "hermes" => \A c \in Conversations : record'[c].state = "none"
        /\ Len(requests') <= MaxRequests
    BY <2>0 DEF SyncInv, records, codex
  <2> QED BY <2>0, <2>1, <2>2, <2>3, <2>4, <2>5, <2>6 DEF SyncInv
<1> QED BY <1>2, <1>3, <1>4, <1>5 DEF Next

\* The inductive invariant holds.
THEOREM Invariance == Spec => []SyncInv
<1>1. Init => SyncInv
  BY InitSound
<1>2. SyncInv /\ [Next]_vars => SyncInv'
  BY StepSound
<1> QED BY <1>1, <1>2, PTL DEF Spec

\* Type correctness of root synchronisation, whatever the client.
THEOREM TypeCorrectness == Spec => []TypeOK
<1>1. SyncInv => TypeOK
  BY DEF SyncInv
<1> QED BY <1>1, Invariance, PTL

\* All three protocols implement the register: the roots in force are a version
\* their client stated, and never older than the supervisor has heard of, under
\* every interleaving, loss, refusal and timeout the code handles.
THEOREM Refinement == Spec => ImplementsRegister
<1>1. Init => Register!Init
  BY InitSound
<1>2. SyncInv /\ [Next]_vars => [Register!Next]_(Register!vars)
  BY StepSound
<1> QED BY <1>1, <1>2, Invariance, PTL DEF Spec, ImplementsRegister, Register!Spec

\* A response that has reached the user's Codex client is settled: an adaptive
\* runner has had the roots that follow from it accepted or refused first.
THEOREM ShownAreSettled == Spec => []ShownIsSettled
<1>1. SyncInv => ShownIsSettled
  BY DEF SyncInv, CodexSound, ShownIsSettled
<1> QED BY <1>1, Invariance, PTL

\* The Hermes plugin knows every workspace that is in force, and will end it,
\* as long as no answer got lost and no end was turned down.
THEOREM GrantedAreKnown == Spec => []GrantedIsKnown
<1>1. SyncInv => GrantedIsKnown
  <2> SUFFICES ASSUME SyncInv, call = {}, channel \in {"none", "open"},
                      NEW c \in Conversations, InForce[c] # 0
               PROVE  confirmed[c] = statements[c][InForce[c]] \/ c \in unended
    BY DEF GrantedIsKnown
  <2>1. CASE client = "hermes"
    BY <2>1 DEF SyncInv, HermesSound, KnownOrEnding
  <2>2. CASE client # "hermes"
    BY <2>2 DEF SyncInv, InForce, Sessions
  <2> QED BY <2>1, <2>2
<1> QED BY <1>1, Invariance, PTL
============================================================================
