------------------------ MODULE ControlChannelProofs ------------------------
(* Proofs about ControlChannel: for any number of connections, MCP servers  *)
(* and revocation threads, in every interleaving of their steps, a decision *)
(* is taken alone, a late revocation hits nothing that is in use, and roots *)
(* outlive their transport only if it could not be named.                   *)
EXTENDS ControlChannel, TLAPS

----------------------------------------------------------------------------
(* The inductive invariant. *)

\* A connection that holds a pin which carries roots.
Anchored(c) == c \in {mcpPin, workspacePin}

\* Nothing but read-only connections beside an empty pin; the workspace pin is
\* given away once.
PinsSound ==
  /\ mcpPin # None => readOnly = {}
  /\ workspacePin # None => workspaceUsed

\* What the thread of connection c may rely on between two of its steps, when
\* the connection is in the state k.  A pinned connection is open, and it is
\* known whose it is; an authority that was read belongs to the peer, and the
\* pin it was read from is still there until the release; the client itself is
\* revoked only when nobody can be pinned in its place.
ThreadSound(c, k) ==
  /\ Pinned(c) => k.st \notin {"free", "grace", "revoking"}
  /\ c = mcpPin => k.peer \in Servers
  /\ c = workspacePin => k.peer = Client
  /\ k.st = "admitting" => /\ k.elig = "destructive" => k.peer \in Servers
                           /\ k.elig = "workspace" => k.peer = Client
  /\ k.st = "checked" => /\ k.op = "decide" => c = mcpPin
                         /\ k.auth \in Instances => Anchored(c) /\ k.auth = k.peer
  /\ k.st = "releasing" => /\ Anchored(c) /\ c \notin readOnly
                           /\ k.auth \in {None, k.peer}
  /\ k.st \in {"grace", "revoking"} =>
       /\ k.auth = k.peer /\ k.auth \in Instances
       /\ k.auth = Client => workspaceUsed /\ workspacePin = None

ThreadsSound == \A c \in Conns : ThreadSound(c, conn[c])

\* An MCP server has one connection, until its revocation thread has ended.
SoleConnection ==
  \A c, d \in Conns :
    conn[c].peer \in Servers /\ conn[d].peer = conn[c].peer => c = d

\* Connection c, in the state k, answers for the roots of instance i.
Carries(c, k, i) ==
  k.peer = i /\ (Anchored(c) \/ k.st \in {"grace", "revoking"})

RootsCarried ==
  \A i \in Instances :
    roots[i] = "granted" /\ i \notin unnamed
      => (\E c \in Conns : Carries(c, conn[c], i)) \/ ~Known(Client) \/ stopped

ChannelInv ==
  TypeOK /\ PinsSound /\ ThreadsSound /\ SoleConnection /\ RootsCarried

----------------------------------------------------------------------------
(* Connections, and what is read of their peers. *)

\* The fields of a connection have their types.
LEMMA ConnectionFields ==
  ASSUME TypeOK, NEW c \in Conns
  PROVE  /\ conn[c] \in Connection
         /\ conn[c].peer \in Procs \cup {None}
         /\ conn[c].st \in ThreadStates
         /\ conn[c].op \in Requests \cup {None}
         /\ conn[c].elig \in Eligibilities \cup {None}
         /\ conn[c].auth \in Instances \cup {Runner, None}
  BY DEF TypeOK, Connection

\* A slot that is free again is well typed, and promises nothing.
LEMMA FreeIsConnection ==
  /\ FreeConnection \in Connection
  /\ FreeConnection.peer = None /\ FreeConnection.st = "free"
  BY DEF FreeConnection, Connection, ThreadStates

\* Replacing the state of one connection.
LEMMA ReplacedConnection ==
  ASSUME conn \in [Conns -> Connection], NEW c \in Conns, NEW j \in Connection,
         conn' = [conn EXCEPT ![c] = j]
  PROVE  /\ conn' \in [Conns -> Connection]
         /\ conn'[c] = j
         /\ \A d \in Conns : d # c => conn'[d] = conn[d]
  OBVIOUS

\* Whoever is admitted to the destructive pin is an MCP server, and whoever is
\* admitted to the workspace pin is the client (_eligible_mcp_peer,
\* _eligible_workspace_peer).
LEMMA EligiblePeers ==
  ASSUME NEW p
  PROVE  /\ McpEligibility(p) \in {"destructive", "read-only", "refused"}
         /\ McpEligibility(p) = "destructive" => p \in Servers
         /\ WorkspaceEligibility(p) \in {"workspace", "refused"}
         /\ WorkspaceEligibility(p) = "workspace" => p = Client
  BY ChannelAssumption
  DEF McpEligibility, WorkspaceEligibility, ChildOfClient, FdsHidden

\* The authority of a connection: its own peer if it is pinned, and never an
\* instance whose roots end with a connection if it is not.
LEMMA AuthorityIsPeer ==
  ASSUME ChannelInv, NEW c \in Conns
  PROVE  /\ Authority(c) \in Instances \cup {Runner, None}
         /\ Anchored(c) => Authority(c) \in {None, conn[c].peer}
         /\ Authority(c) \in Instances => Anchored(c) /\ Authority(c) = conn[c].peer
<1>1. /\ c = mcpPin => conn[c].peer \in Servers
      /\ c = workspacePin => conn[c].peer = Client
  BY DEF ChannelInv, ThreadsSound, ThreadSound
<1>2. Runner \notin Instances /\ None \notin Instances
  BY ChannelAssumption DEF Instances, Procs
<1>3. CASE c = mcpPin
  BY <1>1, <1>2, <1>3 DEF Authority, Anchored, Instances
<1>4. CASE c # mcpPin /\ c = workspacePin
  BY <1>1, <1>2, <1>4 DEF Authority, Anchored, Instances
<1>5. CASE c # mcpPin /\ c # workspacePin
  BY <1>2, <1>5 DEF Authority, Anchored
<1> QED BY <1>3, <1>4, <1>5

\* A pinned slot is in use, so a peer that connects never gets one.
LEMMA FreeIsUnpinned ==
  ASSUME ChannelInv, NEW c \in Conns, conn[c].st \in {"free", "grace", "revoking"}
  PROVE  ~Pinned(c) /\ ~Anchored(c)
  BY DEF ChannelInv, ThreadsSound, ThreadSound, Pinned, IsMcp, Anchored

----------------------------------------------------------------------------
(* Steps that change one connection, and no pin. *)

\* Everything but the connections, for the steps of a thread.
ElsewhereUnchanged ==
  UNCHANGED <<agent, proc, hidden, mcpPin, readOnly, workspacePin,
              workspaceUsed, unnamed, stopped>>

\* A step of the thread of c that leaves its connection sound, keeps its peer
\* if somebody relies on it, and leaves the roots alone.
LEMMA ThreadStepKeeps ==
  ASSUME ChannelInv, NEW c \in Conns, NEW j \in Connection,
         conn' = [conn EXCEPT ![c] = j],
         ElsewhereUnchanged, UNCHANGED <<admitted, roots>>,
         registered' \in BOOLEAN,
         ThreadSound(c, j), j.peer \in {conn[c].peer, None},
         Anchored(c) => j.peer = conn[c].peer,
         conn[c].st \in {"grace", "revoking"} =>
           stopped \/ (j.st \in {"grace", "revoking"} /\ j.peer = conn[c].peer)
  PROVE  ChannelInv'
<1> USE DEF ChannelInv
<1>0. /\ conn' \in [Conns -> Connection] /\ conn'[c] = j
      /\ \A d \in Conns : d # c => conn'[d] = conn[d]
  BY ReplacedConnection DEF TypeOK
<1>1. TypeOK'
  BY <1>0 DEF TypeOK, ElsewhereUnchanged
<1>2. PinsSound'
  BY DEF PinsSound, ElsewhereUnchanged
<1>3. ThreadsSound'
  <2>1. ASSUME NEW d \in Conns
        PROVE  ThreadSound(d, conn'[d])
    BY <1>0 DEF ThreadsSound
  <2>2. ASSUME NEW d \in Conns, NEW k, ThreadSound(d, k)
        PROVE  ThreadSound(d, k)'
    BY <2>2 DEF ThreadSound, Pinned, IsMcp, Anchored, ElsewhereUnchanged
  <2> QED BY <2>1, <2>2 DEF ThreadsSound
<1>4. SoleConnection'
  <2>1. None \notin Servers
    BY ChannelAssumption DEF Procs
  <2> QED BY <1>0, <2>1 DEF SoleConnection
<1>5. RootsCarried'
  <2> SUFFICES ASSUME NEW i \in Instances, roots[i] = "granted", i \notin unnamed,
                      Known(Client), ~stopped
               PROVE  \E d \in Conns : Carries(d, conn[d], i)'
    BY DEF RootsCarried, Known, ElsewhereUnchanged
  <2>1. PICK d \in Conns : Carries(d, conn[d], i)
    BY DEF RootsCarried
  <2>2. CASE d # c
    BY <1>0, <2>1, <2>2 DEF Carries, Anchored, ElsewhereUnchanged
  <2>3. CASE d = c
    BY <1>0, <2>1, <2>3 DEF Carries, Anchored, ElsewhereUnchanged
  <2> QED BY <2>2, <2>3
<1> QED BY <1>1, <1>2, <1>3, <1>4, <1>5

\* The thread that returns leaves a sound connection behind.
LEMMA LeftIsSound ==
  ASSUME ChannelInv, NEW c \in Conns, conn[c].st = "reading"
  PROVE  /\ Left(c) \in Connection /\ ThreadSound(c, Left(c))
         /\ Left(c).peer \in {conn[c].peer, None}
         /\ Anchored(c) => Left(c).peer = conn[c].peer
<1>1. conn[c] \in Connection /\ ThreadSound(c, conn[c])
  BY ConnectionFields DEF ChannelInv, ThreadsSound
<1>2. CASE Pinned(c)
  <2>1. Left(c) = [conn[c] EXCEPT !.st = "closing"]
    BY <1>2 DEF Left
  <2>2. /\ Left(c) \in Connection /\ Left(c).st = "closing"
        /\ Left(c).peer = conn[c].peer
    BY <1>1, <2>1 DEF Connection, ThreadStates
  <2> QED BY <1>1, <2>2 DEF ThreadSound
<1>3. CASE ~Pinned(c)
  BY <1>3, FreeIsConnection DEF Left, ThreadSound, Pinned, IsMcp, Anchored
<1> QED BY <1>2, <1>3

\* PID 1 registers its client.
LEMMA RegisterKeeps ==
  ASSUME ChannelInv, NEW c \in Conns, Register(c)
  PROVE  ChannelInv'
<1>1. conn[c].st = "reading" /\ conn' = [conn EXCEPT ![c] = Left(c)]
  BY DEF Register, Reads
<1>2. ElsewhereUnchanged /\ UNCHANGED <<admitted, roots>>
  BY DEF Register, ElsewhereUnchanged, processes, pins, authority
<1>3. registered' \in BOOLEAN
  BY DEF Register
<1> QED BY <1>1, <1>2, <1>3, LeftIsSound, ThreadStepKeeps

\* Eligibility is computed outside the lock: it is about the peer alone.
LEMMA ComputeEligibilityKeeps ==
  ASSUME ChannelInv, NEW c \in Conns, NEW op \in Admissions,
         ComputeEligibility(c, op)
  PROVE  ChannelInv'
<1> DEFINE e == IF op = "mcp-admit" THEN McpEligibility(conn[c].peer)
                                    ELSE WorkspaceEligibility(conn[c].peer)
           j == [conn[c] EXCEPT !.st = "admitting", !.elig = e]
<1>1. conn[c] \in Connection /\ ThreadSound(c, conn[c])
  BY ConnectionFields DEF ChannelInv, ThreadsSound
<1>2. conn[c].st = "reading" /\ conn' = [conn EXCEPT ![c] = j]
  BY DEF ComputeEligibility, Reads, ChannelInv, TypeOK
<1>3. /\ e \in Eligibilities
      /\ e = "destructive" => conn[c].peer \in Servers
      /\ e = "workspace" => conn[c].peer = Client
  BY EligiblePeers DEF Eligibilities
<1> HIDE DEF e
<1>4. /\ j \in Connection /\ j.st = "admitting" /\ j.elig = e
      /\ j.peer = conn[c].peer
  BY <1>1, <1>3 DEF Connection, ThreadStates
<1> HIDE DEF j
<1>5. ThreadSound(c, j)
  BY <1>1, <1>2, <1>3, <1>4 DEF ThreadSound
<1>6. /\ ElsewhereUnchanged /\ UNCHANGED <<admitted, roots>>
      /\ registered' \in BOOLEAN
  BY DEF ComputeEligibility, ElsewhereUnchanged, processes, pins, authority, ChannelInv,
         TypeOK
<1> QED BY <1>2, <1>4, <1>5, <1>6, ThreadStepKeeps

\* A request is checked: the authority it is checked for is the peer's.
LEMMA CheckKeeps ==
  ASSUME ChannelInv, NEW c \in Conns, NEW op \in Requests, Check(c, op)
  PROVE  ChannelInv'
<1>1. conn[c] \in Connection /\ ThreadSound(c, conn[c]) /\ conn \in [Conns -> Connection]
  BY ConnectionFields DEF ChannelInv, ThreadsSound, TypeOK
<1>2. conn[c].st = "reading"
  BY DEF Check, Reads
<1>3. /\ ElsewhereUnchanged /\ UNCHANGED <<admitted, roots>>
      /\ registered' \in BOOLEAN
  BY DEF Check, ElsewhereUnchanged, processes, pins, authority, ChannelInv, TypeOK
<1>4. CASE Passes(c, op)
  <2> DEFINE j == [conn[c] EXCEPT !.st = "checked", !.op = op,
                                  !.auth = Authority(c)]
  <2>1. conn' = [conn EXCEPT ![c] = j]
    BY <1>1, <1>4 DEF Check
  <2>2. /\ Authority(c) \in Instances \cup {Runner, None}
        /\ Authority(c) \in Instances => Anchored(c) /\ Authority(c) = conn[c].peer
    BY AuthorityIsPeer
  <2>3. /\ j \in Connection /\ j.st = "checked" /\ j.op = op
        /\ j.auth = Authority(c) /\ j.peer = conn[c].peer
    BY <1>1, <2>2 DEF Connection, ThreadStates
  <2>4. op = "decide" => c = mcpPin
    BY <1>4 DEF Passes
  <2> HIDE DEF j
  <2>5. ThreadSound(c, j)
    BY <1>1, <1>2, <2>2, <2>3, <2>4 DEF ThreadSound
  <2> QED BY <1>2, <1>3, <2>1, <2>3, <2>5, ThreadStepKeeps
<1>5. CASE ~Passes(c, op) /\ SurvivesRejection(c, op)
  <2>1. conn' = [conn EXCEPT ![c] = conn[c]]
    BY <1>1, <1>5 DEF Check
  <2> QED BY <1>1, <1>2, <1>3, <2>1, ThreadStepKeeps
<1>6. CASE ~Passes(c, op) /\ ~SurvivesRejection(c, op)
  <2>1. conn' = [conn EXCEPT ![c] = Left(c)]
    BY <1>1, <1>6 DEF Check
  <2> QED BY <1>2, <1>3, <2>1, LeftIsSound, ThreadStepKeeps
<1> QED BY <1>4, <1>5, <1>6

\* The peer closes its end.
LEMMA CloseKeeps ==
  ASSUME ChannelInv, NEW c \in Conns, Close(c)
  PROVE  ChannelInv'
<1> DEFINE j == [conn[c] EXCEPT !.eof = TRUE]
<1>1. conn[c] \in Connection /\ ThreadSound(c, conn[c])
  BY ConnectionFields DEF ChannelInv, ThreadsSound
<1>2. conn[c].st = "reading" /\ conn' = [conn EXCEPT ![c] = j]
  BY DEF Close, ChannelInv, TypeOK
<1>3. /\ j \in Connection /\ j.st = conn[c].st /\ j.peer = conn[c].peer
  BY <1>1 DEF Connection
<1> HIDE DEF j
<1>4. ThreadSound(c, j)
  BY <1>1, <1>2, <1>3 DEF ThreadSound
<1>5. /\ ElsewhereUnchanged /\ UNCHANGED <<admitted, roots>>
      /\ registered' \in BOOLEAN
  BY DEF Close, ElsewhereUnchanged, processes, pins, authority, ChannelInv, TypeOK
<1> QED BY <1>2, <1>3, <1>4, <1>5, ThreadStepKeeps

\* The grace period ends, with the period or with the session.
LEMMA GraceEndsKeeps ==
  ASSUME ChannelInv, NEW c \in Conns, GraceEnds(c)
  PROVE  ChannelInv'
<1> DEFINE j == [conn[c] EXCEPT !.st = "revoking"]
<1>1. conn[c] \in Connection /\ ThreadSound(c, conn[c])
  BY ConnectionFields DEF ChannelInv, ThreadsSound
<1>2. conn[c].st = "grace" /\ ~Pinned(c) /\ ~Anchored(c)
  BY FreeIsUnpinned DEF GraceEnds
<1>3. /\ ElsewhereUnchanged /\ UNCHANGED <<admitted, roots>>
      /\ registered' \in BOOLEAN
  BY DEF GraceEnds, ElsewhereUnchanged, processes, pins, authority, ChannelInv, TypeOK
<1>4. CASE stopped
  <2>1. conn' = [conn EXCEPT ![c] = FreeConnection]
    BY <1>4 DEF GraceEnds
  <2>2. ThreadSound(c, FreeConnection)
    BY <1>2, FreeIsConnection DEF ThreadSound, Pinned, IsMcp, Anchored
  <2> QED BY <1>2, <1>3, <1>4, <2>1, <2>2, FreeIsConnection, ThreadStepKeeps
<1>5. CASE ~stopped
  <2>1. conn' = [conn EXCEPT ![c] = j]
    BY <1>5 DEF GraceEnds, ChannelInv, TypeOK
  <2>2. /\ j \in Connection /\ j.st = "revoking" /\ j.peer = conn[c].peer
        /\ j.auth = conn[c].auth
    BY <1>1 DEF Connection, ThreadStates
  <2> HIDE DEF j
  <2>3. ThreadSound(c, j)
    BY <1>1, <1>2, <2>2 DEF ThreadSound
  <2> QED BY <1>2, <1>3, <2>1, <2>2, <2>3, ThreadStepKeeps
<1> QED BY <1>4, <1>5

----------------------------------------------------------------------------
(* Steps that change pins or roots. *)

\* A peer connects: an MCP server only if nothing is left of its last
\* connection.
LEMMA ConnectKeeps ==
  ASSUME ChannelInv, NEW c \in Conns, NEW p \in Procs, Connect(c, p)
  PROVE  ChannelInv'
<1> USE DEF ChannelInv
<1> DEFINE j == [FreeConnection EXCEPT !.peer = p, !.st = "reading"]
<1>0. /\ ElsewhereUnchanged /\ UNCHANGED <<admitted, roots, registered>>
      /\ conn' = [conn EXCEPT ![c] = j]
      /\ conn[c].st = "free"
      /\ p \in Servers => \A d \in Conns : conn[d].peer # p
  BY DEF Connect, ElsewhereUnchanged, processes, pins, authority
<1>1. j \in Connection /\ j.peer = p /\ j.st = "reading"
  BY FreeIsConnection DEF FreeConnection, Connection, ThreadStates
<1> HIDE DEF j
<1>2. /\ conn' \in [Conns -> Connection] /\ conn'[c] = j
      /\ \A d \in Conns : d # c => conn'[d] = conn[d]
  BY <1>0, <1>1, ReplacedConnection DEF TypeOK
<1>3. ~Pinned(c) /\ ~Anchored(c)
  BY <1>0, FreeIsUnpinned
<1>4. TypeOK'
  BY <1>0, <1>2 DEF TypeOK, ElsewhereUnchanged
<1>5. PinsSound'
  BY <1>0 DEF PinsSound, ElsewhereUnchanged
<1>6. ThreadsSound'
  <2>1. ASSUME NEW d \in Conns
        PROVE  ThreadSound(d, conn'[d])
    BY <1>1, <1>2, <1>3 DEF ThreadsSound, ThreadSound, Pinned, IsMcp, Anchored
  <2>2. ASSUME NEW d \in Conns, NEW k, ThreadSound(d, k)
        PROVE  ThreadSound(d, k)'
    BY <1>0, <2>2 DEF ThreadSound, Pinned, IsMcp, Anchored, ElsewhereUnchanged
  <2> QED BY <2>1, <2>2 DEF ThreadsSound
<1>7. SoleConnection'
  BY <1>0, <1>1, <1>2 DEF SoleConnection
<1>8. RootsCarried'
  <2> SUFFICES ASSUME NEW i \in Instances, roots[i] = "granted", i \notin unnamed,
                      Known(Client), ~stopped
               PROVE  \E d \in Conns : Carries(d, conn[d], i)'
    BY <1>0 DEF RootsCarried, Known, ElsewhereUnchanged
  <2>1. PICK d \in Conns : Carries(d, conn[d], i)
    BY DEF RootsCarried
  <2>2. d # c
    BY <1>0, <1>3, <2>1 DEF Carries
  <2> QED BY <1>0, <1>2, <2>1, <2>2 DEF Carries, Anchored, ElsewhereUnchanged
<1> QED BY <1>4, <1>5, <1>6, <1>7, <1>8

\* The handler runs.  Roots are granted only to the peer of a connection that
\* still holds the pin its authority came from.
LEMMA HandleKeeps ==
  ASSUME ChannelInv, NEW c \in Conns, Handle(c)
  PROVE  ChannelInv'
<1> USE DEF ChannelInv
<1> DEFINE j == IF Pinned(c)
                THEN [conn[c] EXCEPT !.st = "reading", !.op = None, !.auth = None]
                ELSE FreeConnection
<1>0. /\ ElsewhereUnchanged /\ UNCHANGED <<admitted, registered>>
      /\ conn' = [conn EXCEPT ![c] = j]
      /\ conn[c].st = "checked"
  BY DEF Handle, ElsewhereUnchanged, processes, pins, authority, TypeOK
<1>1. conn[c] \in Connection /\ ThreadSound(c, conn[c])
  BY ConnectionFields DEF ThreadsSound
<1>2. /\ j \in Connection /\ j.st \in {"reading", "free"}
      /\ Pinned(c) => j.st = "reading" /\ j.peer = conn[c].peer
      /\ ~Pinned(c) => j.peer = None
  BY <1>1, FreeIsConnection DEF Connection, ThreadStates
<1> HIDE DEF j
<1>3. /\ conn' \in [Conns -> Connection] /\ conn'[c] = j
      /\ \A d \in Conns : d # c => conn'[d] = conn[d]
  BY <1>0, <1>2, ReplacedConnection DEF TypeOK
<1>4. /\ roots' \in [Instances -> {"none", "granted", "revoked"}]
      /\ \A i \in Instances : roots'[i] = "granted"
           => roots[i] = "granted" \/ (Anchored(c) /\ conn[c].peer = i)
  <2>1. CASE conn[c].op = "replace" /\ conn[c].auth \in Instances
    <3>1. PICK r \in {"granted", "none"} :
            roots' = [roots EXCEPT ![conn[c].auth] = r]
      BY <2>1 DEF Handle
    <3>2. Anchored(c) /\ conn[c].auth = conn[c].peer
      BY <1>0, <1>1, <2>1 DEF ThreadSound
    <3> QED BY <2>1, <3>1, <3>2 DEF TypeOK
  <2>2. CASE ~(conn[c].op = "replace" /\ conn[c].auth \in Instances)
    BY <2>2 DEF Handle, TypeOK
  <2> QED BY <2>1, <2>2
<1>5. TypeOK'
  BY <1>0, <1>3, <1>4 DEF TypeOK, ElsewhereUnchanged
<1>6. PinsSound'
  BY <1>0 DEF PinsSound, ElsewhereUnchanged
<1>7. Anchored(c) => Pinned(c)
  BY DEF Anchored, Pinned, IsMcp
<1>8. ThreadsSound'
  <2>1. ASSUME NEW d \in Conns
        PROVE  ThreadSound(d, conn'[d])
    BY <1>1, <1>2, <1>3, <1>7
    DEF ThreadsSound, ThreadSound, Anchored
  <2>2. ASSUME NEW d \in Conns, NEW k, ThreadSound(d, k)
        PROVE  ThreadSound(d, k)'
    BY <1>0, <2>2 DEF ThreadSound, Pinned, IsMcp, Anchored, ElsewhereUnchanged
  <2> QED BY <2>1, <2>2 DEF ThreadsSound
<1>9. SoleConnection'
  <2>1. None \notin Servers
    BY ChannelAssumption DEF Procs
  <2> QED BY <1>2, <1>3, <2>1 DEF SoleConnection
<1>10. RootsCarried'
  <2> SUFFICES ASSUME NEW i \in Instances, roots'[i] = "granted", i \notin unnamed',
                      Known(Client), ~stopped
               PROVE  \E d \in Conns : Carries(d, conn[d], i)'
    BY <1>0 DEF RootsCarried, Known, ElsewhereUnchanged
  <2>1. CASE Anchored(c) /\ conn[c].peer = i
    BY <1>0, <1>2, <1>3, <1>7, <2>1 DEF Carries, Anchored, ElsewhereUnchanged
  <2>2. CASE ~(Anchored(c) /\ conn[c].peer = i)
    <3>1. PICK d \in Conns : Carries(d, conn[d], i)
      BY <1>0, <1>4, <2>2 DEF RootsCarried, ElsewhereUnchanged
    <3>2. d # c
      BY <1>0, <2>2, <3>1 DEF Carries
    <3> QED BY <1>0, <1>3, <3>1, <3>2 DEF Carries, Anchored, ElsewhereUnchanged
  <2> QED BY <2>1, <2>2
<1> QED BY <1>5, <1>6, <1>8, <1>9, <1>10

\* An admission: the pin is taken under the lock, and only from nobody.
LEMMA PinKeeps ==
  ASSUME ChannelInv, NEW c \in Conns, Pin(c)
  PROVE  ChannelInv'
<1> USE DEF ChannelInv
<1> DEFINE e == conn[c].elig
           ok == MayPin(c, e)
           j == IF ok THEN [conn[c] EXCEPT !.st = "reading", !.elig = None]
                ELSE IF Pinned(c)
                     THEN [conn[c] EXCEPT !.st = "closing", !.elig = None]
                ELSE FreeConnection
<1>0. /\ conn' = [conn EXCEPT ![c] = j] /\ conn[c].st = "admitting"
      /\ UNCHANGED <<agent, proc, hidden, registered, roots, unnamed, stopped>>
  BY DEF Pin, processes, authority, TypeOK
<1>1. /\ mcpPin' = IF ok /\ e = "destructive" THEN c ELSE mcpPin
      /\ readOnly' = IF ok /\ e = "read-only" THEN readOnly \cup {c} ELSE readOnly
      /\ workspacePin' = IF ok /\ e = "workspace" THEN c ELSE workspacePin
      /\ workspaceUsed' = (workspaceUsed \/ (ok /\ e = "workspace"))
      /\ admitted' = IF ok /\ conn[c].peer \in Servers
                     THEN admitted \cup {conn[c].peer} ELSE admitted
  BY DEF Pin
<1>2. conn[c] \in Connection /\ ThreadSound(c, conn[c])
  BY ConnectionFields DEF ThreadsSound
<1>3. /\ j \in Connection /\ j.st \in {"reading", "closing", "free"}
      /\ ok \/ Pinned(c) => j.st # "free" /\ j.peer = conn[c].peer
      /\ ~ok /\ ~Pinned(c) => j.peer = None
  BY <1>2, FreeIsConnection DEF Connection, ThreadStates
<1>4. /\ ok /\ e = "destructive" => mcpPin = None /\ readOnly = {}
      /\ ok /\ e = "read-only" => mcpPin = None
      /\ ok /\ e = "workspace" => ~workspaceUsed
  BY DEF MayPin
<1>5. /\ ok /\ e = "destructive" => conn[c].peer \in Servers
      /\ ok /\ e = "workspace" => conn[c].peer = Client
  BY <1>0, <1>2 DEF ThreadSound
<1> HIDE DEF j, ok, e
<1>6. /\ conn' \in [Conns -> Connection] /\ conn'[c] = j
      /\ \A d \in Conns : d # c => conn'[d] = conn[d]
  BY <1>0, <1>3, ReplacedConnection DEF TypeOK
<1>7. workspaceUsed' \in BOOLEAN /\ (workspaceUsed' <=> workspaceUsed \/ (ok /\ e = "workspace"))
  BY <1>1
<1>8. TypeOK'
  <2>1. /\ {mcpPin', workspacePin'} \subseteq Conns \cup {None}
        /\ readOnly' \subseteq Conns /\ admitted' \subseteq Servers
    BY <1>1 DEF TypeOK
  <2> QED BY <1>0, <1>6, <1>7, <2>1 DEF TypeOK
<1>9. None \notin Conns /\ None \notin Servers
  BY ChannelAssumption DEF Procs
<1>10. PinsSound'
  BY <1>1, <1>4, <1>7, <1>9 DEF PinsSound
<1>11. ThreadsSound'
  <2> SUFFICES ASSUME NEW d \in Conns
               PROVE  ThreadSound(d, conn[d])'
    BY DEF ThreadsSound
  <2>1. ThreadSound(d, conn[d])
    BY DEF ThreadsSound
  <2>2. CASE d = c
    <3>1. Pinned(c)' => ok \/ Pinned(c)
      BY <1>1 DEF Pinned, IsMcp
    <3>2. /\ c = mcpPin' => j.peer \in Servers
          /\ c = workspacePin' => j.peer = Client
      BY <1>1, <1>2, <1>3, <1>5 DEF ThreadSound, Pinned, IsMcp
    <3> QED BY <1>3, <1>6, <2>2, <3>1, <3>2 DEF ThreadSound
  <2>3. CASE d # c
    <3>1. /\ d = mcpPin' <=> d = mcpPin
          /\ workspacePin # None => workspacePin' = workspacePin
          /\ d = workspacePin' <=> d = workspacePin
      BY <1>1, <1>4, <1>9, <2>3 DEF PinsSound
    <3>2. (conn[d].st \in {"grace", "revoking"} /\ conn[d].auth = Client)
            => workspaceUsed' /\ workspacePin' = None
      BY <1>1, <1>4, <1>7, <2>1 DEF ThreadSound
    <3>3. Pinned(d)' <=> Pinned(d)
      BY <1>1, <2>3, <3>1 DEF Pinned, IsMcp
    <3>4. Anchored(d)' <=> Anchored(d)
      BY <3>1 DEF Anchored
    <3>5. d \in readOnly' <=> d \in readOnly
      BY <1>1, <2>3
    <3> QED BY <1>6, <2>1, <2>3, <3>1, <3>2, <3>3, <3>4, <3>5 DEF ThreadSound
  <2> QED BY <2>2, <2>3
<1>12. SoleConnection'
  BY <1>3, <1>6, <1>9 DEF SoleConnection
<1>13. RootsCarried'
  <2> SUFFICES ASSUME NEW i \in Instances, roots[i] = "granted", i \notin unnamed,
                      Known(Client), ~stopped
               PROVE  \E d \in Conns : Carries(d, conn[d], i)'
    BY <1>0 DEF RootsCarried, Known
  <2>1. PICK d \in Conns : Carries(d, conn[d], i)
    BY DEF RootsCarried
  <2>2. Anchored(d) => Anchored(d)'
    BY <1>1, <1>4, <1>9 DEF Anchored, PinsSound
  <2>3. CASE d = c
    <3>1. Anchored(c) /\ Pinned(c)
      BY <1>0, <2>1, <2>3 DEF Carries, Anchored, Pinned, IsMcp
    <3> QED BY <1>3, <1>6, <2>1, <2>2, <2>3, <3>1 DEF Carries
  <2>4. CASE d # c
    BY <1>6, <2>1, <2>2, <2>4 DEF Carries
  <2> QED BY <2>3, <2>4
<1> QED BY <1>8, <1>10, <1>11, <1>12, <1>13

\* A connection without a pin that carries roots is simply forgotten, another
\* one goes on to its release, with the authority read now.
LEMMA ComputeReleaseKeeps ==
  ASSUME ChannelInv, NEW c \in Conns, ComputeRelease(c)
  PROVE  ChannelInv'
<1> USE DEF ChannelInv
<1> DEFINE j == IF c \in {mcpPin, workspacePin}
                THEN [conn[c] EXCEPT !.eof = TRUE, !.st = "releasing",
                                     !.auth = Authority(c)]
                ELSE FreeConnection
<1>0. /\ conn' = [conn EXCEPT ![c] = j] /\ conn[c].st \in {"closing", "reading"}
      /\ readOnly' = readOnly \ {c}
      /\ UNCHANGED <<agent, proc, hidden, registered, mcpPin, workspacePin,
                     workspaceUsed, admitted, roots, unnamed, stopped>>
  BY DEF ComputeRelease, processes, authority, TypeOK
<1>1. conn[c] \in Connection /\ ThreadSound(c, conn[c])
  BY ConnectionFields DEF ThreadsSound
<1>2. /\ Authority(c) \in Instances \cup {Runner, None}
      /\ Anchored(c) => Authority(c) \in {None, conn[c].peer}
  BY AuthorityIsPeer
<1>3. /\ j \in Connection
      /\ Anchored(c) => /\ j.st = "releasing" /\ j.peer = conn[c].peer
                        /\ j.auth \in {None, conn[c].peer}
      /\ ~Anchored(c) => j.st = "free" /\ j.peer = None
  BY <1>1, <1>2, FreeIsConnection DEF Connection, ThreadStates, Anchored
<1> HIDE DEF j
<1>4. /\ conn' \in [Conns -> Connection] /\ conn'[c] = j
      /\ \A d \in Conns : d # c => conn'[d] = conn[d]
  BY <1>0, <1>3, ReplacedConnection DEF TypeOK
<1>5. TypeOK'
  BY <1>0, <1>4 DEF TypeOK
<1>6. PinsSound'
  BY <1>0 DEF PinsSound
<1>7. ThreadsSound'
  <2> SUFFICES ASSUME NEW d \in Conns
               PROVE  ThreadSound(d, conn[d])'
    BY DEF ThreadsSound
  <2>1. ThreadSound(d, conn[d])
    BY DEF ThreadsSound
  <2>2. (Pinned(d)' => Pinned(d)) /\ (Anchored(d)' <=> Anchored(d))
    BY <1>0 DEF Pinned, IsMcp, Anchored
  <2>3. CASE d = c
    <3>1. Pinned(c)' => Anchored(c)
      BY <1>0 DEF Pinned, IsMcp, Anchored
    <3> QED BY <1>0, <1>1, <1>3, <1>4, <2>2, <2>3, <3>1
            DEF ThreadSound, Anchored
  <2>4. CASE d # c
    BY <1>0, <1>4, <2>1, <2>2, <2>4 DEF ThreadSound
  <2> QED BY <2>3, <2>4
<1>8. SoleConnection'
  <2>1. None \notin Servers
    BY ChannelAssumption DEF Procs
  <2> QED BY <1>3, <1>4, <2>1 DEF SoleConnection
<1>9. RootsCarried'
  <2> SUFFICES ASSUME NEW i \in Instances, roots[i] = "granted", i \notin unnamed,
                      Known(Client), ~stopped
               PROVE  \E d \in Conns : Carries(d, conn[d], i)'
    BY <1>0 DEF RootsCarried, Known
  <2>1. PICK d \in Conns : Carries(d, conn[d], i)
    BY DEF RootsCarried
  <2>2. d = c => Anchored(c)
    BY <1>0, <2>1 DEF Carries
  <2> QED BY <1>0, <1>3, <1>4, <2>1, <2>2 DEF Carries, Anchored
<1> QED BY <1>5, <1>6, <1>7, <1>8, <1>9

\* The pin is cleared.  The revocation thread goes on with an authority that
\* is the peer's; without one the loss is unnamed.
LEMMA ReleaseKeeps ==
  ASSUME ChannelInv, NEW c \in Conns, Release(c)
  PROVE  ChannelInv'
<1> USE DEF ChannelInv
<1> DEFINE j == IF conn[c].auth # None THEN [conn[c] EXCEPT !.st = "grace"]
                                       ELSE FreeConnection
<1>0. /\ conn' = [conn EXCEPT ![c] = j] /\ conn[c].st = "releasing"
      /\ mcpPin' = IF mcpPin = c THEN None ELSE mcpPin
      /\ workspacePin' = IF workspacePin = c THEN None ELSE workspacePin
      /\ unnamed' = IF conn[c].auth = None THEN unnamed \cup {conn[c].peer} ELSE unnamed
      /\ UNCHANGED <<agent, proc, hidden, registered, readOnly, workspaceUsed,
                     admitted, roots, stopped>>
  BY DEF Release, Orphaned, processes, TypeOK
<1>1. conn[c] \in Connection /\ ThreadSound(c, conn[c])
  BY ConnectionFields DEF ThreadsSound
<1>2. None \notin Conns /\ None \notin Servers /\ None # Client /\ Client \notin Servers
  BY ChannelAssumption DEF Procs
<1>3. /\ Anchored(c) /\ conn[c].auth \in {None, conn[c].peer}
      /\ c = mcpPin => conn[c].peer \in Servers
      /\ c = workspacePin => conn[c].peer = Client
      /\ conn[c].peer \in Instances
  BY <1>0, <1>1 DEF ThreadSound, Anchored, Instances
<1>4. /\ j \in Connection
      /\ conn[c].auth # None => /\ j.st = "grace" /\ j.peer = conn[c].peer
                                /\ j.auth = conn[c].peer
      /\ conn[c].auth = None => j.st = "free" /\ j.peer = None
  BY <1>1, <1>3, FreeIsConnection DEF Connection, ThreadStates
<1> HIDE DEF j
<1>5. /\ conn' \in [Conns -> Connection] /\ conn'[c] = j
      /\ \A d \in Conns : d # c => conn'[d] = conn[d]
  BY <1>0, <1>4, ReplacedConnection DEF TypeOK
<1>6. /\ unnamed \subseteq unnamed' /\ unnamed' \subseteq Instances
      /\ conn[c].peer \notin unnamed' => conn[c].auth # None
  BY <1>0, <1>3 DEF TypeOK
<1>7. TypeOK'
  <2>1. {mcpPin', workspacePin'} \subseteq Conns \cup {None}
    BY <1>0 DEF TypeOK
  <2> QED BY <1>0, <1>5, <1>6, <2>1 DEF TypeOK
<1>8. PinsSound'
  BY <1>0 DEF PinsSound
<1>9. ThreadsSound'
  <2> SUFFICES ASSUME NEW d \in Conns
               PROVE  ThreadSound(d, conn[d])'
    BY DEF ThreadsSound
  <2>1. ThreadSound(d, conn[d])
    BY DEF ThreadsSound
  <2>2. CASE d = c
    <3>1. c # mcpPin' /\ c # workspacePin'
      BY <1>0, <1>2
    <3>2. c \notin readOnly
      BY <1>0, <1>1 DEF ThreadSound
    <3>3. conn[c].peer = Client => workspaceUsed' /\ workspacePin' = None
      <4> SUFFICES ASSUME conn[c].peer = Client
                   PROVE  workspaceUsed' /\ workspacePin' = None
        OBVIOUS
      <4>1. c = workspacePin /\ workspacePin # None
        BY <1>2, <1>3 DEF Anchored
      <4> QED BY <1>0, <4>1 DEF PinsSound
    <3>4. ~Pinned(c)'
      BY <1>0, <3>1, <3>2 DEF Pinned, IsMcp
    <3>5. j.st \in {"grace", "free"} /\ (j.st = "grace" => j.auth = j.peer /\ j.peer = conn[c].peer)
      BY <1>4
    <3> QED BY <1>3, <1>5, <2>2, <3>1, <3>3, <3>4, <3>5 DEF ThreadSound
  <2>3. CASE d # c
    <3>1. /\ d = mcpPin' <=> d = mcpPin
          /\ d = workspacePin' <=> d = workspacePin
          /\ workspacePin = None => workspacePin' = None
      BY <1>0, <1>2, <2>3
    <3>2. (Pinned(d)' <=> Pinned(d)) /\ (Anchored(d)' <=> Anchored(d))
      BY <1>0, <3>1 DEF Pinned, IsMcp, Anchored
    <3> QED BY <1>0, <1>5, <2>1, <2>3, <3>1, <3>2 DEF ThreadSound
  <2> QED BY <2>2, <2>3
<1>10. SoleConnection'
  BY <1>2, <1>4, <1>5 DEF SoleConnection
<1>11. RootsCarried'
  <2> SUFFICES ASSUME NEW i \in Instances, roots'[i] = "granted", i \notin unnamed',
                      Known(Client), ~stopped
               PROVE  \E d \in Conns : Carries(d, conn[d], i)'
    BY <1>0 DEF RootsCarried, Known
  <2>1. PICK d \in Conns : Carries(d, conn[d], i)
    BY <1>0, <1>6 DEF RootsCarried
  <2>2. CASE d = c
    BY <1>4, <1>5, <1>6, <2>1, <2>2 DEF Carries
  <2>3. CASE d # c
    BY <1>0, <1>5, <2>1, <2>3 DEF Carries, Anchored
  <2> QED BY <2>2, <2>3
<1> QED BY <1>7, <1>8, <1>9, <1>10, <1>11

\* The revocation: either the client is gone or the roots are.
LEMMA RevokeKeeps ==
  ASSUME ChannelInv, NEW c \in Conns, Revoke(c)
  PROVE  ChannelInv'
<1> USE DEF ChannelInv
<1>0. /\ conn' = [conn EXCEPT ![c] = FreeConnection] /\ conn[c].st = "revoking"
      /\ roots' = IF Known(Client)
                  THEN [roots EXCEPT ![conn[c].auth] = "revoked"] ELSE roots
      /\ ElsewhereUnchanged /\ UNCHANGED <<registered, admitted>>
  BY DEF Revoke, ElsewhereUnchanged, processes, pins, authority
<1>1. /\ conn[c].auth = conn[c].peer /\ conn[c].auth \in Instances
      /\ ~Pinned(c) /\ ~Anchored(c)
  BY <1>0, FreeIsUnpinned DEF ThreadsSound, ThreadSound
<1>2. /\ conn' \in [Conns -> Connection] /\ conn'[c] = FreeConnection
      /\ \A d \in Conns : d # c => conn'[d] = conn[d]
  BY <1>0, FreeIsConnection, ReplacedConnection DEF TypeOK
<1>3. /\ roots' \in [Instances -> {"none", "granted", "revoked"}]
      /\ \A i \in Instances : roots'[i] = "granted" => roots[i] = "granted"
      /\ Known(Client) => roots'[conn[c].peer] = "revoked"
  BY <1>0, <1>1 DEF TypeOK
<1>4. TypeOK'
  BY <1>0, <1>2, <1>3 DEF TypeOK, ElsewhereUnchanged
<1>5. PinsSound'
  BY <1>0 DEF PinsSound, ElsewhereUnchanged
<1>6. ThreadsSound'
  <2>1. ASSUME NEW d \in Conns
        PROVE  ThreadSound(d, conn'[d])
    BY <1>1, <1>2, FreeIsConnection
    DEF ThreadsSound, ThreadSound, Pinned, IsMcp, Anchored
  <2>2. ASSUME NEW d \in Conns, NEW k, ThreadSound(d, k)
        PROVE  ThreadSound(d, k)'
    BY <1>0, <2>2 DEF ThreadSound, Pinned, IsMcp, Anchored, ElsewhereUnchanged
  <2> QED BY <2>1, <2>2 DEF ThreadsSound
<1>7. SoleConnection'
  <2>1. None \notin Servers
    BY ChannelAssumption DEF Procs
  <2> QED BY <1>2, <2>1, FreeIsConnection DEF SoleConnection
<1>8. RootsCarried'
  <2> SUFFICES ASSUME NEW i \in Instances, roots'[i] = "granted", i \notin unnamed',
                      Known(Client), ~stopped
               PROVE  \E d \in Conns : Carries(d, conn[d], i)'
    BY <1>0 DEF RootsCarried, Known, ElsewhereUnchanged
  <2>1. PICK d \in Conns : Carries(d, conn[d], i)
    BY <1>0, <1>3 DEF RootsCarried, ElsewhereUnchanged
  <2>2. d # c
    BY <1>3, <2>1 DEF Carries
  <2> QED BY <1>0, <1>2, <2>1, <2>2 DEF Carries, Anchored, ElsewhereUnchanged
<1> QED BY <1>4, <1>5, <1>6, <1>7, <1>8

----------------------------------------------------------------------------
(* Processes, and the rest. *)

\* Processes start, exit, are reaped, hide their descriptors and are torn
\* down, and the supervisor stops: connections see at most an end of file, and
\* a client that is gone stays gone.
LEMMA ProcessKeeps ==
  ASSUME ChannelInv, Process
  PROVE  ChannelInv'
<1> USE DEF ChannelInv
<1>0. /\ UNCHANGED <<agent, registered, mcpPin, readOnly, workspacePin,
                     workspaceUsed, admitted, roots, unnamed>>
      /\ stopped => stopped'
  BY DEF Process, Spawn, Exit, Reap, Harden, Teardown, Stop, pins, processes, authority
<1>1. /\ proc' \in [Procs -> {"unborn", "live", "exited", "gone"}]
      /\ Known(Client)' => Known(Client)
  <2>1. ASSUME NEW m \in Servers, Spawn(m)
        PROVE  /\ proc' \in [Procs -> {"unborn", "live", "exited", "gone"}]
               /\ proc'[Client] = proc[Client]
    BY <2>1, ChannelAssumption DEF Spawn, TypeOK, Procs
  <2>2. ASSUME NEW p \in Procs, Exit(p) \/ Reap(p)
        PROVE  /\ proc' \in [Procs -> {"unborn", "live", "exited", "gone"}]
               /\ Known(Client)' => Known(Client)
    BY <2>2 DEF Exit, Reap, TypeOK, Known, Procs
  <2>3. CASE Teardown
    BY <2>3 DEF Teardown, Known, Procs
  <2>4. CASE Harden \/ Stop
    BY <2>4 DEF Harden, Stop, TypeOK, Known, processes, authority
  <2> QED BY <2>1, <2>2, <2>3, <2>4 DEF Process, Known
<1>2. /\ conn' \in [Conns -> Connection]
      /\ \A c \in Conns : /\ conn'[c].peer = conn[c].peer
                          /\ conn'[c].st = conn[c].st
                          /\ conn'[c].op = conn[c].op
                          /\ conn'[c].elig = conn[c].elig
                          /\ conn'[c].auth = conn[c].auth
  <2>1. ASSUME NEW c \in Conns
        PROVE  /\ [conn[c] EXCEPT !.eof = TRUE] \in Connection
               /\ [conn[c] EXCEPT !.eof = TRUE].peer = conn[c].peer
               /\ [conn[c] EXCEPT !.eof = TRUE].st = conn[c].st
               /\ [conn[c] EXCEPT !.eof = TRUE].op = conn[c].op
               /\ [conn[c] EXCEPT !.eof = TRUE].elig = conn[c].elig
               /\ [conn[c] EXCEPT !.eof = TRUE].auth = conn[c].auth
    BY ConnectionFields DEF Connection
  <2>2. ASSUME NEW p \in Procs, Exit(p)
        PROVE  conn' = [c \in Conns |-> IF conn[c].peer = p
                          THEN [conn[c] EXCEPT !.eof = TRUE] ELSE conn[c]]
    BY <2>2 DEF Exit
  <2>3. CASE Teardown
    BY <2>1, <2>3 DEF Teardown, TypeOK
  <2>4. CASE UNCHANGED conn
    BY <2>4 DEF TypeOK
  <2>5. CASE \E p \in Procs : Exit(p)
    BY <2>1, <2>2, <2>5 DEF TypeOK
  <2> QED BY <2>3, <2>4, <2>5 DEF Process, Spawn, Reap, Harden, Stop
<1>3. hidden' \in BOOLEAN /\ stopped' \in BOOLEAN
  BY DEF Process, Spawn, Exit, Reap, Harden, Teardown, Stop, processes, authority, TypeOK
<1>4. TypeOK'
  BY <1>0, <1>1, <1>2, <1>3 DEF TypeOK
<1>5. PinsSound'
  BY <1>0 DEF PinsSound
<1>6. ThreadsSound'
  <2> SUFFICES ASSUME NEW c \in Conns
               PROVE  ThreadSound(c, conn[c])'
    BY DEF ThreadsSound
  <2>1. ThreadSound(c, conn[c])
    BY DEF ThreadsSound
  <2> QED BY <1>0, <1>2, <2>1 DEF ThreadSound, Pinned, IsMcp, Anchored
<1>7. SoleConnection'
  BY <1>2 DEF SoleConnection
<1>8. RootsCarried'
  <2> SUFFICES ASSUME NEW i \in Instances, roots[i] = "granted", i \notin unnamed,
                      Known(Client)', ~stopped'
               PROVE  \E d \in Conns : Carries(d, conn[d], i)'
    BY <1>0 DEF RootsCarried
  <2>1. PICK d \in Conns : Carries(d, conn[d], i)
    BY <1>0, <1>1 DEF RootsCarried
  <2> QED BY <1>0, <1>2, <2>1 DEF Carries, Anchored
<1> QED BY <1>4, <1>5, <1>6, <1>7, <1>8

\* Nobody has connected yet.
LEMMA InitChannel == Init => ChannelInv
<1> SUFFICES ASSUME Init
             PROVE  ChannelInv
  OBVIOUS
<1>1. \A c \in Conns : conn[c] = FreeConnection
  BY DEF Init
<1>2. TypeOK
  <2>1. proc \in [Procs -> {"unborn", "live", "exited", "gone"}]
    BY DEF Init
  <2>2. conn \in [Conns -> Connection]
    BY FreeIsConnection DEF Init
  <2> QED BY <2>1, <2>2 DEF Init, TypeOK
<1>3. None \notin Conns /\ None \notin Servers
  BY ChannelAssumption DEF Procs
<1>4. PinsSound /\ RootsCarried
  BY DEF Init, PinsSound, RootsCarried
<1>5. ThreadsSound
  BY <1>1, <1>3, FreeIsConnection
  DEF Init, ThreadsSound, ThreadSound, Pinned, IsMcp, Anchored
<1>6. SoleConnection
  BY <1>1, <1>3, FreeIsConnection DEF SoleConnection
<1> QED BY <1>2, <1>4, <1>5, <1>6 DEF ChannelInv

\* Every step keeps the invariant.
LEMMA NextChannel == ChannelInv /\ [Next]_vars => ChannelInv'
<1> SUFFICES ASSUME ChannelInv, [Next]_vars
             PROVE  ChannelInv'
  OBVIOUS
<1>1. CASE UNCHANGED vars
  BY <1>1 DEF vars, processes, pins, authority, ChannelInv, TypeOK, PinsSound,
              ThreadsSound, ThreadSound, Pinned, IsMcp, Anchored,
              SoleConnection, RootsCarried, Carries, Known
<1>2. ASSUME NEW c \in Conns, Thread(c)
      PROVE  ChannelInv'
  BY <1>2, PinKeeps, HandleKeeps, ComputeReleaseKeeps, ReleaseKeeps,
     GraceEndsKeeps, RevokeKeeps
  DEF Thread
<1>3. ASSUME NEW c \in Conns, Request(c)
      PROVE  ChannelInv'
  BY <1>3, RegisterKeeps, ComputeEligibilityKeeps, CheckKeeps DEF Request
<1>4. CASE Peer
  BY <1>3, <1>4, ConnectKeeps, CloseKeeps DEF Peer
<1> QED BY <1>1, <1>2, <1>4, ProcessKeeps DEF Next

\* The invariant holds throughout.
LEMMA ChannelInvHolds == Spec => []ChannelInv
  BY InitChannel, NextChannel, PTL DEF Spec

----------------------------------------------------------------------------
(* The results. *)

\* Type correctness of the control channel.
THEOREM TypeCorrectness == Spec => []TypeOK
<1>1. ChannelInv => TypeOK
  BY DEF ChannelInv
<1> QED BY <1>1, ChannelInvHolds, PTL

\* Between the check of a decision and its handler (_handle_conn) the deciding
\* connection is the only admitted MCP peer.
THEOREM DecisionsAreAlone == Spec => []DecidesAlone
<1>1. ChannelInv => DecidesAlone
  <2> SUFFICES ASSUME ChannelInv, NEW c \in Conns,
                      conn[c].st = "checked", conn[c].op = "decide"
               PROVE  mcpPin = c /\ readOnly = {}
    BY DEF DecidesAlone
  <2>1. mcpPin = c
    BY DEF ChannelInv, ThreadsSound, ThreadSound
  <2>2. mcpPin # None
    BY <2>1, ChannelAssumption
  <2> QED BY <2>1, <2>2 DEF ChannelInv, PinsSound
<1> QED BY <1>1, ChannelInvHolds, PTL

\* _revoke_roots_after_grace never ends roots of an instance that a pinned
\* connection answers for now.
THEOREM RevocationSparesLive == Spec => []LateRevocationSparesLive
<1>1. ChannelInv => LateRevocationSparesLive
  <2> SUFFICES ASSUME ChannelInv, NEW c \in Conns, NEW d \in Conns,
                      conn[c].st \in {"grace", "revoking"},
                      d \in {mcpPin, workspacePin},
                      conn[c].auth = Authority(d)
               PROVE  FALSE
    BY DEF LateRevocationSparesLive
  <2>1. /\ conn[c].auth = conn[c].peer /\ conn[c].peer \in Instances
        /\ conn[c].auth = Client => workspacePin = None
        /\ ~Pinned(c)
    BY DEF ChannelInv, ThreadsSound, ThreadSound
  <2>2. conn[d].peer = conn[c].peer
    BY <2>1, AuthorityIsPeer
  <2>3. /\ d = mcpPin => conn[d].peer \in Servers
        /\ d = workspacePin => conn[d].peer = Client
    BY DEF ChannelInv, ThreadsSound, ThreadSound
  <2>4. c # d
    BY <2>1 DEF Pinned, IsMcp
  <2>5. conn[c].peer \notin Servers
    BY <2>2, <2>4 DEF ChannelInv, SoleConnection
  <2> QED BY <2>1, <2>2, <2>3, <2>5, ChannelAssumption
<1> QED BY <1>1, ChannelInvHolds, PTL

\* Roots in force have a connection, or a revocation thread that has taken its
\* place, unless the client is gone, the session stopped, or the supervisor
\* could not tell at the loss whose connection it was.
THEOREM RootsAreCarried == Spec => []LostRootsAreRevoked
<1>1. ChannelInv => LostRootsAreRevoked
  BY DEF ChannelInv, RootsCarried, Carries, LostRootsAreRevoked, Answered
<1> QED BY <1>1, ChannelInvHolds, PTL
============================================================================
