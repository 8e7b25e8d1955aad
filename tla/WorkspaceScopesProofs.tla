----------------------- MODULE WorkspaceScopesProofs -----------------------
(* Proofs about WorkspaceScopes, for all directories, hooks and clients:   *)
(* every effective scope has an authority, a proposal allows nothing, and  *)
(* the confirmed roots are those of the active sessions.                   *)
EXTENDS WorkspaceScopes, TLAPS

\* The value of the ceiling is a set of directories.
LEMMA CeilingType ==
  ASSUME TypeOK PROVE Ceiling \subseteq Dirs
BY DEF TypeOK, Ceiling

\* The roots derived from well-typed records are directories.
LEMMA DerivedType ==
  ASSUME NEW recs \in [Clients -> ClientRecord]
  PROVE  Derived(recs) \subseteq Dirs
BY DEF Derived, ClientRecord

\* Replacing the union of the confirmed roots preserves the types.
LEMMA TypeReplaceUnion ==
  ASSUME TypeOK, NEW confirmed \in SUBSET Dirs, ReplaceUnion(confirmed),
         UNCHANGED <<refs, approved>>, records' \in [Clients -> ClientRecord],
         bySessions' \in BOOLEAN
  PROVE  TypeOK'
BY CeilingType DEF TypeOK, ReplaceUnion, Rewrite, UseCeiling

\* An owner that leaves all entries but one.
LEMMA ReleasedType ==
  ASSUME NEW owners \in [Dirs -> SUBSET Hooks], NEW h \in Hooks, NEW d \in Dirs
  PROVE  Released(owners, h, d) \in [Dirs -> SUBSET Hooks]
BY DEF Released

\* The hooks preserve the types.
LEMMA TypeHooks ==
  ASSUME TypeOK, NEW h \in Hooks, NEW d \in Dirs,
         Propose(h, d) \/ AddWorkspace(h, d) \/ RemoveWorkspace(h, d)
  PROVE  TypeOK'
<1>0. /\ Released(refs, h, d) \in [Dirs -> SUBSET Hooks]
      /\ Released(proposals, h, d) \in [Dirs -> SUBSET Hooks]
      /\ Ceiling \subseteq Dirs
  BY ReleasedType, CeilingType DEF TypeOK
<1>1. CASE Propose(h, d)
  BY <1>0, <1>1 DEF TypeOK, Propose, Rewrite, UseCeiling
<1>2. CASE AddWorkspace(h, d)
  BY <1>0, <1>2 DEF TypeOK, AddWorkspace, Rewrite, UseCeiling
<1>3. CASE RemoveWorkspace(h, d)
  BY <1>3 DEF TypeOK, RemoveWorkspace, Rewrite
<1> QED BY <1>1, <1>2, <1>3

\* The records of the clients stay well typed.
LEMMA RecordTypes ==
  ASSUME TypeOK, ClientStep
  PROVE  records' \in [Clients -> ClientRecord]
<1>1. ASSUME NEW c \in Clients, NEW g \in 0..MaxGeneration,
             NEW roots \in SUBSET Dirs, ReplaceSession(c, g, roots)
      PROVE  records' \in [Clients -> ClientRecord]
  BY <1>1 DEF ReplaceSession, TypeOK, ClientRecord
<1>2. ASSUME NEW t \in Transports, RevokeAuthority(t)
      PROVE  records' \in [Clients -> ClientRecord]
  <2>1. ASSUME NEW c \in Clients
        PROVE  records[c].generation + 1 \in 0..MaxGeneration
    BY <1>2, ScopesAssumption DEF RevokeAuthority, TypeOK, ClientRecord
  <2> QED BY <1>2, <2>1 DEF RevokeAuthority, Ended, TypeOK, ClientRecord
<1>3. ASSUME NEW bad \in SUBSET Clients, Invalidate(bad)
      PROVE  records' \in [Clients -> ClientRecord]
  <2>1. \A c \in Clients : InvalidRecord(c) \in ClientRecord
    BY DEF InvalidRecord, TypeOK, ClientRecord
  <2> QED BY <1>3, <2>1 DEF Invalidate, TypeOK
<1>4. ASSUME NEW roots \in SUBSET Dirs, ConfirmRoots(roots)
      PROVE  records' \in [Clients -> ClientRecord]
  BY <1>4 DEF ConfirmRoots, TypeOK
<1> QED BY <1>1, <1>2, <1>3, <1>4 DEF ClientStep

\* A step of a client replaces the union by well-typed confirmed roots.
LEMMA ClientReplacesUnion ==
  ASSUME TypeOK, ClientStep
  PROVE  /\ \E confirmed \in SUBSET Dirs : ReplaceUnion(confirmed)
         /\ UNCHANGED <<refs, approved>>
<1>1. records' \in [Clients -> ClientRecord]
  BY RecordTypes
<1>2. Derived(records') \in SUBSET Dirs
  BY <1>1, DerivedType
<1>3. CASE ReplaceUnion(Derived(records')) /\ UNCHANGED <<refs, approved>>
  BY <1>2, <1>3
<1>4. ASSUME NEW roots \in SUBSET Dirs, ConfirmRoots(roots)
      PROVE  ReplaceUnion(roots) /\ UNCHANGED <<refs, approved>>
  BY <1>4 DEF ConfirmRoots
<1> QED BY <1>3, <1>4
       DEF ClientStep, ReplaceSession, RevokeAuthority, Invalidate

\* Every step preserves the types.
LEMMA TypeNext == TypeOK /\ [Next]_vars => TypeOK'
<1> SUFFICES ASSUME TypeOK, [Next]_vars PROVE TypeOK'
  OBVIOUS
<1>1. CASE HookStep
  BY <1>1, TypeHooks DEF HookStep
<1>2. CASE ClientStep
  <2>1. bySessions' \in BOOLEAN
    BY <1>2 DEF ClientStep, ReplaceSession, RevokeAuthority, Invalidate,
       ConfirmRoots
  <2> QED BY <1>2, <2>1, ClientReplacesUnion, RecordTypes, TypeReplaceUnion
<1>3. ASSUME NEW d \in Dirs, ApprovePath(d) PROVE TypeOK'
  BY <1>3 DEF ApprovePath, TypeOK
<1>4. CASE Reset
  <2>1. NoRecord \in ClientRecord
    BY ScopesAssumption DEF NoRecord, ClientRecord
  <2> QED BY <1>4, <2>1 DEF Reset, Rewrite, NoOwners, TypeOK
<1>5. CASE UNCHANGED vars
  BY <1>5 DEF vars, TypeOK
<1> QED BY <1>1, <1>2, <1>3, <1>4, <1>5 DEF Next

\* The state at launch is well typed.
LEMMA TypeInit == Init => TypeOK
<1>1. NoRecord \in ClientRecord
  BY ScopesAssumption DEF NoRecord, ClientRecord
<1> QED BY <1>1, ScopesAssumption DEF Init, TypeOK, NoOwners

\* Type correctness of the persisted workspace policy.
THEOREM TypeCorrectness == Spec => []TypeOK
BY TypeInit, TypeNext, PTL DEF Spec

----------------------------------------------------------------------------
(* Every scope has an authority. *)

\* The ceiling holds only what the operator or the user allowed.
LEMMA CeilingJustified ==
  ASSUME TypeOK, ScopesJustified PROVE Ceiling \subseteq Static \cup approved
BY DEF ScopesJustified, Ceiling, Authority

\* A directory beneath a smaller set of scopes is beneath a larger one.
LEMMA BeneathMonotone ==
  ASSUME NEW d, NEW S, NEW T, S \subseteq T, Beneath(d, S)
  PROVE  Beneath(d, T)
BY DEF Beneath

\* Hooks own only what lies beneath the ceiling, and take with them only
\* what they own.
LEMMA JustifiedHooks ==
  ASSUME TypeOK, ScopesJustified, NEW h \in Hooks, NEW d \in Dirs,
         Propose(h, d) \/ AddWorkspace(h, d) \/ RemoveWorkspace(h, d)
  PROVE  ScopesJustified'
<1>0. Ceiling \subseteq Static \cup approved
  BY CeilingJustified
<1>1. CASE Propose(h, d)
  <2>1. /\ approved' = approved /\ mcpRoots' = mcpRoots
        /\ ceiling' = Ceiling /\ ceilingSet' = TRUE
        /\ refs' = Released(refs, h, d)
        /\ workspaces' = workspaces \ Abandoned(h, d)
        /\ allowed' = workspaces' \cup (allowed \ workspaces)
    BY <1>1 DEF Propose, Rewrite, UseCeiling
  <2>2. Owned' \subseteq Owned /\ Owned \ Owned' \subseteq Abandoned(h, d)
    BY <2>1 DEF Owned, Released, Abandoned, TypeOK
  <2> QED BY <1>0, <2>1, <2>2 DEF ScopesJustified, Authority
<1>2. CASE AddWorkspace(h, d)
  <2> DEFINE ws == workspaces \ Abandoned(h, d)
             known == d \in allowed \cup ws
  <2>1. /\ approved' = approved /\ mcpRoots' = mcpRoots
        /\ ceiling' = Ceiling /\ ceilingSet' = TRUE
        /\ Authorized(d) \/ known
        /\ refs' = IF refs[d] # {} \/ ~known
                   THEN [Released(refs, h, d) EXCEPT ![d] = @ \cup {h}]
                   ELSE Released(refs, h, d)
        /\ workspaces' = IF refs[d] # {} \/ known THEN ws ELSE ws \cup {d}
        /\ allowed' = workspaces' \cup (allowed \ workspaces)
    BY <1>2 DEF AddWorkspace, Rewrite, UseCeiling
  <2> HIDE DEF known
  <2>2. Owned \ Owned' \subseteq Abandoned(h, d)
    BY <2>1 DEF Owned, Released, Abandoned, TypeOK
  <2>3. \A k \in Owned' : k \in Owned \/ (k = d /\ ~known)
    BY <2>1 DEF Owned, Released, TypeOK
  <2>4. ~known => Beneath(d, Static \cup approved) /\ d \in Owned'
    BY <1>0, <2>1, BeneathMonotone DEF Authorized, Owned, Released, TypeOK
  <2>5. \A k \in Owned' : Beneath(k, Static \cup approved)
    BY <2>3, <2>4 DEF ScopesJustified
  <2>6. workspaces' \subseteq Authority \cup Owned'
    BY <2>1, <2>2, <2>4 DEF ScopesJustified
  <2> QED BY <1>0, <2>1, <2>5, <2>6 DEF ScopesJustified, Authority
<1>3. CASE RemoveWorkspace(h, d)
  <2>1. /\ approved' = approved /\ mcpRoots' = mcpRoots
        /\ ceiling' = ceiling /\ ceilingSet' = ceilingSet
        /\ refs' = [refs EXCEPT ![d] = @ \ {h}]
        /\ workspaces' = IF refs[d] = {h} /\ d \notin mcpRoots
                         THEN workspaces \ {d} ELSE workspaces
        /\ allowed' = workspaces' \cup (allowed \ workspaces)
    BY <1>3 DEF RemoveWorkspace, Rewrite
  <2>2. Owned' \subseteq Owned
          /\ Owned \ Owned' \subseteq (IF refs[d] = {h} THEN {d} ELSE {})
    BY <2>1 DEF Owned, TypeOK
  <2>3. workspaces' \subseteq Authority \cup Owned'
    BY <2>1, <2>2 DEF ScopesJustified, Authority
  <2> QED BY <2>1, <2>2, <2>3 DEF ScopesJustified, Authority
<1> QED BY <1>1, <1>2, <1>3

\* A client takes away what only its old roots had justified.
LEMMA JustifiedClients ==
  ASSUME TypeOK, ScopesJustified, NEW confirmed \in SUBSET Dirs,
         ReplaceUnion(confirmed), UNCHANGED <<refs, approved>>
  PROVE  ScopesJustified'
<1>0. Ceiling \subseteq Static \cup approved
  BY CeilingJustified
<1>1. Owned' = Owned
  BY DEF Owned
<1> QED BY <1>0, <1>1
       DEF ReplaceUnion, Rewrite, UseCeiling, ScopesJustified, Authority

\* ScopesJustified is inductive, given the types.
LEMMA JustifiedNext ==
  TypeOK /\ ScopesJustified /\ [Next]_vars => ScopesJustified'
<1> SUFFICES ASSUME TypeOK, ScopesJustified, [Next]_vars
             PROVE  ScopesJustified'
  OBVIOUS
<1>1. CASE HookStep
  BY <1>1, JustifiedHooks DEF HookStep
<1>2. CASE ClientStep
  BY <1>2, ClientReplacesUnion, JustifiedClients
<1>3. ASSUME NEW d \in Dirs, ApprovePath(d) PROVE ScopesJustified'
  <2>1. Owned' = Owned
    BY <1>3 DEF ApprovePath, Owned
  <2>2. \A k \in Owned' : Beneath(k, Static \cup approved')
    BY <1>3, <2>1, BeneathMonotone DEF ApprovePath, ScopesJustified
  <2> QED BY <1>3, <2>1, <2>2 DEF ApprovePath, ScopesJustified, Authority
<1>4. CASE Reset
  <2>1. Owned' = {}
    BY <1>4 DEF Reset, Owned, NoOwners
  <2> QED BY <1>4, <2>1 DEF Reset, Rewrite, ScopesJustified, Authority
<1>5. CASE UNCHANGED vars
  BY <1>5 DEF vars, ScopesJustified, Authority, Owned
<1> QED BY <1>1, <1>2, <1>3, <1>4, <1>5 DEF Next

\* What was allowed at launch is justified.
LEMMA JustifiedInit == Init => ScopesJustified
BY ScopesAssumption DEF Init, ScopesJustified, Authority, Owned, NoOwners

\* A directory beneath one that lies beneath the authorities does so itself.
LEMMA JustifiedScopes ==
  ASSUME TypeOK, ScopesJustified PROVE EveryScopeHasAuthority
<1> SUFFICES ASSUME NEW d \in Dirs, NEW s \in allowed, <<d, s>> \in Within
             PROVE  Beneath(d, Authority)
  BY DEF EveryScopeHasAuthority, Beneath
<1>0. s \in Dirs /\ Authority \subseteq Dirs
  BY ScopesAssumption DEF TypeOK, Authority
<1>1. CASE s \in Authority
  BY <1>1 DEF Beneath
<1>2. CASE s \in Owned
  <2>1. PICK a \in Static \cup approved : <<s, a>> \in Within
    BY <1>2 DEF ScopesJustified, Beneath
  <2>2. a \in Authority /\ a \in Dirs
    BY <1>0 DEF Authority
  <2>3. <<d, a>> \in Within
    BY <1>0, <2>1, <2>2, ScopesAssumption
  <2> QED BY <2>2, <2>3 DEF Beneath
<1> QED BY <1>1, <1>2 DEF ScopesJustified, Authority

\* Whatever the hooks do, in whatever order clients replace, lose and regain
\* their roots and however often the agent is relaunched, a change under
\* allowed_scopes lies beneath a scope of the operator, of the user or of a
\* client that confirms it now.
THEOREM ScopesHaveAuthority == Spec => []EveryScopeHasAuthority
<1>1. Init => TypeOK /\ ScopesJustified
  BY TypeInit, JustifiedInit
<1>2. TypeOK /\ ScopesJustified /\ [Next]_vars => (TypeOK /\ ScopesJustified)'
  BY TypeNext, JustifiedNext
<1>3. TypeOK /\ ScopesJustified => EveryScopeHasAuthority
  BY JustifiedScopes
<1> QED BY <1>1, <1>2, <1>3, PTL DEF Spec

----------------------------------------------------------------------------
(* Proposals. *)

\* Nothing but a confirmed root or an activated proposal becomes allowed.
LEMMA ProposalNext ==
  TypeOK /\ ScopesJustified /\ ProposalAllowsNothing /\ [Next]_vars
    => ProposalAllowsNothing'
<1> SUFFICES ASSUME TypeOK, ScopesJustified, ProposalAllowsNothing,
                    [Next]_vars
             PROVE  ProposalAllowsNothing'
  OBVIOUS
<1>0. workspaces \subseteq allowed
  BY DEF ScopesJustified
<1>1. ASSUME NEW h \in Hooks, NEW d \in Dirs, Propose(h, d)
      PROVE  ProposalAllowsNothing'
  <2>1. allowed' \subseteq allowed /\ approved' = approved /\ d \notin allowed
    BY <1>0, <1>1 DEF Propose, Rewrite
  <2>2. \A k \in Dirs : proposals'[k] # {} => proposals[k] # {} \/ k = d
    BY <1>1 DEF Propose, Released, TypeOK
  <2> QED BY <2>1, <2>2 DEF ProposalAllowsNothing
<1>2. ASSUME NEW h \in Hooks, NEW d \in Dirs, AddWorkspace(h, d)
      PROVE  ProposalAllowsNothing'
  <2>1. allowed' \subseteq allowed \cup {d} /\ approved' = approved
    BY <1>0, <1>2 DEF AddWorkspace, Rewrite
  <2>2. \A k \in Dirs : proposals'[k] # {} => proposals[k] # {} /\ k # d
    BY <1>2 DEF AddWorkspace, Released, TypeOK
  <2> QED BY <2>1, <2>2 DEF ProposalAllowsNothing
<1>3. ASSUME NEW h \in Hooks, NEW d \in Dirs, RemoveWorkspace(h, d)
      PROVE  ProposalAllowsNothing'
  <2>1. allowed' \subseteq allowed /\ approved' = approved
    BY <1>0, <1>3 DEF RemoveWorkspace, Rewrite
  <2>2. \A k \in Dirs : proposals'[k] # {} => proposals[k] # {}
    BY <1>3 DEF RemoveWorkspace, TypeOK
  <2> QED BY <2>1, <2>2 DEF ProposalAllowsNothing
<1>4. CASE ClientStep
  <2>1. PICK confirmed \in SUBSET Dirs : ReplaceUnion(confirmed)
    BY <1>4, ClientReplacesUnion
  <2>2. approved' = approved
    BY <1>4, ClientReplacesUnion
  <2> QED BY <1>0, <2>1, <2>2 DEF ReplaceUnion, Rewrite, ProposalAllowsNothing
<1>5. ASSUME NEW d \in Dirs, ApprovePath(d) PROVE ProposalAllowsNothing'
  BY <1>5 DEF ApprovePath, ProposalAllowsNothing
<1>6. CASE Reset
  BY <1>6 DEF Reset, NoOwners, ProposalAllowsNothing
<1>7. CASE UNCHANGED vars
  BY <1>7 DEF vars, ProposalAllowsNothing
<1> QED BY <1>1, <1>2, <1>3, <1>4, <1>5, <1>6, <1>7 DEF Next, HookStep

\* A hook's proposal allows nothing until a client confirms that root, the
\* hook's path turns out to be allowed, or the user approves it.
THEOREM ProposalsAllowNothing == Spec => []ProposalAllowsNothing
<1>1. Init => TypeOK /\ ScopesJustified /\ ProposalAllowsNothing
  BY TypeInit, JustifiedInit DEF Init, NoOwners, ProposalAllowsNothing
<1>2. TypeOK /\ ScopesJustified /\ ProposalAllowsNothing /\ [Next]_vars
        => (TypeOK /\ ScopesJustified /\ ProposalAllowsNothing)'
  BY TypeNext, JustifiedNext, ProposalNext
<1> QED BY <1>1, <1>2, PTL DEF Spec

----------------------------------------------------------------------------
(* Confirmed roots and generations. *)

\* Unless a client without sessions spoke last, the confirmed roots are those
\* of the active logical sessions, through revocations, failed revalidations
\* and relaunches.
THEOREM RootsAreDerived == Spec => []RootsAreThoseOfActiveSessions
<1>1. Init => RootsAreThoseOfActiveSessions
  BY DEF Init, RootsAreThoseOfActiveSessions, Derived, NoRecord
<1>2. RootsAreThoseOfActiveSessions /\ [Next]_vars
        => RootsAreThoseOfActiveSessions'
  <2> SUFFICES ASSUME RootsAreThoseOfActiveSessions, [Next]_vars, bySessions'
               PROVE  mcpRoots' = Derived(records')
    BY DEF RootsAreThoseOfActiveSessions, Derived
  <2>0. ASSUME UNCHANGED <<mcpRoots, records, bySessions>>
        PROVE  mcpRoots' = Derived(records')
    BY <2>0 DEF RootsAreThoseOfActiveSessions, Derived
  <2>1. CASE HookStep
    BY <2>0, <2>1 DEF HookStep, Propose, AddWorkspace, RemoveWorkspace
  <2>2. CASE ClientStep
    BY <2>2 DEF ClientStep, ReplaceSession, RevokeAuthority, Invalidate,
       ConfirmRoots, ReplaceUnion
  <2>3. ASSUME NEW d \in Dirs, ApprovePath(d)
        PROVE  mcpRoots' = Derived(records')
    BY <2>0, <2>3 DEF ApprovePath
  <2>4. CASE Reset
    BY <2>4 DEF Reset, Derived, NoRecord
  <2>5. CASE UNCHANGED vars
    BY <2>0, <2>5 DEF vars
  <2> QED BY <2>1, <2>2, <2>3, <2>4, <2>5 DEF Next
<1> QED BY <1>1, <1>2, PTL DEF Spec

============================================================================
