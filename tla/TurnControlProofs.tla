------------------------- MODULE TurnControlProofs -------------------------
(***************************************************************************)
(* Theorems about TurnControl, for every set of paths, names and tokens,   *)
(* every scope and every bound.                                            *)
(*                                                                         *)
(* CommittedReachedUnderlay needs nothing besides the types.  For          *)
(* UnderlayNeedsAuthority the invariant is Authorised, of the policy in    *)
(* memory and of the saved one: an approved path has the user's consent, a *)
(* path remembered as committed was granted at some time or has it, and    *)
(* `granted' covers what is granted now.  The properties about the user's  *)
(* answers rest on Remembered: what an operation decided is decided in     *)
(* memory and in session.json.                                             *)
(***************************************************************************)
EXTENDS TurnControl, TLAPS

----------------------------------------------------------------------------
(* The operators that record decisions. *)

\* _mark_paths changes the decisions of the given names and nothing else.
LEMMA MarkedPolicy ==
  ASSUME NEW p \in Policy, NEW S, NEW d \in Decisions
  PROVE  /\ Marked(p, S, d) \in Policy
         /\ Marked(p, S, d).approved = p.approved
         /\ Marked(p, S, d).workspace = p.workspace
         /\ Marked(p, S, d).abort = p.abort
         /\ \A n \in Names : Marked(p, S, d).decisions[n]
                               = IF n \in S THEN d ELSE p.decisions[n]
  BY DEF Marked, Policy

\* A name decided as committed after _mark_paths was so before, unless it is
\* one of the names marked as committed.
LEMMA MarkedCommitted ==
  ASSUME NEW p \in Policy, NEW S, NEW d \in Decisions
  PROVE  Decided(Marked(p, S, d), "committed") \subseteq
           Decided(p, "committed") \cup (IF d = "committed" THEN S ELSE {})
  BY MarkedPolicy DEF Decided

\* After _apply exactly what it applied is newly remembered as committed.
LEMMA AfterApplyPolicy ==
  ASSUME NEW p \in Policy, NEW plan, NEW done
  PROVE  /\ AfterApply(p, plan, done) \in Policy
         /\ AfterApply(p, plan, done).approved = p.approved
         /\ AfterApply(p, plan, done).workspace = p.workspace
         /\ Decided(AfterApply(p, plan, done), "committed") \subseteq
              Decided(p, "committed") \cup done
<1> DEFINE q == Marked(p, done, "committed")
<1>1. q \in Policy /\ q.approved = p.approved /\ q.workspace = p.workspace
  BY MarkedPolicy DEF Decisions
<1>2. Decided(q, "committed") \subseteq Decided(p, "committed") \cup done
  BY MarkedCommitted DEF Decisions
<1>3. AfterApply(p, plan, done) = Marked(q, plan \ done, "kept")
  BY DEF AfterApply
<1> HIDE DEF q
<1>4. Decided(Marked(q, plan \ done, "kept"), "committed")
        \subseteq Decided(q, "committed")
  BY <1>1, MarkedCommitted DEF Decisions
<1>5. /\ Marked(q, plan \ done, "kept") \in Policy
      /\ Marked(q, plan \ done, "kept").approved = q.approved
      /\ Marked(q, plan \ done, "kept").workspace = q.workspace
  BY <1>1, MarkedPolicy DEF Decisions
<1> QED BY <1>1, <1>2, <1>3, <1>4, <1>5

\* What the user approved and was applied is the only thing newly allowed.
LEMMA CommitAndKeepPolicy ==
  ASSUME TypeOK, NEW C, NEW K, NEW done \in SUBSET Paths
  PROVE  /\ CommitAndKeep(C, K, done) \in Policy
         /\ CommitAndKeep(C, K, done).approved = mem.approved \cup done
         /\ CommitAndKeep(C, K, done).workspace = mem.workspace
         /\ Decided(CommitAndKeep(C, K, done), "committed") \subseteq
              Decided(mem, "committed") \cup done
<1> DEFINE p == AfterApply(mem, C \cap Changes, done)
           q == [p EXCEPT !.approved = @ \cup done]
<1>0. mem \in Policy
  BY DEF TypeOK
<1>1. /\ p \in Policy /\ p.approved = mem.approved
      /\ p.workspace = mem.workspace
      /\ Decided(p, "committed") \subseteq Decided(mem, "committed") \cup done
  BY <1>0, AfterApplyPolicy
<1>2. CommitAndKeep(C, K, done) = Marked(q, K, "kept")
  BY DEF CommitAndKeep
<1> HIDE DEF p
<1>3. /\ q \in Policy /\ q.approved = mem.approved \cup done
      /\ q.workspace = mem.workspace /\ q.decisions = p.decisions
  BY <1>1 DEF Policy
<1>4. Decided(q, "committed") = Decided(p, "committed")
  BY <1>3 DEF Decided
<1> HIDE DEF q
<1>5. Decided(Marked(q, K, "kept"), "committed") \subseteq Decided(q, "committed")
  BY <1>3, MarkedCommitted DEF Decisions
<1> QED BY <1>1, <1>2, <1>3, <1>4, <1>5, MarkedPolicy DEF Decisions

\* _apply only writes versions that the branch holds.
LEMMA CopiedBase ==
  ASSUME TypeOK, NEW done \in SUBSET Changes
  PROVE  /\ Copied(done) \in [Paths -> 0..MaxVersion]
         /\ \A x \in Paths : base[x] # 0 => Copied(done)[x] # 0
         /\ \A x \in done : Copied(done)[x] # 0
         /\ \A x \in Paths : Copied(done)[x] # base[x] => x \in done
  BY DEF TypeOK, Copied, Changes

\* What a step that copied at most `done' left of the underlay: only paths of
\* `done' changed, and each of them is there or was passed over as missing.
Wrote(done) ==
  /\ base' \in [Paths -> 0..MaxVersion]
  /\ skipped \subseteq skipped' /\ skipped' \subseteq Paths
  /\ \A x \in Paths : base[x] # 0 => base'[x] # 0
  /\ \A x \in done : base'[x] # 0 \/ x \in skipped'
  /\ \A x \in Paths : base'[x] # base[x] => x \in done

\* _apply of the turn controller, which passes over missing sources.
LEMMA AppliesWrote ==
  ASSUME TypeOK, NEW done \in SUBSET Changes, Applies(done)
  PROVE  Wrote(done)
<1>1. PICK missing \in SUBSET (done \cap Vanishing) :
        base' = Copied(done \ missing) /\ skipped' = skipped \cup missing
  BY DEF Applies
<1>2. done \ missing \in SUBSET Changes /\ missing \subseteq Paths
  BY TurnAssumption
<1>3. /\ Copied(done \ missing) \in [Paths -> 0..MaxVersion]
      /\ \A x \in Paths : base[x] # 0 => Copied(done \ missing)[x] # 0
      /\ \A x \in done \ missing : Copied(done \ missing)[x] # 0
      /\ \A x \in Paths : Copied(done \ missing)[x] # base[x]
           => x \in done \ missing
  BY <1>2, CopiedBase
<1> QED BY <1>1, <1>2, <1>3 DEF Wrote, TypeOK

\* The session end copies from a store nobody writes to any more.
LEMMA CopiedWrote ==
  ASSUME TypeOK, NEW done \in SUBSET Changes, base' = Copied(done),
         UNCHANGED skipped
  PROVE  Wrote(done)
  BY CopiedBase DEF Wrote, TypeOK

----------------------------------------------------------------------------
(* What each action does to the variables that the invariants speak of. *)

\* A path remembered as committed, in p, is in the underlay b or was passed
\* over as missing.
Reached(p, b, s) ==
  \A n \in Decided(p, "committed") : n \in Paths /\ (b[n] # 0 \/ n \in s)

Inv == TypeOK /\ Reached(mem, base, skipped) /\ Reached(disk, base, skipped)

\* The changes of the branch are paths.
LEMMA ChangesArePaths == Changes \subseteq Paths
  BY DEF Changes

\* The common shape of the operations that apply: they write what the branch
\* holds and newly remember at most that as committed.
LEMMA AppliedKeepsReached ==
  ASSUME Inv, NEW done \in SUBSET Changes, Wrote(done),
         NEW p \in Policy, NEW q \in Policy, Reached(p, base, skipped),
         Decided(q, "committed") \subseteq Decided(p, "committed") \cup done
  PROVE  Reached(q, base', skipped')
  BY ChangesArePaths DEF Wrote, Inv, Reached

----------------------------------------------------------------------------
(* Types, and CommittedReachedUnderlay. *)

\* A session starts with no decision at all.
LEMMA InitInv == Init => Inv
  BY TurnAssumption
  DEF Init, Inv, TypeOK, Policy, Decisions, Reached, Decided, Outcomes

\* The agent changes its branch only.
LEMMA AgentKeepsInv ==
  ASSUME Inv, NEW x \in Paths, AgentWrite(x) \/ AgentUndo(x)
  PROVE  Inv'
<1>1. /\ live' \in [Paths -> 0..MaxVersion]
      /\ UNCHANGED <<base, mem, disk, pending, outcome, answered, consented,
                   granted, skipped>>
      /\ asked' = {}
  BY TurnAssumption DEF AgentWrite, AgentUndo, Unasked, Inv, TypeOK, Newest
<1> QED BY <1>1 DEF Inv, TypeOK, Reached, Decided

\* Applying nothing leaves the underlay as it is.
LEMMA NothingCopied ==
  ASSUME TypeOK
  PROVE  Copied({}) = base
  BY DEF Copied, TypeOK

\* Every operation of the controller and the session end keep Inv: they write
\* what the branch holds, newly remember at most that as committed, and save
\* what is in memory or nothing.
LEMMA OperationKeepsInv ==
  ASSUME Inv, NEW done \in SUBSET Changes, Wrote(done),
         mem' \in Policy,
         Decided(mem', "committed") \subseteq Decided(mem, "committed") \cup done,
         disk' \in {disk, mem'},
         live' \in [Paths -> 0..MaxVersion],
         outcome' \in Outcomes,
         pending' \in [Tokens -> SUBSET Names],
         answered' \subseteq Names, asked' \subseteq Names,
         consented' \subseteq Names, granted' \subseteq Paths
  PROVE  Inv'
<1>0. mem \in Policy /\ disk \in Policy
  BY DEF Inv, TypeOK
<1>1. Reached(mem', base', skipped')
  BY <1>0, AppliedKeepsReached DEF Inv
<1>2. Reached(disk, base', skipped')
  BY <1>0, AppliedKeepsReached DEF Inv
<1>3. Reached(disk', base', skipped')
  BY <1>1, <1>2
<1>4. TypeOK'
  BY <1>0 DEF Wrote, Inv, TypeOK
<1> QED BY <1>1, <1>3, <1>4 DEF Inv, Reached, Decided

\* The same without touching the branch, the underlay or the outcome.
LEMMA SavedKeepsInv ==
  ASSUME Inv, mem' \in Policy,
         Decided(mem', "committed") \subseteq Decided(mem, "committed"),
         disk' \in {disk, mem'},
         UNCHANGED <<live, base, outcome, skipped>>,
         pending' \in [Tokens -> SUBSET Names],
         answered' \subseteq Names, asked' \subseteq Names,
         consented' \subseteq Names, granted' \subseteq Paths
  PROVE  Inv'
<1>1. Wrote({}) /\ {} \in SUBSET Changes
  BY NothingCopied, CopiedWrote DEF Inv
<1>2. live' \in [Paths -> 0..MaxVersion] /\ outcome' \in Outcomes
  BY DEF Inv, TypeOK
<1> QED BY <1>1, <1>2, OperationKeepsInv

\* Gaining or losing a workspace decides nothing.
LEMMA SetWorkspaceKeepsInv ==
  ASSUME Inv, NEW allow \in BOOLEAN, SetWorkspace(allow)
  PROVE  Inv'
<1>1. /\ mem' = [mem EXCEPT !.workspace = allow] /\ disk' = mem'
      /\ UNCHANGED <<live, base, outcome, pending, answered, consented, skipped>>
      /\ asked' = {} /\ granted' = granted \cup Granted(mem')
  BY DEF SetWorkspace, Unasked
<1>2. mem' \in Policy /\ mem'.decisions = mem.decisions
  BY <1>1 DEF Inv, TypeOK, Policy
<1>3. Decided(mem', "committed") \subseteq Decided(mem, "committed")
  BY <1>2 DEF Decided
<1>4. granted' \subseteq Paths
  BY <1>1, TurnAssumption DEF Granted, Inv, TypeOK
<1> QED BY <1>1, <1>2, <1>3, <1>4, SavedKeepsInv DEF Inv, TypeOK

\* A turn boundary applies changes of the branch.
LEMMA EligibleAreChanges == Eligible \subseteq Changes
  BY DEF Eligible

\* The out-of-scope paths are named by names.
LEMMA OutOfScopeAreNames == OutOfScope \subseteq Names
  BY TurnAssumption DEF OutOfScope, Changes

\* A turn boundary remembers as committed what it applied.
LEMMA FinalizeTurnKeepsInv ==
  ASSUME Inv, NEW defaultKeep \in BOOLEAN, FinalizeTurn(defaultKeep)
  PROVE  Inv'
<1>1. PICK done \in Accepted(Eligible) :
        /\ Applies(done)
        /\ mem' = IF defaultKeep
                  THEN Marked(AfterApply(mem, Eligible, done), NewOutOfScope, "kept")
                  ELSE AfterApply(mem, Eligible, done)
        /\ answered' = answered \cup Eligible
                         \cup (IF defaultKeep THEN NewOutOfScope ELSE {})
  BY DEF FinalizeTurn
<1>2. done \in SUBSET Changes
  BY EligibleAreChanges DEF Accepted
<1> DEFINE p == AfterApply(mem, Eligible, done)
<1>3. /\ p \in Policy
      /\ Decided(p, "committed") \subseteq Decided(mem, "committed") \cup done
  BY AfterApplyPolicy DEF Inv, TypeOK
<1> HIDE DEF p
<1>4. /\ Marked(p, NewOutOfScope, "kept") \in Policy
      /\ Decided(Marked(p, NewOutOfScope, "kept"), "committed")
           \subseteq Decided(p, "committed")
  BY <1>3, MarkedPolicy, MarkedCommitted DEF Decisions
<1>5. /\ mem' \in Policy
      /\ Decided(mem', "committed") \subseteq Decided(mem, "committed") \cup done
  BY <1>1, <1>3, <1>4 DEF p
<1>6. NewOutOfScope \subseteq Names /\ Eligible \subseteq Names
  BY OutOfScopeAreNames, EligibleAreChanges, ChangesArePaths, TurnAssumption
  DEF NewOutOfScope
<1>7. answered' \subseteq Names /\ pending' \in [Tokens -> SUBSET Names]
  BY <1>1, <1>6 DEF FinalizeTurn, Inv, TypeOK
<1>8. /\ disk' = mem' /\ UNCHANGED <<live, outcome, consented, granted>>
      /\ asked' = {}
  BY DEF FinalizeTurn, Unasked
<1>9. Wrote(done)
  BY <1>1, <1>2, AppliesWrote DEF Inv
<1> QED BY <1>2, <1>5, <1>7, <1>8, <1>9, OperationKeepsInv DEF Inv, TypeOK

\* The other ways a turn boundary ends: held for an abort, an error in the
\* middle, a workspace that changed its identity.
LEMMA OtherFinalizeKeepsInv ==
  ASSUME Inv, FinalizeHeld \/ FinalizeError \/ FinalizeRevoked
  PROVE  Inv'
<1>1. CASE FinalizeHeld
  <2>1. /\ mem' \in Policy
        /\ Decided(mem', "committed") \subseteq Decided(mem, "committed")
    BY <1>1, MarkedPolicy, MarkedCommitted
    DEF FinalizeHeld, Inv, TypeOK, Decisions
  <2>2. answered' \subseteq Names
    BY <1>1, ChangesArePaths, TurnAssumption DEF FinalizeHeld, Inv, TypeOK
  <2> QED BY <1>1, <2>1, <2>2, SavedKeepsInv
          DEF FinalizeHeld, Unasked, Inv, TypeOK
<1>2. CASE FinalizeError
  <2>1. PICK done \in SUBSET Eligible : Applies(done)
    BY <1>2 DEF FinalizeError
  <2>2. done \in SUBSET Changes
    BY EligibleAreChanges
  <2>3. /\ UNCHANGED <<live, mem, disk, pending, outcome, answered, consented,
                       granted>>
        /\ asked' = {}
    BY <1>2 DEF FinalizeError, Unasked
  <2>4. Wrote(done)
    BY <2>1, <2>2, AppliesWrote DEF Inv
  <2> QED BY <2>2, <2>3, <2>4, OperationKeepsInv DEF Inv, TypeOK
<1>3. CASE FinalizeRevoked
  <2>1. mem' \in Policy /\ mem'.decisions = mem.decisions
    BY <1>3 DEF FinalizeRevoked, Inv, TypeOK, Policy
  <2>2. Decided(mem', "committed") \subseteq Decided(mem, "committed")
    BY <2>1 DEF Decided
  <2> QED BY <1>3, <2>1, <2>2, SavedKeepsInv
          DEF FinalizeRevoked, Unasked, Inv, TypeOK
<1> QED BY <1>1, <1>2, <1>3

\* An answer of the user, path by path, however it ends.
LEMMA ResolveKeepsInv ==
  ASSUME Inv, NEW C \in SUBSET Names, NEW K \in SUBSET Names,
         NEW D \in SUBSET Names, ResolveAny(C, K, D),
         pending' \in [Tokens -> SUBSET Names]
  PROVE  Inv'
<1>0. /\ asked' \subseteq Names /\ consented' \subseteq Names
      /\ granted' \subseteq Paths
  BY DEF ResolveAny, Resolve, ResolveCommitError, ResolveRevoked,
         ResolveDiscardError, Answer, Inv, TypeOK
<1>00. \A done \in Accepted(C \cap Changes) :
         done \in SUBSET Changes /\ done \in SUBSET Paths
  BY ChangesArePaths DEF Accepted
<1>1. CASE Resolve(C, K, D)
  <2>1. PICK done \in Accepted(C \cap Changes) :
          /\ Applies(done)
          /\ mem' = Marked(CommitAndKeep(C, K, done), D, "none")
    BY <1>1 DEF Resolve
  <2>2. done \in SUBSET Changes /\ done \in SUBSET Paths
    BY <1>00
  <2> DEFINE p == CommitAndKeep(C, K, done)
  <2>3. /\ p \in Policy
        /\ Decided(p, "committed") \subseteq Decided(mem, "committed") \cup done
    BY <2>2, CommitAndKeepPolicy DEF Inv
  <2> HIDE DEF p
  <2>4. /\ Marked(p, D, "none") \in Policy
        /\ Decided(Marked(p, D, "none"), "committed")
             \subseteq Decided(p, "committed")
    BY <2>3, MarkedPolicy, MarkedCommitted DEF Decisions
  <2>5. /\ mem' \in Policy
        /\ Decided(mem', "committed") \subseteq
             Decided(mem, "committed") \cup done
    BY <2>1, <2>3, <2>4 DEF p
  <2>6. live' \in [Paths -> 0..MaxVersion]
    BY <1>1, TurnAssumption DEF Resolve, Inv, TypeOK
  <2>7. disk' = mem' /\ UNCHANGED outcome /\ answered' \subseteq Names
    BY <1>1 DEF Resolve, Inv, TypeOK
  <2>8. Wrote(done)
    BY <2>1, <2>2, AppliesWrote DEF Inv
  <2> QED BY <1>0, <2>2, <2>5, <2>6, <2>7, <2>8, OperationKeepsInv
          DEF Inv, TypeOK
<1>2. CASE ResolveCommitError(C, K, D)
  <2>1. PICK done \in SUBSET (C \cap Changes) : Applies(done)
    BY <1>2 DEF ResolveCommitError
  <2>2. UNCHANGED <<live, mem, disk, outcome, answered>>
    BY <1>2 DEF ResolveCommitError
  <2>3. done \in SUBSET Changes
    OBVIOUS
  <2>4. Wrote(done)
    BY <2>1, <2>3, AppliesWrote DEF Inv
  <2> QED BY <1>0, <2>2, <2>3, <2>4, OperationKeepsInv DEF Inv, TypeOK
<1>3. CASE ResolveRevoked(C, K, D)
  <2>1. mem' \in Policy /\ mem'.decisions = mem.decisions
    BY <1>3 DEF ResolveRevoked, Inv, TypeOK, Policy
  <2>2. Decided(mem', "committed") \subseteq Decided(mem, "committed")
    BY <2>1 DEF Decided
  <2>3. disk' = mem' /\ UNCHANGED <<live, base, outcome, answered, skipped>>
    BY <1>3 DEF ResolveRevoked
  <2> QED BY <1>0, <2>1, <2>2, <2>3, SavedKeepsInv DEF Inv, TypeOK
<1>4. CASE ResolveDiscardError(C, K, D)
  <2>1. PICK done \in Accepted(C \cap Changes),
             gone \in SUBSET (D \cap Changes) :
          /\ Applies(done)
          /\ mem' = CommitAndKeep(C, K, done)
          /\ live' = [x \in Paths |-> IF x \in gone THEN 0 ELSE live[x]]
    BY <1>4 DEF ResolveDiscardError
  <2>2. done \in SUBSET Changes /\ done \in SUBSET Paths
    BY <1>00
  <2>3. /\ mem' \in Policy
        /\ Decided(mem', "committed") \subseteq
             Decided(mem, "committed") \cup done
    BY <2>1, <2>2, CommitAndKeepPolicy DEF Inv
  <2>4. live' \in [Paths -> 0..MaxVersion]
    BY <2>1, TurnAssumption DEF Inv, TypeOK
  <2>5. UNCHANGED <<disk, outcome>> /\ answered' \subseteq Names
    BY <1>4 DEF ResolveDiscardError, Inv, TypeOK
  <2>6. Wrote(done)
    BY <2>1, <2>2, AppliesWrote DEF Inv
  <2> QED BY <1>0, <2>2, <2>3, <2>4, <2>5, <2>6, OperationKeepsInv
          DEF Inv, TypeOK
<1> QED BY <1>1, <1>2, <1>3, <1>4 DEF ResolveAny

\* The user's answers come with a token or name kept paths.
LEMMA AnswerKeepsInv ==
  ASSUME Inv,
         \/ \E t \in Tokens, C, D \in SUBSET Names : ApproveTurn(t, C, D)
         \/ \E t \in Tokens : ApproveOverlap(t)
         \/ \E paths \in SUBSET Paths : ResolveTurn(paths)
  PROVE  Inv'
<1>1. ASSUME NEW t \in Tokens, NEW C \in SUBSET Names, NEW D \in SUBSET Names,
             ApproveTurn(t, C, D)
      PROVE  Inv'
  <2>1. pending' \in [Tokens -> SUBSET Names]
    BY <1>1 DEF ApproveTurn, Inv, TypeOK
  <2>2. pending[t] \ (C \cup D) \in SUBSET Names
    BY DEF Inv, TypeOK
  <2>3. ResolveAny(C, pending[t] \ (C \cup D), D)
    BY <1>1 DEF ApproveTurn
  <2> QED BY <2>1, <2>2, <2>3, ResolveKeepsInv
<1>2. ASSUME NEW t \in Tokens, ApproveOverlap(t)
      PROVE  Inv'
  <2>1. pending' \in [Tokens -> SUBSET Names]
    BY <1>2 DEF ApproveOverlap, Inv, TypeOK
  <2> QED BY <1>2, <2>1, SavedKeepsInv
          DEF ApproveOverlap, Unasked, Inv, TypeOK
<1>3. ASSUME NEW paths \in SUBSET Paths, ResolveTurn(paths)
      PROVE  Inv'
  <2>1. pending' \in [Tokens -> SUBSET Names] /\ paths \in SUBSET Names
    BY <1>3, TurnAssumption DEF ResolveTurn, Inv, TypeOK
  <2>2. \/ ResolveAny(paths, {}, {}) \/ ResolveAny({}, paths, {})
        \/ ResolveAny({}, {}, paths)
    BY <1>3 DEF ResolveTurn
  <2> QED BY <2>1, <2>2, ResolveKeepsInv
<1> QED BY <1>1, <1>2, <1>3

\* Listing the kept paths, an approved abort, and a crash followed by a resume.
LEMMA RestKeepsInv ==
  ASSUME Inv, ReviewKept \/ RequestAbort \/ Restart
  PROVE  Inv'
<1>1. CASE ReviewKept
  BY <1>1, SavedKeepsInv DEF ReviewKept, Unasked, Inv, TypeOK
<1>2. CASE RequestAbort
  <2>1. mem' \in Policy /\ mem'.decisions = mem.decisions
    BY <1>2 DEF RequestAbort, Inv, TypeOK, Policy
  <2>2. Decided(mem', "committed") \subseteq Decided(mem, "committed")
    BY <2>1 DEF Decided
  <2> QED BY <1>2, <2>1, <2>2, SavedKeepsInv
          DEF RequestAbort, Unasked, Inv, TypeOK
<1>3. CASE Restart
  <2>1. /\ mem' = [disk EXCEPT !.workspace = FALSE] /\ disk' = mem'
        /\ UNCHANGED <<live, base, outcome, answered, consented, granted, skipped>>
        /\ asked' = {} /\ pending' = [t \in Tokens |-> {}]
    BY <1>3 DEF Restart, Unasked
  <2>2. mem' \in Policy /\ mem'.decisions = disk.decisions
    BY <2>1 DEF Inv, TypeOK, Policy
  <2>3. Reached(mem', base', skipped')
    BY <2>1, <2>2 DEF Inv, Reached, Decided
  <2>4. TypeOK'
    BY <2>1, <2>2 DEF Inv, TypeOK
  <2> QED BY <2>1, <2>3, <2>4 DEF Inv, Reached, Decided
<1> QED BY <1>1, <1>2, <1>3

\* The session end takes no turn decision.
LEMMA SessionEndKeepsInv ==
  ASSUME Inv, NEW blocked \in BOOLEAN,
         SessionEnd(blocked) \/ SessionEndCommit(blocked)
           \/ SessionEndError(blocked)
  PROVE  Inv'
<1>0. /\ UNCHANGED <<mem, disk, pending, answered, consented, granted, skipped>>
      /\ asked' = {}
  BY DEF SessionEnd, SessionEndCommit, SessionEndError, Unasked
<1>1. outcome' \in Outcomes
  BY DEF SessionEnd, SessionEndCommit, SessionEndError, EndDecision, Outcomes
<1>2. live' \in [Paths -> 0..MaxVersion]
  <2>1. CASE SessionEnd(blocked)
    BY <2>1, TurnAssumption DEF SessionEnd, Inv, TypeOK
  <2>2. CASE SessionEndCommit(blocked)
    BY <2>2, TurnAssumption DEF SessionEndCommit, Inv, TypeOK
  <2>3. CASE SessionEndError(blocked)
    BY <2>3 DEF SessionEndError, Inv, TypeOK
  <2> QED BY <2>1, <2>2, <2>3
<1>3. PICK done \in SUBSET Changes : base' = Copied(done)
  BY NothingCopied
  DEF SessionEnd, SessionEndCommit, SessionEndError, Accepted, Inv
<1>4. Wrote(done)
  BY <1>0, <1>3, CopiedWrote DEF Inv
<1> QED BY <1>0, <1>1, <1>2, <1>4, OperationKeepsInv DEF Inv, TypeOK

\* Every step keeps Inv.
LEMMA NextKeepsInv == Inv /\ [Next]_vars => Inv'
<1> SUFFICES ASSUME Inv, [Next]_vars
             PROVE  Inv'
  OBVIOUS
<1>1. CASE UNCHANGED vars
  BY <1>1 DEF vars, Inv, TypeOK, Reached, Decided
<1>2. CASE Next
  BY <1>2, AgentKeepsInv, SetWorkspaceKeepsInv, FinalizeTurnKeepsInv,
     OtherFinalizeKeepsInv, AnswerKeepsInv, RestKeepsInv, SessionEndKeepsInv
  DEF Next
<1> QED BY <1>1, <1>2

\* Inv holds throughout.
LEMMA InvHolds == Spec => []Inv
  BY InitInv, NextKeepsInv, PTL DEF Spec

\* Type correctness of the turn controller.
THEOREM TypeCorrectness == Spec => []TypeOK
<1>1. Inv => TypeOK
  BY DEF Inv
<1> QED BY <1>1, InvHolds, PTL

\* A path remembered as committed, in memory or in session.json, has reached
\* the underlay or is one whose source _apply found missing, whatever _apply
\* refused or raised and wherever the supervisor crashed (turn.py _mark_paths
\* after _apply).
THEOREM CommittedHasReachedUnderlay == Spec => []CommittedReachedUnderlay
<1>1. Inv => CommittedReachedUnderlay
  BY DEF Inv, Reached, CommittedReachedUnderlay
<1> QED BY <1>1, InvHolds, PTL

----------------------------------------------------------------------------
(* UnderlayNeedsAuthority, with aliased roots and workspaces that end. *)

\* What a policy allows or remembers rests on a grant or on the user.
Backed(p) ==
  /\ p.approved \subseteq consented
  /\ \A n \in Decided(p, "committed") :
       n \in Paths /\ Canon[n] = n => n \in granted \cup consented

Authorised == Backed(mem) /\ Backed(disk) /\ Granted(mem) \subseteq granted

\* What one step writes under its canonical name has authority.
StepIsAuthorised ==
  \A x \in Paths : base'[x] # base[x] /\ Canon[x] = x
    => x \in granted \cup consented'

\* An operation that applies only what has authority, and gains no workspace.
LEMMA OperationIsAuthorised ==
  ASSUME Inv, Authorised, NEW done \in SUBSET Changes, Wrote(done),
         \A x \in done : Canon[x] = x => x \in granted \cup consented',
         consented \subseteq consented', granted' = granted,
         mem'.workspace => mem.workspace,
         mem'.approved \subseteq mem.approved \cup consented',
         Decided(mem', "committed") \subseteq Decided(mem, "committed") \cup done,
         disk' \in {disk, mem'}
  PROVE  Authorised' /\ StepIsAuthorised
<1>1. Granted(mem)' \subseteq Granted(mem)
  BY DEF Granted
<1>2. /\ Decided(mem, "committed")' = Decided(mem', "committed")
      /\ Decided(disk, "committed")' = Decided(disk', "committed")
  BY DEF Decided
<1>3. Backed(mem)'
  BY <1>2 DEF Authorised, Backed
<1>4. Backed(disk)'
  <2>1. CASE disk' = disk
    BY <1>2, <2>1 DEF Authorised, Backed
  <2>2. CASE disk' = mem'
    BY <1>2, <1>3, <2>2 DEF Backed
  <2> QED BY <2>1, <2>2
<1>5. StepIsAuthorised
  BY DEF Wrote, StepIsAuthorised
<1> QED BY <1>1, <1>3, <1>4, <1>5 DEF Authorised

\* A step that writes nothing and decides nothing.
LEMMA IdleIsAuthorised ==
  ASSUME Inv, Authorised, UNCHANGED <<base, consented, granted, skipped>>,
         mem'.workspace => mem.workspace, mem'.approved = mem.approved,
         Decided(mem', "committed") \subseteq Decided(mem, "committed"),
         disk' \in {disk, mem'}
  PROVE  Authorised' /\ StepIsAuthorised
<1>1. Wrote({}) /\ {} \in SUBSET Changes
  BY NothingCopied, CopiedWrote DEF Inv
<1> QED BY <1>1, OperationIsAuthorised

\* A change under its canonical name that is not out of scope is granted or
\* was approved.
LEMMA InScopeIsAuthorised ==
  ASSUME Authorised, NEW x \in Changes, x \notin OutOfScope, Canon[x] = x
  PROVE  x \in granted \cup consented
<1>1. x \in Scope(mem) /\ x \notin DenyMatched
  BY ChangesArePaths DEF OutOfScope
<1> QED BY <1>1 DEF Scope, Granted, Authorised, Backed

\* What a turn boundary applies has authority.
LEMMA EligibleIsAuthorised ==
  ASSUME Authorised
  PROVE  \A x \in Eligible : Canon[x] = x => x \in granted \cup consented
  BY InScopeIsAuthorised, ChangesArePaths DEF Eligible, Authorised, Backed

\* Turn boundaries.
LEMMA FinalizeIsAuthorised ==
  ASSUME Inv, Authorised,
         \/ \E defaultKeep \in BOOLEAN : FinalizeTurn(defaultKeep)
         \/ FinalizeHeld \/ FinalizeError \/ FinalizeRevoked
  PROVE  Authorised' /\ StepIsAuthorised
<1>0. mem \in Policy
  BY DEF Inv, TypeOK
<1>1. ASSUME NEW defaultKeep \in BOOLEAN, FinalizeTurn(defaultKeep)
      PROVE  Authorised' /\ StepIsAuthorised
  <2>1. PICK done \in Accepted(Eligible) :
          /\ Applies(done)
          /\ mem' = IF defaultKeep
                    THEN Marked(AfterApply(mem, Eligible, done), NewOutOfScope, "kept")
                    ELSE AfterApply(mem, Eligible, done)
    BY <1>1 DEF FinalizeTurn
  <2>2. /\ done \in SUBSET Changes
        /\ \A x \in done : Canon[x] = x => x \in granted \cup consented
    BY EligibleAreChanges, EligibleIsAuthorised DEF Accepted
  <2> DEFINE p == AfterApply(mem, Eligible, done)
  <2>3. /\ p \in Policy /\ p.approved = mem.approved
        /\ p.workspace = mem.workspace
        /\ Decided(p, "committed") \subseteq Decided(mem, "committed") \cup done
    BY <1>0, AfterApplyPolicy
  <2> HIDE DEF p
  <2> DEFINE q == Marked(p, NewOutOfScope, "kept")
  <2>4. /\ q.approved = p.approved /\ q.workspace = p.workspace
        /\ Decided(q, "committed") \subseteq Decided(p, "committed")
    BY <2>3, MarkedPolicy, MarkedCommitted DEF Decisions
  <2> HIDE DEF q
  <2>5. mem' = p \/ mem' = q
    BY <2>1 DEF p, q
  <2>6. disk' = mem' /\ UNCHANGED <<consented, granted>>
    BY <1>1 DEF FinalizeTurn, Unasked
  <2>7. Wrote(done)
    BY <2>1, <2>2, AppliesWrote DEF Inv
  <2>8. /\ mem'.approved = mem.approved /\ mem'.workspace = mem.workspace
        /\ Decided(mem', "committed") \subseteq Decided(mem, "committed") \cup done
    BY <2>3, <2>4, <2>5
  <2> QED BY <2>2, <2>6, <2>7, <2>8, OperationIsAuthorised
<1>2. CASE FinalizeHeld
  <2>1. /\ mem' = Marked(mem, Changes, "kept") /\ disk' = mem'
        /\ UNCHANGED <<base, consented, granted, skipped>>
    BY <1>2 DEF FinalizeHeld, Unasked
  <2>2. /\ mem'.approved = mem.approved /\ mem'.workspace = mem.workspace
        /\ Decided(mem', "committed") \subseteq Decided(mem, "committed")
    BY <1>0, <2>1, MarkedPolicy, MarkedCommitted DEF Decisions
  <2> QED BY <2>1, <2>2, IdleIsAuthorised
<1>3. CASE FinalizeError
  <2>1. PICK done \in SUBSET Eligible : Applies(done)
    BY <1>3 DEF FinalizeError
  <2>2. /\ done \in SUBSET Changes
        /\ \A x \in done : Canon[x] = x => x \in granted \cup consented
    BY EligibleAreChanges, EligibleIsAuthorised
  <2>3. UNCHANGED <<mem, disk, consented, granted>>
    BY <1>3 DEF FinalizeError, Unasked
  <2>4. Wrote(done)
    BY <2>1, <2>2, AppliesWrote DEF Inv
  <2> QED BY <2>2, <2>3, <2>4, OperationIsAuthorised
<1>4. CASE FinalizeRevoked
  <2>1. /\ mem' = [mem EXCEPT !.workspace = FALSE] /\ disk' = mem'
        /\ UNCHANGED <<base, consented, granted, skipped>> /\ mem.workspace
    BY <1>4 DEF FinalizeRevoked, Unasked
  <2>2. mem'.approved = mem.approved /\ mem'.decisions = mem.decisions
    BY <1>0, <2>1 DEF Policy
  <2>3. Decided(mem', "committed") \subseteq Decided(mem, "committed")
    BY <2>2 DEF Decided
  <2> QED BY <2>1, <2>2, <2>3, IdleIsAuthorised
<1> QED BY <1>1, <1>2, <1>3, <1>4

\* The user's answer: what it applies was agreed to in this very step.
LEMMA ResolveIsAuthorised ==
  ASSUME Inv, Authorised, NEW C \in SUBSET Names,
         NEW K \in SUBSET Names, NEW D \in SUBSET Names, ResolveAny(C, K, D)
  PROVE  Authorised' /\ StepIsAuthorised
<1>0. consented' = consented \cup C /\ UNCHANGED granted /\ mem \in Policy
  BY DEF ResolveAny, Resolve, ResolveCommitError, ResolveRevoked,
         ResolveDiscardError, Answer, Inv, TypeOK
<1>1. ASSUME NEW done \in Accepted(C \cap Changes), Applies(done),
             \/ mem' = Marked(CommitAndKeep(C, K, done), D, "none")
             \/ mem' = CommitAndKeep(C, K, done),
             disk' \in {disk, mem'}
      PROVE  Authorised' /\ StepIsAuthorised
  <2>1. /\ done \in SUBSET Changes /\ done \in SUBSET Paths
        /\ done \subseteq consented'
    BY <1>0, ChangesArePaths DEF Accepted
  <2> DEFINE p == CommitAndKeep(C, K, done)
  <2>2. /\ p \in Policy /\ p.approved = mem.approved \cup done
        /\ p.workspace = mem.workspace
        /\ Decided(p, "committed") \subseteq Decided(mem, "committed") \cup done
    BY <2>1, CommitAndKeepPolicy DEF Inv
  <2> HIDE DEF p
  <2> DEFINE q == Marked(p, D, "none")
  <2>3. /\ q.approved = p.approved /\ q.workspace = p.workspace
        /\ Decided(q, "committed") \subseteq Decided(p, "committed")
    BY <2>2, MarkedPolicy, MarkedCommitted DEF Decisions
  <2> HIDE DEF q
  <2>4. mem' = p \/ mem' = q
    BY <1>1 DEF p, q
  <2>5. Wrote(done)
    BY <1>1, <2>1, AppliesWrote DEF Inv
  <2>6. /\ mem'.approved = mem.approved \cup done
        /\ mem'.workspace = mem.workspace
        /\ Decided(mem', "committed") \subseteq Decided(mem, "committed") \cup done
    BY <2>2, <2>3, <2>4
  <2> QED BY <1>0, <1>1, <2>1, <2>5, <2>6, OperationIsAuthorised
<1>2. CASE Resolve(C, K, D)
  BY <1>1, <1>2 DEF Resolve
<1>3. CASE ResolveDiscardError(C, K, D)
  BY <1>1, <1>3 DEF ResolveDiscardError
<1>4. CASE ResolveCommitError(C, K, D)
  <2>1. PICK done \in SUBSET (C \cap Changes) : Applies(done)
    BY <1>4 DEF ResolveCommitError
  <2>2. UNCHANGED <<mem, disk>> /\ done \in SUBSET Changes
    BY <1>4 DEF ResolveCommitError
  <2>3. Wrote(done)
    BY <2>1, <2>2, AppliesWrote DEF Inv
  <2> QED BY <1>0, <2>1, <2>2, <2>3, OperationIsAuthorised
<1>5. CASE ResolveRevoked(C, K, D)
  <2>1. /\ mem' = [mem EXCEPT !.workspace = FALSE] /\ disk' = mem'
        /\ UNCHANGED <<base, skipped>> /\ mem.workspace
    BY <1>5 DEF ResolveRevoked
  <2>2. mem'.approved = mem.approved /\ mem'.decisions = mem.decisions
    BY <1>0, <2>1 DEF Policy
  <2>3. Decided(mem', "committed") \subseteq Decided(mem, "committed")
    BY <2>2 DEF Decided
  <2>4. Wrote({}) /\ {} \in SUBSET Changes
    BY <2>1, NothingCopied, CopiedWrote DEF Inv
  <2> QED BY <1>0, <2>1, <2>2, <2>3, <2>4, OperationIsAuthorised
<1> QED BY <1>2, <1>3, <1>4, <1>5 DEF ResolveAny

\* The session end commits only when nothing is out of scope.
LEMMA SessionEndIsAuthorised ==
  ASSUME Inv, Authorised, NEW blocked \in BOOLEAN,
         SessionEnd(blocked) \/ SessionEndCommit(blocked)
           \/ SessionEndError(blocked)
  PROVE  Authorised' /\ StepIsAuthorised
<1>0. UNCHANGED <<mem, disk, consented, granted, skipped>>
  BY DEF SessionEnd, SessionEndCommit, SessionEndError, Unasked
<1>1. CASE SessionEnd(blocked)
  BY <1>0, <1>1, IdleIsAuthorised DEF SessionEnd
<1>2. CASE SessionEndCommit(blocked) \/ SessionEndError(blocked)
  <2>1. OutOfScope = {}
    BY <1>2 DEF SessionEndCommit, SessionEndError, EndDecision
  <2>2. \A x \in Changes : Canon[x] = x => x \in granted \cup consented
    BY <2>1, InScopeIsAuthorised
  <2>3. PICK done \in SUBSET Changes : base' = Copied(done)
    BY <1>2 DEF SessionEndCommit, SessionEndError, Accepted
  <2>4. Wrote(done)
    BY <1>0, <2>3, CopiedWrote DEF Inv
  <2> QED BY <1>0, <2>2, <2>4, OperationIsAuthorised
<1> QED BY <1>1, <1>2

\* The agent, its workspace, an abort, and the steps that save or reload.
LEMMA OthersAreAuthorised ==
  ASSUME Inv, Authorised,
         \/ \E x \in Paths : AgentWrite(x) \/ AgentUndo(x)
         \/ \E allow \in BOOLEAN : SetWorkspace(allow)
         \/ ReviewKept \/ RequestAbort \/ Restart
         \/ \E t \in Tokens : ApproveOverlap(t)
  PROVE  Authorised' /\ StepIsAuthorised
<1>0. mem \in Policy /\ disk \in Policy
  BY DEF Inv, TypeOK
<1>1. CASE \E x \in Paths : AgentWrite(x) \/ AgentUndo(x)
  BY <1>1, IdleIsAuthorised DEF AgentWrite, AgentUndo, Unasked
<1>2. CASE \E allow \in BOOLEAN : SetWorkspace(allow)
  <2>1. PICK allow \in BOOLEAN :
          /\ mem' = [mem EXCEPT !.workspace = allow] /\ disk' = mem'
          /\ granted' = granted \cup Granted(mem')
          /\ UNCHANGED <<base, consented>>
    BY <1>2 DEF SetWorkspace, Unasked
  <2>2. mem'.approved = mem.approved /\ mem'.decisions = mem.decisions
    BY <1>0, <2>1 DEF Policy
  <2>3. Backed(mem)'
    BY <2>1, <2>2 DEF Authorised, Backed, Decided
  <2>4. Backed(disk)'
    BY <2>1, <2>3 DEF Backed, Decided
  <2>5. Granted(mem)' = Granted(mem')
    BY DEF Granted
  <2> QED BY <2>1, <2>3, <2>4, <2>5 DEF Authorised, StepIsAuthorised
<1>3. CASE ReviewKept \/ \E t \in Tokens : ApproveOverlap(t)
  BY <1>3, IdleIsAuthorised DEF ReviewKept, ApproveOverlap, Unasked
<1>4. CASE RequestAbort
  <2>1. /\ mem'.workspace = mem.workspace /\ mem'.approved = mem.approved
        /\ mem'.decisions = mem.decisions
    BY <1>0, <1>4 DEF RequestAbort, Policy
  <2>2. Decided(mem', "committed") \subseteq Decided(mem, "committed")
    BY <2>1 DEF Decided
  <2> QED BY <1>4, <2>1, <2>2, IdleIsAuthorised DEF RequestAbort, Unasked
<1>5. CASE Restart
  <2>1. /\ mem' = [disk EXCEPT !.workspace = FALSE] /\ disk' = mem'
        /\ UNCHANGED <<base, consented, granted>>
    BY <1>5 DEF Restart, Unasked
  <2>2. /\ mem'.approved = disk.approved /\ mem'.decisions = disk.decisions
        /\ mem'.workspace = FALSE
    BY <1>0, <2>1 DEF Policy
  <2>3. Backed(mem)'
    BY <2>1, <2>2 DEF Authorised, Backed, Decided
  <2>4. Backed(disk)'
    BY <2>1, <2>3 DEF Backed, Decided
  <2>5. Granted(mem)' \subseteq Granted(mem)
    BY <2>2 DEF Granted
  <2> QED BY <2>1, <2>3, <2>4, <2>5 DEF Authorised, StepIsAuthorised
<1> QED BY <1>1, <1>2, <1>3, <1>4, <1>5

\* Every step keeps Authorised and writes with authority.
LEMMA NextIsAuthorised ==
  Inv /\ Authorised /\ [Next]_vars => Authorised' /\ StepIsAuthorised
<1> SUFFICES ASSUME Inv, Authorised, [Next]_vars
             PROVE  Authorised' /\ StepIsAuthorised
  OBVIOUS
<1>1. CASE UNCHANGED vars
  BY <1>1, IdleIsAuthorised DEF vars
<1>2. ASSUME NEW t \in Tokens, NEW C \in SUBSET Names,
             NEW D \in SUBSET Names, ApproveTurn(t, C, D)
      PROVE  Authorised' /\ StepIsAuthorised
  <2>1. pending[t] \ (C \cup D) \in SUBSET Names
    BY DEF Inv, TypeOK
  <2>2. ResolveAny(C, pending[t] \ (C \cup D), D)
    BY <1>2 DEF ApproveTurn
  <2> QED BY <2>1, <2>2, ResolveIsAuthorised
<1>3. ASSUME NEW paths \in SUBSET Paths, ResolveTurn(paths)
      PROVE  Authorised' /\ StepIsAuthorised
  <2>1. paths \in SUBSET Names /\ {} \in SUBSET Names
    BY TurnAssumption
  <2>2. \/ ResolveAny(paths, {}, {}) \/ ResolveAny({}, paths, {})
        \/ ResolveAny({}, {}, paths)
    BY <1>3 DEF ResolveTurn
  <2> QED BY <2>1, <2>2, ResolveIsAuthorised
<1> QED BY <1>1, <1>2, <1>3, FinalizeIsAuthorised, SessionEndIsAuthorised,
           OthersAreAuthorised DEF Next

\* Over any sequence of turns, answers, refusals, missing files, errors,
\* withdrawn workspaces and restarts, a path under its canonical name reaches
\* the underlay only if a scope or workspace granted it at some time or the
\* user agreed to commit it: _apply in finalize_turn, turn-approve and
\* turn-resolve, and finalize_session.
THEOREM UnderlayIsProtected == Spec => UnderlayNeedsAuthority
<1>1. Init => Authorised
  BY DEF Init, Authorised, Backed, Decided, Granted
<1>2. StepIsAuthorised
        => [\A x \in Paths : base'[x] # base[x] /\ Canon[x] = x
              => x \in granted \cup consented']_base
  BY DEF StepIsAuthorised
<1> QED BY <1>1, <1>2, NextIsAuthorised, InvHolds, PTL
        DEF Spec, UnderlayNeedsAuthority

----------------------------------------------------------------------------
(* What the user's answers bind the controller to: KeptStaysInBranch,       *)
(* AbortStopsCommits and AnsweredIsNotAskedAgain.                           *)

\* The names a decision is remembered for.
Settled(p) == Decided(p, "committed") \cup Decided(p, "kept")

\* Every answer is remembered, in memory and in session.json, and a saved
\* abort is known to the running controller.
Remembered ==
  /\ answered \subseteq Settled(mem)
  /\ answered \subseteq Settled(disk)
  /\ disk.abort => mem.abort

\* What one step may write and ask, given the answers so far.
KeptStays ==
  \A x \in Decided(mem, "kept") \cap Paths :
    base'[x] # base[x] /\ outcome' = "none" => x \in asked'

AbortStops == disk.abort => \A x \in Paths : base'[x] # base[x] => x \in asked'

NotAskedAgain ==
  \A t \in Tokens : (pending'[t] \ pending[t]) \cap answered = {}

HonoursAnswers == KeptStays /\ AbortStops /\ NotAskedAgain

\* _mark_paths settles the names it marks, unless it clears them.
LEMMA MarkedSettled ==
  ASSUME NEW p \in Policy, NEW S, NEW d \in Decisions
  PROVE  Settled(Marked(p, S, d)) =
           IF d = "none" THEN Settled(p) \ S ELSE Settled(p) \cup (S \cap Names)
<1>1. \A n \in Names : Marked(p, S, d).decisions[n]
                         = IF n \in S THEN d ELSE p.decisions[n]
  BY MarkedPolicy
<1>2. \A n \in Names : p.decisions[n] \in Decisions
  BY DEF Policy
<1> QED BY <1>1, <1>2 DEF Settled, Decided, Decisions

\* After _apply every path of the plan is decided: committed or kept.
LEMMA AfterApplySettled ==
  ASSUME NEW p \in Policy, NEW plan, NEW done \in SUBSET plan
  PROVE  /\ Settled(AfterApply(p, plan, done)) = Settled(p) \cup (plan \cap Names)
         /\ AfterApply(p, plan, done).abort = p.abort
<1> DEFINE q == Marked(p, done, "committed")
<1>1. /\ q \in Policy /\ q.abort = p.abort
      /\ Settled(q) = Settled(p) \cup (done \cap Names)
  BY MarkedPolicy, MarkedSettled DEF Decisions
<1>2. AfterApply(p, plan, done) = Marked(q, plan \ done, "kept")
  BY DEF AfterApply
<1> HIDE DEF q
<1>3. /\ Marked(q, plan \ done, "kept").abort = q.abort
      /\ Settled(Marked(q, plan \ done, "kept"))
           = Settled(q) \cup ((plan \ done) \cap Names)
  BY <1>1, MarkedPolicy, MarkedSettled DEF Decisions
<1> QED BY <1>1, <1>2, <1>3

\* _commit_paths and _keep_paths settle what the user committed and kept.
LEMMA CommitAndKeepSettled ==
  ASSUME TypeOK, NEW C \in SUBSET Names, NEW K \in SUBSET Names,
         NEW done \in Accepted(C \cap Changes)
  PROVE  /\ Settled(CommitAndKeep(C, K, done))
              = Settled(mem) \cup K \cup (C \cap Changes)
         /\ CommitAndKeep(C, K, done).abort = mem.abort
<1> DEFINE p == AfterApply(mem, C \cap Changes, done)
           q == [p EXCEPT !.approved = @ \cup done]
<1>0. /\ mem \in Policy /\ done \in SUBSET (C \cap Changes)
      /\ done \in SUBSET Paths
  BY ChangesArePaths DEF TypeOK, Accepted
<1>1. /\ p \in Policy /\ p.abort = mem.abort
      /\ Settled(p) = Settled(mem) \cup (C \cap Changes)
  BY <1>0, AfterApplyPolicy, AfterApplySettled
<1>2. CommitAndKeep(C, K, done) = Marked(q, K, "kept")
  BY DEF CommitAndKeep
<1> HIDE DEF p
<1>3. q \in Policy /\ q.abort = p.abort /\ q.decisions = p.decisions
  BY <1>0, <1>1 DEF Policy
<1>4. Settled(q) = Settled(p)
  BY <1>3 DEF Settled, Decided
<1> HIDE DEF q
<1>5. /\ Marked(q, K, "kept").abort = q.abort
      /\ Settled(Marked(q, K, "kept")) = Settled(q) \cup K
  BY <1>3, MarkedPolicy, MarkedSettled DEF Decisions
<1> QED BY <1>1, <1>2, <1>3, <1>4, <1>5

\* No path is both kept and eligible: the two decisions exclude each other.
LEMMA EligibleIsNotKept == Eligible \cap Decided(mem, "kept") = {}
  BY DEF Eligible, Decided

\* The primed form of Remembered, for a step that says what mem' and disk' are.
LEMMA RememberedNext ==
  ASSUME answered' \subseteq Settled(mem'), answered' \subseteq Settled(disk'),
         disk'.abort => mem'.abort
  PROVE  Remembered'
  BY DEF Remembered, Settled, Decided

\* A step that writes nothing and asks nothing new honours every answer.
LEMMA IdleHonours ==
  ASSUME UNCHANGED base, \A t \in Tokens : pending'[t] \subseteq pending[t]
  PROVE  HonoursAnswers
  BY DEF HonoursAnswers, KeptStays, AbortStops, NotAskedAgain

\* A step that changes no answer, no decision and no abort remembers them.
LEMMA SameRemembered ==
  ASSUME Remembered, mem'.decisions = mem.decisions, mem'.abort = mem.abort,
         disk' \in {disk, mem'}, UNCHANGED answered
  PROVE  Remembered'
  BY DEF Remembered, Settled, Decided

\* The agent, its workspace, and the steps that only save or reload.
LEMMA OthersHonour ==
  ASSUME Inv, Remembered,
         \/ \E x \in Paths : AgentWrite(x) \/ AgentUndo(x)
         \/ \E allow \in BOOLEAN : SetWorkspace(allow)
         \/ FinalizeRevoked \/ ReviewKept \/ RequestAbort \/ Restart
         \/ \E t \in Tokens : ApproveOverlap(t)
  PROVE  Remembered' /\ HonoursAnswers
<1>0. mem \in Policy /\ disk \in Policy /\ pending \in [Tokens -> SUBSET Names]
  BY DEF Inv, TypeOK
<1>1. CASE \E x \in Paths : AgentWrite(x) \/ AgentUndo(x)
  <2>1. UNCHANGED <<base, mem, disk, pending, answered>>
    BY <1>1 DEF AgentWrite, AgentUndo
  <2> QED BY <2>1, SameRemembered, IdleHonours
<1>2. CASE \E allow \in BOOLEAN : SetWorkspace(allow)
  <2>1. PICK allow \in BOOLEAN :
          /\ mem' = [mem EXCEPT !.workspace = allow] /\ disk' = mem'
          /\ UNCHANGED <<base, pending, answered>>
    BY <1>2 DEF SetWorkspace
  <2>2. mem'.decisions = mem.decisions /\ mem'.abort = mem.abort
    BY <1>0, <2>1 DEF Policy
  <2> QED BY <2>1, <2>2, SameRemembered, IdleHonours
<1>3. CASE FinalizeRevoked
  <2>1. /\ mem' = [mem EXCEPT !.workspace = FALSE] /\ disk' = mem'
        /\ UNCHANGED <<base, pending, answered>>
    BY <1>3 DEF FinalizeRevoked
  <2>2. mem'.decisions = mem.decisions /\ mem'.abort = mem.abort
    BY <1>0, <2>1 DEF Policy
  <2> QED BY <2>1, <2>2, SameRemembered, IdleHonours
<1>4. CASE ReviewKept
  <2>1. disk' = mem' /\ UNCHANGED <<base, mem, pending, answered>>
    BY <1>4 DEF ReviewKept
  <2> QED BY <2>1, SameRemembered, IdleHonours
<1>5. CASE RequestAbort
  <2>1. /\ mem' = [mem EXCEPT !.abort = TRUE] /\ disk' = mem'
        /\ UNCHANGED <<base, pending, answered>>
    BY <1>5 DEF RequestAbort
  <2>2. mem'.decisions = mem.decisions
    BY <1>0, <2>1 DEF Policy
  <2>3. Settled(mem') = Settled(mem)
    BY <2>2 DEF Settled, Decided
  <2>4. Remembered'
    BY <2>1, <2>3, RememberedNext DEF Remembered
  <2> QED BY <2>1, <2>4, IdleHonours
<1>6. CASE Restart
  <2>1. /\ mem' = [disk EXCEPT !.workspace = FALSE] /\ disk' = mem'
        /\ UNCHANGED <<base, answered>> /\ pending' = [t \in Tokens |-> {}]
    BY <1>6 DEF Restart
  <2>2. mem'.decisions = disk.decisions
    BY <1>0, <2>1 DEF Policy
  <2>3. Settled(mem') = Settled(disk)
    BY <2>2 DEF Settled, Decided
  <2>4. Remembered'
    BY <2>1, <2>3, RememberedNext DEF Remembered
  <2> QED BY <2>1, <2>4, IdleHonours
<1>7. CASE \E t \in Tokens : ApproveOverlap(t)
  <2>1. PICK t \in Tokens :
          /\ pending' = [pending EXCEPT ![t] = {}]
          /\ UNCHANGED <<base, mem, disk, answered>>
    BY <1>7 DEF ApproveOverlap
  <2>2. \A s \in Tokens : pending'[s] \subseteq pending[s]
    BY <1>0, <2>1
  <2> QED BY <2>1, <2>2, SameRemembered, IdleHonours
<1> QED BY <1>1, <1>2, <1>3, <1>4, <1>5, <1>6, <1>7

\* A turn boundary: nothing kept is applied, nothing at all once an abort is
\* approved, and a token asks only about names without a decision.
LEMMA FinalizeHonours ==
  ASSUME Inv, Remembered,
         \/ \E defaultKeep \in BOOLEAN : FinalizeTurn(defaultKeep)
         \/ FinalizeHeld \/ FinalizeError
  PROVE  Remembered' /\ HonoursAnswers
<1>0. /\ mem \in Policy /\ pending \in [Tokens -> SUBSET Names]
      /\ Changes \subseteq Names
  BY ChangesArePaths, TurnAssumption DEF Inv, TypeOK
<1>1. ASSUME NEW defaultKeep \in BOOLEAN, FinalizeTurn(defaultKeep)
      PROVE  Remembered' /\ HonoursAnswers
  <2>1. PICK done \in Accepted(Eligible) :
          /\ Applies(done)
          /\ mem' = IF defaultKeep
                    THEN Marked(AfterApply(mem, Eligible, done), NewOutOfScope, "kept")
                    ELSE AfterApply(mem, Eligible, done)
          /\ answered' = answered \cup Eligible
                           \cup (IF defaultKeep THEN NewOutOfScope ELSE {})
    BY <1>1 DEF FinalizeTurn
  <2>2. /\ done \in SUBSET Eligible /\ done \in SUBSET Changes
        /\ Eligible \subseteq Names /\ NewOutOfScope \subseteq Names
    BY <1>0, EligibleAreChanges, OutOfScopeAreNames DEF Accepted, NewOutOfScope
  <2>3. disk' = mem' /\ ~mem.abort
    BY <1>1 DEF FinalizeTurn, MayFinalize
  <2> DEFINE p == AfterApply(mem, Eligible, done)
  <2>4. p \in Policy /\ Settled(p) = Settled(mem) \cup Eligible
    BY <1>0, <2>2, AfterApplyPolicy, AfterApplySettled
  <2> HIDE DEF p
  <2> DEFINE q == Marked(p, NewOutOfScope, "kept")
  <2>5. Settled(q) = Settled(p) \cup NewOutOfScope
    BY <2>2, <2>4, MarkedSettled DEF Decisions
  <2> HIDE DEF q
  <2>6. mem' = IF defaultKeep THEN q ELSE p
    BY <2>1 DEF p, q
  <2>7. answered' \subseteq Settled(mem')
    BY <2>1, <2>4, <2>5, <2>6 DEF Remembered
  <2>8. Remembered'
    BY <2>3, <2>7, RememberedNext
  <2>9. \A x \in Paths : base'[x] # base[x] => x \in done
    BY <2>1, <2>2, AppliesWrote DEF Inv, Wrote
  <2>10. KeptStays
    BY <2>2, <2>9, EligibleIsNotKept DEF KeptStays
  <2>11. AbortStops
    BY <2>3 DEF AbortStops, Remembered
  <2>12. NewOutOfScope \cap answered = {}
    BY DEF NewOutOfScope, Remembered, Settled
  <2>13. \/ pending' = pending
         \/ \E t \in Tokens : pending' = [pending EXCEPT ![t] = NewOutOfScope]
    BY <1>1 DEF FinalizeTurn
  <2>14. NotAskedAgain
    BY <1>0, <2>12, <2>13 DEF NotAskedAgain
  <2> QED BY <2>8, <2>10, <2>11, <2>14 DEF HonoursAnswers
<1>2. CASE FinalizeHeld
  <2>1. /\ mem' = Marked(mem, Changes, "kept") /\ disk' = mem'
        /\ answered' = answered \cup Changes /\ UNCHANGED <<base, pending>>
    BY <1>2 DEF FinalizeHeld
  <2>2. Settled(mem') = Settled(mem) \cup Changes
    BY <1>0, <2>1, MarkedSettled DEF Decisions
  <2>3. Remembered'
    BY <2>1, <2>2, RememberedNext DEF Remembered
  <2> QED BY <2>1, <2>3, IdleHonours
<1>3. CASE FinalizeError
  <2>1. PICK done \in SUBSET Eligible : Applies(done)
    BY <1>3 DEF FinalizeError
  <2>2. done \in SUBSET Changes
    BY EligibleAreChanges
  <2>3. UNCHANGED <<mem, disk, pending, answered>> /\ ~mem.abort
    BY <1>3 DEF FinalizeError, MayFinalize
  <2>4. \A x \in Paths : base'[x] # base[x] => x \in done
    BY <2>1, <2>2, AppliesWrote DEF Inv, Wrote
  <2>5. KeptStays
    BY <2>4, EligibleIsNotKept DEF KeptStays
  <2>6. AbortStops /\ NotAskedAgain
    BY <2>3 DEF AbortStops, NotAskedAgain, Remembered
  <2>7. Remembered'
    BY <2>3, SameRemembered
  <2> QED BY <2>5, <2>6, <2>7 DEF HonoursAnswers
<1> QED BY <1>1, <1>2, <1>3

\* The user's answer: what it writes was asked for in this step, and what it
\* decided is remembered however it ends.
LEMMA ResolveHonours ==
  ASSUME Inv, Remembered, NEW C \in SUBSET Names, NEW K \in SUBSET Names,
         NEW D \in SUBSET Names, C \cap D = {}, K \cap D = {},
         ResolveAny(C, K, D), \A t \in Tokens : pending'[t] \subseteq pending[t]
  PROVE  Remembered' /\ HonoursAnswers
<1>0. mem \in Policy /\ asked' = C /\ TypeOK
  BY DEF Inv, TypeOK, ResolveAny, Resolve, ResolveCommitError, ResolveRevoked,
         ResolveDiscardError, Answer
<1>1. ASSUME NEW done \in SUBSET (C \cap Changes), Applies(done)
      PROVE  HonoursAnswers
  <2>1. \A x \in Paths : base'[x] # base[x] => x \in asked'
    BY <1>0, <1>1, AppliesWrote DEF Wrote
  <2> QED BY <2>1 DEF HonoursAnswers, KeptStays, AbortStops, NotAskedAgain
<1>2. CASE Resolve(C, K, D)
  <2>1. PICK done \in Accepted(C \cap Changes) :
          /\ Applies(done)
          /\ mem' = Marked(CommitAndKeep(C, K, done), D, "none")
    BY <1>2 DEF Resolve
  <2>2. done \in SUBSET (C \cap Changes) /\ done \in SUBSET Paths
    BY ChangesArePaths DEF Accepted
  <2> DEFINE p == CommitAndKeep(C, K, done)
  <2>3. p \in Policy /\ Settled(p) = Settled(mem) \cup K \cup (C \cap Changes)
    BY <1>0, <2>2, CommitAndKeepPolicy, CommitAndKeepSettled
  <2> HIDE DEF p
  <2>4. Settled(Marked(p, D, "none")) = Settled(p) \ D
    BY <2>3, MarkedSettled DEF Decisions
  <2>5. Settled(mem') = (Settled(mem) \cup K \cup (C \cap Changes)) \ D
    BY <2>1, <2>3, <2>4 DEF p
  <2>6. disk' = mem' /\ answered' = (answered \ D) \cup K \cup (C \cap Changes)
    BY <1>2 DEF Resolve
  <2>7. Remembered'
    BY <2>5, <2>6, RememberedNext DEF Remembered
  <2> QED BY <1>1, <2>1, <2>2, <2>7
<1>3. CASE ResolveDiscardError(C, K, D)
  <2>1. PICK done \in Accepted(C \cap Changes) :
          /\ Applies(done)
          /\ mem' = CommitAndKeep(C, K, done)
    BY <1>3 DEF ResolveDiscardError
  <2>2. done \in SUBSET (C \cap Changes)
    BY DEF Accepted
  <2>3. /\ Settled(mem') = Settled(mem) \cup K \cup (C \cap Changes)
        /\ mem'.abort = mem.abort
    BY <1>0, <2>1, CommitAndKeepSettled
  <2>4. disk' = disk /\ answered' = answered \ D
    BY <1>3 DEF ResolveDiscardError
  <2>5. Remembered'
    BY <2>3, <2>4, RememberedNext DEF Remembered
  <2> QED BY <1>1, <2>1, <2>2, <2>5
<1>4. CASE ResolveCommitError(C, K, D)
  <2>1. PICK done \in SUBSET (C \cap Changes) : Applies(done)
    BY <1>4 DEF ResolveCommitError
  <2>2. UNCHANGED <<mem, disk, answered>>
    BY <1>4 DEF ResolveCommitError
  <2> QED BY <1>1, <2>1, <2>2, SameRemembered
<1>5. CASE ResolveRevoked(C, K, D)
  <2>1. /\ mem' = [mem EXCEPT !.workspace = FALSE] /\ disk' = mem'
        /\ UNCHANGED <<base, answered>>
    BY <1>5 DEF ResolveRevoked
  <2>2. mem'.decisions = mem.decisions /\ mem'.abort = mem.abort
    BY <1>0, <2>1 DEF Policy
  <2> QED BY <2>1, <2>2, SameRemembered, IdleHonours
<1> QED BY <1>2, <1>3, <1>4, <1>5 DEF ResolveAny

\* The two ways to answer, under a token or about kept paths.
LEMMA AnswerHonours ==
  ASSUME Inv, Remembered,
         \/ \E t \in Tokens, C, D \in SUBSET Names : ApproveTurn(t, C, D)
         \/ \E paths \in SUBSET Paths : ResolveTurn(paths)
  PROVE  Remembered' /\ HonoursAnswers
<1>0. pending \in [Tokens -> SUBSET Names]
  BY DEF Inv, TypeOK
<1>1. ASSUME NEW t \in Tokens, NEW C \in SUBSET Names, NEW D \in SUBSET Names,
             ApproveTurn(t, C, D)
      PROVE  Remembered' /\ HonoursAnswers
  <2>1. PICK K \in SUBSET Names : K = pending[t] \ (C \cup D)
    BY <1>0
  <2>2. /\ ResolveAny(C, K, D) /\ C \cap D = {}
        /\ pending' = [pending EXCEPT ![t] = {}]
    BY <1>1, <2>1 DEF ApproveTurn
  <2>3. K \cap D = {} /\ \A s \in Tokens : pending'[s] \subseteq pending[s]
    BY <1>0, <2>1, <2>2
  <2> QED BY <2>2, <2>3, ResolveHonours
<1>2. ASSUME NEW paths \in SUBSET Paths, ResolveTurn(paths)
      PROVE  Remembered' /\ HonoursAnswers
  <2>1. paths \in SUBSET Names /\ {} \in SUBSET Names
    BY TurnAssumption
  <2>2. /\ \/ ResolveAny(paths, {}, {}) \/ ResolveAny({}, paths, {})
           \/ ResolveAny({}, {}, paths)
        /\ \A t \in Tokens : pending'[t] \subseteq pending[t]
    BY <1>2 DEF ResolveTurn
  <2>3. CASE ResolveAny(paths, {}, {})
    BY <2>1, <2>2, <2>3, ResolveHonours
  <2>4. CASE ResolveAny({}, paths, {})
    BY <2>1, <2>2, <2>4, ResolveHonours
  <2>5. CASE ResolveAny({}, {}, paths)
    BY <2>1, <2>2, <2>5, ResolveHonours
  <2> QED BY <2>2, <2>3, <2>4, <2>5
<1> QED BY <1>1, <1>2

\* The session end writes only when no abort was approved, and then the
\* session is over.
LEMMA SessionEndHonours ==
  ASSUME Inv, Remembered, NEW blocked \in BOOLEAN,
         SessionEnd(blocked) \/ SessionEndCommit(blocked)
           \/ SessionEndError(blocked)
  PROVE  Remembered' /\ HonoursAnswers
<1>0. UNCHANGED <<mem, disk, pending, answered>>
  BY DEF SessionEnd, SessionEndCommit, SessionEndError
<1>1. Remembered'
  BY <1>0, SameRemembered
<1>2. CASE SessionEnd(blocked)
  BY <1>0, <1>1, <1>2, IdleHonours DEF SessionEnd
<1>3. CASE SessionEndCommit(blocked) \/ SessionEndError(blocked)
  <2>1. outcome' # "none"
    BY <1>3 DEF SessionEndCommit, SessionEndError
  <2>2. EndDecision(blocked) = "auto-committed"
    BY <1>3 DEF SessionEndCommit, SessionEndError
  <2>3. ~disk.abort
    BY <2>2 DEF EndDecision, Remembered
  <2> QED BY <1>0, <1>1, <2>1, <2>3
          DEF HonoursAnswers, KeptStays, AbortStops, NotAskedAgain
<1> QED BY <1>2, <1>3

\* Every step remembers the answers and honours them.
LEMMA NextHonours ==
  Inv /\ Remembered /\ [Next]_vars => Remembered' /\ HonoursAnswers
<1> SUFFICES ASSUME Inv, Remembered, [Next]_vars
             PROVE  Remembered' /\ HonoursAnswers
  OBVIOUS
<1>1. CASE UNCHANGED vars
  <2>1. UNCHANGED <<base, mem, disk, pending, answered>>
    BY <1>1 DEF vars
  <2> QED BY <2>1, SameRemembered, IdleHonours
<1>2. CASE Next
  BY <1>2, OthersHonour, FinalizeHonours, AnswerHonours, SessionEndHonours
  DEF Next
<1> QED BY <1>1, <1>2

\* Every answer is remembered throughout.
LEMMA RememberedHolds == Spec => [](Inv /\ Remembered)
<1>1. Init => Remembered
  BY DEF Init, Remembered
<1> QED BY <1>1, NextHonours, InvHolds, PTL DEF Spec

\* While the session lives a kept path reaches the underlay only in a step in
\* which the user asks for it (finalize_turn skips what was decided as kept;
\* turn-approve and turn-resolve apply what the answer names).
THEOREM KeptRemainsInBranch == Spec => KeptStaysInBranch
<1>1. HonoursAnswers
        => [\A x \in Decided(mem, "kept") \cap Paths :
              base'[x] # base[x] /\ outcome' = "none" => x \in asked']_base
  BY DEF HonoursAnswers, KeptStays
<1> QED BY <1>1, NextHonours, RememberedHolds, PTL DEF Spec, KeptStaysInBranch

\* After an approved abort, in this process or before a crash, only an
\* explicit answer of the user still writes to the underlay (request_abort
\* saves; finalize_turn and finalize_session look at the flag).
THEOREM AbortIsHonoured == Spec => AbortStopsCommits
<1>1. HonoursAnswers
        => [disk.abort => \A x \in Paths : base'[x] # base[x] => x \in asked']_base
  BY DEF HonoursAnswers, AbortStops
<1> QED BY <1>1, NextHonours, RememberedHolds, PTL DEF Spec, AbortStopsCommits

\* No token asks again about a path that an operation decided and that was not
\* discarded since, restarts included (turn_path_decisions in session.json).
THEOREM AnswersAreFinal == Spec => AnsweredIsNotAskedAgain
<1>1. HonoursAnswers
        => [\A t \in Tokens : (pending'[t] \ pending[t]) \cap answered = {}]_pending
  BY DEF HonoursAnswers, NotAskedAgain
<1> QED BY <1>1, NextHonours, RememberedHolds, PTL
        DEF Spec, AnsweredIsNotAskedAgain
============================================================================
