--------------------------- MODULE MCTurnControl ---------------------------
(* Instances of TurnControl for TLC: "code" lies in the operator's scope,   *)
(* where a deny pattern matches it in the passing instances, "shared" lies  *)
(* under the client's workspace and outside of every scope without it.      *)
EXTENDS TurnControl, TLC

MCCode == {"code"}
MCSharePaths == {"code", "shared"}
MCShareCanon == [x \in MCSharePaths |-> x]
MCShared == {"shared"}

\* A root that is visible at an alias, as `ccc-agent setup' configures it in
\* user mode: visible /home/<user>, canonical /storage/user.
MCHomePaths == {"home/code", "home/notes"}
MCHomeNames == MCHomePaths \cup {"storage/code", "storage/notes"}
MCHomeCanon == [x \in MCHomePaths |-> IF x = "home/code" THEN "storage/code"
                                                         ELSE "storage/notes"]
MCHomeCode == {"home/code"}

\* The approval tokens are interchangeable.
MCSymmetry == Permutations(Tokens)

\* What the properties tell apart: `asked' is read in the state after a step
\* only, the two kinds of authority only together, and `skipped' only for a
\* path the underlay does not have.  Nothing follows the end of the session.
MCView ==
  <<base, mem, disk, outcome, {x \in skipped : base[x] = 0},
    IF Running THEN <<live, pending, answered, granted \cup consented>>
               ELSE <<>>>>
============================================================================
