--------------------------- MODULE MCDeltaRoutes ---------------------------
(* Instances of DeltaRoutes for TLC: two protected roots, a path in one of  *)
(* them that may be admitted or not, and two transport incarnations of one  *)
(* thread, or one that starts its session twice.                            *)
EXTENDS DeltaRoutes, TLC

MCThread == [k \in Keys |-> "thread"]
MCRoots == {"home", "group"}
MCPaths == {"code"}
MCRootOf == [p \in MCPaths |-> "home"]
MCScope == {}
MCAdmissions == {{}, {"code"}}
\* All variables but base: no action reads it, and NoRoutedWriteLost looks only
\* at what the closing step itself makes of it.
MCView == <<mem, disk, child, mounted, delta, bound, outer, snap, op, phase,
            drain, waiting, status, faults, restarts>>
MCSymmetry == Permutations(Routes) \cup Permutations(Keys)
============================================================================
