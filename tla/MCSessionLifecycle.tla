----------------------- MODULE MCSessionLifecycle -----------------------
(* Instances of SessionLifecycle for TLC: two protected roots, a path      *)
(* inside the policy scope and an ignored one under the first root, a path *)
(* outside the scope under the second.                                     *)
EXTENDS SessionLifecycle

MCRoots == {"user", "group"}
MCPaths == {"code", "cache", "notes"}
MCRootOf == [x \in MCPaths |-> IF x = "notes" THEN "group" ELSE "user"]
MCInScope == {"code", "cache"}
MCIgnored == {"cache"}
\* Without the ignored path, for the instances with two processes.
MCReviewable == {"code", "notes"}
MCReviewableRootOf == [x \in MCReviewable |-> MCRootOf[x]]
MCCode == {"code"}
=========================================================================
