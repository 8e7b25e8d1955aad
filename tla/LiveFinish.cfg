\* `finish' races a live supervisor and its agent.
CONSTANTS
  Procs = {p1, p2}
  Roots <- MCRoots
  Paths <- MCReviewable
  RootOf <- MCReviewableRootOf
  InScope <- MCCode
  Ignored = {}
  Deniable <- MCCode
  Mode = "workspace-auto"
  ServerMode = FALSE
  LiveCommands = {"finish"}
  MayCrash = TRUE
  MaxVersion = 2
SPECIFICATION Spec
INVARIANTS NoWorkLost ClosedOwesNothing
PROPERTIES ReviewedBranchIsStable
CHECK_DEADLOCK FALSE
