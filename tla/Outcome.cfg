\* No crash, and a periodic `cleanup -a' beside the supervisor.
CONSTANTS
  Procs = {p1, p2}
  Roots <- MCRoots
  Paths <- MCReviewable
  RootOf <- MCReviewableRootOf
  InScope <- MCCode
  Ignored = {}
  Deniable <- MCCode
  Mode = "workspace-auto"
  ServerMode = TRUE
  LiveCommands = {"cleanup"}
  MayCrash = FALSE
  MaxVersion = 1
SPECIFICATION FairSpec
PROPERTIES SupervisorRecordsOutcome
CHECK_DEADLOCK FALSE
