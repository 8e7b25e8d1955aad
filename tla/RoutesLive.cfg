CONSTANTS
  Routes = {r1, r2}
  Keys = {k1}
  Thread <- MCThread
  Roots <- MCRoots
  Paths <- MCPaths
  RootOf <- MCRootOf
  Scope <- MCScope
  Admissions <- MCAdmissions
  None = None
  Shared = Shared
  MaxFaults = 1
  MaxRestarts = 0
SPECIFICATION FairSpec
PROPERTIES ExitIsConcluded
CHECK_DEADLOCK FALSE
