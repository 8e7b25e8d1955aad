CONSTANTS
  Routes = {r1, r2}
  Keys = {k1, k2}
  Thread <- MCThread
  Roots <- MCRoots
  Paths <- MCPaths
  RootOf <- MCRootOf
  Scope <- MCScope
  Admissions <- MCAdmissions
  None = None
  Shared = Shared
  MaxFaults = 1
  MaxRestarts = 1
SPECIFICATION Spec
VIEW MCView
SYMMETRY MCSymmetry
INVARIANTS ActiveRoutesAreServed MergedMeansEveryRoot OneLiveRoutePerKey
PROPERTIES NoRoutedWriteLost 
CHECK_DEADLOCK FALSE
