\* One command at a time on the session: errors, crashes and reboots at every step.
CONSTANTS
  Procs = {p1}
  Roots <- MCRoots
  Paths <- MCPaths
  RootOf <- MCRootOf
  InScope <- MCInScope
  Ignored <- MCIgnored
  Deniable <- MCCode
  Mode = "workspace-auto"
  ServerMode = TRUE
  LiveCommands = {}
  MayCrash = TRUE
  MaxVersion = 2
SPECIFICATION Spec
INVARIANTS TypeOK WorkIsAccountedFor AgentRunsOnOpenBundle
PROPERTIES OutOfScopeNeedsOperator
CHECK_DEADLOCK FALSE
