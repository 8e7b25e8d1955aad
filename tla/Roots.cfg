SPECIFICATION FairSpec
CONSTANTS
  Threads = {t1, t2}
  Conversations = {c1, c2}
  RootSet = rootSet
  MaxChanges = 3
  MaxCalls = 2
  Methods <- MCMethods
  MaxRequests = 3
  NoThread = NoThread
  Workspaces = {w1, w2}
  MaxGenerations = 3
  NoWorkspace = NoWorkspace
INVARIANTS TypeOK ShownIsSettled GrantedIsKnown
PROPERTIES ImplementsRegister McpCatchesUp
CHECK_DEADLOCK FALSE
