SPECIFICATION Spec
CONSTANTS
  Threads = {t1, t2}
  Conversations = {c1, c2}
  RootSet = rootSet
  MaxChanges = 3
  MaxCalls = 2
  Methods <- MCMethods
  MaxRequests = 3
  NoThread = NoThread
  Workspaces = {w1, w2}
  MaxGenerations = 3
  NoWorkspace = NoWorkspace
INVARIANTS ShownIsSettledInForeground
CHECK_DEADLOCK FALSE
