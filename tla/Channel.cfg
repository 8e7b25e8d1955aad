CONSTANTS
  Conns <- MCConns
  Servers <- MCServers
  Client = client
  Runner = runner
  Tool = tool
  ToolOps = {"mcp-admit", "decide", "plain"}
  Agents = {"codex", "hermes"}
  Wrapper = TRUE
  None = None
SPECIFICATION FairSpec
INVARIANTS TypeOK DecidesAlone LateRevocationSparesLive LostRootsAreRevoked
PROPERTIES PinIsFreed
CHECK_DEADLOCK FALSE
