\* A hook, two logical sessions, a client without sessions, approvals and relaunches in every order.
CONSTANTS
  Dirs <- MCDirs
  Within <- MCWithin
  Static <- MCStatic
  Workspace <- MCStatic
  Hooks = {h1}
  Clients = {c1, c2}
  Transports = {"mcp"}
  TransportOf <- MCTransportOf
  Revocable = {"mcp"}
  MaxGeneration = 1
SPECIFICATION Spec
SYMMETRY MCSymmetry
INVARIANTS EveryScopeHasAuthority ProposalAllowsNothing RootsAreThoseOfActiveSessions
