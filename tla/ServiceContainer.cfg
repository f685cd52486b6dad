CONSTANTS
  config = config
  mcp = mcp
  tools = tools
  Service <- MCService
  Deps <- MCDeps
  Upstream <- MCUpstream
  Affected <- MCAffected
  Registered <- MCRegistered
  Sets <- MCSets
  Reloaded <- MCService
  Source = {config, mcp}
  Slot = {1, 2, 3}
  Client = {c1, c2}
  MaxCalls = 2
SPECIFICATION Spec
INVARIANT TypeOK
INVARIANT NoOrphanLoading
INVARIANT NoLostWaiter
INVARIANT OneLoadEach
INVARIANT Fresh

PROPERTY AllAnswered
CHECK_DEADLOCK FALSE
