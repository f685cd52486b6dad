CONSTANTS
  config = config
  mcp = mcp
  tools = tools
  Service <- MCService
  Deps <- MCDeps
  Upstream <- MCUpstream
  Affected <- MCLate
  Registered <- MCRegistered
  Sets <- MCSets
  Reloaded <- MCService
  Source = {config, mcp}
  Slot = {1, 2, 3}
  Client = {c1}
  MaxCalls = 2
SPECIFICATION Spec
INVARIANT Fresh
CHECK_DEADLOCK FALSE
