CONSTANTS
  config = config
  mcp = mcp
  tools = tools
  Service <- MCService
  Deps <- MCDeps
  Upstream <- MCUpstream
  Affected <- MCAffected
  Registered <- MCRegistered
  Sets <- MCSets
  Reloaded <- MCService
  Source = {config, mcp}
  Slot = {1, 2, 3}
  Client = {c1}
  MaxCalls = 2
SPECIFICATION Spec
PROPERTY DependenciesFirst
CHECK_DEADLOCK FALSE
