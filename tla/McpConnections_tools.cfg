\* The file is edited once while servers connect; none is slower than the timeout, and
\* no two loads overlap.
CONSTANTS
  Server = {docs, db}
  Try = {1, 2}
  Refresh = {1, 2}
  Load = {1}
  MaxOps = 1
  Operation = {"edit"}
  Slow = {}
SPECIFICATION Spec
INVARIANT ToolsArrive
CHECK_DEADLOCK FALSE
