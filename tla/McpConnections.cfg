\* Two servers, one of which can be slower than the timeout, and two things the
\* user does.  Two loads, two refreshes and two attempts of a server at a time.
CONSTANTS
  Server = {docs, db}
  Try = {1, 2}
  Refresh = {1, 2}
  Load = {1, 2}
  MaxOps = 2
  Operation = {"edit", "reconnect", "disable", "enable"}
  Slow = {db}
SPECIFICATION Spec
INVARIANTS TypeOK NoStuckConnecting
PROPERTY Converges
CHECK_DEADLOCK FALSE
