-------------------------- MODULE McpConnections --------------------------
(***************************************************************************)
(* The connections to MCP servers of core (context/mcp/MCPManagerSingleton *)
(* and MCPConnection) and the loop they form with the configuration: a     *)
(* load of the configuration (ProfileLifecycleManager, doLoadConfig,       *)
(* loadYaml) tells the manager which servers there are and takes the tools *)
(* of those that are connected; when the manager has refreshed its         *)
(* connections, core reloads the configuration.                            *)
(*                                                                         *)
(* Loads, refreshes and attempts to connect are promises on one thread,    *)
(* and interleave at their awaits.  An attempt goes on when it is aborted: *)
(* only those who wait for it are released.  What the attempt of a         *)
(* connection that was removed does later changes an object nobody reads,  *)
(* and is left out.                                                        *)
(***************************************************************************)
EXTENDS Integers, FiniteSets

CONSTANTS
  Server,    \* the names of the servers
  Try,       \* names of the attempts of one connection (a bound)
  Refresh,   \* names of the refreshes under way (a bound)
  Load,      \* names of the loads under way (a bound)
  MaxOps,    \* how often the user does something (a bound)
  Operation, \* what the user does: "edit", "reconnect", "disable", "enable"
  Slow       \* the servers that can be slower than the timeout

ASSUME BoundsAssumption ==
  /\ Try \subseteq Nat \ {0} /\ Refresh \subseteq Nat /\ Load \subseteq Nat
  /\ MaxOps \in Nat /\ Slow \subseteq Server

VARIABLES
  wanted,     \* the servers the configuration file lists
  map,        \* the keys of MCPManagerSingleton.connections
  status,     \* MCPConnection.status
  promise,    \* MCPConnection.connectionPromise: an attempt, or 0 for null
  transport,  \* the connections that have been given a real transport
  closing,    \* the connections disconnect() is closing
  at,         \* where each attempt is
  waits,      \* the attempts each refresh waits for
  refreshing, \* the refreshes under way
  phase,      \* where each load is
  servers,    \* the servers the file listed when a load read it
  tools,      \* the servers whose tools a load found
  saved,      \* those of savedConfigResult
  toasts,     \* notices "Config updated" that the user has not closed
  ops         \* how often the user did something so far

connectionVars == <<status, promise, transport, closing, at>>
loadVars == <<phase, servers, tools, saved>>
userVars == <<toasts, ops>>
vars == <<wanted, map, connectionVars, waits, refreshing, loadVars, userVars>>

Attempt == Server \X Try
Status == {"not-connected", "connecting", "connected", "error", "disabled"}

(* Every variable has its type. *)
TypeOK ==
  /\ wanted \in SUBSET Server
  /\ map \in SUBSET Server
  /\ status \in [Server -> Status]
  /\ promise \in [Server -> Try \cup {0}]
  /\ transport \in SUBSET Server
  /\ closing \in SUBSET map
  /\ at \in [Attempt -> {"free", "trying", "late"}]
  /\ waits \in [Refresh -> SUBSET Attempt]
  /\ refreshing \in SUBSET Refresh
  /\ phase \in [Load -> {"free", "reading", "read", "applied", "built"}]
  /\ servers \in [Load -> SUBSET Server]
  /\ tools \in [Load -> SUBSET Server]
  /\ saved \in SUBSET Server
  /\ toasts \in Nat
  /\ ops \in 0 .. MaxOps

(* The least free name. *)
FreeTry(s, k) ==
  at[<<s, k>>] = "free" /\ \A j \in Try : at[<<s, j>>] = "free" => k <= j

FreeRefresh(r) ==
  r \in Refresh \ refreshing /\ \A q \in Refresh \ refreshing : r <= q

FreeLoad(l) ==
  phase[l] = "free" /\ \A m \in Load : phase[m] = "free" => l <= m

(* The first load of the configuration has begun. *)
Init ==
  /\ wanted \in SUBSET Server
  /\ map = {}
  /\ status = [s \in Server |-> "not-connected"]
  /\ promise = [s \in Server |-> 0]
  /\ transport = {}
  /\ closing = {}
  /\ at = [a \in Attempt |-> "free"]
  /\ waits = [r \in Refresh |-> {}]
  /\ refreshing = {}
  /\ \E first \in Load :
       /\ \A l \in Load : first <= l
       /\ phase = [l \in Load |-> IF l = first THEN "reading" ELSE "free"]
  /\ servers = [l \in Load |-> {}]
  /\ tools = [l \in Load |-> {}]
  /\ saved = {}
  /\ toasts = 0
  /\ ops = 0

-----------------------------------------------------------------------------
(* Connecting. *)

(* connectClient() begins an attempt of each of the connections "start", and  *)
(* the refresh r waits for them; the waits for the attempts "aborted" end.    *)
Connect(start, aborted, gone, r) ==
  \E new \in [start -> Try] :
    LET begun == {<<s, new[s]>> : s \in start}
    IN /\ FreeRefresh(r)
       /\ \A s \in start : FreeTry(s, new[s])
       /\ status' = [s \in Server |-> IF s \in start THEN "connecting"
                                      ELSE IF s \in gone THEN "not-connected"
                                      ELSE status[s]]
       /\ promise' = [s \in Server |-> IF s \in start THEN new[s]
                                       ELSE IF s \in gone THEN 0 ELSE promise[s]]
       /\ at' = [a \in Attempt |-> IF a \in begun THEN "trying"
                                   ELSE IF a[1] \in gone THEN "free" ELSE at[a]]
       /\ waits' = [q \in Refresh |-> IF q = r THEN begun ELSE waits[q] \ aborted]
       /\ refreshing' = refreshing \cup {r}

(* connectClient() does nothing for a server that is disabled, nor, unless    *)
(* forced, for one that is connected; and when a connection is in progress,   *)
(* it waits for that one, unless forced.                                      *)
Connects(s, force) ==
  /\ status[s] # "disabled"
  /\ ~force => status[s] # "connected" /\ promise[s] = 0

(* refreshConnections(false): the refresh before is aborted first, which ends  *)
(* all waits for attempts under way, those of this refresh for a connection    *)
(* in progress included.                                                       *)
RefreshConnections(keys) ==
  \E r \in Refresh :
    Connect({s \in keys : Connects(s, FALSE)}, Attempt, map \ keys, r)

(* refreshConnection(s): forced.  The attempt that was in progress is aborted, *)
(* and goes on.                                                                *)
RefreshConnection(s) ==
  LET start == {t \in {s} : Connects(t, TRUE)}
  IN \E r \in Refresh : Connect(start, start \X Try, {}, r)

(* A mutant: only the attempt of the current promise sets the status.         *)
EndsQuietly(a, result, next) ==
  /\ at[a] = "trying"
  /\ at' = [at EXCEPT ![a] = next]
  /\ status' = [status EXCEPT ![a[1]] = IF promise[a[1]] = a[2] THEN result ELSE @]
  /\ promise' = [promise EXCEPT ![a[1]] = 0]
  /\ waits' = [r \in Refresh |-> waits[r] \ {a}]

(* An attempt ends for those who wait.  connectionPromise is null from then   *)
(* on, also when it is that of a later attempt.                               *)
Ends(a, result, next) ==
  /\ at[a] = "trying"
  /\ at' = [at EXCEPT ![a] = next]
  /\ status' = [status EXCEPT ![a[1]] = result]
  /\ promise' = [promise EXCEPT ![a[1]] = 0]
  /\ waits' = [r \in Refresh |-> waits[r] \ {a}]

Connected(a) ==
  /\ Ends(a, "connected", "free")
  /\ transport' = transport \cup {a[1]}
  /\ UNCHANGED <<wanted, map, closing, refreshing, loadVars, userVars>>

(* It can have a transport by then, but no answer of the server. *)
Failed(a) ==
  /\ Ends(a, "error", "free")
  /\ transport' \in {transport, transport \cup {a[1]}}
  /\ UNCHANGED <<wanted, map, closing, refreshing, loadVars, userVars>>

(* The attempt is given up after the timeout, but goes on. *)
TimedOut(a) ==
  /\ a[1] \in Slow
  /\ Ends(a, "error", "late")
  /\ transport' \in {transport, transport \cup {a[1]}}
  /\ UNCHANGED <<wanted, map, closing, refreshing, loadVars, userVars>>

(* Nobody waits for its end any more, which can still set the status. *)
LateEnd(a) ==
  /\ at[a] = "late"
  /\ at' = [at EXCEPT ![a] = "free"]
  /\ \/ /\ status' = [status EXCEPT ![a[1]] = "connected"]
        /\ transport' = transport \cup {a[1]}
     \/ UNCHANGED <<status, transport>>
  /\ UNCHANGED <<wanted, map, promise, closing, waits, refreshing, loadVars, userVars>>

-----------------------------------------------------------------------------
(* The configuration. *)

(* reloadConfig(): the saved configuration is dropped, and a load begins. *)
ReloadConfig ==
  /\ \E l \in Load : FreeLoad(l) /\ phase' = [phase EXCEPT ![l] = "reading"]
  /\ saved' = {}
  /\ UNCHANGED <<servers, tools>>

(* All a refresh waits for is over, or it was aborted: either way it calls     *)
(* onConnectionsRefreshed, which reloads the configuration.                    *)
Notify(r) ==
  /\ r \in refreshing /\ waits[r] = {}
  /\ refreshing' = refreshing \ {r}
  /\ ReloadConfig
  /\ UNCHANGED <<wanted, map, connectionVars, waits, userVars>>

(* A load has read the file ... *)
Read(l) ==
  /\ phase[l] = "reading"
  /\ phase' = [phase EXCEPT ![l] = "read"]
  /\ servers' = [servers EXCEPT ![l] = wanted]
  /\ UNCHANGED <<wanted, map, connectionVars, waits, refreshing, tools, saved, userVars>>

(* A mutant: the connections are refreshed although nothing was changed. *)
SetConnectionsAlways(l) ==
  /\ phase[l] = "read"
  /\ phase' = [phase EXCEPT ![l] = "applied"]
  /\ map' = servers[l]
  /\ transport' = transport \cap map'
  /\ closing' = closing \cap map'
  /\ RefreshConnections(servers[l])
  /\ UNCHANGED <<wanted, servers, tools, saved, userVars>>

(* A mutant: what disconnect() was doing with a removed connection goes on. *)
SetConnectionsClosing(l) ==
  /\ phase[l] = "read"
  /\ phase' = [phase EXCEPT ![l] = "applied"]
  /\ map' = servers[l]
  /\ transport' = transport \cap map'
  /\ IF servers[l] = map
       THEN UNCHANGED <<status, promise, at, waits, refreshing>>
       ELSE RefreshConnections(servers[l])
  /\ UNCHANGED <<wanted, closing, servers, tools, saved, userVars>>

(* ... and calls setConnections(): connections that are no longer listed are   *)
(* closed and removed, new ones are added, and if there were any, all are      *)
(* refreshed, which nobody waits for.                                          *)
SetConnections(l) ==
  /\ phase[l] = "read"
  /\ phase' = [phase EXCEPT ![l] = "applied"]
  /\ map' = servers[l]
  /\ transport' = transport \cap map'
  /\ closing' = closing \cap map'
  /\ IF servers[l] = map
       THEN UNCHANGED <<status, promise, at, waits, refreshing>>
       ELSE RefreshConnections(servers[l])
  /\ UNCHANGED <<wanted, servers, tools, saved, userVars>>

(* doLoadConfig() takes the tools of the servers that are connected ... *)
Build(l) ==
  /\ phase[l] = "applied"
  /\ phase' = [phase EXCEPT ![l] = "built"]
  /\ tools' = [tools EXCEPT ![l] = {s \in map : status[s] = "connected"}]
  /\ UNCHANGED <<wanted, map, connectionVars, waits, refreshing, servers, saved, userVars>>

(* ... and its result is saved, whatever was loaded in the meantime. *)
Save(l) ==
  /\ phase[l] = "built"
  /\ phase' = [phase EXCEPT ![l] = "free"]
  /\ saved' = tools[l]
  /\ servers' = [servers EXCEPT ![l] = {}]
  /\ tools' = [tools EXCEPT ![l] = {}]
  /\ UNCHANGED <<wanted, map, connectionVars, waits, refreshing, userVars>>

-----------------------------------------------------------------------------
(* What the user does. *)

Does(operation) ==
  /\ operation \in Operation
  /\ ops < MaxOps
  /\ ops' = ops + 1

(* The configuration file is saved with other servers in it: a notice tells    *)
(* of it, ...                                                                  *)
Edit ==
  /\ Does("edit")
  /\ wanted' \in SUBSET Server \ {wanted}
  /\ toasts' = toasts + 1
  /\ UNCHANGED <<map, connectionVars, waits, refreshing, loadVars>>

(* ... and when it is closed, or need not be shown, the configuration is       *)
(* reloaded.                                                                   *)
CloseToast ==
  /\ toasts > 0
  /\ toasts' = toasts - 1
  /\ ReloadConfig
  /\ UNCHANGED <<wanted, map, connectionVars, waits, refreshing, ops>>

(* mcp/reloadServer *)
Reconnect(s) ==
  /\ Does("reconnect")
  /\ s \in map
  /\ RefreshConnection(s)
  /\ UNCHANGED <<wanted, map, transport, closing, loadVars, toasts>>

(* mcp/setServerEnabled with false: disconnect() aborts the attempts, closes   *)
(* the client, ...                                                             *)
Disable(s) ==
  /\ Does("disable")
  /\ s \in map \ closing
  /\ closing' = closing \cup {s}
  /\ waits' = [r \in Refresh |-> waits[r] \ ({s} \X Try)]
  /\ UNCHANGED <<wanted, map, status, promise, transport, at, refreshing, loadVars,
                 toasts>>

(* ... then the transport, which a connection that never had one has no        *)
(* method for: that error is caught, and the status is left as it was.         *)
Disabled(s) ==
  /\ s \in closing
  /\ closing' = closing \ {s}
  /\ status' = IF s \in transport THEN [status EXCEPT ![s] = "disabled"] ELSE status
  /\ UNCHANGED <<wanted, map, promise, transport, at, waits, refreshing, loadVars, userVars>>

(* mcp/setServerEnabled with true: the status is "not-connected" when the      *)
(* connection is refreshed, so that this does connect.                         *)
Enable(s) ==
  /\ Does("enable")
  /\ s \in map
  /\ \E r \in Refresh : Connect({s}, {s} \X Try, {}, r)
  /\ UNCHANGED <<wanted, map, transport, closing, loadVars, toasts>>

-----------------------------------------------------------------------------
Works ==
  \/ \E a \in Attempt : Connected(a) \/ Failed(a) \/ TimedOut(a) \/ LateEnd(a)
  \/ \E r \in Refresh : Notify(r)
  \/ \E l \in Load : Read(l) \/ SetConnections(l) \/ Build(l) \/ Save(l)
  \/ \E s \in Server : Disabled(s)

User ==
  \/ Edit \/ CloseToast
  \/ \E s \in Server : Reconnect(s) \/ Disable(s) \/ Enable(s)

Next == Works \/ User

(* Attempts time out, and files and servers' prompts are read or fail; the user *)
(* need not do anything.                                                       *)
Spec == Init /\ [][Next]_vars /\ WF_vars(Works)

-----------------------------------------------------------------------------
Quiet ==
  /\ \A a \in Attempt : at[a] = "free"
  /\ refreshing = {} /\ closing = {}
  /\ \A l \in Load : phase[l] = "free"

(* A connection says "connecting" only while an attempt of its own is under   *)
(* way, and a promise that connectClient() would wait for is one that ends,   *)
(* although attempts that were aborted, overtaken or given up go on and set   *)
(* the status and the promise of those after them.                            *)
NoStuckConnecting ==
  \A s \in Server :
    /\ status[s] = "connecting" => \E k \in Try : at[<<s, k>>] = "trying"
    /\ promise[s] # 0 => at[<<s, promise[s]>>] = "trying"

(* Loads refresh the connections, and refreshes load the configuration: this   *)
(* comes to an end, and then, unless a notice is still open, the manager has    *)
(* the servers the file lists, also when loads that read older files were the   *)
(* last to be applied.                                                         *)
Converges == <>[](Quiet /\ (toasts = 0 => map = wanted))

(* "Config is reloaded again once connected!": when all is quiet, the tools of *)
(* the servers that are connected are in the saved configuration.              *)
ToolsArrive ==
  Quiet /\ toasts = 0 => \A s \in map : status[s] = "connected" => s \in saved
=============================================================================
